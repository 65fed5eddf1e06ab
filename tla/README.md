# Double Take: a TLA+ model of the sender

Double Take mirrors a Linux or Windows desktop to one or several AirPlay
receivers. A daemon takes `connect`, `disconnect`, PIN and mute requests over a
local socket, authenticates to each receiver, starts a screen encoder, and feeds
the encoder's output to every receiver that can use the same picture. This
directory holds TLA+ modules translated from that code, TLC configurations that
check them on small instances, and TLAPS proofs.

Line numbers below and in `PROJECT.json` ("map") are those of `src/`.

## 1. Inventory

| Part | State | Operations | Talks to | What is hard |
|---|---|---|---|---|
| **Video fan-out** `internal/airplay/capture_broadcast.go` | `sequence`, `stopped`, `exclusive`, `sinks` under `bc.mu`; per sink a queue, byte and duration counts, `inputClosed`, `closed`, `done` under `s.mu` with one condition variable | `AddSink`, `AddBackpressuredSink`, `RemoveSink`, `Run`/`runFrames`, `enqueue`, `finish`, `Read`, `ReadVideoAccessUnit`, `Close` | encoder below, one mirror session per sink above, the daemon adds and removes sinks | the sink set is snapshotted and used with the lock released; producer and reader share a condition variable; a stalled receiver; draining against a timer; partial reads and accounting |
| **Stream lifecycle** `internal/daemon/daemon.go` | `streams`, `captureGroups`, `lastError`, `shuttingDown` under `d.mu`; `captureStartMu`; the `streamWorkers` WaitGroup; the locals of every `connectAndStream` | `handleConnect` (new stream, or a PIN for a prompt), `handleDisconnect`, `Shutdown`, `connectAndStream`, `waitForCredential`, `getOrStartCaptureGroup`, `finishCaptureGroup`, `removeStream`, `daemonCleanup.run` | everything below | each handler releases `d.mu` around network, portal and user waits; an entry may be replaced meanwhile; shared encoders; ownership of resources at teardown; Shutdown at any moment |
| **Audio controls and freeze** `daemon.go:1560-1755` | `audioMuted`, `audioVolume`, frozen flags of an entry | `set-mute`, `set-volume`, `freeze` | receiver round trips with `d.mu` released | one receiver of several fails; the entry is replaced during the round trip |
| **Discovery** `discovery*.go`, `daemon.go` | device list with last-seen times | browse, merge, expire | mDNS, neighbour table | expiry against refresh; two interfaces report the same receiver |
| **Control socket and clients** `control_*.go`, `daemonclient`, `doubletake-ctl` | lock file, socket path | listen, one request per connection | daemon, widget, GUI | stale socket, two daemons |
| **Mirror session: stream** `mirror.go`, `mirror_hevc.go` | the frame loop's locals (parameter sets, slices of the current picture, congestion level), the atomic flags `frozen` and `resumeNeedsKeyframe`, `firstFrameSent`, two workers | `StreamFrames`, `SetFrozen`, `dataHeartbeatLoop`, `feedbackLoop`, `Close` | fan-out sink below, the daemon (freeze, cancel, close), the receiver | freeze and resume race the frame loop; pictures that are dropped although others refer to them; where a picture ends in a byte stream; Close against workers that wait |
| **Mirror session: clock** `mirror.go` | `mediaClock`: anchor, timestamp, timeline | configure by SETUP, `reanchor`, `updateTimingPeerInfo`, `now`, `at` | feedback loop and event channel write, video and audio read | each update carries the time it was received and is applied later |
| **Mirror session: setup** `mirror.go`, `latency.go` | progress of the SETUP requests, ports, sockets | `SetupMirror` | RTSP client, event channel | order rejected by the receiver; half-completed setup |
| **RTSP client** `client.go`, `digest.go` | CSeq, cipher state, Digest nonce | request and response, 401 retry, half-close | receiver | stale nonce; retry once; a cancelled request leaves a half-read response |
| **Pairing** `pairing.go` | stage of pair-setup and pair-verify, keys | transient, PIN and stored pairing | client, credential store | both sides switch to encryption at the same message |
| **FairPlay** `fairplay*.go`, `fpsap*.go` | SAP stage | two-message exchange, key derivation | client | fixed tables, no concurrency |
| **Credential store** `credentials*.go` | map in memory, JSON file, keyring | load, save, delete | pairing | one step of a save fails |
| **Event channel** `event_channel.go` | encrypted reverse connection | accept, answer | mirror session | close against a request being read |
| **Audio** `audio*.go`, `process_loopback_windows.go` | RTP sequence, retransmission ring, pacing | capture, encode, send, resend, sync | receiver | ring wrap-around, late resend request, 16-bit sequence |
| **Speaker mute** `speaker_mute_windows.go` | reference count, saved volume | mute, restore | OS mixer | crash or second user between save and restore |
| **Capture pipelines** `capture_linux.go`, `capture_windows.go`, `ffmpeg_windows.go` | encoder process, portal session | start, stop, probe encoders | OS | stop during start, exit order |
| **Access units** `capture_frame.go`, `capture_hevc_annexb.go`, `mirror_hevc.go` | scanner buffer | split, convert | encoder output | start codes across chunk boundaries |
| **Test receiver** `receiver_*.go` | session stage per connection, owner, decoders | the receiver half of every exchange | sender | sessions replacing one another, TEARDOWN against media goroutines |
| **Replay, reports** `replay.go`, `compatibility.go` | log | record, check | tests | none |
| **Programs, GUI, widget** `cmd/*`, `plasmoid` | window state | flags, polling | control socket | none that this project covers |

For each modelled part correctness means:

* **Fan-out.** A receiver gets, from its cut-over on, everything the encoder
  produced, in order and without a gap, or it is cut off; no receiver can delay
  another; the memory of a queue is bounded; nobody sleeps for ever; when `Run`
  returns every sink is drained or discarded.
* **Mirror stream.** The receiver gets whole pictures, each with the picture it
  refers to and the decoder configuration it needs, whatever was dropped before;
  a frozen picture stays; the loop and `Close` end when they are told to.
* **Media clock.** Audio and video are on one timeline of the receiver's, which
  does not go back, also when updates are applied out of order.
* **Lifecycle.** Each session, sink, capture and context is released exactly
  once, whoever wins a race; the worker of a connection that was disconnected
  touches nothing of its replacement; an encoder runs as long as it has a user
  and no longer; a prompt shown to the user has a worker behind it; Shutdown
  returns, and when it has returned nothing runs and nothing is open.
* **Handshake.** Every combination of receiver, password setting and saved identity
  that can work, and over whose password the two ends agree, does, by whatever fallback it
  takes; where they differ over it nothing gets a sender in (section 6); both ends read what the other
  sends, and agree on the session, its clock and the saved identity; a sender that
  lost a response does not take a later one for it; nothing hangs.
* **Audio.** Samples reach the receiver in order, once, under consecutive numbers;
  no nonce is used twice and a resent packet is the original; announcements and
  packets use one mapping; the stream ends.
* **Audio controls and speakers.** What the daemon reports of a receiver is what it
  plays; nothing is heard twice; the local switch comes back as the user had it.
* **Credential store.** Concurrent saves, failed writes and a dying process do not mix
  two identities, and as long as the file can be read they do not lose a third. A process
  that dies between truncating the file and writing it loses all of them.

## 2. Modules

| Module | Contents |
|---|---|
| `FanOut` | abstract: the promise a fan-out makes to the sessions, without queues, locks or goroutines |
| `Broadcast` | `capture_broadcast.go` and its refinement mapping to `FanOut` |
| `Daemon` | the stream lifecycle of `daemon.go` |
| `MCDaemon` | instances of `Daemon` for TLC |
| `MirrorStream` | the frame loops, freezing, workers and `Close` of a mirror session |
| `MCMirrorStream` | instances of `MirrorStream` for TLC |
| `MediaClock` | the clock of a PTP session and what updates it |
| `MCMediaClock` | instances of `MediaClock` for TLC |
| `Attempt` | abstract: what an attempt to connect promises its user |
| `ControlChannel` | one control connection: requests up, responses down, the receiver profiles and the settings the two ends meet with |
| `Sender` | pairing, FairPlay, Digest and SETUP as the sender does them, from the dial to the running session |
| `Receiver` | the same connection on the side of the test receiver |
| `Handshake` | `Sender` and `Receiver` composed over `ControlChannel`, and the refinement of `Attempt` |
| `MCHandshake` | the worlds TLC explores |
| `AudioFrames` | the reader that cuts frames out of the capture's RTP packets, and its clock |
| `AudioStream` | `StreamAudio` over `AudioFrames`: the sending loop and its two workers |
| `MCAudioStream` | the modes TLC explores |
| `Speakers` | the muted loudspeakers and their reference count |
| `Controls` | set-mute and set-volume over streams that come and go, on top of `Speakers` |
| `MCControls` | symmetry for TLC |
| `Credentials` | the credential store, its file and its keyring |
| `MCCredentials` | symmetry for TLC |
| `DaemonProofs` | TLAPS proofs about `Daemon`: types, maps, shared capture groups, connections, resources |
| `BroadcastProofs` | TLAPS proofs about `Broadcast`, and that it implements `FanOut` |
| `ControlsProofs` | TLAPS proofs about `Controls` and `Speakers` |
| `MirrorStreamProofs` | TLAPS proofs about `MirrorStream`: its parser and its sender |
| `AudioStreamProofs` | TLAPS proofs about `AudioFrames` and `AudioStream` |
| `MediaClockProofs` | TLAPS proofs about `MediaClock` |
| `CredentialsProofs` | TLAPS proofs about `Credentials` |
| `HandshakeProofs` | TLAPS proofs about `Sender`, `Receiver` and `Handshake`, and that it implements `Attempt` |

### Broadcast

An action is one critical section of `bc.mu` or of one sink's `mu`. The record
`sink[s]` has the fields of `BroadcastSink`; a chunk is reduced to the number of
the read it came from and its size. `pc` is the position of the goroutine in
`Run`/`runFrames`/`finish`; `cur` and `rest` are its local read and the snapshot
it iterates over. `parked` is the set of goroutines inside `s.cond.Wait()`;
`Signal` wakes a nondeterministically chosen one, `Broadcast` all of them, and a
woken goroutine re-evaluates its loop condition as a fresh action.
`RemoveSink` and the drop inside `Run` are two actions each (abort under `s.mu`,
unlink under `bc.mu`), because the code takes the two locks one after the other.
`frames`, chosen once, selects between the byte path (`Run`, `enqueue`, `Read`) and the access
unit path (`runFrames`, `enqueueFrame`, `ReadVideoAccessUnit`), which share all
of the control.

Abstractions: `bc.sinks` is a set and the fan-out visits the snapshot in any
order (the code's slice gives one of these orders); the content of a chunk is
not modelled; `taken`, `eof`, `alloc` and `published` are history variables.

### Daemon

An action is one critical section of `d.mu` with the goroutine-local work next
to it. Entries (`activeStream`) and groups (`videoCaptureGroup`) are objects
numbered in order of creation, which makes the pointer comparison
`d.streams[target] != entry` a comparison of numbers and gives each connection to
the same receiver its own generation. `worker[e]` is the goroutine
`connectAndStream` of entry `e`, `pump[g]` the goroutine of
`finishCaptureGroup(group, bc, bc.Run())`. A resource is a tuple such as
`<<"session", e, 0>>` and is in `open` from creation to release. `plan[a]` is
the `daemonCleanup` that actor `a` detached under `d.mu` and still has to run
without it, in two stages as in `daemonCleanup.run`: cancels and sinks first,
then sessions, clients and captures.

Abstractions, all of which keep the code's control:

* Requests that the code answers with an error and no change of state are not
  actions (they would stutter). `Connect` covers both the request with a target
  and the one that picks a receiver.
* The outcome of pairing, FairPlay and SETUP is a choice here; `Handshake` works out
  which outcomes there are. The failure of `Pair` or FairPlay is folded into the failure of
  the `setup` step that follows; both lead to `removeStream` with nothing published between.
* In `PublishGroup` the group is put in the map and its start begins in one
  action; the code does so inside one critical section and holds
  `captureStartMu` on both sides of it.
* When `connectAndStream` returns, its locals are reset (`Exit`), which merges
  states that differ only in dead variables.
* Audio is one resource, owned by the worker; what it carries is not modelled.
* Mute and volume are in `Controls`. Freeze, discovery and the listener neither add to
  nor remove from the maps.

### MirrorStream

`pc` is the position of the goroutine in `StreamFrames` or `streamHEVCFrames`:
between two reads (`top`), reading, processing NAL units (`nal`, `unit`), and in
`flushVCL` before the check of `frozen` (`flush`), between it and the check of
`resumeNeedsKeyframe` (`resume`), before the two writes (`config`, `send`), and
after the write (`sent`). The two checks are separate steps because the flags are
separate atomic variables; `SetFrozen(false)` is two steps for the same reason.
`input` holds the units that were read and not processed; on the byte path
(not `Framed`) the last of them is held back until the next start code, as
`h264Parser` does. A picture is `[key, config, slices]`; the encoder chooses it,
whether it is preceded by a delimiter and whether a key picture repeats the
parameter sets; `path` says which of the loops runs and is chosen once. `level` may take any value after a write, which covers every
timing of the congestion controller. `rx` is what the receiver got last.

Abstractions: `codecSent` is true only between a configuration and its picture and
is left out; payloads, encryption, timestamps and header layout do not decide
what is sent, except that a capture time without a place on the clock ends the
stream, which is part of `SendFails`; a picture without VCL slices does not occur.
A write that fails may leave part of a frame on the connection, and the loop ends.
Freeze, resume and Close come from the daemon, which calls `SetFrozen` with `d.mu`
held, so that there is one call at a time. `Close` waits for the workers, not for the
frame loop, and `Spec` lets them overlap. The workers and `Close` share only the
connection with the loop, whose loss `SendFails` allows at any moment, and cancelling ends
the loop where the end of the capture may, so that the safety properties of the loop need no
product of long streams with the workers (`LongOrBesideWorkers`).

### MediaClock

`clock` has the fields of `mediaClock`; an unset anchor (`IsZero`) is -1. Local time
is a number that `Tick` advances; `Compact` is `compactTimestamp` as a table, a
conversion that rounds down once (`CompactAssumption`). A feedback sample is the
receiver's time at some moment between request and response. The feedback loop and
the event channel are two steps each, one that takes `receivedAt` and one that locks
`c.mu`. `legacy`, chosen once, selects the order in which `setupMirrorSession` configures the clock
and connects the event channel. `At` is the mapping that `now` and `at` compute;
the playout lead is part of the time it is applied to. Overflow of 2^64 and the
clamping of single packets (`monotonicFrameTime`) are not modelled.

### Handshake

The sender's requests are strictly sequential, so its position is the response it
waits for (`snd.at`), or one of a few local steps. `Sender` has one operator per response
that says what the code does next with it: another request, another protocol, a fresh
connection, a prompt, or failure. `Receiver` handles one request at a time, in one action per
endpoint; every check of a key, signature or code is the comparison it performs.
Identities are the number of the connection they were made on (0 for the one
that was saved before), and `known` is the receiver's controller store, which
outlives its connections.

`wire` is one TCP connection. Responses carry no number, so `Answers` takes whatever
comes next; a request that timed out leaves its response in `wire.down`.
`enc` says whether a message was encrypted, and an end that reads a message in the
wrong mode gets an error. `world` is chosen once: the receiver's profile
(`Profiles`, six records of feature bits and demands from `receiver_server.go`), its password
setting, whether it hides it in `GET /info`, what the sender has saved, whether the receiver
still knows it, the code the user gave, and whether the network is faulty.

Not in it: `skipRecord`, failing local ports, TEARDOWN and feedback, codec and latency
choice, and the receiver's own two-minute deadline, which is a `Break`.

### AudioStream

A sample is its RTP timestamp and source. `AudioFrames` is `rtpL16PCMFrameReader` and
`audioRTPClock`: the capture may lose packets, jump in time and change its
source, and timestamps wrap. `loop`, `announcer` and `control` are the three
goroutines of `StreamAudio`; `announceMu` is held across the steps that the code holds
it. `ring` has `History` slots, as the code's 512, under sequence numbers modulo
`SeqModulus`. `sent` is the history of datagrams, which the properties are about.
Codecs, encryption and pacing are left out, and so is the branch of
`mapFramePosition` for captures with PTS only. RTP jumps are shorter than half the modulus.

### Controls and Speakers

Each stream is the part of `connectAndStream` that audio has to do with, each client request
two kinds of step: what it does under `d.mu`, and one receiver round trip at a
time without it. `audioControlMu` serializes requests. `entry[i].gain` is what the receiver
plays, and `last` what became of its own last answer: an error (`refused`), recorded by the
daemon, or not recorded, because the request is under way or another receiver of the same
request refused. The user may move the mute switch while nothing is captured. `Speakers` is `speaker_mute_windows.go`; restoring may fail.

### Credentials

An action is one field assignment or one step of `persist` (`os.WriteFile` truncates
and then writes). In the file backend all callers share the entry in memory; in the
keyring each has a copy. Values are the numbers of the saves that made them. A file
that cannot be parsed refuses the program until the user removes it (`newFileBackend`).

## 3. Runs

| Run | Checks | What it shows | States |
|---|---|---|---|
| `MCBroadcast` | `QueueExact`, `NobodyWaitsInVain`, `FanOutSpec`, `KeepingUpNeverDropped`, `EveryoneEnds` | Byte captures with partial reads and access-unit captures whose frames last longer than the queue's duration limit: two sinks of either policy and queues that overflow, late attachment, removal during the fan-out and the drain race. Broadcast implements FanOut, Run returns whatever the receivers do, and receivers that keep reading are told EOF. | 524k |
| `MCDaemon` | `SingleOwner`, `MapsSound`, `ShutdownWaits`, `LateStepsAreInert`, `FailureStaysReported` | Two connections, of one receiver whose group is succeeded by another or of two receivers that share a group, with disconnects, a failing encoder and Shutdown at any moment: who closes what, what a late worker may still do, and what sharing a half-built or failing group means. | 905k |
| `MCDaemonLive` | `TypeOK`, `NoLeak`, `PromptIsServed`, `EverythingEnds` | One receiver that may ask for a PIN, a password or a Digest password, three dials, audio and a muted start: prompts, reconnects and every error path; Shutdown returns and the worker of a disconnected receiver exits although receivers, users and the portal need never answer. | 26k |
| `MCDaemonFailure` (violation) | `EncoderFailureReported` | An encoder failure is lost from the status when the stream worker detaches the group before finishCaptureGroup takes d.mu. | 896 |
| `MCMirrorStream` | `TypeOK`, `PicturesDecodable`, `WholePictures`, `FrozenHolds`, `EverythingEnds` | Byte streams, H.264 access units and HEVC: four pictures of one or two slices and two decoder configurations, with late attachment, any congestion level after any picture, and freezing and resuming at any point of the frame loop; and beside shorter streams the workers, cancellation and Close: the loop ends once it is cancelled, and Close returns although no picture was sent and no feedback was answered. | 717k |
| `MCMirrorStreamResume` (violation) | `ResumedOnKeyframe` | A key picture in flight while the user freezes and resumes clears the resume's flag before the resume is complete, so that the stream goes on after a dropped picture. | 74k |
| `MCMediaClock` | `TypeOK`, `ClockCurrent`, `UpdatesAreContinuous` | Session-first and legacy receivers, with ClockIDs and headers missing: SETUP, feedback samples and timeline commands applied in any order, each with the time it was received. | 432k |
| `MCHandshake` | `TypeOK`, `ChannelAgrees`, `EndsAgree`, `CompatibleConnects`, `MismatchNeverPairs`, `AttemptSpec`, `SetupEnds` | A sender and a receiver from the first dial to the running session, for all six receiver profiles, every authentication mode, saved identities of either protocol, known or forgotten, and a right, wrong or missing code; with timeouts, broken connections and out-of-turn refusals for three of the modes. | 286k |
| `MCAudioStream` | `TypeOK`, `FramesInOrder`, `PacketsUnique`, `MappingCurrent`, `AnnouncedForward`, `StreamEnds` | Stamped and bare captures with lost, jumping and wrapping RTP timestamps, sent encrypted or twice, with retransmission requests of any range while the ring of two packets and sequence numbers modulo four wrap, and announcements racing a clock reset. | 434k |
| `MCControls` | `ReportedUnlessRefused`, `SpeakersHeld`, `SpeakersTurn` | Two clients send set-mute and set-volume to two receivers that may refuse or not answer, while streams start (muted or not), end, are replaced and share one loudspeaker. | 1.3M |
| `MCControlsPartial` (violation) | `ReportedMatches` | One set-mute for two streams, one of whose receivers refuses: the other has done as it was told and the daemon still reports what it was before. | 39k |
| `MCCredentials` | `IdentityIsWhole`, `SavedIsKept` | Two connections save identities and restore tokens of two devices to a file or the keyring; every write may fail and the process may die inside it and start again. | 30k |

The constants and the constraints marked BOUND in the modules are the only bounds. Why they
suffice:

* **Broadcast.** Two sinks are the least number for one receiver to disturb
  another and for `rest` to be a real snapshot. Two reads allow one before and one after a
  cut-over; chunks of two and four bytes against queues of three bytes reach
  the byte limit with an empty queue and with a filled one. Two reads never find two chunks
  queued, so that the limit on chunks is not reached (three reads have several million
  states); `FanOutQueueExact` and `FanOutKeepsUp` hold for every limit and any number of
  reads. Buffers of one and two bytes read in parts.
  The queue's duration limit is less than one frame, as at low frame rates.
* **Daemon.** `MCDaemon` has two receivers, two connections and two groups of one key:
  the connections are of one receiver (a stream and its replacement) or of two that
  share a group, and a group may be succeeded by another with its key. The constraint
  `ReplacedOrShared` leaves out a succession of groups beside a second receiver, for time
  only: without it the run passes with 2.0M states. A second key
  changes nothing for one group: entries of different keys never meet.
  `MCDaemonLive` has one connection but all demands, three dials (the most the code makes)
  and audio. Two connections, where one worker can wait behind another's portal dialogue, are
  within reach too: with `MaxConns = 2`, `MaxDials = 1`, `Demands = {"pin"}` and
  `NoAudio = TRUE` it has 354k states. The theorems of section 5 remove the bounds
  where it matters most.
* **MirrorStream.** Three pictures are the least for a picture, one that is dropped
  and one that refers to it; the fourth shows what the congestion controller does with
  the count of sent pictures after its first drop. Two slices make a picture
  that can be split or joined. One freeze with a resume can overlap the loop at every
  step; two configurations are one change. The constraint `LongOrBesideWorkers` leaves out
  slices when there is a fourth picture, and beside the workers, cancellation and `Close`
  the third picture, slices and the change of configuration: termination depends on none of
  them, and the workers share nothing with the loop but the connection. The theorems remove
  the bounds.
* **MediaClock.** Five instants let a sample and a command be taken and applied in
  either order, with the receiver's part of a request between; two units of local time
  are three of the receiver's, so that rounding matters. The theorems remove the bounds.
* **Handshake.** No bound but its worlds: without faults, all of them (a receiver knows
  only what was saved); with faults, three password settings and the identities they call
  for, with any number of timeouts and breaks, or with refusals out of turn.
* **AudioStream.** Two packets of three samples make frames of two that span them; the
  timestamps and the RTP epoch start just below the wrap. Five frames wrap a ring of
  two and sequence numbers modulo four.
* **Controls.** Two clients, two receivers and one loudspeaker; two streams,
  which may be of one receiver. **Credentials.** Two connections and two devices; five saves
  let each fail, succeed and be repeated around a crash.

`CHECK_DEADLOCK FALSE` is set in all runs because the system may stop: a capture
whose source failed is done, a daemon that was shut down is down, and the bounds
on reads and connections are used up in finite behaviours.

Several properties are conjunctions of named parts that concern one promise
(`QueueExact`, `MapsSound`, `EndsAgree`, ...); the parts are defined and commented
where they belong, above.

The mutants in `PROJECT.json` replace one definition each by a variant with a
plausible defect (an operator named `<definition>_<defect>`, defined before it);
each property is violated by one of them.

## 4. Fairness

`Spec` has no fairness in `Broadcast`, `Daemon`, `MirrorStream`, `MediaClock`, `Controls` and
`Credentials`. `Broadcast!FairSpec` assumes weak fairness of `RunStep` only:
the goroutine is scheduled and the drain timer fires. It assumes nothing of the
encoder (`SourceRead` is not in `RunStep`), of callers, or of receivers.
That each session keeps reading is not assumed of the system but is the premise of
`ReadersReleased` (`ReadersKeepReading`).

`Daemon!FairSpec` assumes that goroutines which only compute or take locks are
scheduled (`LocalStep`, `FinishCaptureGroup`, `PumpExits`), that cleanup plans are
run, and that Shutdown's `Wait` returns once the counter is zero. A step that
waits for a receiver or the user (`ProtocolStep`) is only fair after its context
has been cancelled; `StartCapture` only after the group's context has been
cancelled; `StreamFrames` returns only once its sink was closed, its context
cancelled or its broadcast ended; `bc.Run` ends only after the capture was stopped.
These are the cancellation paths the code itself relies on. Nothing
assumes that a receiver, the user or the portal ever answers.

`MirrorStream!FairSpec` assumes that the frame loop runs, since writes have
deadlines; that a cancelled stream's capture ends, since cancelling stops it; that a
feedback request is answered or times out after 30 seconds; and that `Close` and a
cancelled heartbeat loop run. `FeedbackEnds` is strongly fair: when the ticker and the
cancellation are both ready, `select` picks one at random, so that the loop may take
the ticker several times but not for ever. `MediaClock`, `Controls` and `Credentials` have no
liveness property.

`Handshake!Spec` assumes that both ends run (`SenderStep`, `ReceiverStep`). A wait of the
sender ends because its timeout is one of the outcomes of the step that waits; on a perfect
connection it ends because the receiver answers. The user need never answer: `SetupEnds`
excepts the prompt.

`AudioStream!Spec` assumes that the three goroutines run, that reading a closed socket fails
(a read of an open one may fail, but need not), and that a cancelled capture ends.
`Map` is strongly fair: it waits for `announceMu`, which the announcing worker takes and
releases again and again; Go's mutex does not starve a waiter.

## 5. Proofs

Most theorems are about `Daemon`, where a bound in a run weighs most: they hold for
every number of receivers, capture keys, connections, groups, dials and
concurrent requests. They assume only what the module's `ASSUME`s say, which TLC
evaluates in the runs: there is a receiver and a key, and no receiver is called
like one of the two other values of `lastError` (`TargetsAssumption`); receivers
ask for a PIN, a password or a Digest password (`DemandsAssumption`); the bounds are
naturals (`BoundsAssumption`). Those about the other modules are as free of bounds: any number
of sinks, reads and chunks and any queue limit (`Broadcast`), of streams, endpoints and control
connections (`Controls`), of pictures, slices, decoder configurations and freezes
(`MirrorStream`), of updates (`MediaClock`) and of saves (`Credentials`); any width of the
counters that wrap and any sizes of frames, packets and ring (`AudioStream`).

| Theorem | States |
|---|---|
| `TypeCorrect` | `TypeOK`; with it, that the credential channel is never overfilled |
| `MapsAgree` | `MapsInv`, the inductive invariant of the two maps |
| `DetachedHoldsNothing` | `DetachedIsEmpty` |
| `ShutdownStaysFinal` | `ShutdownIsFinal` |
| `WaitNeverRacesAdd` | `NoAddAfterShutdown` (an action property) |
| `GroupsAgree` | `UseInv`, the inductive invariant of the shared capture groups |
| `GroupsStayInUse` | `GroupsInUse` |
| `HalfBuiltStaysPrivate` | `HalfBuiltIsPrivate` |
| `ObsoleteWorkersAreInert` | `ObsoleteWorkerIsInert` (an action property) |
| `ConnectionsAgree` | `ConnInv`, the inductive invariant of the connections |
| `PromptsAreServed` | `PromptIsServed` |
| `StreamsAreComplete` | `StreamingIsComplete` |
| `FailureStays` | `FailureStaysReported` (an action property) |
| `WaitGroupCounts` | `CountInv`, the inductive invariant of `streamWorkers` |
| `ResourcesAreOwned` | `LeakInv`, the inductive invariant of what is open |
| `NothingLeaks` | `NoLeak` |
| `ShutdownLeavesQuiet` | `ShutdownWaits` |
| `OwnersTakeTurns` | `OwnInv`, the inductive invariant of who closes what |
| `NothingClosedTwice` | `SingleOwner` |
| `MapsStaySound` | `MapsSound`, the five state properties above together |
| `LateStepsStayInert` | `LateStepsAreInert`, the two action properties together |
| `FanOutInvariant` | `FanInv`, the inductive invariant of `Broadcast` |
| `FanOutTypes` | `TypeOK` of `Broadcast`, which has no run |
| `FanOutQueueExact` | `QueueExact` |
| `FanOutNobodyWaits` | `NobodyWaitsInVain` |
| `FanOutKeepsUp` | `KeepingUpNeverDropped` (an action property) |
| `FanOutRefinement` | `FanOutSpec`: `Broadcast` implements `FanOut` |
| `ControlsInvariant` | `ControlsInv`, the inductive invariant of `Controls` |
| `ReportsUnlessRefused` | `ReportedUnlessRefused` |
| `SpeakersInvariant` | `SpeakersInv`, the inductive invariant of the local mute |
| `SpeakersStayHeld` | `SpeakersHeld` |
| `SpeakersTakeTurns` | `SpeakersTurn` (two action properties) |
| `ParserInvariant` | `ParserInv`, the inductive invariant of the parser of `MirrorStream` |
| `SenderInvariant` | `SenderInv`, the inductive invariant of its sender, relative to `ParserInv` |
| `StreamTypes` | `TypeOK` of `MirrorStream` |
| `StreamIsDecodable` | `PicturesDecodable` |
| `PicturesStayWhole` | `WholePictures` |
| `FreezingHolds` | `FrozenHolds` |
| `AudioInvariant` | `AudioInv`, the inductive invariant of `AudioStream` |
| `AudioTypes` | `TypeOK` of `AudioStream` |
| `AudioFramesInOrder` | `FramesInOrder` |
| `AudioPacketsUnique` | `PacketsUnique` |
| `AudioMappingCurrent` | `MappingCurrent` |
| `AnnouncedMovesForward` | `AnnouncedForward`, for a stream that stays `Near` |
| `AttemptRefinement` | `AttemptSpec`: `Handshake` implements `Attempt` |
| `HandshakeTypes` | `TypeOK` of `Handshake` |
| `ChannelInStep` | `ChannelAgrees` |
| `EndsInAgreement` | `EndsAgree` |
| `CompatibleAlwaysConnects` | `CompatibleConnects` |
| `MismatchPairsNever` | `MismatchNeverPairs` |
| `ClockTypeCorrect` | `TypeOK` of `MediaClock` |
| `SessionsHaveAClock` | `ClockReady` |
| `TimelineIsNewest` | `NewestTimeline` |
| `ClockStaysCurrent` | `ClockCurrent`, both of these together |
| `ClockIsContinuous` | `UpdatesAreContinuous` (an action property) |
| `StoreAgrees` | `StoreInv`, the inductive invariant of `Credentials` |
| `IdentitiesStayWhole` | `IdentityIsWhole` |
| `SavesAreKept` | `SavedIsKept` |

The argument for `Daemon` is in five layers, each inductive relative to the ones before it.

1. **Types** (`DaemonProofs`). One step per action; `DetachType` does the handlers
   that detach.
2. **The maps** (`MapsInv`). An entry or group is in its map only under its own
   receiver or key, and only while its goroutine has been started; what is out
   of the maps is empty; after Shutdown both are empty. `DetachedIsEmpty` is not
   inductive by itself: an entry that does not exist yet must be empty too, or
   `Connect` would publish what it finds. Most of the actions touch neither map
   (`QuietSteps` names them and what they leave alone); all that detach go
   through the lemmas `DetachSteps` and `DetachKeepsMaps`.
3. **Shared groups** (`UseInv`). That a published group has a user
   and a user's group is published is not inductive either: the worker that
   publishes a group, starts its encoder and publishes the encoder does so in
   three steps between which it owns the group only because it holds
   `captureStartMu`. `Starting` says who holds the mutex, `HalfBuilt` that its holder
   is the only user of the group under construction, `OwnGroup` that an entry refers
   to no other group than the one its worker prepared. `FreedBy`, the set of groups a
   teardown releases, is exactly the set whose last user leaves
   (`FreedByUnused`, `DetachKeepsUse`).
4. **Connections** (`ConnInv`). The context of a live connection is
   open and in nobody's cleanup plan, so that nothing but its own worker and the
   handlers of its own receiver end it (`Uncancelled`); where the worker is while
   a prompt is shown (`Prompting`); and which parts a stream has when it is
   published as streaming (`Streaming`). `Uncancelled` is what the first two need:
   a worker that waits for a credential leaves only with an answer or cancelled.
   `FailureStaysReported` follows from it: only the two requests that clear a failure
   touch the entry's receiver.
5. **Resources**. `CountInv` says what the number in the WaitGroup
   stands for, with the cardinality theorems: exactly the workers, pumps and requests
   that run. It needs `PlansRun`, that only a counted goroutine has a cleanup to run, and
   `DownForGood`. `LeakInv` adds to `NoLeak` where a connection is before anybody else
   knows of it (`Dialled`), that a worker without a session captures no audio
   (`AudioOff`), and that what has not been started owns nothing (`Unstarted`); with
   `CountInv` at zero there is no owner left, and so nothing open (`ShutdownWaits`).
   `OwnInv` says of every session, sink and capture who has it at each place of its
   goroutine, and that no two plans share a resource (`PlansDisjoint`): `SingleOwner`
   counts the ones that would close it, and is not inductive because a resource
   passes from a worker to the entry and from there to a plan.

For `Broadcast` (`BroadcastProofs`) the inductive invariant `FanInv` has four parts. `RunInv` says
what `Run` holds at each of its places and which items it has handed out; `Sound` says of one
sink, by itself, that its bytes, chunks and duration are the sums over its queue, that a
closed one is empty, when it is done, and that whoever is parked in it has a reason to be;
`SinksKnown` says which sinks are registered, which `Run` has still to visit, that a
backpressured sink is alone, and that `finish` gets round to every sink; `NoGap` says how the
queues follow on the items handed out. `NobodyWaitsInVain` is inductive only with all of
them. The sums are recursive functions over the queue; what appending to it and taking its
head do to them (`SumAppend`, `SumTail`) is proved by the least counterexample, since
induction itself is out of reach. The refinement goes step by step: `RunStep`, `ReaderStep`
and `CallerStep` each map to a step of `FanOut` or a stutter.

For `Controls` (`ControlsProofs`, from `ControlsAssumption`) `ReportedUnlessRefused` is not inductive:
it says nothing of a stream whose request is under way, which is where the answers come in. `ControlsInv`
adds what the request that holds `audioControlMu` has asked of each of its streams and that
this is what it will record (`Asked`, `Serving`), and what a muted start has achieved on its way to
the screen (`Arriving`). `SpeakersInv` counts the streams that hold an endpoint, with the
cardinality theorems, and adds `Remembered`: while an endpoint is held, `wasMuted` is
where the user left its switch.

For `MirrorStream` (`MirrorStreamProofs`, from `PathsAssumption` and `BoundsAssumption`) there are two
layers. `ParserInv` describes the units that were read as a stream of pictures: which unit may
follow which (`Follows`), where it ends, and how it goes on after the slices that were gathered
(`Gathered`) or, when there are none, with what the parser knows of parameter sets (`Ready`).
Three lemmas carry it: reading appends a picture (`NewPicture`, `Extended`), processing takes
one unit off (`Advanced`, `GatherNext`, `ReadyNext`, `GatherFirst`), and a unit starts a picture by
`StartsPicture` exactly when it belongs to another picture than the gathered slices
(`StartsRight`), which is where the rules for delimiters, parameter sets and first slices meet. That `TakeUnit` finds the same
slices (`SlicesOfPicture`) is shown by the least counterexample. `SenderInv` then needs only the number of
the picture at hand (`Flushed`): `Order` compares it with the last one sent, `Resuming` says
that after a gap the stream waits for a key picture, is frozen, or that the congestion
controller, which counts sent pictures, goes on dropping, and `Configured` that a picture
without configuration follows one with the same. `Parsing` reduces every step of the parser
to what the sender sees of it (`Parses`).

For `AudioStream` (`AudioStreamProofs`, from `FramesAssumption` and `StreamAssumption`) the
arithmetic of counters that wrap comes first: what adding and subtracting does modulo a number,
and that moving two positions alike keeps their distance (`Distance`). `AudioInv` then has a part
for each thing that must agree. `ReaderInv` says that what the reader still holds follows on
what it has cut (`Held`), from which a frame is whole (`FrameRight`); `Timeline` that a mapped
frame's position is not before the end of the newest one sent (`FollowsToo`: a frame that
follows in the source follows at the receiver); `Numbers` and `Remembered` that numbers are the
count of frames modulo `SeqModulus`, and that no slot of the ring is older than the newest number
with that slot. This is what makes a packet that is sent again the one of the current cycle: were it
older by a whole cycle of numbers, the frame a cycle later would have its slot (`SlotAgain`,
which needs that the ring's size divides the modulus). `Nonces` says that they grow from one
datagram to the next, and `Announced` who holds `announceMu` where. `AnnouncedForward`
compares positions that wrap, so that it only means something while they are not too far apart:
two announcements with more than half the range of positions between them have no order. Its
theorem therefore assumes `[]Near`: the stream is always less than half the range (2^31
samples, 13 hours at 44100 Hz) ahead of every frame it sent. `Near` speaks of the frames that
were sent and not of what is announced, every state of the run of section 3 satisfies it, and a
longer stream is what the theorem does not cover. From it `ForwardInv` is inductive: what is
announced, what the announcer holds and `rtpTime` are positions of frames that were sent (or one
frame after them, when samples are stamped), and their order by how far they are behind the loop
(`Gap`) does not change when it moves on (`GapGrows`), so that a frame sent once more leaves
`rtpTime` where it is and bare PCM announces what it read without the lock.

For `Handshake` (`HandshakeProofs`, from `WorldsAssumption`: any set of worlds) the refinement
of `Attempt` needs what the sender knows at each of its places, `SndInv`. `Counted` says how
many connections and setups there were, and that pairing goes on before the first setup only;
`Credited` where the code it uses comes from, and that a user who has been asked is not asked
again; `Plain` that whoever has not paired does not encrypt; `Prepared` what is settled before
FairPlay and before SETUP. There is one lemma per response, which says at once that the
invariant holds on arrival and which of the few routes of `Attempt` was taken (`Pairs`, `Asks`,
`Verifies`, `Onward`, ...); they say nothing of the receiver, so the theorem holds for one that
answers anything. The proof showed that two arms of the `CASE` of `OnInfo` overlapped, which TLC
resolves by taking the first, and that the refusals of `Decline` were counted in a variable that never
changed; both definitions are now what was meant.

`ChannelAgrees` and `EndsAgree` relate both ends, and rest on a second invariant, `LinkInv`.
`InFlight` lists what can be on the connection at each of the sender's places: the request it waits
for, or its response; after a raw pair-setup that timed out, that request or its response before
M1 (`Overtaken`); at the end, what has become of the two volume requests (`Loose`); otherwise
nothing. That is why a response without a number is never taken for another's: the one request
that may be overtaken, raw pair-setup, is followed by M1 only, which takes no answer of it for its
own. `Ciphered` says that the receiver encrypts when the sender does, or has just granted V3;
`Sessioned` where the receiver's session stands for each place of the sender (`Stands`, and one step
further, `Advanced`, while a response that grants the request is on its way); `Passworded` that a
receiver with a Digest password has done nothing yet for a sender without it, which is what makes
the repeated SETUP safe; `Remembering` that a pairing with a code leaves the identity with the
receiver before the sender can save it. The receiver has one lemma per group of handlers, which says
what the answer and the reaction are (`Answered`, `Reaction`), and `ReceiverLink` takes it from
there; the sender's steps are taken from the lemmas of `SndInv` by what they leave in flight
(`MovesAlone`, `FliesBehind`, `VolumeFlies`).

`CompatibleConnects` says of a state where the attempt was given up that it could not have worked,
and so depends on the whole way to it. `LuckInv` is what that way looks like in a fortunate world
(no faults, no refusals of another receiver, no wrong code, settings that can work: `Possible`).
At each of the sender's places, `Before` says what the sender has by then, in one table: the saved
identity or the stage it starts with (`Starts`), a pair-setup whose secrets are equal (`Proving`), an
identity the receiver accepts (`Identified`, `Saved`), a verified connection of the kind the profile
pairs with (`Linked`), FairPlay's keys (`Exchanged`), the Digest password (`Keyed`), a descriptor that
is right or has one alternate left (`Shaped`). What is in flight is `Useful`: a request under `Before`,
or a response under `After`, which is a challenge the sender had no answer to yet (`Challenging`), or
what it waits for or a refusal it has a fallback for (`Favours`). `ProfileTable` works out the six
profiles once, and nothing after it looks at feature bits. There is one lemma per handler of
either end: the receiver's takes `Before` to `After` (`GivesLuck`), the sender's `After` to `Before`
of its next place (`AskLuck`, `GoLuck`), a new connection, or a prompt; only a challenge on
`/fp-setup` for a sender without a code ends in failure, which `Compatible` excludes (`Informed`).
`Compatible` also excludes the receivers whose password the two ends take differently
(`PasswordMismatch`), unless both remember a pairing, which needs no password. `MismatchNeverPairs`
says what happens there, and rests on an invariant of its own, `BarredInv`, that holds with any
faults and refusals: the sender stays at the places of pairing (`Outside`) with nothing in hand that
the receiver takes (`Holding`), no response on its way grants the step that would lead out
(`Denied`), and the receiver has nothing it could verify a controller by (`Bare`).

The proof corrected `Compatible`: for a saved HAP pairing that the receiver still knows it
excluded receivers that key video to FairPlay, but what cannot work is `rootKeys`, the FairPlay
fields at the root of SETUP, which the sender leaves out on an encrypted channel. The two differ for
airserver, which the worlds of the run had left out and now include.

For `MediaClock` (`MediaClockProofs`, from `CompactAssumption` and `ClockAssumption`)
the inductive invariant is `ClockInv`: besides the types it says that only a session
that is set up has a feedback loop, and where the last ClockID of a session-first
receiver is: in the response, in the clock, or in the command being applied.
Continuity rests on two lemmas about `compactTimestamp`: `CompactBetween`, what the
conversion does to a time between two others, and `LaterAnchorIsForward`, that a
mapping with a later anchor that is not below the earlier mapping moves no time back
by more than the rounding, whether the time lies after both anchors, between them
or before both.

For `Credentials` (`CredentialsProofs`, from `CredentialsAssumption`) neither property is
inductive: while an identity is being assigned it is in halves, and what a save starts from is
what an earlier one left, perhaps one that failed. `StoreInv` adds that who is inside the
store holds the mutex (`Locked`), that numbers only grow (`Bounded`), and, of the entry being
saved, at which stage it is in halves and that it is never older than what was saved
(`EntryInv`).

Each of these invariants was an invariant of TLC runs on instances like those of section 3
before it was proved: `FanInv` in 523,805 states, `CountInv`, `LeakInv` and `OwnInv` in
905,009, `ControlsInv` and `SpeakersInv` in 1,281,153, `ParserInv` and `SenderInv` in 3,837,312,
`AudioInv` and `ForwardInv` in 433,775, `SndInv`, `LinkInv` and `BarredInv` in 2,116,698 (all 8640 worlds, where
the run of section 3 explores a selection), `LuckInv` in 58,912 (all worlds without faults).

All invariants and action properties that the runs check are proved, and the refinements of
`FanOut` and of `Attempt`; one of them under a condition, `AnnouncedForward` for streams that
stay `Near`.
Liveness (`EverythingEnds` of `Daemon` and of `MirrorStream`, `EveryoneEnds`, `SetupEnds`,
`StreamEnds`) stays with TLC for good: the prover has no rules for ENABLED, on which fairness
rests.

## 6. Findings

`MCDaemonFailure` is expected to fail. When the encoder dies while a receiver is
streaming, `BroadcastCapture.finish` ends the receiver's sink before `Run` returns.
`StreamFrames` then returns in the worker, which detaches its stream and, as the
last user, the capture group (`daemon.go:1246`). When `finishCaptureGroup` gets
`d.mu` it finds the group unpublished, returns at `daemon.go:1507`, and
`lastError` is never set; the worker only logs. `daemon.go:272` describes
`lastError` as the "most recent asynchronous stream failure", and
`daemon_capture_groups_test.go:210` expects the capture's failure to be
published; the test calls the completion without a worker that could win.

`MCMirrorStreamResume` is expected to fail. `SetFrozen(false)` stores
`resumeNeedsKeyframe` and then `frozen`. If a key picture was being written when the
user froze the stream, the frame loop's own store after that write
(`mirror.go:1314`, `mirror_hevc.go:263`) can fall between the two: the resume forgets
that it needs a key picture, the session is still frozen, the next picture is
dropped, and the one after it is sent although it refers to the dropped one. The
comment at `mirror.go:255` promises otherwise. `ReferencesSent` and
`ConfiguredForPicture` hold in every other case: their exception, `overtaken`, is set by
exactly this step.

`MCControlsPartial` is expected to fail. `handleSetMute` for all streams asks one receiver after the
other (`daemon.go:1617`) and returns before it records anything when one of them refuses
(1623). The receivers that agreed are silent, or play again, and `StreamInfo`, which
"describes one active (or connecting) mirror stream" (`daemon.go:54`), goes on saying the
opposite; the desktop widget chooses its next request by that field (`main.qml:497`).
`ReportedUnlessRefused` is what is left of the promise: an answer that was recorded is
true, and after one that was not, only the mute is wrong, never the volume.

`MismatchNeverPairs` passes and is proved, and is two findings: settings the manual presents as
usable never connect. Sender and receiver decide separately what a visible password is for. The
sender decides by the protocol (`client.go:143`): a legacy receiver's password is its SRP code, a
modern one's is for Digest alone. The receiver decides by its authentication mode
(`receiver_server.go:595`): with `combined` it is the pairing code of every profile, with
`digest` of none. `man/man1/doubletake-test-receiver.1` describes a third rule.

* Modern and `combined`: "CoreUtils/HAP fixtures pair transiently and reserve it for Digest"
  (151-153), which is the example at 231. But `receiver_pairing.go:211` refuses the transient setup,
  and `daemon.go:1067` gives up.
* Legacy and `digest`: "Allow transient pairing, then require RFC 2069 Digest authentication"
  (146). But the sender proves the password in pair-setup, where the receiver has the empty
  code, and the attempt fails. `receiver_server_test.go:950` shows the exchange that would
  work, by calling `Pair` with an empty code, which the daemon does not do for such a receiver.

No prompt, retry or reconnection helps; a pairing that both ends remember does, and then
`CompatibleConnects` promises the connection.

### Divergences

Two more comments say more than the code does. Neither has a run of its own, and the
model follows the code.

* `mirror.go:126`, "Never move the shared clock backwards: audio and video must observe the
  same continuous timeline", and `TestAudioAndVideoClocksStayContinuousAcrossBackwardReanchor`
  (`mirror_clock_test.go:516`). `reanchor` clamps a sample that looks old, but only if it was
  received no earlier than the anchor (`mirror.go:128`). Between receiving and applying it,
  a command on the event channel can move the anchor past it; the sample is then stored
  as it is, and the clock goes back by the delay of the sample.
  `UpdatesAreContinuous`, which is proved, says that this is the only way.
* `pairing.go:309-313` says that `isUnsupportedHAPPairSetup` recognizes "transport responses which
  mean the receiver rejected the HAP wire format before returning a TLV8 M2" and that "all
  errors after setup must surface to the caller instead of changing protocols". The test
  is made on the HTTP status alone and `pairing.go:244` applies it to the whole exchange, so
  that a receiver that answered M1 and refuses M3 with such a status is still sent the
  raw protocol (`Sender!SetupRefused`).

## 7. What comes next

* `frameTimeAt` and `monotonicFrameTime` on top of `MediaClock`.
* TEARDOWN and a second controller in `Receiver`, feedback and volume requests in
  `Handshake` after the session runs: the connection then carries responses that
  `ChannelAgrees` does not cover.
* `handleSetFrozen` in `Controls`; the device list.
* Annex-B splitting as a function, against a reference definition.
* A refinement of `Daemon`: each receiver is idle, connecting, prompting or streaming; each
  capture is off or serves a set of receivers.

## 8. What is not modelled, and why

The mathematics of SRP, Ed25519, Curve25519, ChaCha20 and FairPlay (data without
control; it would be re-implemented, not checked); video and audio encoding;
D-Bus, PipeWire, WASAPI, mDNS and the keyring themselves, which appear through
how the code uses them; logging, formatting and the user interfaces.

Whole components without a module, for the reasons `PROJECT.json` gives with each: discovery
and the device list, the control socket (one request per connection, whose
handlers are actions of `Daemon` and `Controls`), the capture pipelines (external processes,
whose outcome is an input of `Daemon`, `Broadcast` and `MirrorStream`), the test receiver's
media decoders, replay, the programs and the desktop front ends.

Three hazards have no property. A timed-out initial volume request (`mirror.go:1006`) leaves a
response that the feedback loop reads; nothing in the code tells feedback responses apart,
and `ChannelAgrees` stops at the running session. `Lookup` of the file backend hands out the entry that
`savePairing` later writes through (`credentials.go:130`, `daemon.go:1012`); the daemon has one
connection per receiver, so no second reader is there. (Nor are two programs that keep one
credential file modelled: each writes the whole map it read when it started.) Which timeline wins when a
legacy receiver's event channel speaks before its clock is configured (`mirror.go:865`) is
stated nowhere.
