------------------------------ MODULE Broadcast ------------------------------
(***************************************************************************)
(* The video fan-out of internal/airplay/capture_broadcast.go: one          *)
(* goroutine (BroadcastCapture.Run) reads the encoder and copies every      *)
(* chunk into the bounded queue of every registered sink, while callers     *)
(* add and remove sinks and one reader per sink drains its queue.           *)
(*                                                                          *)
(* Each action is one critical section of bc.mu or of one sink's mu, so     *)
(* all the interleavings the two locks allow are behaviours of Spec.  A     *)
(* chunk is the number of the source read that produced it and its size.    *)
(* bc.sinks is a set here: the fan-out may visit its sinks in any order.    *)
(***************************************************************************)
EXTENDS Integers, Sequences, FiniteSets

CONSTANTS
    Sinks,                  \* the BroadcastSinks callers may create
    Modes,                  \* the modes of a capture, a part of BOOLEAN: see frames
    MaxReads,               \* BOUND: the source has failed by this read
    Sizes,                  \* BOUND: lengths a non-empty source read may have
    BufSizes,               \* BOUND: buffer lengths the byte readers use
    MaxQueuedBytes,         \* broadcastSinkQueueBytes
    MaxQueuedChunks,        \* broadcastSinkQueueChunks
    FrameDuration,          \* nominal duration of one frame
    MaxFrameQueueDuration   \* ordinaryScreenFrameQueueDuration

ASSUME ModesAssumption == Modes \subseteq BOOLEAN /\ Modes # {}
ASSUME SizesAssumption == Sizes \subseteq Nat \ {0} /\ BufSizes \subseteq Nat \ {0}
ASSUME LimitsAssumption ==
    /\ MaxReads \in Nat \ {0}
    /\ MaxQueuedBytes \in Nat \ {0}
    /\ MaxQueuedChunks \in Nat \ {0}
    /\ FrameDuration \in Nat \ {0}
    /\ MaxFrameQueueDuration \in Nat \ {0}

VARIABLES
    frames,     \* bc.frames: access units (TRUE) or raw bytes
    sequence,   \* bc.sequence
    stopped,    \* bc.stopped
    exclusive,  \* bc.exclusive
    sinks,      \* bc.sinks
    sink,       \* the fields of every BroadcastSink
    bcDone,     \* bc.done is closed
    pc,         \* where the Run goroutine is
    cur,        \* the read it is fanning out: [seq, size, err]
    rest,       \* the sinks its current loop has not visited yet
    victim,     \* the sink Run is removing (a set, empty or a singleton)
    drain,      \* the sinks finish() took over from bc.sinks
    remover,    \* where a caller of RemoveSink(s) is
    published   \* history: the reads that produced data

runVars == <<pc, cur, rest, victim, drain>>
bcVars == <<frames, sequence, stopped, exclusive, sinks, bcDone>>
vars == <<frames, sequence, stopped, exclusive, sinks, sink, bcDone,
          pc, cur, rest, victim, drain, remover, published>>

Threads == {"reader", "producer"}
Chunk == [seq : Nat, size : Nat \ {0}]

(***************************************************************************)
(* Sinks.                                                                   *)
(*   alloc    "none" before a caller creates it, "open" once returned to a  *)
(*            caller, "rejected" when AddBackpressuredSink returned an error *)
(*   parked   the threads in s.cond.Wait()                                  *)
(*   taken    history: the last chunk the reader consumed completely        *)
(*   eof      history: the reader was told io.EOF                           *)
(***************************************************************************)
NewSink(backpressure) ==
    [alloc |-> "open", backpressure |-> backpressure, queue |-> <<>>, head |-> 0,
     bytes |-> 0, duration |-> 0, inputClosed |-> FALSE, closed |-> FALSE,
     done |-> FALSE, start |-> 0, parked |-> {}, taken |-> 0, eof |-> FALSE]

NoSink == [NewSink(FALSE) EXCEPT !.alloc = "none"]

Empty(k) == k.queue = <<>>

\* Defective variants, named X_<defect>, stand before the definition X they vary:
\* each is a plausible bug in X that the property named with it must detect.
Finished_NoBroadcast(k) ==          \* finish() forgets cond.Broadcast
    IF k.closed \/ k.inputClosed
    THEN k
    ELSE [k EXCEPT !.inputClosed = TRUE, !.done = @ \/ Empty(k)]

\* finish: source EOF, keeping what is queued; closes done when nothing is.
Finished(k) ==
    IF k.closed \/ k.inputClosed
    THEN k
    ELSE [k EXCEPT !.inputClosed = TRUE, !.done = @ \/ Empty(k), !.parked = {}]

\* abort: discard the queue, release everyone.
Aborted(k) ==
    IF k.closed
    THEN k
    ELSE [k EXCEPT !.closed = TRUE, !.inputClosed = TRUE, !.queue = <<>>,
                   !.head = 0, !.bytes = 0, !.duration = 0, !.done = TRUE,
                   !.parked = {}]

\* s.cond.Signal() releases one of the parked threads, if there is one.
Signalled(parked) ==
    IF parked = {} THEN {{}} ELSE {parked \ {t} : t \in parked}

ExceedsLimits_EvenEmpty(k, size) == \* the duration limit hits an empty queue
    \/ Len(k.queue) >= MaxQueuedChunks
    \/ size > MaxQueuedBytes - k.bytes
    \/ frames /\ k.duration + FrameDuration > MaxFrameQueueDuration

\* The limits of enqueue and, for access units, of frameQueueExceedsLimitsLocked.
ExceedsLimits(k, size) ==
    \/ Len(k.queue) >= MaxQueuedChunks
    \/ size > MaxQueuedBytes - k.bytes
    \/ frames /\ ~Empty(k) /\ k.duration + FrameDuration > MaxFrameQueueDuration

\* The outcomes of one pass through enqueue's or enqueueFrame's loop.
EnqueueClosed(k) == k.closed \/ k.inputClosed
EnqueueWaits(k) == ~EnqueueClosed(k) /\ k.backpressure /\ ~Empty(k)
EnqueueOverflows(k, size) ==
    ~EnqueueClosed(k) /\ ~EnqueueWaits(k) /\ ExceedsLimits(k, size)
EnqueueAccepts(k, size) ==
    ~EnqueueClosed(k) /\ ~EnqueueWaits(k) /\ ~ExceedsLimits(k, size)

Enqueued(k, chunk) ==
    [k EXCEPT !.queue = Append(@, chunk), !.bytes = @ + chunk.size,
              !.duration = IF frames THEN @ + FrameDuration ELSE 0]

PartlyRead_NotCounted(k, n) == [k EXCEPT !.head = @ + n]
\* Read of n bytes that do not exhaust the head chunk.
PartlyRead(k, n) == [k EXCEPT !.head = @ + n, !.bytes = @ - n]

\* Read, or ReadVideoAccessUnit, of everything left of the head chunk.
HeadRead(k) ==
    LET left == Head(k.queue).size - k.head
        drained == Tail(k.queue) = <<>>
    IN [k EXCEPT !.queue = Tail(@), !.head = 0, !.bytes = @ - left,
                 !.duration = IF frames /\ @ >= FrameDuration
                              THEN @ - FrameDuration ELSE 0,
                 !.parked = {}, !.taken = Head(k.queue).seq,
                 !.done = @ \/ (drained /\ k.inputClosed)]

-----------------------------------------------------------------------------
Init ==
    /\ frames \in Modes
    /\ sequence = 0 /\ stopped = FALSE /\ exclusive = FALSE /\ sinks = {}
    /\ sink = [s \in Sinks |-> NoSink]
    /\ bcDone = FALSE
    /\ pc = "reserve" /\ rest = {} /\ victim = {} /\ drain = {}
    /\ cur = [seq |-> 0, size |-> 0, err |-> FALSE]
    /\ remover = [s \in Sinks |-> "idle"]
    /\ published = {}

(***************************************************************************)
(* Callers.                                                                 *)
(***************************************************************************)
AddSink_ThisRead(s) ==              \* the cut-over is the read under way
    /\ sink[s].alloc = "none"
    /\ IF stopped \/ exclusive
       THEN /\ sink' = [sink EXCEPT ![s] = Finished(NewSink(FALSE))]
            /\ UNCHANGED sinks
       ELSE /\ sink' = [sink EXCEPT ![s] = [NewSink(FALSE) EXCEPT !.start = sequence]]
            /\ sinks' = sinks \cup {s}
    /\ UNCHANGED <<frames, sequence, stopped, exclusive, bcDone, runVars, remover, published>>

\* AddSink: a stopped or reserved capture hands out an already finished sink.
AddSink(s) ==
    /\ sink[s].alloc = "none"
    /\ IF stopped \/ exclusive
       THEN /\ sink' = [sink EXCEPT ![s] = Finished(NewSink(FALSE))]
            /\ UNCHANGED sinks
       ELSE /\ sink' = [sink EXCEPT ![s] = [NewSink(FALSE) EXCEPT !.start = sequence + 1]]
            /\ sinks' = sinks \cup {s}
    /\ UNCHANGED <<frames, sequence, stopped, exclusive, bcDone, runVars, remover, published>>

\* AddBackpressuredSink: fails when any sink has claimed the capture.
AddBackpressuredSink(s) ==
    /\ sink[s].alloc = "none"
    /\ \/ /\ stopped
          /\ sink' = [sink EXCEPT ![s] = Finished(NewSink(TRUE))]
          /\ UNCHANGED <<exclusive, sinks>>
       \/ /\ ~stopped /\ (exclusive \/ sinks # {})
          /\ sink' = [sink EXCEPT ![s] = [Aborted(NewSink(TRUE)) EXCEPT !.alloc = "rejected"]]
          /\ UNCHANGED <<exclusive, sinks>>
       \/ /\ ~stopped /\ ~exclusive /\ sinks = {}
          /\ exclusive' = TRUE
          /\ sink' = [sink EXCEPT ![s] = [NewSink(TRUE) EXCEPT !.start = sequence + 1]]
          /\ sinks' = {s}
    /\ UNCHANGED <<frames, sequence, stopped, bcDone, runVars, remover, published>>

\* RemoveSink, and BroadcastSink.Close: abort under s.mu ...
RemoveAbort(s) ==
    /\ sink[s].alloc = "open" /\ remover[s] = "idle"
    /\ sink' = [sink EXCEPT ![s] = Aborted(@)]
    /\ remover' = [remover EXCEPT ![s] = "unlink"]
    /\ UNCHANGED <<bcVars, runVars, published>>

\* ... then forget the sink under bc.mu.
RemoveUnlink(s) ==
    /\ remover[s] = "unlink"
    /\ sinks' = sinks \ {s}
    /\ remover' = [remover EXCEPT ![s] = "idle"]
    /\ UNCHANGED <<frames, sequence, stopped, exclusive, bcDone, sink, runVars, published>>

(***************************************************************************)
(* The reader of a sink.                                                    *)
(***************************************************************************)
Reading(s) ==
    sink[s].alloc = "open" /\ ~sink[s].eof /\ "reader" \notin sink[s].parked

ReaderParks(s) ==
    /\ Reading(s)
    /\ Empty(sink[s]) /\ ~sink[s].inputClosed /\ ~sink[s].closed
    /\ sink' = [sink EXCEPT ![s].parked = @ \cup {"reader"}]
    /\ UNCHANGED <<bcVars, runVars, remover, published>>

ReaderEOF_OnlyClosed(s) ==           \* only an abort ends the reader
    /\ Reading(s)
    /\ sink[s].closed
    /\ sink' = [sink EXCEPT ![s].eof = TRUE, ![s].done = TRUE]
    /\ UNCHANGED <<bcVars, runVars, remover, published>>

ReaderEOF(s) ==
    /\ Reading(s)
    /\ sink[s].closed \/ (Empty(sink[s]) /\ sink[s].inputClosed)
    /\ sink' = [sink EXCEPT ![s].eof = TRUE, ![s].done = TRUE]
    /\ UNCHANGED <<bcVars, runVars, remover, published>>

\* The byte path may return part of the head chunk, the frame path never does.
ReaderTakes(s) ==
    /\ Reading(s)
    /\ ~sink[s].closed /\ ~Empty(sink[s])
    /\ LET left == Head(sink[s].queue).size - sink[s].head
       IN \/ /\ frames \/ \E n \in BufSizes : n >= left
             /\ sink' = [sink EXCEPT ![s] = HeadRead(@)]
          \/ /\ ~frames
             /\ \E n \in BufSizes :
                   n < left /\ sink' = [sink EXCEPT ![s] = PartlyRead(@, n)]
    /\ UNCHANGED <<bcVars, runVars, remover, published>>

(***************************************************************************)
(* The Run goroutine: Run, runFrames and finish.                            *)
(***************************************************************************)
\* Reserve the number of the next read before blocking in the source.
Reserve ==
    /\ pc = "reserve"
    /\ sequence' = sequence + 1
    /\ pc' = "read"
    /\ UNCHANGED <<frames, stopped, exclusive, sinks, bcDone, sink, cur, rest, victim,
                   drain, remover, published>>

\* The source returns; the sinks whose cut-over is not later are snapshotted.
SourceRead ==
    /\ pc = "read"
    /\ \E size \in Sizes \cup {0}, err \in BOOLEAN :
          /\ sequence >= MaxReads => err
          /\ cur' = [seq |-> sequence, size |-> size, err |-> err]
          /\ IF size > 0
             THEN /\ rest' = {s \in sinks : sink[s].start <= sequence}
                  /\ published' = published \cup {sequence}
             ELSE rest' = {} /\ UNCHANGED published
    /\ pc' = "fanout"
    /\ UNCHANGED <<bcVars, sink, victim, drain, remover>>

Fanning(s) == pc = "fanout" /\ s \in rest /\ "producer" \notin sink[s].parked

\* A backpressured sink with a pending chunk makes the producer wait.
EnqueueWait(s) ==
    /\ Fanning(s)
    /\ EnqueueWaits(sink[s])
    /\ sink' = [sink EXCEPT ![s].parked = @ \cup {"producer"}]
    /\ UNCHANGED <<bcVars, runVars, remover, published>>

EnqueueAccept(s) ==
    /\ Fanning(s)
    /\ EnqueueAccepts(sink[s], cur.size)
    /\ \E parked \in Signalled(sink[s].parked) :
          sink' = [sink EXCEPT ![s] =
                     [Enqueued(@, [seq |-> cur.seq, size |-> cur.size])
                        EXCEPT !.parked = parked]]
    /\ rest' = rest \ {s}
    /\ UNCHANGED <<bcVars, pc, cur, victim, drain, remover, published>>

\* ErrClosedPipe or errBroadcastSinkBacklog: Run removes that sink.
EnqueueFail(s) ==
    /\ Fanning(s)
    /\ EnqueueClosed(sink[s]) \/ EnqueueOverflows(sink[s], cur.size)
    /\ rest' = rest \ {s}
    /\ victim' = {s}
    /\ pc' = "dropAbort"
    /\ UNCHANGED <<bcVars, sink, cur, drain, remover, published>>

DropAbort ==
    /\ pc = "dropAbort"
    /\ sink' = [s \in Sinks |-> IF s \in victim THEN Aborted(sink[s]) ELSE sink[s]]
    /\ pc' = "dropUnlink"
    /\ UNCHANGED <<bcVars, cur, rest, victim, drain, remover, published>>

DropUnlink ==
    /\ pc = "dropUnlink"
    /\ sinks' = sinks \ victim
    /\ victim' = {}
    /\ pc' = "fanout"
    /\ UNCHANGED <<frames, sequence, stopped, exclusive, bcDone, sink, cur, rest, drain,
                   remover, published>>

FannedOut ==
    /\ pc = "fanout" /\ rest = {}
    /\ pc' = IF cur.err THEN "stop" ELSE "reserve"
    /\ UNCHANGED <<bcVars, sink, cur, rest, victim, drain, remover, published>>

\* finish: no sink is registered from here on.
Stop ==
    /\ pc = "stop"
    /\ stopped' = TRUE
    /\ drain' = sinks /\ rest' = sinks
    /\ sinks' = {}
    /\ pc' = "finishSinks"
    /\ UNCHANGED <<frames, sequence, exclusive, bcDone, sink, cur, victim, remover, published>>

FinishSink(s) ==
    /\ pc = "finishSinks" /\ s \in rest
    /\ sink' = [sink EXCEPT ![s] = Finished(@)]
    /\ rest' = rest \ {s}
    /\ UNCHANGED <<bcVars, pc, cur, victim, drain, remover, published>>

StartDrain ==
    /\ pc = "finishSinks" /\ rest = {}
    /\ rest' = drain
    /\ pc' = "drain"
    /\ UNCHANGED <<bcVars, sink, cur, victim, drain, remover, published>>

SinkDrained(s) ==
    /\ pc = "drain" /\ s \in rest
    /\ sink[s].done
    /\ rest' = rest \ {s}
    /\ UNCHANGED <<bcVars, sink, pc, cur, victim, drain, remover, published>>

\* The drain timer, shared by all sinks, fires while one is still awaited.
DrainTimeout ==
    /\ pc = "drain" /\ rest # {}
    /\ pc' = "expire"
    /\ UNCHANGED <<bcVars, sink, cur, rest, victim, drain, remover, published>>

ExpireAbort(s) ==
    /\ pc = "expire" /\ s \in rest
    /\ sink' = [sink EXCEPT ![s] = Aborted(@)]
    /\ rest' = rest \ {s}
    /\ UNCHANGED <<bcVars, pc, cur, victim, drain, remover, published>>

CloseDone ==
    /\ pc \in {"drain", "expire"} /\ rest = {}
    /\ bcDone' = TRUE
    /\ pc' = "done"
    /\ UNCHANGED <<frames, sequence, stopped, exclusive, sinks, sink, cur, rest, victim,
                   drain, remover, published>>

-----------------------------------------------------------------------------
\* What the Run goroutine does by itself, everything but a source read.
RunStep ==
    \/ Reserve \/ DropAbort \/ DropUnlink \/ FannedOut \/ Stop \/ StartDrain
    \/ DrainTimeout \/ CloseDone
    \/ \E s \in Sinks : \/ EnqueueWait(s) \/ EnqueueAccept(s) \/ EnqueueFail(s)
                        \/ FinishSink(s) \/ SinkDrained(s) \/ ExpireAbort(s)

ReaderStep(s) == ReaderParks(s) \/ ReaderEOF(s) \/ ReaderTakes(s)

CallerStep(s) ==
    AddSink(s) \/ AddBackpressuredSink(s) \/ RemoveAbort(s) \/ RemoveUnlink(s)

Next ==
    \/ RunStep
    \/ SourceRead
    \/ \E s \in Sinks : ReaderStep(s) \/ CallerStep(s)

Spec == Init /\ [][Next]_vars

\* The goroutine in Run is scheduled and its drain timer fires; a source read
\* may block, a caller may never call and a receiver may stop reading.
FairSpec == Spec /\ WF_vars(RunStep)

-----------------------------------------------------------------------------
SinkRecord ==
    [alloc : {"none", "open", "rejected"}, backpressure : BOOLEAN,
     queue : Seq(Chunk), head : Nat, bytes : Int, duration : Nat,
     inputClosed : BOOLEAN, closed : BOOLEAN, done : BOOLEAN, start : Nat,
     parked : SUBSET Threads, taken : Nat, eof : BOOLEAN]

TypeOK ==
    /\ frames \in Modes
    /\ sequence \in Nat /\ stopped \in BOOLEAN /\ exclusive \in BOOLEAN
    /\ sinks \subseteq Sinks
    /\ sink \in [Sinks -> SinkRecord]
    /\ bcDone \in BOOLEAN
    /\ pc \in {"reserve", "read", "fanout", "dropAbort", "dropUnlink", "stop",
               "finishSinks", "drain", "expire", "done"}
    /\ cur \in [seq : Nat, size : Nat, err : BOOLEAN]
    /\ rest \subseteq Sinks /\ victim \subseteq Sinks /\ drain \subseteq Sinks
    /\ remover \in [Sinks -> {"idle", "unlink"}]
    /\ published \subseteq Nat

\* A sink's condition variable loses no wake-up: a parked reader has nothing to
\* read and no EOF to report, a parked producer has a full hand-off slot and an
\* open sink.  (enqueue signals, Read/finish/abort broadcast.)
NoLostWakeup ==
    \A s \in Sinks :
        /\ "reader" \in sink[s].parked =>
              Empty(sink[s]) /\ ~sink[s].inputClosed /\ ~sink[s].closed
        /\ "producer" \in sink[s].parked =>
              ~Empty(sink[s]) /\ ~sink[s].inputClosed /\ ~sink[s].closed

\* "A stalled receiver cannot stop capture or its peers": the producer waits
\* for a reader only in a sink that has the whole capture to itself.
SharedSinksNeverBlock ==
    \A s \in Sinks : "producer" \in sink[s].parked =>
        /\ sink[s].backpressure /\ exclusive
        /\ \A t \in Sinks \ {s} : t \notin sinks /\ t \notin rest

\* No gap: what the source produced since a sink's cut-over and its reader has
\* not consumed is queued in order, unless the sink was closed or Run is about
\* to hand it over or to drop the sink for it.
Handing(s) ==
    \/ pc \in {"fanout", "dropAbort", "dropUnlink"} /\ s \in rest
    \/ pc = "dropAbort" /\ s \in victim
Undelivered(s) ==
    {p \in published : p >= sink[s].start /\ p > sink[s].taken
                       /\ ~(Handing(s) /\ p = cur.seq)}
NoGap ==
    \A s \in Sinks : sink[s].start > 0 /\ ~sink[s].closed =>
        LET q == sink[s].queue
        IN /\ {q[i].seq : i \in DOMAIN q} = Undelivered(s)
           /\ \A i, j \in DOMAIN q : i < j => q[i].seq < q[j].seq

\* The byte accounting that bounds a receiver's memory is exact, whatever mix of
\* partial reads, overflow and closing happened, and never exceeds the limits.
SumSizes(q) ==
    LET sum[i \in 0 .. Len(q)] == IF i = 0 THEN 0 ELSE sum[i - 1] + q[i].size
    IN sum[Len(q)]
AccountingExact ==
    \A s \in Sinks :
        /\ sink[s].bytes = SumSizes(sink[s].queue) - sink[s].head
        /\ sink[s].bytes <= MaxQueuedBytes
        /\ Len(sink[s].queue) <= MaxQueuedChunks
        /\ frames => sink[s].duration = Len(sink[s].queue) * FrameDuration
        /\ sink[s].backpressure => Len(sink[s].queue) <= 1

\* What a queue holds is exact: no chunk is missing and no byte miscounted.
QueueExact == NoGap /\ AccountingExact

\* When bc.done closes every sink's data has been consumed or discarded, every
\* sink's own done channel is closed (AsCapture uses it as the process exit),
\* and every sink registered later is finished too.
DrainedWhenDone ==
    bcDone => \A s \in Sinks : sink[s].alloc = "open" =>
                  sink[s].done /\ Empty(sink[s]) /\ sink[s].parked = {}

\* No thread waits for what already happened, or for a receiver it must not depend
\* on, and none is left behind when the capture is over.
NobodyWaitsInVain == NoLostWakeup /\ SharedSinksNeverBlock /\ DrainedWhenDone

\* Run drops only receivers that fell behind: one whose queue is empty is never
\* detached for data that fits a queue at all, whatever the frame rate is.
KeepingUpNeverDropped ==
    [][\A s \in Sinks :
          s \in victim' \ victim /\ Empty(sink[s]) /\ ~sink[s].closed
             => cur.size > MaxQueuedBytes]_vars

\* However its receivers behave, a capture whose source failed completes when no
\* sink is backpressured, and finish() completes even for a receiver that
\* stopped reading.
RunCompletes ==
    (pc = "stop" \/ (pc = "fanout" /\ cur.err /\ ~exclusive)) ~> bcDone

\* When sessions keep reading, each of them is told EOF after the source failed.
ReadersKeepReading == \A s \in Sinks : WF_vars(ReaderStep(s))
ReadersReleased ==
    ReadersKeepReading =>
        \A s \in Sinks : (pc = "stop" /\ sink[s].alloc = "open") ~> sink[s].eof

(***************************************************************************)
(* The promise to the sessions, FanOut, and the refinement mapping.         *)
(***************************************************************************)
Feed(k) ==
    [state |-> IF k.alloc # "open" THEN "none"
               ELSE IF k.closed THEN "cut"
               ELSE IF k.done THEN "ended" ELSE "attached",
     start |-> k.start, taken |-> k.taken]

FO == INSTANCE FanOut WITH
          clock <- sequence, over <- stopped,
          feed <- [s \in Sinks |-> Feed(sink[s])]
FanOutSpec == FO!Spec

\* The goroutines and the readers end, whatever a receiver does.
EveryoneEnds == RunCompletes /\ ReadersReleased
=============================================================================
