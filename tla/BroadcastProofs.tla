---------------------------- MODULE BroadcastProofs ----------------------------
(***************************************************************************)
(* Theorems about the video fan-out, for every number of sinks and reads,   *)
(* both modes of a capture and every queue limit.                           *)
(***************************************************************************)
EXTENDS Broadcast, TLAPS, SequenceTheorems, WellFoundedInduction

-----------------------------------------------------------------------------
(* The sum of the sizes in a queue.  Induction over its length is the least *)
(* number principle: a set of counterexamples has a least member.           *)

LEMMA LeastMember ==
    ASSUME NEW T, T \subseteq Nat, T # {}
    PROVE  \E x \in T : \A y \in T : x <= y
<1> DEFINE R == {ss \in Nat \X Nat : ss[1] < ss[2]}
<1>1. IsWellFoundedOn(R, Nat)
  BY NatLessThanWellFounded DEF OpToRel
<1>2. PICK x \in T : \A y \in T : <<y, x>> \notin R
  <2> HIDE DEF R
  <2> QED BY <1>1, WFMin
<1>3. \A y \in T : ~(y < x)
  BY <1>2
<1> QED BY <1>3

\* What the recursion in SumSizes asks of a function of the first n prefixes of q.
SumsUpto(n, f, q) ==
    /\ f \in [0 .. n -> Int]
    /\ f[0] = 0
    /\ \A i \in 1 .. n : f[i] = f[i - 1] + q[i].size
Sums(f, q) == SumsUpto(Len(q), f, q)

LEMMA SumIsUnique ==
    ASSUME NEW q \in Seq(Chunk), NEW f, Sums(f, q)
    PROVE  SumSizes(q) = f[Len(q)]
<1> DEFINE Step(s) == [i \in 0 .. Len(q) |-> IF i = 0 THEN 0 ELSE s[i - 1] + q[i].size]
           g == CHOOSE s : s = Step(s)
           D == {i \in 0 .. Len(q) : g[i] # f[i]}
<1>1. SumSizes(q) = g[Len(q)]
  BY DEF SumSizes
<1>2. f = Step(f)
  BY DEF Sums, SumsUpto
<1>3. g = Step(g)
  BY <1>2, Zenon
<1> HIDE DEF g
<1>4. ASSUME D # {} PROVE FALSE
  <2>1. PICK x \in D : \A y \in D : x <= y
    <3> D \subseteq Nat
      OBVIOUS
    <3> HIDE DEF D
    <3> QED BY <1>4, LeastMember
  <2>2. x # 0
    BY <1>3 DEF Sums, SumsUpto
  <2>3. x \in 1 .. Len(q) /\ x - 1 \in 0 .. Len(q) /\ x - 1 \notin D
    BY <2>1, <2>2
  <2>4. g[x - 1] = f[x - 1]
    BY <2>3
  <2> QED BY <2>1, <2>3, <2>4, <1>3 DEF Sums, SumsUpto
<1> QED BY <1>1, <1>4

LEMMA SumExists ==
    ASSUME NEW q \in Seq(Chunk)
    PROVE  \E f : Sums(f, q)
<1> DEFINE D == {n \in 0 .. Len(q) : ~ \E f : SumsUpto(n, f, q)}
<1>1. ASSUME D # {} PROVE FALSE
  <2>1. PICK x \in D : \A y \in D : x <= y
    <3> D \subseteq Nat
      OBVIOUS
    <3> HIDE DEF D
    <3> QED BY <1>1, LeastMember
  <2>2. SumsUpto(0, [i \in 0 .. 0 |-> 0], q)
    BY DEF SumsUpto
  <2>3. x \in 1 .. Len(q)
    BY <2>1, <2>2
  <2>4. x - 1 \in 0 .. Len(q) /\ x - 1 \notin D
    <3> HIDE DEF D
    <3> QED BY <2>1, <2>3
  <2>5. PICK f : SumsUpto(x - 1, f, q)
    BY <2>4
  <2> DEFINE h == [i \in 0 .. x |-> IF i = x THEN f[x - 1] + q[x].size ELSE f[i]]
  <2>6. q[x].size \in Int
    <3>1. q[x] \in Chunk
      BY <2>3, ElementOfSeq
    <3> QED BY <3>1 DEF Chunk
  <2>7. SumsUpto(x, h, q)
    <3> HIDE DEF D
    <3>1. \A i \in 0 .. x - 1 : h[i] = f[i] /\ f[i] \in Int
      BY <2>3, <2>5 DEF SumsUpto
    <3>2. h[x] = f[x - 1] + q[x].size /\ f[x - 1] \in Int
      BY <2>3, <2>5 DEF SumsUpto
    <3>3. h \in [0 .. x -> Int] /\ h[0] = 0
      BY <2>3, <2>5, <2>6, <3>1, <3>2 DEF SumsUpto
    <3>4. ASSUME NEW i \in 1 .. x PROVE h[i] = h[i - 1] + q[i].size
      <4>1. CASE i = x
        BY <4>1, <2>3, <3>1, <3>2
      <4>2. CASE i # x
        <5>1. i \in 1 .. x - 1 /\ i - 1 \in 0 .. x - 1 /\ i \in 0 .. x - 1
          BY <4>2, <2>3
        <5> HIDE DEF h
        <5> QED BY <5>1, <3>1, <2>5 DEF SumsUpto
      <4> QED BY <4>1, <4>2
    <3> HIDE DEF h
    <3> QED BY <3>3, <3>4 DEF SumsUpto
  <2> QED BY <2>1, <2>7
<1>2. Len(q) \in 0 .. Len(q)
  OBVIOUS
<1>3. Len(q) \notin D
  <2> HIDE DEF D
  <2> QED BY <1>1
<1> QED BY <1>2, <1>3 DEF Sums

LEMMA SumType == ASSUME NEW q \in Seq(Chunk) PROVE SumSizes(q) \in Int
<1>1. PICK f : Sums(f, q)
  BY SumExists
<1>2. SumSizes(q) = f[Len(q)]
  BY <1>1, SumIsUnique
<1> QED BY <1>1, <1>2 DEF Sums, SumsUpto

LEMMA SumEmpty == SumSizes(<<>>) = 0
<1>1. Sums([i \in 0 .. 0 |-> 0], <<>>)
  BY DEF Sums, SumsUpto
<1> QED BY <1>1, SumIsUnique

LEMMA SumAppend ==
    ASSUME NEW q \in Seq(Chunk), NEW c \in Chunk
    PROVE  SumSizes(Append(q, c)) = SumSizes(q) + c.size
<1>1. PICK f : Sums(f, q)
  BY SumExists
<1> DEFINE r == Append(q, c)
           h == [i \in 0 .. Len(r) |-> IF i = Len(r) THEN f[Len(q)] + c.size ELSE f[i]]
<1>2. /\ r \in Seq(Chunk) /\ Len(r) = Len(q) + 1 /\ r[Len(r)] = c
      /\ \A i \in 1 .. Len(q) : r[i] = q[i]
  BY AppendProperties
<1>3. c.size \in Int
  BY DEF Chunk
<1>4. Sums(h, r)
  BY <1>1, <1>2, <1>3 DEF Sums, SumsUpto
<1>5. SumSizes(r) = h[Len(r)] /\ SumSizes(q) = f[Len(q)]
  BY <1>1, <1>2, <1>4, SumIsUnique
<1> QED BY <1>2, <1>5

LEMMA SumTail ==
    ASSUME NEW q \in Seq(Chunk), q # <<>>
    PROVE  SumSizes(Tail(q)) = SumSizes(q) - Head(q).size
<1>1. PICK f : Sums(f, q)
  BY SumExists
<1> DEFINE r == Tail(q)
           h == [i \in 0 .. Len(r) |-> f[i + 1] - q[1].size]
<1>2. /\ r \in Seq(Chunk) /\ Len(r) = Len(q) - 1 /\ Len(q) \in Nat \ {0}
      /\ \A i \in 1 .. Len(r) : r[i] = q[i + 1]
  BY HeadTailProperties
<1>3. q[1].size \in Int /\ Head(q) = q[1]
  <2>1. q[1] \in Chunk
    BY <1>2, ElementOfSeq
  <2> QED BY <2>1 DEF Chunk
<1>4. Sums(h, r)
  <2>1. \A i \in 0 .. Len(r) : i + 1 \in 1 .. Len(q) /\ f[i + 1] \in Int
    BY <1>1, <1>2 DEF Sums, SumsUpto
  <2>2. h \in [0 .. Len(r) -> Int]
    BY <1>3, <2>1
  <2>3. h[0] = 0
    BY <1>1, <1>2, <1>3 DEF Sums, SumsUpto
  <2>4. ASSUME NEW i \in 1 .. Len(r) PROVE h[i] = h[i - 1] + r[i].size
    <3>1. i \in 0 .. Len(r) /\ i - 1 \in 0 .. Len(r) /\ i + 1 \in 1 .. Len(q)
      BY <1>2
    <3>2. f[i + 1] = f[i] + q[i + 1].size
      BY <3>1, <1>1, <1>2 DEF Sums, SumsUpto
    <3>3. q[i + 1].size = r[i].size /\ q[i + 1].size \in Int
      <4>1. q[i + 1] \in Chunk
        BY <3>1, ElementOfSeq
      <4> QED BY <4>1, <1>2 DEF Chunk
    <3>4. f[i] \in Int
      BY <3>1, <1>1, <1>2 DEF Sums, SumsUpto
    <3> QED BY <3>1, <3>2, <3>3, <3>4, <1>3
  <2> HIDE DEF h
  <2> QED BY <2>2, <2>3, <2>4 DEF Sums, SumsUpto
<1>5. SumSizes(r) = h[Len(r)] /\ SumSizes(q) = f[Len(q)]
  BY <1>1, <1>2, <1>4, SumIsUnique
<1> QED BY <1>2, <1>3, <1>5

-----------------------------------------------------------------------------
\* A sink with the identity of k and the given state; what the operations on a
\* sink make of it, field by field.
SinkLike(k, q, head, bytes, duration, inputClosed, closed, done, parked, taken, eof) ==
    [alloc |-> k.alloc, backpressure |-> k.backpressure, queue |-> q, head |-> head,
     bytes |-> bytes, duration |-> duration, inputClosed |-> inputClosed,
     closed |-> closed, done |-> done, start |-> k.start, parked |-> parked,
     taken |-> taken, eof |-> eof]

LEMMA FinishedFields ==
    ASSUME NEW k \in SinkRecord, ~k.closed, ~k.inputClosed, NEW j, j = Finished(k)
    PROVE  j = SinkLike(k, k.queue, k.head, k.bytes, k.duration, TRUE, k.closed,
                                  k.done \/ Empty(k), {}, k.taken, k.eof)
BY DEF SinkRecord, Finished, SinkLike

LEMMA AbortedFields ==
    ASSUME NEW k \in SinkRecord, ~k.closed, NEW j, j = Aborted(k)
    PROVE  j = SinkLike(k, <<>>, 0, 0, 0, TRUE, TRUE, TRUE, {}, k.taken, k.eof)
BY DEF SinkRecord, Aborted, SinkLike

LEMMA HeadReadFields ==
    ASSUME NEW k \in SinkRecord, NEW j, j = HeadRead(k)
    PROVE  j =
             SinkLike(k, Tail(k.queue), 0, k.bytes - (Head(k.queue).size - k.head),
                      IF frames /\ k.duration >= FrameDuration
                      THEN k.duration - FrameDuration ELSE 0,
                      k.inputClosed, k.closed,
                      k.done \/ (Tail(k.queue) = <<>> /\ k.inputClosed),
                      {}, Head(k.queue).seq, k.eof)
BY DEF SinkRecord, HeadRead, SinkLike

LEMMA PartlyReadFields ==
    ASSUME NEW k \in SinkRecord, NEW n, NEW j, j = PartlyRead(k, n)
    PROVE  j =
             SinkLike(k, k.queue, k.head + n, k.bytes - n, k.duration,
                      k.inputClosed, k.closed, k.done, k.parked, k.taken, k.eof)
BY DEF SinkRecord, PartlyRead, SinkLike

LEMMA EnqueuedFields ==
    ASSUME NEW k \in SinkRecord, NEW c, NEW p, NEW j, 
           j = [Enqueued(k, c) EXCEPT !.parked = p]
    PROVE  j =
             SinkLike(k, Append(k.queue, c), k.head, k.bytes + c.size,
                      IF frames THEN k.duration + FrameDuration ELSE 0,
                      k.inputClosed, k.closed, k.done, p, k.taken, k.eof)
BY DEF SinkRecord, Enqueued, SinkLike

LEMMA ParkedFields ==
    ASSUME NEW k \in SinkRecord, NEW p, NEW j, j = [k EXCEPT !.parked = p]
    PROVE  j =
             SinkLike(k, k.queue, k.head, k.bytes, k.duration,
                      k.inputClosed, k.closed, k.done, p, k.taken, k.eof)
BY DEF SinkRecord, SinkLike

LEMMA EOFFields ==
    ASSUME NEW k \in SinkRecord, NEW j, j = [k EXCEPT !.eof = TRUE, !.done = TRUE]
    PROVE  j =
             SinkLike(k, k.queue, k.head, k.bytes, k.duration,
                      k.inputClosed, k.closed, TRUE, k.parked, k.taken, TRUE)
BY DEF SinkRecord, SinkLike

(***************************************************************************)
(* One sink by itself.  Exact is AccountingExact of one sink; Sound adds    *)
(* what makes it inductive: a head that is read in part is not used up, a   *)
(* closed or refused sink is empty, done says that it is drained, and who   *)
(* is parked has a reason to be.                                            *)
(***************************************************************************)
Exact(k, units) ==
    /\ k.bytes = SumSizes(k.queue) - k.head
    /\ k.bytes <= MaxQueuedBytes
    /\ Len(k.queue) <= MaxQueuedChunks
    /\ units => k.duration = Len(k.queue) * FrameDuration
    /\ k.backpressure => Len(k.queue) <= 1

Parked(k) ==
    /\ k.inputClosed => k.parked = {}
    /\ "reader" \in k.parked => Empty(k)
    /\ "producer" \in k.parked => ~Empty(k) /\ k.backpressure

Closing(k) ==
    /\ k.alloc # "open" => k.start = 0 /\ k.taken = 0
    /\ k.start = 0 => Empty(k) /\ (k.alloc = "open" => k.inputClosed)
    /\ k.closed => k.inputClosed /\ Empty(k)
    /\ k.done <=> Empty(k) /\ k.inputClosed

HeadFits(k) == IF Empty(k) THEN k.head = 0 ELSE k.head < Head(k.queue).size

Sound(k, units) ==
    k \in SinkRecord /\ Exact(k, units) /\ Parked(k) /\ Closing(k) /\ HeadFits(k)

LEMMA SoundIfFields ==
    ASSUME NEW j, NEW units, j \in SinkRecord, j.queue = <<>>, j.head = 0, j.bytes = 0,
           j.duration = 0, j.parked = {}, Closing(j)
    PROVE  Sound(j, units)
<1>1. Len(<<>>) = 0 /\ 0 * FrameDuration = 0 /\ MaxQueuedBytes \in Nat /\ MaxQueuedChunks \in Nat
  BY LimitsAssumption
<1>2. Exact(j, units)
  BY <1>1, SumEmpty DEF Exact
<1> QED BY <1>2 DEF Sound, Parked, HeadFits, Empty

LEMMA FreshSound ==
    ASSUME NEW b \in BOOLEAN, NEW n \in Nat \ {0}, NEW units \in BOOLEAN
    PROVE  /\ Sound(NoSink, units)
           /\ Sound(Finished(NewSink(b)), units)
           /\ Sound([Aborted(NewSink(b)) EXCEPT !.alloc = "rejected"], units)
           /\ Sound([NewSink(b) EXCEPT !.start = n], units)
<1> DEFINE new == NewSink(b)
<1>1. <<>> \in Seq(Chunk) /\ {} \in SUBSET Threads
  OBVIOUS
<1>2. /\ new \in SinkRecord
      /\ new.queue = <<>> /\ new.head = 0 /\ new.bytes = 0 /\ new.duration = 0
      /\ new.parked = {} /\ new.start = 0 /\ new.taken = 0
      /\ ~new.closed /\ ~new.inputClosed /\ ~new.done /\ new.alloc = "open"
  BY <1>1 DEF NewSink, SinkRecord
<1>3. Sound(NoSink, units)
  <2> DEFINE f == NewSink(FALSE)
             j == [f EXCEPT !.alloc = "none"]
  <2>1. f \in SinkRecord /\ f.queue = <<>> /\ f.head = 0 /\ f.bytes = 0 /\ f.duration = 0
        /\ f.parked = {} /\ f.start = 0 /\ f.taken = 0 /\ ~f.closed /\ ~f.inputClosed /\ ~f.done
    BY <1>1 DEF NewSink, SinkRecord
  <2> HIDE DEF f
  <2>2. j \in SinkRecord /\ j.alloc = "none"
    BY <2>1 DEF SinkRecord
  <2>3. j.queue = <<>> /\ j.head = 0 /\ j.bytes = 0 /\ j.duration = 0 /\ j.parked = {}
        /\ j.start = 0 /\ j.taken = 0 /\ ~j.closed /\ ~j.inputClosed /\ ~j.done
    BY <2>1 DEF SinkRecord
  <2> HIDE DEF j
  <2>4. Closing(j)
    BY <2>2, <2>3 DEF Closing, Empty
  <2>5. Sound(j, units)
    BY <2>2, <2>3, <2>4, SoundIfFields
  <2> QED BY <2>5 DEF j, f, NoSink
<1> HIDE DEF new
<1>4. Sound(Finished(new), units)
  <2> DEFINE j == Finished(new)
  <2>1. j = SinkLike(new, new.queue, new.head, new.bytes, new.duration, TRUE, new.closed,
                     new.done \/ Empty(new), {}, new.taken, new.eof)
    BY <1>2, FinishedFields
  <2> HIDE DEF j
  <2>2. j \in SinkRecord
    BY <1>1, <1>2, <2>1 DEF SinkRecord, SinkLike, Empty
  <2>3. j.queue = <<>> /\ j.inputClosed /\ j.done = TRUE /\ j.alloc = "open"
    BY <1>2, <2>1 DEF SinkLike, Empty
  <2>4. Closing(j)
    BY <2>3 DEF Closing, Empty
  <2> QED BY <1>2, <2>1, <2>2, <2>4, SoundIfFields DEF j, SinkLike
<1>5. Sound([Aborted(new) EXCEPT !.alloc = "rejected"], units)
  <2> DEFINE a == Aborted(new)
             j == [a EXCEPT !.alloc = "rejected"]
  <2>1. a = SinkLike(new, <<>>, 0, 0, 0, TRUE, TRUE, TRUE, {}, new.taken, new.eof)
    BY <1>2, AbortedFields
  <2> HIDE DEF a
  <2>2. a \in SinkRecord /\ a.start = 0 /\ a.taken = 0 /\ a.done = TRUE /\ a.inputClosed
        /\ a.queue = <<>>
    BY <1>1, <1>2, <2>1 DEF SinkRecord, SinkLike
  <2>3. j \in SinkRecord /\ j.alloc = "rejected" /\ j.start = 0 /\ j.taken = 0 
        /\ j.done = TRUE /\ j.inputClosed /\ j.queue = <<>>
    BY <2>2 DEF SinkRecord
  <2>4. j.head = 0 /\ j.bytes = 0 /\ j.duration = 0 /\ j.parked = {}
    BY <2>1, <2>2 DEF SinkRecord, SinkLike
  <2> HIDE DEF j
  <2>5. Closing(j)
    BY <2>3 DEF Closing, Empty
  <2>6. Sound(j, units)
    BY <2>3, <2>4, <2>5, SoundIfFields
  <2> QED BY <2>6 DEF j, a
<1>6. Sound([new EXCEPT !.start = n], units)
  <2> DEFINE j == [new EXCEPT !.start = n]
  <2>1. j \in SinkRecord /\ j.start = n
    BY <1>2 DEF SinkRecord
  <2>2. j.queue = <<>> /\ j.head = 0 /\ j.bytes = 0 /\ j.duration = 0 /\ j.parked = {}
        /\ ~j.closed /\ ~j.inputClosed /\ ~j.done /\ j.alloc = "open"
    BY <1>2 DEF SinkRecord
  <2> HIDE DEF j
  <2>3. Closing(j)
    BY <2>1, <2>2 DEF Closing, Empty
  <2>4. Sound(j, units)
    BY <2>1, <2>2, <2>3, SoundIfFields
  <2> QED BY <2>4 DEF j
<1> QED BY <1>3, <1>4, <1>5, <1>6 DEF new

LEMMA FinishedSound ==
    ASSUME NEW k, NEW units, Sound(k, units)
    PROVE  Sound(Finished(k), units)
<1>1. CASE k.closed \/ k.inputClosed
  BY <1>1 DEF Finished
<1>2. CASE ~(k.closed \/ k.inputClosed)
  <2>1. k \in SinkRecord /\ {} \in SUBSET Threads
    BY DEF Sound
  <2> DEFINE j == Finished(k)
  <2>2. j = SinkLike(k, k.queue, k.head, k.bytes, k.duration, TRUE, k.closed,
                     k.done \/ Empty(k), {}, k.taken, k.eof)
    BY <1>2, <2>1, FinishedFields
  <2> HIDE DEF j
  <2>3. j \in SinkRecord
    BY <2>1, <2>2 DEF SinkRecord, SinkLike, Empty
  <2>4. Exact(j, units) /\ HeadFits(j)
    BY <2>2 DEF Sound, Exact, HeadFits, SinkLike, Empty
  <2>5. Parked(j)
    BY <2>2 DEF Parked, SinkLike
  <2>6. Closing(j)
    <3>1. j.alloc = k.alloc /\ j.start = k.start /\ j.taken = k.taken /\ j.queue = k.queue
          /\ j.closed = k.closed /\ j.inputClosed = TRUE /\ j.done = (k.done \/ Empty(k))
      BY <2>2 DEF SinkLike
    <3> QED BY <1>2, <3>1 DEF Sound, Closing, Empty
  <2> QED BY <2>3, <2>4, <2>5, <2>6 DEF Sound, j
<1> QED BY <1>1, <1>2

LEMMA AbortedSound ==
    ASSUME NEW k, NEW units, Sound(k, units)
    PROVE  Sound(Aborted(k), units)
<1>1. CASE k.closed
  BY <1>1 DEF Aborted
<1>2. CASE ~k.closed
  <2>1. k \in SinkRecord /\ {} \in SUBSET Threads /\ <<>> \in Seq(Chunk)
    BY DEF Sound
  <2> DEFINE j == Aborted(k)
  <2>2. j = SinkLike(k, <<>>, 0, 0, 0, TRUE, TRUE, TRUE, {}, k.taken, k.eof)
    BY <1>2, <2>1, AbortedFields
  <2> HIDE DEF j
  <2>3. j \in SinkRecord
    BY <2>1, <2>2 DEF SinkRecord, SinkLike
  <2>4. Closing(j)
    <3>1. j.alloc = k.alloc /\ j.start = k.start /\ j.taken = k.taken /\ j.queue = <<>>
          /\ j.closed = TRUE /\ j.inputClosed = TRUE /\ j.done = TRUE
      BY <2>2 DEF SinkLike
    <3> QED BY <3>1 DEF Sound, Closing, Empty
  <2>5. Sound(j, units)
    BY <2>2, <2>3, <2>4, SoundIfFields DEF SinkLike
  <2> QED BY <2>5 DEF j
<1> QED BY <1>1, <1>2

LEMMA HeadReadSound ==
    ASSUME NEW k, Sound(k, frames), ~Empty(k)
    PROVE  Sound(HeadRead(k), frames)
<1> DEFINE j == HeadRead(k)
           h == Head(k.queue)
           q == Tail(k.queue)
<1>1. k \in SinkRecord /\ k.queue \in Seq(Chunk) /\ k.queue # <<>> /\ {} \in SUBSET Threads
  BY DEF Sound, SinkRecord, Empty
<1>2. /\ h \in Chunk /\ q \in Seq(Chunk) /\ Len(q) = Len(k.queue) - 1
      /\ Len(q) \in Nat /\ Len(k.queue) \in Nat
  BY <1>1, HeadTailProperties
<1>3. h.seq \in Nat /\ h.size \in Nat /\ SumSizes(q) = SumSizes(k.queue) - h.size
  BY <1>1, <1>2, SumTail DEF Chunk
<1>4. j = SinkLike(k, q, 0, k.bytes - (h.size - k.head),
                   IF frames /\ k.duration >= FrameDuration
                   THEN k.duration - FrameDuration ELSE 0,
                   k.inputClosed, k.closed, k.done \/ (q = <<>> /\ k.inputClosed),
                   {}, h.seq, k.eof)
  BY <1>1, HeadReadFields
<1> HIDE DEF j, h, q
<1>5. FrameDuration \in Nat /\ k.head \in Nat /\ k.bytes \in Int /\ k.duration \in Nat
      /\ MaxQueuedBytes \in Nat /\ MaxQueuedChunks \in Nat
  BY <1>1, LimitsAssumption DEF SinkRecord
<1>6. j \in SinkRecord
  BY <1>1, <1>2, <1>3, <1>4, <1>5 DEF SinkRecord, SinkLike
<1>7. Exact(j, frames)
  <2>1. /\ j.queue = q /\ j.head = 0 /\ j.bytes = k.bytes - (h.size - k.head)
        /\ j.duration = IF frames /\ k.duration >= FrameDuration
                        THEN k.duration - FrameDuration ELSE 0
        /\ j.backpressure = k.backpressure
    BY <1>4 DEF SinkLike
  <2>2. k.head < h.size
    BY <1>1 DEF Sound, HeadFits, Empty, h
  <2>3. k.bytes = SumSizes(k.queue) - k.head /\ k.bytes <= MaxQueuedBytes
        /\ Len(k.queue) <= MaxQueuedChunks /\ (k.backpressure => Len(k.queue) <= 1)
    BY DEF Sound, Exact
  <2>4. SumSizes(k.queue) \in Int
    BY <1>1, SumType
  <2>5. j.bytes = SumSizes(j.queue) - j.head /\ j.bytes <= MaxQueuedBytes
    BY <1>3, <1>5, <2>1, <2>2, <2>3, <2>4
  <2>6. ASSUME frames PROVE j.duration = Len(j.queue) * FrameDuration
    <3>1. k.duration = Len(k.queue) * FrameDuration
      BY <2>6 DEF Sound, Exact
    <3>2. Len(k.queue) * FrameDuration = Len(q) * FrameDuration + FrameDuration
      BY <1>2, <1>5
    <3>3. Len(q) * FrameDuration \in Nat
      BY <1>2, <1>5
    <3> HIDE DEF h
    <3> QED BY <2>6, <2>1, <3>1, <3>2, <3>3, <1>5
  <2> QED BY <1>2, <1>5, <2>1, <2>3, <2>5, <2>6 DEF Exact
<1>8. Parked(j)
  BY <1>4 DEF Parked, SinkLike
<1>9. Closing(j)
  <2>1. /\ j.alloc = k.alloc /\ j.start = k.start /\ j.queue = q /\ j.closed = k.closed
        /\ j.inputClosed = k.inputClosed /\ j.done = (k.done \/ (q = <<>> /\ k.inputClosed))
    BY <1>4 DEF SinkLike
  <2>2. k.start # 0 /\ k.alloc = "open" /\ ~k.closed /\ k.done = FALSE
    BY <1>1 DEF Sound, Closing, Empty, SinkRecord
  <2> QED BY <2>1, <2>2 DEF Closing, Empty
<1>10. HeadFits(j)
  <2>1. j.queue = q /\ j.head = 0
    BY <1>4 DEF SinkLike
  <2>2. CASE q = <<>>
    BY <2>1, <2>2 DEF HeadFits, Empty
  <2>3. CASE q # <<>>
    <3>1. Head(q) \in Chunk
      BY <1>2, <2>3, HeadTailProperties
    <3> QED BY <2>1, <2>3, <3>1 DEF HeadFits, Empty, Chunk
  <2> QED BY <2>2, <2>3
<1> QED BY <1>6, <1>7, <1>8, <1>9, <1>10 DEF Sound, j

LEMMA PartlyReadSound ==
    ASSUME NEW k, NEW units, Sound(k, units), ~Empty(k),
           NEW n \in Nat, n < Head(k.queue).size - k.head
    PROVE  Sound(PartlyRead(k, n), units)
<1> DEFINE j == PartlyRead(k, n)
<1>1. /\ k \in SinkRecord /\ k.head \in Nat /\ k.bytes \in Int /\ MaxQueuedBytes \in Nat
      /\ k.queue \in Seq(Chunk) /\ k.queue # <<>>
  BY LimitsAssumption DEF Sound, SinkRecord, Empty
<1>2. j = SinkLike(k, k.queue, k.head + n, k.bytes - n, k.duration,
                   k.inputClosed, k.closed, k.done, k.parked, k.taken, k.eof)
  BY <1>1, PartlyReadFields
<1> HIDE DEF j
<1>3. j \in SinkRecord
  BY <1>1, <1>2 DEF SinkRecord, SinkLike
<1>4. Parked(j) /\ Closing(j)
  BY <1>2 DEF Sound, Parked, Closing, SinkLike, Empty
<1>5. Exact(j, units)
  <2>1. /\ j.queue = k.queue /\ j.head = k.head + n /\ j.bytes = k.bytes - n
        /\ j.duration = k.duration /\ j.backpressure = k.backpressure
    BY <1>2 DEF SinkLike
  <2>2. SumSizes(k.queue) \in Int
    BY <1>1, SumType
  <2>3. k.bytes = SumSizes(k.queue) - k.head /\ k.bytes <= MaxQueuedBytes
    BY DEF Sound, Exact
  <2>4. j.bytes = SumSizes(j.queue) - j.head /\ j.bytes <= MaxQueuedBytes
    BY <1>1, <2>1, <2>2, <2>3
  <2> QED BY <2>1, <2>4 DEF Sound, Exact
<1>6. HeadFits(j)
  <2>1. j.queue = k.queue /\ j.head = k.head + n
    BY <1>2 DEF SinkLike
  <2>2. Head(k.queue) \in Chunk
    BY <1>1, HeadTailProperties
  <2> QED BY <1>1, <2>1, <2>2 DEF HeadFits, Empty, Chunk
<1> QED BY <1>3, <1>4, <1>5, <1>6 DEF Sound, j

LEMMA EnqueuedSound ==
    ASSUME NEW k, Sound(k, frames), k.alloc = "open", k.start # 0, "producer" \notin k.parked,
           NEW c \in Chunk, EnqueueAccepts(k, c.size), NEW p \in Signalled(k.parked)
    PROVE  Sound([Enqueued(k, c) EXCEPT !.parked = p], frames)
<1> DEFINE j == [Enqueued(k, c) EXCEPT !.parked = p]
           q == Append(k.queue, c)
<1>1. /\ k \in SinkRecord /\ k.queue \in Seq(Chunk) /\ k.head \in Nat /\ k.bytes \in Int
      /\ k.duration \in Nat /\ k.parked \subseteq Threads
      /\ MaxQueuedBytes \in Nat /\ MaxQueuedChunks \in Nat /\ FrameDuration \in Nat
  BY LimitsAssumption DEF Sound, SinkRecord
<1>2. j = SinkLike(k, q, k.head, k.bytes + c.size,
                   IF frames THEN k.duration + FrameDuration ELSE 0,
                   k.inputClosed, k.closed, k.done, p, k.taken, k.eof)
  BY <1>1, EnqueuedFields
<1>3. /\ q \in Seq(Chunk) /\ q # <<>> /\ Len(q) = Len(k.queue) + 1
      /\ Len(k.queue) \in Nat /\ c.size \in Nat \ {0}
      /\ SumSizes(q) = SumSizes(k.queue) + c.size /\ SumSizes(k.queue) \in Int
  <2>1. q \in Seq(Chunk) /\ q # <<>> /\ Len(q) = Len(k.queue) + 1 /\ Len(k.queue) \in Nat
    BY <1>1, AppendProperties
  <2>2. SumSizes(q) = SumSizes(k.queue) + c.size /\ SumSizes(k.queue) \in Int
    BY <1>1, SumAppend, SumType
  <2>3. c.size \in Nat \ {0}
    BY DEF Chunk
  <2> QED BY <2>1, <2>2, <2>3
<1>4. Head(q) = IF k.queue = <<>> THEN c ELSE Head(k.queue)
  BY <1>1, HeadTailAppend
<1>5. /\ ~k.closed /\ ~k.inputClosed /\ (k.backpressure => k.queue = <<>>)
      /\ Len(k.queue) < MaxQueuedChunks /\ c.size <= MaxQueuedBytes - k.bytes
  BY <1>1, <1>3 DEF EnqueueAccepts, EnqueueClosed, EnqueueWaits, ExceedsLimits, Empty
<1>6. p = {}
  <2>1. k.parked \subseteq {"reader"}
    BY <1>1 DEF Threads
  <2> QED BY <2>1 DEF Signalled
<1> HIDE DEF j, q
<1>7. j \in SinkRecord
  <2>1. p \in SUBSET Threads
    BY <1>6
  <2> QED BY <1>1, <1>2, <1>3, <2>1 DEF SinkRecord, SinkLike
<1>8. Exact(j, frames)
  <2>1. /\ j.queue = q /\ j.head = k.head /\ j.bytes = k.bytes + c.size
        /\ j.duration = IF frames THEN k.duration + FrameDuration ELSE 0
        /\ j.backpressure = k.backpressure
    BY <1>2 DEF SinkLike
  <2>2. k.bytes = SumSizes(k.queue) - k.head
    BY DEF Sound, Exact
  <2>3. j.bytes = SumSizes(j.queue) - j.head /\ j.bytes <= MaxQueuedBytes
    <3>1. SumSizes(j.queue) = SumSizes(k.queue) + c.size
      BY <1>3, <2>1
    <3>2. k.bytes + c.size <= MaxQueuedBytes
      BY <1>1, <1>3, <1>5
    <3> QED BY <1>1, <1>3, <2>1, <2>2, <3>1, <3>2
  <2>4. ASSUME frames PROVE j.duration = Len(j.queue) * FrameDuration
    <3>1. k.duration = Len(k.queue) * FrameDuration
      BY <2>4 DEF Sound, Exact
    <3>2. (Len(k.queue) + 1) * FrameDuration = Len(k.queue) * FrameDuration + FrameDuration
      BY <1>1, <1>3
    <3> QED BY <2>4, <2>1, <1>3, <3>1, <3>2
  <2>5. j.backpressure => Len(j.queue) <= 1
    <3>1. Len(<<>>) = 0
      OBVIOUS
    <3> QED BY <1>3, <1>5, <2>1, <3>1
  <2> QED BY <1>1, <1>3, <1>5, <2>1, <2>3, <2>4, <2>5 DEF Exact
<1>9. Parked(j)
  BY <1>2, <1>6 DEF Parked, SinkLike
<1>10. Closing(j)
  <2>1. /\ j.alloc = k.alloc /\ j.start = k.start /\ j.queue = q /\ j.closed = k.closed
        /\ j.inputClosed = k.inputClosed /\ j.done = k.done
    BY <1>2 DEF SinkLike
  <2>2. k.done = FALSE
    BY <1>5, <1>1 DEF Sound, Closing, SinkRecord
  <2> QED BY <2>1, <2>2, <1>3, <1>5 DEF Closing, Empty
<1>11. HeadFits(j)
  <2>1. j.queue = q /\ j.head = k.head
    BY <1>2 DEF SinkLike
  <2> QED BY <1>3, <1>4, <2>1 DEF Sound, HeadFits, Empty
<1> QED BY <1>7, <1>8, <1>9, <1>10, <1>11 DEF Sound, j

LEMMA ParkedSound ==
    ASSUME NEW k, NEW units, Sound(k, units), ~k.inputClosed, NEW t \in Threads,
           t = "reader" => Empty(k), t = "producer" => ~Empty(k) /\ k.backpressure
    PROVE  Sound([k EXCEPT !.parked = @ \cup {t}], units)
<1> DEFINE p == k.parked \cup {t}
           j == [k EXCEPT !.parked = p]
<1>1. k \in SinkRecord /\ p \in SUBSET Threads
  BY DEF Sound, SinkRecord
<1>2. j = SinkLike(k, k.queue, k.head, k.bytes, k.duration,
                   k.inputClosed, k.closed, k.done, p, k.taken, k.eof)
  BY <1>1, ParkedFields
<1>3. j \in SinkRecord
  <2> HIDE DEF j, p
  <2> QED BY <1>1, <1>2 DEF SinkRecord, SinkLike
<1>4. Parked(j)
  <2>1. j.parked = p /\ j.inputClosed = k.inputClosed /\ j.queue = k.queue
        /\ j.backpressure = k.backpressure
    BY <1>2 DEF SinkLike
  <2> HIDE DEF j
  <2> QED BY <2>1 DEF Sound, Parked, Empty
<1>5. Exact(j, units) /\ Closing(j) /\ HeadFits(j)
  <2> HIDE DEF j, p
  <2> QED BY <1>2 DEF Sound, Exact, Closing, HeadFits, SinkLike, Empty
<1> HIDE DEF j
<1>6. Sound(j, units)
  BY <1>3, <1>4, <1>5 DEF Sound
<1> QED BY <1>6 DEF j

LEMMA EOFSound ==
    ASSUME NEW k, NEW units, Sound(k, units), k.closed \/ (Empty(k) /\ k.inputClosed)
    PROVE  Sound([k EXCEPT !.eof = TRUE, !.done = TRUE], units)
<1> DEFINE j == [k EXCEPT !.eof = TRUE, !.done = TRUE]
<1>1. k \in SinkRecord
  BY DEF Sound
<1>2. j = SinkLike(k, k.queue, k.head, k.bytes, k.duration,
                   k.inputClosed, k.closed, TRUE, k.parked, k.taken, TRUE)
  BY <1>1, EOFFields
<1> HIDE DEF j
<1>3. j \in SinkRecord
  BY <1>1, <1>2 DEF SinkRecord, SinkLike
<1>4. Exact(j, units) /\ HeadFits(j) /\ Parked(j)
  BY <1>2 DEF Sound, Exact, HeadFits, Parked, SinkLike, Empty
<1>5. Closing(j)
  <2>1. /\ j.alloc = k.alloc /\ j.start = k.start /\ j.taken = k.taken /\ j.queue = k.queue
        /\ j.closed = k.closed /\ j.inputClosed = k.inputClosed /\ j.done = TRUE
    BY <1>2 DEF SinkLike
  <2> QED BY <2>1 DEF Sound, Closing, Empty
<1> QED BY <1>3, <1>4, <1>5 DEF Sound, j

\* What finish and abort do to a sound sink, whatever state it is in.
LEMMA FinishedFacts ==
    ASSUME NEW k, NEW units, Sound(k, units), NEW j, j = Finished(k)
    PROVE  /\ j.alloc = k.alloc /\ j.backpressure = k.backpressure /\ j.start = k.start
           /\ j.taken = k.taken /\ j.queue = k.queue /\ j.closed = k.closed
           /\ j.inputClosed = TRUE /\ j.parked = {} /\ j.done = Empty(k)
<1>1. k \in SinkRecord
  BY DEF Sound
<1>2. CASE k.closed \/ k.inputClosed
  <2>1. j = k /\ k.inputClosed = TRUE
    BY <1>1, <1>2 DEF Sound, Closing, SinkRecord, Finished
  <2>2. k.done = Empty(k)
    BY <1>1, <2>1 DEF Sound, Closing, SinkRecord, Empty
  <2> QED BY <2>1, <2>2 DEF Sound, Parked
<1>3. CASE ~(k.closed \/ k.inputClosed)
  <2>1. j = SinkLike(k, k.queue, k.head, k.bytes, k.duration, TRUE, k.closed,
                     k.done \/ Empty(k), {}, k.taken, k.eof)
    BY <1>1, <1>3, FinishedFields
  <2>2. k.done = FALSE
    BY <1>1, <1>3 DEF Sound, Closing, SinkRecord
  <2> QED BY <2>1, <2>2 DEF SinkLike, Empty
<1> QED BY <1>2, <1>3

LEMMA AbortedFacts ==
    ASSUME NEW k, NEW units, Sound(k, units), NEW j, j = Aborted(k)
    PROVE  /\ j.alloc = k.alloc /\ j.backpressure = k.backpressure /\ j.start = k.start
           /\ j.taken = k.taken /\ j.queue = <<>> /\ j.closed = TRUE
           /\ j.inputClosed = TRUE /\ j.parked = {} /\ j.done = TRUE
<1>1. k \in SinkRecord
  BY DEF Sound
<1>2. CASE k.closed
  <2>1. j = k /\ k.closed = TRUE /\ k.inputClosed = TRUE /\ k.queue = <<>> /\ k.done = TRUE
    BY <1>1, <1>2 DEF Sound, Closing, SinkRecord, Aborted, Empty
  <2> QED BY <2>1 DEF Sound, Parked
<1>3. CASE ~k.closed
  <2>1. j = SinkLike(k, <<>>, 0, 0, 0, TRUE, TRUE, TRUE, {}, k.taken, k.eof)
    BY <1>1, <1>3, AbortedFields
  <2> QED BY <2>1 DEF SinkLike
<1> QED BY <1>2, <1>3

-----------------------------------------------------------------------------
(***************************************************************************)
(* The inductive invariant: the sinks by themselves, the Run goroutine, and *)
(* how the two go together.                                                 *)
(***************************************************************************)
FanningOut == {"fanout", "dropAbort", "dropUnlink"}
Dropping == {"dropAbort", "dropUnlink"}
Ending == {"finishSinks", "drain", "expire", "done"}
Open(s) == sink[s].alloc = "open"
Served(s) == Open(s) /\ sink[s].start > 0

\* The read Run hands out is the one it reserved last, has data and was counted
\* once; it removes one sink at a time; finish() leaves no sink registered.
RunInv ==
    /\ stopped <=> pc \in Ending
    /\ bcDone => pc = "done"
    /\ stopped => sinks = {}
    /\ pc \in {"reserve", "read", "stop", "done"} => rest = {}
    /\ pc \in Dropping => \E s \in Sinks : victim = {s}
    /\ pc \notin Dropping => victim = {}
    /\ pc \in FanningOut => cur.seq = sequence
    /\ pc \in FanningOut /\ rest \cup victim # {} => cur.size > 0 /\ sequence \in published
    /\ published \subseteq 1 .. sequence
    /\ pc = "read" => sequence > 0 /\ sequence \notin published

\* A sink in use is registered until it is closed or the capture is over.
Attached(s) ==
    /\ s \in sinks => Served(s)
    /\ Served(s) /\ ~sink[s].closed /\ ~stopped => s \in sinks /\ ~sink[s].inputClosed
    /\ sink[s].start <= sequence + 1
    /\ sink[s].taken \in published \cup {0}
\* Who unlinks a sink has aborted it before.
Removed(s) ==
    /\ remover[s] = "unlink" => Open(s) /\ sink[s].closed
    /\ pc = "dropUnlink" /\ s \in victim => sink[s].closed
\* Run visits sinks that were there when it read, and not twice.
Visited(s) ==
    /\ pc \in FanningOut /\ s \in rest \cup victim =>
          Served(s) /\ sink[s].start <= sequence /\ sink[s].taken < sequence
    /\ s \in rest \cup drain => Open(s)
\* A backpressured sink has the capture to itself, and only it parks Run.
Alone(s) ==
    /\ sink[s].backpressure /\ Served(s) =>
          exclusive /\ sinks \subseteq {s} /\ (pc \in FanningOut /\ s \in rest => rest = {s})
    /\ "producer" \in sink[s].parked => pc = "fanout" /\ s \in rest
\* finish() gets round to every sink that is not drained yet.
Drained(s) ==
    stopped /\ Open(s) =>
        /\ sink[s].done \/ s \in drain
        /\ sink[s].inputClosed \/ (pc = "finishSinks" /\ s \in rest)
        /\ pc \in {"drain", "expire", "done"} => sink[s].done \/ s \in rest

SinksSound == \A s \in Sinks : Sound(sink[s], frames)
Known(s) == Attached(s) /\ Removed(s) /\ Visited(s) /\ Alone(s) /\ Drained(s)
SinksKnown == \A s \in Sinks : Known(s)

FanInv == TypeOK /\ RunInv /\ SinksSound /\ SinksKnown /\ NoGap

-----------------------------------------------------------------------------
(* Every sink stays sound.                                                  *)

LEMMA SinkBecomes ==
    ASSUME SinksSound, TypeOK, frames' = frames, NEW s \in Sinks, NEW k, Sound(k, frames),
           sink' = [sink EXCEPT ![s] = k]
    PROVE  SinksSound' /\ sink' \in [Sinks -> SinkRecord]
<1>1. \A t \in Sinks : sink'[t] = IF t = s THEN k ELSE sink[t]
  BY DEF TypeOK
<1>2. SinksSound'
  BY <1>1 DEF SinksSound
<1>3. k \in SinkRecord
  BY DEF Sound
<1> QED BY <1>2, <1>3 DEF TypeOK

LEMMA SoundStep ==
    ASSUME FanInv, [Next]_vars
    PROVE  SinksSound' /\ sink' \in [Sinks -> SinkRecord]
<1> USE DEF FanInv
<1>1. \A s \in Sinks : Sound(sink[s], frames) /\ sink[s] \in SinkRecord
  BY DEF SinksSound, Sound
<1>2. CASE frames' = frames /\ sink' = sink
  BY <1>2 DEF SinksSound, TypeOK
<1>3. ASSUME NEW s \in Sinks, AddSink(s) PROVE SinksSound' /\ sink' \in [Sinks -> SinkRecord]
  <2>1. sequence + 1 \in Nat \ {0} /\ frames \in BOOLEAN /\ frames' = frames
    BY <1>3, ModesAssumption DEF TypeOK, AddSink
  <2>2. \E k : Sound(k, frames) /\ sink' = [sink EXCEPT ![s] = k]
    BY <1>3, <2>1, FreshSound DEF AddSink
  <2> QED BY <2>1, <2>2, SinkBecomes
<1>4. ASSUME NEW s \in Sinks, AddBackpressuredSink(s)
      PROVE SinksSound' /\ sink' \in [Sinks -> SinkRecord]
  <2>1. sequence + 1 \in Nat \ {0} /\ frames \in BOOLEAN /\ frames' = frames
    BY <1>4, ModesAssumption DEF TypeOK, AddBackpressuredSink
  <2>2. \E k : Sound(k, frames) /\ sink' = [sink EXCEPT ![s] = k]
    BY <1>4, <2>1, FreshSound DEF AddBackpressuredSink
  <2> QED BY <2>1, <2>2, SinkBecomes
<1>5. ASSUME NEW s \in Sinks, RemoveAbort(s) \/ ExpireAbort(s)
      PROVE SinksSound' /\ sink' \in [Sinks -> SinkRecord]
  <2>1. frames' = frames /\ sink' = [sink EXCEPT ![s] = Aborted(sink[s])]
    BY <1>5 DEF RemoveAbort, ExpireAbort, bcVars
  <2> QED BY <1>1, <2>1, AbortedSound, SinkBecomes
<1>6. ASSUME NEW s \in Sinks, FinishSink(s) PROVE SinksSound' /\ sink' \in [Sinks -> SinkRecord]
  <2>1. frames' = frames /\ sink' = [sink EXCEPT ![s] = Finished(sink[s])]
    BY <1>6 DEF FinishSink, bcVars
  <2> QED BY <1>1, <2>1, FinishedSound, SinkBecomes
<1>7. ASSUME NEW s \in Sinks, ReaderParks(s) PROVE SinksSound' /\ sink' \in [Sinks -> SinkRecord]
  <2> DEFINE k == [sink[s] EXCEPT !.parked = @ \cup {"reader"}]
  <2>1. frames' = frames /\ sink' = [sink EXCEPT ![s] = k]
    BY <1>7 DEF ReaderParks, bcVars
  <2>2. Empty(sink[s]) /\ ~sink[s].inputClosed
    BY <1>7 DEF ReaderParks
  <2>3. Sound(k, frames)
    BY <1>1, <2>2, ParkedSound DEF Threads
  <2> HIDE DEF k
  <2> QED BY <2>1, <2>3, SinkBecomes
<1>8. ASSUME NEW s \in Sinks, EnqueueWait(s) PROVE SinksSound' /\ sink' \in [Sinks -> SinkRecord]
  <2> DEFINE k == [sink[s] EXCEPT !.parked = @ \cup {"producer"}]
  <2>1. frames' = frames /\ sink' = [sink EXCEPT ![s] = k]
    BY <1>8 DEF EnqueueWait, bcVars
  <2>2. ~Empty(sink[s]) /\ ~sink[s].inputClosed /\ sink[s].backpressure
    BY <1>8 DEF EnqueueWait, EnqueueWaits, EnqueueClosed
  <2>3. Sound(k, frames)
    BY <1>1, <2>2, ParkedSound DEF Threads
  <2> HIDE DEF k
  <2> QED BY <2>1, <2>3, SinkBecomes
<1>9. ASSUME NEW s \in Sinks, ReaderEOF(s) PROVE SinksSound' /\ sink' \in [Sinks -> SinkRecord]
  <2> DEFINE k == [sink[s] EXCEPT !.eof = TRUE, !.done = TRUE]
  <2>1. frames' = frames /\ sink' = [sink EXCEPT ![s] = k]
    BY <1>9 DEF ReaderEOF, bcVars, TypeOK
  <2>2. sink[s].closed \/ (Empty(sink[s]) /\ sink[s].inputClosed)
    BY <1>9 DEF ReaderEOF
  <2>3. Sound(k, frames)
    BY <1>1, <2>2, EOFSound
  <2> HIDE DEF k
  <2> QED BY <2>1, <2>3, SinkBecomes
<1>10. ASSUME NEW s \in Sinks, ReaderTakes(s) PROVE SinksSound' /\ sink' \in [Sinks -> SinkRecord]
  <2>1. frames' = frames /\ ~Empty(sink[s])
    BY <1>10 DEF ReaderTakes, bcVars
  <2>2. CASE sink' = [sink EXCEPT ![s] = HeadRead(sink[s])]
    BY <1>1, <2>1, <2>2, HeadReadSound, SinkBecomes
  <2>3. ASSUME NEW n \in BufSizes, n < Head(sink[s].queue).size - sink[s].head,
               sink' = [sink EXCEPT ![s] = PartlyRead(sink[s], n)]
        PROVE  SinksSound' /\ sink' \in [Sinks -> SinkRecord]
    <3>1. n \in Nat
      BY SizesAssumption
    <3>2. Sound(PartlyRead(sink[s], n), frames)
      BY <1>1, <2>1, <2>3, <3>1, PartlyReadSound
    <3> QED BY <2>1, <2>3, <3>2, SinkBecomes
  <2> QED BY <1>10, <2>2, <2>3 DEF ReaderTakes
<1>11. ASSUME NEW s \in Sinks, EnqueueAccept(s)
       PROVE  SinksSound' /\ sink' \in [Sinks -> SinkRecord]
  <2> DEFINE c == [seq |-> cur.seq, size |-> cur.size]
  <2>1. /\ frames' = frames /\ pc = "fanout" /\ s \in rest
        /\ "producer" \notin sink[s].parked /\ EnqueueAccepts(sink[s], cur.size)
    BY <1>11 DEF EnqueueAccept, Fanning, bcVars
  <2>2. sink[s].alloc = "open" /\ sink[s].start # 0
    BY <1>1, <2>1 DEF SinksKnown, Known, Visited, FanningOut, Served, Open
  <2>3. cur.size > 0 /\ cur.seq \in Nat /\ cur.size \in Nat
    BY <2>1 DEF RunInv, FanningOut, TypeOK
  <2>4. c \in Chunk /\ c.size = cur.size
    BY <2>3 DEF Chunk
  <2>5. PICK p \in Signalled(sink[s].parked) :
           sink' = [sink EXCEPT ![s] = [Enqueued(sink[s], c) EXCEPT !.parked = p]]
    BY <1>11 DEF EnqueueAccept
  <2> HIDE DEF c
  <2>6. Sound([Enqueued(sink[s], c) EXCEPT !.parked = p], frames)
    BY <1>1, <2>1, <2>2, <2>4, EnqueuedSound
  <2> QED BY <2>1, <2>5, <2>6, SinkBecomes
<1>12. ASSUME DropAbort PROVE SinksSound' /\ sink' \in [Sinks -> SinkRecord]
  <2>1. frames' = frames
        /\ sink' = [s \in Sinks |-> IF s \in victim THEN Aborted(sink[s]) ELSE sink[s]]
    BY <1>12 DEF DropAbort, bcVars
  <2>2. \A s \in Sinks : Sound(Aborted(sink[s]), frames)
    BY <1>1, AbortedSound
  <2>3. \A s \in Sinks : Sound(sink'[s], frames) /\ sink'[s] \in SinkRecord
    BY <1>1, <2>1, <2>2 DEF Sound
  <2> QED BY <2>1, <2>3 DEF SinksSound
<1> QED
  BY <1>2, <1>3, <1>4, <1>5, <1>6, <1>7, <1>8, <1>9, <1>10, <1>11, <1>12
     DEF Next, RunStep, ReaderStep, CallerStep, vars, bcVars, runVars, Reserve, SourceRead,
         EnqueueFail, DropUnlink, FannedOut, Stop, StartDrain, SinkDrained, DrainTimeout,
         CloseDone, RemoveUnlink

-----------------------------------------------------------------------------
(* What each operation on a sink does to it, and to no other.               *)

OthersSame(s) == \A t \in Sinks : t # s => sink'[t] = sink[t]
\* j is the sink k after an operation that keeps its identity.
Identical(j, k) ==
    j.alloc = k.alloc /\ j.backpressure = k.backpressure /\ j.start = k.start

LEMMA NewFields ==
    ASSUME NEW b \in BOOLEAN, NEW new, new = NewSink(b)
    PROVE  /\ new \in SinkRecord
           /\ new.alloc = "open" /\ new.backpressure = b /\ new.queue = <<>>
           /\ new.parked = {} /\ new.start = 0 /\ new.taken = 0
           /\ new.inputClosed = FALSE /\ new.closed = FALSE /\ new.done = FALSE
<1>1. <<>> \in Seq(Chunk) /\ {} \in SUBSET Threads
  OBVIOUS
<1> QED BY <1>1 DEF NewSink, SinkRecord

LEMMA FreshFields ==
    ASSUME NEW b \in BOOLEAN
    PROVE  /\ \A j : j = Finished(NewSink(b)) =>
                /\ j.alloc = "open" /\ j.backpressure = b /\ j.start = 0
                /\ j.queue = <<>> /\ j.taken = 0 /\ j.parked = {}
                /\ j.inputClosed = TRUE /\ j.closed = FALSE /\ j.done = TRUE
           /\ \A j : j = [Aborted(NewSink(b)) EXCEPT !.alloc = "rejected"] =>
                /\ j.alloc = "rejected" /\ j.backpressure = b /\ j.start = 0
                /\ j.queue = <<>> /\ j.taken = 0 /\ j.parked = {}
                /\ j.inputClosed = TRUE /\ j.closed = TRUE /\ j.done = TRUE
<1> DEFINE new == NewSink(b)
<1>1. /\ new \in SinkRecord
      /\ new.alloc = "open" /\ new.backpressure = b /\ new.queue = <<>> /\ new.parked = {}
      /\ new.start = 0 /\ new.taken = 0
      /\ new.inputClosed = FALSE /\ new.closed = FALSE /\ new.done = FALSE
  BY NewFields
<1> HIDE DEF new
<1>2. ASSUME NEW j, j = Finished(new)
      PROVE  /\ j.alloc = "open" /\ j.backpressure = b /\ j.start = 0
             /\ j.queue = <<>> /\ j.taken = 0 /\ j.parked = {}
             /\ j.inputClosed = TRUE /\ j.closed = FALSE /\ j.done = TRUE
  <2>1. j = SinkLike(new, new.queue, new.head, new.bytes, new.duration, TRUE, new.closed,
                     new.done \/ Empty(new), {}, new.taken, new.eof)
    BY <1>1, <1>2, FinishedFields
  <2> QED BY <1>1, <2>1 DEF SinkLike, Empty
<1>3. ASSUME NEW j, j = [Aborted(new) EXCEPT !.alloc = "rejected"]
      PROVE  /\ j.alloc = "rejected" /\ j.backpressure = b /\ j.start = 0
             /\ j.queue = <<>> /\ j.taken = 0 /\ j.parked = {}
             /\ j.inputClosed = TRUE /\ j.closed = TRUE /\ j.done = TRUE
  <2> DEFINE a == Aborted(new)
  <2>1. a = SinkLike(new, <<>>, 0, 0, 0, TRUE, TRUE, TRUE, {}, new.taken, new.eof)
    BY <1>1, AbortedFields
  <2>2. j = [a EXCEPT !.alloc = "rejected"]
    BY <1>3
  <2> HIDE DEF a
  <2>3. a \in SinkRecord
    BY <1>1, <2>1 DEF SinkRecord, SinkLike
  <2>4. j.alloc = "rejected"
    BY <2>2, <2>3 DEF SinkRecord
  <2>5. /\ j.backpressure = a.backpressure /\ j.start = a.start
        /\ j.queue = a.queue /\ j.taken = a.taken /\ j.parked = a.parked
        /\ j.inputClosed = a.inputClosed /\ j.closed = a.closed /\ j.done = a.done
    BY <2>2, <2>3 DEF SinkRecord
  <2> QED BY <1>1, <2>1, <2>4, <2>5 DEF SinkLike
<1> QED BY <1>2, <1>3 DEF new

\* A new sink is refused or finished before it is used, or it is registered to
\* start with the next read.
LEMMA CreateEffect ==
    ASSUME TypeOK, NEW s \in Sinks, AddSink(s) \/ AddBackpressuredSink(s)
    PROVE  /\ sink[s].alloc = "none" /\ OthersSame(s)
           /\ sink'[s].queue = <<>> /\ sink'[s].taken = 0 /\ sink'[s].parked = {}
           /\ \/ /\ sink'[s].start = 0 /\ sink'[s].alloc \in {"open", "rejected"}
                 /\ sink'[s].inputClosed = TRUE /\ sink'[s].done = TRUE
                 /\ sink'[s].alloc = "open" =>
                       sink'[s].closed = FALSE /\ (stopped \/ exclusive)
                 /\ sinks' = sinks /\ exclusive' = exclusive
              \/ /\ sink'[s].start = sequence + 1 /\ sink'[s].alloc = "open"
                 /\ sink'[s].inputClosed = FALSE /\ sink'[s].closed = FALSE
                 /\ sink'[s].done = FALSE
                 /\ ~stopped /\ ~exclusive
                 /\ sinks' = sinks \cup {s} /\ exclusive' = sink'[s].backpressure
                 /\ sink'[s].backpressure => sinks = {}
           /\ UNCHANGED <<frames, sequence, stopped, bcDone, pc, cur, rest, victim, drain,
                          remover, published>>
<1>1. CASE AddSink(s)
  <2>1. sequence + 1 \in Nat /\ exclusive \in BOOLEAN
    BY DEF TypeOK
  <2>2. \/ /\ stopped \/ exclusive
           /\ sink' = [sink EXCEPT ![s] = Finished(NewSink(FALSE))]
           /\ sinks' = sinks
        \/ /\ ~stopped /\ ~exclusive
           /\ sink' = [sink EXCEPT ![s] = [NewSink(FALSE) EXCEPT !.start = sequence + 1]]
           /\ sinks' = sinks \cup {s}
    BY <1>1 DEF AddSink
  <2>3. \E j : /\ sink' = [sink EXCEPT ![s] = j]
               /\ \/ (stopped \/ exclusive) /\ j = Finished(NewSink(FALSE)) /\ sinks' = sinks
                  \/ /\ ~stopped /\ ~exclusive
                     /\ j = [NewSink(FALSE) EXCEPT !.start = sequence + 1]
                     /\ sinks' = sinks \cup {s}
    BY <2>2
  <2>4. PICK j : /\ sink' = [sink EXCEPT ![s] = j]
                 /\ \/ (stopped \/ exclusive) /\ j = Finished(NewSink(FALSE)) /\ sinks' = sinks
                    \/ /\ ~stopped /\ ~exclusive
                       /\ j = [NewSink(FALSE) EXCEPT !.start = sequence + 1]
                       /\ sinks' = sinks \cup {s}
    BY <2>3
  <2>5. sink'[s] = j /\ OthersSame(s)
    BY <2>4 DEF TypeOK, OthersSame
  <2>6. exclusive' = exclusive /\ sink[s].alloc = "none"
        /\ UNCHANGED <<frames, sequence, stopped, bcDone, pc, cur, rest, victim, drain,
                       remover, published>>
    BY <1>1 DEF AddSink, runVars
  <2>7. CASE (stopped \/ exclusive) /\ j = Finished(NewSink(FALSE)) /\ sinks' = sinks
    <3>1. /\ j.alloc = "open" /\ j.start = 0 /\ j.queue = <<>> /\ j.taken = 0 /\ j.parked = {}
          /\ j.inputClosed = TRUE /\ j.closed = FALSE /\ j.done = TRUE
      BY <2>1, <2>7, FreshFields
    <3> QED BY <3>1, <2>5, <2>6, <2>7
  <2>8. CASE /\ ~stopped /\ ~exclusive
             /\ j = [NewSink(FALSE) EXCEPT !.start = sequence + 1]
             /\ sinks' = sinks \cup {s}
    <3>1. /\ j.alloc = "open" /\ j.backpressure = FALSE /\ j.start = sequence + 1
          /\ j.queue = <<>> /\ j.taken = 0 /\ j.parked = {}
          /\ j.inputClosed = FALSE /\ j.closed = FALSE /\ j.done = FALSE
      <4> DEFINE new == NewSink(FALSE)
      <4>1. j = [new EXCEPT !.start = sequence + 1]
        BY <2>8
      <4>2. /\ new \in SinkRecord
            /\ new.alloc = "open" /\ new.backpressure = FALSE /\ new.queue = <<>>
            /\ new.parked = {} /\ new.start = 0 /\ new.taken = 0
            /\ new.inputClosed = FALSE /\ new.closed = FALSE /\ new.done = FALSE
        BY NewFields
      <4> HIDE DEF new
      <4> QED BY <4>1, <4>2 DEF SinkRecord
    <3>2. exclusive = FALSE
      BY <2>1, <2>8
    <3> QED BY <3>1, <3>2, <2>5, <2>6, <2>8
  <2> QED BY <2>4, <2>7, <2>8
<1>2. CASE AddBackpressuredSink(s)
  <2>1. sequence + 1 \in Nat
    BY DEF TypeOK
  <2>2. PICK j :
          /\ sink' = [sink EXCEPT ![s] = j]
          /\ \/ stopped /\ j = Finished(NewSink(TRUE)) /\ exclusive' = exclusive /\ sinks' = sinks
             \/ /\ j = [Aborted(NewSink(TRUE)) EXCEPT !.alloc = "rejected"]
                /\ exclusive' = exclusive /\ sinks' = sinks
             \/ /\ ~stopped /\ ~exclusive /\ sinks = {} /\ exclusive' = TRUE /\ sinks' = {s}
                /\ j = [NewSink(TRUE) EXCEPT !.start = sequence + 1]
    BY <1>2 DEF AddBackpressuredSink
  <2>3. sink'[s] = j /\ OthersSame(s)
    BY <2>2 DEF TypeOK, OthersSame
  <2>4. sink[s].alloc = "none"
        /\ UNCHANGED <<frames, sequence, stopped, bcDone, pc, cur, rest, victim, drain,
                       remover, published>>
    BY <1>2 DEF AddBackpressuredSink, runVars
  <2>5. CASE stopped /\ j = Finished(NewSink(TRUE)) /\ exclusive' = exclusive /\ sinks' = sinks
    <3>1. /\ j.alloc = "open" /\ j.start = 0 /\ j.queue = <<>> /\ j.taken = 0 /\ j.parked = {}
          /\ j.inputClosed = TRUE /\ j.closed = FALSE /\ j.done = TRUE
      BY <2>1, <2>5, FreshFields
    <3> QED BY <3>1, <2>3, <2>4, <2>5
  <2>6. CASE /\ j = [Aborted(NewSink(TRUE)) EXCEPT !.alloc = "rejected"]
             /\ exclusive' = exclusive /\ sinks' = sinks
    <3>1. /\ j.alloc = "rejected" /\ j.start = 0 /\ j.queue = <<>> /\ j.taken = 0
          /\ j.parked = {} /\ j.inputClosed = TRUE /\ j.done = TRUE
      BY <2>1, <2>6, FreshFields
    <3> QED BY <3>1, <2>3, <2>4, <2>6
  <2>7. CASE /\ ~stopped /\ ~exclusive /\ sinks = {} /\ exclusive' = TRUE /\ sinks' = {s}
             /\ j = [NewSink(TRUE) EXCEPT !.start = sequence + 1]
    <3>1. /\ j.alloc = "open" /\ j.backpressure = TRUE /\ j.start = sequence + 1
          /\ j.queue = <<>> /\ j.taken = 0 /\ j.parked = {}
          /\ j.inputClosed = FALSE /\ j.closed = FALSE /\ j.done = FALSE
      <4> DEFINE new == NewSink(TRUE)
      <4>1. j = [new EXCEPT !.start = sequence + 1]
        BY <2>7
      <4>2. /\ new \in SinkRecord
            /\ new.alloc = "open" /\ new.backpressure = TRUE /\ new.queue = <<>>
            /\ new.parked = {} /\ new.start = 0 /\ new.taken = 0
            /\ new.inputClosed = FALSE /\ new.closed = FALSE /\ new.done = FALSE
        BY NewFields
      <4> HIDE DEF new
      <4> QED BY <4>1, <4>2 DEF SinkRecord
    <3>2. sinks' = sinks \cup {s}
      BY <2>7
    <3> QED BY <3>1, <3>2, <2>3, <2>4, <2>7
  <2> QED BY <2>2, <2>5, <2>6, <2>7
<1> QED BY <1>1, <1>2

LEMMA SinkReplaced ==
    ASSUME TypeOK, NEW s \in Sinks, NEW j, sink' = [sink EXCEPT ![s] = j]
    PROVE  sink'[s] = j /\ OthersSame(s)
BY DEF TypeOK, OthersSame

LEMMA AbortEffect ==
    ASSUME FanInv, NEW s \in Sinks, RemoveAbort(s) \/ ExpireAbort(s)
    PROVE  /\ OthersSame(s) /\ Identical(sink'[s], sink[s])
           /\ sink'[s].taken = sink[s].taken /\ sink'[s].queue = <<>>
           /\ sink'[s].closed = TRUE /\ sink'[s].inputClosed = TRUE
           /\ sink'[s].parked = {} /\ sink'[s].done = TRUE
<1>1. Sound(sink[s], frames) /\ TypeOK
  BY DEF FanInv, SinksSound
<1>2. sink' = [sink EXCEPT ![s] = Aborted(sink[s])]
  BY DEF RemoveAbort, ExpireAbort
<1>3. sink'[s] = Aborted(sink[s]) /\ OthersSame(s)
  BY <1>1, <1>2, SinkReplaced
<1> DEFINE j == sink'[s]
           k == sink[s]
<1>4. j = Aborted(k) /\ Sound(k, frames)
  BY <1>1, <1>3
<1> HIDE DEF j, k
<1>5. /\ j.alloc = k.alloc /\ j.backpressure = k.backpressure /\ j.start = k.start
      /\ j.taken = k.taken /\ j.queue = <<>> /\ j.closed = TRUE
      /\ j.inputClosed = TRUE /\ j.parked = {} /\ j.done = TRUE
  BY <1>4, AbortedFacts
<1> QED BY <1>3, <1>5 DEF Identical, j, k

LEMMA DropEffect ==
    ASSUME FanInv, DropAbort
    PROVE  \A s \in Sinks :
               IF s \in victim
               THEN /\ Identical(sink'[s], sink[s])
                    /\ sink'[s].taken = sink[s].taken /\ sink'[s].queue = <<>>
                    /\ sink'[s].closed = TRUE /\ sink'[s].inputClosed = TRUE
                    /\ sink'[s].parked = {} /\ sink'[s].done = TRUE
               ELSE sink'[s] = sink[s]
<1> TAKE s \in Sinks
<1>1. Sound(sink[s], frames)
  BY DEF FanInv, SinksSound
<1>2. sink'[s] = IF s \in victim THEN Aborted(sink[s]) ELSE sink[s]
  BY DEF DropAbort
<1>3. CASE s \in victim
  BY <1>1, <1>2, <1>3, AbortedFacts DEF Identical
<1> QED BY <1>2, <1>3

LEMMA FinishEffect ==
    ASSUME FanInv, NEW s \in Sinks, FinishSink(s)
    PROVE  /\ OthersSame(s) /\ Identical(sink'[s], sink[s])
           /\ sink'[s].taken = sink[s].taken /\ sink'[s].queue = sink[s].queue
           /\ sink'[s].closed = sink[s].closed /\ sink'[s].inputClosed = TRUE
           /\ sink'[s].parked = {} /\ sink'[s].done = Empty(sink[s])
<1>1. Sound(sink[s], frames) /\ TypeOK
  BY DEF FanInv, SinksSound
<1>2. sink' = [sink EXCEPT ![s] = Finished(sink[s])]
  BY DEF FinishSink
<1>3. sink'[s] = Finished(sink[s]) /\ OthersSame(s)
  BY <1>1, <1>2, SinkReplaced
<1> DEFINE j == sink'[s]
           k == sink[s]
<1>4. j = Finished(k) /\ Sound(k, frames)
  BY <1>1, <1>3
<1> HIDE DEF j, k
<1>5. /\ j.alloc = k.alloc /\ j.backpressure = k.backpressure /\ j.start = k.start
      /\ j.taken = k.taken /\ j.queue = k.queue /\ j.closed = k.closed
      /\ j.inputClosed = TRUE /\ j.parked = {} /\ j.done = Empty(k)
  BY <1>4, FinishedFacts
<1> QED BY <1>3, <1>5 DEF Identical, j, k

LEMMA ParkEffect ==
    ASSUME FanInv, NEW s \in Sinks, ReaderParks(s) \/ EnqueueWait(s)
    PROVE  /\ OthersSame(s) /\ Identical(sink'[s], sink[s])
           /\ sink'[s].taken = sink[s].taken /\ sink'[s].queue = sink[s].queue
           /\ sink'[s].closed = sink[s].closed /\ sink'[s].inputClosed = sink[s].inputClosed
           /\ sink'[s].done = sink[s].done
           /\ "producer" \in sink'[s].parked =>
                 "producer" \in sink[s].parked \/ EnqueueWait(s)
<1>1. sink[s] \in SinkRecord /\ TypeOK
  BY DEF FanInv, TypeOK
<1>2. ASSUME NEW t \in Threads, NEW j, j = [sink[s] EXCEPT !.parked = @ \cup {t}],
             sink' = [sink EXCEPT ![s] = j], t = "producer" => EnqueueWait(s)
      PROVE  /\ OthersSame(s) /\ Identical(sink'[s], sink[s])
             /\ sink'[s].taken = sink[s].taken /\ sink'[s].queue = sink[s].queue
             /\ sink'[s].closed = sink[s].closed /\ sink'[s].inputClosed = sink[s].inputClosed
             /\ sink'[s].done = sink[s].done
             /\ "producer" \in sink'[s].parked =>
                   "producer" \in sink[s].parked \/ EnqueueWait(s)
  <2>1. sink'[s] = j /\ OthersSame(s)
    BY <1>1, <1>2, SinkReplaced
  <2> DEFINE p == sink[s].parked \cup {t}
  <2>2. j = [sink[s] EXCEPT !.parked = p]
    BY <1>2
  <2> HIDE DEF p
  <2>3. j = SinkLike(sink[s], sink[s].queue, sink[s].head, sink[s].bytes, sink[s].duration,
                     sink[s].inputClosed, sink[s].closed, sink[s].done, p, sink[s].taken,
                     sink[s].eof)
    BY <1>1, <2>2, ParkedFields
  <2>4. /\ Identical(j, sink[s]) /\ j.taken = sink[s].taken /\ j.queue = sink[s].queue
        /\ j.closed = sink[s].closed /\ j.inputClosed = sink[s].inputClosed
        /\ j.done = sink[s].done /\ j.parked = p
    BY <2>3 DEF SinkLike, Identical
  <2> QED BY <1>2, <2>1, <2>4 DEF p
<1>3. CASE ReaderParks(s)
  <2>1. sink' = [sink EXCEPT ![s] = [sink[s] EXCEPT !.parked = @ \cup {"reader"}]]
    BY <1>3 DEF ReaderParks
  <2> QED BY <2>1, <1>2 DEF Threads
<1>4. CASE EnqueueWait(s)
  <2>1. sink' = [sink EXCEPT ![s] = [sink[s] EXCEPT !.parked = @ \cup {"producer"}]]
    BY <1>4 DEF EnqueueWait
  <2> QED BY <2>1, <1>2, <1>4 DEF Threads
<1> QED BY <1>3, <1>4

LEMMA EOFEffect ==
    ASSUME FanInv, NEW s \in Sinks, ReaderEOF(s)
    PROVE  /\ OthersSame(s) /\ Identical(sink'[s], sink[s])
           /\ sink'[s].taken = sink[s].taken /\ sink'[s].queue = sink[s].queue
           /\ sink'[s].closed = sink[s].closed /\ sink'[s].inputClosed = sink[s].inputClosed
           /\ sink'[s].parked = sink[s].parked /\ sink'[s].done = TRUE /\ sink[s].done = TRUE
<1>1. sink[s] \in SinkRecord /\ TypeOK /\ Sound(sink[s], frames)
  BY DEF FanInv, SinksSound, TypeOK
<1> DEFINE j == [sink[s] EXCEPT !.eof = TRUE, !.done = TRUE]
<1>2. sink' = [sink EXCEPT ![s] = j]
  BY <1>1 DEF ReaderEOF, TypeOK
<1>3. j = SinkLike(sink[s], sink[s].queue, sink[s].head, sink[s].bytes, sink[s].duration,
                   sink[s].inputClosed, sink[s].closed, TRUE, sink[s].parked, sink[s].taken,
                   TRUE)
  BY <1>1, EOFFields
<1> HIDE DEF j
<1>4. sink'[s] = j /\ OthersSame(s)
  BY <1>1, <1>2, SinkReplaced
<1>5. sink[s].done = TRUE
  BY <1>1 DEF ReaderEOF, Sound, Closing, SinkRecord
<1> QED BY <1>3, <1>4, <1>5 DEF SinkLike, Identical

\* A reader consumes the head chunk, or leaves the queue as it is.
LEMMA TakeEffect ==
    ASSUME FanInv, NEW s \in Sinks, ReaderTakes(s)
    PROVE  /\ OthersSame(s) /\ Identical(sink'[s], sink[s])
           /\ sink[s].queue # <<>> /\ sink[s].closed = FALSE
           /\ sink'[s].closed = FALSE /\ sink'[s].inputClosed = sink[s].inputClosed
           /\ "producer" \in sink'[s].parked => "producer" \in sink[s].parked
           /\ \/ /\ sink'[s].queue = Tail(sink[s].queue)
                 /\ sink'[s].taken = Head(sink[s].queue).seq
              \/ /\ sink'[s].queue = sink[s].queue /\ sink'[s].taken = sink[s].taken
                 /\ sink'[s].done = sink[s].done
<1>1. sink[s] \in SinkRecord /\ TypeOK
  BY DEF FanInv, TypeOK
<1>2. sink[s].queue # <<>> /\ sink[s].closed = FALSE
  BY <1>1 DEF ReaderTakes, Empty, SinkRecord
<1>3. ASSUME NEW j, j = HeadRead(sink[s]), sink' = [sink EXCEPT ![s] = j]
      PROVE  /\ OthersSame(s) /\ Identical(sink'[s], sink[s])
             /\ sink'[s].closed = FALSE /\ sink'[s].inputClosed = sink[s].inputClosed
             /\ "producer" \in sink'[s].parked => "producer" \in sink[s].parked
             /\ sink'[s].queue = Tail(sink[s].queue)
             /\ sink'[s].taken = Head(sink[s].queue).seq
  <2>1. sink'[s] = j /\ OthersSame(s)
    BY <1>1, <1>3, SinkReplaced
  <2> DEFINE k == sink[s]
  <2>2. j = SinkLike(k, Tail(k.queue), 0, k.bytes - (Head(k.queue).size - k.head),
                     IF frames /\ k.duration >= FrameDuration
                     THEN k.duration - FrameDuration ELSE 0,
                     k.inputClosed, k.closed,
                     k.done \/ (Tail(k.queue) = <<>> /\ k.inputClosed),
                     {}, Head(k.queue).seq, k.eof)
    BY <1>1, <1>3, HeadReadFields
  <2>3. /\ Identical(j, sink[s]) /\ j.taken = Head(sink[s].queue).seq
        /\ j.queue = Tail(sink[s].queue) /\ j.closed = sink[s].closed
        /\ j.inputClosed = sink[s].inputClosed /\ j.parked = {}
    BY <2>2 DEF SinkLike, Identical
  <2> QED BY <1>2, <2>1, <2>3
<1>4. ASSUME NEW n, NEW j, j = PartlyRead(sink[s], n), sink' = [sink EXCEPT ![s] = j]
      PROVE  /\ OthersSame(s) /\ Identical(sink'[s], sink[s])
             /\ sink'[s].closed = FALSE /\ sink'[s].inputClosed = sink[s].inputClosed
             /\ "producer" \in sink'[s].parked => "producer" \in sink[s].parked
             /\ sink'[s].queue = sink[s].queue /\ sink'[s].taken = sink[s].taken
             /\ sink'[s].done = sink[s].done
  <2>1. sink'[s] = j /\ OthersSame(s)
    BY <1>1, <1>4, SinkReplaced
  <2>2. j = SinkLike(sink[s], sink[s].queue, sink[s].head + n, sink[s].bytes - n,
                     sink[s].duration, sink[s].inputClosed, sink[s].closed, sink[s].done,
                     sink[s].parked, sink[s].taken, sink[s].eof)
    BY <1>1, <1>4, PartlyReadFields
  <2>3. /\ Identical(j, sink[s]) /\ j.taken = sink[s].taken /\ j.queue = sink[s].queue
        /\ j.closed = sink[s].closed /\ j.inputClosed = sink[s].inputClosed
        /\ j.done = sink[s].done /\ j.parked = sink[s].parked
    BY <2>2 DEF SinkLike, Identical
  <2> QED BY <1>2, <2>1, <2>3
<1>5. \/ sink' = [sink EXCEPT ![s] = HeadRead(sink[s])]
      \/ \E n \in BufSizes : sink' = [sink EXCEPT ![s] = PartlyRead(sink[s], n)]
  BY DEF ReaderTakes
<1> QED BY <1>2, <1>3, <1>4, <1>5

LEMMA EnqueueEffect ==
    ASSUME FanInv, NEW s \in Sinks, EnqueueAccept(s)
    PROVE  /\ OthersSame(s) /\ Identical(sink'[s], sink[s])
           /\ sink'[s].taken = sink[s].taken
           /\ sink'[s].queue = Append(sink[s].queue, [seq |-> cur.seq, size |-> cur.size])
           /\ sink'[s].closed = FALSE /\ sink[s].closed = FALSE
           /\ sink'[s].inputClosed = FALSE /\ sink[s].inputClosed = FALSE
           /\ sink'[s].done = sink[s].done
           /\ "producer" \notin sink'[s].parked
<1>1. sink[s] \in SinkRecord /\ TypeOK
  BY DEF FanInv, TypeOK
<1>2. sink[s].closed = FALSE /\ sink[s].inputClosed = FALSE
  BY <1>1 DEF EnqueueAccept, EnqueueAccepts, EnqueueClosed, SinkRecord
<1> DEFINE c == [seq |-> cur.seq, size |-> cur.size]
<1>3. PICK p \in Signalled(sink[s].parked) :
         sink' = [sink EXCEPT ![s] = [Enqueued(sink[s], c) EXCEPT !.parked = p]]
  BY DEF EnqueueAccept
<1>4. "producer" \notin p
  BY <1>3 DEF EnqueueAccept, Fanning, Signalled
<1> DEFINE j == [Enqueued(sink[s], c) EXCEPT !.parked = p]
<1> HIDE DEF c
<1>5. j = SinkLike(sink[s], Append(sink[s].queue, c), sink[s].head, sink[s].bytes + c.size,
                   IF frames THEN sink[s].duration + FrameDuration ELSE 0,
                   sink[s].inputClosed, sink[s].closed, sink[s].done, p, sink[s].taken,
                   sink[s].eof)
  BY <1>1, EnqueuedFields
<1>6. sink' = [sink EXCEPT ![s] = j]
  BY <1>3
<1> HIDE DEF j
<1>7. sink'[s] = j /\ OthersSame(s)
  BY <1>1, <1>6, SinkReplaced
<1>8. /\ Identical(j, sink[s]) /\ j.taken = sink[s].taken /\ j.queue = Append(sink[s].queue, c)
      /\ j.closed = sink[s].closed /\ j.inputClosed = sink[s].inputClosed
      /\ j.done = sink[s].done /\ j.parked = p
  BY <1>5 DEF SinkLike, Identical
<1> QED BY <1>2, <1>4, <1>7, <1>8 DEF c

-----------------------------------------------------------------------------
(* The types and the Run goroutine.                                         *)

\* What a step of a caller, of a reader or on one sink's queue leaves alone.
LEMMA QuietSteps ==
    ASSUME NEW s \in Sinks,
           \/ RemoveAbort(s) \/ RemoveUnlink(s) \/ ReaderParks(s) \/ ReaderEOF(s)
           \/ ReaderTakes(s) \/ EnqueueWait(s)
    PROVE  /\ UNCHANGED <<frames, sequence, stopped, exclusive, bcDone, pc, cur, rest, victim,
                          drain, published>>
           /\ sinks' = sinks \/ (RemoveUnlink(s) /\ sinks' = sinks \ {s})
           /\ remover' = remover \/ RemoveAbort(s) \/ RemoveUnlink(s)
BY DEF RemoveAbort, RemoveUnlink, ReaderParks, ReaderEOF, ReaderTakes, EnqueueWait, bcVars,
       runVars

LEMMA TypeStep ==
    ASSUME FanInv, [Next]_vars
    PROVE  TypeOK'
<1>1. TypeOK /\ sink' \in [Sinks -> SinkRecord]
  BY SoundStep DEF FanInv
<1>2. CASE UNCHANGED vars
  BY <1>1, <1>2 DEF TypeOK, vars
<1>3. ASSUME NEW s \in Sinks, AddSink(s) \/ AddBackpressuredSink(s) PROVE TypeOK'
  <2>1. /\ UNCHANGED <<frames, sequence, stopped, bcDone, pc, cur, rest, victim, drain,
                       remover, published>>
        /\ sinks' \in {sinks, sinks \cup {s}}
        /\ exclusive' = exclusive \/ exclusive' = sink'[s].backpressure
    BY <1>1, <1>3, CreateEffect
  <2>2. sink'[s].backpressure \in BOOLEAN
    BY <1>1 DEF SinkRecord
  <2> QED BY <1>1, <2>1, <2>2 DEF TypeOK
<1>4. ASSUME NEW s \in Sinks, RemoveAbort(s) \/ RemoveUnlink(s) \/ ReaderStep(s) \/ EnqueueWait(s)
      PROVE  TypeOK'
  <2>1. /\ UNCHANGED <<frames, sequence, stopped, exclusive, bcDone, pc, cur, rest, victim,
                       drain, published>>
        /\ sinks' \subseteq sinks
        /\ remover' = remover \/ RemoveAbort(s) \/ RemoveUnlink(s)
    BY <1>4, QuietSteps DEF ReaderStep
  <2>2. remover' \in [Sinks -> {"idle", "unlink"}]
    BY <1>1, <2>1 DEF RemoveAbort, RemoveUnlink, TypeOK
  <2> QED BY <1>1, <2>1, <2>2 DEF TypeOK
<1>5. CASE SourceRead
  <2>1. sinks \subseteq Sinks /\ sequence \in Nat /\ published \subseteq Nat
    BY <1>1 DEF TypeOK
  <2>2. cur' \in [seq : Nat, size : Nat, err : BOOLEAN]
    BY <1>5, <2>1, SizesAssumption DEF SourceRead
  <2>3. rest' \subseteq Sinks /\ published' \subseteq Nat /\ pc' = "fanout"
        /\ UNCHANGED <<frames, sequence, stopped, exclusive, sinks, bcDone, victim, drain, remover>>
    BY <1>5, <2>1 DEF SourceRead, bcVars
  <2> QED BY <1>1, <2>2, <2>3 DEF TypeOK
<1>6. CASE Reserve
  <2>1. sequence' = sequence + 1 /\ sequence \in Nat
    BY <1>1, <1>6 DEF TypeOK, Reserve
  <2>2. sequence' \in Nat
    BY <2>1
  <2> QED BY <1>1, <1>6, <2>2 DEF TypeOK, Reserve
<1>7. CASE DropAbort \/ DropUnlink \/ FannedOut \/ Stop \/ StartDrain \/ DrainTimeout \/ CloseDone
  BY <1>1, <1>7 DEF TypeOK, DropAbort, DropUnlink, FannedOut, Stop, StartDrain, DrainTimeout,
                    CloseDone, bcVars
<1>8. ASSUME NEW s \in Sinks, EnqueueAccept(s) \/ EnqueueFail(s) \/ FinishSink(s)
                              \/ SinkDrained(s) \/ ExpireAbort(s)
      PROVE  TypeOK'
  BY <1>1, <1>8 DEF TypeOK, EnqueueAccept, EnqueueFail, FinishSink, SinkDrained, ExpireAbort,
                    bcVars
<1> QED
  BY <1>2, <1>3, <1>4, <1>5, <1>6, <1>7, <1>8 DEF Next, RunStep, ReaderStep, CallerStep

LEMMA RunStepInv ==
    ASSUME FanInv, [Next]_vars
    PROVE  RunInv'
<1>1. TypeOK /\ RunInv
  BY DEF FanInv
<1>2. CASE UNCHANGED vars
  BY <1>1, <1>2 DEF RunInv, vars
<1>3. ASSUME NEW s \in Sinks, AddSink(s) \/ AddBackpressuredSink(s) PROVE RunInv'
  <2>1. /\ UNCHANGED <<sequence, stopped, bcDone, pc, cur, rest, victim, published>>
        /\ stopped => sinks' = sinks
    BY <1>1, <1>3, CreateEffect
  <2> QED BY <1>1, <2>1 DEF RunInv
<1>4. ASSUME NEW s \in Sinks, RemoveAbort(s) \/ RemoveUnlink(s) \/ ReaderStep(s) \/ EnqueueWait(s)
      PROVE  RunInv'
  <2>1. /\ UNCHANGED <<sequence, stopped, bcDone, pc, cur, rest, victim, published>>
        /\ sinks' \subseteq sinks
    BY <1>4, QuietSteps DEF ReaderStep
  <2> QED BY <1>1, <2>1 DEF RunInv
<1>5. CASE SourceRead
  <2>1. /\ pc = "read" /\ pc' = "fanout"
        /\ UNCHANGED <<sequence, stopped, sinks, bcDone, victim>>
        /\ cur'.seq = sequence
        /\ \/ rest' = {} /\ published' = published
           \/ cur'.size > 0 /\ published' = published \cup {sequence}
    BY <1>5 DEF SourceRead, bcVars
  <2>2. sequence > 0 /\ sequence \in Nat /\ published \subseteq 1 .. sequence /\ victim = {}
        /\ ~stopped /\ ~bcDone
    BY <1>1, <2>1 DEF RunInv, TypeOK, Ending, Dropping
  <2>3. published' \subseteq 1 .. sequence'
    <3>1. sequence \in 1 .. sequence
      BY <2>2
    <3> QED BY <2>1, <2>2, <3>1
  <2> QED BY <2>1, <2>2, <2>3 DEF RunInv, Ending, Dropping, FanningOut
<1>6. CASE Reserve
  <2>1. sequence \in Nat /\ sequence' = sequence + 1 /\ published' = published
        /\ published \subseteq 1 .. sequence
    BY <1>1, <1>6 DEF Reserve, RunInv, TypeOK
  <2>2. published' \subseteq 1 .. sequence' /\ sequence' > 0 /\ sequence' \notin published'
    BY <2>1
  <2> QED BY <1>1, <1>6, <2>2 DEF Reserve, RunInv, Ending, Dropping, FanningOut
<1>7. CASE DropAbort \/ DropUnlink \/ FannedOut
  BY <1>1, <1>7 DEF RunInv, Ending, Dropping, FanningOut, DropAbort, DropUnlink, FannedOut, bcVars
<1>8. CASE Stop \/ StartDrain \/ DrainTimeout \/ CloseDone
  <2>1. CASE Stop
    BY <1>1, <2>1 DEF RunInv, Ending, Dropping, FanningOut, Stop
  <2>2. CASE StartDrain
    BY <1>1, <2>2 DEF RunInv, Ending, Dropping, FanningOut, StartDrain, bcVars
  <2>3. CASE DrainTimeout
    BY <1>1, <2>3 DEF RunInv, Ending, Dropping, FanningOut, DrainTimeout, bcVars
  <2>4. CASE CloseDone
    BY <1>1, <2>4 DEF RunInv, Ending, Dropping, FanningOut, CloseDone
  <2> QED BY <1>8, <2>1, <2>2, <2>3, <2>4
<1>9. ASSUME NEW s \in Sinks, EnqueueAccept(s) \/ EnqueueFail(s) \/ FinishSink(s)
                              \/ SinkDrained(s) \/ ExpireAbort(s)
      PROVE  RunInv'
  BY <1>1, <1>9 DEF RunInv, Ending, Dropping, FanningOut, EnqueueAccept, EnqueueFail,
                    FinishSink, SinkDrained, ExpireAbort, Fanning, bcVars
<1> QED
  BY <1>2, <1>3, <1>4, <1>5, <1>6, <1>7, <1>8, <1>9 DEF Next, RunStep, ReaderStep, CallerStep

-----------------------------------------------------------------------------
(* A sink and the Run goroutine stay in step.                               *)

LEMMA KnownFacts ==
    ASSUME FanInv, NEW t \in Sinks
    PROVE  /\ Sound(sink[t], frames) /\ sink[t] \in SinkRecord
           /\ sequence \in Nat /\ published \subseteq 1 .. sequence
           /\ sink[t].start \in Nat /\ sink[t].taken \in Nat /\ sink[t].queue \in Seq(Chunk)
           /\ Attached(t) /\ Removed(t) /\ Visited(t) /\ Alone(t) /\ Drained(t)
<1>1. Sound(sink[t], frames) /\ sink[t] \in SinkRecord
  BY DEF FanInv, SinksSound, Sound
<1> QED BY <1>1 DEF FanInv, SinksKnown, Known, TypeOK, RunInv, SinkRecord

\* An unfinished sink that is being removed or drained is not called done.
LEMMA DoneFacts ==
    ASSUME FanInv, NEW t \in Sinks
    PROVE  /\ sink[t].closed => sink[t].done /\ sink[t].inputClosed
           /\ sink[t].start = 0 /\ Open(t) => sink[t].done /\ sink[t].inputClosed
           /\ sink[t].done => sink[t].queue = <<>> /\ sink[t].inputClosed
           /\ sink[t].queue = <<>> /\ sink[t].inputClosed => sink[t].done
           /\ "producer" \in sink[t].parked => sink[t].backpressure
BY KnownFacts DEF Sound, Closing, Parked, Empty, Open

\* The chunks in the queue of an open sink were published since its cut-over and
\* not taken before; the one Run is handing over is not among them.
LEMMA QueuedFacts ==
    ASSUME FanInv, NEW t \in Sinks, sink[t].queue # <<>>
    PROVE  /\ Head(sink[t].queue) \in Chunk
           /\ Head(sink[t].queue).seq \in published
           /\ sink[t].taken < Head(sink[t].queue).seq
           /\ Handing(t) => Head(sink[t].queue).seq # cur.seq
<1> DEFINE q == sink[t].queue
<1>1. sink[t].start > 0 /\ ~sink[t].closed
  BY KnownFacts DEF Sound, Closing, Empty
<1>2. {q[i].seq : i \in DOMAIN q} = Undelivered(t)
  BY <1>1 DEF FanInv, NoGap
<1>3. q \in Seq(Chunk) /\ q # <<>> /\ 1 \in DOMAIN q /\ Head(q) = q[1]
  BY KnownFacts, HeadTailProperties
<1>4. q[1] \in Chunk
  BY <1>3, ElementOfSeq
<1>5. q[1].seq \in Undelivered(t)
  BY <1>2, <1>3
<1> QED BY <1>3, <1>4, <1>5 DEF Undelivered

LEMMA KnownIfSame ==
    ASSUME FanInv, NEW t \in Sinks, sink'[t] = sink[t],
           UNCHANGED <<sequence, stopped, exclusive, sinks, pc, rest, victim, drain, remover,
                       published>>
    PROVE  Known(t)'
BY KnownFacts DEF Known, Attached, Removed, Visited, Alone, Drained, Served, Open

LEMMA KnownCreate ==
    ASSUME FanInv, NEW s \in Sinks, AddSink(s) \/ AddBackpressuredSink(s), NEW t \in Sinks
    PROVE  Known(t)'
<1>1. TypeOK
  BY DEF FanInv
<1>2. /\ sequence \in Nat /\ sink[t].start \in Nat
      /\ Attached(t) /\ Removed(t) /\ Visited(t) /\ Alone(t) /\ Drained(t)
  BY KnownFacts
<1>3. CASE t = s
  <2>1. /\ sink[t].alloc = "none"
        /\ sink'[t].taken = 0 /\ sink'[t].parked = {}
        /\ \/ /\ sink'[t].start = 0 /\ sink'[t].inputClosed = TRUE /\ sink'[t].done = TRUE
              /\ sinks' = sinks
           \/ /\ sink'[t].start = sequence + 1 /\ sink'[t].alloc = "open"
              /\ sink'[t].inputClosed = FALSE /\ ~stopped
              /\ sinks' = sinks \cup {t} /\ exclusive' = sink'[t].backpressure
              /\ sink'[t].backpressure => sinks = {}
        /\ UNCHANGED <<sequence, stopped, pc, rest, victim, drain, remover, published>>
    BY <1>1, <1>3, CreateEffect
  <2>2. ~Open(t) /\ ~Served(t)
    BY <2>1 DEF Open, Served
  <2>3. /\ t \notin sinks /\ t \notin rest \cup drain /\ remover[t] # "unlink"
        /\ ~(pc = "dropUnlink" /\ t \in victim) /\ ~(pc \in FanningOut /\ t \in victim)
    BY <1>2, <2>2 DEF Attached, Visited, Removed, FanningOut
  <2>4. Attached(t)'
    BY <1>2, <2>1, <2>3 DEF Attached, Served, Open
  <2>5. Removed(t)' /\ Visited(t)'
    BY <2>1, <2>3 DEF Removed, Visited
  <2>6. Alone(t)'
    BY <2>1, <2>3 DEF Alone, Served, Open
  <2>7. Drained(t)'
    BY <2>1 DEF Drained, Open
  <2> QED BY <2>4, <2>5, <2>6, <2>7 DEF Known
<1>4. CASE t # s
  <2>1. /\ sink'[t] = sink[t]
        /\ UNCHANGED <<sequence, stopped, pc, rest, victim, drain, remover, published>>
        /\ sinks' = sinks \/ (sinks' = sinks \cup {s} /\ ~exclusive /\ ~stopped)
        /\ exclusive' = exclusive \/ (~exclusive /\ ~stopped)
    BY <1>1, <1>4, CreateEffect DEF OthersSame
  <2> QED BY <1>2, <1>4, <2>1
          DEF Known, Attached, Removed, Visited, Alone, Drained, Served, Open
<1> QED BY <1>3, <1>4

LEMMA KnownRemove ==
    ASSUME FanInv, NEW s \in Sinks, RemoveAbort(s) \/ RemoveUnlink(s), NEW t \in Sinks
    PROVE  Known(t)'
<1>1. Attached(t) /\ Removed(t) /\ Visited(t) /\ Alone(t) /\ Drained(t) /\ remover \in [Sinks -> {"idle", "unlink"}]
  BY KnownFacts DEF FanInv, TypeOK
<1>2. UNCHANGED <<sequence, stopped, exclusive, pc, rest, victim, drain, published>>
  BY QuietSteps
<1>3. CASE RemoveAbort(s)
  <2>1. sinks' = sinks /\ remover' = [remover EXCEPT ![s] = "unlink"] /\ Open(s)
    BY <1>3 DEF RemoveAbort, bcVars, Open
  <2>2. CASE t = s
    BY <1>1, <1>2, <1>3, <2>1, <2>2, AbortEffect
       DEF Known, Attached, Removed, Visited, Alone, Drained, Served, Open, Identical
  <2>3. CASE t # s
    <3>1. sink'[t] = sink[t] /\ remover'[t] = remover[t]
      BY <1>1, <1>3, <2>1, <2>3, AbortEffect DEF OthersSame
    <3> QED BY <1>1, <1>2, <2>1, <3>1
            DEF Known, Attached, Removed, Visited, Alone, Drained, Served, Open
  <2> QED BY <2>2, <2>3
<1>4. CASE RemoveUnlink(s)
  <2>1. sink' = sink /\ sinks' = sinks \ {s} /\ remover' = [remover EXCEPT ![s] = "idle"]
        /\ sink[s].closed
    BY <1>4, KnownFacts DEF RemoveUnlink, Removed
  <2>2. t = s => sink[t].closed
    BY <2>1
  <2>3. remover'[t] = "unlink" => remover[t] = "unlink"
    BY <1>1, <2>1
  <2> QED BY <1>1, <1>2, <2>1, <2>2, <2>3
          DEF Known, Attached, Removed, Visited, Alone, Drained, Served, Open
<1> QED BY <1>3, <1>4

LEMMA KnownRead ==
    ASSUME FanInv, NEW s \in Sinks, ReaderStep(s), NEW t \in Sinks
    PROVE  Known(t)'
<1>1. /\ sink[t].taken \in Nat /\ sequence \in Nat /\ published \subseteq 1 .. sequence
      /\ Attached(t) /\ Removed(t) /\ Visited(t) /\ Alone(t) /\ Drained(t)
  BY KnownFacts
<1>2. UNCHANGED <<sequence, stopped, exclusive, sinks, pc, rest, victim, drain, remover,
                  published>>
  BY DEF ReaderStep, ReaderParks, ReaderEOF, ReaderTakes, bcVars, runVars
<1>3. CASE t # s
  <2>1. OthersSame(s)
    BY ParkEffect, EOFEffect, TakeEffect DEF ReaderStep
  <2> QED BY <1>2, <1>3, <2>1, KnownIfSame DEF OthersSame
<1>4. ASSUME Identical(sink'[t], sink[t]), sink'[t].taken = sink[t].taken,
             sink'[t].closed = sink[t].closed, sink'[t].inputClosed = sink[t].inputClosed,
             sink'[t].done = sink[t].done,
             "producer" \in sink'[t].parked => "producer" \in sink[t].parked
      PROVE  Known(t)'
  BY <1>1, <1>2, <1>4
     DEF Known, Attached, Removed, Visited, Alone, Drained, Served, Open, Identical
<1>5. CASE t = s /\ ReaderParks(s)
  <2>1. ~EnqueueWait(s)
    BY <1>5 DEF ReaderParks, EnqueueWait, EnqueueWaits
  <2> QED BY <1>4, <1>5, <2>1, ParkEffect
<1>6. CASE t = s /\ ReaderEOF(s)
  BY <1>4, <1>6, EOFEffect
<1>7. CASE t = s /\ ReaderTakes(s)
  <2>1. /\ Identical(sink'[t], sink[t]) /\ sink[t].queue # <<>> /\ sink[t].closed = FALSE
        /\ sink'[t].closed = FALSE /\ sink'[t].inputClosed = sink[t].inputClosed
        /\ "producer" \in sink'[t].parked => "producer" \in sink[t].parked
        /\ \/ sink'[t].taken = Head(sink[t].queue).seq
           \/ sink'[t].taken = sink[t].taken /\ sink'[t].done = sink[t].done
    BY <1>7, TakeEffect
  <2>2. CASE sink'[t].taken = sink[t].taken /\ sink'[t].done = sink[t].done
    BY <1>4, <2>1, <2>2
  <2>3. CASE sink'[t].taken = Head(sink[t].queue).seq
    <3>1. /\ Head(sink[t].queue).seq \in published
          /\ Handing(t) => Head(sink[t].queue).seq # cur.seq
      BY <2>1, QueuedFacts
    <3>2. ~sink[t].done
      BY <2>1, DoneFacts
    <3>3. pc \in FanningOut /\ t \in rest \cup victim => Handing(t)
      BY <1>1, <2>1 DEF Handing, Removed, FanningOut, Dropping, FanInv, RunInv
    <3>4. pc \in FanningOut => cur.seq = sequence
      BY DEF FanInv, RunInv
    <3>5. Visited(t)'
      <4>1. pc \in FanningOut /\ t \in rest \cup victim => sink'[t].taken < sequence
        <5> DEFINE h == Head(sink[t].queue).seq
        <5>1. h \in 1 .. sequence /\ sink'[t].taken = h
          BY <1>1, <2>3, <3>1
        <5>2. pc \in FanningOut /\ t \in rest \cup victim => h # sequence
          BY <3>1, <3>3, <3>4
        <5> HIDE DEF h
        <5> QED BY <1>1, <5>1, <5>2
      <4> QED BY <1>1, <1>2, <2>1, <4>1 DEF Visited, Served, Open, Identical
    <3>6. Attached(t)' /\ Removed(t)' /\ Alone(t)'
      BY <1>1, <1>2, <2>1, <2>3, <3>1
         DEF Attached, Removed, Alone, Served, Open, Identical
    <3>7. Drained(t)'
      BY <1>1, <1>2, <2>1, <3>2 DEF Drained, Open, Identical
    <3> QED BY <3>5, <3>6, <3>7 DEF Known
  <2> QED BY <2>1, <2>2, <2>3
<1> QED BY <1>3, <1>5, <1>6, <1>7 DEF ReaderStep

LEMMA KnownEnqueue ==
    ASSUME FanInv, NEW s \in Sinks, EnqueueWait(s) \/ EnqueueAccept(s), NEW t \in Sinks
    PROVE  Known(t)'
<1>1. Attached(t) /\ Removed(t) /\ Visited(t) /\ Alone(t) /\ Drained(t)
  BY KnownFacts
<1>2. pc = "fanout" /\ s \in rest /\ ~stopped
  BY DEF EnqueueWait, EnqueueAccept, Fanning, FanInv, RunInv, Ending
<1>3. UNCHANGED <<sequence, stopped, exclusive, sinks, pc, victim, drain, remover, published>>
      /\ (rest' = rest \/ (EnqueueAccept(s) /\ rest' = rest \ {s}))
  BY DEF EnqueueWait, EnqueueAccept, bcVars, runVars
<1>4. CASE t = s
  <2>1. /\ Identical(sink'[t], sink[t]) /\ sink'[t].taken = sink[t].taken
        /\ sink'[t].closed = sink[t].closed /\ sink'[t].inputClosed = sink[t].inputClosed
        /\ "producer" \in sink'[t].parked => rest' = rest
    <3>1. CASE EnqueueWait(s)
      <4>1. rest' = rest
        BY <3>1 DEF EnqueueWait, runVars
      <4> QED BY <1>4, <3>1, <4>1, ParkEffect
    <3>2. CASE EnqueueAccept(s)
      BY <1>4, <3>2, EnqueueEffect
    <3> QED BY <3>1, <3>2
  <2> QED BY <1>1, <1>2, <1>3, <1>4, <2>1
          DEF Known, Attached, Removed, Visited, Alone, Drained, Served, Open, Identical
<1>5. CASE t # s
  <2>1. sink'[t] = sink[t]
    BY <1>5, ParkEffect, EnqueueEffect DEF OthersSame
  <2> QED BY <1>1, <1>2, <1>3, <1>5, <2>1
          DEF Known, Attached, Removed, Visited, Alone, Drained, Served, Open
<1> QED BY <1>4, <1>5

LEMMA KnownDrop ==
    ASSUME FanInv, (\E s \in Sinks : EnqueueFail(s)) \/ DropAbort \/ DropUnlink,
           NEW t \in Sinks
    PROVE  Known(t)'
<1>1. Attached(t) /\ Removed(t) /\ Visited(t) /\ Alone(t) /\ Drained(t)
  BY KnownFacts
<1>2. RunInv
  BY DEF FanInv
<1>3. ASSUME NEW s \in Sinks, EnqueueFail(s) PROVE Known(t)'
  <2>1. /\ pc = "fanout" /\ s \in rest /\ "producer" \notin sink[s].parked
        /\ UNCHANGED <<sequence, stopped, exclusive, sinks, sink, drain, remover, published>>
        /\ pc' = "dropAbort" /\ rest' = rest \ {s} /\ victim' = {s}
    BY <1>3 DEF EnqueueFail, Fanning, bcVars
  <2>2. "producer" \notin sink[t].parked
    <3>1. "producer" \in sink[t].parked => sink[t].backpressure /\ t \in rest
      BY <1>1, DoneFacts DEF Alone
    <3>2. "producer" \in sink[t].parked => rest = {t}
      BY <1>1, <2>1, <3>1 DEF Alone, Visited, FanningOut
    <3> QED BY <2>1, <3>2
  <2>3. ~stopped
    BY <1>2, <2>1 DEF RunInv, Ending
  <2> QED BY <1>1, <2>1, <2>2, <2>3
          DEF Known, Attached, Removed, Visited, Alone, Drained, Served, Open, FanningOut
<1>4. CASE DropAbort
  <2>1. /\ pc = "dropAbort" /\ pc' = "dropUnlink"
        /\ UNCHANGED <<sequence, stopped, exclusive, sinks, rest, victim, drain, remover, published>>
    BY <1>4 DEF DropAbort, bcVars
  <2>2. ~stopped /\ "producer" \notin sink[t].parked
    BY <1>1, <1>2, <2>1 DEF RunInv, Ending, Alone
  <2>3. CASE t \in victim
    <3>1. /\ Identical(sink'[t], sink[t]) /\ sink'[t].taken = sink[t].taken
          /\ sink'[t].closed = TRUE /\ sink'[t].inputClosed = TRUE
          /\ sink'[t].parked = {} /\ sink'[t].done = TRUE
      BY <1>4, <2>3, DropEffect
    <3> QED BY <1>1, <2>1, <2>2, <3>1
            DEF Known, Attached, Removed, Visited, Alone, Drained, Served, Open, FanningOut,
                Identical
  <2>4. CASE t \notin victim
    <3>1. sink'[t] = sink[t]
      BY <1>4, <2>4, DropEffect
    <3> QED BY <1>1, <2>1, <2>2, <2>4, <3>1
            DEF Known, Attached, Removed, Visited, Alone, Drained, Served, Open, FanningOut
  <2> QED BY <2>3, <2>4
<1>5. CASE DropUnlink
  <2>1. /\ pc = "dropUnlink" /\ pc' = "fanout"
        /\ UNCHANGED <<sequence, stopped, exclusive, sink, rest, drain, remover, published>>
        /\ sinks' = sinks \ victim /\ victim' = {}
    BY <1>5 DEF DropUnlink
  <2>2. t \in victim => sink[t].closed
    BY <1>1, <2>1 DEF Removed
  <2>3. ~stopped /\ "producer" \notin sink[t].parked
    BY <1>1, <1>2, <2>1 DEF RunInv, Ending, Alone
  <2> QED BY <1>1, <2>1, <2>2, <2>3
          DEF Known, Attached, Removed, Visited, Alone, Drained, Served, Open, FanningOut
<1> QED BY <1>3, <1>4, <1>5

LEMMA KnownSource ==
    ASSUME FanInv, Reserve \/ SourceRead \/ FannedOut, NEW t \in Sinks
    PROVE  Known(t)'
<1>1. /\ sink[t].taken \in Nat /\ sink[t].start \in Nat
      /\ sequence \in Nat /\ published \subseteq 1 .. sequence
      /\ Attached(t) /\ Removed(t) /\ Visited(t) /\ Alone(t) /\ Drained(t)
  BY KnownFacts
<1>2. RunInv
  BY DEF FanInv
<1>3. CASE Reserve
  <2>1. /\ pc = "reserve" /\ pc' = "read" /\ sequence' = sequence + 1
        /\ UNCHANGED <<stopped, exclusive, sinks, sink, rest, victim, drain, remover, published>>
    BY <1>3 DEF Reserve
  <2>2. ~stopped /\ rest = {} /\ victim = {}
    BY <1>2, <2>1 DEF RunInv, Ending, Dropping
  <2>3. sink'[t].start <= sequence' + 1
    BY <1>1, <2>1 DEF Attached
  <2> QED BY <1>1, <2>1, <2>2, <2>3
          DEF Known, Attached, Removed, Visited, Alone, Drained, Served, Open, FanningOut
<1>4. CASE SourceRead
  <2>1. /\ pc = "read" /\ pc' = "fanout"
        /\ UNCHANGED <<sequence, stopped, exclusive, sinks, sink, victim, drain, remover>>
        /\ rest' \subseteq {u \in sinks : sink[u].start <= sequence}
        /\ published \subseteq published'
    BY <1>4 DEF SourceRead, bcVars
  <2>2. ~stopped /\ victim = {} /\ sequence > 0 /\ sequence \notin published
    BY <1>2, <2>1 DEF RunInv, Ending, Dropping
  <2>3. sink[t].taken < sequence
    <3> DEFINE n == sink[t].taken
    <3>1. n \in Nat /\ n \in published \cup {0}
      BY <1>1 DEF Attached
    <3> HIDE DEF n
    <3>2. n < sequence
      BY <1>1, <2>2, <3>1
    <3> QED BY <3>2 DEF n
  <2>4. Attached(t)' /\ Removed(t)'
    BY <1>1, <2>1, <2>2 DEF Attached, Removed, Served, Open
  <2>5. Visited(t)'
    BY <1>1, <2>1, <2>2, <2>3 DEF Attached, Visited, Served, Open
  <2>6. Alone(t)' /\ Drained(t)'
    BY <1>1, <2>1, <2>2 DEF Alone, Drained, Served, Open
  <2> QED BY <2>4, <2>5, <2>6 DEF Known
<1>5. CASE FannedOut
  <2>1. /\ pc = "fanout" /\ pc' \in {"stop", "reserve"} /\ rest = {}
        /\ UNCHANGED <<sequence, stopped, exclusive, sinks, sink, rest, victim, drain, remover,
                       published>>
    BY <1>5 DEF FannedOut, bcVars
  <2>2. ~stopped
    BY <1>2, <2>1 DEF RunInv, Ending
  <2> QED BY <1>1, <2>1, <2>2
          DEF Known, Attached, Removed, Visited, Alone, Drained, Served, Open, FanningOut
<1> QED BY <1>3, <1>4, <1>5

LEMMA KnownEnd ==
    ASSUME FanInv, NEW s \in Sinks,
           \/ Stop \/ FinishSink(s) \/ StartDrain \/ SinkDrained(s) \/ DrainTimeout
           \/ ExpireAbort(s) \/ CloseDone,
           NEW t \in Sinks
    PROVE  Known(t)'
<1>1. /\ sink[t].taken \in Nat /\ sink[t].start \in Nat
      /\ Attached(t) /\ Removed(t) /\ Visited(t) /\ Alone(t) /\ Drained(t)
  BY KnownFacts
<1>2. RunInv
  BY DEF FanInv
<1>3. CASE Stop
  <2>1. /\ pc = "stop" /\ pc' = "finishSinks" /\ stopped' = TRUE
        /\ drain' = sinks /\ rest' = sinks /\ sinks' = {}
        /\ UNCHANGED <<sequence, exclusive, sink, victim, remover, published>>
    BY <1>3 DEF Stop
  <2>2. ~stopped /\ "producer" \notin sink[t].parked
    BY <1>1, <1>2, <2>1 DEF RunInv, Ending, Alone
  <2>3. Open(t) => (sink[t].done /\ sink[t].inputClosed) \/ t \in sinks
    BY <1>1, <2>2, DoneFacts DEF Attached, Served
  <2>4. Attached(t)' /\ Removed(t)' /\ Alone(t)'
    BY <1>1, <2>1, <2>2 DEF Attached, Removed, Alone, Served, Open, FanningOut
  <2>5. Visited(t)' /\ Drained(t)'
    BY <1>1, <2>1, <2>3 DEF Attached, Visited, Drained, Served, Open, FanningOut
  <2> QED BY <2>4, <2>5 DEF Known
<1>4. CASE StartDrain \/ DrainTimeout \/ CloseDone
  <2>1. /\ pc \in Ending /\ pc' \in Ending /\ (pc = "finishSinks" \/ rest' = rest)
        /\ (pc = "finishSinks" => rest = {} /\ rest' = drain)
        /\ pc' # "finishSinks"
        /\ UNCHANGED <<sequence, stopped, exclusive, sinks, sink, victim, drain, remover, published>>
    BY <1>4 DEF StartDrain, DrainTimeout, CloseDone, bcVars, Ending
  <2>2. stopped
    BY <1>2, <2>1 DEF RunInv
  <2> QED BY <1>1, <2>1, <2>2
          DEF Known, Attached, Removed, Visited, Alone, Drained, Served, Open, FanningOut, Ending
<1>5. CASE FinishSink(s) \/ ExpireAbort(s) \/ SinkDrained(s)
  <2>1. /\ pc \in Ending /\ pc' = pc /\ s \in rest /\ rest' = rest \ {s}
        /\ UNCHANGED <<sequence, stopped, exclusive, sinks, victim, drain, remover, published>>
    BY <1>5 DEF FinishSink, ExpireAbort, SinkDrained, bcVars, Ending
  <2>2. stopped /\ "producer" \notin sink[t].parked
    BY <1>1, <1>2, <2>1 DEF RunInv, Ending, Alone
  <2>3. CASE t # s
    <3>1. sink'[t] = sink[t]
      BY <1>5, <2>3, FinishEffect, AbortEffect DEF OthersSame, SinkDrained
    <3> QED BY <1>1, <2>1, <2>2, <2>3, <3>1
            DEF Known, Attached, Removed, Visited, Alone, Drained, Served, Open, FanningOut, Ending
  <2>4. CASE t = s
    <3>1. /\ Identical(sink'[t], sink[t]) /\ sink'[t].taken = sink[t].taken
          /\ sink[t].closed => sink'[t].closed
          /\ "producer" \notin sink'[t].parked
          /\ sink[t].done => sink'[t].done
          /\ sink[t].inputClosed => sink'[t].inputClosed
          /\ pc = "finishSinks" => sink'[t].inputClosed
          /\ pc # "finishSinks" => sink'[t].done
      <4>1. CASE FinishSink(s)
        <5>1. /\ Identical(sink'[t], sink[t]) /\ sink'[t].taken = sink[t].taken
              /\ sink'[t].closed = sink[t].closed /\ sink'[t].parked = {}
              /\ sink'[t].inputClosed = TRUE /\ sink'[t].done = Empty(sink[t])
          BY <2>4, <4>1, FinishEffect
        <5>2. sink[t].done => Empty(sink[t])
          BY DoneFacts DEF Empty
        <5> QED BY <4>1, <5>1, <5>2 DEF FinishSink
      <4>2. CASE ExpireAbort(s)
        BY <2>4, <4>2, AbortEffect
      <4>3. CASE SinkDrained(s)
        BY <2>2, <2>4, <4>3 DEF SinkDrained, Identical
      <4> QED BY <1>5, <4>1, <4>2, <4>3
    <3> QED BY <1>1, <2>1, <2>2, <2>4, <3>1
            DEF Known, Attached, Removed, Visited, Alone, Drained, Served, Open, FanningOut,
                Ending, Identical
  <2> QED BY <2>3, <2>4
<1> QED BY <1>3, <1>4, <1>5

LEMMA KnownStep ==
    ASSUME FanInv, [Next]_vars
    PROVE  SinksKnown'
<1> SUFFICES ASSUME NEW t \in Sinks PROVE Known(t)'
  BY DEF SinksKnown
<1>1. CASE UNCHANGED vars
  BY <1>1, KnownIfSame DEF vars
<1>2. CASE SourceRead
  BY <1>2, KnownSource
<1>3. CASE RunStep
  BY <1>3, KnownSource, KnownDrop, KnownEnqueue, KnownEnd DEF RunStep
<1>4. ASSUME NEW s \in Sinks, ReaderStep(s) \/ CallerStep(s) PROVE Known(t)'
  BY <1>4, KnownRead, KnownCreate, KnownRemove DEF CallerStep
<1> QED BY <1>1, <1>2, <1>3, <1>4 DEF Next

-----------------------------------------------------------------------------
(* No gap: the queue of an open sink is what it is still owed, in order.    *)

SeqsOf(q) == {q[i].seq : i \in DOMAIN q}
Rising(q) == \A i, j \in DOMAIN q : i < j => q[i].seq < q[j].seq
Gapless(s) ==
    sink[s].start > 0 /\ ~sink[s].closed =>
        SeqsOf(sink[s].queue) = Undelivered(s) /\ Rising(sink[s].queue)

LEMMA NoGapIsGapless == NoGap <=> \A s \in Sinks : Gapless(s)
BY DEF NoGap, Gapless, SeqsOf, Rising

LEMMA RisingEmpty == SeqsOf(<<>>) = {} /\ Rising(<<>>)
BY DEF SeqsOf, Rising

LEMMA RisingTail ==
    ASSUME NEW q \in Seq(Chunk), q # <<>>, Rising(q)
    PROVE  /\ SeqsOf(Tail(q)) = {p \in SeqsOf(q) : p > Head(q).seq}
           /\ Rising(Tail(q))
<1> DEFINE r == Tail(q)
<1>1. /\ r \in Seq(Chunk) /\ Len(r) = Len(q) - 1 /\ Len(q) \in Nat \ {0}
      /\ \A i \in 1 .. Len(r) : r[i] = q[i + 1]
      /\ Head(q) = q[1] /\ DOMAIN q = 1 .. Len(q) /\ DOMAIN r = 1 .. Len(r)
  BY HeadTailProperties
<1>2. \A i \in 1 .. Len(q) : q[i].seq \in Nat
  <2> TAKE i \in 1 .. Len(q)
  <2>1. q[i] \in Chunk
    BY ElementOfSeq
  <2> QED BY <2>1 DEF Chunk
<1> HIDE DEF r
<1>3. \A i \in 1 .. Len(r) : i + 1 \in 1 .. Len(q) /\ 1 < i + 1
  BY <1>1
<1>4. Rising(r)
  <2> SUFFICES ASSUME NEW i \in 1 .. Len(r), NEW j \in 1 .. Len(r), i < j
               PROVE  r[i].seq < r[j].seq
    BY <1>1 DEF Rising
  <2>1. i + 1 \in DOMAIN q /\ j + 1 \in DOMAIN q /\ i + 1 < j + 1
    BY <1>1, <1>3
  <2>2. q[i + 1].seq < q[j + 1].seq
    BY <2>1 DEF Rising
  <2> QED BY <1>1, <2>2
<1>5. \A p \in SeqsOf(r) : p \in SeqsOf(q) /\ p > q[1].seq
  <2> SUFFICES ASSUME NEW i \in 1 .. Len(r)
               PROVE  r[i].seq \in SeqsOf(q) /\ r[i].seq > q[1].seq
    BY <1>1 DEF SeqsOf
  <2>1. r[i] = q[i + 1] /\ i + 1 \in DOMAIN q /\ 1 \in DOMAIN q /\ 1 < i + 1
    BY <1>1, <1>3
  <2>2. q[1].seq < q[i + 1].seq
    BY <2>1 DEF Rising
  <2>3. q[i + 1].seq \in SeqsOf(q)
    BY <2>1 DEF SeqsOf
  <2>4. q[1].seq \in Nat /\ q[i + 1].seq \in Nat
    BY <1>1, <1>2, <2>1
  <2> QED BY <2>1, <2>2, <2>3, <2>4
<1>6. \A p \in SeqsOf(q) : p > q[1].seq => p \in SeqsOf(r)
  <2> SUFFICES ASSUME NEW i \in 1 .. Len(q), q[i].seq > q[1].seq
               PROVE  q[i].seq \in SeqsOf(r)
    BY <1>1 DEF SeqsOf
  <2>1. i # 1 /\ i - 1 \in 1 .. Len(r)
    BY <1>1, <1>2
  <2>2. r[i - 1] = q[i]
    BY <1>1, <2>1
  <2> QED BY <1>1, <2>1, <2>2 DEF SeqsOf
<1>7. SeqsOf(r) = {p \in SeqsOf(q) : p > q[1].seq}
  BY <1>5, <1>6
<1> QED BY <1>1, <1>4, <1>7 DEF r

LEMMA RisingAppend ==
    ASSUME NEW q \in Seq(Chunk), Rising(q), NEW c \in Chunk, \A p \in SeqsOf(q) : p < c.seq
    PROVE  SeqsOf(Append(q, c)) = SeqsOf(q) \cup {c.seq} /\ Rising(Append(q, c))
<1> DEFINE r == Append(q, c)
<1>1. /\ r \in Seq(Chunk) /\ Len(r) = Len(q) + 1 /\ r[Len(r)] = c /\ Len(q) \in Nat
      /\ \A i \in 1 .. Len(q) : r[i] = q[i]
      /\ DOMAIN q = 1 .. Len(q) /\ DOMAIN r = 1 .. Len(r)
  BY AppendProperties
<1> HIDE DEF r
<1>2. 1 .. Len(r) = (1 .. Len(q)) \cup {Len(r)} /\ Len(r) \notin 1 .. Len(q)
  BY <1>1
<1>3. SeqsOf(r) = SeqsOf(q) \cup {c.seq}
  BY <1>1, <1>2 DEF SeqsOf
<1>4. ASSUME NEW i \in DOMAIN r, NEW j \in DOMAIN r, i < j PROVE r[i].seq < r[j].seq
  <2>1. i \in 1 .. Len(q) /\ r[i] = q[i] /\ q[i].seq \in SeqsOf(q)
    BY <1>1, <1>4 DEF SeqsOf
  <2>2. CASE j = Len(r)
    BY <1>1, <2>1, <2>2
  <2>3. CASE j # Len(r)
    BY <1>1, <1>2, <1>4, <2>1, <2>3 DEF Rising
  <2> QED BY <2>2, <2>3
<1> QED BY <1>3, <1>4 DEF Rising, r

\* A step that leaves a sink's queue and what it is owed alone leaves no gap.
LEMMA GaplessIfSame ==
    ASSUME NEW t \in Sinks, Gapless(t), published' = published,
           sink'[t].start = sink[t].start, sink'[t].taken = sink[t].taken,
           sink'[t].queue = sink[t].queue, sink[t].closed => sink'[t].closed,
           Handing(t)' <=> Handing(t), Handing(t) => cur' = cur
    PROVE  Gapless(t)'
<1>1. Undelivered(t)' = Undelivered(t)
  BY DEF Undelivered
<1> QED BY <1>1 DEF Gapless

LEMMA GaplessCaller ==
    ASSUME FanInv, NEW s \in Sinks, CallerStep(s), NEW t \in Sinks
    PROVE  Gapless(t)'
<1>1. Gapless(t) /\ TypeOK /\ sequence \in Nat /\ published \subseteq 1 .. sequence
  BY NoGapIsGapless, KnownFacts DEF FanInv
<1>2. CASE AddSink(s) \/ AddBackpressuredSink(s)
  <2>1. OthersSame(s) /\ published' = published /\ pc' = pc /\ rest' = rest /\ victim' = victim
        /\ cur' = cur /\ sink'[s].queue = <<>> /\ sink'[s].start \in {0, sequence + 1}
    BY <1>1, <1>2, CreateEffect
  <2>2. Handing(t)' <=> Handing(t)
    BY <2>1 DEF Handing
  <2>3. CASE t # s
    BY <1>1, <2>1, <2>2, <2>3, GaplessIfSame DEF OthersSame
  <2>4. CASE t = s
    <3>1. sink'[t].start > 0 => Undelivered(t)' = {}
      <4>1. sink'[t].start > 0 => sink'[t].start = sequence + 1
        BY <2>1, <2>4
      <4>2. \A p \in published : ~(p >= sequence + 1)
        BY <1>1
      <4> QED BY <2>1, <4>1, <4>2 DEF Undelivered
    <3> QED BY <2>1, <2>4, <3>1, RisingEmpty DEF Gapless
  <2> QED BY <2>3, <2>4
<1>3. CASE RemoveAbort(s) \/ RemoveUnlink(s)
  <2>1. published' = published /\ pc' = pc /\ rest' = rest /\ victim' = victim /\ cur' = cur
    BY <1>3, QuietSteps DEF RemoveAbort, RemoveUnlink, runVars
  <2>2. Handing(t)' <=> Handing(t)
    BY <2>1 DEF Handing
  <2>3. CASE t = s /\ RemoveAbort(s)
    <3>1. sink'[t].closed
      BY <2>3, AbortEffect
    <3> QED BY <3>1 DEF Gapless
  <2>4. CASE ~(t = s /\ RemoveAbort(s))
    <3>1. sink'[t] = sink[t]
      BY <1>3, <2>4, AbortEffect DEF OthersSame, RemoveUnlink
    <3> QED BY <1>1, <2>1, <2>2, <3>1, GaplessIfSame
  <2> QED BY <2>3, <2>4
<1> QED BY <1>2, <1>3 DEF CallerStep

LEMMA GaplessReader ==
    ASSUME FanInv, NEW s \in Sinks, ReaderStep(s), NEW t \in Sinks
    PROVE  Gapless(t)'
<1>1. Gapless(t) /\ sink[t].queue \in Seq(Chunk)
      /\ sink[t].taken \in Nat /\ sequence \in Nat /\ published \subseteq 1 .. sequence
  BY NoGapIsGapless, KnownFacts DEF FanInv
<1>2. published' = published /\ pc' = pc /\ rest' = rest /\ victim' = victim /\ cur' = cur
  BY DEF ReaderStep, ReaderParks, ReaderEOF, ReaderTakes, bcVars, runVars
<1>3. Handing(t)' <=> Handing(t)
  BY <1>2 DEF Handing
<1>4. CASE t # s
  <2>1. sink'[t] = sink[t]
    BY <1>4, ParkEffect, EOFEffect, TakeEffect DEF ReaderStep, OthersSame
  <2> QED BY <1>1, <1>2, <1>3, <2>1, GaplessIfSame
<1>5. CASE t = s
  <2>1. CASE /\ Identical(sink'[t], sink[t]) /\ sink'[t].queue = sink[t].queue
             /\ sink'[t].taken = sink[t].taken /\ sink'[t].closed = sink[t].closed
    BY <1>1, <1>2, <1>3, <2>1, GaplessIfSame DEF Identical
  <2>2. CASE /\ ReaderTakes(s) /\ sink[t].queue # <<>> /\ sink[t].closed = FALSE
             /\ Identical(sink'[t], sink[t])
             /\ sink'[t].queue = Tail(sink[t].queue)
             /\ sink'[t].taken = Head(sink[t].queue).seq
    <3>1. sink[t].start > 0
      BY <2>2, KnownFacts DEF Sound, Closing, Empty
    <3> DEFINE h == Head(sink[t].queue).seq
    <3>2. h \in published /\ sink[t].taken < h
      BY <2>2, QueuedFacts
    <3>3. SeqsOf(sink[t].queue) = Undelivered(t) /\ Rising(sink[t].queue)
      BY <1>1, <2>2, <3>1 DEF Gapless
    <3>4. /\ SeqsOf(sink'[t].queue) = {p \in Undelivered(t) : p > h}
          /\ Rising(sink'[t].queue)
      BY <1>1, <2>2, <3>3, RisingTail
    <3>5. sink'[t].taken = h /\ sink'[t].start = sink[t].start
      BY <2>2 DEF Identical
    <3> HIDE DEF h
    <3>6. \A p \in published : p > h => p > sink[t].taken
      <4> TAKE p \in published
      <4>1. p \in Nat /\ h \in Nat
        BY <1>1, <3>2
      <4> QED BY <1>1, <3>2, <4>1
    <3>7. Undelivered(t)' = {p \in Undelivered(t) : p > h}
      BY <1>2, <1>3, <3>5, <3>6 DEF Undelivered
    <3> QED BY <3>4, <3>7 DEF Gapless
  <2>3. CASE ReaderParks(s)
    BY <1>5, <2>1, <2>3, ParkEffect
  <2>4. CASE ReaderEOF(s)
    BY <1>5, <2>1, <2>4, EOFEffect
  <2>5. CASE ReaderTakes(s)
    <3>1. /\ Identical(sink'[t], sink[t]) /\ sink[t].queue # <<>> /\ sink[t].closed = FALSE
          /\ sink'[t].closed = FALSE
          /\ \/ /\ sink'[t].queue = Tail(sink[t].queue)
                /\ sink'[t].taken = Head(sink[t].queue).seq
             \/ sink'[t].queue = sink[t].queue /\ sink'[t].taken = sink[t].taken
      BY <1>5, <2>5, TakeEffect
    <3> QED BY <2>1, <2>2, <2>5, <3>1
  <2> QED BY <2>3, <2>4, <2>5 DEF ReaderStep
<1> QED BY <1>4, <1>5

LEMMA GaplessSource ==
    ASSUME FanInv, SourceRead, NEW t \in Sinks
    PROVE  Gapless(t)'
<1>1. Gapless(t) /\ sequence \in Nat /\ published \subseteq 1 .. sequence
      /\ Attached(t) /\ sink[t].start \in Nat /\ sink[t].alloc \in {"none", "open", "rejected"}
  BY NoGapIsGapless, KnownFacts DEF FanInv, SinkRecord
<1>2. /\ pc = "read" /\ pc' = "fanout" /\ sink' = sink /\ victim' = victim
      /\ cur'.seq = sequence
      /\ \/ rest' = {} /\ published' = published
         \/ /\ rest' = {u \in sinks : sink[u].start <= sequence}
            /\ published' = published \cup {sequence}
  BY DEF SourceRead
<1>3. sequence > 0 /\ sequence \notin published /\ ~stopped /\ victim = {}
  BY <1>2 DEF FanInv, RunInv, Ending, Dropping
<1>4. SUFFICES ASSUME sink[t].start > 0, ~sink[t].closed
               PROVE  Undelivered(t)' = Undelivered(t)
  BY <1>1, <1>2 DEF Gapless
<1>5. Open(t) /\ t \in sinks
  <2>1. Open(t)
    BY <1>1, <1>4, KnownFacts DEF Sound, Closing, Open
  <2> QED BY <1>1, <1>3, <1>4, <2>1 DEF Attached, Served
<1>6. ~Handing(t) /\ (Handing(t)' <=> t \in rest')
  BY <1>2, <1>3 DEF Handing
<1>7. CASE rest' = {} /\ published' = published
  BY <1>2, <1>6, <1>7 DEF Undelivered
<1>8. CASE /\ rest' = {u \in sinks : sink[u].start <= sequence}
           /\ published' = published \cup {sequence}
  <2>1. Handing(t)' <=> sink[t].start <= sequence
    BY <1>5, <1>6, <1>8
  <2>2. sequence >= sink[t].start <=> sink[t].start <= sequence
    BY <1>1
  <2> QED BY <1>2, <1>3, <1>6, <1>8, <2>1, <2>2 DEF Undelivered
<1> QED BY <1>2, <1>7, <1>8

LEMMA GaplessAccept ==
    ASSUME FanInv, NEW s \in Sinks, EnqueueAccept(s), NEW t \in Sinks
    PROVE  Gapless(t)'
<1>1. Gapless(t) /\ sequence \in Nat /\ published \subseteq 1 .. sequence
      /\ Visited(t) /\ sink[t].queue \in Seq(Chunk) /\ cur.seq \in Nat /\ cur.size \in Nat
  BY NoGapIsGapless, KnownFacts DEF FanInv, TypeOK
<1>2. /\ pc = "fanout" /\ pc' = pc /\ s \in rest /\ rest' = rest \ {s}
      /\ published' = published /\ victim' = victim /\ cur' = cur
  BY DEF EnqueueAccept, Fanning, bcVars
<1>3. cur.seq = sequence /\ cur.size > 0 /\ sequence \in published
  BY <1>2 DEF FanInv, RunInv, FanningOut
<1>4. CASE t # s
  <2>1. sink'[t] = sink[t] /\ (Handing(t)' <=> Handing(t))
    BY <1>2, <1>4, EnqueueEffect DEF OthersSame, Handing
  <2> QED BY <1>1, <1>2, <2>1, GaplessIfSame
<1>5. CASE t = s
  <2> DEFINE c == [seq |-> cur.seq, size |-> cur.size]
  <2>1. /\ Identical(sink'[t], sink[t]) /\ sink'[t].taken = sink[t].taken
        /\ sink'[t].queue = Append(sink[t].queue, c) /\ ~sink[t].closed
    BY <1>5, EnqueueEffect
  <2>2. c \in Chunk /\ c.seq = sequence
    BY <1>1, <1>3 DEF Chunk
  <2> HIDE DEF c
  <2>3. sink[t].start > 0 /\ sink[t].start <= sequence /\ sink[t].taken < sequence
    BY <1>1, <1>2, <1>5 DEF Visited, FanningOut, Served
  <2>4. Handing(t) /\ ~Handing(t)'
    BY <1>2, <1>5 DEF Handing
  <2>5. SeqsOf(sink[t].queue) = Undelivered(t) /\ Rising(sink[t].queue)
    BY <1>1, <2>1, <2>3 DEF Gapless
  <2>6. \A p \in Undelivered(t) : p < sequence
    <3>1. \A p \in Undelivered(t) : p \in 1 .. sequence /\ p # sequence
      BY <1>1, <1>3, <2>4 DEF Undelivered
    <3> QED BY <1>1, <3>1
  <2>7. /\ SeqsOf(sink'[t].queue) = Undelivered(t) \cup {sequence}
        /\ Rising(sink'[t].queue)
    BY <1>1, <2>1, <2>2, <2>5, <2>6, RisingAppend
  <2>8. Undelivered(t)' = Undelivered(t) \cup {sequence}
    <3>1. sequence >= sink[t].start /\ sequence > sink[t].taken
      BY <1>1, <2>3, KnownFacts
    <3> QED BY <1>2, <1>3, <2>1, <2>4, <3>1 DEF Undelivered, Identical
  <2> QED BY <2>7, <2>8 DEF Gapless
<1> QED BY <1>4, <1>5

LEMMA GaplessRun ==
    ASSUME FanInv, RunStep, ~ \E s \in Sinks : EnqueueAccept(s), NEW t \in Sinks
    PROVE  Gapless(t)'
<1>1. Gapless(t) /\ RunInv
  BY NoGapIsGapless DEF FanInv
<1>2. published' = published
  BY DEF RunStep, Reserve, DropAbort, DropUnlink, FannedOut, Stop, StartDrain, DrainTimeout,
         CloseDone, EnqueueWait, EnqueueFail, FinishSink, SinkDrained, ExpireAbort
<1>3. CASE DropAbort
  <2>1. CASE t \in victim
    <3>1. sink'[t].closed
      BY <1>3, <2>1, DropEffect
    <3> QED BY <3>1 DEF Gapless
  <2>2. CASE t \notin victim
    <3>1. sink'[t] = sink[t] /\ (Handing(t)' <=> Handing(t)) /\ cur' = cur
      BY <1>3, <2>2, DropEffect DEF Handing, DropAbort
    <3> QED BY <1>1, <1>2, <3>1, GaplessIfSame
  <2> QED BY <2>1, <2>2
<1>4. CASE Reserve \/ DropUnlink \/ FannedOut \/ Stop \/ StartDrain \/ DrainTimeout \/ CloseDone
  <2>1. sink' = sink /\ (Handing(t) => cur' = cur)
    BY <1>4 DEF Reserve, DropUnlink, FannedOut, Stop, StartDrain, DrainTimeout, CloseDone
  <2>2. Handing(t)' <=> Handing(t)
    <3>1. CASE Reserve \/ FannedOut
      BY <1>1, <3>1 DEF Handing, RunInv, Dropping, Reserve, FannedOut
    <3>2. CASE DropUnlink
      BY <3>2 DEF Handing, DropUnlink
    <3>3. CASE Stop \/ StartDrain \/ DrainTimeout \/ CloseDone
      BY <3>3 DEF Handing, Stop, StartDrain, DrainTimeout, CloseDone
    <3> QED BY <1>4, <3>1, <3>2, <3>3
  <2> QED BY <1>1, <1>2, <2>1, <2>2, GaplessIfSame
<1>5. ASSUME NEW s \in Sinks, EnqueueFail(s) \/ SinkDrained(s) PROVE Gapless(t)'
  <2>1. sink' = sink /\ (Handing(t)' <=> Handing(t)) /\ cur' = cur
    BY <1>1, <1>5 DEF Handing, RunInv, Dropping, EnqueueFail, SinkDrained, Fanning
  <2> QED BY <1>1, <1>2, <2>1, GaplessIfSame
<1>6. ASSUME NEW s \in Sinks, EnqueueWait(s) \/ FinishSink(s) \/ ExpireAbort(s)
      PROVE  Gapless(t)'
  <2>1. (Handing(t)' <=> Handing(t)) /\ cur' = cur
    BY <1>6 DEF Handing, EnqueueWait, FinishSink, ExpireAbort, Fanning, runVars
  <2>2. CASE t # s
    <3>1. sink'[t] = sink[t]
      BY <1>6, <2>2, ParkEffect, FinishEffect, AbortEffect DEF OthersSame
    <3> QED BY <1>1, <1>2, <2>1, <3>1, GaplessIfSame
  <2>3. CASE t = s /\ ExpireAbort(s)
    <3>1. sink'[t].closed
      BY <2>3, AbortEffect
    <3> QED BY <3>1 DEF Gapless
  <2>4. CASE t = s /\ (EnqueueWait(s) \/ FinishSink(s))
    <3>1. /\ Identical(sink'[t], sink[t]) /\ sink'[t].queue = sink[t].queue
          /\ sink'[t].taken = sink[t].taken /\ sink'[t].closed = sink[t].closed
      BY <2>4, ParkEffect, FinishEffect
    <3> QED BY <1>1, <1>2, <2>1, <3>1, GaplessIfSame DEF Identical
  <2> QED BY <1>6, <2>2, <2>3, <2>4
<1> QED BY <1>3, <1>4, <1>5, <1>6 DEF RunStep

LEMMA NoGapStep ==
    ASSUME FanInv, [Next]_vars
    PROVE  NoGap'
<1> SUFFICES ASSUME NEW t \in Sinks PROVE Gapless(t)'
  BY DEF NoGap, Gapless, SeqsOf, Rising
<1>1. CASE UNCHANGED vars
  <2>1. Gapless(t) /\ published' = published /\ sink' = sink /\ cur' = cur
        /\ (Handing(t)' <=> Handing(t))
    BY <1>1, NoGapIsGapless DEF FanInv, vars, Handing
  <2> QED BY <2>1, GaplessIfSame
<1>2. CASE SourceRead
  BY <1>2, GaplessSource
<1>3. CASE RunStep
  BY <1>3, GaplessRun, GaplessAccept
<1>4. ASSUME NEW s \in Sinks, ReaderStep(s) \/ CallerStep(s) PROVE Gapless(t)'
  BY <1>4, GaplessReader, GaplessCaller
<1> QED BY <1>1, <1>2, <1>3, <1>4 DEF Next

LEMMA FanInvInit == Init => FanInv
<1> SUFFICES ASSUME Init PROVE FanInv
  OBVIOUS
<1> DEFINE k == NoSink
<1>1. \A s \in Sinks : sink[s] = k
  BY DEF Init
<1>2. Sound(k, frames)
  <2>1. frames \in BOOLEAN
    BY ModesAssumption DEF Init
  <2>2. 1 \in Nat \ {0} /\ FALSE \in BOOLEAN
    OBVIOUS
  <2> QED BY <2>1, <2>2, FreshSound
<1>3. /\ k.alloc = "none" /\ k.start = 0 /\ k.taken = 0 /\ k.parked = {} /\ k.closed = FALSE
      /\ k.queue = <<>>
  BY DEF NoSink, NewSink
<1> HIDE DEF k
<1>4. SinksSound
  BY <1>1, <1>2 DEF SinksSound
<1>5. TypeOK
  <2>1. k \in SinkRecord
    BY <1>2 DEF Sound
  <2>2. sink \in [Sinks -> SinkRecord]
    BY <1>1, <2>1 DEF Init
  <2> QED BY <2>2 DEF Init, TypeOK
<1>6. RunInv
  BY DEF Init, RunInv, Ending, FanningOut, Dropping
<1>7. SinksKnown
  BY <1>1, <1>3 DEF SinksKnown, Known, Attached, Removed, Visited, Alone, Drained, Served, Open,
                    Init
<1>8. NoGap
  BY <1>1, <1>3 DEF NoGap
<1> QED BY <1>4, <1>5, <1>6, <1>7, <1>8 DEF FanInv

\* The inductive invariant of the fan-out, for every instance of it.
THEOREM FanOutInvariant == Spec => []FanInv
<1>1. Init => FanInv
  BY FanInvInit
<1>2. FanInv /\ [Next]_vars => FanInv'
  BY SoundStep, TypeStep, RunStepInv, KnownStep, NoGapStep DEF FanInv
<1> QED BY <1>1, <1>2, PTL DEF Spec

-----------------------------------------------------------------------------
(* What follows from the invariant.                                         *)

\* Types: every field of every sink, and what Run holds, stay in their ranges.
THEOREM FanOutTypes == Spec => []TypeOK
BY FanOutInvariant, PTL DEF FanInv

\* The queue of every open sink is what the source produced since the cut-over
\* and the reader has not consumed, in order and without a gap, and its bytes,
\* chunks and duration are counted exactly and within the limits.
THEOREM FanOutQueueExact == Spec => []QueueExact
<1>1. FanInv => QueueExact
  <2> SUFFICES ASSUME FanInv PROVE AccountingExact
    BY DEF FanInv, QueueExact
  <2>1. \A s \in Sinks : Exact(sink[s], frames)
    BY DEF FanInv, SinksSound, Sound
  <2> QED BY <2>1 DEF Exact, AccountingExact
<1> QED BY <1>1, FanOutInvariant, PTL

\* A parked reader has nothing to read and a parked producer a reason to wait;
\* the producer waits only in a sink that has the capture to itself; and when
\* bc.done closes every sink is drained and nobody is parked.
THEOREM FanOutNobodyWaits == Spec => []NobodyWaitsInVain
<1>1. FanInv => NobodyWaitsInVain
  <2> SUFFICES ASSUME FanInv PROVE NobodyWaitsInVain
    OBVIOUS
  <2>1. NoLostWakeup
    BY KnownFacts DEF NoLostWakeup, Sound, Parked, Closing
  <2>2. SharedSinksNeverBlock
    <3> SUFFICES ASSUME NEW s \in Sinks, "producer" \in sink[s].parked
                 PROVE  /\ sink[s].backpressure /\ exclusive
                        /\ sinks \subseteq {s} /\ rest = {s}
      BY DEF SharedSinksNeverBlock
    <3>1. sink[s].backpressure /\ pc = "fanout" /\ s \in rest
      BY KnownFacts, DoneFacts DEF Alone
    <3>2. Served(s)
      BY <3>1, KnownFacts DEF Visited, FanningOut
    <3> QED BY <3>1, <3>2, KnownFacts DEF Alone, FanningOut
  <2>3. DrainedWhenDone
    <3> SUFFICES ASSUME bcDone, NEW s \in Sinks, Open(s)
                 PROVE  sink[s].done /\ Empty(sink[s]) /\ sink[s].parked = {}
      BY DEF DrainedWhenDone, Open
    <3>1. stopped /\ pc = "done" /\ rest = {}
      BY DEF FanInv, RunInv, Ending
    <3>2. sink[s].done
      BY <3>1, KnownFacts DEF Drained
    <3>3. Empty(sink[s]) /\ sink[s].inputClosed
      BY <3>2, DoneFacts DEF Empty
    <3> QED BY <3>2, <3>3, KnownFacts DEF Sound, Parked
  <2> QED BY <2>1, <2>2, <2>3 DEF NobodyWaitsInVain
<1> QED BY <1>1, FanOutInvariant, PTL

\* A sink that kept up is dropped only for data that no queue can take: by a step
\* of Run, with an empty queue and nothing counted, so only size can be at fault.
THEOREM FanOutKeepsUp == Spec => KeepingUpNeverDropped
<1> DEFINE Act == \A s \in Sinks :
                     s \in victim' \ victim /\ Empty(sink[s]) /\ ~sink[s].closed
                        => cur.size > MaxQueuedBytes
<1>1. FanInv /\ [Next]_vars => Act
  <2> SUFFICES ASSUME FanInv, [Next]_vars, NEW s \in Sinks, s \in victim', s \notin victim,
                      Empty(sink[s]), ~sink[s].closed
               PROVE  cur.size > MaxQueuedBytes
    OBVIOUS
  <2>1. EnqueueFail(s)
    <3>1. victim' \subseteq victim \/ \E u \in Sinks : EnqueueFail(u)
      <4>1. UNCHANGED vars \/ SourceRead => victim' = victim
        BY DEF vars, SourceRead
      <4>2. RunStep => victim' \subseteq victim \/ \E u \in Sinks : EnqueueFail(u)
        BY DEF RunStep, Reserve, DropAbort, DropUnlink, FannedOut, Stop, StartDrain,
               DrainTimeout, CloseDone, EnqueueWait, EnqueueAccept, FinishSink, SinkDrained,
               ExpireAbort, runVars
      <4>3. \A u \in Sinks : ReaderStep(u) \/ CallerStep(u) => victim' = victim
        BY DEF ReaderStep, CallerStep, ReaderParks, ReaderEOF, ReaderTakes, AddSink,
               AddBackpressuredSink, RemoveAbort, RemoveUnlink, runVars
      <4> QED BY <4>1, <4>2, <4>3 DEF Next
    <3> QED BY <3>1 DEF EnqueueFail
  <2>2. pc = "fanout" /\ s \in rest
        /\ (EnqueueClosed(sink[s]) \/ EnqueueOverflows(sink[s], cur.size))
    BY <2>1 DEF EnqueueFail, Fanning
  <2>3. ~EnqueueClosed(sink[s])
    <3>1. Served(s) /\ ~stopped
      BY <2>2, KnownFacts DEF Visited, FanningOut, FanInv, RunInv, Ending
    <3> QED BY <3>1, KnownFacts DEF Attached, EnqueueClosed
  <2>4. sink[s].bytes = 0 /\ sink[s].queue = <<>>
    <3>1. sink[s].queue = <<>> /\ sink[s].head = 0 /\ sink[s].bytes = SumSizes(<<>>) - 0
      BY KnownFacts DEF Sound, HeadFits, Exact, Empty
    <3> QED BY <3>1, SumEmpty
  <2>5. ~(Len(sink[s].queue) >= MaxQueuedChunks)
    <3>1. Len(<<>>) = 0
      OBVIOUS
    <3> QED BY <2>4, <3>1, LimitsAssumption
  <2>6. cur.size \in Nat /\ MaxQueuedBytes \in Nat
    BY LimitsAssumption DEF FanInv, TypeOK
  <2> QED BY <2>2, <2>3, <2>4, <2>5, <2>6 DEF EnqueueOverflows, ExceedsLimits
<1>2. KeepingUpNeverDropped <=> [][Act]_vars
  BY DEF KeepingUpNeverDropped
<1> HIDE DEF Act
<1> QED BY <1>1, <1>2, FanOutInvariant, PTL DEF Spec

-----------------------------------------------------------------------------
(* The fan-out keeps its promise: every step of it is a step of FanOut, seen *)
(* through the refinement mapping, or does not change what a session sees.   *)

FeedAt(state, start, taken) == [state |-> state, start |-> start, taken |-> taken]
feeds == [s \in Sinks |-> Feed(sink[s])]

LEMMA FeedCases ==
    ASSUME NEW k
    PROVE  /\ k.alloc # "open" => Feed(k) = FeedAt("none", k.start, k.taken)
           /\ k.alloc = "open" /\ k.closed => Feed(k) = FeedAt("cut", k.start, k.taken)
           /\ k.alloc = "open" /\ ~k.closed /\ k.done
                 => Feed(k) = FeedAt("ended", k.start, k.taken)
           /\ k.alloc = "open" /\ ~k.closed /\ ~k.done
                 => Feed(k) = FeedAt("attached", k.start, k.taken)
<1> DEFINE st == IF k.alloc # "open" THEN "none"
                 ELSE IF k.closed THEN "cut"
                 ELSE IF k.done THEN "ended" ELSE "attached"
<1>1. Feed(k) = FeedAt(st, k.start, k.taken)
  BY DEF Feed, FeedAt
<1>2. /\ k.alloc # "open" => st = "none"
      /\ k.alloc = "open" /\ k.closed => st = "cut"
      /\ k.alloc = "open" /\ ~k.closed /\ k.done => st = "ended"
      /\ k.alloc = "open" /\ ~k.closed /\ ~k.done => st = "attached"
  OBVIOUS
<1> HIDE DEF st
<1> QED BY <1>1, <1>2

WithState(k, p) == [k EXCEPT !.state = p]
WithTaken(k, p) == [k EXCEPT !.taken = p]
WithBoth(k, p, q) == [k EXCEPT !.taken = p, !.state = q]

LEMMA FeedAtExcept ==
    ASSUME NEW k, NEW state, NEW start, NEW taken, k = FeedAt(state, start, taken), NEW p, NEW q
    PROVE  /\ WithState(k, p) = FeedAt(p, start, taken)
           /\ WithTaken(k, p) = FeedAt(state, start, p)
           /\ WithBoth(k, p, q) = FeedAt(q, start, p)
<1>1. k = [state |-> state, start |-> start, taken |-> taken]
  BY DEF FeedAt
<1>2. [k EXCEPT !.state = p] = FeedAt(p, start, taken)
  BY <1>1 DEF FeedAt
<1>3. [k EXCEPT !.taken = p] = FeedAt(state, start, p)
  BY <1>1 DEF FeedAt
<1>4. [k EXCEPT !.taken = p, !.state = q] = FeedAt(q, start, p)
  <2> DEFINE j == [k EXCEPT !.taken = p]
  <2>1. [k EXCEPT !.taken = p, !.state = q] = [j EXCEPT !.state = q]
    OBVIOUS
  <2>2. j = [state |-> state, start |-> start, taken |-> p]
    BY <1>3 DEF FeedAt
  <2> HIDE DEF j
  <2> QED BY <2>1, <2>2 DEF FeedAt
<1> QED BY <1>2, <1>3, <1>4 DEF WithState, WithTaken, WithBoth

LEMMA FeedsChange ==
    ASSUME NEW s \in Sinks, OthersSame(s)
    PROVE  feeds' = [feeds EXCEPT ![s] = Feed(sink'[s])]
BY DEF feeds, OthersSame

\* The steps of FanOut on one feed, by what becomes of the feed.
LEMMA MapFeed ==
    ASSUME NEW s \in Sinks, NEW state, NEW start, NEW taken,
           feeds[s] = FeedAt(state, start, taken),
           UNCHANGED <<sequence, published, stopped>>
    PROVE  /\ state = "none" /\ ~stopped
              /\ feeds' = [feeds EXCEPT ![s] = FeedAt("attached", sequence + 1, 0)]
                 => FO!Attach(s)
           /\ state = "none" /\ feeds' = [feeds EXCEPT ![s] = FeedAt("ended", start, taken)]
                 => FO!AttachRefused(s)
           /\ state \in {"attached", "ended"}
              /\ feeds' = [feeds EXCEPT ![s] = FeedAt("cut", start, taken)]
                 => FO!Cut(s)
<1>1. feeds[s].state = state
  BY DEF FeedAt
<1>2. state = "none" /\ ~stopped
      /\ feeds' = [feeds EXCEPT ![s] = FeedAt("attached", sequence + 1, 0)] => FO!Attach(s)
  BY <1>1 DEF FO!Attach, feeds, FeedAt
<1>3. state = "none" /\ feeds' = [feeds EXCEPT ![s] = FeedAt("ended", start, taken)]
         => FO!AttachRefused(s)
  <2> SUFFICES ASSUME state = "none", feeds' = [feeds EXCEPT ![s] = FeedAt("ended", start, taken)]
               PROVE  FO!AttachRefused(s)
    OBVIOUS
  <2>1. WithState(feeds[s], "ended") = FeedAt("ended", start, taken)
    BY FeedAtExcept
  <2>2. feeds' = [feeds EXCEPT ![s].state = "ended"]
    BY <2>1, Zenon DEF WithState
  <2> QED BY <1>1, <2>2, Zenon DEF FO!AttachRefused, feeds
<1>4. state \in {"attached", "ended"}
      /\ feeds' = [feeds EXCEPT ![s] = FeedAt("cut", start, taken)] => FO!Cut(s)
  <2> SUFFICES ASSUME state \in {"attached", "ended"},
                      feeds' = [feeds EXCEPT ![s] = FeedAt("cut", start, taken)]
               PROVE  FO!Cut(s)
    OBVIOUS
  <2>1. WithState(feeds[s], "cut") = FeedAt("cut", start, taken)
    BY FeedAtExcept
  <2>2. feeds' = [feeds EXCEPT ![s].state = "cut"]
    BY <2>1, Zenon DEF WithState
  <2> QED BY <1>1, <2>2, Zenon DEF FO!Cut, feeds
<1> QED BY <1>2, <1>3, <1>4

\* What a session is still due, in the terms of its sink.
DueOf(s) == {p \in published : p >= sink[s].start /\ p > sink[s].taken}

LEMMA MapDeliver ==
    ASSUME NEW s \in Sinks, NEW p \in DueOf(s), \A q \in DueOf(s) : p <= q,
           Feed(sink[s]) = FeedAt("attached", sink[s].start, sink[s].taken),
           \/ feeds' = [feeds EXCEPT ![s] = FeedAt("attached", sink[s].start, p)]
           \/ /\ stopped /\ DueOf(s) = {p}
              /\ feeds' = [feeds EXCEPT ![s] = FeedAt("ended", sink[s].start, p)],
           UNCHANGED <<sequence, published, stopped>>
    PROVE  FO!Deliver(s)
<1>1. feeds[s] = FeedAt("attached", sink[s].start, sink[s].taken)
  BY DEF feeds
<1>2. feeds[s].state = "attached" /\ feeds[s].start = sink[s].start
      /\ feeds[s].taken = sink[s].taken
  BY <1>1 DEF FeedAt
<1>3. FO!Due(s) = DueOf(s)
  BY <1>2, Zenon DEF FO!Due, DueOf, feeds
<1>4. \/ feeds' = [feeds EXCEPT ![s].taken = p]
      \/ /\ stopped /\ DueOf(s) = {p}
         /\ feeds' = [feeds EXCEPT ![s].taken = p, ![s].state = "ended"]
  <2>1. /\ WithTaken(feeds[s], p) = FeedAt("attached", sink[s].start, p)
        /\ WithBoth(feeds[s], p, "ended") = FeedAt("ended", sink[s].start, p)
    BY <1>1, FeedAtExcept
  <2>2. feeds' = [feeds EXCEPT ![s] = FeedAt("attached", sink[s].start, p)]
           => feeds' = [feeds EXCEPT ![s].taken = p]
    BY <2>1, Zenon DEF WithTaken
  <2>3. feeds' = [feeds EXCEPT ![s] = FeedAt("ended", sink[s].start, p)]
           => feeds' = [feeds EXCEPT ![s].taken = p, ![s].state = "ended"]
    BY <2>1 DEF WithBoth
  <2> QED BY <2>2, <2>3, Zenon
<1> DEFINE due == FO!Due(s)
           deliver(x) == feeds' = [feeds EXCEPT ![s].taken = x]
           last(x) == feeds' = [feeds EXCEPT ![s].taken = x, ![s].state = "ended"]
<1>5. deliver(p) \/ (stopped /\ DueOf(s) = {p} /\ last(p))
  BY <1>4, Zenon
<1>6. FO!Deliver(s) <=>
         /\ feeds[s].state = "attached"
         /\ \E x \in due :
               /\ \A q \in due : x <= q
               /\ deliver(x) \/ (stopped /\ due = {x} /\ last(x))
         /\ UNCHANGED <<sequence, published, stopped>>
  BY Zenon DEF FO!Deliver, feeds
<1>7. due = DueOf(s)
  BY <1>3
<1> HIDE DEF due, deliver, last
<1> QED BY <1>2, <1>5, <1>6, <1>7

LEMMA MapEnd ==
    ASSUME NEW s \in Sinks, stopped, DueOf(s) = {},
           Feed(sink[s]) = FeedAt("attached", sink[s].start, sink[s].taken),
           feeds' = [feeds EXCEPT ![s] = FeedAt("ended", sink[s].start, sink[s].taken)],
           UNCHANGED <<sequence, published, stopped>>
    PROVE  FO!End(s)
<1>1. feeds[s] = FeedAt("attached", sink[s].start, sink[s].taken)
  BY DEF feeds
<1>2. feeds[s].state = "attached" /\ feeds[s].start = sink[s].start
      /\ feeds[s].taken = sink[s].taken
  BY <1>1 DEF FeedAt
<1>3. FO!Due(s) = {}
  BY <1>2, Zenon DEF FO!Due, DueOf, feeds
<1>4. feeds' = [feeds EXCEPT ![s].state = "ended"]
  <2>1. WithState(feeds[s], "ended") = FeedAt("ended", sink[s].start, sink[s].taken)
    BY <1>1, FeedAtExcept
  <2> QED BY <2>1, Zenon DEF WithState
<1> QED BY <1>2, <1>3, <1>4, Zenon DEF FO!End, feeds

LEMMA FeedSame ==
    ASSUME NEW s \in Sinks, OthersSame(s), Identical(sink'[s], sink[s]),
           sink'[s].taken = sink[s].taken, sink'[s].closed = sink[s].closed,
           sink'[s].done = sink[s].done
    PROVE  feeds' = feeds
<1>1. Feed(sink'[s]) = Feed(sink[s])
  BY DEF Feed, Identical
<1>2. \A t \in Sinks : Feed(sink'[t]) = Feed(sink[t])
  BY <1>1 DEF OthersSame
<1> QED BY <1>2 DEF feeds

\* Nothing is seen of a step that leaves the feeds alone.
LEMMA Unseen ==
    ASSUME UNCHANGED <<sequence, published, stopped>>, feeds' = feeds
    PROVE  UNCHANGED FO!vars
BY DEF FO!vars, feeds

LEMMA FOCreate ==
    ASSUME FanInv, NEW s \in Sinks, AddSink(s) \/ AddBackpressuredSink(s)
    PROVE  [FO!Next]_(FO!vars)
<1>1. /\ sink[s].alloc = "none" /\ OthersSame(s) /\ sink'[s].taken = 0
      /\ \/ /\ sink'[s].start = 0 /\ sink'[s].alloc \in {"open", "rejected"}
            /\ sink'[s].done = TRUE
            /\ sink'[s].alloc = "open" => sink'[s].closed = FALSE
         \/ /\ sink'[s].start = sequence + 1 /\ sink'[s].alloc = "open"
            /\ sink'[s].closed = FALSE /\ sink'[s].done = FALSE /\ ~stopped
      /\ UNCHANGED <<sequence, published, stopped>>
  BY CreateEffect DEF FanInv
<1>2. feeds[s] = FeedAt("none", 0, 0)
  <2>1. sink[s].start = 0 /\ sink[s].taken = 0
    BY <1>1, KnownFacts DEF Sound, Closing
  <2>2. Feed(sink[s]) = FeedAt("none", 0, 0)
    BY <1>1, <2>1, FeedCases
  <2> QED BY <2>2 DEF feeds
<1>3. feeds' = [feeds EXCEPT ![s] = Feed(sink'[s])]
  BY <1>1, FeedsChange
<1>4. CASE sink'[s].start = 0 /\ sink'[s].alloc = "rejected"
  <2>1. Feed(sink'[s]) = feeds[s]
    BY <1>1, <1>2, <1>4, FeedCases
  <2>2. feeds' = feeds
    BY <1>3, <2>1 DEF feeds
  <2> QED BY <1>1, <2>2, Unseen
<1>5. CASE sink'[s].start = 0 /\ sink'[s].alloc = "open" /\ sink'[s].done = TRUE
           /\ sink'[s].closed = FALSE
  <2>1. Feed(sink'[s]) = FeedAt("ended", 0, 0)
    BY <1>1, <1>5, FeedCases
  <2>2. FO!AttachRefused(s)
    BY <1>1, <1>2, <1>3, <2>1, MapFeed
  <2> QED BY <2>2 DEF FO!Next
<1>6. CASE /\ sink'[s].start = sequence + 1 /\ sink'[s].alloc = "open"
           /\ sink'[s].closed = FALSE /\ sink'[s].done = FALSE /\ ~stopped
  <2>1. Feed(sink'[s]) = FeedAt("attached", sequence + 1, 0)
    BY <1>1, <1>6, FeedCases
  <2>2. FO!Attach(s)
    BY <1>1, <1>2, <1>3, <1>6, <2>1, MapFeed
  <2> QED BY <2>2 DEF FO!Next
<1> QED BY <1>1, <1>4, <1>5, <1>6

\* Aborting an open sink cuts its feed, if that has not happened before.
LEMMA FOCut ==
    ASSUME FanInv, NEW s \in Sinks, OthersSame(s), Open(s), Identical(sink'[s], sink[s]),
           sink'[s].taken = sink[s].taken, sink'[s].closed = TRUE, sink'[s].done = TRUE,
           UNCHANGED <<sequence, published, stopped>>
    PROVE  [FO!Next]_(FO!vars)
<1>1. Feed(sink'[s]) = FeedAt("cut", sink[s].start, sink[s].taken)
  BY FeedCases DEF Open, Identical
<1>2. feeds' = [feeds EXCEPT ![s] = FeedAt("cut", sink[s].start, sink[s].taken)]
  BY <1>1, FeedsChange
<1>3. CASE sink[s].closed
  <2>1. Feed(sink[s]) = FeedAt("cut", sink[s].start, sink[s].taken)
    BY <1>3, FeedCases DEF Open
  <2>2. feeds' = feeds
    BY <1>2, <2>1 DEF feeds
  <2> QED BY <2>2, Unseen
<1>4. CASE ~sink[s].closed
  <2>1. PICK state \in {"attached", "ended"} :
           Feed(sink[s]) = FeedAt(state, sink[s].start, sink[s].taken)
    BY <1>4, FeedCases DEF Open
  <2>2. feeds[s] = FeedAt(state, sink[s].start, sink[s].taken)
    BY <2>1 DEF feeds
  <2>3. FO!Cut(s)
    BY <1>2, <2>2, MapFeed
  <2> QED BY <2>3 DEF FO!Next
<1> QED BY <1>3, <1>4

LEMMA RisingHead ==
    ASSUME NEW q \in Seq(Chunk), q # <<>>, Rising(q)
    PROVE  /\ Head(q).seq \in SeqsOf(q) /\ \A p \in SeqsOf(q) : Head(q).seq <= p
           /\ Tail(q) = <<>> => SeqsOf(q) = {Head(q).seq}
<1>1. /\ Tail(q) \in Seq(Chunk) /\ Len(Tail(q)) = Len(q) - 1 /\ Len(q) \in Nat \ {0}
      /\ Head(q) = q[1] /\ DOMAIN q = 1 .. Len(q) /\ 1 \in DOMAIN q
  BY HeadTailProperties
<1>2. \A i \in DOMAIN q : q[i].seq \in Nat
  <2> TAKE i \in DOMAIN q
  <2>1. q[i] \in Chunk
    BY <1>1, ElementOfSeq
  <2> QED BY <2>1 DEF Chunk
<1>3. q[1].seq \in SeqsOf(q)
  BY <1>1 DEF SeqsOf
<1>4. ASSUME NEW i \in DOMAIN q PROVE q[1].seq <= q[i].seq
  <2>1. i = 1 \/ 1 < i
    BY <1>1
  <2>2. q[1].seq = q[i].seq \/ q[1].seq < q[i].seq
    BY <1>1, <2>1 DEF Rising
  <2> QED BY <1>1, <1>2, <2>2
<1>5. Tail(q) = <<>> => DOMAIN q = {1}
  <2> DEFINE r == Tail(q)
  <2>1. Len(r) = Len(q) - 1 /\ Len(q) \in Nat
    BY <1>1
  <2> HIDE DEF r
  <2>2. r = <<>> => Len(q) = 1
    BY <2>1
  <2>3. Len(q) = 1 => DOMAIN q = {1}
    BY <1>1
  <2> QED BY <2>2, <2>3 DEF r
<1>6. \A p \in SeqsOf(q) : q[1].seq <= p
  BY <1>4 DEF SeqsOf
<1>7. Tail(q) = <<>> => SeqsOf(q) = {q[1].seq}
  BY <1>5 DEF SeqsOf
<1> QED BY <1>1, <1>3, <1>6, <1>7

LEMMA FORead ==
    ASSUME FanInv, NEW s \in Sinks, ReaderStep(s)
    PROVE  [FO!Next]_(FO!vars)
<1>1. UNCHANGED <<sequence, published, stopped>>
  BY DEF ReaderStep, ReaderParks, ReaderEOF, ReaderTakes, bcVars
<1>2. CASE ReaderParks(s)
  BY <1>1, <1>2, ParkEffect, FeedSame, Unseen
<1>3. CASE ReaderEOF(s)
  <2>1. sink'[s].done = sink[s].done
    BY <1>3, EOFEffect
  <2> QED BY <1>1, <1>3, <2>1, EOFEffect, FeedSame, Unseen
<1>4. CASE ReaderTakes(s)
  <2> DEFINE q == sink[s].queue
             h == Head(q).seq
  <2>1. /\ OthersSame(s) /\ Identical(sink'[s], sink[s])
        /\ q # <<>> /\ sink[s].closed = FALSE
        /\ sink'[s].closed = FALSE /\ sink'[s].inputClosed = sink[s].inputClosed
        /\ \/ sink'[s].queue = Tail(q) /\ sink'[s].taken = h
           \/ sink'[s].taken = sink[s].taken /\ sink'[s].done = sink[s].done
    BY <1>4, TakeEffect
  <2>2. CASE sink'[s].taken = sink[s].taken /\ sink'[s].done = sink[s].done
    <3>1. sink'[s].closed = sink[s].closed
      BY <2>1
    <3> QED BY <1>1, <2>1, <2>2, <3>1, FeedSame, Unseen
  <2>3. CASE sink'[s].queue = Tail(q) /\ sink'[s].taken = h
    <3>1. /\ Open(s) /\ ~sink[s].done /\ q \in Seq(Chunk) /\ sink[s].start > 0
          /\ sequence \in Nat /\ published \subseteq 1 .. sequence
      BY <1>4, <2>1, KnownFacts, DoneFacts
         DEF ReaderTakes, Reading, Open, Sound, Closing, Empty
    <3>2. SeqsOf(q) = Undelivered(s) /\ Rising(q)
      BY <2>1, <3>1, NoGapIsGapless DEF FanInv, Gapless
    <3>3. /\ h \in Undelivered(s) /\ \A p \in Undelivered(s) : h <= p
          /\ Tail(q) = <<>> => Undelivered(s) = {h}
      BY <2>1, <3>1, <3>2, RisingHead
    <3> HIDE DEF h, q
    <3>4. h \in DueOf(s) /\ h \in 1 .. sequence
      BY <3>1, <3>3 DEF DueOf, Undelivered
    <3>5. \A p \in DueOf(s) : p \in Undelivered(s) \/ p = sequence
      BY DEF DueOf, Undelivered, Handing, FanInv, RunInv, FanningOut
    <3>6. \A p \in DueOf(s) : h <= p
      <4> TAKE p \in DueOf(s)
      <4>1. CASE p \in Undelivered(s)
        BY <3>3, <4>1
      <4>2. CASE p = sequence
        BY <3>1, <3>4, <4>2
      <4> QED BY <3>5, <4>1, <4>2
    <3>7. Feed(sink[s]) = FeedAt("attached", sink[s].start, sink[s].taken)
      BY <2>1, <3>1, FeedCases DEF Open
    <3>8. feeds' = [feeds EXCEPT ![s] = Feed(sink'[s])]
      BY <2>1, FeedsChange
    <3>9. CASE ~sink'[s].done
      <4>1. Feed(sink'[s]) = FeedAt("attached", sink[s].start, h)
        BY <2>1, <2>3, <3>1, <3>9, FeedCases DEF Open, Identical
      <4>2. FO!Deliver(s)
        BY <1>1, <3>4, <3>6, <3>7, <3>8, <4>1, MapDeliver
      <4> QED BY <4>2 DEF FO!Next
    <3>10. CASE sink'[s].done
      <4>1. Feed(sink'[s]) = FeedAt("ended", sink[s].start, h)
        BY <2>1, <2>3, <3>1, <3>10, FeedCases DEF Open, Identical
      <4>2. Tail(q) = <<>> /\ sink[s].inputClosed
        <5>1. SinksSound'
          BY SoundStep DEF Next
        <5>2. sink'[s].done => sink'[s].queue = <<>> /\ sink'[s].inputClosed
          BY <5>1 DEF SinksSound, Sound, Closing, Empty
        <5> QED BY <2>1, <2>3, <3>10, <5>2
      <4>3. stopped
        BY <2>1, <3>1, <4>2, KnownFacts DEF Attached, Served
      <4>4. DueOf(s) = {h}
        <5>1. ~Handing(s)
          BY <4>3 DEF FanInv, RunInv, Handing, Ending
        <5>2. DueOf(s) = Undelivered(s)
          BY <5>1 DEF DueOf, Undelivered
        <5> QED BY <3>3, <4>2, <5>2
      <4>5. FO!Deliver(s)
        BY <1>1, <3>4, <3>6, <3>7, <3>8, <4>1, <4>3, <4>4, MapDeliver
      <4> QED BY <4>5 DEF FO!Next
    <3> QED BY <3>9, <3>10
  <2> QED BY <2>1, <2>2, <2>3
<1> QED BY <1>2, <1>3, <1>4 DEF ReaderStep

LEMMA FOFinish ==
    ASSUME FanInv, NEW s \in Sinks, FinishSink(s)
    PROVE  [FO!Next]_(FO!vars)
<1>1. /\ OthersSame(s) /\ Identical(sink'[s], sink[s])
      /\ sink'[s].taken = sink[s].taken /\ sink'[s].closed = sink[s].closed
      /\ sink'[s].done = Empty(sink[s])
  BY FinishEffect
<1>2. UNCHANGED <<sequence, published, stopped>> /\ pc = "finishSinks" /\ s \in rest
  BY DEF FinishSink, bcVars
<1>3. stopped /\ Open(s) /\ sink[s] \in SinkRecord
  BY <1>2, KnownFacts DEF FanInv, RunInv, Ending, Visited
<1>4. CASE sink[s].done = Empty(sink[s])
  BY <1>1, <1>2, <1>4, FeedSame, Unseen
<1>5. CASE sink[s].closed
  <2>1. sink[s].done = TRUE /\ Empty(sink[s])
    BY <1>3, <1>5, DoneFacts DEF SinkRecord, Empty
  <2> QED BY <1>4, <2>1
<1>6. CASE ~sink[s].closed /\ sink[s].done # Empty(sink[s])
  <2>1. Empty(sink[s]) /\ ~sink[s].done
    BY <1>3, <1>6, DoneFacts DEF SinkRecord, Empty
  <2>2. Feed(sink[s]) = FeedAt("attached", sink[s].start, sink[s].taken)
    BY <1>3, <1>6, <2>1, FeedCases DEF Open
  <2>3. Feed(sink'[s]) = FeedAt("ended", sink[s].start, sink[s].taken)
    BY <1>1, <1>3, <1>6, <2>1, FeedCases DEF Open, Identical
  <2>4. feeds' = [feeds EXCEPT ![s] = FeedAt("ended", sink[s].start, sink[s].taken)]
    BY <1>1, <2>3, FeedsChange
  <2>5. DueOf(s) = {}
    <3>1. sink[s].start > 0
      BY <1>3, <2>1, DoneFacts, KnownFacts
    <3>2. SeqsOf(sink[s].queue) = Undelivered(s)
      BY <1>6, <3>1, NoGapIsGapless DEF FanInv, Gapless
    <3>3. Undelivered(s) = {}
      BY <2>1, <3>2, RisingEmpty DEF Empty
    <3>4. ~Handing(s)
      BY <1>2 DEF Handing
    <3> QED BY <3>3, <3>4 DEF DueOf, Undelivered
  <2>6. FO!End(s)
    BY <1>2, <1>3, <2>2, <2>4, <2>5, MapEnd
  <2> QED BY <2>6 DEF FO!Next
<1> QED BY <1>4, <1>5, <1>6

LEMMA FORun ==
    ASSUME FanInv, SourceRead \/ RunStep \/ UNCHANGED vars
    PROVE  [FO!Next]_(FO!vars)
<1>1. CASE Reserve
  <2>1. ~stopped /\ sequence' = sequence + 1 /\ UNCHANGED <<published, stopped, sink>>
    BY <1>1 DEF Reserve, FanInv, RunInv, Ending
  <2>2. FO!Advance
    BY <2>1 DEF FO!Advance, feeds
  <2> QED BY <2>2 DEF FO!Next
<1>2. CASE SourceRead
  <2>1. /\ ~stopped /\ sequence \notin published
        /\ UNCHANGED <<sequence, stopped, sink>>
        /\ published' = published \/ published' = published \cup {sequence}
    BY <1>2 DEF SourceRead, FanInv, RunInv, Ending, bcVars
  <2>2. CASE published' = published
    BY <2>1, <2>2 DEF FO!vars
  <2>3. CASE published' = published \cup {sequence}
    <3>1. FO!Publish
      BY <2>1, <2>3 DEF FO!Publish
    <3> QED BY <3>1 DEF FO!Next
  <2> QED BY <2>1, <2>2, <2>3
<1>3. CASE Stop
  <2>1. FO!SourceOver
    BY <1>3 DEF Stop, FO!SourceOver
  <2> QED BY <2>1 DEF FO!Next
<1>4. CASE DropAbort
  <2>1. /\ UNCHANGED <<sequence, published, stopped>> /\ pc = "dropAbort"
    BY <1>4 DEF DropAbort, bcVars
  <2>2. PICK s \in Sinks : victim = {s}
    BY <2>1 DEF FanInv, RunInv, Dropping
  <2>3. OthersSame(s)
    BY <1>4, <2>2, DropEffect DEF OthersSame
  <2>4. Open(s)
    BY <2>1, <2>2, KnownFacts DEF Visited, FanningOut, Served
  <2>5. /\ Identical(sink'[s], sink[s]) /\ sink'[s].taken = sink[s].taken
        /\ sink'[s].closed = TRUE /\ sink'[s].done = TRUE
    BY <1>4, <2>2, DropEffect
  <2> QED BY <2>1, <2>3, <2>4, <2>5, FOCut
<1>5. CASE UNCHANGED vars \/ DropUnlink \/ FannedOut \/ StartDrain \/ DrainTimeout \/ CloseDone
  <2>1. UNCHANGED <<sequence, published, stopped, sink>>
    BY <1>5 DEF vars, DropUnlink, FannedOut, StartDrain, DrainTimeout, CloseDone, bcVars
  <2> QED BY <2>1 DEF FO!vars
<1>6. ASSUME NEW s \in Sinks, EnqueueFail(s) \/ SinkDrained(s) PROVE [FO!Next]_(FO!vars)
  <2>1. UNCHANGED <<sequence, published, stopped, sink>>
    BY <1>6 DEF EnqueueFail, SinkDrained, bcVars
  <2> QED BY <2>1 DEF FO!vars
<1>7. ASSUME NEW s \in Sinks, EnqueueWait(s) \/ EnqueueAccept(s) PROVE [FO!Next]_(FO!vars)
  <2>1. UNCHANGED <<sequence, published, stopped>>
    BY <1>7 DEF EnqueueWait, EnqueueAccept, bcVars
  <2>2. /\ OthersSame(s) /\ Identical(sink'[s], sink[s]) /\ sink'[s].taken = sink[s].taken
        /\ sink'[s].closed = sink[s].closed /\ sink'[s].done = sink[s].done
    BY <1>7, ParkEffect, EnqueueEffect
  <2> QED BY <2>1, <2>2, FeedSame, Unseen
<1>8. ASSUME NEW s \in Sinks, ExpireAbort(s) PROVE [FO!Next]_(FO!vars)
  <2>1. UNCHANGED <<sequence, published, stopped>> /\ s \in rest
    BY <1>8 DEF ExpireAbort, bcVars
  <2>2. Open(s)
    BY <2>1, KnownFacts DEF Visited
  <2> QED BY <1>8, <2>1, <2>2, AbortEffect, FOCut
<1> QED
  BY <1>1, <1>2, <1>3, <1>4, <1>5, <1>6, <1>7, <1>8, FOFinish DEF RunStep

LEMMA FOStep ==
    ASSUME FanInv, [Next]_vars
    PROVE  [FO!Next]_(FO!vars)
<1>1. CASE SourceRead \/ RunStep \/ UNCHANGED vars
  BY <1>1, FORun
<1>2. ASSUME NEW s \in Sinks, ReaderStep(s) PROVE [FO!Next]_(FO!vars)
  BY <1>2, FORead
<1>3. ASSUME NEW s \in Sinks, CallerStep(s) PROVE [FO!Next]_(FO!vars)
  <2>1. CASE AddSink(s) \/ AddBackpressuredSink(s)
    BY <2>1, FOCreate
  <2>2. CASE RemoveAbort(s)
    <3>1. UNCHANGED <<sequence, published, stopped>> /\ Open(s)
      BY <2>2 DEF RemoveAbort, bcVars, Open
    <3> QED BY <2>2, <3>1, AbortEffect, FOCut
  <2>3. CASE RemoveUnlink(s)
    BY <2>3 DEF RemoveUnlink, FO!vars
  <2> QED BY <1>3, <2>1, <2>2, <2>3 DEF CallerStep
<1> QED BY <1>1, <1>2, <1>3 DEF Next

\* The fan-out implements its promise, FanOut: a session is fed every item since it
\* was attached, in order and once, until it is cut off or has got everything.
THEOREM FanOutRefinement == Spec => FanOutSpec
<1>1. Init => FO!Init
  <2> SUFFICES ASSUME Init PROVE FO!Init
    OBVIOUS
  <2>1. NoSink.alloc = "none" /\ NoSink.start = 0 /\ NoSink.taken = 0
    BY DEF NoSink, NewSink
  <2>2. Feed(NoSink) = [state |-> "none", start |-> 0, taken |-> 0]
    BY <2>1, FeedCases DEF FeedAt
  <2>3. \A s \in Sinks : Feed(sink[s]) = [state |-> "none", start |-> 0, taken |-> 0]
    BY <2>2 DEF Init
  <2> QED BY <2>3 DEF Init, FO!Init, FO!Idle
<1>2. FanInv /\ [Next]_vars => [FO!Next]_(FO!vars)
  BY FOStep
<1> QED BY <1>1, <1>2, FanOutInvariant, PTL DEF Spec, FanOutSpec, FO!Spec
=============================================================================
