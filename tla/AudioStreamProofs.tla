--------------------------- MODULE AudioStreamProofs ---------------------------
(***************************************************************************)
(* Theorems about the audio of a mirror session, for every size of the       *)
(* counters that wrap, of frames, packets and the ring, and every capture.   *)
(***************************************************************************)
EXTENDS AudioStream, TLAPS, SequenceTheorems

-----------------------------------------------------------------------------
(* Arithmetic of counters that wrap.                                         *)

LEMMA ModUnique ==
    ASSUME NEW m \in Nat \ {0}, NEW q \in Int, NEW r \in 0..(m - 1)
    PROVE  (q * m + r) % m = r
OBVIOUS

LEMMA ModIs ==
    ASSUME NEW m \in Nat \ {0}, NEW x \in Int
    PROVE  \E q \in Int, r \in 0..(m - 1) : x = q * m + r /\ x % m = r
<1>1. x % m \in 0..(m - 1)
  OBVIOUS
<1>2. x = (x \div m) * m + (x % m) /\ (x \div m) \in Int
  OBVIOUS
<1> QED BY <1>1, <1>2

LEMMA ModShift ==
    ASSUME NEW m \in Nat \ {0}, NEW q \in Int, NEW x \in Int, NEW y \in Int, y = q * m + x
    PROVE  y % m = x % m
<1>1. PICK p \in Int, r \in 0..(m - 1) : x = p * m + r /\ x % m = r
  BY ModIs
<1>2. y = (p + q) * m + r /\ p + q \in Int
  BY <1>1
<1> QED BY <1>1, <1>2, ModUnique

LEMMA ModAdd ==
    ASSUME NEW m \in Nat \ {0}, NEW a \in Int, NEW b \in Int
    PROVE  ((a % m) + b) % m = (a + b) % m
<1>1. PICK q \in Int, r \in 0..(m - 1) : a = q * m + r /\ a % m = r
  BY ModIs
<1>2. a + b = q * m + (r + b) /\ r + b \in Int /\ a + b \in Int
  BY <1>1
<1>3. (a + b) % m = (r + b) % m
  BY <1>2, ModShift
<1> QED BY <1>1, <1>3

LEMMA ModFactor ==
    ASSUME NEW m \in Nat \ {0}, NEW d \in Nat \ {0}, NEW x \in Int, NEW r \in Int,
           NEW z \in Int, NEW k \in Int, z = k * d, x = z + r
    PROVE  x % d = r % d
<1>1. PICK j \in Int, s \in 0..(d - 1) : r = j * d + s /\ r % d = s
  BY ModIs
<1>2. x = (k + j) * d + s /\ k + j \in Int
  BY <1>1
<1>3. x % d = s
  BY <1>2, ModUnique
<1> QED BY <1>1, <1>3

LEMMA ModDivides ==
    ASSUME NEW m \in Nat \ {0}, NEW d \in Nat \ {0}, NEW p \in Int, m = p * d, NEW x \in Int
    PROVE  (x % m) % d = x % d
<1>1. PICK q \in Int, r \in 0..(m - 1) : x = q * m + r /\ x % m = r
  BY ModIs
<1>3. PICK z \in Int : z = q * m
  OBVIOUS
<1>4. z = (q * p) * d
  BY <1>3
<1>5. PICK k \in Int : k = q * p
  OBVIOUS
<1>6. z = k * d
  BY <1>4, <1>5, Zenon
<1>7. x = z + r
  BY <1>1, <1>3, Zenon
<1>9. r \in Int
  OBVIOUS
<1>10. x % d = r % d
  BY <1>6, <1>7, <1>9, ModFactor
<1> QED BY <1>1, <1>10

LEMMA ModSub ==
    ASSUME NEW m \in Nat \ {0}, NEW a \in Int, NEW b \in Int
    PROVE  (a - (b % m)) % m = (a - b) % m
<1>1. PICK q \in Int, r \in 0..(m - 1) : b = q * m + r /\ b % m = r
  BY ModIs
<1>2. PICK z \in Int : z = q * m
  OBVIOUS
<1>3. b = z + r
  BY <1>1, <1>2, Zenon
<1>4. PICK k \in Int : k = -q
  OBVIOUS
<1>5. PICK w \in Int : w = k * m
  OBVIOUS
<1>6. w = -z
  BY <1>2, <1>4, <1>5
<1>7. a - b = w + (a - r) /\ a - b \in Int /\ a - r \in Int
  BY <1>3, <1>6
<1>8. (a - b) % m = (a - r) % m
  BY <1>5, <1>7, ModFactor
<1> QED BY <1>1, <1>8

LEMMA ModSmall ==
    ASSUME NEW m \in Nat \ {0}, NEW r \in 0..(m - 1)
    PROVE  r % m = r
OBVIOUS

Positions == 0..(Modulus - 1)

LEMMA PlusIs ==
    ASSUME NEW a \in Int, NEW n \in Int
    PROVE  Plus(a, n) \in Positions
BY FramesAssumption DEF Plus, Positions

LEMMA PlusZero == ASSUME NEW a \in Positions PROVE Plus(a, 0) = a
BY FramesAssumption, ModSmall DEF Plus, Positions

LEMMA PlusPlus ==
    ASSUME NEW a \in Int, NEW n \in Int, NEW k \in Int, NEW m \in Int, m = n + k
    PROVE  Plus(Plus(a, n), k) = Plus(a, m)
<1>1. Modulus \in Nat \ {0} /\ a + n \in Int
  BY FramesAssumption
<1>2. (((a + n) % Modulus) + k) % Modulus = ((a + n) + k) % Modulus
  BY <1>1, ModAdd
<1>3. (a + n) + k = a + m
  OBVIOUS
<1> QED BY <1>2, <1>3 DEF Plus

\* A position is not before itself, and moving two positions alike keeps their order.
LEMMA NotBeforeItself == ASSUME NEW a \in Int PROVE NotBefore(a, a)
<1>1. (a - a) % Modulus = 0
  BY FramesAssumption, ModSmall
<1> QED BY <1>1, FramesAssumption DEF NotBefore

LEMMA Distance ==
    ASSUME NEW a \in Int, NEW m \in Int, NEW b \in Int, NEW n \in Int
    PROVE  (Plus(a, m) - Plus(b, n)) % Modulus = ((a + m) - (b + n)) % Modulus
<1>1. Modulus \in Nat \ {0} /\ a + m \in Int /\ b + n \in Int /\ -(b + n) \in Int
  BY FramesAssumption
<1>2. PICK x \in Int : x = (a + m) % Modulus
  BY <1>1
<1>3. (x - ((b + n) % Modulus)) % Modulus = (x - (b + n)) % Modulus
  BY <1>1, ModSub
<1>4. (((a + m) % Modulus) + (-(b + n))) % Modulus = ((a + m) + (-(b + n))) % Modulus
  BY <1>1, ModAdd
<1>5. x - (b + n) = x + (-(b + n)) /\ (a + m) + (-(b + n)) = (a + m) - (b + n)
  OBVIOUS
<1> QED BY <1>2, <1>3, <1>4, <1>5 DEF Plus

-----------------------------------------------------------------------------
(* What the reader holds.                                                    *)
Sample == [ts : Positions, ssrc : Nat]
Frames == [samples : Seq(Sample), source : Positions, time : Int]
SourceRecord == [seq : Nat, ts : Positions, ssrc : Nat, time : Int, made : Nat]
ReaderRecord ==
    [pcm : Seq(Sample), have : BOOLEAN, base : Positions, time : Int, received : Nat,
     consumed : Nat, seq : Nat, ssrc : Nat]

ReaderTypes == source \in SourceRecord /\ reader \in ReaderRecord

\* The samples that a reader still holds are those of one source that follow the
\* consumed ones.
Held(r) ==
    /\ r.received = r.consumed + Len(r.pcm)
    /\ \A i \in 1..Len(r.pcm) :
          r.pcm[i] = [ts |-> Plus(r.base, r.consumed + i - 1), ssrc |-> r.ssrc]

\* It reads a packet only when it holds less than a frame.
Short(r) == \E n \in PacketSamples : Len(r.pcm) < FrameSamples + n

ReaderInv == ReaderTypes /\ Held(reader) /\ Short(reader)

LEMMA PacketIs ==
    ASSUME ReaderTypes, NEW n \in PacketSamples, NEW p \in Packets(n)
    PROVE  /\ p.seq \in Nat /\ p.ts \in Positions /\ p.ssrc \in Nat /\ p.time \in Int
           /\ p.n = n /\ n \in Nat \ {0}
<1>1. n \in Nat \ {0} /\ Tolerance \in Int /\ 0 \in Positions
  BY FramesAssumption DEF Positions
<1>2. /\ source.seq \in Nat /\ source.ts \in Positions /\ source.ts \in Int /\ source.ssrc \in Nat
      /\ source.time \in Int
  BY FramesAssumption DEF ReaderTypes, SourceRecord, Positions
<1>3. Plus(source.ts, n) \in Positions
  BY <1>1, <1>2, PlusIs
<1> QED BY <1>1, <1>2, <1>3 DEF Packets

LEMMA SamplesAre ==
    ASSUME NEW p, p.ts \in Positions, p.ssrc \in Nat, p.n \in Nat
    PROVE  /\ Samples(p) \in Seq(Sample) /\ Len(Samples(p)) = p.n
           /\ \A i \in 1..p.n : Samples(p)[i] = [ts |-> Plus(p.ts, i - 1), ssrc |-> p.ssrc]
<1>1. p.ts \in Int
  BY FramesAssumption DEF Positions
<1>2. \A i \in 1..p.n : [ts |-> Plus(p.ts, i - 1), ssrc |-> p.ssrc] \in Sample
  BY <1>1, PlusIs DEF Sample
<1>3. PICK s : s = [i \in 1..p.n |-> [ts |-> Plus(p.ts, i - 1), ssrc |-> p.ssrc]]
  OBVIOUS
<1>4. s \in Seq(Sample) /\ Len(s) = p.n
  BY <1>2, <1>3
<1>5. \A i \in 1..p.n : s[i] = [ts |-> Plus(p.ts, i - 1), ssrc |-> p.ssrc]
  BY <1>3
<1> QED BY <1>3, <1>4, <1>5 DEF Samples

\* A packet is read.
LEMMA ReaderReads == ASSUME ReaderInv, ReadPacket PROVE ReaderInv'
<1>1. Len(reader.pcm) < FrameSamples
  BY DEF ReadPacket
<1>0. PICK n \in PacketSamples : \E p \in Packets(n) :
        /\ reader' = Accepted(p)
        /\ source' = [seq |-> p.seq + 1, ts |-> Plus(p.ts, n), ssrc |-> p.ssrc,
                      time |-> p.time + n, made |-> source.made + 1]
  BY DEF ReadPacket
<1>2. PICK p \in Packets(n) :
        /\ reader' = Accepted(p)
        /\ source' = [seq |-> p.seq + 1, ts |-> Plus(p.ts, n), ssrc |-> p.ssrc,
                      time |-> p.time + n, made |-> source.made + 1]
  BY <1>0
<1>3. /\ p.seq \in Nat /\ p.ts \in Positions /\ p.ssrc \in Nat /\ p.time \in Int
      /\ p.n = n /\ n \in Nat \ {0}
  BY PacketIs DEF ReaderInv
<1>4. reader \in ReaderRecord /\ source.made \in Nat /\ FrameSamples \in Nat \ {0}
  BY FramesAssumption DEF ReaderInv, ReaderTypes, SourceRecord
<1>5. /\ reader.pcm \in Seq(Sample) /\ reader.base \in Positions /\ reader.base \in Int
      /\ reader.received \in Nat /\ reader.consumed \in Nat /\ reader.time \in Int
      /\ reader.received = reader.consumed + Len(reader.pcm) /\ Len(reader.pcm) \in Nat
  BY <1>4, LenProperties, FramesAssumption DEF ReaderRecord, ReaderInv, Held, Positions
<1>6. source' \in SourceRecord
  <2>1. p.ts \in Int
    BY <1>3, FramesAssumption DEF Positions
  <2>2. Plus(p.ts, n) \in Positions
    BY <1>3, <2>1, PlusIs
  <2> QED BY <1>2, <1>3, <1>4, <2>2 DEF SourceRecord
<1>7. /\ Samples(p) \in Seq(Sample) /\ Len(Samples(p)) = n
      /\ \A i \in 1..n : Samples(p)[i] = [ts |-> Plus(p.ts, i - 1), ssrc |-> p.ssrc]
  BY <1>3, SamplesAre
<1>8. CASE Discontinuous(p)
  <2>1. reader' = [pcm |-> Samples(p), have |-> TRUE, base |-> p.ts, time |-> p.time,
                   received |-> n, consumed |-> 0, seq |-> p.seq, ssrc |-> p.ssrc]
    BY <1>2, <1>3, <1>4, <1>8 DEF Accepted, ReaderRecord
  <2>2. reader' \in ReaderRecord
    BY <1>3, <1>7, <2>1 DEF ReaderRecord
  <2>3. /\ reader'.pcm = Samples(p) /\ reader'.base = p.ts /\ reader'.received = n
        /\ reader'.consumed = 0 /\ reader'.ssrc = p.ssrc
    BY <2>1
  <2>4. \A i \in 1..n : 0 + i - 1 = i - 1
    BY <1>3
  <2>5. Held(reader')
    BY <1>3, <1>7, <2>3, <2>4 DEF Held
  <2>6. Short(reader')
    BY <1>3, <1>4, <1>7, <2>3 DEF Short
  <2> QED BY <1>6, <2>2, <2>5, <2>6 DEF ReaderInv, ReaderTypes
<1>9. CASE ~Discontinuous(p)
  <2>1. p.ssrc = reader.ssrc /\ p.ts = Plus(reader.base, reader.received)
    BY <1>9 DEF Discontinuous
  <2>2. reader' = [pcm |-> reader.pcm \o Samples(p), have |-> TRUE, base |-> reader.base,
                   time |-> p.time - reader.received, received |-> reader.received + n,
                   consumed |-> reader.consumed, seq |-> p.seq, ssrc |-> p.ssrc]
    BY <1>2, <1>3, <1>4, <1>9 DEF Accepted, ReaderRecord
  <2> DEFINE l == Len(reader.pcm)
             q == reader.pcm \o Samples(p)
  <2>3. /\ q \in Seq(Sample) /\ Len(q) = l + n
        /\ \A i \in 1..(l + n) : q[i] = IF i <= l THEN reader.pcm[i] ELSE Samples(p)[i - l]
    <3>1. q \in Seq(Sample) /\ Len(q) = Len(reader.pcm) + Len(Samples(p))
      BY <1>5, <1>7, ConcatProperties
    <3>2. \A i \in 1..(Len(reader.pcm) + Len(Samples(p))) :
             q[i] = IF i <= Len(reader.pcm) THEN reader.pcm[i]
                    ELSE Samples(p)[i - Len(reader.pcm)]
      BY <1>5, <1>7, ConcatProperties
    <3> QED BY <1>7, <3>1, <3>2
  <2>4. \A i \in 1..l : reader.pcm[i] = [ts |-> Plus(reader.base, reader.consumed + i - 1),
                                         ssrc |-> reader.ssrc]
    BY DEF ReaderInv, Held
  <2>5. l \in Nat /\ reader.received = reader.consumed + l /\ l < FrameSamples
    BY <1>1, <1>5
  <2> HIDE DEF q, l
  <2>6. reader' \in ReaderRecord
    <3>1. PICK pcm \in Seq(Sample) : pcm = reader.pcm \o Samples(p)
      BY <2>3 DEF q
    <3>2. PICK time \in Int : time = p.time - reader.received
      BY <1>3, <1>5
    <3>3. PICK received \in Nat : received = reader.received + n
      BY <1>3, <1>5
    <3>4. reader' = [pcm |-> pcm, have |-> TRUE, base |-> reader.base, time |-> time,
                     received |-> received, consumed |-> reader.consumed, seq |-> p.seq,
                     ssrc |-> p.ssrc]
      BY <2>2, <3>1, <3>2, <3>3
    <3>5. /\ reader.base \in Positions /\ reader.consumed \in Nat /\ p.seq \in Nat
          /\ p.ssrc \in Nat
      BY <1>3, <1>5
    <3> QED BY <3>4, <3>5 DEF ReaderRecord
  <2>7. /\ reader'.pcm = q /\ reader'.base = reader.base /\ reader'.received = reader.received + n
        /\ reader'.consumed = reader.consumed /\ reader'.ssrc = reader.ssrc
    BY <2>1, <2>2 DEF q
  <2>8. ASSUME NEW i \in 1..(l + n)
        PROVE  q[i] = [ts |-> Plus(reader.base, reader.consumed + i - 1), ssrc |-> reader.ssrc]
    <3>1. CASE i <= l
      <4>1. i \in 1..l
        BY <2>5, <3>1
      <4> QED BY <2>3, <2>4, <3>1, <4>1
    <3>2. CASE ~(i <= l)
      <4>1. i - l \in 1..n /\ (i - l) - 1 \in Int /\ reader.received \in Int
        BY <1>3, <1>5, <2>5, <3>2
      <4>2. q[i] = [ts |-> Plus(p.ts, (i - l) - 1), ssrc |-> p.ssrc]
        BY <1>7, <2>3, <3>2, <4>1
      <4>3. PICK k \in Int : k = (i - l) - 1
        BY <4>1
      <4>6. PICK m \in Int : m = reader.received + k
        BY <4>1
      <4>4. Plus(p.ts, k) = Plus(reader.base, m)
        BY <1>5, <2>1, <4>1, <4>6, PlusPlus
      <4>5. m = reader.consumed + i - 1
        BY <1>3, <1>5, <2>5, <4>3, <4>6
      <4> QED BY <2>1, <4>2, <4>3, <4>4, <4>5
    <3> QED BY <3>1, <3>2
  <2>9. Held(reader')
    <3>1. reader.received + n = reader.consumed + (l + n)
      BY <1>3, <1>5, <2>5
    <3> QED BY <2>3, <2>7, <2>8, <3>1 DEF Held
  <2>10. Short(reader')
    BY <1>3, <1>4, <2>3, <2>5, <2>7 DEF Short
  <2> QED BY <1>6, <2>6, <2>9, <2>10 DEF ReaderInv, ReaderTypes
<1> QED BY <1>8, <1>9

FrameGood(f) ==
    /\ \A i \in 1..(FrameSamples - 1) : f.samples[i + 1] = [f.samples[i] EXCEPT !.ts = Plus(@, 1)]
    /\ f.source = f.samples[1].ts

\* A frame is taken.
LEMMA FrameRight ==
    ASSUME ReaderInv, FrameReady
    PROVE  Frame \in Frames /\ FrameGood(Frame)
<1> DEFINE l == Len(reader.pcm)
           f == SubSeq(reader.pcm, 1, FrameSamples)
<1>1. /\ reader.pcm \in Seq(Sample) /\ reader.base \in Positions /\ reader.base \in Int
      /\ reader.consumed \in Nat /\ reader.time \in Int /\ l \in Nat /\ l >= FrameSamples
      /\ FrameSamples \in Nat \ {0}
  BY LenProperties, FramesAssumption
     DEF ReaderRecord, ReaderInv, ReaderTypes, Positions, FrameReady
<1>2. \A i \in 1..l : reader.pcm[i] = [ts |-> Plus(reader.base, reader.consumed + i - 1),
                                       ssrc |-> reader.ssrc]
  BY DEF ReaderInv, Held
<1>3. f \in Seq(Sample) /\ \A i \in 1..FrameSamples : f[i] = reader.pcm[i]
  <2>1. \A i \in 1..FrameSamples : reader.pcm[i] \in Sample
    BY <1>1, ElementOfSeq
  <2>2. /\ f \in Seq(Sample)
        /\ \A i \in 1..(FrameSamples - 1 + 1) : f[i] = reader.pcm[1 + i - 1]
    BY <1>1, <2>1, SubSeqProperties
  <2>3. FrameSamples - 1 + 1 = FrameSamples /\ \A i \in 1..FrameSamples : 1 + i - 1 = i
    BY <1>1
  <2> QED BY <2>2, <2>3
<1> HIDE DEF f, l
<1>4. \A i \in 1..FrameSamples : f[i] = [ts |-> Plus(reader.base, reader.consumed + i - 1),
                                         ssrc |-> reader.ssrc]
  BY <1>1, <1>2, <1>3
<1>5. /\ Frame.samples = f /\ Frame.source = Plus(reader.base, reader.consumed)
      /\ Frame = [samples |-> f, source |-> Plus(reader.base, reader.consumed),
                  time |-> reader.time + reader.consumed]
  BY DEF Frame, f
<1>6. Frame \in Frames
  BY <1>1, <1>3, <1>5, PlusIs DEF Frames
<1>7. Frame.source = Frame.samples[1].ts
  <2>1. reader.consumed + 1 - 1 = reader.consumed /\ 1 \in 1..FrameSamples
    BY <1>1
  <2>2. f[1] = [ts |-> Plus(reader.base, reader.consumed + 1 - 1), ssrc |-> reader.ssrc]
    BY <1>4, <2>1
  <2>3. f[1].ts = Plus(reader.base, reader.consumed + 1 - 1)
    BY <2>2
  <2> QED BY <1>5, <2>1, <2>3
<1>8. ASSUME NEW i \in 1..(FrameSamples - 1)
      PROVE  f[i + 1] = [f[i] EXCEPT !.ts = Plus(@, 1)]
  <2>1. i \in 1..FrameSamples /\ i + 1 \in 1..FrameSamples
    BY <1>1
  <2>2. PICK k \in Int : k = reader.consumed + i - 1
    BY <1>1
  <2>7. PICK m \in Int, n \in Int : m = k + 1 /\ n = 1 /\ m = k + n
    OBVIOUS
  <2>3. Plus(Plus(reader.base, k), n) = Plus(reader.base, m)
    <3>1. PICK b \in Int : b = reader.base
      BY <1>1
    <3>2. m = k + n
      BY <2>7
    <3>3. Plus(Plus(b, k), n) = Plus(b, m)
      BY <3>2, PlusPlus
    <3> QED BY <3>1, <3>3
  <2>4. m = reader.consumed + (i + 1) - 1
    BY <1>1, <2>2, <2>7
  <2>5. f[i] = [ts |-> Plus(reader.base, k), ssrc |-> reader.ssrc]
    BY <1>4, <2>1, <2>2
  <2>6. f[i + 1] = [ts |-> Plus(reader.base, m), ssrc |-> reader.ssrc]
    BY <1>4, <2>1, <2>4
  <2> QED BY <2>3, <2>5, <2>6, <2>7
<1> QED BY <1>5, <1>6, <1>7, <1>8 DEF FrameGood

LEMMA ReaderTakes ==
    ASSUME ReaderInv, FrameReady, reader' = Rest, source' = source
    PROVE  ReaderInv'
<1> DEFINE l == Len(reader.pcm)
           q == SubSeq(reader.pcm, FrameSamples + 1, l)
<1>1. /\ reader \in ReaderRecord /\ reader.pcm \in Seq(Sample) /\ reader.base \in Positions
      /\ reader.received \in Nat
      /\ reader.consumed \in Nat /\ reader.time \in Int /\ l \in Nat /\ l >= FrameSamples
      /\ FrameSamples \in Nat \ {0}
  BY LenProperties, FramesAssumption
     DEF ReaderRecord, ReaderInv, ReaderTypes, Positions, FrameReady
<1>2. \A i \in 1..l : reader.pcm[i] = [ts |-> Plus(reader.base, reader.consumed + i - 1),
                                       ssrc |-> reader.ssrc]
  BY DEF ReaderInv, Held
<1>3. reader' = [reader EXCEPT !.pcm = q, !.consumed = reader.consumed + FrameSamples]
  BY DEF Rest
<1>4. /\ q \in Seq(Sample) /\ Len(q) = l - FrameSamples
      /\ \A i \in 1..(l - FrameSamples) : q[i] = reader.pcm[FrameSamples + i]
  <2>1. \A i \in (FrameSamples + 1)..l : reader.pcm[i] \in Sample
    BY <1>1, ElementOfSeq
  <2>2. /\ q \in Seq(Sample)
        /\ Len(q) = IF FrameSamples + 1 <= l THEN l - (FrameSamples + 1) + 1 ELSE 0
        /\ \A i \in 1..(l - (FrameSamples + 1) + 1) : q[i] = reader.pcm[(FrameSamples + 1) + i - 1]
    BY <1>1, <2>1, SubSeqProperties
  <2>3. l - (FrameSamples + 1) + 1 = l - FrameSamples
        /\ (IF FrameSamples + 1 <= l THEN l - (FrameSamples + 1) + 1 ELSE 0) = l - FrameSamples
        /\ \A i \in 1..(l - FrameSamples) : (FrameSamples + 1) + i - 1 = FrameSamples + i
    BY <1>1
  <2> QED BY <2>2, <2>3
<1>5. l < FrameSamples \/ l \in Nat
  BY <1>1
<1>6. PICK n \in PacketSamples : l < FrameSamples + n
  BY DEF ReaderInv, Short
<1>7. reader.received = reader.consumed + l
  BY DEF ReaderInv, Held
<1> HIDE DEF q, l
<1>8. /\ reader' \in ReaderRecord /\ reader'.pcm = q /\ reader'.base = reader.base
      /\ reader'.received = reader.received /\ reader'.ssrc = reader.ssrc
      /\ reader'.consumed = reader.consumed + FrameSamples
  <2>1. PICK c \in Nat : c = reader.consumed + FrameSamples
    BY <1>1
  <2>2. reader' = [pcm |-> q, have |-> reader.have, base |-> reader.base, time |-> reader.time,
                   received |-> reader.received, consumed |-> c, seq |-> reader.seq,
                   ssrc |-> reader.ssrc]
    BY <1>1, <1>3, <2>1 DEF ReaderRecord
  <2>3. reader' \in ReaderRecord
    BY <1>1, <1>4, <2>1, <2>2 DEF ReaderRecord
  <2> QED BY <2>1, <2>2, <2>3
<1>9. Held(reader')
  <2>1. reader.received = (reader.consumed + FrameSamples) + (l - FrameSamples)
    BY <1>1, <1>7
  <2>2. ASSUME NEW i \in 1..(l - FrameSamples)
        PROVE  q[i] = [ts |-> Plus(reader.base, (reader.consumed + FrameSamples) + i - 1),
                       ssrc |-> reader.ssrc]
    <3>1. FrameSamples + i \in 1..l
          /\ reader.consumed + (FrameSamples + i) - 1 = (reader.consumed + FrameSamples) + i - 1
      BY <1>1
    <3> QED BY <1>2, <1>4, <3>1
  <2> QED BY <1>4, <1>8, <2>1, <2>2 DEF Held
<1>10. Short(reader')
  <2>1. n \in Nat
    BY FramesAssumption
  <2> QED BY <1>1, <1>4, <1>6, <1>8, <2>1 DEF Short
<1> QED BY <1>8, <1>9, <1>10 DEF ReaderInv, ReaderTypes

-----------------------------------------------------------------------------
(* The loop.                                                                 *)
Packet == [seq : 0..(SeqModulus - 1), rtp : Positions, id : Nat, fresh : BOOLEAN, nonce : Nat]
LoopRecord ==
    [at : Places, frame : Frames, catchup : Nat, frames : Nat, seq : 0..(SeqModulus - 1),
     rtp : Positions, old : Seq(Packet)]
ClockRecord ==
    [valid : BOOLEAN, anchor : Positions, source : Positions, lastRTP : Positions,
     lastSource : Positions, lastTime : Int, epoch : Nat]

LoopTypes ==
    /\ mode \in Modes /\ loop \in LoopRecord /\ Len(loop.old) <= Depth
    /\ clock \in ClockRecord /\ rtpTime \in Positions
    /\ FrameExact

Started == loop.at \in {"read", "map", "reset", "send", "resend"}
Ended == loop.at \in {"ending", "returned"}

\* The packet of the newest frame that was sent.
Newest(i) == sent[i].fresh /\ \A k \in (i + 1)..Len(sent) : ~sent[k].fresh

\* Where the loop is on the receiver's time line.
Timeline ==
    /\ loop.at \in {"prewarm", "first", "open"} => sent = <<>> /\ ~clock.valid
    /\ Started => clock.valid /\ (mode.stamped => clock.lastRTP = loop.rtp)
    /\ clock.valid /\ mode.stamped =>
         clock.lastRTP = Plus(clock.anchor, clock.lastSource - clock.source)
    /\ loop.at \in {"read", "map"} => \A i \in DOMAIN sent : Newest(i) => sent[i].rtp = loop.rtp
    /\ loop.at \in {"reset", "send", "resend"} => \A i \in DOMAIN sent :
          Newest(i) => NotBefore(loop.rtp, Plus(sent[i].rtp, FrameSamples))
    /\ NoOverlap

\* The numbers of packets, and what the ring remembers of them.
Numbers ==
    /\ sent \in Seq(Packet) /\ loop.seq = (loop.frames + 1) % SeqModulus
    /\ \A i \in DOMAIN sent : sent[i].fresh =>
          sent[i].id \in 1..loop.frames /\ sent[i].seq = sent[i].id % SeqModulus
    /\ ~Ended => \A i \in DOMAIN sent : Newest(i) => sent[i].id = loop.frames

Remembered ==
    /\ ring \in [0..(History - 1) -> Packet \cup {NoPacket}]
    /\ \A s \in 0..(History - 1) : ring[s] # NoPacket =>
          /\ ring[s].id # 0 /\ ring[s].seq = ring[s].id % SeqModulus
          /\ ~Ended => ring[s].id <= loop.frames
          /\ \A i \in DOMAIN sent : sent[i].fresh /\ sent[i].id = ring[s].id => sent[i] = ring[s]
    /\ \A n \in 1..loop.frames : ring[n % History] # NoPacket /\ n <= ring[n % History].id

Asked ==
    /\ control \in [at : {"off", "wait", "serve", "done"}, next : 0..(SeqModulus - 1),
                    left : 0..(History + 1)]
    /\ control.at = "serve" => control.left # 0

\* A packet is only sent again without encryption.
Nonces ==
    /\ nonce \in Nat
    /\ loop.at = "resend" => mode.fec /\ Len(loop.old) = Depth
    /\ mode.chacha =>
         /\ \A i \in DOMAIN sent : sent[i].nonce < nonce
         /\ \A i, j \in DOMAIN sent : i < j => sent[i].nonce < sent[j].nonce

Announced ==
    /\ announceMu \in {"free", "loop", "announcer"}
    /\ announcer \in [at : {"off", "wait", "due", "hold", "done"}, rtp : Positions, epoch : Nat]
    /\ announceMu = "loop" <=> loop.at = "reset"
    /\ announceMu = "announcer" <=> announcer.at = "hold" /\ mode.stamped
    /\ loop.at \in {"prewarm", "first", "open"} => announcer.at = "off"
    /\ announcer.at = "hold" => announcer.epoch = clock.epoch
    /\ ~Ended /\ loop.at # "reset" /\ clock.valid => announced.epoch = clock.epoch

\* The inductive invariant of the audio stream.
AudioInv ==
    ReaderInv /\ LoopTypes /\ Timeline /\ Numbers /\ Remembered /\ Asked /\ Nonces /\ Announced

LEMMA Sizes ==
    /\ Modulus \in Nat \ {0} /\ FrameSamples \in Nat \ {0} /\ SeqModulus \in Nat \ {0}
    /\ History \in Nat \ {0} /\ Depth \in Nat \ {0} /\ Epochs \subseteq Positions
    /\ SeqModulus > History /\ Tolerance \in Nat
BY FramesAssumption, StreamAssumption DEF Positions

\* The loop goes on without doing anything.
LEMMA LoopMoves ==
    ASSUME loop \in LoopRecord, NEW at \in Places, Loop(at)
    PROVE  loop' \in LoopRecord /\ loop' = [at |-> at, frame |-> loop.frame,
              catchup |-> loop.catchup, frames |-> loop.frames, seq |-> loop.seq,
              rtp |-> loop.rtp, old |-> loop.old]
BY DEF Loop, LoopRecord

LEMMA LoopKeeps ==
    ASSUME loop \in LoopRecord, NEW at \in Places, Loop(at)
    PROVE  /\ loop'.at = at /\ loop'.frame = loop.frame /\ loop'.frames = loop.frames
           /\ loop'.seq = loop.seq /\ loop'.rtp = loop.rtp /\ loop'.old = loop.old
<1>1. loop' = [at |-> at, frame |-> loop.frame,
              catchup |-> loop.catchup, frames |-> loop.frames, seq |-> loop.seq,
              rtp |-> loop.rtp, old |-> loop.old]
  BY LoopMoves
<1> QED BY <1>1

\* What a step of the stream is to the loop.
Aside == UNCHANGED <<mode, loop, clock, rtpTime, sent, nonce, ring>>
Goes ==
    /\ \/ loop.at = "prewarm" /\ Loop("first")
       \/ Loop("ending")
       \/ loop.at = "ending" /\ Loop("returned")
    /\ UNCHANGED <<mode, clock, rtpTime, sent, nonce, ring>>

LEMMA Kinds ==
    ASSUME [Next]_vars
    PROVE  Aside \/ Goes \/ Take \/ Open \/ Map \/ AnnounceReset \/ SendFresh \/ SendAgain
<1>1. CASE UNCHANGED vars
  BY <1>1 DEF vars, stream, Aside
<1>2. CASE LoopStep
  BY <1>2 DEF LoopStep, Receive, Ready, Close, Return, stream, Aside, Goes
<1>3. CASE Stop
  BY <1>3 DEF Stop, Goes
<1>4. CASE AnnouncerStep \/ ControlStep
  BY <1>4 DEF AnnouncerStep, ControlStep, ReadPosition, Repeat, AnnouncerEnds, Serve, ControlEnds,
              Aside
<1>5. CASE VideoStarts \/ Cancel \/ Request \/ Tick
  BY <1>5 DEF VideoStarts, Cancel, Request, Tick, Aside
<1> QED BY <1>1, <1>2, <1>3, <1>4, <1>5 DEF Next

\* Where the loop goes when it goes on.
LEMMA GoesTo ==
    ASSUME Goes, LoopTypes
    PROVE  \E at \in {"first", "ending", "returned"} :
              Loop(at) /\ (at = "first" => loop.at = "prewarm")
BY DEF Goes

LEMMA LoopFields ==
    ASSUME LoopTypes
    PROVE  /\ loop \in LoopRecord /\ loop.at \in Places /\ loop.frame \in Frames
           /\ loop.frames \in Nat /\ loop.seq \in 0..(SeqModulus - 1) /\ loop.seq \in Int
           /\ loop.rtp \in Positions /\ loop.rtp \in Int /\ loop.old \in Seq(Packet)
           /\ loop.catchup \in Nat
BY Sizes DEF LoopTypes, LoopRecord, Positions

LEMMA ClockFields ==
    ASSUME LoopTypes
    PROVE  /\ clock \in ClockRecord /\ clock.anchor \in Int /\ clock.source \in Int
           /\ clock.lastRTP \in Int /\ clock.lastSource \in Int /\ clock.lastTime \in Int
           /\ clock.epoch \in Nat /\ clock.valid \in BOOLEAN
           /\ clock.lastRTP \in Positions /\ clock.anchor \in Positions
           /\ clock.source \in Positions
BY Sizes DEF LoopTypes, ClockRecord, Positions

-----------------------------------------------------------------------------
(* Sending.                                                                  *)
NewPacket ==
    [seq |-> loop.seq, rtp |-> loop.rtp, id |-> loop.frames + 1, fresh |-> TRUE,
     nonce |-> IF mode.chacha THEN nonce ELSE 0]
OldPacket == [Head(loop.old) EXCEPT !.fresh = FALSE]
WithNew(old, p) ==
    IF ~mode.fec THEN old ELSE Append(IF Len(old) = Depth THEN Tail(old) ELSE old, p)

LEMMA NewPacketIs ==
    ASSUME LoopTypes, nonce \in Nat
    PROVE  /\ NewPacket \in Packet /\ NewPacket.seq = loop.seq /\ NewPacket.rtp = loop.rtp
           /\ NewPacket.id = loop.frames + 1 /\ NewPacket.fresh
           /\ NewPacket.nonce = IF mode.chacha THEN nonce ELSE 0
<1>1. loop.seq \in 0..(SeqModulus - 1) /\ loop.rtp \in Positions /\ loop.frames + 1 \in Nat
  BY LoopFields
<1> QED BY <1>1 DEF NewPacket, Packet

LEMMA OldPacketIs ==
    ASSUME LoopTypes, Len(loop.old) = Depth
    PROVE  OldPacket \in Packet /\ ~OldPacket.fresh
<1>1. loop.old \in Seq(Packet) /\ loop.old # <<>>
  BY LoopFields, Sizes
<1>2. PICK h \in Packet : h = Head(loop.old)
  BY <1>1, HeadTailProperties
<1>3. OldPacket = [h EXCEPT !.fresh = FALSE]
  BY <1>2 DEF OldPacket
<1>4. [h EXCEPT !.fresh = FALSE] \in Packet
  BY DEF Packet
<1>5. ~[h EXCEPT !.fresh = FALSE].fresh
  BY DEF Packet
<1> QED BY <1>3, <1>4, <1>5

LEMMA WithNewIs ==
    ASSUME NEW old \in Seq(Packet), Len(old) <= Depth, NEW p \in Packet
    PROVE  WithNew(old, p) \in Seq(Packet) /\ Len(WithNew(old, p)) <= Depth
<1>1. CASE ~mode.fec
  BY <1>1 DEF WithNew
<1>2. CASE mode.fec /\ Len(old) = Depth
  <2>1. old # <<>>
    BY <1>2, Sizes
  <2>2. PICK t \in Seq(Packet) : t = Tail(old) /\ Len(t) = Len(old) - 1
    BY <2>1, HeadTailProperties
  <2>3. Append(t, p) \in Seq(Packet) /\ Len(Append(t, p)) = Len(t) + 1
    BY AppendProperties
  <2>4. WithNew(old, p) = Append(t, p)
    BY <1>2, <2>2 DEF WithNew
  <2> QED BY <1>2, <2>2, <2>3, <2>4, Sizes
<1>3. CASE mode.fec /\ Len(old) # Depth
  <2>1. Append(old, p) \in Seq(Packet) /\ Len(Append(old, p)) = Len(old) + 1
    BY AppendProperties
  <2>2. WithNew(old, p) = Append(old, p)
    BY <1>3 DEF WithNew
  <2> QED BY <1>3, <2>1, <2>2, Sizes, LenProperties
<1> QED BY <1>1, <1>2, <1>3

\* A new frame is sent, or its datagram fails.
SendFreshOk ==
    /\ sent' = Append(sent, NewPacket)
    /\ rtpTime' = Advanced(loop.rtp)
    /\ loop' = [at |-> "read", frame |-> NoFrame, catchup |-> loop.catchup,
                frames |-> loop.frames + 1, seq |-> (loop.seq + 1) % SeqModulus,
                rtp |-> loop.rtp, old |-> WithNew(loop.old, NewPacket)]
Failed == Loop("ending") /\ UNCHANGED <<sent, rtpTime>>

LEMMA SendsFresh ==
    ASSUME LoopTypes, SendFresh
    PROVE  /\ loop.at = "send" /\ UNCHANGED <<mode, clock>>
           /\ nonce' = IF mode.chacha THEN nonce + 1 ELSE nonce
           /\ ring' = [ring EXCEPT ![loop.seq % History] = NewPacket]
           /\ SendFreshOk \/ Failed
<1> DEFINE bare == [seq |-> loop.seq, rtp |-> loop.rtp, id |-> loop.frames + 1]
           p == [seq |-> bare.seq, rtp |-> bare.rtp, id |-> bare.id, fresh |-> TRUE,
                 nonce |-> IF mode.chacha THEN Nonce(bare) ELSE 0]
<1>1. p = NewPacket
  BY DEF NewPacket, Nonce
<1>2. p.rtp = loop.rtp
  OBVIOUS
<1>3. /\ loop.at = "send" /\ UNCHANGED <<mode, clock>>
      /\ nonce' = IF mode.chacha THEN nonce + 1 ELSE nonce
      /\ ring' = [ring EXCEPT ![loop.seq % History] = p]
      /\ \/ /\ open
            /\ sent' = Append(sent, p)
            /\ rtpTime' = Advanced(p.rtp)
            /\ loop' = [loop EXCEPT !.at = "read", !.frames = @ + 1,
                            !.seq = (@ + 1) % SeqModulus, !.frame = NoFrame,
                            !.old = IF ~mode.fec THEN @
                                    ELSE Append(IF Len(@) = Depth THEN Tail(@) ELSE @, p)]
         \/ Loop("ending") /\ UNCHANGED <<sent, rtpTime>>
  BY DEF SendFresh
<1> HIDE DEF p
<1>4. CASE Loop("ending") /\ UNCHANGED <<sent, rtpTime>>
  BY <1>1, <1>3, <1>4 DEF Failed
<1>5. CASE /\ sent' = Append(sent, p)
           /\ rtpTime' = Advanced(p.rtp)
           /\ loop' = [loop EXCEPT !.at = "read", !.frames = @ + 1,
                            !.seq = (@ + 1) % SeqModulus, !.frame = NoFrame,
                            !.old = IF ~mode.fec THEN @
                                    ELSE Append(IF Len(@) = Depth THEN Tail(@) ELSE @, p)]
  <2>1. loop \in LoopRecord
    BY LoopFields
  <2>2. PICK old : old = WithNew(loop.old, NewPacket)
    OBVIOUS
  <2>3. old = IF ~mode.fec THEN loop.old
              ELSE Append(IF Len(loop.old) = Depth THEN Tail(loop.old) ELSE loop.old, p)
    BY <1>1, <2>2 DEF WithNew
  <2>4. loop' = [loop EXCEPT !.at = "read", !.frames = loop.frames + 1,
                      !.seq = (loop.seq + 1) % SeqModulus, !.frame = NoFrame, !.old = old]
    BY <1>5, <2>3
  <2>5. loop' = [at |-> "read", frame |-> NoFrame, catchup |-> loop.catchup,
                 frames |-> loop.frames + 1, seq |-> (loop.seq + 1) % SeqModulus,
                 rtp |-> loop.rtp, old |-> old]
    BY <2>1, <2>4 DEF LoopRecord
  <2>6. SendFreshOk
    BY <1>1, <1>2, <1>5, <2>2, <2>5 DEF SendFreshOk
  <2> QED BY <1>1, <1>3, <2>6
<1> QED BY <1>3, <1>4, <1>5

SendAgainOk == Loop("send") /\ sent' = Append(sent, OldPacket) /\ rtpTime' = Advanced(OldPacket.rtp)

LEMMA SendsAgain ==
    ASSUME SendAgain
    PROVE  /\ loop.at = "resend" /\ UNCHANGED <<mode, clock, nonce, ring>>
           /\ SendAgainOk \/ Failed
BY DEF SendAgain, OldPacket, SendAgainOk, Failed

-----------------------------------------------------------------------------
(* Mapping.                                                                  *)
MappedRTP(f) ==
    IF SourceReset(f) THEN Plus(clock.lastRTP, FrameSamples)
    ELSE Plus(clock.anchor, f.source - clock.source)

LEMMA MappedIs ==
    ASSUME LoopTypes, NEW f \in Frames
    PROVE  /\ MappedRTP(f) \in Positions /\ Mapped(f) \in ClockRecord
           /\ Mapped(f) =
              [valid |-> clock.valid,
               anchor |-> IF SourceReset(f) THEN MappedRTP(f) ELSE clock.anchor,
               source |-> IF SourceReset(f) THEN f.source ELSE clock.source,
               lastRTP |-> MappedRTP(f), lastSource |-> f.source, lastTime |-> f.time,
               epoch |-> IF Resets(f) THEN clock.epoch + 1 ELSE clock.epoch]
<1>1. f.source \in Positions /\ f.source \in Int /\ f.time \in Int
  BY Sizes DEF Frames, Positions
<1>2. /\ clock \in ClockRecord /\ clock.anchor \in Int /\ clock.source \in Int
      /\ clock.lastRTP \in Int /\ clock.epoch \in Nat /\ clock.valid \in BOOLEAN
      /\ clock.anchor \in Positions /\ clock.source \in Positions
  BY ClockFields
<1>3. MappedRTP(f) \in Positions
  <2>1. Plus(clock.lastRTP, FrameSamples) \in Positions
    BY <1>2, PlusIs, Sizes
  <2>2. f.source - clock.source \in Int
    BY <1>1, <1>2
  <2>3. Plus(clock.anchor, f.source - clock.source) \in Positions
    BY <1>2, <2>2, PlusIs
  <2> QED BY <2>1, <2>3 DEF MappedRTP
<1>4. PICK rtp \in Positions : rtp = MappedRTP(f)
  BY <1>3
<1>5. Mapped(f) = [clock EXCEPT !.anchor = IF SourceReset(f) THEN rtp ELSE @,
                  !.source = IF SourceReset(f) THEN f.source ELSE @,
                  !.lastRTP = rtp, !.lastSource = f.source, !.lastTime = f.time,
                  !.epoch = IF Resets(f) THEN @ + 1 ELSE @]
  BY <1>4 DEF Mapped, MappedRTP
<1> DEFINE m == [valid |-> clock.valid,
               anchor |-> IF SourceReset(f) THEN rtp ELSE clock.anchor,
               source |-> IF SourceReset(f) THEN f.source ELSE clock.source,
               lastRTP |-> rtp, lastSource |-> f.source, lastTime |-> f.time,
               epoch |-> IF Resets(f) THEN clock.epoch + 1 ELSE clock.epoch]
<1>6. Mapped(f) = m
  BY <1>2, <1>5 DEF ClockRecord
<1>7. m \in ClockRecord
  BY <1>1, <1>2, <1>4 DEF ClockRecord
<1> QED BY <1>3, <1>4, <1>6, <1>7

Resend == mode.fec /\ Len(loop.old) = Depth
Sends == IF Resend THEN "resend" ELSE "send"
MapStamped ==
    /\ mode.stamped /\ announceMu = "free"
    /\ clock' = Mapped(loop.frame)
    /\ announceMu' = IF Resets(loop.frame) THEN "loop" ELSE "free"
    /\ loop'.rtp = MappedRTP(loop.frame)
    /\ loop'.at = IF Resets(loop.frame) THEN "reset" ELSE Sends
MapBare ==
    /\ ~mode.stamped /\ UNCHANGED <<clock, announceMu>>
    /\ loop'.rtp = Plus(loop.rtp, FrameSamples)
    /\ loop'.at = Sends

LEMMA Maps ==
    ASSUME LoopTypes, Map
    PROVE  /\ loop.at = "map"
           /\ UNCHANGED <<mode, rtpTime, sent, nonce, ring, announcer, announced>>
           /\ MapStamped \/ MapBare
           /\ loop' = [loop EXCEPT !.rtp = loop'.rtp, !.at = loop'.at]
<1>1. loop.at = "map" /\ UNCHANGED <<mode, rtpTime, sent, nonce, ring, announcer, announced>>
  BY DEF Map
<1>2. loop \in LoopRecord /\ loop.frame \in Frames
  BY LoopFields
<1>3. CASE mode.stamped
  <2>1. /\ announceMu = "free" /\ clock' = Mapped(loop.frame)
        /\ announceMu' = IF Resets(loop.frame) THEN "loop" ELSE "free"
        /\ loop' = [loop EXCEPT !.rtp = Mapped(loop.frame).lastRTP,
                        !.at = IF Resets(loop.frame) THEN "reset"
                               ELSE IF mode.fec /\ Len(loop.old) = Depth THEN "resend"
                               ELSE "send"]
    BY <1>3 DEF Map
  <2>2. Mapped(loop.frame).lastRTP = MappedRTP(loop.frame)
    <3>1. PICK f \in Frames : f = loop.frame
      BY <1>2
    <3>2. Mapped(f) =
              [valid |-> clock.valid,
               anchor |-> IF SourceReset(f) THEN MappedRTP(f) ELSE clock.anchor,
               source |-> IF SourceReset(f) THEN f.source ELSE clock.source,
               lastRTP |-> MappedRTP(f), lastSource |-> f.source, lastTime |-> f.time,
               epoch |-> IF Resets(f) THEN clock.epoch + 1 ELSE clock.epoch]
      BY MappedIs
    <3>3. Mapped(f).lastRTP = MappedRTP(f)
      BY <3>2
    <3> QED BY <3>1, <3>3
  <2>3. PICK at : at = IF Resets(loop.frame) THEN "reset" ELSE Sends
    OBVIOUS
  <2>4. loop' = [loop EXCEPT !.rtp = MappedRTP(loop.frame), !.at = at]
    BY <2>1, <2>2, <2>3 DEF Sends, Resend
  <2>5. loop'.rtp = MappedRTP(loop.frame) /\ loop'.at = at
    BY <1>2, <2>4 DEF LoopRecord
  <2> QED BY <1>1, <1>3, <2>1, <2>3, <2>4, <2>5 DEF MapStamped
<1>4. CASE ~mode.stamped
  <2>1. /\ UNCHANGED <<clock, announceMu>>
        /\ loop' = [loop EXCEPT !.rtp = Plus(loop.rtp, FrameSamples), !.at = Sends]
    BY <1>4 DEF Map, Sends, Resend
  <2>2. loop'.rtp = Plus(loop.rtp, FrameSamples) /\ loop'.at = Sends
    BY <1>2, <2>1 DEF LoopRecord
  <2> QED BY <1>1, <1>4, <2>1, <2>2 DEF MapBare
<1> QED BY <1>3, <1>4

LEMMA MapsTo ==
    ASSUME LoopTypes, Map
    PROVE  /\ loop'.at \in {"reset", "resend", "send"} /\ loop'.rtp \in Positions
           /\ loop'.at = "resend" => Resend
           /\ loop'.frame = loop.frame /\ loop'.frames = loop.frames
           /\ loop'.seq = loop.seq /\ loop'.old = loop.old
           /\ loop' \in LoopRecord /\ clock' \in ClockRecord
<1>1. /\ MapStamped \/ MapBare
      /\ loop' = [loop EXCEPT !.rtp = loop'.rtp, !.at = loop'.at]
  BY Maps
<1>2. loop \in LoopRecord /\ loop.frame \in Frames /\ loop.rtp \in Int
  BY LoopFields
<1>3. loop'.at \in {"reset", "resend", "send"} /\ (loop'.at = "resend" => Resend)
  BY <1>1 DEF MapStamped, MapBare, Sends
<1>4. loop'.rtp \in Positions
  <2>1. MappedRTP(loop.frame) \in Positions
    BY <1>2, MappedIs
  <2>2. Plus(loop.rtp, FrameSamples) \in Positions
    BY <1>2, PlusIs, Sizes
  <2> QED BY <1>1, <2>1, <2>2 DEF MapStamped, MapBare
<1>5. clock' \in ClockRecord
  <2>1. Mapped(loop.frame) \in ClockRecord
    BY <1>2, MappedIs
  <2> QED BY <1>1, <2>1, ClockFields DEF MapStamped, MapBare
<1>6. PICK at \in Places, rtp \in Positions : at = loop'.at /\ rtp = loop'.rtp
  BY <1>3, <1>4 DEF Places
<1>7. loop' = [loop EXCEPT !.rtp = rtp, !.at = at]
  BY <1>1, <1>6
<1>8. /\ loop'.frame = loop.frame /\ loop'.frames = loop.frames
      /\ loop'.seq = loop.seq /\ loop'.old = loop.old /\ loop' \in LoopRecord
  BY <1>2, <1>7 DEF LoopRecord
<1> QED BY <1>3, <1>4, <1>5, <1>8

-----------------------------------------------------------------------------
(* Taking a frame, and the first mapping.                                    *)
Took(f) == f = NoFrame \/ FrameGood(f)
Kept ==
    /\ loop'.frames = loop.frames /\ loop'.seq = loop.seq /\ loop'.rtp = loop.rtp
    /\ loop'.old = loop.old

LEMMA NoFrameIs == NoFrame \in Frames
<1>1. <<>> \in Seq(Sample) /\ 0 \in Positions
  BY Sizes DEF Positions
<1> QED BY <1>1 DEF NoFrame, Frames

TakeMoves ==
    \/ loop.at = "prewarm" /\ loop'.at = "prewarm"
    \/ loop.at = "first" /\ loop'.at \in {"first", "open", "ending"}
    \/ loop.at = "read" /\ loop'.at \in {"read", "map"}

LEMMA Takes ==
    ASSUME ReaderInv, LoopTypes, Take
    PROVE  /\ UNCHANGED <<source, mode, clock, sent, rtpTime, nonce, ring, announceMu, announcer,
                          announced>>
           /\ reader' = reader \/ (FrameReady /\ reader' = Rest)
           /\ loop' \in LoopRecord /\ Kept /\ TakeMoves
           /\ loop'.frame = loop.frame \/ Took(loop'.frame)
<1> DEFINE f == IF mode.stamped THEN Frame ELSE NoFrame
           late == loop.catchup + 1
<1>1. /\ UNCHANGED <<source, mode, clock, sent, rtpTime, nonce, ring, announceMu, announcer,
                     announced>>
      /\ reader' = IF mode.stamped THEN Rest ELSE reader
      /\ mode.stamped => FrameReady
      /\ \/ /\ loop.at = "prewarm" /\ ~video /\ Loop("prewarm")
         \/ /\ loop.at \in {"first", "read"}
            /\ loop' = [loop EXCEPT !.frame = f, !.catchup = 0,
                                    !.at = IF loop.at = "first" THEN "open" ELSE "map"]
         \/ /\ loop.at = "first" /\ mode.stamped
            /\ loop' = [loop EXCEPT !.catchup = late,
                                    !.at = IF late >= MaxCatchup THEN "ending" ELSE "first"]
         \/ /\ loop.at = "read" /\ mode.stamped /\ Loop("read")
  BY DEF Take
<1>2. loop \in LoopRecord /\ late \in Nat
  BY LoopFields
<1>3. f \in Frames /\ Took(f)
  BY <1>1, FrameRight, NoFrameIs DEF Took
<1> HIDE DEF f, late
<1>4. CASE loop.at \in {"prewarm", "read"} /\ Loop(loop.at)
  <2>1. loop.at \in Places
    BY <1>4 DEF Places
  <2>2. loop' \in LoopRecord
    BY <1>2, <1>4, <2>1, LoopMoves
  <2>3. /\ loop'.at = loop.at /\ loop'.frame = loop.frame /\ loop'.frames = loop.frames
        /\ loop'.seq = loop.seq /\ loop'.rtp = loop.rtp /\ loop'.old = loop.old
    BY <1>2, <1>4, <2>1, LoopKeeps
  <2> QED BY <1>1, <1>4, <2>2, <2>3 DEF Kept, TakeMoves
<1>5. CASE /\ loop.at \in {"first", "read"}
           /\ loop' = [loop EXCEPT !.frame = f, !.catchup = 0,
                                   !.at = IF loop.at = "first" THEN "open" ELSE "map"]
  <2>1. PICK at \in Places : at = IF loop.at = "first" THEN "open" ELSE "map"
    BY DEF Places
  <2>2. loop' = [at |-> at, frame |-> f, catchup |-> 0, frames |-> loop.frames,
                 seq |-> loop.seq, rtp |-> loop.rtp, old |-> loop.old]
    BY <1>2, <1>5, <2>1 DEF LoopRecord
  <2>3. loop' \in LoopRecord
    BY <1>2, <1>3, <2>2 DEF LoopRecord
  <2>4. Kept /\ loop'.frame = f /\ loop'.at = at
    BY <2>2 DEF Kept
  <2>5. TakeMoves
    BY <1>5, <2>1, <2>4 DEF TakeMoves
  <2> QED BY <1>1, <1>3, <2>3, <2>4, <2>5
<1>6. CASE /\ loop.at = "first"
           /\ loop' = [loop EXCEPT !.catchup = late,
                                   !.at = IF late >= MaxCatchup THEN "ending" ELSE "first"]
  <2>1. PICK at \in {"ending", "first"} : at = IF late >= MaxCatchup THEN "ending" ELSE "first"
    OBVIOUS
  <2>2. loop' = [at |-> at, frame |-> loop.frame, catchup |-> late, frames |-> loop.frames,
                 seq |-> loop.seq, rtp |-> loop.rtp, old |-> loop.old]
    BY <1>2, <1>6, <2>1 DEF LoopRecord
  <2>3. loop' \in LoopRecord
    BY <1>2, <2>2 DEF LoopRecord, Places
  <2>4. Kept /\ loop'.frame = loop.frame /\ loop'.at = at
    BY <2>2 DEF Kept
  <2>5. TakeMoves
    BY <1>6, <2>1, <2>4 DEF TakeMoves
  <2> QED BY <1>1, <2>3, <2>4, <2>5
<1> QED BY <1>1, <1>4, <1>5, <1>6

OpensAt(epoch) ==
    /\ rtpTime' = epoch /\ clock' = FirstMapped(loop.frame, epoch)
    /\ \/ /\ loop' = [loop EXCEPT !.at = "send", !.rtp = epoch]
          /\ announced' = Announcement(epoch, clock.epoch)
       \/ Loop("ending") /\ UNCHANGED <<announced, announcer>>

LEMMA Opens ==
    ASSUME LoopTypes, Open
    PROVE  /\ loop.at = "open" /\ UNCHANGED <<mode, sent, nonce, ring, announceMu>>
           /\ \E epoch \in Positions : OpensAt(epoch)
           /\ announcer' = announcer \/ announcer' = [announcer EXCEPT !.at = "wait"]
<1>1. \A epoch : FirstMapped(loop.frame, epoch).epoch = clock.epoch
  BY DEF FirstMapped
<1>2. Epochs \subseteq Positions
  BY Sizes
<1>3. PICK epoch \in Epochs :
        LET c == FirstMapped(loop.frame, epoch) IN
          /\ rtpTime' = epoch
          /\ clock' = c
          /\ \/ /\ open
                /\ announced' = Announcement(epoch, c.epoch)
                /\ loop' = [loop EXCEPT !.at = "send", !.rtp = epoch]
                /\ announcer' = [announcer EXCEPT !.at = "wait"]
                /\ control' = [control EXCEPT !.at = "wait"]
             \/ /\ Loop("ending")
                /\ UNCHANGED <<announced, announcer, control>>
  BY DEF Open
<1>4. OpensAt(epoch)
  BY <1>1, <1>3 DEF OpensAt
<1>5. announcer' = announcer \/ announcer' = [announcer EXCEPT !.at = "wait"]
  BY <1>3
<1> QED BY <1>2, <1>4, <1>5 DEF Open

LEMMA FirstMappedIs ==
    ASSUME LoopTypes, NEW f \in Frames, NEW epoch \in Positions
    PROVE  FirstMapped(f, epoch) \in ClockRecord
BY ClockFields DEF FirstMapped, ClockRecord, Frames

LEMMA OpensLoop ==
    ASSUME LoopTypes, NEW epoch \in Positions, OpensAt(epoch)
    PROVE  /\ loop' \in LoopRecord /\ loop'.frame = loop.frame /\ loop'.frames = loop.frames
           /\ loop'.seq = loop.seq /\ loop'.old = loop.old
           /\ (loop'.at = "send" /\ loop'.rtp = epoch) \/ loop'.at = "ending"
<1>1. loop \in LoopRecord /\ "ending" \in Places /\ "send" \in Places
  BY LoopFields DEF Places
<1>2. CASE Loop("ending")
  <2>1. /\ loop'.at = "ending" /\ loop'.frame = loop.frame /\ loop'.frames = loop.frames
        /\ loop'.seq = loop.seq /\ loop'.rtp = loop.rtp /\ loop'.old = loop.old
    BY <1>1, <1>2, LoopKeeps
  <2>2. loop' \in LoopRecord
    BY <1>1, <1>2, LoopMoves
  <2> QED BY <2>1, <2>2
<1>3. CASE loop' = [loop EXCEPT !.at = "send", !.rtp = epoch]
  BY <1>1, <1>3 DEF LoopRecord
<1> QED BY <1>2, <1>3 DEF OpensAt

-----------------------------------------------------------------------------
(* Types.                                                                    *)
LEMMA AdvancedIs ==
    ASSUME LoopTypes, NEW rtp \in Positions
    PROVE  Advanced(rtp) \in Positions
BY DEF Advanced, LoopTypes

LEMMA FailedIs ==
    ASSUME LoopTypes, Failed
    PROVE  /\ loop' \in LoopRecord /\ loop'.at = "ending" /\ Kept
           /\ loop'.frame = loop.frame /\ sent' = sent /\ rtpTime' = rtpTime
<1>1. loop \in LoopRecord /\ "ending" \in Places /\ Loop("ending")
  BY LoopFields DEF Places, Failed
<1>2. loop' \in LoopRecord
  BY <1>1, LoopMoves
<1>3. /\ loop'.at = "ending" /\ loop'.frame = loop.frame /\ loop'.frames = loop.frames
      /\ loop'.seq = loop.seq /\ loop'.rtp = loop.rtp /\ loop'.old = loop.old
  BY <1>1, LoopKeeps
<1> QED BY <1>2, <1>3 DEF Failed, Kept

LEMMA SendFreshIs ==
    ASSUME LoopTypes, nonce \in Nat, SendFreshOk
    PROVE  /\ loop' \in LoopRecord /\ loop'.at = "read" /\ loop'.frames = loop.frames + 1
           /\ loop'.seq = (loop.seq + 1) % SeqModulus /\ loop'.rtp = loop.rtp
           /\ loop'.frame = NoFrame /\ Len(loop'.old) <= Depth
<1>1. PICK old \in Seq(Packet) : old = WithNew(loop.old, NewPacket) /\ Len(old) <= Depth
  <2>1. loop.old \in Seq(Packet) /\ Len(loop.old) <= Depth
    BY LoopFields DEF LoopTypes
  <2>2. NewPacket \in Packet
    BY NewPacketIs
  <2> QED BY <2>1, <2>2, WithNewIs
<1>2. loop' = [at |-> "read", frame |-> NoFrame, catchup |-> loop.catchup,
                frames |-> loop.frames + 1, seq |-> (loop.seq + 1) % SeqModulus,
                rtp |-> loop.rtp, old |-> old]
  BY <1>1 DEF SendFreshOk
<1>3. /\ loop.catchup \in Nat /\ loop.frames + 1 \in Nat /\ loop.rtp \in Positions
      /\ (loop.seq + 1) % SeqModulus \in 0..(SeqModulus - 1)
  <2>1. loop.seq + 1 \in Int
    BY LoopFields
  <2>2. (loop.seq + 1) % SeqModulus \in 0..(SeqModulus - 1)
    BY <2>1, Sizes
  <2> QED BY <2>2, LoopFields
<1>4. NoFrame \in Frames /\ "read" \in Places
  BY NoFrameIs DEF Places
<1>5. loop' \in LoopRecord
  BY <1>1, <1>2, <1>3, <1>4 DEF LoopRecord
<1>6. /\ loop'.at = "read" /\ loop'.frames = loop.frames + 1
      /\ loop'.seq = (loop.seq + 1) % SeqModulus /\ loop'.rtp = loop.rtp
      /\ loop'.frame = NoFrame /\ loop'.old = old
  BY <1>2
<1> QED BY <1>1, <1>5, <1>6

LEMMA SendAgainIs ==
    ASSUME LoopTypes, SendAgainOk
    PROVE  /\ loop' \in LoopRecord /\ loop'.at = "send" /\ Kept /\ loop'.frame = loop.frame
<1>1. loop \in LoopRecord /\ "send" \in Places /\ Loop("send")
  BY LoopFields DEF Places, SendAgainOk
<1>2. loop' \in LoopRecord
  BY <1>1, LoopMoves
<1>3. /\ loop'.at = "send" /\ loop'.frame = loop.frame /\ loop'.frames = loop.frames
      /\ loop'.seq = loop.seq /\ loop'.rtp = loop.rtp /\ loop'.old = loop.old
  BY <1>1, LoopKeeps
<1> QED BY <1>2, <1>3 DEF Kept

LEMMA GoesIs ==
    ASSUME LoopTypes, Goes
    PROVE  /\ loop' \in LoopRecord /\ Kept /\ loop'.frame = loop.frame
           /\ \/ loop.at = "prewarm" /\ loop'.at = "first"
              \/ loop'.at \in {"ending", "returned"}
<1>1. PICK at \in {"first", "ending", "returned"} :
        Loop(at) /\ (at = "first" => loop.at = "prewarm")
  BY GoesTo
<1>2. loop \in LoopRecord /\ at \in Places
  BY <1>1, LoopFields DEF Places
<1>3. loop' \in LoopRecord
  BY <1>1, <1>2, LoopMoves
<1>4. /\ loop'.at = at /\ loop'.frame = loop.frame /\ loop'.frames = loop.frames
      /\ loop'.seq = loop.seq /\ loop'.rtp = loop.rtp /\ loop'.old = loop.old
  BY <1>1, <1>2, LoopKeeps
<1> QED BY <1>1, <1>3, <1>4 DEF Kept

FrameFine(l) == l.frame # NoFrame => FrameGood(l.frame)

LEMMA LoopTypesKept ==
    ASSUME ReaderInv, LoopTypes, nonce \in Nat, Nonces, [Next]_vars
    PROVE  LoopTypes'
<1>1. /\ mode \in Modes /\ loop \in LoopRecord /\ Len(loop.old) <= Depth
      /\ clock \in ClockRecord /\ rtpTime \in Positions /\ FrameFine(loop)
  BY DEF LoopTypes, FrameExact, FrameFine, FrameGood
<1> SUFFICES /\ mode' \in Modes /\ loop' \in LoopRecord /\ Len(loop'.old) <= Depth
             /\ clock' \in ClockRecord /\ rtpTime' \in Positions /\ FrameFine(loop')
  BY DEF LoopTypes, FrameExact, FrameFine, FrameGood
<1>2. CASE Aside
  BY <1>1, <1>2 DEF Aside
<1>3. CASE Goes
  <2>1. UNCHANGED <<mode, clock, rtpTime>>
    BY <1>3 DEF Goes
  <2> QED BY <1>1, <1>3, <2>1, GoesIs DEF Kept, FrameFine
<1>4. CASE Take
  <2>1. UNCHANGED <<mode, clock, rtpTime>>
    BY <1>4, Takes
  <2>2. loop' \in LoopRecord /\ Kept
    BY <1>4, Takes
  <2>3. loop'.frame = loop.frame \/ Took(loop'.frame)
    BY <1>4, Takes
  <2> QED BY <1>1, <2>1, <2>2, <2>3 DEF Kept, FrameFine, Took
<1>5. CASE Open
  <2>1. mode' = mode
    BY <1>5, Opens
  <2>2. PICK epoch \in Positions : OpensAt(epoch)
    BY <1>5, Opens
  <2>3. clock' \in ClockRecord /\ rtpTime' \in Positions
    BY <2>2, FirstMappedIs, LoopFields DEF OpensAt
  <2>4. loop' \in LoopRecord /\ loop'.frame = loop.frame /\ loop'.old = loop.old
    BY <2>2, OpensLoop
  <2> QED BY <1>1, <2>1, <2>3, <2>4 DEF FrameFine
<1>6. CASE Map
  <2>1. mode' = mode /\ rtpTime' = rtpTime
    BY <1>6, Maps
  <2>2. /\ loop'.frame = loop.frame /\ loop'.old = loop.old
        /\ loop' \in LoopRecord /\ clock' \in ClockRecord
    BY <1>6, MapsTo
  <2> QED BY <1>1, <2>1, <2>2 DEF FrameFine
<1>7. CASE AnnounceReset
  <2>1. UNCHANGED <<mode, clock, rtpTime>>
    BY <1>7 DEF AnnounceReset
  <2>2. PICK at \in Places : Loop(at)
    <3>1. "resend" \in Places /\ "send" \in Places /\ "ending" \in Places
      BY DEF Places
    <3> QED BY <1>7, <3>1 DEF AnnounceReset
  <2>3. loop' \in LoopRecord
    BY <1>1, <2>2, LoopMoves
  <2>4. /\ loop'.at = at /\ loop'.frame = loop.frame /\ loop'.frames = loop.frames
        /\ loop'.seq = loop.seq /\ loop'.rtp = loop.rtp /\ loop'.old = loop.old
    BY <1>1, <2>2, LoopKeeps
  <2> QED BY <1>1, <2>1, <2>3, <2>4 DEF FrameFine
<1>8. CASE SendFresh
  <2>1. UNCHANGED <<mode, clock>> /\ (SendFreshOk \/ Failed)
    BY <1>8, SendsFresh
  <2>2. CASE SendFreshOk
    <3>1. loop' \in LoopRecord /\ loop'.frame = NoFrame /\ Len(loop'.old) <= Depth
      BY <2>2, SendFreshIs
    <3>2. rtpTime' \in Positions
      BY <2>2, AdvancedIs, LoopFields DEF SendFreshOk
    <3> QED BY <1>1, <2>1, <3>1, <3>2 DEF FrameFine
  <2>3. CASE Failed
    BY <1>1, <2>1, <2>3, FailedIs DEF Kept, FrameFine
  <2> QED BY <2>1, <2>2, <2>3
<1>9. CASE SendAgain
  <2>1. UNCHANGED <<mode, clock>> /\ loop.at = "resend"
    BY <1>9, SendsAgain
  <2>2. SendAgainOk \/ Failed
    BY <1>9, SendsAgain
  <2>3. CASE SendAgainOk
    <3>1. OldPacket \in Packet
      BY <2>1, OldPacketIs DEF Nonces
    <3>2. OldPacket.rtp \in Positions
      BY <3>1 DEF Packet
    <3>3. rtpTime' \in Positions
      BY <2>3, <3>2, AdvancedIs DEF SendAgainOk
    <3> QED BY <1>1, <2>1, <2>3, <3>3, SendAgainIs DEF Kept, FrameFine
  <2>4. CASE Failed
    BY <1>1, <2>1, <2>4, FailedIs DEF Kept, FrameFine
  <2> QED BY <2>2, <2>3, <2>4
<1> QED BY <1>2, <1>3, <1>4, <1>5, <1>6, <1>7, <1>8, <1>9, Kinds

LEMMA ResetIs ==
    ASSUME LoopTypes, AnnounceReset
    PROVE  /\ loop.at = "reset" /\ UNCHANGED <<mode, clock, sent, rtpTime, nonce, ring, announcer>>
           /\ announceMu' = "free" /\ Kept
           /\ \/ loop'.at = Sends /\ announced' = Announcement(clock.lastRTP, clock.epoch)
              \/ loop'.at = "ending" /\ announced' = announced
<1>1. /\ loop.at = "reset" /\ UNCHANGED <<mode, clock, sent, rtpTime, nonce, ring, announcer>>
      /\ announceMu' = "free"
      /\ \/ Loop(Sends) /\ announced' = Announcement(clock.lastRTP, clock.epoch)
         \/ Loop("ending") /\ announced' = announced
  BY DEF AnnounceReset, Sends, Resend
<1>2. PICK at \in Places : /\ Loop(at)
                           /\ \/ at = Sends /\ announced' = Announcement(clock.lastRTP, clock.epoch)
                              \/ at = "ending" /\ announced' = announced
  <2>1. "resend" \in Places /\ "send" \in Places /\ "ending" \in Places /\ Sends \in Places
    BY DEF Places, Sends
  <2> QED BY <1>1, <2>1
<1>3. loop \in LoopRecord
  BY LoopFields
<1>4. /\ loop'.at = at /\ loop'.frame = loop.frame /\ loop'.frames = loop.frames
      /\ loop'.seq = loop.seq /\ loop'.rtp = loop.rtp /\ loop'.old = loop.old
  BY <1>2, <1>3, LoopKeeps
<1> QED BY <1>1, <1>2, <1>4 DEF Kept

LEMMA ReaderKept ==
    ASSUME ReaderInv, LoopTypes, [Next]_vars
    PROVE  ReaderInv'
<1>1. CASE Receive
  BY <1>1, ReaderReads DEF Receive
<1>2. CASE Take
  <2>1. source' = source
    BY <1>2, Takes
  <2>2. reader' = reader \/ (FrameReady /\ reader' = Rest)
    BY <1>2, Takes
  <2>3. CASE reader' = reader
    BY <2>1, <2>3 DEF ReaderInv, ReaderTypes, Held, Short
  <2>4. CASE FrameReady /\ reader' = Rest
    BY <2>1, <2>4, ReaderTakes
  <2> QED BY <2>2, <2>3, <2>4
<1>3. CASE UNCHANGED <<source, reader>>
  BY <1>3 DEF ReaderInv, ReaderTypes, Held, Short
<1>4. CASE Ready \/ Open \/ Map \/ AnnounceReset \/ SendFresh \/ SendAgain \/ Close \/ Return \/ Stop
  BY <1>3, <1>4 DEF Ready, Open, Map, AnnounceReset, SendFresh, SendAgain, Close, Return, Stop
<1>5. CASE AnnouncerStep \/ ControlStep
  BY <1>3, <1>5 DEF AnnouncerStep, ControlStep, ReadPosition, Repeat, AnnouncerEnds, Serve,
                    ControlEnds
<1>6. CASE VideoStarts \/ Cancel \/ Request \/ Tick \/ UNCHANGED vars
  BY <1>3, <1>6 DEF VideoStarts, Cancel, Request, Tick, vars
<1> QED BY <1>1, <1>2, <1>4, <1>5, <1>6 DEF Next, LoopStep

-----------------------------------------------------------------------------
(* Numbers.                                                                  *)
LEMMA SentGrows ==
    ASSUME sent \in Seq(Packet), NEW p \in Packet, sent' = Append(sent, p)
    PROVE  /\ sent' \in Seq(Packet) /\ Len(sent) \in Nat /\ Len(sent') = Len(sent) + 1
           /\ DOMAIN sent = 1..Len(sent) /\ DOMAIN sent' = 1..(Len(sent) + 1)
           /\ \A i \in 1..Len(sent) : sent'[i] = sent[i] /\ sent[i] \in Packet
           /\ sent'[Len(sent) + 1] = p
<1>1. /\ Append(sent, p) \in Seq(Packet) /\ Len(Append(sent, p)) = Len(sent) + 1
      /\ \A i \in 1..Len(sent) : Append(sent, p)[i] = sent[i]
      /\ Append(sent, p)[Len(sent) + 1] = p
  BY AppendProperties
<1>2. Len(sent) \in Nat /\ DOMAIN sent = 1..Len(sent) /\ \A i \in 1..Len(sent) : sent[i] \in Packet
  BY LenProperties, ElementOfSeq
<1>3. Len(sent') = Len(sent) + 1 /\ sent' \in Seq(Packet)
  BY <1>1
<1>4. DOMAIN sent' = 1..Len(sent')
  BY <1>3, LenProperties
<1> QED BY <1>1, <1>2, <1>3, <1>4

\* A new frame's packet becomes the newest, an old one's does not.
LEMMA NewestFresh ==
    ASSUME sent \in Seq(Packet), NEW p \in Packet, p.fresh, sent' = Append(sent, p),
           NEW i \in DOMAIN sent', Newest(i)'
    PROVE  i = Len(sent) + 1 /\ sent'[i] = p
<1>1. /\ Len(sent) \in Nat /\ Len(sent') = Len(sent) + 1 /\ DOMAIN sent' = 1..(Len(sent) + 1)
      /\ sent'[Len(sent) + 1] = p
  BY SentGrows
<1>2. \A k \in (i + 1)..Len(sent') : ~sent'[k].fresh
  BY DEF Newest
<1>3. i \in 1..(Len(sent) + 1)
  BY <1>1
<1>4. ~(i <= Len(sent))
  <2>1. SUFFICES ASSUME i <= Len(sent) PROVE FALSE
    OBVIOUS
  <2>2. Len(sent) + 1 \in (i + 1)..Len(sent')
    BY <1>1, <1>3, <2>1
  <2> QED BY <1>1, <1>2, <2>2
<1> QED BY <1>1, <1>3, <1>4

LEMMA NewestAgain ==
    ASSUME sent \in Seq(Packet), NEW p \in Packet, ~p.fresh, sent' = Append(sent, p),
           NEW i \in DOMAIN sent', Newest(i)'
    PROVE  i \in DOMAIN sent /\ Newest(i) /\ sent'[i] = sent[i]
<1>1. /\ Len(sent) \in Nat /\ Len(sent') = Len(sent) + 1 /\ DOMAIN sent' = 1..(Len(sent) + 1)
      /\ sent'[Len(sent) + 1] = p /\ DOMAIN sent = 1..Len(sent)
  BY SentGrows
<1>5. \A k \in 1..Len(sent) : sent'[k] = sent[k]
  BY SentGrows
<1>2. sent'[i].fresh /\ \A k \in (i + 1)..Len(sent') : ~sent'[k].fresh
  BY DEF Newest
<1>3. i \in 1..Len(sent)
  BY <1>1, <1>2
<1>4. \A k \in (i + 1)..Len(sent) : ~sent[k].fresh
  <2>1. TAKE k \in (i + 1)..Len(sent)
  <2>2. k \in (i + 1)..Len(sent') /\ k \in 1..Len(sent)
    BY <1>1, <1>3
  <2> QED BY <1>2, <1>5, <2>2
<1> QED BY <1>1, <1>2, <1>3, <1>4, <1>5 DEF Newest

LEMMA SeqNext ==
    ASSUME NEW n \in Nat, NEW s \in Int, s = (n + 1) % SeqModulus
    PROVE  (s + 1) % SeqModulus = ((n + 1) + 1) % SeqModulus
<1>1. SeqModulus \in Nat \ {0}
  BY Sizes
<1>2. PICK a \in Int, b \in Int : a = n + 1 /\ b = 1
  OBVIOUS
<1>3. ((a % SeqModulus) + b) % SeqModulus = (a + b) % SeqModulus
  BY <1>1, ModAdd
<1> QED BY <1>2, <1>3

LEMMA NumbersSame ==
    ASSUME Numbers, sent' = sent, Kept, ~Ended' => ~Ended
    PROVE  Numbers'
BY DEF Numbers, Newest, Kept

LEMMA NumbersKept ==
    ASSUME ReaderInv, LoopTypes, Numbers, Nonces, [Next]_vars
    PROVE  Numbers'
<1>0. nonce \in Nat
  BY DEF Nonces
<1>1. CASE Aside
  BY <1>1 DEF Aside, Numbers, Newest, Ended
<1>2. CASE Goes
  <2>1. sent' = sent
    BY <1>2 DEF Goes
  <2>2. Kept
    BY <1>2, GoesIs
  <2>3. ~Ended' => ~Ended
    BY <1>2, GoesIs DEF Ended
  <2> QED BY <2>1, <2>2, <2>3, NumbersSame
<1>3. CASE Take
  <2>1. sent' = sent
    BY <1>3, Takes
  <2>2. Kept /\ TakeMoves
    BY <1>3, Takes
  <2>3. ~Ended' => ~Ended
    BY <2>2 DEF Ended, TakeMoves
  <2> QED BY <2>1, <2>2, <2>3, NumbersSame
<1>4. CASE Open
  <2>1. sent' = sent /\ loop.at = "open"
    BY <1>4, Opens
  <2>2. loop'.frames = loop.frames /\ loop'.seq = loop.seq
    BY <1>4, Opens, OpensLoop
  <2>3. ~Ended
    BY <2>1 DEF Ended
  <2> QED BY <2>1, <2>2, <2>3 DEF Numbers, Newest
<1>5. CASE Map
  <2>1. sent' = sent /\ loop.at = "map"
    BY <1>5, Maps
  <2>2. loop'.frames = loop.frames /\ loop'.seq = loop.seq
    BY <1>5, MapsTo
  <2>3. ~Ended
    BY <2>1 DEF Ended
  <2> QED BY <2>1, <2>2, <2>3 DEF Numbers, Newest
<1>6. CASE AnnounceReset
  <2>1. sent' = sent /\ loop.at = "reset"
    BY <1>6, ResetIs
  <2>2. Kept
    BY <1>6, ResetIs
  <2>3. ~Ended
    BY <2>1 DEF Ended
  <2> QED BY <2>1, <2>2, <2>3, NumbersSame
<1>7. CASE SendFresh
  <2>1. loop.at = "send" /\ (SendFreshOk \/ Failed)
    BY <1>7, SendsFresh
  <2>2. CASE Failed
    <3>1. sent' = sent
      BY <2>2, FailedIs
    <3>2. Kept
      BY <2>2, FailedIs
    <3>3. ~Ended
      BY <2>1 DEF Ended
    <3> QED BY <3>1, <3>2, <3>3, NumbersSame
  <2>3. CASE SendFreshOk
    <3>1. /\ NewPacket \in Packet /\ NewPacket.seq = loop.seq
          /\ NewPacket.id = loop.frames + 1 /\ NewPacket.fresh
      BY <1>0, NewPacketIs
    <3>2. sent \in Seq(Packet) /\ sent' = Append(sent, NewPacket)
      BY <2>3 DEF Numbers, SendFreshOk
    <3>3. /\ sent' \in Seq(Packet) /\ Len(sent) \in Nat /\ Len(sent') = Len(sent) + 1
          /\ DOMAIN sent = 1..Len(sent) /\ DOMAIN sent' = 1..(Len(sent) + 1)
          /\ \A i \in 1..Len(sent) : sent'[i] = sent[i] /\ sent[i] \in Packet
          /\ sent'[Len(sent) + 1] = NewPacket
      BY <3>1, <3>2, SentGrows
    <3>4. /\ loop'.frames = loop.frames + 1 /\ loop'.seq = (loop.seq + 1) % SeqModulus
      BY <1>0, <2>3, SendFreshIs
    <3>5. /\ loop.frames \in Nat /\ loop.seq \in Int
          /\ loop.seq = (loop.frames + 1) % SeqModulus
      BY LoopFields DEF Numbers
    <3>6. loop'.seq = (loop'.frames + 1) % SeqModulus
      <4>1. PICK n \in Nat, s \in Int : n = loop.frames /\ s = loop.seq
        BY <3>5
      <4>2. s = (n + 1) % SeqModulus
        BY <3>5, <4>1
      <4>3. (s + 1) % SeqModulus = ((n + 1) + 1) % SeqModulus
        BY <4>2, SeqNext
      <4> QED BY <3>4, <4>1, <4>3
    <3>7. ASSUME NEW i \in DOMAIN sent', sent'[i].fresh
          PROVE  sent'[i].id \in 1..loop'.frames /\ sent'[i].seq = sent'[i].id % SeqModulus
      <4>1. CASE i = Len(sent) + 1
        <5>1. sent'[i].id = loop.frames + 1 /\ sent'[i].seq = loop.seq
          BY <3>1, <3>3, <4>1
        <5> QED BY <3>4, <3>5, <5>1
      <4>2. CASE i \in 1..Len(sent)
        <5>1. sent'[i] = sent[i]
          BY <3>3, <4>2
        <5>2. sent[i].id \in 1..loop.frames /\ sent[i].seq = sent[i].id % SeqModulus
          BY <3>3, <3>7, <4>2, <5>1 DEF Numbers
        <5> QED BY <3>4, <3>5, <5>1, <5>2
      <4> QED BY <3>3, <4>1, <4>2
    <3>8. ASSUME NEW i \in DOMAIN sent', Newest(i)'
          PROVE  sent'[i].id = loop'.frames
      <4>1. sent'[i] = NewPacket
        BY <3>1, <3>2, <3>8, NewestFresh
      <4> QED BY <3>1, <3>4, <4>1
    <3> QED BY <3>3, <3>6, <3>7, <3>8 DEF Numbers
  <2> QED BY <2>1, <2>2, <2>3
<1>8. CASE SendAgain
  <2>1. loop.at = "resend" /\ (SendAgainOk \/ Failed)
    BY <1>8, SendsAgain
  <2>2. CASE Failed
    <3>1. sent' = sent
      BY <2>2, FailedIs
    <3>2. Kept
      BY <2>2, FailedIs
    <3>3. ~Ended
      BY <2>1 DEF Ended
    <3> QED BY <3>1, <3>2, <3>3, NumbersSame
  <2>3. CASE SendAgainOk
    <3>1. OldPacket \in Packet /\ ~OldPacket.fresh
      BY <2>1, OldPacketIs DEF Nonces
    <3>2. sent \in Seq(Packet) /\ sent' = Append(sent, OldPacket)
      BY <2>3 DEF Numbers, SendAgainOk
    <3>3. /\ sent' \in Seq(Packet) /\ Len(sent) \in Nat /\ Len(sent') = Len(sent) + 1
          /\ DOMAIN sent = 1..Len(sent) /\ DOMAIN sent' = 1..(Len(sent) + 1)
          /\ \A i \in 1..Len(sent) : sent'[i] = sent[i] /\ sent[i] \in Packet
          /\ sent'[Len(sent) + 1] = OldPacket
      BY <3>1, <3>2, SentGrows
    <3>4. /\ loop'.frames = loop.frames /\ loop'.seq = loop.seq
      BY <2>3, SendAgainIs DEF Kept
    <3>5. ASSUME NEW i \in DOMAIN sent', sent'[i].fresh
          PROVE  sent'[i].id \in 1..loop'.frames /\ sent'[i].seq = sent'[i].id % SeqModulus
      <4>1. i \in 1..Len(sent) /\ sent'[i] = sent[i]
        BY <3>1, <3>3, <3>5
      <4> QED BY <3>3, <3>4, <3>5, <4>1 DEF Numbers
    <3>6. ASSUME NEW i \in DOMAIN sent', Newest(i)'
          PROVE  sent'[i].id = loop'.frames
      <4>1. i \in DOMAIN sent /\ Newest(i) /\ sent'[i] = sent[i]
        BY <3>1, <3>2, <3>6, NewestAgain
      <4>2. ~Ended
        BY <2>1 DEF Ended
      <4> QED BY <3>4, <4>1, <4>2 DEF Numbers
    <3> QED BY <3>3, <3>4, <3>5, <3>6 DEF Numbers
  <2> QED BY <2>1, <2>2, <2>3
<1> QED BY <1>1, <1>2, <1>3, <1>4, <1>5, <1>6, <1>7, <1>8, Kinds

-----------------------------------------------------------------------------
(* Nonces.                                                                   *)
LEMMA NoncesSame ==
    ASSUME Nonces, sent' = sent, nonce' = nonce, mode' = mode,
           loop'.at = "resend" => mode.fec /\ Len(loop'.old) = Depth
    PROVE  Nonces'
BY DEF Nonces

LEMMA NeverBoth == ASSUME LoopTypes PROVE ~(mode.chacha /\ mode.fec)
BY StreamAssumption DEF LoopTypes

LEMMA NoncesKept ==
    ASSUME ReaderInv, LoopTypes, Numbers, Nonces, [Next]_vars
    PROVE  Nonces'
<1>0. nonce \in Nat
  BY DEF Nonces
<1>1. CASE Aside
  BY <1>1 DEF Aside, Nonces
<1>2. CASE Goes
  <2>1. UNCHANGED <<sent, nonce, mode>>
    BY <1>2 DEF Goes
  <2>2. loop'.at # "resend"
    BY <1>2, GoesIs
  <2> QED BY <2>1, <2>2, NoncesSame
<1>3. CASE Take
  <2>1. UNCHANGED <<sent, nonce, mode>>
    BY <1>3, Takes
  <2>2. TakeMoves
    BY <1>3, Takes
  <2>3. loop'.at # "resend"
    BY <2>2 DEF TakeMoves
  <2> QED BY <2>1, <2>3, NoncesSame
<1>4. CASE Open
  <2>1. UNCHANGED <<sent, nonce, mode>>
    BY <1>4, Opens
  <2>2. loop'.at # "resend"
    BY <1>4, Opens, OpensLoop
  <2> QED BY <2>1, <2>2, NoncesSame
<1>5. CASE Map
  <2>1. UNCHANGED <<sent, nonce, mode>>
    BY <1>5, Maps
  <2>2. (loop'.at = "resend" => Resend) /\ loop'.old = loop.old
    BY <1>5, MapsTo
  <2> QED BY <2>1, <2>2, NoncesSame DEF Resend
<1>6. CASE AnnounceReset
  <2>1. UNCHANGED <<sent, nonce, mode>>
    BY <1>6, ResetIs
  <2>2. (loop'.at = "resend" => Resend) /\ loop'.old = loop.old
    BY <1>6, ResetIs DEF Kept, Sends
  <2> QED BY <2>1, <2>2, NoncesSame DEF Resend
<1>7. CASE SendFresh
  <2>1. /\ nonce' = IF mode.chacha THEN nonce + 1 ELSE nonce
        /\ UNCHANGED <<mode, clock>> /\ (SendFreshOk \/ Failed)
    BY <1>7, SendsFresh
  <2>2. nonce' \in Nat
    BY <1>0, <2>1
  <2>3. CASE Failed
    <3>1. sent' = sent /\ loop'.at = "ending"
      BY <2>3, FailedIs
    <3>2. ASSUME mode.chacha
          PROVE  /\ \A i \in DOMAIN sent : sent[i].nonce < nonce + 1
                 /\ \A i, j \in DOMAIN sent : i < j => sent[i].nonce < sent[j].nonce
      <4>1. \A i \in DOMAIN sent : sent[i] \in Packet
        BY LenProperties, ElementOfSeq DEF Numbers
      <4>2. \A i \in DOMAIN sent : sent[i].nonce \in Nat
        BY <4>1 DEF Packet
      <4> QED BY <1>0, <3>2, <4>2 DEF Nonces
    <3> QED BY <2>1, <2>2, <3>1, <3>2 DEF Nonces
  <2>4. CASE SendFreshOk
    <3>1. NewPacket \in Packet /\ NewPacket.nonce = IF mode.chacha THEN nonce ELSE 0
      BY <1>0, NewPacketIs
    <3>2. sent \in Seq(Packet) /\ sent' = Append(sent, NewPacket)
      BY <2>4 DEF Numbers, SendFreshOk
    <3>3. /\ Len(sent) \in Nat
          /\ DOMAIN sent = 1..Len(sent) /\ DOMAIN sent' = 1..(Len(sent) + 1)
          /\ \A i \in 1..Len(sent) : sent'[i] = sent[i] /\ sent[i] \in Packet
          /\ sent'[Len(sent) + 1] = NewPacket
      BY <3>1, <3>2, SentGrows
    <3>4. loop'.at = "read"
      BY <1>0, <2>4, SendFreshIs
    <3>5. ASSUME mode.chacha
          PROVE  /\ \A i \in DOMAIN sent' : sent'[i].nonce < nonce'
                 /\ \A i, j \in DOMAIN sent' : i < j => sent'[i].nonce < sent'[j].nonce
      <4>1. nonce' = nonce + 1 /\ sent'[Len(sent) + 1].nonce = nonce
        BY <2>1, <3>1, <3>3, <3>5
      <4>2. \A i \in 1..Len(sent) : sent'[i].nonce < nonce /\ sent'[i].nonce \in Nat
        BY <3>3, <3>5 DEF Nonces, Packet
      <4>3. \A i, j \in 1..Len(sent) : i < j => sent'[i].nonce < sent'[j].nonce
        BY <3>3, <3>5 DEF Nonces
      <4>4. \A i \in DOMAIN sent' : sent'[i].nonce < nonce'
        BY <1>0, <3>3, <4>1, <4>2
      <4>5. ASSUME NEW i \in DOMAIN sent', NEW j \in DOMAIN sent', i < j
            PROVE  sent'[i].nonce < sent'[j].nonce
        <5>1. i \in 1..Len(sent) /\ (j \in 1..Len(sent) \/ j = Len(sent) + 1)
          BY <3>3, <4>5
        <5> QED BY <4>1, <4>2, <4>3, <4>5, <5>1
      <4> QED BY <4>4, <4>5
    <3> QED BY <2>1, <2>2, <3>4, <3>5 DEF Nonces
  <2> QED BY <2>1, <2>3, <2>4
<1>8. CASE SendAgain
  <2>1. loop.at = "resend" /\ UNCHANGED <<mode, clock, nonce, ring>>
    BY <1>8, SendsAgain
  <2>2. ~mode.chacha
    BY <2>1, NeverBoth DEF Nonces
  <2>3. SendAgainOk \/ Failed
    BY <1>8, SendsAgain
  <2>4. loop'.at # "resend"
    BY <2>3, SendAgainIs, FailedIs
  <2> QED BY <1>0, <2>1, <2>2, <2>4 DEF Nonces
<1> QED BY <1>1, <1>2, <1>3, <1>4, <1>5, <1>6, <1>7, <1>8, Kinds

-----------------------------------------------------------------------------
(* Requests and announcements.                                               *)
LEMMA LongestIs == ASSUME NEW count \in Counts PROVE Longest(count) \in 1..(History + 1)
<1>1. count \in Nat \ {0} /\ History \in Nat
  BY StreamAssumption
<1> QED BY <1>1 DEF Longest

LEMMA AskedKept ==
    ASSUME Asked, [Next]_vars
    PROVE  Asked'
<1>1. /\ control.at \in {"off", "wait", "serve", "done"} /\ control.next \in 0..(SeqModulus - 1)
      /\ control.left \in 0..(History + 1) /\ (control.at = "serve" => control.left # 0)
      /\ control \in [at : {"off", "wait", "serve", "done"}, next : 0..(SeqModulus - 1),
                      left : 0..(History + 1)]
  BY DEF Asked
<1>2. CASE UNCHANGED control
  BY <1>2 DEF Asked
<1>3. CASE Open
  <2>1. control' = control \/ control' = [control EXCEPT !.at = "wait"]
    BY <1>3 DEF Open
  <2> QED BY <1>1, <2>1 DEF Asked
<1>4. CASE Request
  <2>1. PICK first \in 0..(SeqModulus - 1), count \in Counts :
          control' = [at |-> "serve", next |-> first, left |-> Longest(count)]
    BY <1>4 DEF Request
  <2>2. PICK n \in 1..(History + 1) : n = Longest(count)
    BY LongestIs
  <2>3. n \in 0..(History + 1) /\ n # 0
    BY Sizes
  <2> QED BY <2>1, <2>2, <2>3 DEF Asked
<1>5. CASE Serve
  <2> DEFINE last == Found(control.next) = NoPacket \/ control.left = 1
  <2>1. /\ control.at = "serve"
        /\ \/ control' = [at |-> IF last THEN "wait" ELSE "serve",
                          next |-> IF last THEN 0 ELSE (control.next + 1) % SeqModulus,
                          left |-> IF last THEN 0 ELSE control.left - 1]
           \/ control' = [at |-> "wait", next |-> 0, left |-> 0]
    BY <1>5 DEF Serve
  <2>2. ~last => control.left # 1
    OBVIOUS
  <2> HIDE DEF last
  <2>3. 0 \in 0..(SeqModulus - 1) /\ (control.next + 1) % SeqModulus \in 0..(SeqModulus - 1)
    BY <1>1, Sizes
  <2>4. 0 \in 0..(History + 1) /\
        (~last => control.left - 1 \in 0..(History + 1) /\ control.left - 1 # 0)
    BY <1>1, <2>1, <2>2, Sizes
  <2>5. CASE ~last /\ control' = [at |-> "serve", next |-> (control.next + 1) % SeqModulus,
                                  left |-> control.left - 1]
    <3>1. control' \in [at : {"off", "wait", "serve", "done"}, next : 0..(SeqModulus - 1),
                      left : 0..(History + 1)]
      BY <2>3, <2>4, <2>5
    <3> QED BY <2>4, <2>5, <3>1 DEF Asked
  <2>6. CASE control' = [at |-> "wait", next |-> 0, left |-> 0]
    <3>1. control' \in [at : {"off", "wait", "serve", "done"}, next : 0..(SeqModulus - 1),
                      left : 0..(History + 1)]
      BY <2>3, <2>4, <2>6
    <3> QED BY <2>6, <3>1 DEF Asked
  <2> QED BY <2>1, <2>5, <2>6
<1>6. CASE ControlEnds
  <2>1. control' = [control EXCEPT !.at = "done"]
    BY <1>6 DEF ControlEnds
  <2> QED BY <1>1, <2>1 DEF Asked
<1>7. CASE Receive \/ Take \/ Ready \/ Map \/ AnnounceReset \/ SendFresh \/ SendAgain \/ Close \/ Return
  BY <1>2, <1>7 DEF Receive, Take, Ready, Map, AnnounceReset, SendFresh, SendAgain, Close, Return, stream
<1>8. CASE Stop \/ AnnouncerStep \/ VideoStarts \/ Cancel \/ Tick \/ UNCHANGED vars
  BY <1>2, <1>8 DEF Stop, AnnouncerStep, ReadPosition, Repeat, AnnouncerEnds, VideoStarts, Cancel,
                    Tick, vars, stream
<1> QED BY <1>3, <1>4, <1>5, <1>6, <1>7, <1>8 DEF Next, LoopStep, ControlStep

Early == loop.at \in {"prewarm", "first", "open"}

LEMMA AnnouncedSame ==
    ASSUME Announced, UNCHANGED <<announceMu, announcer, announced, mode, clock>>,
           loop.at # "reset", loop'.at # "reset", Early' => Early, Ended => Ended'
    PROVE  Announced'
<1>1. announceMu # "loop"
  BY DEF Announced
<1> QED BY <1>1 DEF Announced, Early

LEMMA AnnouncerIs ==
    ASSUME Announced
    PROVE  /\ announceMu \in {"free", "loop", "announcer"}
           /\ announcer \in [at : {"off", "wait", "due", "hold", "done"}, rtp : Positions, epoch : Nat]
           /\ (announceMu = "loop") <=> (loop.at = "reset")
           /\ (announceMu = "announcer") <=> (announcer.at = "hold" /\ mode.stamped)
           /\ Early => announcer.at = "off"
           /\ announcer.at = "hold" => announcer.epoch = clock.epoch
           /\ ~Ended /\ loop.at # "reset" /\ clock.valid => announced.epoch = clock.epoch
BY DEF Announced, Early

\* The worker that repeats the announcement.
LEMMA AnnouncerSteps ==
    ASSUME LoopTypes, Announced, Tick \/ AnnouncerStep
    PROVE  Announced'
<1>1. /\ announceMu \in {"free", "loop", "announcer"}
      /\ announcer \in [at : {"off", "wait", "due", "hold", "done"}, rtp : Positions, epoch : Nat]
      /\ (announceMu = "loop") <=> (loop.at = "reset")
      /\ (announceMu = "announcer") <=> (announcer.at = "hold" /\ mode.stamped)
      /\ Early => announcer.at = "off"
      /\ announcer.at = "hold" => announcer.epoch = clock.epoch
      /\ ~Ended /\ loop.at # "reset" /\ clock.valid => announced.epoch = clock.epoch
  BY AnnouncerIs
<1>2. UNCHANGED <<loop, mode, clock>>
  BY DEF Tick, AnnouncerStep, ReadPosition, Repeat, AnnouncerEnds
<1>3. CASE \E at \in {"due", "done"} : /\ announcer.at = "wait" /\ announcer' = [announcer EXCEPT !.at = at]
                                       /\ UNCHANGED <<announceMu, announced>>
  <2>1. PICK at \in {"due", "done"} : /\ announcer.at = "wait"
                                      /\ announcer' = [announcer EXCEPT !.at = at]
                                      /\ UNCHANGED <<announceMu, announced>>
    BY <1>3
  <2>2. announcer'.at = at
    BY <1>1, <2>1
  <2>3. announcer' \in [at : {"off", "wait", "due", "hold", "done"}, rtp : Positions, epoch : Nat]
    BY <1>1, <2>1
  <2>4. ~Early /\ announceMu # "announcer"
    BY <1>1, <2>1
  <2> QED BY <1>1, <1>2, <2>1, <2>2, <2>3, <2>4 DEF Announced, Early, Ended
<1>4. CASE ReadPosition
  <2>1. announcer.at = "due" /\ announced' = announced
    BY <1>4 DEF ReadPosition
  <2>2. PICK rtp \in Positions : announcer' = [at |-> "hold", rtp |-> rtp, epoch |-> clock.epoch]
    <3>1. Plus(clock.lastRTP, FrameSamples) \in Positions /\ rtpTime \in Positions
      BY ClockFields, PlusIs, Sizes DEF LoopTypes
    <3>2. \/ announcer' = [at |-> "hold", rtp |-> Plus(clock.lastRTP, FrameSamples),
                           epoch |-> clock.epoch]
          \/ announcer' = [at |-> "hold", rtp |-> rtpTime, epoch |-> clock.epoch]
      BY <1>4 DEF ReadPosition
    <3> QED BY <3>1, <3>2
  <2>3. clock.epoch \in Nat
    BY ClockFields
  <2>4. announcer' \in [at : {"off", "wait", "due", "hold", "done"}, rtp : Positions, epoch : Nat]
    BY <2>2, <2>3
  <2>5. announcer'.at = "hold" /\ announcer'.epoch = clock.epoch
    BY <2>2
  <2>6. \/ mode.stamped /\ announceMu = "free" /\ announceMu' = "announcer"
        \/ ~mode.stamped /\ announceMu' = announceMu
    BY <1>4 DEF ReadPosition
  <2>7. ~Early /\ announceMu # "announcer"
    BY <1>1, <2>1
  <2>8. (announceMu' = "announcer") <=> mode.stamped
    BY <2>6, <2>7
  <2>9. (announceMu' = "loop") <=> (loop.at = "reset")
    BY <1>1, <2>6
  <2>10. announceMu' \in {"free", "loop", "announcer"}
    BY <1>1, <2>6
  <2> QED BY <1>1, <1>2, <2>1, <2>4, <2>5, <2>7, <2>8, <2>9, <2>10 DEF Announced, Early, Ended
<1>5. CASE Repeat
  <2>1. /\ announcer.at = "hold" /\ announcer' = [announcer EXCEPT !.at = "wait"]
        /\ announceMu' = IF announceMu = "announcer" THEN "free" ELSE announceMu
        /\ announced' = Announcement(announcer.rtp, announcer.epoch) \/ announced' = announced
    BY <1>5 DEF Repeat
  <2>2. announcer'.at = "wait"
    BY <1>1, <2>1
  <2>3. announcer' \in [at : {"off", "wait", "due", "hold", "done"}, rtp : Positions, epoch : Nat]
    BY <1>1, <2>1
  <2>4. announced'.epoch = clock.epoch \/ announced' = announced
    BY <1>1, <2>1 DEF Announcement
  <2>5. ~Early
    BY <1>1, <2>1
  <2>6. /\ announceMu' \in {"free", "loop", "announcer"} /\ announceMu' # "announcer"
        /\ (announceMu' = "loop") <=> (loop.at = "reset")
    BY <1>1, <2>1
  <2> QED BY <1>1, <1>2, <2>2, <2>3, <2>4, <2>5, <2>6 DEF Announced, Early, Ended
<1>6. CASE Tick \/ AnnouncerEnds
  BY <1>3, <1>6 DEF Tick, AnnouncerEnds
<1> QED BY <1>4, <1>5, <1>6 DEF AnnouncerStep

LEMMA AnnouncedKept ==
    ASSUME ReaderInv, LoopTypes, Nonces, Announced, [Next]_vars
    PROVE  Announced'
<1>0. nonce \in Nat
  BY DEF Nonces
<1>1. /\ announceMu \in {"free", "loop", "announcer"}
      /\ announcer \in [at : {"off", "wait", "due", "hold", "done"}, rtp : Positions, epoch : Nat]
      /\ (announceMu = "loop") <=> (loop.at = "reset")
      /\ (announceMu = "announcer") <=> (announcer.at = "hold" /\ mode.stamped)
      /\ Early => announcer.at = "off"
      /\ announcer.at = "hold" => announcer.epoch = clock.epoch
      /\ ~Ended /\ loop.at # "reset" /\ clock.valid => announced.epoch = clock.epoch
  BY AnnouncerIs
<1>2. CASE UNCHANGED <<announceMu, announcer, announced, mode, clock, loop>>
  BY <1>2 DEF Announced, Ended
<1>3. CASE Ready \/ Stop \/ Return
  <2>1. PICK at \in {"first", "ending", "returned"} :
          /\ Loop(at) /\ loop.at # "reset" /\ (at = "first" => loop.at = "prewarm")
          /\ Ended => at \in {"ending", "returned"}
    BY <1>3 DEF Ready, Stop, Return, Reading, Ended
  <2>2. UNCHANGED <<announceMu, announcer, announced, mode, clock>>
    BY <1>3 DEF Ready, Stop, Return
  <2>3. loop'.at = at
    BY <2>1, LoopFields, LoopKeeps DEF Places
  <2> QED BY <2>1, <2>2, <2>3, AnnouncedSame DEF Early, Ended
<1>4. CASE Take
  <2>1. UNCHANGED <<announceMu, announcer, announced, mode, clock>>
    BY <1>4, Takes
  <2>2. TakeMoves
    BY <1>4, Takes
  <2>3. loop.at # "reset" /\ loop'.at # "reset" /\ (Early' => Early) /\ (Ended => Ended')
    BY <2>2 DEF TakeMoves, Early, Ended
  <2> QED BY <2>1, <2>3, AnnouncedSame
<1>5. CASE Open
  <2>1. /\ loop.at = "open" /\ UNCHANGED <<mode, announceMu>>
        /\ announcer' = announcer \/ announcer' = [announcer EXCEPT !.at = "wait"]
    BY <1>5, Opens
  <2>2. PICK epoch \in Positions : OpensAt(epoch)
    BY <1>5, Opens
  <2>3. loop'.at = "send" \/ loop'.at = "ending"
    BY <2>2, OpensLoop
  <2>4. announcer.at = "off"
    BY <1>1, <2>1 DEF Early
  <2>5. announcer'.at \in {"off", "wait"} /\
        announcer' \in [at : {"off", "wait", "due", "hold", "done"}, rtp : Positions, epoch : Nat]
    BY <1>1, <2>1, <2>4
  <2>6. announceMu' \in {"free", "loop", "announcer"} /\ announceMu' # "loop" /\ announceMu' # "announcer"
    BY <1>1, <2>1, <2>4
  <2>7. loop'.at = "send" => announced'.epoch = clock'.epoch
    <3>1. SUFFICES ASSUME loop'.at = "send" PROVE announced'.epoch = clock'.epoch
      OBVIOUS
    <3>2. ~Loop("ending")
      BY <3>1, LoopFields, LoopKeeps DEF Places
    <3>3. announced' = Announcement(epoch, clock.epoch) /\ clock' = FirstMapped(loop.frame, epoch)
      BY <2>2, <3>2 DEF OpensAt
    <3> QED BY <3>3 DEF Announcement, FirstMapped
  <2> QED BY <2>3, <2>5, <2>6, <2>7 DEF Announced, Ended
<1>6. CASE Map
  <2>1. loop.at = "map" /\ UNCHANGED <<mode, announcer, announced>> /\ (MapStamped \/ MapBare)
    BY <1>6, Maps
  <2>2. loop'.at \in {"reset", "resend", "send"}
    BY <1>6, MapsTo
  <2>3. CASE MapBare
    <3>1. UNCHANGED <<announceMu, announcer, announced, mode, clock>>
      BY <2>1, <2>3 DEF MapBare
    <3>2. loop'.at # "reset"
      BY <2>3 DEF MapBare, Sends
    <3>3. loop.at # "reset" /\ (Early' => Early) /\ (Ended => Ended')
      BY <2>1, <2>2 DEF Early, Ended
    <3> QED BY <3>1, <3>2, <3>3, AnnouncedSame
  <2>4. CASE MapStamped
    <3>1. /\ mode.stamped /\ announceMu = "free" /\ clock' = Mapped(loop.frame)
          /\ announceMu' = IF Resets(loop.frame) THEN "loop" ELSE "free"
          /\ loop'.at = IF Resets(loop.frame) THEN "reset" ELSE Sends
      BY <2>4 DEF MapStamped
    <3>2. announcer.at # "hold"
      BY <1>1, <3>1
    <3>3. /\ announceMu' \in {"free", "loop"} /\ ((announceMu' = "loop") <=> (loop'.at = "reset"))
          /\ ~Resets(loop.frame) <=> loop'.at # "reset"
      BY <3>1 DEF Sends
    <3>4. loop'.at # "reset" => clock'.epoch = clock.epoch /\ clock'.valid = clock.valid
      <4>1. PICK f \in Frames : f = loop.frame
        BY LoopFields
      <4>2. Mapped(f) =
              [valid |-> clock.valid,
               anchor |-> IF SourceReset(f) THEN MappedRTP(f) ELSE clock.anchor,
               source |-> IF SourceReset(f) THEN f.source ELSE clock.source,
               lastRTP |-> MappedRTP(f), lastSource |-> f.source, lastTime |-> f.time,
               epoch |-> IF Resets(f) THEN clock.epoch + 1 ELSE clock.epoch]
        BY MappedIs
      <4> QED BY <3>1, <3>3, <4>1, <4>2
    <3>5. ~Ended /\ loop.at # "reset" /\ ~Early'
      BY <2>1, <2>2 DEF Ended, Early
    <3> QED BY <1>1, <2>1, <3>2, <3>3, <3>4, <3>5 DEF Announced, Early
  <2> QED BY <2>1, <2>3, <2>4
<1>7. CASE AnnounceReset
  <2>1. loop.at = "reset" /\ UNCHANGED <<mode, clock, announcer>> /\ announceMu' = "free"
    BY <1>7, ResetIs
  <2>2. \/ loop'.at = Sends /\ announced' = Announcement(clock.lastRTP, clock.epoch)
        \/ loop'.at = "ending" /\ announced' = announced
    BY <1>7, ResetIs
  <2>3. ~(announcer.at = "hold" /\ mode.stamped)
    BY <1>1, <2>1
  <2>4. loop'.at \in {"resend", "send", "ending"}
        /\ (loop'.at # "ending" => announced'.epoch = clock.epoch)
    BY <2>2 DEF Sends, Announcement
  <2> QED BY <1>1, <2>1, <2>3, <2>4 DEF Announced, Early, Ended
<1>8. CASE SendFresh \/ SendAgain
  <2>1. UNCHANGED <<announceMu, announcer, announced, mode, clock>> /\ loop.at \in {"send", "resend"}
    BY <1>8 DEF SendFresh, SendAgain
  <2>2. loop'.at \in {"read", "send", "ending"}
    BY <1>0, <1>8, SendsFresh, SendsAgain, SendFreshIs, SendAgainIs, FailedIs
  <2> QED BY <2>1, <2>2, AnnouncedSame DEF Early, Ended
<1>9. CASE Receive \/ Close \/ ControlStep \/ VideoStarts \/ Cancel \/ Request \/ UNCHANGED vars
  BY <1>2, <1>9 DEF Receive, Close, ControlStep, Serve, ControlEnds, VideoStarts, Cancel, Request,
                    vars, stream
<1>10. CASE Tick \/ AnnouncerStep
  BY <1>10, AnnouncerSteps
<1> QED BY <1>3, <1>4, <1>5, <1>6, <1>7, <1>8, <1>9, <1>10 DEF Next, LoopStep

-----------------------------------------------------------------------------
(* The ring.                                                                 *)
\* A number, its remainder and the slot it has.
LEMMA SlotOf ==
    ASSUME NEW x \in Int
    PROVE  (x % SeqModulus) % History = x % History
<1>1. SeqModulus \in Nat \ {0} /\ History \in Nat \ {0} /\ SeqModulus % History = 0
  BY Sizes, StreamAssumption
<1>2. PICK p \in Int, r \in 0..(History - 1) : SeqModulus = p * History + r /\ SeqModulus % History = r
  BY <1>1, ModIs
<1>3. r = 0
  BY <1>1, <1>2
<1>4. PICK z \in Int : z = p * History
  BY <1>1
<1>5. SeqModulus = z
  BY <1>2, <1>3, <1>4
<1>6. SeqModulus = p * History
  BY <1>4, <1>5
<1> QED BY <1>1, <1>6, ModDivides

\* A whole cycle of numbers later the slot is the same.
LEMMA SlotAgain ==
    ASSUME NEW x \in Int, NEW y \in Int, y = x + SeqModulus
    PROVE  y % History = x % History
<1>1. SeqModulus \in Nat \ {0} /\ History \in Nat \ {0} /\ SeqModulus % History = 0
  BY Sizes, StreamAssumption
<1>2. PICK q \in Int : q = 1
  OBVIOUS
<1>3. PICK w \in Nat \ {0} : w = SeqModulus
  BY <1>1
<1>4. y = q * w + x
  BY <1>2, <1>3
<1>5. y % w = x % w
  BY <1>4, ModShift
<1>6. (y % SeqModulus) % History = y % History /\ (x % SeqModulus) % History = x % History
  BY SlotOf
<1> QED BY <1>3, <1>5, <1>6

LEMMA SlotIs == ASSUME NEW x \in Int PROVE x % History \in 0..(History - 1)
BY Sizes

LEMMA NoPacketIs == ASSUME NEW p \in Packet PROVE p # NoPacket
<1>1. p.seq # -1
  BY Sizes DEF Packet
<1> QED BY <1>1 DEF NoPacket

LEMMA RememberedSame ==
    ASSUME Remembered, ring' = ring, sent' = sent, loop'.frames = loop.frames, ~Ended' => ~Ended
    PROVE  Remembered'
BY DEF Remembered

LEMMA RememberedKept ==
    ASSUME ReaderInv, LoopTypes, Numbers, Remembered, Nonces, [Next]_vars
    PROVE  Remembered'
<1>0. nonce \in Nat
  BY DEF Nonces
<1>1. CASE Aside
  <2>1. ~Ended' => ~Ended
    BY <1>1 DEF Aside, Ended
  <2> QED BY <1>1, <2>1, RememberedSame DEF Aside
<1>2. CASE Goes
  <2>1. ring' = ring /\ sent' = sent
    BY <1>2 DEF Goes
  <2>2. loop'.frames = loop.frames
    BY <1>2, GoesIs DEF Kept
  <2>3. ~Ended' => ~Ended
    BY <1>2, GoesIs DEF Ended
  <2> QED BY <2>1, <2>2, <2>3, RememberedSame
<1>3. CASE Take
  <2>1. ring' = ring /\ sent' = sent
    BY <1>3, Takes
  <2>2. Kept /\ TakeMoves
    BY <1>3, Takes
  <2>3. ~Ended' => ~Ended
    BY <2>2 DEF Ended, TakeMoves
  <2> QED BY <2>1, <2>2, <2>3, RememberedSame DEF Kept
<1>4. CASE Open
  <2>1. ring' = ring /\ sent' = sent /\ loop.at = "open"
    BY <1>4, Opens
  <2>2. loop'.frames = loop.frames
    BY <1>4, Opens, OpensLoop
  <2> QED BY <2>1, <2>2, RememberedSame DEF Ended
<1>5. CASE Map
  <2>1. ring' = ring /\ sent' = sent /\ loop.at = "map"
    BY <1>5, Maps
  <2>2. loop'.frames = loop.frames
    BY <1>5, MapsTo
  <2> QED BY <2>1, <2>2, RememberedSame DEF Ended
<1>6. CASE AnnounceReset
  <2>1. ring' = ring /\ sent' = sent /\ loop.at = "reset"
    BY <1>6, ResetIs
  <2>2. loop'.frames = loop.frames
    BY <1>6, ResetIs DEF Kept
  <2> QED BY <2>1, <2>2, RememberedSame DEF Ended
<1>7. CASE SendFresh
  <2> DEFINE slot == loop.seq % History
  <2>1. /\ loop.at = "send" /\ ring' = [ring EXCEPT ![slot] = NewPacket]
        /\ SendFreshOk \/ Failed
    BY <1>7, SendsFresh
  <2>2. /\ NewPacket \in Packet /\ NewPacket.seq = loop.seq /\ NewPacket.id = loop.frames + 1
    BY <1>0, NewPacketIs
  <2>3. /\ loop.frames \in Nat /\ loop.seq \in Int /\ loop.seq = (loop.frames + 1) % SeqModulus
        /\ ~Ended
    BY <2>1, LoopFields DEF Numbers, Ended
  <2>4. slot \in 0..(History - 1) /\ slot = (loop.frames + 1) % History
    <3>1. PICK x \in Int : x = loop.frames + 1
      BY <2>3
    <3>2. (x % SeqModulus) % History = x % History
      BY SlotOf
    <3> QED BY <2>3, <3>1, <3>2, SlotIs
  <2>5. /\ ring \in [0..(History - 1) -> Packet \cup {NoPacket}]
        /\ \A s \in 0..(History - 1) : ring[s] # NoPacket =>
             /\ ring[s].id # 0 /\ ring[s].seq = ring[s].id % SeqModulus
             /\ ring[s].id <= loop.frames
             /\ \A i \in DOMAIN sent : sent[i].fresh /\ sent[i].id = ring[s].id => sent[i] = ring[s]
        /\ \A n \in 1..loop.frames : ring[n % History] # NoPacket /\ n <= ring[n % History].id
    BY <2>3 DEF Remembered
  <2> HIDE DEF slot
  <2>6. /\ ring' \in [0..(History - 1) -> Packet \cup {NoPacket}]
        /\ ring'[slot] = NewPacket
        /\ \A s \in 0..(History - 1) : s # slot => ring'[s] = ring[s]
    BY <2>1, <2>2, <2>4, <2>5
  <2>7. NewPacket # NoPacket
    BY <2>2, NoPacketIs
  <2>8. /\ DOMAIN sent = 1..Len(sent) /\ Len(sent) \in Nat
        /\ \A i \in DOMAIN sent : sent[i].fresh => sent[i].id \in 1..loop.frames
    BY LenProperties DEF Numbers
  <2>9. CASE Failed
    <3>1. sent' = sent /\ loop'.at = "ending"
      BY <2>9, FailedIs
    <3>2. loop'.frames = loop.frames
      BY <2>9, FailedIs DEF Kept
    <3>3. ASSUME NEW s \in 0..(History - 1), ring'[s] # NoPacket
          PROVE  /\ ring'[s].id # 0 /\ ring'[s].seq = ring'[s].id % SeqModulus
                 /\ \A i \in DOMAIN sent' :
                      sent'[i].fresh /\ sent'[i].id = ring'[s].id => sent'[i] = ring'[s]
      <4>1. CASE s = slot
        <5>1. ring'[s].id = loop.frames + 1 /\ ring'[s].seq = (loop.frames + 1) % SeqModulus
          BY <2>2, <2>3, <2>6, <4>1
        <5> QED BY <2>3, <2>8, <3>1, <5>1
      <4>2. CASE s # slot
        BY <2>5, <2>6, <3>1, <3>3, <4>2
      <4> QED BY <4>1, <4>2
    <3>4. ASSUME NEW n \in 1..loop'.frames
          PROVE  ring'[n % History] # NoPacket /\ n <= ring'[n % History].id
      <4>1. n \in 1..loop.frames /\ n \in Int /\ n % History \in 0..(History - 1)
        BY <2>3, <3>2, SlotIs
      <4>2. CASE n % History = slot
        BY <2>2, <2>3, <2>6, <2>7, <4>1, <4>2
      <4>3. CASE n % History # slot
        BY <2>5, <2>6, <4>1, <4>3
      <4> QED BY <4>2, <4>3
    <3>5. Ended'
      BY <3>1 DEF Ended
    <3> QED BY <2>6, <3>3, <3>4, <3>5 DEF Remembered
  <2>10. CASE SendFreshOk
    <3>1. /\ DOMAIN sent' = 1..(Len(sent) + 1)
          /\ \A i \in 1..Len(sent) : sent'[i] = sent[i]
          /\ sent'[Len(sent) + 1] = NewPacket
      <4>1. sent \in Seq(Packet) /\ sent' = Append(sent, NewPacket)
        BY <2>10 DEF Numbers, SendFreshOk
      <4> QED BY <2>2, <4>1, SentGrows
    <3>2. loop'.frames = loop.frames + 1
      BY <1>0, <2>10, SendFreshIs
    <3>3. ASSUME NEW s \in 0..(History - 1), ring'[s] # NoPacket
          PROVE  /\ ring'[s].id # 0 /\ ring'[s].seq = ring'[s].id % SeqModulus
                 /\ ring'[s].id <= loop'.frames
                 /\ \A i \in DOMAIN sent' :
                      sent'[i].fresh /\ sent'[i].id = ring'[s].id => sent'[i] = ring'[s]
      <4>1. CASE s = slot
        <5>1. ring'[s] = NewPacket /\ ring'[s].id = loop.frames + 1
              /\ ring'[s].seq = (loop.frames + 1) % SeqModulus
          BY <2>2, <2>3, <2>6, <4>1
        <5>2. ASSUME NEW i \in DOMAIN sent', sent'[i].fresh, sent'[i].id = ring'[s].id
              PROVE  sent'[i] = ring'[s]
          <6>1. CASE i \in 1..Len(sent)
            <7>1. sent'[i].id \in 1..loop.frames
              BY <2>8, <3>1, <5>2, <6>1
            <7> QED BY <2>3, <5>1, <5>2, <7>1
          <6>2. CASE i = Len(sent) + 1
            BY <3>1, <5>1, <6>2
          <6> QED BY <2>8, <3>1, <6>1, <6>2
        <5> QED BY <2>3, <3>2, <5>1, <5>2
      <4>2. CASE s # slot
        <5>1. ring'[s] = ring[s] /\ ring[s] # NoPacket
          BY <2>6, <3>3, <4>2
        <5>2. /\ ring[s].id # 0 /\ ring[s].seq = ring[s].id % SeqModulus
              /\ ring[s].id <= loop.frames
              /\ \A i \in DOMAIN sent : sent[i].fresh /\ sent[i].id = ring[s].id => sent[i] = ring[s]
          BY <2>5, <5>1
        <5>6. ring[s].id \in Nat
          <6>1. ring[s] \in Packet
            BY <2>5, <5>1
          <6> QED BY <6>1 DEF Packet
        <5>3. ASSUME NEW i \in DOMAIN sent', sent'[i].fresh, sent'[i].id = ring[s].id
              PROVE  sent'[i] = ring[s]
          <6>1. CASE i \in 1..Len(sent)
            BY <2>8, <3>1, <5>2, <5>3, <6>1
          <6>2. CASE i = Len(sent) + 1
            <7>1. sent'[i].id = loop.frames + 1
              BY <2>2, <3>1, <6>2
            <7> QED BY <2>3, <5>2, <5>3, <5>6, <7>1
          <6> QED BY <2>8, <3>1, <6>1, <6>2
        <5>4. ring[s].id <= loop'.frames
          BY <2>3, <3>2, <5>2, <5>6
        <5> QED BY <5>1, <5>2, <5>3, <5>4
      <4> QED BY <4>1, <4>2
    <3>4. ASSUME NEW n \in 1..loop'.frames
          PROVE  ring'[n % History] # NoPacket /\ n <= ring'[n % History].id
      <4>1. n \in 1..(loop.frames + 1) /\ n \in Int /\ n % History \in 0..(History - 1)
        BY <2>3, <3>2, SlotIs
      <4>2. CASE n % History = slot
        BY <2>2, <2>3, <2>6, <2>7, <4>1, <4>2
      <4>3. CASE n % History # slot
        <5>1. n # loop.frames + 1
          BY <2>4, <4>3
        <5>2. n \in 1..loop.frames
          BY <2>3, <4>1, <5>1
        <5> QED BY <2>5, <2>6, <4>1, <4>3, <5>2
      <4> QED BY <4>2, <4>3
    <3> QED BY <2>6, <3>3, <3>4 DEF Remembered
  <2> QED BY <2>1, <2>9, <2>10
<1>8. CASE SendAgain
  <2>1. loop.at = "resend" /\ ring' = ring /\ (SendAgainOk \/ Failed)
    BY <1>8, SendsAgain
  <2>2. CASE Failed
    <3>1. sent' = sent
      BY <2>2, FailedIs
    <3>2. loop'.frames = loop.frames
      BY <2>2, FailedIs DEF Kept
    <3> QED BY <2>1, <3>1, <3>2, RememberedSame DEF Ended
  <2>3. CASE SendAgainOk
    <3>1. OldPacket \in Packet /\ ~OldPacket.fresh
      BY <2>1, OldPacketIs DEF Nonces
    <3>2. sent \in Seq(Packet) /\ sent' = Append(sent, OldPacket)
      BY <2>3 DEF Numbers, SendAgainOk
    <3>3. /\ Len(sent) \in Nat
          /\ DOMAIN sent = 1..Len(sent) /\ DOMAIN sent' = 1..(Len(sent) + 1)
          /\ \A i \in 1..Len(sent) : sent'[i] = sent[i] /\ sent[i] \in Packet
          /\ sent'[Len(sent) + 1] = OldPacket
      BY <3>1, <3>2, SentGrows
    <3>4. loop'.frames = loop.frames
      BY <2>3, SendAgainIs DEF Kept
    <3>5. \A i \in DOMAIN sent' : sent'[i].fresh => i \in DOMAIN sent /\ sent'[i] = sent[i]
      BY <3>1, <3>3
    <3>6. ~Ended
      BY <2>1 DEF Ended
    <3>7. \A s \in 0..(History - 1) : ring[s] # NoPacket =>
             \A i \in DOMAIN sent' : sent'[i].fresh /\ sent'[i].id = ring[s].id => sent'[i] = ring[s]
      BY <3>5 DEF Remembered
    <3> QED BY <2>1, <3>4, <3>6, <3>7 DEF Remembered
  <2> QED BY <2>1, <2>2, <2>3
<1> QED BY <1>1, <1>2, <1>3, <1>4, <1>5, <1>6, <1>7, <1>8, Kinds

-----------------------------------------------------------------------------
(* The time line of the receiver.                                            *)
LEMMA TimelineSame ==
    ASSUME Timeline, sent' = sent, clock' = clock, mode' = mode, loop'.rtp = loop.rtp,
           Early' => Early, Started' => Started,
           loop'.at \in {"read", "map"} => loop.at \in {"read", "map"},
           loop'.at \in {"reset", "send", "resend"} => loop.at \in {"reset", "send", "resend"}
    PROVE  Timeline'
BY DEF Timeline, Early, Started, Newest, NoOverlap, NextFresh

\* A position that follows in the source follows at the receiver.
LEMMA FollowsToo ==
    ASSUME NEW a \in Int, NEW fs \in Int, NEW ls \in Int, NEW s \in Int, NEW n \in Int,
           NotBefore(fs, Plus(ls, n)), fs \in Positions
    PROVE  NotBefore(Plus(a, fs - s), Plus(Plus(a, ls - s), n))
<1>1. PICK z \in Int : z = 0
  OBVIOUS
<1>2. Plus(fs, z) = fs
  BY <1>1, PlusZero
<1>3. NotBefore(Plus(fs, z), Plus(ls, n))
  BY <1>2
<1>4. PICK k \in Int, l \in Int, d \in Int : k = fs - s /\ l = ls - s /\ d = l + n
  OBVIOUS
<1>5. (fs + z) - (ls + n) = (a + k) - (a + d)
  BY <1>1, <1>4
<1>6. NotBefore(Plus(a, k), Plus(a, d))
  <2>1. (Plus(fs, z) - Plus(ls, n)) % Modulus = ((fs + z) - (ls + n)) % Modulus
    BY Distance
  <2>2. (Plus(a, k) - Plus(a, d)) % Modulus = ((a + k) - (a + d)) % Modulus
    BY Distance
  <2> QED BY <1>3, <1>5, <2>1, <2>2 DEF NotBefore
<1>7. d = l + n
  BY <1>4
<1>8. Plus(Plus(a, l), n) = Plus(a, d)
  BY <1>7, PlusPlus
<1>9. NotBefore(Plus(a, k), Plus(Plus(a, l), n))
  BY <1>6, <1>8
<1> QED BY <1>4, <1>9

\* A frame is mapped to a position after the last frame's.
LEMMA MapFollows ==
    ASSUME LoopTypes, Timeline, Map
    PROVE  /\ NotBefore(loop'.rtp, Plus(loop.rtp, FrameSamples))
           /\ clock'.valid /\ (mode.stamped => clock'.lastRTP = loop'.rtp)
           /\ mode.stamped =>
                clock'.lastRTP = Plus(clock'.anchor, clock'.lastSource - clock'.source)
<1>1. loop.at = "map" /\ (MapStamped \/ MapBare)
  BY Maps
<1>2. clock.valid /\ (mode.stamped => clock.lastRTP = loop.rtp)
  BY <1>1 DEF Timeline, Started
<1>3. FrameSamples \in Int /\ loop.rtp \in Int /\ loop.frame \in Frames
  BY Sizes, LoopFields
<1>4. CASE MapBare
  <2>1. ~mode.stamped /\ clock' = clock /\ loop'.rtp = Plus(loop.rtp, FrameSamples)
    BY <1>4 DEF MapBare
  <2>2. PICK a \in Int : a = Plus(loop.rtp, FrameSamples)
    BY <1>3, PlusIs, Sizes DEF Positions
  <2>3. NotBefore(a, a)
    BY NotBeforeItself
  <2> QED BY <1>2, <2>1, <2>2, <2>3
<1>5. CASE MapStamped
  <2>1. mode.stamped /\ clock' = Mapped(loop.frame) /\ loop'.rtp = MappedRTP(loop.frame)
    BY <1>5 DEF MapStamped
  <2>2. PICK f \in Frames : f = loop.frame
    BY <1>3
  <2>3. MappedRTP(f) \in Positions
    BY MappedIs
  <2>4. Mapped(f) =
              [valid |-> clock.valid,
               anchor |-> IF SourceReset(f) THEN MappedRTP(f) ELSE clock.anchor,
               source |-> IF SourceReset(f) THEN f.source ELSE clock.source,
               lastRTP |-> MappedRTP(f), lastSource |-> f.source, lastTime |-> f.time,
               epoch |-> IF Resets(f) THEN clock.epoch + 1 ELSE clock.epoch]
    BY MappedIs
  <2>5. clock'.valid /\ clock'.lastRTP = loop'.rtp /\ clock'.lastSource = f.source
    BY <1>2, <2>1, <2>2, <2>4
  <2>6. f.source \in Positions /\ f.source \in Int
    BY Sizes DEF Frames, Positions
  <2>7. /\ clock.anchor \in Int /\ clock.source \in Int /\ clock.lastRTP \in Int
        /\ clock.lastSource \in Int
    BY ClockFields
  <2>8. loop.rtp = Plus(clock.anchor, clock.lastSource - clock.source)
    BY <1>2, <2>1 DEF Timeline
  <2>9. CASE SourceReset(f)
    <3>1. clock'.anchor = MappedRTP(f) /\ clock'.source = f.source
      BY <2>1, <2>2, <2>4, <2>9
    <3>2. MappedRTP(f) = Plus(loop.rtp, FrameSamples)
      BY <1>2, <2>1, <2>9 DEF MappedRTP
    <3>3. PICK a \in Int : a = MappedRTP(f)
      BY <2>3, Sizes DEF Positions
    <3>4. NotBefore(a, a)
      BY NotBeforeItself
    <3>5. a \in Positions /\ Plus(a, 0) = a
      BY <2>3, <3>3, PlusZero
    <3>6. f.source - f.source = 0
      BY <2>6
    <3>7. clock'.lastRTP = Plus(clock'.anchor, clock'.lastSource - clock'.source)
      BY <2>1, <2>2, <2>5, <3>1, <3>3, <3>5, <3>6
    <3> QED BY <2>1, <2>2, <2>5, <3>2, <3>3, <3>4, <3>7
  <2>10. CASE ~SourceReset(f)
    <3>1. clock'.anchor = clock.anchor /\ clock'.source = clock.source
      BY <2>1, <2>2, <2>4, <2>10
    <3>2. MappedRTP(f) = Plus(clock.anchor, f.source - clock.source)
      BY <2>10 DEF MappedRTP
    <3>3. NotBefore(f.source, Plus(clock.lastSource, FrameSamples))
      BY <2>10 DEF SourceReset
    <3>4. PICK a \in Int, fs \in Int, ls \in Int, s \in Int, n \in Int :
            /\ a = clock.anchor /\ fs = f.source /\ ls = clock.lastSource /\ s = clock.source
            /\ n = FrameSamples
      BY <1>3, <2>6, <2>7
    <3>5. NotBefore(fs, Plus(ls, n)) /\ fs \in Positions
      BY <2>6, <3>3, <3>4
    <3>6. NotBefore(Plus(a, fs - s), Plus(Plus(a, ls - s), n))
      BY <3>5, FollowsToo
    <3>7. NotBefore(loop'.rtp, Plus(loop.rtp, FrameSamples))
      BY <2>1, <2>2, <2>8, <3>2, <3>4, <3>6
    <3>8. clock'.lastRTP = Plus(clock'.anchor, clock'.lastSource - clock'.source)
      BY <2>1, <2>2, <2>5, <3>1, <3>2
    <3> QED BY <2>5, <3>7, <3>8
  <2> QED BY <2>9, <2>10
<1> QED BY <1>1, <1>4, <1>5

\* The frames that are sent do not overlap.
LEMMA OverlapFresh ==
    ASSUME LoopTypes, nonce \in Nat, Timeline, Numbers, loop.at = "send", SendFreshOk
    PROVE  NoOverlap'
<1>1. NewPacket \in Packet /\ NewPacket.seq = loop.seq /\ NewPacket.rtp = loop.rtp /\ NewPacket.fresh
  BY NewPacketIs
<1>2. sent \in Seq(Packet) /\ sent' = Append(sent, NewPacket)
  BY DEF Numbers, SendFreshOk
<1>3. /\ Len(sent) \in Nat /\ Len(sent') = Len(sent) + 1
      /\ DOMAIN sent = 1..Len(sent) /\ DOMAIN sent' = 1..(Len(sent) + 1)
      /\ \A i \in 1..Len(sent) : sent'[i] = sent[i] /\ sent[i] \in Packet
      /\ sent'[Len(sent) + 1] = NewPacket
  BY <1>1, <1>2, SentGrows
<1>4. SUFFICES ASSUME NEW i \in DOMAIN sent', NEW j \in DOMAIN sent', NextFresh(i, j)'
               PROVE  /\ sent'[j].seq = (sent'[i].seq + 1) % SeqModulus
                      /\ NotBefore(sent'[j].rtp, Plus(sent'[i].rtp, FrameSamples))
  BY DEF NoOverlap
<1>5. i < j /\ sent'[i].fresh /\ sent'[j].fresh /\ \A k \in (i + 1)..(j - 1) : ~sent'[k].fresh
  BY <1>4 DEF NextFresh
<1>6. i \in 1..Len(sent) /\ sent'[i] = sent[i]
  BY <1>3, <1>5
<1>7. CASE j \in 1..Len(sent)
  <2>1. \A k \in (i + 1)..(j - 1) : ~sent[k].fresh
    <3>1. TAKE k \in (i + 1)..(j - 1)
    <3>2. k \in 1..Len(sent)
      BY <1>3, <1>6, <1>7
    <3> QED BY <1>3, <1>5, <3>2
  <2>2. sent'[j] = sent[j]
    BY <1>3, <1>7
  <2>3. NextFresh(i, j)
    BY <1>5, <1>6, <2>1, <2>2 DEF NextFresh
  <2> QED BY <1>3, <1>6, <1>7, <2>2, <2>3 DEF Timeline, NoOverlap
<1>8. CASE j = Len(sent) + 1
  <2>1. Newest(i)
    <3>1. \A k \in (i + 1)..Len(sent) : ~sent[k].fresh
      <4>1. TAKE k \in (i + 1)..Len(sent)
      <4>2. k \in (i + 1)..(j - 1) /\ k \in 1..Len(sent)
        BY <1>3, <1>6, <1>8
      <4> QED BY <1>3, <1>5, <4>2
    <3> QED BY <1>5, <1>6, <3>1 DEF Newest
  <2>2. sent[i].id = loop.frames
    BY <1>3, <1>6, <2>1 DEF Numbers, Ended
  <2>3. sent[i].seq = loop.frames % SeqModulus
    BY <1>3, <1>5, <1>6, <2>2 DEF Numbers
  <2>4. PICK n \in Int, o \in Int : n = loop.frames /\ o = 1
    BY LoopFields
  <2>5. ((n % SeqModulus) + o) % SeqModulus = (n + o) % SeqModulus
    BY Sizes, ModAdd
  <2>6. loop.seq = (loop.frames + 1) % SeqModulus
    BY DEF Numbers
  <2>7. sent'[j].seq = (sent'[i].seq + 1) % SeqModulus
    BY <1>1, <1>3, <1>6, <1>8, <2>3, <2>4, <2>5, <2>6
  <2>8. NotBefore(loop.rtp, Plus(sent[i].rtp, FrameSamples))
    BY <1>3, <1>6, <2>1 DEF Timeline
  <2> QED BY <1>1, <1>3, <1>6, <1>8, <2>7, <2>8
<1> QED BY <1>3, <1>7, <1>8

LEMMA OverlapAgain ==
    ASSUME sent \in Seq(Packet), NEW p \in Packet, ~p.fresh, sent' = Append(sent, p), NoOverlap
    PROVE  NoOverlap'
<1>3. /\ Len(sent) \in Nat /\ Len(sent') = Len(sent) + 1
      /\ DOMAIN sent = 1..Len(sent) /\ DOMAIN sent' = 1..(Len(sent) + 1)
      /\ \A i \in 1..Len(sent) : sent'[i] = sent[i] /\ sent[i] \in Packet
      /\ sent'[Len(sent) + 1] = p
  BY SentGrows
<1>4. SUFFICES ASSUME NEW i \in DOMAIN sent', NEW j \in DOMAIN sent', NextFresh(i, j)'
               PROVE  /\ sent'[j].seq = (sent'[i].seq + 1) % SeqModulus
                      /\ NotBefore(sent'[j].rtp, Plus(sent'[i].rtp, FrameSamples))
  BY DEF NoOverlap
<1>5. i < j /\ sent'[i].fresh /\ sent'[j].fresh /\ \A k \in (i + 1)..(j - 1) : ~sent'[k].fresh
  BY <1>4 DEF NextFresh
<1>6. i \in 1..Len(sent) /\ j \in 1..Len(sent) /\ sent'[i] = sent[i] /\ sent'[j] = sent[j]
  BY <1>3, <1>5
<1>7. \A k \in (i + 1)..(j - 1) : ~sent[k].fresh
  <2>1. TAKE k \in (i + 1)..(j - 1)
  <2>2. k \in 1..Len(sent)
    BY <1>3, <1>6
  <2> QED BY <1>3, <1>5, <2>2
<1>8. NextFresh(i, j)
  BY <1>5, <1>6, <1>7 DEF NextFresh
<1> QED BY <1>3, <1>6, <1>8 DEF NoOverlap

LEMMA TimelineKept ==
    ASSUME ReaderInv, LoopTypes, Timeline, Numbers, Nonces, [Next]_vars
    PROVE  Timeline'
<1>0. nonce \in Nat /\ sent \in Seq(Packet)
  BY DEF Nonces, Numbers
<1>1. CASE Aside
  <2>1. UNCHANGED <<mode, loop, clock, sent>>
    BY <1>1 DEF Aside
  <2> QED BY <2>1, TimelineSame DEF Early, Started
<1>2. CASE Goes
  <2>1. UNCHANGED <<mode, clock, sent>>
    BY <1>2 DEF Goes
  <2>2. Kept
    BY <1>2, GoesIs
  <2>3. (loop.at = "prewarm" /\ loop'.at = "first") \/ loop'.at \in {"ending", "returned"}
    BY <1>2, GoesIs
  <2>4. /\ Early' => Early
        /\ Started' => Started
        /\ loop'.at \notin {"read", "map", "reset", "send", "resend"}
    BY <2>3 DEF Early, Started
  <2> QED BY <2>1, <2>2, <2>4, TimelineSame DEF Kept
<1>3. CASE Take
  <2>1. UNCHANGED <<mode, clock, sent>>
    BY <1>3, Takes
  <2>2. Kept /\ TakeMoves
    BY <1>3, Takes
  <2>3. /\ Early' => Early
        /\ Started' => Started
        /\ loop'.at \in {"read", "map"} => loop.at \in {"read", "map"}
        /\ loop'.at \notin {"reset", "send", "resend"}
    BY <2>2 DEF TakeMoves, Early, Started
  <2> QED BY <2>1, <2>2, <2>3, TimelineSame DEF Kept
<1>4. CASE Open
  <2>1. loop.at = "open" /\ UNCHANGED <<mode, sent>>
    BY <1>4, Opens
  <2>2. PICK epoch \in Positions : OpensAt(epoch)
    BY <1>4, Opens
  <2>3. (loop'.at = "send" /\ loop'.rtp = epoch) \/ loop'.at = "ending"
    BY <2>2, OpensLoop
  <2>4. sent = <<>>
    BY <2>1 DEF Timeline
  <2>5. clock' = FirstMapped(loop.frame, epoch)
    BY <2>2 DEF OpensAt
  <2>6. /\ clock'.valid /\ clock'.lastRTP = epoch /\ clock'.anchor = epoch
        /\ clock'.lastSource = loop.frame.source /\ clock'.source = loop.frame.source
    BY <2>5 DEF FirstMapped
  <2>7. Plus(epoch, clock'.lastSource - clock'.source) = epoch
    <3>1. loop.frame.source \in Int
      BY LoopFields, Sizes DEF Frames, Positions
    <3>2. clock'.lastSource - clock'.source = 0
      BY <2>6, <3>1
    <3> QED BY <3>2, PlusZero
  <2>8. DOMAIN sent' = {}
    BY <2>1, <2>4
  <2> QED BY <2>3, <2>6, <2>7, <2>8 DEF Timeline, Early, Started, NoOverlap
<1>5. CASE Map
  <2>1. loop.at = "map" /\ UNCHANGED <<mode, sent>>
    BY <1>5, Maps
  <2>2. loop'.at \in {"reset", "resend", "send"}
    BY <1>5, MapsTo
  <2>3. NotBefore(loop'.rtp, Plus(loop.rtp, FrameSamples))
    BY <1>5, MapFollows
  <2>4. /\ clock'.valid /\ (mode.stamped => clock'.lastRTP = loop'.rtp)
        /\ mode.stamped =>
             clock'.lastRTP = Plus(clock'.anchor, clock'.lastSource - clock'.source)
    BY <1>5, MapFollows
  <2>5. \A i \in DOMAIN sent : Newest(i) => sent[i].rtp = loop.rtp
    BY <2>1 DEF Timeline
  <2>6. \A i \in DOMAIN sent' : Newest(i)' => NotBefore(loop'.rtp, Plus(sent'[i].rtp, FrameSamples))
    BY <2>1, <2>3, <2>5 DEF Newest
  <2>7. NoOverlap'
    BY <2>1 DEF Timeline, NoOverlap, NextFresh
  <2> QED BY <2>1, <2>2, <2>4, <2>6, <2>7 DEF Timeline, Started
<1>6. CASE AnnounceReset
  <2>1. loop.at = "reset" /\ UNCHANGED <<mode, clock, sent>>
    BY <1>6, ResetIs
  <2>2. Kept
    BY <1>6, ResetIs
  <2>3. loop'.at \in {"resend", "send", "ending"}
    BY <1>6, ResetIs DEF Sends
  <2>4. /\ Early' => Early
        /\ Started' => Started
        /\ loop'.at \notin {"read", "map"}
        /\ loop.at \in {"reset", "send", "resend"}
    BY <2>1, <2>3 DEF Early, Started
  <2> QED BY <2>1, <2>2, <2>4, TimelineSame DEF Kept
<1>7. CASE SendFresh
  <2>1. loop.at = "send" /\ UNCHANGED <<mode, clock>> /\ (SendFreshOk \/ Failed)
    BY <1>7, SendsFresh
  <2>2. CASE Failed
    <3>1. sent' = sent /\ loop'.at = "ending"
      BY <2>2, FailedIs
    <3>2. loop'.rtp = loop.rtp
      BY <2>2, FailedIs DEF Kept
    <3> QED BY <2>1, <3>1, <3>2, TimelineSame DEF Early, Started
  <2>3. CASE SendFreshOk
    <3>1. NewPacket \in Packet /\ NewPacket.rtp = loop.rtp /\ NewPacket.fresh
      BY <1>0, NewPacketIs
    <3>2. sent' = Append(sent, NewPacket)
      BY <2>3 DEF SendFreshOk
    <3>3. loop'.at = "read" /\ loop'.rtp = loop.rtp
      BY <1>0, <2>3, SendFreshIs
    <3>4. ASSUME NEW i \in DOMAIN sent', Newest(i)'
          PROVE  sent'[i].rtp = loop'.rtp
      <4>1. sent'[i] = NewPacket
        BY <1>0, <3>1, <3>2, <3>4, NewestFresh
      <4> QED BY <3>1, <3>3, <4>1
    <3>5. NoOverlap'
      BY <1>0, <2>1, <2>3, OverlapFresh
    <3>6. clock.valid /\ (mode.stamped => clock.lastRTP = loop.rtp)
          /\ (mode.stamped => clock.lastRTP = Plus(clock.anchor, clock.lastSource - clock.source))
      BY <2>1 DEF Timeline, Started
    <3> QED BY <2>1, <3>3, <3>4, <3>5, <3>6 DEF Timeline
  <2> QED BY <2>1, <2>2, <2>3
<1>8. CASE SendAgain
  <2>1. loop.at = "resend" /\ UNCHANGED <<mode, clock>> /\ (SendAgainOk \/ Failed)
    BY <1>8, SendsAgain
  <2>2. CASE Failed
    <3>1. sent' = sent /\ loop'.at = "ending"
      BY <2>2, FailedIs
    <3>2. loop'.rtp = loop.rtp
      BY <2>2, FailedIs DEF Kept
    <3> QED BY <2>1, <3>1, <3>2, TimelineSame DEF Early, Started
  <2>3. CASE SendAgainOk
    <3>1. OldPacket \in Packet /\ ~OldPacket.fresh
      BY <2>1, OldPacketIs DEF Nonces
    <3>2. sent' = Append(sent, OldPacket)
      BY <2>3 DEF SendAgainOk
    <3>3. loop'.at = "send" /\ loop'.rtp = loop.rtp
      BY <2>3, SendAgainIs DEF Kept
    <3>4. ASSUME NEW i \in DOMAIN sent', Newest(i)'
          PROVE  NotBefore(loop'.rtp, Plus(sent'[i].rtp, FrameSamples))
      <4>1. i \in DOMAIN sent /\ Newest(i) /\ sent'[i] = sent[i]
        BY <1>0, <3>1, <3>2, <3>4, NewestAgain
      <4>2. NotBefore(loop.rtp, Plus(sent[i].rtp, FrameSamples))
        BY <2>1, <4>1 DEF Timeline
      <4> QED BY <3>3, <4>1, <4>2
    <3>5. NoOverlap'
      BY <1>0, <3>1, <3>2, OverlapAgain DEF Timeline
    <3>6. clock.valid /\ (mode.stamped => clock.lastRTP = loop.rtp)
          /\ (mode.stamped => clock.lastRTP = Plus(clock.anchor, clock.lastSource - clock.source))
      BY <2>1 DEF Timeline, Started
    <3> QED BY <2>1, <3>3, <3>4, <3>5, <3>6 DEF Timeline
  <2> QED BY <2>1, <2>2, <2>3
<1> QED BY <1>1, <1>2, <1>3, <1>4, <1>5, <1>6, <1>7, <1>8, Kinds

-----------------------------------------------------------------------------
(* The theorems.                                                             *)
LEMMA AudioStarts == Init => AudioInv
<1> SUFFICES ASSUME Init PROVE AudioInv
  OBVIOUS
<1>1. 0 \in Positions /\ Starts \subseteq Positions /\ <<>> \in Seq(Sample) /\ <<>> \in Seq(Packet)
  BY FramesAssumption DEF Positions
<1>2. ReaderInv
  <2>1. PICK start \in Starts :
          source = [seq |-> 0, ts |-> start, ssrc |-> 0, time |-> 0, made |-> 0]
    BY DEF Init, FramesInit
  <2>2. reader = [pcm |-> <<>>, have |-> FALSE, base |-> 0, time |-> 0,
                  received |-> 0, consumed |-> 0, seq |-> 0, ssrc |-> 0]
    BY DEF Init, FramesInit
  <2>3. source \in SourceRecord
    BY <1>1, <2>1 DEF SourceRecord
  <2>4. reader \in ReaderRecord
    BY <1>1, <2>2 DEF ReaderRecord
  <2>5. reader.pcm = <<>> /\ reader.received = 0 /\ reader.consumed = 0
    BY <2>2
  <2>6. Held(reader)
    BY <2>5 DEF Held
  <2>7. PICK n \in PacketSamples : n \in Nat
    BY FramesAssumption
  <2>8. Short(reader)
    BY <2>5, <2>7, Sizes DEF Short
  <2> QED BY <2>3, <2>4, <2>6, <2>8 DEF ReaderInv, ReaderTypes
<1>3. /\ mode \in Modes /\ sent = <<>> /\ rtpTime = 0 /\ nonce = 0
      /\ loop = [at |-> "prewarm", frame |-> NoFrame, catchup |-> 0, frames |-> 0,
                 seq |-> 1, rtp |-> 0, old |-> <<>>]
      /\ ring = [i \in 0..(History - 1) |-> NoPacket]
      /\ announceMu = "free" /\ announcer = [at |-> "off", rtp |-> 0, epoch |-> 0]
      /\ control = [at |-> "off", next |-> 0, left |-> 0]
      /\ clock = [valid |-> FALSE, anchor |-> 0, source |-> 0, lastRTP |-> 0,
                  lastSource |-> 0, lastTime |-> 0, epoch |-> 0]
  BY DEF Init, FramesInit
<1>4. /\ loop.at = "prewarm" /\ loop.frame = NoFrame /\ loop.frames = 0 /\ loop.seq = 1
      /\ loop.old = <<>> /\ ~clock.valid
  BY <1>3
<1>5. LoopTypes
  <2>1. 1 \in 0..(SeqModulus - 1)
    BY Sizes
  <2>2. loop \in LoopRecord
    BY <1>1, <1>3, <2>1, NoFrameIs DEF LoopRecord, Places
  <2>3. clock \in ClockRecord
    BY <1>1, <1>3 DEF ClockRecord
  <2>4. Len(loop.old) <= Depth
    BY <1>4, Sizes
  <2> QED BY <1>1, <1>3, <1>4, <2>2, <2>3, <2>4 DEF LoopTypes, FrameExact
<1>6. DOMAIN sent = {}
  BY <1>3
<1>7. Timeline
  BY <1>3, <1>4, <1>6 DEF Timeline, Started, NoOverlap
<1>8. Numbers
  <2>1. (0 + 1) % SeqModulus = 1
    <3>1. PICK r \in 0..(SeqModulus - 1) : r = 1
      BY Sizes
    <3>2. r % SeqModulus = r
      BY Sizes, ModSmall
    <3> QED BY <3>1, <3>2
  <2>2. sent \in Seq(Packet)
    BY <1>1, <1>3
  <2> QED BY <1>4, <1>6, <2>1, <2>2 DEF Numbers
<1>9. Remembered
  <2>1. 1..loop.frames = {}
    BY <1>4
  <2> QED BY <1>3, <2>1 DEF Remembered
<1>10. Asked
  <2>1. 0 \in 0..(SeqModulus - 1) /\ 0 \in 0..(History + 1)
    BY Sizes
  <2> QED BY <1>3, <2>1 DEF Asked
<1>11. Nonces
  BY <1>3, <1>4, <1>6 DEF Nonces
<1>12. Announced
  BY <1>1, <1>3, <1>4 DEF Announced
<1> QED BY <1>2, <1>5, <1>7, <1>8, <1>9, <1>10, <1>11, <1>12 DEF AudioInv

\* The invariant of the audio stream holds: the reader holds consecutive samples of one
\* source, the loop's frame and its position follow the last one sent, numbers count frames,
\* the ring holds the newest packet of each slot, nonces only grow, and nobody else announces
\* between a reset and its announcement.
THEOREM AudioInvariant == Spec => []AudioInv
<1>1. Init => AudioInv
  BY AudioStarts
<1>2. ASSUME AudioInv, [Next]_vars
      PROVE  AudioInv'
  <2>1. ReaderInv /\ LoopTypes /\ Timeline /\ Numbers /\ Remembered /\ Asked /\ Nonces /\ Announced
    BY <1>2 DEF AudioInv
  <2>2. nonce \in Nat
    BY <2>1 DEF Nonces
  <2>3. ReaderInv'
    BY <1>2, <2>1, ReaderKept
  <2>4. LoopTypes'
    BY <1>2, <2>1, <2>2, LoopTypesKept
  <2>5. Timeline'
    BY <1>2, <2>1, TimelineKept
  <2>6. Numbers'
    BY <1>2, <2>1, NumbersKept
  <2>7. Remembered'
    BY <1>2, <2>1, RememberedKept
  <2>8. Asked'
    BY <1>2, <2>1, AskedKept
  <2>9. Nonces'
    BY <1>2, <2>1, NoncesKept
  <2>10. Announced'
    BY <1>2, <2>1, AnnouncedKept
  <2> QED BY <2>3, <2>4, <2>5, <2>6, <2>7, <2>8, <2>9, <2>10 DEF AudioInv
<1> QED BY <1>1, <1>2, PTL DEF Spec

LEMMA TypesFollow == AudioInv => TypeOK
<1> SUFFICES ASSUME AudioInv PROVE TypeOK
  OBVIOUS
<1>1. LoopTypes /\ Short(reader) /\ Asked /\ Announced
  BY DEF AudioInv, ReaderInv
<1>2. loop.at \in Places /\ loop.rtp \in Positions /\ loop.seq \in 0..(SeqModulus - 1)
  BY <1>1, LoopFields
<1>3. clock.lastRTP \in Positions
  BY <1>1, ClockFields
<1>4. mode \in Modes /\ rtpTime \in Positions /\ Len(loop.old) <= Depth
  BY <1>1 DEF LoopTypes
<1>5. control.left \in 0..(History + 1) /\ announceMu \in {"free", "loop", "announcer"}
  BY <1>1 DEF Asked, Announced
<1>6. \E n \in PacketSamples : Len(reader.pcm) < FrameSamples + n
  BY <1>1 DEF Short
<1> QED BY <1>2, <1>3, <1>4, <1>5, <1>6 DEF TypeOK, Positions

\* Every variable keeps its type: the reader never holds more than one packet beyond a frame,
\* positions and numbers stay in the width that wraps, and at most Depth frames are kept to be
\* sent again.
THEOREM AudioTypes == Spec => []TypeOK
<1>1. AudioInv => TypeOK
  BY TypesFollow
<1> QED BY <1>1, AudioInvariant, PTL

\* A frame is never put together across a hole or from two sources and carries the position of
\* its first sample, and frames are sent under consecutive numbers without overlapping,
\* whatever is lost, restarted or wraps.
THEOREM AudioFramesInOrder == Spec => []FramesInOrder
<1>1. AudioInv => FramesInOrder
  BY DEF AudioInv, LoopTypes, Timeline, FramesInOrder
<1> QED BY <1>1, AudioInvariant, PTL

LEMMA NeverReused == AudioInv => NonceUnique
<1> SUFFICES ASSUME AudioInv, mode.chacha, NEW i \in DOMAIN sent, NEW j \in DOMAIN sent,
                    sent[i].nonce = sent[j].nonce
             PROVE  sent[i].id = sent[j].id
  BY DEF NonceUnique
<1>1. sent \in Seq(Packet) /\ Nonces
  BY DEF AudioInv, Numbers
<1>2. i \in Nat /\ j \in Nat /\ sent[i] \in Packet /\ sent[j] \in Packet
  BY <1>1, LenProperties, ElementOfSeq
<1>3. sent[i].nonce \in Nat
  BY <1>2 DEF Packet
<1>4. ~(i < j) /\ ~(j < i)
  BY <1>1, <1>3 DEF Nonces
<1> QED BY <1>2, <1>4

LEMMA OriginalsAreSent == AudioInv => ResentIsOriginal
<1> DEFINE s == control.next % History
           p == Found(control.next)
<1> SUFFICES ASSUME AudioInv, control.at = "serve", p # NoPacket
             PROVE  /\ p.seq = control.next
                    /\ \A i \in DOMAIN sent : sent[i].fresh /\ sent[i].id = p.id => sent[i] = p
                    /\ p.id > loop.frames - SeqModulus
  BY DEF ResentIsOriginal
<1>1. Remembered /\ LoopTypes /\ control.next \in 0..(SeqModulus - 1)
  BY DEF AudioInv, Asked
<1>2. p = ring[s] /\ p.seq = control.next
  BY DEF Found
<1>3. control.next \in Int /\ s \in 0..(History - 1)
  BY <1>1, Sizes
<1> HIDE DEF p, s
<1>4. /\ p.seq = p.id % SeqModulus /\ p \in Packet /\ p.id # 0
      /\ \A i \in DOMAIN sent : sent[i].fresh /\ sent[i].id = p.id => sent[i] = p
  BY <1>1, <1>2, <1>3 DEF Remembered
<1>5. PICK x \in Int : x = p.id /\ x > 0
  BY <1>4 DEF Packet
<1>6. loop.frames \in Nat
  BY <1>1, LoopFields
<1>7. x % History = s
  <2>1. (x % SeqModulus) % History = x % History
    BY SlotOf
  <2>2. (x % SeqModulus) = control.next
    BY <1>2, <1>4, <1>5
  <2> QED BY <2>1, <2>2 DEF s
<1>8. x > loop.frames - SeqModulus
  <2>1. SUFFICES ASSUME ~(x > loop.frames - SeqModulus) PROVE FALSE
    OBVIOUS
  <2>2. PICK n \in Int : n = x + SeqModulus
    BY Sizes
  <2>3. n \in 1..loop.frames /\ x < n
    BY <1>5, <1>6, <2>1, <2>2, Sizes
  <2>4. n % History = x % History
    BY <2>2, SlotAgain
  <2>5. n <= ring[n % History].id
    BY <1>1, <2>3 DEF Remembered
  <2>6. n <= x
    BY <1>2, <1>5, <1>7, <2>4, <2>5
  <2> QED BY <2>3, <2>6
<1> QED BY <1>2, <1>4, <1>5, <1>8

\* No nonce is used for two frames, and a packet that is sent again because the receiver lost
\* it is the one it asked for, of the current cycle of numbers, as it was sent first.
THEOREM AudioPacketsUnique == Spec => []PacketsUnique
<1>1. AudioInv => PacketsUnique
  BY NeverReused, OriginalsAreSent DEF PacketsUnique
<1> QED BY <1>1, AudioInvariant, PTL

\* Whenever nobody is announcing, the mapping the receiver was told last is the one in force,
\* however the loop's reset and the periodic announcement interleave.
THEOREM AudioMappingCurrent == Spec => []MappingCurrent
<1>1. AudioInv => MappingCurrent
  BY DEF AudioInv, Announced, Ended, MappingCurrent
<1> QED BY <1>1, AudioInvariant, PTL

-----------------------------------------------------------------------------
(* How far the announced positions are behind the stream.                    *)
Gap(a, b) == (a - b) % Modulus

LEMMA GapIs ==
    ASSUME NEW a \in Positions, NEW b \in Positions
    PROVE  Gap(a, b) = IF b <= a THEN a - b ELSE (a - b) + Modulus
<1>1. Modulus \in Nat \ {0} /\ a \in Int /\ b \in Int
  BY Sizes DEF Positions
<1>2. CASE b <= a
  <2>1. a - b \in 0..(Modulus - 1) /\ a - b \in Int
    BY <1>1, <1>2 DEF Positions
  <2>2. (a - b) % Modulus = a - b
    BY <1>1, <2>1, ModSmall
  <2> QED BY <1>2, <2>2 DEF Gap
<1>3. CASE ~(b <= a)
  <2>1. PICK r \in 0..(Modulus - 1) : r = (a - b) + Modulus
    BY <1>1, <1>3 DEF Positions
  <2>2. r \in Int /\ a - b \in Int /\ a - b = (-1) * Modulus + r
    BY <1>1, <2>1
  <2>3. ((-1) * Modulus + r) % Modulus = r
    BY <1>1, <2>1, ModUnique
  <2>4. (a - b) % Modulus = r
    BY <2>2, <2>3
  <2> QED BY <1>3, <2>1, <2>4 DEF Gap
<1> QED BY <1>2, <1>3

LEMMA AheadIs ==
    ASSUME NEW a \in Positions
    PROVE  /\ Plus(a, FrameSamples) \in Positions
           /\ Plus(a, FrameSamples) = IF a + FrameSamples < Modulus THEN a + FrameSamples
                                      ELSE (a + FrameSamples) - Modulus
<1>1. Modulus \in Nat \ {0} /\ a \in Int /\ FrameSamples \in 1..(Modulus - 1)
  BY FramesAssumption, Sizes DEF Positions
<1>2. Plus(a, FrameSamples) \in Positions
  BY <1>1, PlusIs
<1>3. CASE a + FrameSamples < Modulus
  <2>1. a + FrameSamples \in 0..(Modulus - 1)
    BY <1>1, <1>3 DEF Positions
  <2>2. (a + FrameSamples) % Modulus = a + FrameSamples
    BY <1>1, <2>1, ModSmall
  <2> QED BY <1>2, <1>3, <2>2 DEF Plus
<1>4. CASE ~(a + FrameSamples < Modulus)
  <2>1. PICK r \in 0..(Modulus - 1) : r = (a + FrameSamples) - Modulus
    BY <1>1, <1>4 DEF Positions
  <2>2. a + FrameSamples = 1 * Modulus + r
    BY <1>1, <2>1
  <2>3. (1 * Modulus + r) % Modulus = r
    BY <1>1, <2>1, ModUnique
  <2>4. (a + FrameSamples) % Modulus = r
    BY <2>2, <2>3
  <2> QED BY <1>2, <1>4, <2>1, <2>4 DEF Plus
<1> QED BY <1>3, <1>4

LEMMA NotBeforeIs ==
    ASSUME NEW a \in Positions, NEW b \in Positions
    PROVE  NotBefore(a, b) <=> 2 * Gap(a, b) < Modulus
BY DEF NotBefore, Gap

LEMMA GapSize ==
    ASSUME NEW a \in Positions, NEW b \in Positions
    PROVE  Gap(a, b) \in Nat /\ Gap(a, b) < Modulus /\ Gap(a, a) = 0
BY GapIs, Sizes DEF Positions

\* Positions that are not far behind the stream stay in order when it moves on, and are
\* then at least a frame behind.
LEMMA GapGrows ==
    ASSUME NEW a \in Positions, NEW b \in Positions, NEW r \in Positions,
           2 * (Gap(a, r) + FrameSamples) < Modulus, NotBefore(b, Plus(a, FrameSamples))
    PROVE  Gap(b, r) = Gap(a, r) + Gap(b, a) /\ FrameSamples <= Gap(b, a)
<1>1. Modulus \in Nat \ {0} /\ FrameSamples \in Nat \ {0}
  BY Sizes
<1>2. PICK p \in Positions : p = Plus(a, FrameSamples)
  BY AheadIs
<1>3. p = IF a + FrameSamples < Modulus THEN a + FrameSamples ELSE (a + FrameSamples) - Modulus
  BY <1>2, AheadIs
<1>4. 2 * Gap(b, p) < Modulus
  BY <1>2, NotBeforeIs
<1>5. Gap(b, p) = IF p <= b THEN b - p ELSE (b - p) + Modulus
  BY <1>2, GapIs
<1>6. Gap(a, r) = IF r <= a THEN a - r ELSE (a - r) + Modulus
  BY GapIs
<1>7. Gap(b, r) = IF r <= b THEN b - r ELSE (b - r) + Modulus
  BY GapIs
<1>8. Gap(b, a) = IF a <= b THEN b - a ELSE (b - a) + Modulus
  BY GapIs
<1>9. a \in 0..(Modulus - 1) /\ b \in 0..(Modulus - 1) /\ r \in 0..(Modulus - 1) /\ p \in 0..(Modulus - 1)
  BY <1>2 DEF Positions
<1> QED BY <1>1, <1>3, <1>4, <1>5, <1>6, <1>7, <1>8, <1>9

\* The position after the latest frame is not before one that was announced after an earlier.
LEMMA AheadFollows ==
    ASSUME NEW a \in Positions, NEW r \in Positions, 2 * (Gap(a, r) + FrameSamples) < Modulus,
           NEW x, x \in {r, Plus(r, FrameSamples)}
    PROVE  NotBefore(Plus(a, FrameSamples), x)
<1>1. Modulus \in Nat \ {0} /\ FrameSamples \in Nat \ {0}
  BY Sizes
<1>2. PICK p \in Positions : p = Plus(a, FrameSamples)
  BY AheadIs
<1>3. p = IF a + FrameSamples < Modulus THEN a + FrameSamples ELSE (a + FrameSamples) - Modulus
  BY <1>2, AheadIs
<1>4. PICK q \in Positions : q = Plus(r, FrameSamples)
  BY AheadIs
<1>5. q = IF r + FrameSamples < Modulus THEN r + FrameSamples ELSE (r + FrameSamples) - Modulus
  BY <1>4, AheadIs
<1>6. Gap(a, r) = IF r <= a THEN a - r ELSE (a - r) + Modulus
  BY GapIs
<1>7. Gap(p, r) = IF r <= p THEN p - r ELSE (p - r) + Modulus
  BY GapIs
<1>8. Gap(p, q) = IF q <= p THEN p - q ELSE (p - q) + Modulus
  BY GapIs
<1>9. a \in 0..(Modulus - 1) /\ r \in 0..(Modulus - 1) /\ p \in 0..(Modulus - 1) /\ q \in 0..(Modulus - 1)
  BY <1>2, <1>4 DEF Positions
<1>10. 2 * Gap(p, r) < Modulus
  BY <1>1, <1>3, <1>6, <1>7, <1>9
<1>11. 2 * Gap(p, q) < Modulus
  BY <1>1, <1>3, <1>5, <1>6, <1>8, <1>9
<1>12. NotBefore(p, r) /\ NotBefore(p, q)
  BY <1>10, <1>11, NotBeforeIs
<1> QED BY <1>2, <1>4, <1>12

\* A frame's own position is not before what was announced after an earlier frame.
LEMMA FrameFollows ==
    ASSUME NEW a \in Positions, NEW r \in Positions, 2 * (Gap(a, r) + FrameSamples) < Modulus,
           FrameSamples <= Gap(a, r), NEW x, x \in {r, Plus(r, FrameSamples)}
    PROVE  NotBefore(a, x)
<1>1. Modulus \in Nat \ {0} /\ FrameSamples \in Nat \ {0}
  BY Sizes
<1>2. PICK q \in Positions : q = Plus(r, FrameSamples)
  BY AheadIs
<1>3. q = IF r + FrameSamples < Modulus THEN r + FrameSamples ELSE (r + FrameSamples) - Modulus
  BY <1>2, AheadIs
<1>4. Gap(a, r) = IF r <= a THEN a - r ELSE (a - r) + Modulus
  BY GapIs
<1>5. Gap(a, q) = IF q <= a THEN a - q ELSE (a - q) + Modulus
  BY <1>2, GapIs
<1>6. a \in 0..(Modulus - 1) /\ r \in 0..(Modulus - 1) /\ q \in 0..(Modulus - 1)
  BY <1>2 DEF Positions
<1>7. 2 * Gap(a, q) < Modulus /\ 2 * Gap(a, r) < Modulus
  BY <1>1, <1>3, <1>4, <1>5, <1>6
<1>8. NotBefore(a, q) /\ NotBefore(a, r)
  BY <1>2, <1>7, NotBeforeIs
<1> QED BY <1>2, <1>8

\* Of two positions not far behind the stream, the one less behind is not before the other.
LEMMA LessBehind ==
    ASSUME NEW a \in Positions, NEW x \in Positions, NEW y \in Positions,
           2 * (Gap(a, x) + FrameSamples) < Modulus, 2 * (Gap(a, y) + FrameSamples) < Modulus
    PROVE  /\ NotBefore(x, y) <=> Gap(a, x) <= Gap(a, y)
           /\ Gap(a, x) = Gap(a, y) => x = y
<1>1. Modulus \in Nat \ {0} /\ FrameSamples \in Nat \ {0}
  BY Sizes
<1>2. Gap(a, x) = IF x <= a THEN a - x ELSE (a - x) + Modulus
  BY GapIs
<1>3. Gap(a, y) = IF y <= a THEN a - y ELSE (a - y) + Modulus
  BY GapIs
<1>4. Gap(x, y) = IF y <= x THEN x - y ELSE (x - y) + Modulus
  BY GapIs
<1>5. a \in 0..(Modulus - 1) /\ x \in 0..(Modulus - 1) /\ y \in 0..(Modulus - 1)
  BY DEF Positions
<1>6. 2 * Gap(x, y) < Modulus <=> Gap(a, x) <= Gap(a, y)
  BY <1>1, <1>2, <1>3, <1>4, <1>5
<1>7. Gap(a, x) = Gap(a, y) => x = y
  BY <1>1, <1>2, <1>3, <1>5
<1> QED BY <1>6, <1>7, NotBeforeIs

\* The positions of the frames that were sent, and that of the loop's last one.
Past == {sent[i].rtp : i \in {j \in DOMAIN sent : sent[j].fresh}}
Heard == Past \cup {loop.rtp}

\* What the order of positions that wrap depends on: the stream is at less than half of
\* their range from every frame it sent (13 hours of 44100 Hz).
Near == \A r \in Heard : 2 * (Gap(loop.rtp, r) + FrameSamples) < Modulus

\* Where the loop is, from what it sent.
LoopAhead ==
    /\ loop.at \in {"read", "map"} => loop.rtp \in Past
    /\ loop.at \in {"reset", "send", "resend"} => \A r \in Past : FrameSamples <= Gap(loop.rtp, r)
    /\ \A i \in 1..Len(loop.old) : loop.old[i].rtp \in Past
    /\ loop.at = "reset" => mode.stamped
\* While the announcer runs, AudioStream.rtpTime is the newest position sent.
NewestSent ==
    /\ Early => announced.rtp = -1 /\ Past = {}
    /\ Started => announcer.at # "off"
    /\ announcer.at # "off" =>
         /\ rtpTime \in Heard /\ \A r \in Past : Gap(loop.rtp, rtpTime) <= Gap(loop.rtp, r)
         /\ mode.stamped => clock.lastRTP = loop.rtp
\* What was announced last, and what is announced next.
LastAnnounced ==
    announced.rtp # -1 =>
        /\ announcer.at # "off"
        /\ mode.stamped => \E r \in Heard :
             /\ announced.rtp \in {r, Plus(r, FrameSamples)}
             /\ loop.at = "reset" => r \in Past
        /\ ~mode.stamped =>
             announced.rtp \in Heard /\ Gap(loop.rtp, rtpTime) <= Gap(loop.rtp, announced.rtp)
NextAnnounced ==
    announcer.at = "hold" =>
        /\ mode.stamped => announcer.rtp = Plus(loop.rtp, FrameSamples)
        /\ ~mode.stamped =>
             /\ announcer.rtp \in Heard /\ Gap(loop.rtp, rtpTime) <= Gap(loop.rtp, announcer.rtp)
             /\ announced.rtp # -1 => Gap(loop.rtp, announcer.rtp) <= Gap(loop.rtp, announced.rtp)
\* The inductive invariant of the announced position, for a stream that stays near.
ForwardInv == LoopAhead /\ NewestSent /\ LastAnnounced /\ NextAnnounced

LEMMA PastIs ==
    ASSUME LoopTypes, Numbers
    PROVE  Past \subseteq Positions /\ Heard \subseteq Positions
<1>1. \A i \in DOMAIN sent : sent[i].rtp \in Positions
  <2>1. sent \in Seq(Packet)
    BY DEF Numbers
  <2>2. \A i \in DOMAIN sent : sent[i] \in Packet
    BY <2>1
  <2> QED BY <2>2 DEF Packet
<1> QED BY <1>1, LoopFields DEF Past, Heard

LEMMA PastGrows ==
    ASSUME Numbers, NEW p \in Packet, sent' = Append(sent, p)
    PROVE  Past' = IF p.fresh THEN Past \cup {p.rtp} ELSE Past
<1>1. sent \in Seq(Packet)
  BY DEF Numbers
<1>2. /\ Len(sent) \in Nat
      /\ DOMAIN sent = 1..Len(sent) /\ DOMAIN sent' = 1..(Len(sent) + 1)
      /\ \A i \in 1..Len(sent) : sent'[i] = sent[i]
      /\ sent'[Len(sent) + 1] = p
  BY <1>1, SentGrows
<1>3. \A i \in 1..(Len(sent) + 1) : i \in 1..Len(sent) \/ i = Len(sent) + 1
  BY <1>2
<1>4. \A i \in DOMAIN sent' : (i \in DOMAIN sent /\ sent'[i] = sent[i]) \/ sent'[i] = p
  BY <1>2, <1>3
<1>5. \A i \in DOMAIN sent : i \in DOMAIN sent' /\ sent'[i] = sent[i]
  BY <1>2
<1>6. Len(sent) + 1 \in DOMAIN sent'
  BY <1>2
<1>7. ASSUME NEW r \in Past'
      PROVE  r \in Past \/ (p.fresh /\ r = p.rtp)
  <2>1. PICK i \in DOMAIN sent' : sent'[i].fresh /\ r = sent'[i].rtp
    BY <1>7 DEF Past
  <2> QED BY <1>4, <2>1 DEF Past
<1>8. Past \subseteq Past'
  BY <1>5 DEF Past
<1>9. p.fresh => p.rtp \in Past'
  BY <1>2, <1>6 DEF Past
<1> QED BY <1>7, <1>8, <1>9

\* Nothing that is sent or announced changes.
LEMMA ForwardSame ==
    ASSUME ForwardInv, UNCHANGED <<mode, clock, sent, rtpTime, announcer, announced>>,
           loop'.rtp = loop.rtp, loop'.old = loop.old, Early' => Early, Started' => Started,
           loop'.at \in {"read", "map"} => loop.at \in {"read", "map"},
           loop'.at \in {"reset", "send", "resend"} => loop.at \in {"reset", "send", "resend"},
           loop'.at = "reset" => loop.at = "reset"
    PROVE  ForwardInv'
<1>1. Past' = Past /\ Heard' = Heard
  BY DEF Past, Heard
<1>2. LoopAhead'
  BY <1>1 DEF ForwardInv, LoopAhead
<1>3. NewestSent'
  BY <1>1 DEF ForwardInv, NewestSent
<1>4. LastAnnounced'
  BY <1>1 DEF ForwardInv, LastAnnounced
<1>5. NextAnnounced'
  BY <1>1 DEF ForwardInv, NextAnnounced
<1> QED BY <1>2, <1>3, <1>4, <1>5 DEF ForwardInv

\* The worker that repeats the announcement.
LEMMA AnnouncerForward ==
    ASSUME LoopTypes, Numbers, Announced, ForwardInv, Tick \/ AnnouncerStep
    PROVE  ForwardInv'
<1>1. announcer \in [at : {"off", "wait", "due", "hold", "done"}, rtp : Positions, epoch : Nat]
  BY AnnouncerIs
<1>2. UNCHANGED <<loop, mode, clock, sent, rtpTime>> /\ Past' = Past /\ Heard' = Heard
  BY DEF Tick, AnnouncerStep, ReadPosition, Repeat, AnnouncerEnds, Past, Heard
<1>3. announcer.at # "off" /\ announcer'.at # "off"
  <2>1. CASE Tick \/ AnnouncerEnds \/ Repeat
    <3>1. PICK at \in {"due", "done", "wait"} : announcer' = [announcer EXCEPT !.at = at]
      BY <2>1 DEF Tick, AnnouncerEnds, Repeat
    <3>2. announcer'.at = at
      BY <1>1, <3>1
    <3> QED BY <2>1, <3>2 DEF Tick, AnnouncerEnds, Repeat
  <2>2. CASE ReadPosition
    <3>1. announcer'.at = "hold"
      BY <2>2 DEF ReadPosition
    <3> QED BY <2>2, <3>1 DEF ReadPosition
  <2> QED BY <2>1, <2>2 DEF AnnouncerStep
<1>4. LoopAhead'
  BY <1>2 DEF ForwardInv, LoopAhead
<1>5. ~Early
  BY <1>3, AnnouncerIs
<1>6. NewestSent'
  BY <1>2, <1>3, <1>5 DEF ForwardInv, NewestSent, Early, Started
<1>7. CASE Tick \/ AnnouncerEnds
  <2>1. PICK at \in {"due", "done"} : announcer' = [announcer EXCEPT !.at = at]
    BY <1>7 DEF Tick, AnnouncerEnds
  <2>2. announcer'.at # "hold"
    BY <1>1, <2>1
  <2>3. announced' = announced
    BY <1>7 DEF Tick, AnnouncerEnds
  <2>4. LastAnnounced'
    BY <1>2, <1>3, <2>3 DEF ForwardInv, LastAnnounced
  <2> QED BY <1>4, <1>6, <2>2, <2>4 DEF ForwardInv, NextAnnounced
<1>8. CASE ReadPosition
  <2>1. announced' = announced
    BY <1>8 DEF ReadPosition
  <2>2. LastAnnounced'
    BY <1>2, <1>3, <2>1 DEF ForwardInv, LastAnnounced
  <2>3. rtpTime \in Heard /\ (mode.stamped => clock.lastRTP = loop.rtp)
    BY <1>3 DEF ForwardInv, NewestSent
  <2>4. CASE mode.stamped
    <3>1. announcer'.rtp = Plus(clock.lastRTP, FrameSamples)
      BY <1>8, <2>4 DEF ReadPosition
    <3>2. announcer'.rtp = Plus(loop.rtp, FrameSamples)
      BY <2>3, <2>4, <3>1
    <3>3. NextAnnounced'
      BY <1>2, <2>4, <3>2 DEF NextAnnounced
    <3> QED BY <1>4, <1>6, <2>2, <3>3 DEF ForwardInv
  <2>5. CASE ~mode.stamped
    <3>1. announcer'.rtp = rtpTime
      BY <1>8, <2>5 DEF ReadPosition
    <3>2. Gap(loop.rtp, rtpTime) <= Gap(loop.rtp, rtpTime)
      <4>1. loop.rtp \in Positions /\ rtpTime \in Positions
        BY LoopFields DEF LoopTypes
      <4> QED BY <4>1, GapSize
    <3>3. announced.rtp # -1 => Gap(loop.rtp, rtpTime) <= Gap(loop.rtp, announced.rtp)
      BY <2>5 DEF ForwardInv, LastAnnounced
    <3>4. NextAnnounced'
      BY <1>2, <2>1, <2>3, <2>5, <3>1, <3>2, <3>3 DEF NextAnnounced
    <3> QED BY <1>4, <1>6, <2>2, <3>4 DEF ForwardInv
  <2> QED BY <2>4, <2>5
<1>9. CASE Repeat
  <2>1. /\ announcer.at = "hold" /\ announcer' = [announcer EXCEPT !.at = "wait"]
        /\ announceMu' = IF announceMu = "announcer" THEN "free" ELSE announceMu
        /\ announced' = Announcement(announcer.rtp, announcer.epoch) \/ announced' = announced
    BY <1>9 DEF Repeat
  <2>2. announcer'.at = "wait"
    BY <1>1, <2>1
  <2>3. CASE announced' = announced
    <3>1. LastAnnounced'
      BY <1>2, <1>3, <2>3 DEF ForwardInv, LastAnnounced
    <3> QED BY <1>4, <1>6, <2>2, <3>1 DEF ForwardInv, NextAnnounced
  <2>4. CASE announced' = Announcement(announcer.rtp, announcer.epoch)
    <3>1. announced'.rtp = announcer.rtp
      BY <2>4 DEF Announcement
    <3>2. mode.stamped => announcer.rtp = Plus(loop.rtp, FrameSamples) /\ loop.at # "reset"
      BY <2>1, AnnouncerIs DEF ForwardInv, NextAnnounced
    <3>3. ~mode.stamped =>
             announcer.rtp \in Heard /\ Gap(loop.rtp, rtpTime) <= Gap(loop.rtp, announcer.rtp)
      BY <2>1 DEF ForwardInv, NextAnnounced
    <3>4. LastAnnounced'
      BY <1>2, <1>3, <3>1, <3>2, <3>3 DEF LastAnnounced, Heard
    <3> QED BY <1>4, <1>6, <2>2, <3>4 DEF ForwardInv, NextAnnounced
  <2> QED BY <2>1, <2>3, <2>4
<1> QED BY <1>7, <1>8, <1>9 DEF AnnouncerStep

\* The first frame is announced at the position it is sent at.
LEMMA OpenForward ==
    ASSUME LoopTypes, Timeline, Announced, ForwardInv, Open
    PROVE  ForwardInv'
<1>1. /\ loop.at = "open" /\ UNCHANGED <<mode, sent, announceMu>>
  BY Opens
<1>2. Early /\ announcer.at = "off" /\ announced.rtp = -1 /\ Past = {} /\ Past' = {}
  BY <1>1, AnnouncerIs DEF Early, ForwardInv, NewestSent, Past
<1>3. PICK epoch \in Positions :
        /\ rtpTime' = epoch
        /\ clock' = FirstMapped(loop.frame, epoch)
        /\ \/ /\ announced' = Announcement(epoch, clock'.epoch)
              /\ loop' = [loop EXCEPT !.at = "send", !.rtp = epoch]
              /\ announcer' = [announcer EXCEPT !.at = "wait"]
           \/ /\ Loop("ending")
              /\ UNCHANGED <<announced, announcer>>
  BY Sizes DEF Open
<1>4. loop \in LoopRecord /\ "ending" \in Places
        /\ announcer \in [at : {"off", "wait", "due", "hold", "done"}, rtp : Positions, epoch : Nat]
  BY LoopFields, AnnouncerIs DEF Places
<1>5. \A i \in 1..Len(loop.old) : FALSE
  BY <1>2 DEF ForwardInv, LoopAhead
<1>6. CASE Loop("ending") /\ UNCHANGED <<announced, announcer>>
  <2>1. loop'.at = "ending" /\ loop'.rtp = loop.rtp /\ loop'.old = loop.old
    BY <1>4, <1>6, LoopKeeps
  <2>2. LoopAhead'
    BY <1>5, <2>1 DEF LoopAhead
  <2>3. NewestSent'
    BY <1>2, <1>6, <2>1 DEF NewestSent, Early, Started
  <2> QED BY <1>2, <1>6, <2>2, <2>3 DEF ForwardInv, LastAnnounced, NextAnnounced
<1>7. CASE /\ announced' = Announcement(epoch, clock'.epoch)
           /\ loop' = [loop EXCEPT !.at = "send", !.rtp = epoch]
           /\ announcer' = [announcer EXCEPT !.at = "wait"]
  <2>1. loop'.at = "send" /\ loop'.rtp = epoch /\ loop'.old = loop.old
    BY <1>4, <1>7 DEF LoopRecord
  <2>2. announcer'.at = "wait" /\ announced'.rtp = epoch
    BY <1>4, <1>7 DEF Announcement
  <2>3. clock'.lastRTP = epoch
    BY <1>3 DEF FirstMapped
  <2>4. Heard' = {epoch} /\ Gap(epoch, epoch) \in Nat
    BY <1>2, <2>1, GapSize DEF Heard
  <2>5. LoopAhead'
    BY <1>2, <1>5, <2>1 DEF LoopAhead
  <2>6. NewestSent'
    BY <1>2, <1>3, <2>1, <2>2, <2>3, <2>4 DEF NewestSent, Early, Started
  <2>7. LastAnnounced'
    BY <1>3, <2>1, <2>2, <2>4 DEF LastAnnounced
  <2> QED BY <2>2, <2>5, <2>6, <2>7 DEF ForwardInv, NextAnnounced
<1> QED BY <1>3, <1>6, <1>7

\* A later frame is at a later position: what was announced stays as far behind the frames
\* that were sent, and an announcement in progress is one of bare PCM.
LEMMA MapForward ==
    ASSUME LoopTypes, Timeline, Numbers, Announced, ForwardInv, Near, Map
    PROVE  ForwardInv'
<1>1. /\ loop.at = "map" /\ UNCHANGED <<mode, rtpTime, sent, announcer, announced>>
      /\ MapStamped \/ MapBare
  BY Maps
<1>2. /\ loop'.at \in {"reset", "resend", "send"} /\ loop'.rtp \in Positions
      /\ loop'.old = loop.old
  BY MapsTo
<1>3. /\ NotBefore(loop'.rtp, Plus(loop.rtp, FrameSamples))
      /\ mode.stamped => clock'.lastRTP = loop'.rtp
  BY MapFollows
<1>4. loop.rtp \in Past /\ Past' = Past /\ Heard = Past /\ Heard \subseteq Heard'
  BY <1>1 DEF ForwardInv, LoopAhead, Past, Heard
<1>5. Past \subseteq Positions /\ loop.rtp \in Positions /\ FrameSamples \in Nat \ {0}
  BY PastIs, LoopFields, Sizes
<1>6. PICK g \in Nat : g = Gap(loop'.rtp, loop.rtp)
  BY <1>2, <1>5, GapSize
<1>7. ASSUME NEW r \in Past
      PROVE  /\ Gap(loop'.rtp, r) = Gap(loop.rtp, r) + g /\ FrameSamples <= g
             /\ Gap(loop.rtp, r) \in Nat
  <2>1. r \in Positions /\ 2 * (Gap(loop.rtp, r) + FrameSamples) < Modulus
    BY <1>4, <1>5 DEF Near
  <2> QED BY <1>2, <1>3, <1>5, <1>6, <2>1, GapGrows, GapSize
<1>8. \A r \in Past : FrameSamples <= Gap(loop'.rtp, r)
  <2>1. ASSUME NEW r \in Past
        PROVE  FrameSamples <= Gap(loop'.rtp, r)
    <3>1. PICK d \in Nat : d = Gap(loop.rtp, r)
      BY <1>7
    <3>2. Gap(loop'.rtp, r) = d + g /\ FrameSamples <= g
      BY <1>7, <3>1
    <3> QED BY <1>5, <1>6, <3>1, <3>2
  <2> QED BY <2>1
<1>9. ASSUME NEW x \in Past, NEW y \in Past, Gap(loop.rtp, x) <= Gap(loop.rtp, y)
      PROVE  Gap(loop'.rtp, x) <= Gap(loop'.rtp, y)
  <2>1. PICK d \in Nat, e \in Nat : d = Gap(loop.rtp, x) /\ e = Gap(loop.rtp, y)
    BY <1>7
  <2>2. Gap(loop'.rtp, x) = d + g /\ Gap(loop'.rtp, y) = e + g /\ d <= e
    BY <1>7, <1>9, <2>1
  <2> QED BY <1>6, <2>1, <2>2
<1>10. LoopAhead'
  <2>1. loop'.at = "reset" => mode.stamped
    BY <1>1 DEF MapStamped, MapBare, Sends
  <2> QED BY <1>1, <1>2, <1>4, <1>8, <2>1 DEF ForwardInv, LoopAhead
<1>11. announcer.at # "off"
  BY <1>1 DEF ForwardInv, NewestSent, Started
<1>12. rtpTime \in Past
  BY <1>4, <1>11 DEF ForwardInv, NewestSent
<1>13. NewestSent'
  <2>1. \A r \in Past : Gap(loop'.rtp, rtpTime) <= Gap(loop'.rtp, r)
    BY <1>9, <1>11, <1>12 DEF ForwardInv, NewestSent
  <2> QED BY <1>1, <1>2, <1>3, <1>4, <1>11, <1>12, <2>1 DEF NewestSent, Early
<1>14. LastAnnounced'
  <2>1. CASE announced.rtp = -1
    BY <1>1, <2>1 DEF LastAnnounced
  <2>2. CASE announced.rtp # -1 /\ mode.stamped
    <3>1. PICK r \in Past : announced.rtp \in {r, Plus(r, FrameSamples)}
      BY <1>4, <2>2 DEF ForwardInv, LastAnnounced
    <3> QED BY <1>1, <1>4, <1>11, <2>2, <3>1 DEF LastAnnounced
  <2>3. CASE announced.rtp # -1 /\ ~mode.stamped
    <3>1. announced.rtp \in Past /\ Gap(loop.rtp, rtpTime) <= Gap(loop.rtp, announced.rtp)
      BY <1>4, <2>3 DEF ForwardInv, LastAnnounced
    <3>2. Gap(loop'.rtp, rtpTime) <= Gap(loop'.rtp, announced.rtp)
      BY <1>9, <1>12, <3>1
    <3> QED BY <1>1, <1>4, <1>11, <2>3, <3>1, <3>2 DEF LastAnnounced
  <2> QED BY <2>1, <2>2, <2>3
<1>15. NextAnnounced'
  <2>1. CASE announcer.at # "hold"
    BY <1>1, <2>1 DEF NextAnnounced
  <2>2. CASE announcer.at = "hold"
    <3>1. ~mode.stamped
      BY <1>1, <2>2, AnnouncerIs DEF MapStamped, MapBare
    <3>2. announcer.rtp \in Past /\ Gap(loop.rtp, rtpTime) <= Gap(loop.rtp, announcer.rtp)
      BY <1>4, <2>2, <3>1 DEF ForwardInv, NextAnnounced
    <3>3. Gap(loop'.rtp, rtpTime) <= Gap(loop'.rtp, announcer.rtp)
      BY <1>9, <1>12, <3>2
    <3>4. announced.rtp # -1 => Gap(loop'.rtp, announcer.rtp) <= Gap(loop'.rtp, announced.rtp)
      <4>1. announced.rtp # -1 =>
              announced.rtp \in Past /\ Gap(loop.rtp, announcer.rtp) <= Gap(loop.rtp, announced.rtp)
        BY <1>4, <2>2, <3>1 DEF ForwardInv, LastAnnounced, NextAnnounced
      <4> QED BY <1>9, <3>2, <4>1
    <3> QED BY <1>1, <1>4, <3>1, <3>2, <3>3, <3>4 DEF NextAnnounced
  <2> QED BY <2>1, <2>2
<1> QED BY <1>10, <1>13, <1>14, <1>15 DEF ForwardInv

\* A reset is announced at the position of its frame.
LEMMA ResetForward ==
    ASSUME LoopTypes, Announced, ForwardInv, AnnounceReset
    PROVE  ForwardInv'
<1>1. /\ loop.at = "reset" /\ UNCHANGED <<mode, clock, sent, rtpTime, announcer>> /\ Kept
      /\ \/ loop'.at = Sends /\ announced' = Announcement(clock.lastRTP, clock.epoch)
         \/ loop'.at = "ending" /\ announced' = announced
  BY ResetIs
<1>2. loop'.rtp = loop.rtp /\ loop'.old = loop.old /\ loop'.at \in {"resend", "send", "ending"}
  BY <1>1 DEF Kept, Sends
<1>3. CASE announced' = announced
  BY <1>1, <1>2, <1>3, ForwardSame DEF Early, Started
<1>4. CASE loop'.at = Sends /\ announced' = Announcement(clock.lastRTP, clock.epoch)
  <2>1. announceMu = "loop" /\ announcer.at # "off"
    BY <1>1, AnnouncerIs DEF ForwardInv, NewestSent, Started
  <2>2. ~(announcer.at = "hold" /\ mode.stamped) /\ announced'.rtp = clock.lastRTP
    BY <1>4, <2>1, AnnouncerIs DEF Announcement
  <2>3. Past' = Past /\ Heard' = Heard
    BY <1>1, <1>2 DEF Past, Heard
  <2>4. LoopAhead'
    BY <1>1, <1>2, <2>3 DEF ForwardInv, LoopAhead
  <2>5. NewestSent'
    BY <1>1, <1>2, <2>1, <2>3 DEF ForwardInv, NewestSent, Early
  <2>6. mode.stamped /\ announcer.at # "hold" /\ clock.lastRTP = loop.rtp
    BY <1>1, <2>1, <2>2 DEF ForwardInv, LoopAhead, NewestSent
  <2>7. LastAnnounced'
    BY <1>1, <1>2, <2>1, <2>2, <2>6 DEF LastAnnounced, Heard
  <2>8. NextAnnounced'
    BY <1>1, <2>6 DEF NextAnnounced
  <2> QED BY <2>4, <2>5, <2>7, <2>8 DEF ForwardInv
<1> QED BY <1>1, <1>3, <1>4

\* The frames kept to be sent again are frames that were sent.
LEMMA OldStaysPast ==
    ASSUME LoopTypes, ForwardInv, NEW p \in Packet, Past' = Past \cup {p.rtp},
           loop'.old = WithNew(loop.old, p)
    PROVE  \A i \in 1..Len(loop'.old) : loop'.old[i].rtp \in Past'
<1>1. loop.old \in Seq(Packet) /\ Len(loop.old) <= Depth
  BY LoopFields DEF LoopTypes
<1>2. \A i \in 1..Len(loop.old) : loop.old[i].rtp \in Past'
  BY DEF ForwardInv, LoopAhead
<1>3. ASSUME NEW t \in Seq(Packet), \A i \in 1..Len(t) : t[i].rtp \in Past'
      PROVE  \A i \in 1..Len(Append(t, p)) : Append(t, p)[i].rtp \in Past'
  <2>1. /\ Len(Append(t, p)) = Len(t) + 1 /\ Len(t) \in Nat
        /\ \A i \in 1..Len(t) : Append(t, p)[i] = t[i]
        /\ Append(t, p)[Len(t) + 1] = p
    BY AppendProperties, LenProperties
  <2>2. ASSUME NEW i \in 1..(Len(t) + 1)
        PROVE  Append(t, p)[i].rtp \in Past'
    <3>1. CASE i \in 1..Len(t)
      BY <1>3, <2>1, <3>1
    <3>2. CASE i = Len(t) + 1
      BY <2>1, <3>2
    <3> QED BY <2>1, <2>2, <3>1, <3>2
  <2> QED BY <2>1, <2>2
<1>4. CASE ~mode.fec
  BY <1>2, <1>4 DEF WithNew
<1>5. CASE mode.fec /\ Len(loop.old) # Depth
  <2>1. loop'.old = Append(loop.old, p)
    BY <1>5 DEF WithNew
  <2> QED BY <1>1, <1>2, <1>3, <2>1
<1>6. CASE mode.fec /\ Len(loop.old) = Depth
  <2>1. loop.old # <<>>
    BY <1>6, Sizes
  <2>2. PICK t \in Seq(Packet) : /\ t = Tail(loop.old) /\ Len(t) = Len(loop.old) - 1
                                /\ \A i \in 1..Len(t) : t[i] = loop.old[i + 1]
    <3>1. PICK s \in Seq(Packet) : s = loop.old /\ s # <<>>
      BY <1>1, <2>1
    <3>2. PICK t \in Seq(Packet) : t = Tail(s) /\ Len(t) = Len(s) - 1
      BY <3>1, HeadTailProperties
    <3>3. \A i \in 1..Len(Tail(s)) : Tail(s)[i] = s[i + 1]
      BY <3>1
    <3> QED BY <3>1, <3>2, <3>3
  <2>3. Len(loop.old) \in Nat
    BY <1>1, LenProperties
  <2>4. \A i \in 1..Len(t) : i + 1 \in 1..Len(loop.old)
    BY <2>2, <2>3
  <2>5. \A i \in 1..Len(t) : t[i].rtp \in Past'
    BY <1>2, <2>2, <2>4
  <2>6. loop'.old = Append(t, p)
    BY <1>6, <2>2 DEF WithNew
  <2> QED BY <1>3, <2>5, <2>6
<1> QED BY <1>4, <1>5, <1>6

\* A new frame is the newest position sent.
LEMMA SendForward ==
    ASSUME LoopTypes, Numbers, Nonces, ForwardInv, Near, SendFresh
    PROVE  ForwardInv'
<1>1. /\ loop.at = "send" /\ UNCHANGED <<mode, clock, announcer, announced>>
      /\ SendFreshOk \/ Failed
  BY SendsFresh DEF SendFresh
<1>2. nonce \in Nat
  BY DEF Nonces
<1>3. CASE Failed
  <2>1. loop'.at = "ending" /\ Kept /\ sent' = sent /\ rtpTime' = rtpTime
    BY <1>3, FailedIs
  <2> QED BY <1>1, <2>1, ForwardSame DEF Early, Started, Kept
<1>4. CASE SendFreshOk
  <2>1. loop'.at = "read" /\ loop'.rtp = loop.rtp
    BY <1>2, <1>4, SendFreshIs
  <2>2. NewPacket \in Packet /\ NewPacket.fresh /\ NewPacket.rtp = loop.rtp
    BY <1>2, NewPacketIs
  <2>3. Past' = Past \cup {loop.rtp} /\ Heard' = Heard /\ Past' = Heard
    <3>1. sent' = Append(sent, NewPacket)
      BY <1>4 DEF SendFreshOk
    <3>2. Past' = Past \cup {loop.rtp}
      BY <2>2, <3>1, PastGrows
    <3> QED BY <2>1, <3>2 DEF Heard
  <2>4. loop'.old = WithNew(loop.old, NewPacket)
    BY <1>4 DEF SendFreshOk
  <2>5. LoopAhead'
    <3>1. \A i \in 1..Len(loop'.old) : loop'.old[i].rtp \in Past'
      BY <2>2, <2>3, <2>4, OldStaysPast
    <3> QED BY <2>1, <2>3, <3>1 DEF LoopAhead
  <2>6. announcer.at # "off" /\ rtpTime \in Heard /\ rtpTime \in Positions
        /\ loop.rtp \in Positions /\ (mode.stamped => clock.lastRTP = loop.rtp)
    BY <1>1, LoopFields DEF ForwardInv, NewestSent, Started, LoopTypes
  <2>7. rtpTime' = loop.rtp
    <3>1. 2 * (Gap(loop.rtp, rtpTime) + FrameSamples) < Modulus
      BY <2>6 DEF Near
    <3>2. 2 * Gap(loop.rtp, rtpTime) < Modulus
      BY <2>6, <3>1, GapSize, Sizes
    <3>3. NotBefore(loop.rtp, rtpTime)
      BY <2>6, <3>2, NotBeforeIs
    <3> QED BY <1>4, <3>3 DEF SendFreshOk, Advanced
  <2>8. Gap(loop.rtp, loop.rtp) = 0 /\ \A r \in Heard : Gap(loop.rtp, r) \in Nat
    <3>1. Heard \subseteq Positions
      BY PastIs
    <3> QED BY <2>6, <3>1, GapSize
  <2>9. \A r \in Heard : Gap(loop.rtp, loop.rtp) <= Gap(loop.rtp, r)
    BY <2>8
  <2>10. NewestSent'
    BY <1>1, <2>1, <2>3, <2>6, <2>7, <2>9 DEF NewestSent, Early, Heard
  <2>11. LastAnnounced'
    BY <1>1, <2>1, <2>3, <2>7, <2>9 DEF ForwardInv, LastAnnounced
  <2>12. NextAnnounced'
    BY <1>1, <2>1, <2>3, <2>7, <2>9 DEF ForwardInv, NextAnnounced
  <2> QED BY <2>5, <2>10, <2>11, <2>12 DEF ForwardInv
<1> QED BY <1>1, <1>3, <1>4

\* A frame that is sent once more does not move the position back.
LEMMA AgainForward ==
    ASSUME LoopTypes, Numbers, Nonces, ForwardInv, Near, SendAgain
    PROVE  ForwardInv'
<1>1. /\ loop.at = "resend" /\ UNCHANGED <<mode, clock, announcer, announced>>
      /\ SendAgainOk \/ Failed
  BY SendsAgain DEF SendAgain
<1>2. CASE Failed
  <2>1. loop'.at = "ending" /\ Kept /\ sent' = sent /\ rtpTime' = rtpTime
    BY <1>2, FailedIs
  <2> QED BY <1>1, <2>1, ForwardSame DEF Early, Started, Kept
<1>3. CASE SendAgainOk
  <2>1. loop'.at = "send" /\ loop'.rtp = loop.rtp /\ loop'.old = loop.old
    BY <1>3, SendAgainIs DEF Kept
  <2>2. OldPacket \in Packet /\ ~OldPacket.fresh
    BY <1>1, OldPacketIs DEF Nonces
  <2>3. Past' = Past /\ Heard' = Heard
    <3>1. sent' = Append(sent, OldPacket)
      BY <1>3 DEF SendAgainOk
    <3>2. Past' = Past
      BY <2>2, <3>1, PastGrows
    <3> QED BY <2>1, <3>2 DEF Heard
  <2>4. OldPacket.rtp \in Past
    <3>1. loop.old \in Seq(Packet) /\ Len(loop.old) = Depth /\ Depth \in Nat \ {0}
      BY <1>1, LoopFields, Sizes DEF Nonces
    <3>2. loop.old[1] \in Packet /\ 1 \in 1..Len(loop.old) /\ Head(loop.old) = loop.old[1]
      BY <3>1
    <3>3. PICK h \in Packet : h = loop.old[1] /\ OldPacket = [h EXCEPT !.fresh = FALSE]
      BY <3>2 DEF OldPacket
    <3>4. [h EXCEPT !.fresh = FALSE].rtp = h.rtp
      BY DEF Packet
    <3>5. loop.old[1].rtp \in Past
      BY <3>2 DEF ForwardInv, LoopAhead
    <3> QED BY <3>3, <3>4, <3>5
  <2>5. /\ announcer.at # "off" /\ rtpTime \in Heard
        /\ \A r \in Past : Gap(loop.rtp, rtpTime) <= Gap(loop.rtp, r)
    BY <1>1 DEF ForwardInv, NewestSent, Started
  <2>6. rtpTime' = rtpTime
    <3>1. Heard \subseteq Positions /\ loop.rtp \in Positions /\ OldPacket.rtp \in Heard
      BY <2>4, PastIs, LoopFields DEF Heard
    <3>2. PICK x \in Positions, y \in Positions : x = OldPacket.rtp /\ y = rtpTime
      BY <2>5, <3>1
    <3>3. /\ 2 * (Gap(loop.rtp, x) + FrameSamples) < Modulus
          /\ 2 * (Gap(loop.rtp, y) + FrameSamples) < Modulus
      BY <2>5, <3>1, <3>2 DEF Near
    <3>4. /\ NotBefore(x, y) <=> Gap(loop.rtp, x) <= Gap(loop.rtp, y)
          /\ Gap(loop.rtp, x) = Gap(loop.rtp, y) => x = y
      BY <3>1, <3>3, LessBehind
    <3>5. Gap(loop.rtp, y) <= Gap(loop.rtp, x) /\ Gap(loop.rtp, x) \in Nat /\ Gap(loop.rtp, y) \in Nat
      BY <2>4, <2>5, <3>1, <3>2, GapSize
    <3>6. NotBefore(x, y) => x = y
      BY <3>4, <3>5
    <3>7. rtpTime' = IF NotBefore(x, y) THEN x ELSE y
      BY <1>3, <3>2 DEF SendAgainOk, Advanced
    <3> QED BY <3>2, <3>6, <3>7
  <2>7. LoopAhead'
    BY <1>1, <2>1, <2>3 DEF ForwardInv, LoopAhead
  <2>8. NewestSent'
    BY <1>1, <2>1, <2>3, <2>5, <2>6 DEF ForwardInv, NewestSent, Early
  <2>9. LastAnnounced'
    BY <1>1, <2>1, <2>3, <2>6 DEF ForwardInv, LastAnnounced
  <2>10. NextAnnounced'
    BY <1>1, <2>1, <2>3, <2>6 DEF ForwardInv, NextAnnounced
  <2> QED BY <2>7, <2>8, <2>9, <2>10 DEF ForwardInv
<1> QED BY <1>1, <1>2, <1>3

LEMMA ForwardKept ==
    ASSUME AudioInv, ForwardInv, Near, [Next]_vars
    PROVE  ForwardInv'
<1>1. ReaderInv /\ LoopTypes /\ Timeline /\ Numbers /\ Nonces /\ Announced
  BY DEF AudioInv
<1>2. CASE UNCHANGED <<mode, clock, sent, rtpTime, announcer, announced, loop>>
  BY <1>2, ForwardSame DEF Early, Started
<1>3. CASE Ready \/ Stop \/ Return
  <2>1. PICK at \in {"first", "ending", "returned"} :
          Loop(at) /\ (at = "first" => loop.at = "prewarm")
    BY <1>3 DEF Ready, Stop, Return
  <2>2. UNCHANGED <<mode, clock, sent, rtpTime, announcer, announced>>
    BY <1>3 DEF Ready, Stop, Return
  <2>3. loop'.at = at /\ loop'.rtp = loop.rtp /\ loop'.old = loop.old
    BY <1>1, <2>1, LoopFields, LoopKeeps DEF Places
  <2> QED BY <2>1, <2>2, <2>3, ForwardSame DEF Early, Started
<1>4. CASE Take
  <2>1. UNCHANGED <<mode, clock, sent, rtpTime, announcer, announced>>
    BY <1>1, <1>4, Takes
  <2>2. Kept /\ TakeMoves
    BY <1>1, <1>4, Takes
  <2>3. /\ Early' => Early
        /\ Started' => Started
        /\ loop'.at \in {"read", "map"} => loop.at \in {"read", "map"}
        /\ loop'.at \notin {"reset", "send", "resend"}
    BY <2>2 DEF TakeMoves, Early, Started
  <2> QED BY <2>1, <2>2, <2>3, ForwardSame DEF Kept
<1>5. CASE Open \/ Map \/ AnnounceReset \/ SendFresh \/ SendAgain
  BY <1>1, <1>5, OpenForward, MapForward, ResetForward, SendForward, AgainForward
<1>6. CASE Tick \/ AnnouncerStep
  BY <1>1, <1>6, AnnouncerForward
<1>7. CASE Receive \/ Close \/ ControlStep \/ VideoStarts \/ Cancel \/ Request \/ UNCHANGED vars
  BY <1>2, <1>7 DEF Receive, Close, ControlStep, Serve, ControlEnds, VideoStarts, Cancel, Request,
                    vars, stream
<1> QED BY <1>3, <1>4, <1>5, <1>6, <1>7 DEF Next, LoopStep

\* What a step announces is not before what was announced.
LEMMA AnnouncesForward ==
    ASSUME AudioInv, ForwardInv, Near, [Next]_vars, announced' # announced, announced.rtp # -1
    PROVE  NotBefore(announced'.rtp, announced.rtp)
<1>1. ReaderInv /\ LoopTypes /\ Timeline /\ Numbers /\ Announced
  BY DEF AudioInv
<1>2. Heard \subseteq Positions /\ Past \subseteq Heard /\ loop.rtp \in Positions
  BY <1>1, PastIs, LoopFields DEF Heard
<1>3. AnnounceReset \/ Repeat
  <2>1. ~Open
    BY DEF Open, ForwardInv, NewestSent, Early
  <2>2. ~Take
    BY <1>1, Takes
  <2>3. ~(Receive \/ Ready \/ Map \/ SendFresh \/ SendAgain \/ Close \/ Return \/ Stop)
    BY DEF Receive, stream, Ready, Map, SendFresh, SendAgain, Close, Return, Stop
  <2>4. ~(ReadPosition \/ AnnouncerEnds \/ ControlStep \/ VideoStarts \/ Cancel \/ Request \/ Tick)
    BY DEF ReadPosition, AnnouncerEnds, ControlStep, Serve, ControlEnds, VideoStarts, Cancel,
           Request, Tick
  <2>5. ~UNCHANGED vars
    BY DEF vars, stream
  <2> QED BY <2>1, <2>2, <2>3, <2>4, <2>5 DEF Next, LoopStep, AnnouncerStep
<1>4. CASE AnnounceReset
  <2>1. loop.at = "reset" /\ announced'.rtp = clock.lastRTP
    BY <1>1, <1>4, ResetIs DEF Announcement
  <2>2. mode.stamped /\ announced'.rtp = loop.rtp
    BY <2>1 DEF ForwardInv, LoopAhead, NewestSent, Started
  <2>3. PICK r \in Past : announced.rtp \in {r, Plus(r, FrameSamples)}
    BY <2>1, <2>2 DEF ForwardInv, LastAnnounced
  <2>4. FrameSamples <= Gap(loop.rtp, r) /\ 2 * (Gap(loop.rtp, r) + FrameSamples) < Modulus
    BY <1>2, <2>1 DEF ForwardInv, LoopAhead, Near
  <2> QED BY <1>2, <2>2, <2>3, <2>4, FrameFollows
<1>5. CASE Repeat
  <2>1. announcer.at = "hold" /\ announced'.rtp = announcer.rtp
    BY <1>5 DEF Repeat, Announcement
  <2>2. CASE mode.stamped
    <3>1. announced'.rtp = Plus(loop.rtp, FrameSamples)
      BY <2>1, <2>2 DEF ForwardInv, NextAnnounced
    <3>2. PICK r \in Heard : announced.rtp \in {r, Plus(r, FrameSamples)}
      BY <2>2 DEF ForwardInv, LastAnnounced
    <3>3. 2 * (Gap(loop.rtp, r) + FrameSamples) < Modulus
      BY DEF Near
    <3> QED BY <1>2, <3>1, <3>2, <3>3, AheadFollows
  <2>3. CASE ~mode.stamped
    <3>1. /\ announcer.rtp \in Heard /\ announced.rtp \in Heard
          /\ Gap(loop.rtp, announcer.rtp) <= Gap(loop.rtp, announced.rtp)
      BY <2>1, <2>3 DEF ForwardInv, NextAnnounced, LastAnnounced
    <3>2. PICK x \in Heard, y \in Heard : x = announcer.rtp /\ y = announced.rtp
      BY <3>1
    <3>3. /\ 2 * (Gap(loop.rtp, x) + FrameSamples) < Modulus
          /\ 2 * (Gap(loop.rtp, y) + FrameSamples) < Modulus
      BY DEF Near
    <3>4. NotBefore(x, y)
      BY <1>2, <3>1, <3>2, <3>3, LessBehind
    <3> QED BY <2>1, <3>2, <3>4
  <2> QED BY <2>2, <2>3
<1> QED BY <1>3, <1>4, <1>5

LEMMA ForwardStarts == Init => ForwardInv
<1> SUFFICES ASSUME Init PROVE ForwardInv
  OBVIOUS
<1>1. /\ loop = [at |-> "prewarm", frame |-> NoFrame, catchup |-> 0, frames |-> 0,
                 seq |-> 1, rtp |-> 0, old |-> <<>>]
      /\ sent = <<>> /\ announcer.at = "off" /\ announced.rtp = -1
  BY DEF Init
<1>2. loop.at = "prewarm" /\ Len(loop.old) = 0 /\ DOMAIN sent = {} /\ Past = {}
  BY <1>1 DEF Past
<1> QED BY <1>1, <1>2 DEF ForwardInv, LoopAhead, NewestSent, LastAnnounced, NextAnnounced, Started

\* While the stream is at less than half the range of positions from every frame it sent, no
\* announcement takes the receiver's position back: not the loop's at a reset, not the worker's
\* between two frames, and not one that follows a frame sent once more.
THEOREM AnnouncedMovesForward == Spec /\ []Near => AnnouncedForward
<1>1. Init => ForwardInv
  BY ForwardStarts
<1>2. AudioInv /\ ForwardInv /\ Near /\ [Next]_vars => ForwardInv'
  BY ForwardKept
<1>3. AudioInv /\ ForwardInv /\ Near /\ [Next]_vars
        => [announced.rtp # -1 => NotBefore(announced'.rtp, announced.rtp)]_announced
  BY AnnouncesForward
<1> QED BY <1>1, <1>2, <1>3, AudioInvariant, PTL DEF Spec, AnnouncedForward
=============================================================================
