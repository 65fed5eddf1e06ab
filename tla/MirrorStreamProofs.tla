-------------------------- MODULE MirrorStreamProofs --------------------------
(***************************************************************************)
(* Theorems about the video of a mirror session, for every number of        *)
(* pictures, slices, configurations and freezes, and every way to deliver.  *)
(***************************************************************************)
EXTENDS MirrorStream, TLAPS, SequenceTheorems, WellFoundedInduction

-----------------------------------------------------------------------------
(* The stream of NAL units as the parser finds it: pictures ps, the units u *)
(* that were read but not processed, the slices v that were gathered, and   *)
(* the parameter sets l the parser knows.                                   *)

Picture == [key : BOOLEAN, config : 1..MaxConfigs, slices : 1..MaxSlices]
KnownParams == [sps : Config, pps : Config]

\* The configuration of picture n; before the first one the encoder has the first.
ConfigOf(ps, n) == IF n = 0 THEN 1 ELSE ps[n].config
SameConfig(ps, n) == ConfigOf(ps, n) = ConfigOf(ps, n - 1)

\* A picture that changes the configuration is a key picture.
Encoded(ps) ==
    /\ ps \in Seq(Picture)
    /\ \A n \in 1..Len(ps) : ps[n].key = FALSE => SameConfig(ps, n)

\* What the parser may know when it has seen the parameter sets of picture n, if
\* there were any: the session may have begun after the last ones.
Knows(l, ps, n) == l = NoParams \/ l = Params(ConfigOf(ps, n))

IsSlice(u) == u.type \in {"idr", "non"}
SliceOf(ps, n, k) == Nal(IF ps[n].key = TRUE THEN "idr" ELSE "non", n, k)

IsUnit(ps, u) ==
    /\ u \in NalUnit /\ u.of \in 1..Len(ps)
    /\ \/ u.slice \in 1..ps[u.of].slices /\ u = SliceOf(ps, u.of, u.slice)
       \/ u.slice = 0 /\ u.type \in {"aud", "sps", "pps"}

\* What a picture begins with, and what it ends with.
Begins(ps, u) == u.type \in {"aud", "sps"} \/ (u.slice = 1 /\ SameConfig(ps, u.of))
Ends(ps, u) == IsSlice(u) /\ u.slice = ps[u.of].slices

\* Unit w comes after unit u.
Follows(ps, u, w) ==
    \/ /\ w.of = u.of
       /\ \/ u.type = "aud" /\ (w.type = "sps" \/ (w.slice = 1 /\ SameConfig(ps, w.of)))
          \/ u.type = "sps" /\ w.type = "pps"
          \/ u.type = "pps" /\ w.slice = 1
          \/ IsSlice(u) /\ w.slice = u.slice + 1
    \/ w.of = u.of + 1 /\ Ends(ps, u) /\ Begins(ps, w)

Stream(ps, us) ==
    /\ us \in Seq(NalUnit)
    /\ \A i \in 1..Len(us) : IsUnit(ps, us[i])
    /\ \A i \in 1..Len(us) - 1 : Follows(ps, us[i], us[i + 1])
    /\ us # <<>> => us[Len(us)].of = Len(ps) /\ Ends(ps, us[Len(us)])

\* The first slices of a picture are gathered, and the input goes on after them.
Gathered(ps, us, v, k, l) ==
    LET n == v[1][1]
        m == Len(v)
    IN /\ n \in 1..Len(ps) /\ m \in 1..ps[n].slices
       /\ v = [i \in 1..m |-> <<n, i>>]
       /\ k = ps[n].key
       /\ Knows(l, ps, n)
       /\ us = <<>> => n = Len(ps) /\ m = ps[n].slices
       /\ us # <<>> => Follows(ps, SliceOf(ps, n, m), us[1])

\* The next unit may be processed when no slice was gathered.
Ready(ps, us, l) ==
    /\ us = <<>> => Knows(l, ps, Len(ps))
    /\ us # <<>> =>
         \/ us[1].type \in {"aud", "sps"} /\ Knows(l, ps, us[1].of - 1)
         \/ us[1].type = "pps" /\ l.sps = ConfigOf(ps, us[1].of)
         \/ us[1].slice = 1 /\ Knows(l, ps, us[1].of)

-----------------------------------------------------------------------------
(* Lemmas about the stream.                                                 *)

LEMMA NalFields ==
    ASSUME NEW t, NEW n, NEW k
    PROVE  Nal(t, n, k).type = t /\ Nal(t, n, k).of = n /\ Nal(t, n, k).slice = k
BY DEF Nal

LEMMA UnitFields ==
    ASSUME NEW ps, NEW u, IsUnit(ps, u)
    PROVE  /\ u = Nal(u.type, u.of, u.slice)
           /\ u.of \in 1..Len(ps) /\ u.slice \in 0..MaxSlices
           /\ u.type \in {"aud", "sps", "pps", "idr", "non"}
           /\ IsSlice(u) <=> u.slice # 0
           /\ u.slice # 0 => u.slice \in 1..ps[u.of].slices
           /\ IsSlice(u) => (u.type = "idr" <=> ps[u.of].key = TRUE)
<1>1. u.slice \in 0..MaxSlices /\ u.type \in {"aud", "sps", "pps", "idr", "non"}
      /\ u = Nal(u.type, u.of, u.slice) /\ u.of \in 1..Len(ps)
  BY DEF IsUnit, NalUnit, Nal
<1>2. CASE u.slice = 0 /\ u.type \in {"aud", "sps", "pps"}
  BY <1>1, <1>2 DEF IsSlice
<1>3. CASE u.slice \in 1..ps[u.of].slices /\ u = SliceOf(ps, u.of, u.slice)
  <2>1. u.type = IF ps[u.of].key = TRUE THEN "idr" ELSE "non"
    BY <1>3, NalFields DEF SliceOf
  <2>2. u.slice # 0
    BY <1>1, <1>3
  <2> QED BY <1>1, <1>3, <2>1, <2>2 DEF IsSlice
<1> QED BY <1>2, <1>3 DEF IsUnit

LEMMA SliceIsUnit ==
    ASSUME NEW ps \in Seq(Picture), NEW n \in 1..Len(ps), NEW k \in 1..ps[n].slices
    PROVE  /\ IsUnit(ps, SliceOf(ps, n, k)) /\ IsSlice(SliceOf(ps, n, k))
           /\ SliceOf(ps, n, k).of = n /\ SliceOf(ps, n, k).slice = k
           /\ SliceOf(ps, n, k).type = IF ps[n].key = TRUE THEN "idr" ELSE "non"
<1>1. ps[n] \in Picture
  BY ElementOfSeq
<1>2. k \in 0..MaxSlices /\ n \in Nat
  BY <1>1, BoundsAssumption, LenProperties DEF Picture
<1>3. SliceOf(ps, n, k) \in NalUnit
  BY <1>2 DEF SliceOf, Nal, NalUnit
<1> QED BY <1>3, NalFields DEF SliceOf, IsUnit, IsSlice

\* Pictures that are added later change nothing about the units before them.
LEMMA Grown ==
    ASSUME NEW ps \in Seq(Picture), NEW p \in Picture, NEW qs, qs = Append(ps, p)
    PROVE  /\ qs \in Seq(Picture) /\ Len(qs) = Len(ps) + 1 /\ qs[Len(qs)] = p
           /\ \A n \in 1..Len(ps) : qs[n] = ps[n]
           /\ \A n \in 0..Len(ps) : ConfigOf(qs, n) = ConfigOf(ps, n)
<1>1. /\ qs \in Seq(Picture) /\ Len(qs) = Len(ps) + 1 /\ qs[Len(qs)] = p
      /\ \A n \in 1..Len(ps) : qs[n] = ps[n]
  BY AppendProperties
<1>2. Len(ps) \in Nat
  BY LenProperties
<1> QED BY <1>1, <1>2 DEF ConfigOf

LEMMA GrownUnit ==
    ASSUME NEW ps \in Seq(Picture), NEW p \in Picture, NEW qs, qs = Append(ps, p),
           NEW u, IsUnit(ps, u)
    PROVE  /\ IsUnit(qs, u) /\ Ends(qs, u) = Ends(ps, u)
           /\ SameConfig(qs, u.of) = SameConfig(ps, u.of)
<1>1. u.of \in 1..Len(ps) /\ Len(ps) \in Nat
  BY LenProperties DEF IsUnit
<1>2. u.of \in 1..Len(qs) /\ qs[u.of] = ps[u.of]
  BY <1>1, Grown
<1>3. SameConfig(qs, u.of) = SameConfig(ps, u.of)
  <2>1. u.of \in 0..Len(ps) /\ u.of - 1 \in 0..Len(ps)
    BY <1>1
  <2>2. \A n \in 0..Len(ps) : ConfigOf(qs, n) = ConfigOf(ps, n)
    BY Grown
  <2>3. ConfigOf(qs, u.of) = ConfigOf(ps, u.of) /\ ConfigOf(qs, u.of - 1) = ConfigOf(ps, u.of - 1)
    BY <2>1, <2>2
  <2> QED BY <2>3 DEF SameConfig
<1> QED BY <1>2, <1>3 DEF IsUnit, SliceOf, Ends

LEMMA GrownFollows ==
    ASSUME NEW ps \in Seq(Picture), NEW p \in Picture, NEW qs, qs = Append(ps, p),
           NEW u, IsUnit(ps, u), NEW w, IsUnit(ps, w), Follows(ps, u, w)
    PROVE  Follows(qs, u, w)
<1>1. Ends(qs, u) = Ends(ps, u) /\ SameConfig(qs, w.of) = SameConfig(ps, w.of)
  BY GrownUnit
<1> QED BY <1>1 DEF Follows, Begins

\* The NAL units of picture n, one by one: a delimiters, b parameter sets and slices.
PictureUnits(us, n, p, a, b) ==
    /\ a \in {0, 1} /\ b \in {0, 2} /\ p.slices \in Nat \ {0}
    /\ us \in Seq(NalUnit) /\ Len(us) = a + b + p.slices
    /\ a = 1 => us[1] = Nal("aud", n, 0)
    /\ b = 2 => us[a + 1] = Nal("sps", n, 0) /\ us[a + 2] = Nal("pps", n, 0)
    /\ \A i \in 1..p.slices :
         us[a + b + i] = Nal(IF p.key = TRUE THEN "idr" ELSE "non", n, i)

LEMMA NalUnitsAre ==
    ASSUME NEW n \in Nat, NEW p \in Picture, NEW aud \in BOOLEAN, NEW params \in BOOLEAN,
           NEW us, us = NalUnits(n, p, aud, params),
           NEW a, a = IF aud THEN 1 ELSE 0, NEW b, b = IF params THEN 2 ELSE 0
    PROVE  PictureUnits(us, n, p, a, b)
<1> DEFINE A == IF aud THEN <<Nal("aud", n, 0)>> ELSE <<>>
           B == IF params THEN <<Nal("sps", n, 0), Nal("pps", n, 0)>> ELSE <<>>
           T == IF p.key = TRUE THEN "idr" ELSE "non"
           S == [i \in 1..p.slices |-> Nal(T, n, i)]
<1>1. p.slices \in Nat \ {0} /\ p.slices <= MaxSlices /\ p.key \in BOOLEAN /\ MaxSlices \in Nat
  BY BoundsAssumption DEF Picture
<1>2. us = A \o B \o S
  <2>1. T = IF p.key THEN "idr" ELSE "non"
    BY <1>1
  <2> QED BY <2>1 DEF NalUnits
<1>3. \A t \in {"aud", "sps", "pps", "idr", "non"}, i \in 0..p.slices : Nal(t, n, i) \in NalUnit
  BY <1>1 DEF Nal, NalUnit
<1>4. A \in Seq(NalUnit) /\ Len(A) = a /\ (a = 1 => A[1] = Nal("aud", n, 0))
  BY <1>1, <1>3
<1>5. /\ B \in Seq(NalUnit) /\ Len(B) = b
      /\ b = 2 => B[1] = Nal("sps", n, 0) /\ B[2] = Nal("pps", n, 0)
  BY <1>1, <1>3
<1>6. S \in Seq(NalUnit) /\ Len(S) = p.slices
  BY <1>1, <1>3
<1> HIDE DEF A, B, T
<1>7. /\ A \o B \in Seq(NalUnit) /\ Len(A \o B) = a + b
      /\ \A i \in 1..a + b : (A \o B)[i] = IF i <= a THEN A[i] ELSE B[i - a]
  BY <1>4, <1>5, ConcatProperties
<1>8. /\ us \in Seq(NalUnit) /\ Len(us) = a + b + p.slices
      /\ \A i \in 1..a + b + p.slices : us[i] = IF i <= a + b THEN (A \o B)[i] ELSE S[i - (a + b)]
  <2> DEFINE AB == A \o B
  <2> HIDE DEF S, AB
  <2>1. AB \in Seq(NalUnit) /\ Len(AB) = a + b /\ us = AB \o S
    BY <1>2, <1>7 DEF AB
  <2>2. /\ us \in Seq(NalUnit) /\ Len(us) = Len(AB) + Len(S)
        /\ \A i \in 1..Len(AB) + Len(S) : us[i] = IF i <= Len(AB) THEN AB[i] ELSE S[i - Len(AB)]
    BY <1>6, <2>1, ConcatProperties
  <2> QED BY <1>6, <2>1, <2>2 DEF AB
<1>9. a \in {0, 1} /\ b \in {0, 2}
  OBVIOUS
<1>10. a = 1 => us[1] = Nal("aud", n, 0)
  <2> SUFFICES ASSUME a = 1 PROVE us[1] = Nal("aud", n, 0)
    OBVIOUS
  <2> HIDE DEF S
  <2>1. us[1] = (A \o B)[1] /\ (A \o B)[1] = A[1]
    BY <1>1, <1>7, <1>8, <1>9
  <2> QED BY <1>4, <2>1
<1>11. b = 2 => us[a + 1] = Nal("sps", n, 0) /\ us[a + 2] = Nal("pps", n, 0)
  <2> SUFFICES ASSUME b = 2 PROVE us[a + 1] = Nal("sps", n, 0) /\ us[a + 2] = Nal("pps", n, 0)
    OBVIOUS
  <2>1. us[a + 1] = B[1] /\ us[a + 2] = B[2]
    <3> HIDE DEF S
    <3>3. a + 1 \in 1..a + b /\ a + 2 \in 1..a + b
      BY <1>9
    <3>4. \A i \in 1..a + b : us[i] = (A \o B)[i]
      <4> TAKE i \in 1..a + b
      <4>1. i \in 1..a + b + p.slices /\ i <= a + b
        BY <1>1, <1>9
      <4> QED BY <1>8, <4>1
    <3>1. us[a + 1] = (A \o B)[a + 1] /\ us[a + 2] = (A \o B)[a + 2]
      BY <3>3, <3>4
    <3>2. (A \o B)[a + 1] = B[1] /\ (A \o B)[a + 2] = B[2]
      BY <1>7, <1>9
    <3> QED BY <3>1, <3>2
  <2> QED BY <1>5, <2>1
<1>12. ASSUME NEW i \in 1..p.slices PROVE us[a + b + i] = Nal(T, n, i)
  <2>1. a + b + i \in 1..a + b + p.slices /\ a + b + i > a + b /\ (a + b + i) - (a + b) = i
    BY <1>1, <1>9
  <2>2. us[a + b + i] = S[i]
    <3> HIDE DEF S
    <3> QED BY <1>8, <1>9, <2>1
  <2> QED BY <2>2
<1> QED BY <1>1, <1>8, <1>9, <1>10, <1>11, <1>12 DEF T, PictureUnits

\* The units of a new picture are a stream of their own that begins with it.
LEMMA NewPicture ==
    ASSUME NEW ps \in Seq(Picture), NEW p \in Picture, NEW qs, qs = Append(ps, p),
           NEW us, NEW a, NEW b, PictureUnits(us, Len(qs), p, a, b),
           b = 2 \/ SameConfig(qs, Len(qs))
    PROVE  /\ Stream(qs, us) /\ us # <<>>
           /\ us[1].of = Len(qs) /\ Begins(qs, us[1])
<1> DEFINE n == Len(qs)
           t == IF p.key = TRUE THEN "idr" ELSE "non"
<1>1. qs \in Seq(Picture) /\ qs[n] = p /\ n \in Nat /\ n \in 1..Len(qs)
  BY Grown, LenProperties
<1>3. /\ a \in {0, 1} /\ b \in {0, 2} /\ p.slices \in Nat \ {0}
      /\ us \in Seq(NalUnit) /\ Len(us) = a + b + p.slices
      /\ a = 1 => us[1] = Nal("aud", n, 0)
      /\ b = 2 => us[a + 1] = Nal("sps", n, 0) /\ us[a + 2] = Nal("pps", n, 0)
      /\ \A i \in 1..p.slices : us[a + b + i] = Nal(t, n, i)
  BY DEF PictureUnits
<1>4. \A i \in 1..p.slices : SliceOf(qs, n, i) = Nal(t, n, i)
  BY <1>1 DEF SliceOf
<1>5. b = 0 => SameConfig(qs, n)
  OBVIOUS
<1> HIDE DEF n, t
<1>6. \A i \in 1..Len(us) : \/ i = 1 /\ a = 1
                            \/ i = a + 1 /\ b = 2
                            \/ i = a + 2 /\ b = 2
                            \/ i - (a + b) \in 1..p.slices /\ i = a + b + (i - (a + b))
  BY <1>3
<1>7. ASSUME NEW i \in 1..Len(us)
      PROVE  IsUnit(qs, us[i]) /\ us[i].of = n
  <2>1. us[i] \in NalUnit
    BY <1>3, ElementOfSeq
  <2>2. CASE us[i] = Nal("aud", n, 0) \/ us[i] = Nal("sps", n, 0) \/ us[i] = Nal("pps", n, 0)
    BY <1>1, <2>1, <2>2, NalFields DEF IsUnit
  <2>3. CASE i - (a + b) \in 1..p.slices /\ i = a + b + (i - (a + b))
    <3>1. PICK j \in 1..p.slices : i = a + b + j
      BY <2>3
    <3>2. us[i] = SliceOf(qs, n, j) /\ j \in 1..qs[n].slices
      BY <1>1, <1>3, <1>4, <3>1
    <3>3. IsUnit(qs, SliceOf(qs, n, j)) /\ SliceOf(qs, n, j).of = n
      BY <1>1, <3>2, SliceIsUnit DEF n
    <3> QED BY <3>2, <3>3
  <2> QED BY <1>3, <1>6, <2>2, <2>3
<1>8. ASSUME NEW i \in 1..Len(us) - 1
      PROVE  Follows(qs, us[i], us[i + 1])
  <2>1. us[i].of = n /\ us[i + 1].of = n
    BY <1>3, <1>7
  <2>2. CASE i = 1 /\ a = 1
    <3>1. us[i].type = "aud"
      BY <1>3, <2>2, NalFields
    <3>2. CASE b = 2
      <4>1. us[i + 1].type = "sps"
        BY <1>3, <2>2, <3>2, NalFields
      <4> QED BY <2>1, <3>1, <4>1 DEF Follows
    <3>3. CASE b = 0
      <4>1. us[i + 1] = Nal(t, n, 1)
        BY <1>3, <2>2, <3>3
      <4>2. us[i + 1].slice = 1
        BY <4>1, NalFields
      <4> QED BY <1>5, <2>1, <3>1, <3>3, <4>2 DEF Follows
    <3> QED BY <1>3, <3>2, <3>3
  <2>3. CASE i = a + 1 /\ b = 2
    <3>1. us[i].type = "sps" /\ us[i + 1].type = "pps"
      BY <1>3, <2>3, NalFields
    <3> QED BY <2>1, <3>1 DEF Follows
  <2>4. CASE i = a + 2 /\ b = 2
    <3>1. us[i + 1] = Nal(t, n, 1)
      BY <1>3, <2>4
    <3>2. us[i].type = "pps" /\ us[i + 1].slice = 1
      BY <1>3, <2>4, <3>1, NalFields
    <3> QED BY <2>1, <3>2 DEF Follows
  <2>5. CASE i - (a + b) \in 1..p.slices /\ i = a + b + (i - (a + b))
    <3> DEFINE j == i - (a + b)
    <3>1. j \in 1..p.slices /\ j + 1 \in 1..p.slices /\ i = a + b + j /\ i + 1 = a + b + (j + 1)
      BY <1>3, <2>5
    <3> HIDE DEF j
    <3>2. us[i] = Nal(t, n, j) /\ us[i + 1] = Nal(t, n, j + 1)
      BY <1>3, <3>1
    <3>3. IsSlice(us[i]) /\ us[i].slice = j /\ us[i + 1].slice = j + 1
      BY <3>2, NalFields DEF IsSlice, t
    <3> QED BY <2>1, <3>3 DEF Follows
  <2>6. i \in 1..Len(us)
    BY <1>3
  <2> QED BY <1>6, <2>2, <2>3, <2>4, <2>5, <2>6
<1>9. us # <<>> /\ us[Len(us)].of = n /\ Ends(qs, us[Len(us)])
  <2>1. Len(us) = a + b + p.slices /\ Len(us) \in 1..Len(us) /\ p.slices \in 1..p.slices
    BY <1>3
  <2>2. us[Len(us)] = Nal(t, n, p.slices)
    BY <1>3, <2>1
  <2> QED BY <1>1, <1>7, <2>1, <2>2, NalFields, EmptySeq DEF Ends, IsSlice, t
<1>10. us[1].of = n /\ Begins(qs, us[1])
  <2>1. 1 \in 1..Len(us)
    BY <1>3
  <2>2. CASE a = 1
    BY <1>3, <1>7, <2>1, <2>2, NalFields DEF Begins
  <2>3. CASE a = 0 /\ b = 2
    BY <1>3, <1>7, <2>1, <2>3, NalFields DEF Begins
  <2>4. CASE a = 0 /\ b = 0
    <3>1. us[1] = Nal(t, n, 1)
      BY <1>3, <2>4
    <3> QED BY <1>5, <1>7, <2>1, <2>4, <3>1, NalFields DEF Begins
  <2> QED BY <1>3, <2>2, <2>3, <2>4
<1> QED BY <1>3, <1>7, <1>8, <1>9, <1>10 DEF Stream, n

\* A new picture after the units that are still there.
LEMMA Extended ==
    ASSUME NEW ps \in Seq(Picture), NEW p \in Picture, NEW qs, qs = Append(ps, p),
           NEW us, Stream(ps, us),
           NEW ns, Stream(qs, ns), ns # <<>>, ns[1].of = Len(qs), Begins(qs, ns[1]),
           NEW ws, ws = us \o ns
    PROVE  /\ Stream(qs, ws) /\ ws # <<>>
           /\ us = <<>> => ws = ns
           /\ us # <<>> => ws[1] = us[1]
<1>1. /\ us \in Seq(NalUnit) /\ ns \in Seq(NalUnit)
      /\ Len(us) \in Nat /\ Len(ns) \in Nat \ {0}
  BY LenProperties, EmptySeq DEF Stream
<1>2. /\ ws \in Seq(NalUnit) /\ Len(ws) = Len(us) + Len(ns)
      /\ \A i \in 1..Len(us) + Len(ns) : ws[i] = IF i <= Len(us) THEN us[i] ELSE ns[i - Len(us)]
  BY <1>1, ConcatProperties
<1>3. qs \in Seq(Picture) /\ Len(qs) = Len(ps) + 1 /\ Len(ps) \in Nat
  BY Grown, LenProperties
<1>4. ASSUME NEW i \in 1..Len(ws) PROVE IsUnit(qs, ws[i])
  <2>1. CASE i <= Len(us)
    <3>1. i \in 1..Len(us) /\ ws[i] = us[i]
      BY <1>1, <1>2, <2>1
    <3>2. IsUnit(ps, us[i])
      BY <3>1 DEF Stream
    <3> QED BY <3>1, <3>2, GrownUnit
  <2>2. CASE i > Len(us)
    <3>0. i - Len(us) \in 1..Len(ns) /\ i = Len(us) + (i - Len(us))
      BY <1>1, <1>2, <2>2
    <3>1. PICK j \in 1..Len(ns) : i = Len(us) + j
      BY <3>0
    <3>2. ws[i] = ns[j]
      BY <1>1, <1>2, <2>2, <3>1
    <3> QED BY <3>1, <3>2 DEF Stream
  <2> QED BY <1>1, <1>2, <2>1, <2>2
<1>5. ASSUME us # <<>> PROVE Follows(qs, us[Len(us)], ns[1])
  <2>1. Len(us) \in 1..Len(us)
    BY <1>1, <1>5, EmptySeq
  <2>2. IsUnit(ps, us[Len(us)]) /\ us[Len(us)].of = Len(ps) /\ Ends(ps, us[Len(us)])
    BY <1>5, <2>1 DEF Stream
  <2>3. Ends(qs, us[Len(us)])
    BY <2>2, GrownUnit
  <2> QED BY <1>3, <2>2, <2>3 DEF Follows
<1>6. ASSUME NEW i \in 1..Len(ws) - 1 PROVE Follows(qs, ws[i], ws[i + 1])
  <2>1. CASE i < Len(us)
    <3>1. i \in 1..Len(us) - 1 /\ i \in 1..Len(us) /\ i + 1 \in 1..Len(us)
      BY <1>1, <1>2, <2>1
    <3>2. IsUnit(ps, us[i]) /\ IsUnit(ps, us[i + 1]) /\ Follows(ps, us[i], us[i + 1])
      BY <3>1 DEF Stream
    <3>3. ws[i] = us[i] /\ ws[i + 1] = us[i + 1]
      BY <1>1, <1>2, <3>1
    <3> QED BY <3>2, <3>3, GrownFollows
  <2>2. CASE i = Len(us)
    <3>1. us # <<>>
      BY <1>1, <2>2, EmptySeq
    <3>2. /\ i \in 1..Len(us) + Len(ns) /\ i + 1 \in 1..Len(us) + Len(ns)
          /\ i <= Len(us) /\ ~(i + 1 <= Len(us)) /\ (i + 1) - Len(us) = 1
      <4>1. Len(ws) = Len(us) + Len(ns) /\ Len(us) \in Nat /\ Len(ns) \in Nat /\ Len(ns) >= 1
        BY <1>1, <1>2
      <4> QED BY <2>2, <4>1
    <3>3. ws[i] = us[Len(us)] /\ ws[i + 1] = ns[1]
      BY <1>2, <2>2, <3>2
    <3> QED BY <1>5, <3>1, <3>3
  <2>3. CASE i > Len(us)
    <3>0. i - Len(us) \in 1..Len(ns) - 1 /\ i = Len(us) + (i - Len(us))
      BY <1>1, <1>2, <2>3
    <3>1. PICK j \in 1..Len(ns) - 1 : i = Len(us) + j
      BY <3>0
    <3>2. ws[i] = ns[j] /\ ws[i + 1] = ns[j + 1]
      BY <1>1, <1>2, <2>3, <3>1
    <3> QED BY <3>1, <3>2 DEF Stream
  <2>4. i \in Nat
    BY <1>1, <1>2
  <2> QED BY <1>1, <2>1, <2>2, <2>3, <2>4
<1>7. ws[Len(ws)] = ns[Len(ns)]
  BY <1>1, <1>2
<1>8. ws # <<>> /\ (us = <<>> => ws = ns) /\ (us # <<>> => ws[1] = us[1])
  <2>1. ws # <<>>
    BY <1>1, <1>2, EmptySeq
  <2>2. us = <<>> => ws = ns
    BY <1>1, ConcatEmptySeq
  <2>3. us # <<>> => ws[1] = us[1]
    BY <1>1, <1>2, EmptySeq
  <2> QED BY <2>1, <2>2, <2>3
<1> QED BY <1>2, <1>3, <1>4, <1>6, <1>7, <1>8 DEF Stream

\* What is left of a stream after its first unit.
LEMMA Advanced ==
    ASSUME NEW ps \in Seq(Picture), NEW us, Stream(ps, us), us # <<>>
    PROVE  /\ IsUnit(ps, us[1]) /\ Head(us) = us[1]
           /\ Stream(ps, Tail(us)) /\ Len(Tail(us)) = Len(us) - 1
           /\ Tail(us) = <<>> => us[1].of = Len(ps) /\ Ends(ps, us[1])
           /\ Tail(us) # <<>> => IsUnit(ps, Tail(us)[1]) /\ Follows(ps, us[1], Tail(us)[1])
<1> DEFINE ts == Tail(us)
<1>1. us \in Seq(NalUnit) /\ Len(us) \in Nat \ {0}
  BY EmptySeq DEF Stream
<1>2. /\ ts \in Seq(NalUnit) /\ Len(ts) = Len(us) - 1 /\ Head(us) = us[1]
      /\ \A i \in 1..Len(ts) : ts[i] = us[i + 1]
  BY <1>1, HeadTailProperties
<1> HIDE DEF ts
<1>3. \A i \in 1..Len(ts) : IsUnit(ps, ts[i])
  BY <1>1, <1>2 DEF Stream
<1>4. ASSUME NEW i \in 1..Len(ts) - 1 PROVE Follows(ps, ts[i], ts[i + 1])
  <2>1. /\ i \in 1..Len(ts) /\ i + 1 \in 1..Len(ts) /\ i + 1 \in 1..Len(us) - 1
    BY <1>1, <1>2
  <2>2. ts[i] = us[i + 1] /\ ts[i + 1] = us[(i + 1) + 1]
    BY <1>2, <2>1
  <2> QED BY <2>1, <2>2 DEF Stream
<1>5. ASSUME ts # <<>> PROVE /\ ts[Len(ts)] = us[Len(us)] /\ ts[1] = us[2]
                             /\ 1 \in 1..Len(ts) /\ 1 \in 1..Len(us) - 1
  BY <1>1, <1>2, <1>5, EmptySeq
<1>6. IsUnit(ps, us[1])
  BY <1>1 DEF Stream
<1>7. ts = <<>> => us[1].of = Len(ps) /\ Ends(ps, us[1])
  <2> SUFFICES ASSUME ts = <<>> PROVE us[1].of = Len(ps) /\ Ends(ps, us[1])
    OBVIOUS
  <2>1. Len(us) = 1
    BY <1>1, <1>2, EmptySeq
  <2> QED BY <2>1 DEF Stream
<1>8. Stream(ps, ts)
  BY <1>2, <1>3, <1>4, <1>5 DEF Stream
<1>9. ts # <<>> => IsUnit(ps, ts[1]) /\ Follows(ps, us[1], ts[1])
  BY <1>3, <1>5 DEF Stream
<1> QED BY <1>2, <1>6, <1>7, <1>8, <1>9 DEF ts

\* What is gathered, and what is ready, stay so when the encoder adds a picture.
LEMMA GatheredGrows ==
    ASSUME NEW ps \in Seq(Picture), NEW p \in Picture, NEW qs, qs = Append(ps, p),
           NEW us, Stream(ps, us), us # <<>>, NEW v, NEW k, NEW l, Gathered(ps, us, v, k, l),
           NEW ws, ws # <<>>, ws[1] = us[1]
    PROVE  Gathered(qs, ws, v, k, l)
<1> DEFINE n == v[1][1]
           m == Len(v)
<1>1. /\ n \in 1..Len(ps) /\ m \in 1..ps[n].slices /\ v = [i \in 1..m |-> <<n, i>>]
      /\ k = ps[n].key /\ Knows(l, ps, n) /\ Follows(ps, SliceOf(ps, n, m), us[1])
  BY DEF Gathered
<1>2. IsUnit(ps, us[1])
  BY Advanced
<1> HIDE DEF n, m
<1>3. Len(ps) \in Nat /\ n \in 0..Len(ps) /\ n \in 1..Len(qs) /\ qs[n] = ps[n]
  BY <1>1, Grown, LenProperties
<1>4. Knows(l, qs, n)
  <2>1. ConfigOf(qs, n) = ConfigOf(ps, n)
    BY <1>3, Grown
  <2> QED BY <1>1, <2>1 DEF Knows
<1>5. SliceOf(qs, n, m) = SliceOf(ps, n, m)
  BY <1>3 DEF SliceOf
<1>6. IsUnit(ps, SliceOf(ps, n, m))
  BY <1>1, SliceIsUnit
<1>7. Follows(qs, SliceOf(ps, n, m), us[1])
  BY <1>1, <1>2, <1>6, GrownFollows
<1> QED BY <1>1, <1>3, <1>4, <1>5, <1>7 DEF Gathered, n, m

LEMMA ReadyGrows ==
    ASSUME NEW ps \in Seq(Picture), NEW p \in Picture, NEW qs, qs = Append(ps, p),
           NEW us, Stream(ps, us), NEW l, Ready(ps, us, l),
           NEW ns, ns # <<>>, IsUnit(qs, ns[1]), ns[1].of = Len(qs), Begins(qs, ns[1]),
           NEW ws, ws # <<>>, us = <<>> => ws = ns, us # <<>> => ws[1] = us[1]
    PROVE  Ready(qs, ws, l)
<1>1. Len(ps) \in Nat /\ Len(qs) = Len(ps) + 1
  BY Grown, LenProperties
<1>2. \A n \in 0..Len(ps) : ConfigOf(qs, n) = ConfigOf(ps, n)
  BY Grown
<1>3. \A n \in 0..Len(ps) : Knows(l, qs, n) <=> Knows(l, ps, n)
  BY <1>2 DEF Knows
<1>4. CASE us = <<>>
  <2>1. Knows(l, qs, Len(ps))
    BY <1>1, <1>3, <1>4 DEF Ready
  <2>2. ws[1] = ns[1] /\ ns[1].of - 1 = Len(ps)
    BY <1>1, <1>4
  <2>3. SameConfig(qs, ns[1].of) => Knows(l, qs, ns[1].of)
    BY <2>1, <2>2 DEF SameConfig, Knows
  <2> QED BY <2>1, <2>2, <2>3 DEF Ready, Begins
<1>5. CASE us # <<>>
  <2>1. us[1].of \in 1..Len(ps)
    BY <1>5, Advanced, UnitFields
  <2>2. us[1].of \in 0..Len(ps) /\ us[1].of - 1 \in 0..Len(ps)
    BY <1>1, <2>1
  <2>3. Knows(l, qs, us[1].of - 1) <=> Knows(l, ps, us[1].of - 1)
    BY <1>3, <2>2
  <2>4. /\ Knows(l, qs, us[1].of) <=> Knows(l, ps, us[1].of)
        /\ ConfigOf(qs, us[1].of) = ConfigOf(ps, us[1].of)
    BY <1>2, <1>3, <2>2
  <2> QED BY <1>5, <2>3, <2>4 DEF Ready
<1> QED BY <1>4, <1>5

\* The unit after the slices that were gathered: the next slice, or a new picture.
LEMMA AfterSlices ==
    ASSUME NEW ps \in Seq(Picture), NEW us, Stream(ps, us), us # <<>>,
           NEW v, NEW k, NEW l, Gathered(ps, us, v, k, l)
    PROVE  LET n == v[1][1]
               m == Len(v)
           IN /\ n \in 1..Len(ps) /\ m \in 1..ps[n].slices /\ ps[n].slices \in Nat
              /\ IsUnit(ps, us[1])
              /\ \/ us[1].of = n /\ us[1].slice = m + 1 /\ IsSlice(us[1])
                 \/ us[1].of = n + 1 /\ m = ps[n].slices /\ Begins(ps, us[1])
<1> DEFINE n == v[1][1]
           m == Len(v)
           u == us[1]
<1>1. /\ n \in 1..Len(ps) /\ m \in 1..ps[n].slices /\ Follows(ps, SliceOf(ps, n, m), u)
  BY DEF Gathered
<1>2. IsUnit(ps, u)
  BY Advanced
<1> HIDE DEF n, m, u
<1>3. ps[n].slices \in Nat
  <2>1. ps[n] \in Picture
    BY <1>1, ElementOfSeq
  <2> QED BY <2>1, BoundsAssumption DEF Picture
<1>4. /\ IsSlice(SliceOf(ps, n, m)) /\ SliceOf(ps, n, m).of = n /\ SliceOf(ps, n, m).slice = m
      /\ SliceOf(ps, n, m).type \in {"idr", "non"}
  BY NalFields DEF SliceOf, IsSlice
<1>5. CASE u.of = n /\ u.slice = m + 1
  <2>1. u.slice # 0
    BY <1>1, <1>3, <1>5
  <2>2. IsSlice(u)
    BY <1>2, <2>1, UnitFields
  <2> QED BY <1>1, <1>2, <1>3, <1>5, <2>2 DEF n, m, u
<1>6. CASE u.of = n + 1 /\ Ends(ps, SliceOf(ps, n, m)) /\ Begins(ps, u)
  <2>1. m = ps[n].slices
    BY <1>4, <1>6 DEF Ends
  <2> QED BY <1>1, <1>2, <1>3, <1>6, <2>1 DEF n, m, u
<1> QED BY <1>1, <1>4, <1>5, <1>6 DEF Follows

\* Which units processNAL takes for the beginning of a new picture: it is right.
LEMMA StartsRight ==
    ASSUME NEW ps \in Seq(Picture), NEW us, Stream(ps, us), us # <<>>,
           NEW v, NEW k, NEW l, Gathered(ps, us, v, k, l)
    PROVE  LET u == us[1]
           IN (\/ u.type \in {"aud", "sps"}
               \/ u.type = "idr" /\ (k = FALSE \/ u.slice = 1)
               \/ u.type = "non" /\ (k = TRUE \/ u.slice = 1)) <=> u.of # v[1][1]
<1> DEFINE n == v[1][1]
           m == Len(v)
           u == us[1]
<1>1. /\ n \in 1..Len(ps) /\ m \in 1..ps[n].slices /\ ps[n].slices \in Nat
      /\ IsUnit(ps, u)
      /\ \/ u.of = n /\ u.slice = m + 1 /\ IsSlice(u)
         \/ u.of = n + 1 /\ m = ps[n].slices /\ Begins(ps, u)
  BY AfterSlices
<1>2. k = ps[n].key /\ k \in BOOLEAN
  <2>1. ps[n] \in Picture
    BY <1>1, ElementOfSeq
  <2> QED BY <2>1 DEF Gathered, Picture
<1> HIDE DEF n, m, u
<1>3. CASE u.of = n /\ u.slice = m + 1 /\ IsSlice(u)
  <2>1. u.slice # 1 /\ u.of = n
    BY <1>1, <1>3
  <2>2. u.type \in {"idr", "non"} /\ (u.type = "idr" <=> k = TRUE)
    BY <1>1, <1>2, <1>3, UnitFields DEF IsSlice
  <2> QED BY <1>2, <2>1, <2>2 DEF n, u
<1>4. CASE u.of = n + 1 /\ Begins(ps, u)
  <2>1. u.of # n
    BY <1>1, <1>4
  <2>2. u.slice = 1 => u.type \in {"idr", "non"}
    <3>1. IsSlice(u) <=> u.slice # 0
      BY <1>1, UnitFields
    <3> QED BY <3>1 DEF IsSlice
  <2> QED BY <1>4, <2>1, <2>2 DEF Begins, n, u
<1> QED BY <1>1, <1>3, <1>4

LEMMA ConfigTypes ==
    ASSUME NEW ps \in Seq(Picture), NEW n \in 0..Len(ps)
    PROVE  ConfigOf(ps, n) \in 1..MaxConfigs /\ Params(ConfigOf(ps, n)) \in KnownParams
<1>1. ConfigOf(ps, n) \in 1..MaxConfigs
  <2>1. CASE n = 0
    BY <2>1, BoundsAssumption DEF ConfigOf
  <2>2. CASE n # 0
    <3>1. n \in 1..Len(ps)
      BY <2>2, LenProperties
    <3>2. ps[n] \in Picture
      BY <3>1, ElementOfSeq
    <3> QED BY <2>2, <3>2 DEF ConfigOf, Picture
  <2> QED BY <2>1, <2>2
<1> QED BY <1>1, BoundsAssumption DEF Params, KnownParams, Config

\* processNAL takes the next slice of the picture.
LEMMA GatherNext ==
    ASSUME NEW ps \in Seq(Picture), NEW us, Stream(ps, us), us # <<>>,
           NEW v, NEW k, NEW l, Gathered(ps, us, v, k, l), us[1].of = v[1][1]
    PROVE  /\ IsSlice(us[1]) /\ (us[1].type = "idr" => k = TRUE)
           /\ Gathered(ps, Tail(us), Append(v, <<us[1].of, us[1].slice>>), k, l)
           /\ Append(v, <<us[1].of, us[1].slice>>)[1][1] = v[1][1]
           /\ Append(v, <<us[1].of, us[1].slice>>) # <<>>
<1> DEFINE n == v[1][1]
           m == Len(v)
           u == us[1]
           w == Append(v, <<u.of, u.slice>>)
<1>1. /\ n \in 1..Len(ps) /\ m \in 1..ps[n].slices /\ ps[n].slices \in Nat /\ Len(ps) \in Nat
      /\ IsUnit(ps, u) /\ u.of = n /\ u.slice = m + 1 /\ IsSlice(u)
  <2>1. /\ n \in 1..Len(ps) /\ m \in 1..ps[n].slices /\ ps[n].slices \in Nat /\ IsUnit(ps, u)
        /\ \/ u.of = n /\ u.slice = m + 1 /\ IsSlice(u)
           \/ u.of = n + 1
    BY AfterSlices
  <2> QED BY <2>1, LenProperties
<1>2. /\ v = [i \in 1..m |-> <<n, i>>] /\ k = ps[n].key /\ Knows(l, ps, n)
  BY DEF Gathered
<1> HIDE DEF n, m
<1>3. u.slice \in 1..ps[n].slices /\ (u.type = "idr" <=> ps[n].key = TRUE)
  BY <1>1, UnitFields
<1>4. w = [i \in 1..m + 1 |-> <<n, i>>] /\ Len(w) = m + 1
  <2>1. w = Append([i \in 1..m |-> <<n, i>>], <<n, m + 1>>) /\ m \in Nat
    BY <1>1, <1>2
  <2> HIDE DEF w
  <2> QED BY <2>1
<1>5. w[1][1] = n
  <2> HIDE DEF w
  <2>1. 1 \in 1..m + 1
    BY <1>1
  <2> QED BY <1>4, <2>1
<1>6. u = SliceOf(ps, n, m + 1)
  <2>1. u.slice # 0
    BY <1>1, UnitFields
  <2> QED BY <1>1, <2>1 DEF IsUnit
<1>7. /\ Tail(us) = <<>> => u.of = Len(ps) /\ Ends(ps, u)
      /\ Tail(us) # <<>> => Follows(ps, u, Tail(us)[1])
  BY Advanced
<1>8. Gathered(ps, Tail(us), w, k, l)
  <2> HIDE DEF w, u
  <2>1. Tail(us) = <<>> => n = Len(ps) /\ m + 1 = ps[n].slices
    BY <1>1, <1>7 DEF Ends
  <2>2. Tail(us) # <<>> => Follows(ps, SliceOf(ps, n, m + 1), Tail(us)[1])
    BY <1>6, <1>7
  <2>3. m + 1 \in 1..ps[n].slices
    BY <1>1, <1>3
  <2> QED BY <1>1, <1>2, <1>4, <1>5, <2>1, <2>2, <2>3 DEF Gathered
<1>9. w # <<>>
  <2> HIDE DEF w
  <2>1. Len(w) # 0
    BY <1>1, <1>4
  <2> QED BY <2>1
<1> QED BY <1>1, <1>2, <1>3, <1>5, <1>8, <1>9 DEF n

\* processNAL between two pictures: a delimiter or a parameter set.
LEMMA ReadyNext ==
    ASSUME NEW ps \in Seq(Picture), NEW us, Stream(ps, us), us # <<>>,
           NEW l \in KnownParams, Ready(ps, us, l), ~IsSlice(us[1]),
           NEW m, m = [sps |-> IF us[1].type = "sps" THEN ps[us[1].of].config ELSE l.sps,
                       pps |-> IF us[1].type = "pps" THEN ps[us[1].of].config ELSE l.pps]
    PROVE  /\ m \in KnownParams /\ Ready(ps, Tail(us), m) /\ Tail(us) # <<>>
           /\ Tail(us)[1].of = us[1].of
           /\ l.sps # 0 => m.sps # 0
           /\ l.pps # 0 => m.pps # 0
<1> DEFINE u == us[1]
           w == Tail(us)[1]
           n == u.of
<1>1. /\ IsUnit(ps, u) /\ n \in 1..Len(ps) /\ Len(ps) \in Nat
      /\ u.slice = 0 /\ u.type \in {"aud", "sps", "pps"}
  <2>1. IsUnit(ps, u)
    BY Advanced
  <2>2. n \in 1..Len(ps) /\ (IsSlice(u) <=> u.slice # 0) /\ u.type \in {"aud", "sps", "pps", "idr", "non"}
    BY <2>1, UnitFields
  <2> QED BY <2>1, <2>2, LenProperties DEF IsSlice
<1>2. /\ Tail(us) # <<>> /\ IsUnit(ps, w) /\ Follows(ps, u, w)
  <2>1. /\ Tail(us) = <<>> => Ends(ps, u)
        /\ Tail(us) # <<>> => IsUnit(ps, w) /\ Follows(ps, u, w)
    BY Advanced
  <2> QED BY <2>1 DEF Ends
<1>3. /\ w.of = n
      /\ \/ u.type = "aud" /\ (w.type = "sps" \/ (w.slice = 1 /\ SameConfig(ps, w.of)))
         \/ u.type = "sps" /\ w.type = "pps"
         \/ u.type = "pps" /\ w.slice = 1
  BY <1>2 DEF Follows, Ends
<1>4. ps[n].config \in 1..MaxConfigs /\ ps[n].config = ConfigOf(ps, n) /\ MaxConfigs \in Nat
  <2>1. ps[n] \in Picture /\ n # 0
    BY <1>1, ElementOfSeq
  <2> QED BY <2>1, BoundsAssumption DEF Picture, ConfigOf
<1>5. l.sps \in Config /\ l.pps \in Config /\ l = [sps |-> l.sps, pps |-> l.pps]
  BY DEF KnownParams
<1>6. \/ u.type \in {"aud", "sps"} /\ Knows(l, ps, n - 1)
      \/ u.type = "pps" /\ l.sps = ConfigOf(ps, n)
  BY <1>1 DEF Ready
<1> HIDE DEF u, w, n
<1>7. m = [sps |-> IF u.type = "sps" THEN ps[n].config ELSE l.sps,
           pps |-> IF u.type = "pps" THEN ps[n].config ELSE l.pps]
  BY DEF u, n
<1>8. m \in KnownParams /\ (l.sps # 0 => m.sps # 0) /\ (l.pps # 0 => m.pps # 0)
  BY <1>4, <1>5, <1>7 DEF KnownParams, Config
<1>9. Ready(ps, Tail(us), m)
  <2>1. CASE u.type = "aud"
    <3>1. m = l /\ Knows(l, ps, n - 1)
      BY <1>5, <1>6, <1>7, <2>1
    <3>2. w.type = "sps" \/ (w.slice = 1 /\ SameConfig(ps, n))
      BY <1>3, <2>1
    <3>3. CASE w.type = "sps"
      BY <1>2, <1>3, <3>1, <3>3 DEF Ready, w
    <3>4. CASE w.slice = 1 /\ SameConfig(ps, n)
      <4>1. Knows(l, ps, n)
        BY <3>1, <3>4 DEF Knows, SameConfig
      <4> QED BY <1>2, <1>3, <3>1, <3>4, <4>1 DEF Ready, w
    <3> QED BY <3>2, <3>3, <3>4
  <2>2. CASE u.type = "sps"
    <3>1. w.type = "pps" /\ m.sps = ConfigOf(ps, n)
      BY <1>3, <1>4, <1>7, <2>2
    <3> QED BY <1>2, <1>3, <3>1 DEF Ready, w
  <2>3. CASE u.type = "pps"
    <3>1. w.slice = 1 /\ m = Params(ConfigOf(ps, n))
      BY <1>3, <1>4, <1>6, <1>7, <2>3 DEF Params
    <3> QED BY <1>2, <1>3, <3>1 DEF Ready, Knows, w
  <2> QED BY <1>1, <2>1, <2>2, <2>3
<1> QED BY <1>2, <1>3, <1>8, <1>9 DEF u, w, n

\* processNAL takes the first slice of a picture.
LEMMA GatherFirst ==
    ASSUME NEW ps \in Seq(Picture), NEW us, Stream(ps, us), us # <<>>,
           NEW l, Ready(ps, us, l), IsSlice(us[1]),
           NEW v, v = <<<<us[1].of, us[1].slice>>>>
    PROVE  /\ Gathered(ps, Tail(us), v, ps[us[1].of].key, l) /\ v[1][1] = us[1].of /\ v # <<>>
           /\ ps[us[1].of].key \in BOOLEAN
           /\ us[1].type = "idr" <=> ps[us[1].of].key = TRUE
<1> DEFINE u == us[1]
           n == u.of
<1>1. IsUnit(ps, u) /\ n \in 1..Len(ps) /\ u.type \in {"idr", "non"}
      /\ (u.type = "idr" <=> ps[n].key = TRUE) /\ u.slice \in 1..ps[n].slices
  <2>1. IsUnit(ps, u)
    BY Advanced
  <2>2. u.slice # 0
    BY <2>1, UnitFields
  <2> QED BY <2>1, <2>2, UnitFields DEF IsSlice
<1>2. u.slice = 1 /\ Knows(l, ps, n)
  BY <1>1 DEF Ready
<1>3. /\ Tail(us) = <<>> => n = Len(ps) /\ Ends(ps, u)
      /\ Tail(us) # <<>> => Follows(ps, u, Tail(us)[1])
  BY Advanced
<1>4. u = SliceOf(ps, n, 1)
  BY <1>1, <1>2 DEF IsUnit
<1>5. ps[n] \in Picture
  BY <1>1, ElementOfSeq
<1> HIDE DEF u, n
<1>6. v = <<<<n, 1>>>> /\ Len(v) = 1 /\ v[1][1] = n /\ v # <<>> /\ v = [i \in 1..1 |-> <<n, i>>]
  BY <1>2 DEF u, n
<1>7. Gathered(ps, Tail(us), v, ps[n].key, l)
  <2>1. Tail(us) = <<>> => n = Len(ps) /\ ps[n].slices = 1
    BY <1>2, <1>3 DEF Ends, n
  <2>2. Tail(us) # <<>> => Follows(ps, SliceOf(ps, n, 1), Tail(us)[1])
    BY <1>3, <1>4
  <2>3. 1 \in 1..ps[n].slices
    BY <1>1, <1>2
  <2> QED BY <1>1, <1>2, <1>6, <2>1, <2>2, <2>3 DEF Gathered
<1> QED BY <1>1, <1>5, <1>6, <1>7 DEF Picture, u, n

\* After a whole picture the next one is ready.
LEMMA WholeReady ==
    ASSUME NEW ps \in Seq(Picture), NEW us, Stream(ps, us),
           NEW v, NEW k, NEW l, Gathered(ps, us, v, k, l), Len(v) = ps[v[1][1]].slices
    PROVE  /\ Ready(ps, us, l)
           /\ us = <<>> => v[1][1] = Len(ps)
           /\ us # <<>> => us[1].of = v[1][1] + 1
<1> DEFINE n == v[1][1]
<1>1. CASE us = <<>>
  BY <1>1 DEF Gathered, Ready
<1>2. CASE us # <<>>
  <2>1. /\ n \in 1..Len(ps) /\ ps[n].slices \in Nat /\ IsUnit(ps, us[1])
        /\ \/ us[1].of = n /\ us[1].slice = ps[n].slices + 1 /\ IsSlice(us[1])
           \/ us[1].of = n + 1 /\ Begins(ps, us[1])
    BY <1>2, AfterSlices
  <2>2. us[1].of = n + 1 /\ Begins(ps, us[1])
    <3>1. us[1].slice # 0 => us[1].slice \in 1..ps[us[1].of].slices
      BY <2>1, UnitFields
    <3> QED BY <2>1, <3>1
  <2>3. Knows(l, ps, n) /\ us[1].of - 1 = n
    BY <2>1, <2>2 DEF Gathered
  <2>4. SameConfig(ps, us[1].of) => Knows(l, ps, us[1].of)
    BY <2>3 DEF SameConfig, Knows
  <2> QED BY <1>2, <2>2, <2>3, <2>4 DEF Ready, Begins
<1> QED BY <1>1, <1>2

-----------------------------------------------------------------------------
(* The slices of an access unit.  Induction over its length is the least    *)
(* number principle: a set of counterexamples has a least member.           *)

LEMMA LeastMember ==
    ASSUME NEW T, T \subseteq Nat, T # {}
    PROVE  \E x \in T : \A y \in T : x <= y
<1> DEFINE R == {ss \in Nat \X Nat : ss[1] < ss[2]}
<1>1. IsWellFoundedOn(R, Nat)
  BY NatLessThanWellFounded DEF OpToRel
<1>2. PICK x \in T : \A y \in T : <<y, x>> \notin R
  <2> HIDE DEF R
  <2> QED BY <1>1, WFMin
<1>3. \A y \in T : ~(y < x)
  BY <1>2
<1> QED BY <1>3

\* What the recursion in SlicesOf asks of a function.
Takes(f, us) ==
    f = [i \in 0..Len(us) |->
           IF i = 0 THEN <<>>
           ELSE IF us[i].type \in {"idr", "non"}
                THEN Append(f[i - 1], <<us[i].of, us[i].slice>>)
                ELSE f[i - 1]]

LEMMA SlicesAreUnique ==
    ASSUME NEW us, Len(us) \in Nat, NEW f, Takes(f, us)
    PROVE  SlicesOf(us) = f[Len(us)]
<1> DEFINE g == CHOOSE s : Takes(s, us)
           D == {i \in 0..Len(us) : g[i] # f[i]}
<1>1. SlicesOf(us) = g[Len(us)]
  BY DEF SlicesOf, Takes
<1>2. Takes(g, us)
  BY Zenon
<1> HIDE DEF g
<1>3. g[0] = f[0]
  <2>1. 0 \in 0..Len(us)
    OBVIOUS
  <2> QED BY <1>2, <2>1 DEF Takes
<1>4. ASSUME NEW i \in 1..Len(us), g[i - 1] = f[i - 1] PROVE g[i] = f[i]
  <2>1. i \in 0..Len(us) /\ i # 0
    OBVIOUS
  <2>2. g[i] = IF us[i].type \in {"idr", "non"} THEN Append(g[i - 1], <<us[i].of, us[i].slice>>)
               ELSE g[i - 1]
    BY <1>2, <2>1 DEF Takes
  <2>3. f[i] = IF us[i].type \in {"idr", "non"} THEN Append(f[i - 1], <<us[i].of, us[i].slice>>)
               ELSE f[i - 1]
    BY <2>1 DEF Takes
  <2> QED BY <1>4, <2>2, <2>3
<1>5. ASSUME D # {} PROVE FALSE
  <2>1. PICK x \in D : \A y \in D : x <= y
    <3> D \subseteq Nat
      OBVIOUS
    <3> HIDE DEF D
    <3> QED BY <1>5, LeastMember
  <2>2. x # 0
    BY <1>3
  <2>3. x \in 1..Len(us) /\ x - 1 \in 0..Len(us) /\ x - 1 \notin D
    BY <2>1, <2>2
  <2>4. g[x - 1] = f[x - 1]
    BY <2>3
  <2> QED BY <1>4, <2>1, <2>3, <2>4
<1>6. Len(us) \in 0..Len(us)
  OBVIOUS
<1> QED BY <1>1, <1>5, <1>6

\* The slices of a picture's access unit are the slices of the picture.
SlicesRight(us, n, p, b) ==
    /\ SlicesOf(us) = [i \in 1..p.slices |-> <<n, i>>]
    /\ (\E i \in 1..Len(us) : us[i].type = "idr") <=> p.key = TRUE
    /\ \A i \in 1..Len(us) : us[i].of = n
    /\ (\E i \in 1..Len(us) : us[i].type = "sps") <=> b = 2
    /\ p.slices \in Nat \ {0} /\ Len(us) # 0

LEMMA SlicesOfPicture ==
    ASSUME NEW n \in Nat, NEW p \in Picture, NEW us, NEW a, NEW b, PictureUnits(us, n, p, a, b)
    PROVE  SlicesRight(us, n, p, b)
<1> DEFINE t == IF p.key = TRUE THEN "idr" ELSE "non"
           c == a + b
           k == p.slices
           f == [i \in 0..Len(us) |-> IF i <= c THEN <<>> ELSE [j \in 1..i - c |-> <<n, j>>]]
<1>3. /\ a \in {0, 1} /\ b \in {0, 2} /\ c \in Nat /\ k \in Nat \ {0} /\ Len(us) = c + k
      /\ a = 1 => us[1] = Nal("aud", n, 0)
      /\ b = 2 => us[a + 1] = Nal("sps", n, 0) /\ us[a + 2] = Nal("pps", n, 0)
      /\ \A i \in 1..k : us[c + i] = Nal(t, n, i)
  BY DEF PictureUnits
<1>4. t \in {"idr", "non"} /\ (t = "idr" <=> p.key = TRUE)
  OBVIOUS
<1> HIDE DEF t
<1>5. \A i \in 1..c : \/ i = 1 /\ a = 1
                      \/ i = a + 1 /\ b = 2
                      \/ i = a + 2 /\ b = 2
  BY <1>3
<1> HIDE DEF c, k
<1>6. ASSUME NEW i \in 1..c PROVE us[i].type \in {"aud", "sps", "pps"} /\ us[i].of = n
                                  /\ (us[i].type = "sps" => b = 2)
  <2>1. us[i] = Nal("aud", n, 0) \/ (us[i] = Nal("sps", n, 0) /\ b = 2) \/ us[i] = Nal("pps", n, 0)
    BY <1>3, <1>5
  <2> QED BY <2>1, NalFields
<1>7. ASSUME NEW i \in 1..k
      PROVE  us[c + i].type = t /\ us[c + i].of = n /\ us[c + i].slice = i
  BY <1>3, NalFields
<1>8. ASSUME NEW i \in 1..Len(us) PROVE i \in 1..c \/ \E j \in 1..k : i = c + j
  <2>1. CASE i <= c
    BY <1>3, <2>1
  <2>2. CASE i > c
    <3>1. i - c \in 1..k /\ i = c + (i - c)
      BY <1>3, <2>2
    <3> QED BY <3>1
  <2> QED BY <1>3, <2>1, <2>2
<1>9. Takes(f, us)
  <2> DEFINE h == [i \in 0..Len(us) |->
                     IF i = 0 THEN <<>>
                     ELSE IF us[i].type \in {"idr", "non"}
                          THEN Append(f[i - 1], <<us[i].of, us[i].slice>>)
                          ELSE f[i - 1]]
  <2>1. ASSUME NEW i \in 0..Len(us) PROVE f[i] = h[i]
    <3>1. CASE i = 0
      BY <1>3, <3>1
    <3>2. CASE i \in 1..c
      <4>1. us[i].type \notin {"idr", "non"}
        BY <1>6, <3>2
      <4>2. i - 1 \in 0..Len(us) /\ i - 1 <= c /\ i <= c /\ i # 0
        BY <1>3, <3>2
      <4>3. f[i] = <<>> /\ f[i - 1] = <<>>
        BY <4>2
      <4>4. h[i] = f[i - 1]
        <5> HIDE DEF f
        <5> QED BY <4>1, <4>2
      <4> QED BY <4>3, <4>4
    <3>3. ASSUME NEW j \in 1..k, i = c + j PROVE f[i] = h[i]
      <4>1. us[i].type \in {"idr", "non"} /\ us[i].of = n /\ us[i].slice = j
        BY <1>4, <1>7, <3>3
      <4>2. i - 1 \in 0..Len(us) /\ ~(i <= c) /\ i - c = j /\ i # 0 /\ (i - 1) - c = j - 1
            /\ j \in Nat /\ (i - 1 <= c <=> j = 1)
        BY <1>3, <3>3
      <4>3. f[i] = [x \in 1..j |-> <<n, x>>]
        BY <4>2
      <4>4. f[i - 1] = [x \in 1..j - 1 |-> <<n, x>>]
        <5>1. CASE j = 1
          <6>1. f[i - 1] = <<>>
            BY <4>2, <5>1
          <6> QED BY <5>1, <6>1
        <5>2. CASE j # 1
          BY <4>2, <5>2
        <5> QED BY <5>1, <5>2
      <4>5. h[i] = Append(f[i - 1], <<n, j>>)
        <5> HIDE DEF f
        <5> QED BY <4>1, <4>2
      <4>6. Append([x \in 1..j - 1 |-> <<n, x>>], <<n, j>>) = [x \in 1..j |-> <<n, x>>]
        BY <4>2
      <4> QED BY <4>3, <4>4, <4>5, <4>6
    <3>4. i = 0 \/ i \in 1..Len(us)
      BY <1>3
    <3> QED BY <1>8, <3>1, <3>2, <3>3, <3>4
  <2>2. f = h
    BY <2>1
  <2> QED BY <2>2 DEF Takes
<1>10. SlicesOf(us) = [i \in 1..k |-> <<n, i>>]
  <2>1. SlicesOf(us) = f[Len(us)]
    <3> HIDE DEF f
    <3> QED BY <1>3, <1>9, SlicesAreUnique
  <2>2. f[Len(us)] = [i \in 1..k |-> <<n, i>>]
    <3>1. Len(us) \in 0..Len(us) /\ ~(Len(us) <= c) /\ Len(us) - c = k
      BY <1>3
    <3> QED BY <3>1
  <2> QED BY <2>1, <2>2
<1>11. (\E i \in 1..Len(us) : us[i].type = "idr") <=> p.key = TRUE
  <2>1. ASSUME NEW i \in 1..Len(us), us[i].type = "idr" PROVE p.key = TRUE
    <3>1. i \notin 1..c
      BY <1>6, <2>1
    <3>2. PICK j \in 1..k : i = c + j
      BY <1>8, <3>1
    <3> QED BY <1>4, <1>7, <2>1, <3>2
  <2>2. c + 1 \in 1..Len(us) /\ us[c + 1].type = t
    <3>1. 1 \in 1..k /\ c + 1 \in 1..Len(us)
      BY <1>3
    <3> QED BY <1>7, <3>1
  <2> QED BY <1>4, <2>1, <2>2
<1>12. \A i \in 1..Len(us) : us[i].of = n
  BY <1>6, <1>7, <1>8
<1>13. (\E i \in 1..Len(us) : us[i].type = "sps") <=> b = 2
  <2>1. ASSUME NEW i \in 1..Len(us), us[i].type = "sps" PROVE b = 2
    <3>1. \A j \in 1..k : i # c + j
      BY <1>4, <1>7, <2>1
    <3>2. i \in 1..c
      BY <1>8, <3>1
    <3> QED BY <1>6, <2>1, <3>2
  <2>2. ASSUME b = 2 PROVE a + 1 \in 1..Len(us) /\ us[a + 1].type = "sps"
    <3>1. a + 1 \in 1..Len(us)
      BY <1>3, <2>2 DEF c
    <3> QED BY <1>3, <2>2, <3>1, NalFields
  <2> QED BY <2>1, <2>2
<1>14. Len(us) # 0
  BY <1>3
<1> QED BY <1>3, <1>10, <1>11, <1>12, <1>13, <1>14 DEF k, SlicesRight

-----------------------------------------------------------------------------
(* The parser.                                                              *)

Flushing == pc \in {"flush", "resume", "config", "send", "sent"}

ParserTypes ==
    /\ path \in Paths /\ ended \in BOOLEAN
    /\ pc \in {"top", "read", "nal", "unit", "done"} \/ Flushing
    /\ Encoded(pictures) /\ Len(pictures) <= MaxPictures
    /\ latest \in KnownParams /\ pendingKeyframe \in BOOLEAN

\* The input goes on with what was gathered.  A byte stream may end in the middle
\* of a picture; then nothing more is processed.
Buffered ==
    /\ Stream(pictures, input)
    /\ vcl # <<>> => Gathered(pictures, input, vcl, pendingKeyframe, latest)
    /\ vcl = <<>> => pendingKeyframe = FALSE /\ (~ended => Ready(pictures, input, latest))

\* The picture that was gathered is all there.
Whole ==
    \/ Len(vcl) = pictures[vcl[1][1]].slices
    \/ ~Framed /\ ended /\ vcl[1][1] = Len(pictures)

\* An access unit of HEVC.
AccessUnit(ps, us) ==
    /\ ps # <<>>
    /\ \E a, b : /\ PictureUnits(us, Len(ps), ps[Len(ps)], a, b)
                /\ (b = 2 \/ SameConfig(ps, Len(ps)))

Stage ==
    /\ Flushing => vcl # <<>> /\ Whole
    /\ pc \in {"top", "read"} => /\ Framed => input = <<>> /\ vcl = <<>>
                                 /\ Len(input) <= 1
    /\ path = "hevc" => pc # "nal" /\ (pc # "unit" => input = <<>>)
    /\ pc = "unit" => /\ path = "hevc" /\ vcl = <<>> /\ AccessUnit(pictures, input)
                      /\ Knows(latest, pictures, Len(pictures) - 1)
    /\ ended => \/ pc = "done"
                \/ ~Framed /\ Len(input) <= 1 /\ (pc = "nal" \/ Flushing)

ParserInv == ParserTypes /\ Buffered /\ Stage

LEMMA ParserKept ==
    ASSUME ParserInv, UNCHANGED <<source, buffers>>
    PROVE  Buffered' /\ (ParserTypes' <=> pc' \in {"top", "read", "nal", "unit", "done"} \/ Flushing')
           /\ (Whole' <=> Whole) /\ (Framed' <=> Framed)
<1>1. /\ path' = path /\ pictures' = pictures /\ ended' = ended
      /\ input' = input /\ vcl' = vcl /\ pendingKeyframe' = pendingKeyframe /\ latest' = latest
  BY DEF source, buffers
<1> QED BY <1>1 DEF ParserInv, ParserTypes, Buffered, Whole, Framed

\* Steps that leave the parser alone.
LEMMA ParserIdle ==
    ASSUME ParserInv, UNCHANGED <<source, pc, buffers>>
    PROVE  ParserInv'
<1>1. /\ path' = path /\ pictures' = pictures /\ ended' = ended /\ pc' = pc
      /\ input' = input /\ vcl' = vcl /\ pendingKeyframe' = pendingKeyframe /\ latest' = latest
  BY DEF source, buffers
<1> QED BY <1>1 DEF ParserInv, ParserTypes, Buffered, Stage, Whole, Framed, Flushing

\* Steps that only go on to another place.
LEMMA ParserMoves ==
    ASSUME ParserInv, UNCHANGED <<source, buffers>>,
           \/ pc = "top" /\ pc' = "read"
           \/ pc # "unit" /\ pc' = "done"
           \/ Flushing /\ pc' \in {"resume", "config", "send", "sent"}
           \/ InputDone
    PROVE  ParserInv'
<1>1. /\ path' = path /\ pictures' = pictures /\ ended' = ended
      /\ input' = input /\ vcl' = vcl /\ pendingKeyframe' = pendingKeyframe /\ latest' = latest
  BY DEF source, buffers
<1>2. Buffered' /\ (Whole' <=> Whole) /\ (Framed' <=> Framed)
      /\ (ParserTypes' <=> pc' \in {"top", "read", "nal", "unit", "done"} \/ Flushing')
  BY ParserKept
<1>3. CASE pc = "top" /\ pc' = "read"
  <2>1. ParserTypes'
    BY <1>2, <1>3
  <2>2. Stage'
    BY <1>1, <1>2, <1>3 DEF ParserInv, Stage, Flushing
  <2> QED BY <1>2, <2>1, <2>2 DEF ParserInv
<1>4. CASE pc # "unit" /\ pc' = "done"
  <2>1. ParserTypes'
    BY <1>2, <1>4
  <2>2. path = "hevc" => input = <<>>
    BY <1>4 DEF ParserInv, Stage
  <2>3. Stage'
    BY <1>1, <1>2, <1>4, <2>2 DEF ParserInv, Stage, Flushing
  <2> QED BY <1>2, <2>1, <2>3 DEF ParserInv
<1>5. CASE Flushing /\ pc' \in {"resume", "config", "send", "sent"}
  <2>1. ParserTypes' /\ Flushing'
    BY <1>2, <1>5 DEF Flushing
  <2>2. Stage'
    BY <1>1, <1>2, <1>5, <2>1 DEF ParserInv, Stage, Flushing
  <2> QED BY <1>2, <2>1, <2>2 DEF ParserInv
<1>6. CASE InputDone
  <2>1. /\ pc = "nal" /\ ~Available /\ (vcl # <<>> => ~Framed /\ ~ended)
        /\ pc' = IF ended THEN "done" ELSE "top"
    BY <1>6 DEF InputDone
  <2>2. ParserTypes'
    BY <1>2, <2>1
  <2>3. Len(input) <= 1 /\ (Framed => input = <<>>)
    <3>1. input \in Seq(NalUnit)
      BY DEF ParserInv, Buffered, Stream
    <3> QED BY <2>1, <3>1, LenProperties, EmptySeq DEF Available
  <2>4. Stage'
    BY <1>1, <1>2, <2>1, <2>3 DEF ParserInv, Stage, Flushing
  <2> QED BY <1>2, <2>2, <2>4 DEF ParserInv
<1> QED BY <1>3, <1>4, <1>5, <1>6

\* The capture ends.
LEMMA ParserEnds == ASSUME ParserInv, CaptureEnds PROVE ParserInv'
<1>1. /\ path' = path /\ pictures' = pictures /\ ended' = TRUE
      /\ input' = input /\ vcl' = vcl /\ pendingKeyframe' = pendingKeyframe /\ latest' = latest
      /\ pc = "read" /\ pc' \in {"done", "nal"} /\ (Framed => pc' = "done")
  BY DEF CaptureEnds, buffers
<1>2. Framed' <=> Framed
  BY <1>1 DEF Framed
<1>3. ParserTypes' /\ Buffered'
  BY <1>1 DEF ParserInv, ParserTypes, Buffered
<1>4. path = "hevc" => Framed
  BY DEF Framed
<1>5. Stage'
  BY <1>1, <1>2, <1>4 DEF ParserInv, Stage, Flushing
<1> QED BY <1>3, <1>5 DEF ParserInv

\* A picture was flushed, or dropped.
LEMMA ParserReset ==
    ASSUME ParserInv, Flushing, UNCHANGED <<source, input, latest>>,
           vcl' = <<>>, pendingKeyframe' = FALSE, pc' = AfterFlush
    PROVE  ParserInv'
<1>1. /\ path' = path /\ pictures' = pictures /\ ended' = ended
      /\ input' = input /\ latest' = latest
  BY DEF source
<1>2. Framed' <=> Framed
  BY <1>1 DEF Framed
<1>3. pc' = (IF path = "hevc" THEN "top" ELSE "nal")
  BY DEF AfterFlush
<1>4. ParserTypes'
  BY <1>1, <1>3 DEF ParserInv, ParserTypes
<1>5. ~ended => Ready(pictures, input, latest)
  <2> SUFFICES ASSUME ~ended PROVE Ready(pictures, input, latest)
    OBVIOUS
  <2>1. vcl # <<>> /\ Len(vcl) = pictures[vcl[1][1]].slices
    BY DEF ParserInv, Stage, Whole
  <2>2. Gathered(pictures, input, vcl, pendingKeyframe, latest)
    BY <2>1 DEF ParserInv, Buffered
  <2> QED BY <2>1, <2>2, WholeReady DEF ParserInv, ParserTypes, Encoded, Buffered
<1>6. Buffered'
  BY <1>1, <1>5 DEF ParserInv, Buffered
<1>7. path = "hevc" => input = <<>> /\ Framed
  BY DEF ParserInv, Stage, Flushing, Framed
<1>8. Stage'
  <2>1. ended => path # "hevc" /\ ~Framed /\ Len(input) <= 1
    BY <1>7 DEF ParserInv, Stage, Flushing
  <2>2. Len(<<>>) <= 1
    OBVIOUS
  <2>3. input = <<>> => Len(input) <= 1
    BY <2>2
  <2> QED BY <1>1, <1>2, <1>3, <1>7, <2>1, <2>3 DEF ParserInv, Stage, Flushing
<1> QED BY <1>4, <1>6, <1>8 DEF ParserInv

\* The next picture is read.
LEMMA ParserReads ==
    ASSUME ParserInv,
           NEW key \in BOOLEAN, NEW aud \in BOOLEAN, NEW params \in BOOLEAN,
           NEW config \in 1..MaxConfigs, NEW slices \in 1..MaxSlices,
           ReadPicture(key, aud, params, config, slices)
    PROVE  ParserInv'
<1> DEFINE ps == pictures
           p == [key |-> key, config |-> config, slices |-> slices]
           ns == NalUnits(Len(pictures) + 1, p, aud, params)
<1>1. /\ pc = "read" /\ Len(pictures) < MaxPictures
      /\ params => key
      /\ config # CurrentConfig => params
      /\ pictures' = Append(pictures, p) /\ input' = input \o ns
      /\ pc' = (IF path = "hevc" THEN "unit" ELSE "nal")
      /\ path' = path /\ ended' = ended /\ vcl' = vcl
      /\ pendingKeyframe' = pendingKeyframe /\ latest' = latest
  BY DEF ReadPicture
<1>2. pictures \in Seq(Picture) /\ p \in Picture /\ Len(pictures) \in Nat
  BY LenProperties DEF ParserInv, ParserTypes, Encoded, Picture
<1>3. PICK qs : qs = Append(pictures, p)
  OBVIOUS
<1>4. PICK us : us = ns
  OBVIOUS
<1>5. PICK ws : ws = input \o us
  OBVIOUS
<1> HIDE DEF ns
<1>6. /\ pictures' = qs /\ input' = ws
      /\ qs \in Seq(Picture) /\ Len(qs) = Len(pictures) + 1 /\ qs[Len(qs)] = p
      /\ \A n \in 1..Len(pictures) : qs[n] = pictures[n]
      /\ \A n \in 0..Len(pictures) : ConfigOf(qs, n) = ConfigOf(pictures, n)
  <2>1. pictures' = qs /\ input' = ws
    BY <1>1, <1>3, <1>4, <1>5
  <2> HIDE DEF p
  <2>2. qs \in Seq(Picture) /\ Len(qs) = Len(pictures) + 1 /\ qs[Len(qs)] = p
    BY <1>2, <1>3, Grown
  <2>3. \A n \in 1..Len(pictures) : qs[n] = pictures[n]
    BY <1>2, <1>3, Grown
  <2>4. \A n \in 0..Len(pictures) : ConfigOf(qs, n) = ConfigOf(pictures, n)
    BY <1>2, <1>3, Grown, Zenon
  <2> QED BY <2>1, <2>2, <2>3, <2>4
<1>7. SameConfig(qs, Len(qs)) <=> config = CurrentConfig
  <2>1. ConfigOf(qs, Len(qs)) = config
    BY <1>2, <1>6 DEF ConfigOf
  <2>2. ConfigOf(qs, Len(pictures)) = CurrentConfig
    <3>1. ConfigOf(qs, Len(pictures)) = ConfigOf(pictures, Len(pictures))
      BY <1>2, <1>6
    <3>2. pictures = <<>> <=> Len(pictures) = 0
      BY <1>2, EmptySeq
    <3> QED BY <3>1, <3>2 DEF ConfigOf, CurrentConfig
  <2>3. Len(qs) - 1 = Len(pictures)
    BY <1>2, <1>6
  <2> QED BY <2>1, <2>2, <2>3 DEF SameConfig
<1>8. params = TRUE \/ SameConfig(qs, Len(qs))
  BY <1>1, <1>7
<1>9. Encoded(qs)
  <2>1. ASSUME NEW n \in 1..Len(qs), qs[n].key = FALSE PROVE SameConfig(qs, n)
    <3>1. CASE n = Len(qs)
      <4>1. key = FALSE
        BY <1>6, <2>1, <3>1
      <4> QED BY <1>1, <1>7, <3>1, <4>1
    <3>2. CASE n # Len(qs)
      <4>1. n \in 1..Len(pictures) /\ n \in 0..Len(pictures) /\ n - 1 \in 0..Len(pictures)
        BY <1>2, <1>6, <3>2
      <4>2. pictures[n].key = FALSE
        BY <1>6, <2>1, <4>1
      <4>3. SameConfig(pictures, n)
        BY <4>1, <4>2 DEF ParserInv, ParserTypes, Encoded
      <4>4. ConfigOf(qs, n) = ConfigOf(pictures, n) /\ ConfigOf(qs, n - 1) = ConfigOf(pictures, n - 1)
        BY <1>6, <4>1
      <4> QED BY <4>3, <4>4 DEF SameConfig
    <3> QED BY <3>1, <3>2
  <2> QED BY <1>6, <2>1 DEF Encoded
<1>10. PICK a, b : PictureUnits(us, Len(qs), p, a, b) /\ (b = 2 \/ SameConfig(qs, Len(qs)))
  <2>1. PICK a, b : (a = IF aud THEN 1 ELSE 0) /\ (b = IF params THEN 2 ELSE 0)
    OBVIOUS
  <2>2. us = NalUnits(Len(qs), p, aud, params) /\ Len(qs) \in Nat
    BY <1>2, <1>4, <1>6 DEF ns
  <2>3. PictureUnits(us, Len(qs), p, a, b)
    <3> HIDE DEF p
    <3> QED BY <1>2, <2>1, <2>2, NalUnitsAre, Zenon
  <2>4. b = 2 \/ SameConfig(qs, Len(qs))
    BY <1>8, <2>1
  <2> QED BY <2>3, <2>4
<1>11. Stream(qs, us) /\ us # <<>> /\ us[1].of = Len(qs) /\ Begins(qs, us[1])
  <2> HIDE DEF p
  <2>1. Stream(qs, us) /\ us # <<>>
    BY <1>2, <1>3, <1>10, NewPicture
  <2>2. us[1].of = Len(qs) /\ Begins(qs, us[1])
    BY <1>2, <1>3, <1>10, NewPicture
  <2> QED BY <2>1, <2>2
<1>12. Stream(pictures, input) /\ input \in Seq(NalUnit)
  BY DEF ParserInv, Buffered, Stream
<1>13. /\ Stream(qs, ws) /\ ws # <<>> /\ (input = <<>> => ws = us)
       /\ input # <<>> => ws[1] = input[1]
  <2> HIDE DEF p
  <2>1. pictures \in Seq(Picture) /\ p \in Picture
    BY <1>2
  <2>2. Stream(pictures, input)
    BY <1>12
  <2>3. Stream(qs, ws)
    BY <1>3, <1>5, <1>11, <2>1, <2>2, Extended
  <2>4. ws # <<>>
    BY <1>3, <1>5, <1>11, <2>1, <2>2, Extended
  <2>5. input = <<>> => ws = us
    BY <1>3, <1>5, <1>11, <2>1, <2>2, Extended
  <2>6. input # <<>> => ws[1] = input[1]
    BY <1>3, <1>5, <1>11, <2>1, <2>2, Extended
  <2> QED BY <2>3, <2>4, <2>5, <2>6
<1>14. ended = FALSE /\ (Framed => input = <<>> /\ vcl = <<>>)
  BY <1>1 DEF ParserInv, ParserTypes, Stage, Flushing
<1>15. Framed' <=> Framed
  BY <1>1 DEF Framed
<1>16. ParserTypes'
  <2>1. Len(qs) <= MaxPictures
    BY <1>1, <1>2, <1>6, BoundsAssumption
  <2> QED BY <1>1, <1>6, <1>9, <2>1 DEF ParserInv, ParserTypes
<1>17. Buffered'
  <2>1. ASSUME vcl # <<>> PROVE Gathered(qs, ws, vcl, pendingKeyframe, latest)
    <3>1. Gathered(pictures, input, vcl, pendingKeyframe, latest)
      BY <2>1 DEF ParserInv, Buffered
    <3>2. CASE input # <<>>
      <4> HIDE DEF p
      <4> QED BY <1>2, <1>3, <1>12, <1>13, <3>1, <3>2, GatheredGrows
    <3>3. CASE input = <<>>
      <4> DEFINE n == vcl[1][1]
                 m == Len(vcl)
      <4>1. /\ n = Len(pictures) /\ n \in 1..Len(pictures) /\ m = pictures[n].slices
            /\ m \in 1..pictures[n].slices /\ vcl = [i \in 1..m |-> <<n, i>>]
            /\ pendingKeyframe = pictures[n].key /\ Knows(latest, pictures, n)
        BY <3>1, <3>3 DEF Gathered
      <4> HIDE DEF n, m
      <4>2. qs[n] = pictures[n] /\ n \in 1..Len(qs) /\ ConfigOf(qs, n) = ConfigOf(pictures, n)
            /\ Len(qs) = n + 1
        BY <1>2, <1>6, <4>1
      <4>3. Knows(latest, qs, n)
        BY <4>1, <4>2 DEF Knows
      <4>4. /\ IsSlice(SliceOf(qs, n, m)) /\ SliceOf(qs, n, m).of = n
            /\ SliceOf(qs, n, m).slice = qs[n].slices
        BY <4>1, <4>2, NalFields DEF SliceOf, IsSlice
      <4>5. Ends(qs, SliceOf(qs, n, m))
        BY <4>4 DEF Ends
      <4>6. Follows(qs, SliceOf(qs, n, m), ws[1])
        BY <1>11, <1>13, <3>3, <4>2, <4>4, <4>5 DEF Follows
      <4> QED BY <1>13, <4>1, <4>2, <4>3, <4>6 DEF Gathered, n, m
    <3> QED BY <3>2, <3>3
  <2>2. ASSUME vcl = <<>> PROVE pendingKeyframe = FALSE /\ Ready(qs, ws, latest)
    <3>1. pendingKeyframe = FALSE /\ Ready(pictures, input, latest)
      BY <1>14, <2>2 DEF ParserInv, Buffered
    <3>2. IsUnit(qs, us[1])
      BY <1>6, <1>11, Advanced
    <3>3. Ready(qs, ws, latest)
      <4> HIDE DEF p
      <4> QED BY <1>2, <1>3, <1>11, <1>12, <1>13, <3>1, <3>2, ReadyGrows
    <3> QED BY <3>1, <3>3
  <2> QED BY <1>1, <1>6, <1>13, <2>1, <2>2 DEF Buffered
<1>18. Stage'
  <2>1. ASSUME path = "hevc"
        PROVE  /\ vcl = <<>> /\ AccessUnit(qs, ws) /\ Knows(latest, qs, Len(qs) - 1)
    <3>1. input = <<>> /\ vcl = <<>> /\ ws = us
      BY <1>13, <1>14, <2>1 DEF Framed
    <3>2. Len(qs) # 0 /\ qs # <<>>
      BY <1>2, <1>6, EmptySeq
    <3>3. AccessUnit(qs, ws)
      BY <1>6, <1>8, <1>10, <3>1, <3>2 DEF AccessUnit
    <3>4. Knows(latest, pictures, Len(pictures))
      BY <1>14, <3>1 DEF ParserInv, Buffered, Ready
    <3>5. Len(qs) - 1 = Len(pictures) /\ ConfigOf(qs, Len(pictures)) = ConfigOf(pictures, Len(pictures))
      BY <1>2, <1>6
    <3> QED BY <3>1, <3>3, <3>4, <3>5 DEF Knows
  <2> QED BY <1>1, <1>6, <1>14, <2>1 DEF Stage, Flushing
<1> QED BY <1>16, <1>17, <1>18 DEF ParserInv

\* An access unit is taken apart.
LEMMA UnitTaken ==
    ASSUME ParserInv, TakeUnit
    PROVE  LET n == Len(pictures)
           IN /\ n \in 1..Len(pictures) /\ path = "hevc" /\ vcl = <<>> /\ ended = FALSE
              /\ path' = path /\ pictures' = pictures /\ ended' = ended
              /\ input # <<>> /\ input[1].of = n /\ input' = <<>> /\ pc' = "flush"
              /\ vcl' = [i \in 1..pictures[n].slices |-> <<n, i>>]
              /\ pictures[n].slices \in Nat \ {0}
              /\ pendingKeyframe' = pictures[n].key
              /\ latest' = latest \/ latest' = Params(ConfigOf(pictures, n))
              /\ Knows(latest', pictures, n)
<1> DEFINE n == Len(pictures)
           p == pictures[n]
<1>1. /\ pc = "unit" /\ path' = path /\ pictures' = pictures /\ ended' = ended
      /\ input' = <<>> /\ pc' = "flush" /\ vcl' = SlicesOf(input)
      /\ pendingKeyframe' = (\E i \in 1..Len(input) : input[i].type = "idr")
      /\ LET sps == {i \in 1..Len(input) : input[i].type = "sps"}
         IN latest' = IF sps = {} THEN latest
                      ELSE Params(pictures[input[CHOOSE i \in sps : TRUE].of].config)
  BY DEF TakeUnit, source
<1>2. /\ path = "hevc" /\ vcl = <<>> /\ ended = FALSE /\ AccessUnit(pictures, input)
      /\ Knows(latest, pictures, n - 1) /\ pictures \in Seq(Picture) /\ input \in Seq(NalUnit)
  BY <1>1 DEF ParserInv, ParserTypes, Buffered, Stage, Stream, Encoded, Flushing
<1>3. PICK a, b : PictureUnits(input, n, p, a, b) /\ (b = 2 \/ SameConfig(pictures, n))
  BY <1>2 DEF AccessUnit
<1>4. n \in Nat \ {0} /\ n \in 1..Len(pictures) /\ p \in Picture
  <2>1. n \in Nat \ {0}
    BY <1>2, EmptySeq DEF AccessUnit
  <2>2. n \in 1..Len(pictures)
    BY <2>1
  <2> QED BY <1>2, <2>1, <2>2, ElementOfSeq
<1>5. /\ SlicesOf(input) = [i \in 1..p.slices |-> <<n, i>>]
      /\ (\E i \in 1..Len(input) : input[i].type = "idr") <=> p.key = TRUE
      /\ \A i \in 1..Len(input) : input[i].of = n
      /\ (\E i \in 1..Len(input) : input[i].type = "sps") <=> b = 2
      /\ p.slices \in Nat \ {0} /\ Len(input) # 0
  <2> HIDE DEF n, p
  <2>1. n \in Nat /\ p \in Picture /\ PictureUnits(input, n, p, a, b)
    BY <1>3, <1>4
  <2>2. SlicesRight(input, n, p, b)
    BY <2>1, SlicesOfPicture
  <2> QED BY <2>2 DEF SlicesRight
<1>6. pendingKeyframe' = p.key
  <2>1. p.key \in BOOLEAN
    BY <1>4 DEF Picture
  <2> HIDE DEF p
  <2> QED BY <1>1, <1>5, <2>1
<1>7. p.config = ConfigOf(pictures, n)
  BY <1>4 DEF ConfigOf
<1> HIDE DEF n, p
<1>8. \/ b = 2 /\ latest' = Params(ConfigOf(pictures, n))
      \/ b # 2 /\ latest' = latest
  <2> DEFINE sps == {i \in 1..Len(input) : input[i].type = "sps"}
  <2>1. CASE sps = {}
    <3>1. ~ \E i \in 1..Len(input) : input[i].type = "sps"
      BY <2>1
    <3> QED BY <1>1, <1>5, <2>1, <3>1
  <2>2. CASE sps # {}
    <3>1. (CHOOSE i \in sps : TRUE) \in sps
      BY <2>2
    <3>2. b = 2
      BY <1>5, <2>2
    <3>3. input[CHOOSE i \in sps : TRUE].of = n
      BY <1>5, <3>1
    <3> QED BY <1>1, <1>7, <2>2, <3>2, <3>3 DEF p
  <2> QED BY <2>1, <2>2
<1>9. Knows(latest', pictures, n)
  BY <1>2, <1>3, <1>8 DEF Knows, SameConfig
<1>10. input # <<>> /\ input[1].of = n
  <2>1. Stream(pictures, input)
    BY DEF ParserInv, Buffered
  <2>2. input # <<>>
    BY <1>5
  <2>3. 1 \in 1..Len(input)
    BY <1>2, <2>2, EmptySeq
  <2> QED BY <1>5, <2>2, <2>3
<1> QED BY <1>1, <1>2, <1>4, <1>5, <1>6, <1>8, <1>9, <1>10 DEF n, p

LEMMA ParserTakes == ASSUME ParserInv, TakeUnit PROVE ParserInv'
<1> DEFINE n == Len(pictures)
           m == pictures[n].slices
<1>1. /\ n \in 1..Len(pictures) /\ path = "hevc" /\ ended = FALSE
      /\ path' = path /\ pictures' = pictures /\ ended' = ended
      /\ input' = <<>> /\ pc' = "flush"
      /\ vcl' = [i \in 1..m |-> <<n, i>>]
      /\ m \in Nat \ {0}
      /\ pendingKeyframe' = pictures[n].key
      /\ latest' = latest \/ latest' = Params(ConfigOf(pictures, n))
      /\ Knows(latest', pictures, n)
  BY UnitTaken
<1>2. Encoded(pictures) /\ pictures \in Seq(Picture) /\ Len(pictures) \in Nat /\ path \in Paths
      /\ Len(pictures) <= MaxPictures /\ latest \in KnownParams
  BY LenProperties DEF ParserInv, ParserTypes, Encoded
<1>3. pictures[n] \in Picture /\ n \in 0..Len(pictures)
  BY <1>1, <1>2, ElementOfSeq
<1> HIDE DEF n, m
<1>4. Len(vcl') = m /\ vcl'[1] = <<n, 1>> /\ vcl'[1][1] = n /\ vcl' # <<>>
  <2>1. PICK v : v = [i \in 1..m |-> <<n, i>>]
    OBVIOUS
  <2>2. Len(v) = m /\ v[1] = <<n, 1>> /\ v # <<>>
    BY <1>1, <2>1
  <2> QED BY <1>1, <2>1, <2>2
<1>5. ParserTypes'
  <2>1. latest' \in KnownParams
    BY <1>1, <1>2, <1>3, ConfigTypes
  <2>2. pendingKeyframe' \in BOOLEAN
    BY <1>1, <1>3 DEF Picture
  <2> QED BY <1>1, <1>2, <2>1, <2>2 DEF ParserTypes, Flushing
<1>6. Buffered'
  <2>1. Stream(pictures', input')
    <3>1. <<>> \in Seq(NalUnit) /\ Len(<<>>) = 0
      BY EmptySeq
    <3> QED BY <1>1, <3>1 DEF Stream
  <2>2. Gathered(pictures', input', vcl', pendingKeyframe', latest')
    <3>1. m \in 1..pictures[n].slices /\ n = Len(pictures) /\ m = pictures[n].slices
      BY <1>1 DEF n, m
    <3> QED BY <1>1, <1>4, <3>1 DEF Gathered
  <2> QED BY <1>4, <2>1, <2>2 DEF Buffered
<1>7. Stage'
  <2>1. Whole'
    BY <1>1, <1>4 DEF Whole, m
  <2> QED BY <1>1, <1>4, <2>1 DEF Stage, Flushing
<1> QED BY <1>5, <1>6, <1>7 DEF ParserInv

\* What is flushed is a whole picture, unless a byte stream ended in it.
LEMMA ParserFlushes == ASSUME ParserInv, FlushFirst PROVE ParserInv'
<1>1. /\ pc = "nal" /\ vcl # <<>> /\ pc' = "flush" /\ UNCHANGED <<source, buffers>>
      /\ IF Available THEN StartsPicture(Head(input)) ELSE Framed \/ ended
  BY DEF FlushFirst
<1>2. /\ path' = path /\ pictures' = pictures /\ ended' = ended
      /\ input' = input /\ vcl' = vcl /\ pendingKeyframe' = pendingKeyframe /\ latest' = latest
  BY <1>1 DEF source, buffers
<1>3. Buffered' /\ (Whole' <=> Whole) /\ (Framed' <=> Framed)
      /\ (ParserTypes' <=> pc' \in {"top", "read", "nal", "unit", "done"} \/ Flushing')
  BY <1>1, ParserKept
<1>4. /\ Stream(pictures, input) /\ input \in Seq(NalUnit) /\ pictures \in Seq(Picture)
      /\ Gathered(pictures, input, vcl, pendingKeyframe, latest)
      /\ path # "hevc" /\ pendingKeyframe \in BOOLEAN /\ ended \in BOOLEAN
  BY <1>1 DEF ParserInv, ParserTypes, Buffered, Encoded, Stream, Stage
<1>5. Len(input) \in Nat /\ (input = <<>> <=> Len(input) = 0)
  BY <1>4, LenProperties, EmptySeq
<1>6. /\ vcl[1][1] \in 1..Len(pictures) /\ Len(vcl) \in 1..pictures[vcl[1][1]].slices
      /\ input = <<>> => Len(vcl) = pictures[vcl[1][1]].slices
  BY <1>4 DEF Gathered
<1>7. ASSUME input # <<>>
      PROVE  /\ Head(input) = input[1]
             /\ StartsPicture(input[1]) <=> input[1].of # vcl[1][1]
             /\ \/ input[1].of = vcl[1][1] /\ IsSlice(input[1])
                \/ input[1].of = vcl[1][1] + 1 /\ Len(vcl) = pictures[vcl[1][1]].slices
             /\ input[1].of = vcl[1][1] \/ Len(vcl) = pictures[vcl[1][1]].slices
  <2>1. Head(input) = input[1]
    BY <1>4, <1>7, Advanced
  <2>2. LET u == input[1]
        IN (\/ u.type \in {"aud", "sps"}
            \/ u.type = "idr" /\ (pendingKeyframe = FALSE \/ u.slice = 1)
            \/ u.type = "non" /\ (pendingKeyframe = TRUE \/ u.slice = 1)) <=> u.of # vcl[1][1]
    BY <1>4, <1>7, StartsRight
  <2>3. StartsPicture(input[1]) <=> input[1].of # vcl[1][1]
    BY <1>4, <2>2 DEF StartsPicture
  <2>4. \/ input[1].of = vcl[1][1] /\ IsSlice(input[1])
        \/ input[1].of = vcl[1][1] + 1 /\ Len(vcl) = pictures[vcl[1][1]].slices
    BY <1>4, <1>7, AfterSlices
  <2> QED BY <2>1, <2>3, <2>4
<1>8. Whole
  <2>1. CASE Available
    <3>1. input # <<>>
      BY <1>5, <2>1 DEF Available
    <3>2. input[1].of # vcl[1][1]
      BY <1>1, <1>7, <2>1, <3>1
    <3> QED BY <1>7, <3>1, <3>2 DEF Whole
  <2>2. CASE ~Available
    <3>1. CASE input = <<>>
      BY <1>6, <3>1 DEF Whole
    <3>2. CASE input # <<>>
      <4>1. ~Framed /\ Len(input) = 1 /\ ended
        <5>1. Len(input) >= 1
          BY <1>5, <3>2
        <5>2. ~Framed /\ Len(input) <= 1
          BY <1>5, <2>2, <5>1 DEF Available
        <5>3. Framed \/ ended
          BY <1>1, <2>2
        <5>4. Len(input) = 1
          <6>1. PICK k \in Nat : k = Len(input)
            BY <1>5
          <6>2. k = 1
            BY <5>1, <5>2, <6>1
          <6> QED BY <6>1, <6>2
        <5> QED BY <5>2, <5>3, <5>4
      <4>2. input[1].of = Len(pictures)
        BY <1>4, <3>2, <4>1 DEF Stream
      <4> QED BY <1>7, <3>2, <4>1, <4>2 DEF Whole
    <3> QED BY <3>1, <3>2
  <2> QED BY <2>1, <2>2
<1>9. ParserTypes' /\ Stage'
  <2>1. Flushing'
    BY <1>1 DEF Flushing
  <2>2. ended => ~Framed /\ Len(input) <= 1
    BY <1>1 DEF ParserInv, Stage, Flushing
  <2>3. path = "hevc" => input = <<>>
    BY <1>4
  <2> QED BY <1>1, <1>2, <1>3, <1>8, <2>1, <2>2, <2>3 DEF Stage
<1> QED BY <1>3, <1>9 DEF ParserInv

\* What one NAL unit does to the parser.
LEMMA UnitProcessed ==
    ASSUME ParserInv, ProcessNAL
    PROVE  /\ pc = "nal" /\ pc' = pc /\ path' = path /\ pictures' = pictures /\ ended' = ended
           /\ ended = FALSE /\ input # <<>> /\ input' = Tail(input) /\ IsUnit(pictures, input[1])
           /\ latest' \in KnownParams
           /\ (latest.sps # 0 => latest'.sps # 0) /\ (latest.pps # 0 => latest'.pps # 0)
           /\ pendingKeyframe' \in BOOLEAN
           /\ Stream(pictures, Tail(input))
           /\ vcl' # <<>> => Gathered(pictures, Tail(input), vcl', pendingKeyframe', latest')
           /\ vcl' = <<>> => /\ pendingKeyframe' = FALSE /\ Ready(pictures, Tail(input), latest')
                             /\ vcl = <<>> /\ Tail(input) # <<>>
                             /\ Tail(input)[1].of = input[1].of
           /\ vcl = <<>> /\ vcl' # <<>> => vcl'[1][1] = input[1].of
           /\ vcl # <<>> => vcl'[1][1] = vcl[1][1] /\ vcl' # <<>>
<1> DEFINE u == input[1]
<1>1. /\ pc = "nal" /\ Available /\ input' = Tail(input) /\ pc' = pc
      /\ path' = path /\ pictures' = pictures /\ ended' = ended
      /\ vcl # <<>> => ~StartsPicture(Head(input))
      /\ latest' = WithParams(Head(input))
      /\ vcl' = IF Head(input).type \in {"idr", "non"}
                THEN Append(vcl, <<Head(input).of, Head(input).slice>>) ELSE vcl
      /\ pendingKeyframe' = (pendingKeyframe \/ Head(input).type = "idr")
  BY DEF ProcessNAL, source
<1>2. /\ Stream(pictures, input) /\ input \in Seq(NalUnit) /\ pictures \in Seq(Picture)
      /\ pendingKeyframe \in BOOLEAN /\ ended \in BOOLEAN /\ latest \in KnownParams
  BY <1>1 DEF ParserInv, ParserTypes, Buffered, Encoded, Stream
<1>3. input # <<>> /\ ended = FALSE
  <2>1. Len(input) \in Nat /\ (input = <<>> <=> Len(input) = 0)
    BY <1>2, LenProperties, EmptySeq
  <2>2. input # <<>>
    BY <1>1, <2>1 DEF Available
  <2>3. ~(~Framed /\ Len(input) <= 1)
    BY <1>1, <2>1 DEF Available
  <2> QED BY <1>1, <1>2, <2>2, <2>3 DEF ParserInv, Stage, Flushing
<1>4. /\ IsUnit(pictures, u) /\ Head(input) = u /\ Stream(pictures, Tail(input))
  BY <1>2, <1>3, Advanced
<1> HIDE DEF u
<1>5. CASE vcl # <<>>
  <2>1. Gathered(pictures, input, vcl, pendingKeyframe, latest)
    BY <1>5 DEF ParserInv, Buffered
  <2>2. LET w == input[1]
        IN (\/ w.type \in {"aud", "sps"}
            \/ w.type = "idr" /\ (pendingKeyframe = FALSE \/ w.slice = 1)
            \/ w.type = "non" /\ (pendingKeyframe = TRUE \/ w.slice = 1)) <=> w.of # vcl[1][1]
    BY <1>2, <1>3, <2>1, StartsRight
  <2>3. u.of = vcl[1][1]
    BY <1>1, <1>2, <1>4, <1>5, <2>2 DEF StartsPicture, u
  <2>4. /\ IsSlice(u) /\ (u.type = "idr" => pendingKeyframe = TRUE)
        /\ Gathered(pictures, Tail(input), Append(vcl, <<u.of, u.slice>>), pendingKeyframe, latest)
        /\ Append(vcl, <<u.of, u.slice>>)[1][1] = vcl[1][1]
        /\ Append(vcl, <<u.of, u.slice>>) # <<>>
    BY <1>2, <1>3, <2>1, <2>3, GatherNext DEF u
  <2>5. u.type \in {"idr", "non"}
    BY <2>4 DEF IsSlice
  <2>6. vcl' = Append(vcl, <<u.of, u.slice>>)
    BY <1>1, <1>4, <2>5
  <2>7. pendingKeyframe' = pendingKeyframe
    BY <1>1, <1>2, <1>4, <2>4
  <2>8. latest' = latest
    BY <1>1, <1>2, <1>4, <2>5 DEF WithParams, KnownParams
  <2> QED BY <1>1, <1>2, <1>3, <1>4, <1>5, <2>4, <2>6, <2>7, <2>8 DEF u
<1>6. CASE vcl = <<>>
  <2>1. pendingKeyframe = FALSE /\ Ready(pictures, input, latest)
    BY <1>3, <1>6 DEF ParserInv, Buffered
  <2>2. CASE IsSlice(u)
    <3>1. PICK v : v = <<<<u.of, u.slice>>>>
      OBVIOUS
    <3>2. /\ Gathered(pictures, Tail(input), v, pictures[u.of].key, latest)
          /\ v[1][1] = u.of /\ v # <<>> /\ pictures[u.of].key \in BOOLEAN
          /\ (u.type = "idr" <=> pictures[u.of].key = TRUE)
      BY <1>2, <1>3, <2>1, <2>2, <3>1, GatherFirst DEF u
    <3>3. u.type \in {"idr", "non"}
      BY <2>2 DEF IsSlice
    <3>4. vcl' = v
      BY <1>1, <1>4, <1>6, <3>1, <3>3
    <3>5. pendingKeyframe' = pictures[u.of].key
      BY <1>1, <1>4, <2>1, <3>2
    <3>6. latest' = latest
      BY <1>1, <1>2, <1>4, <3>3 DEF WithParams, KnownParams
    <3> QED BY <1>1, <1>2, <1>3, <1>4, <1>6, <3>2, <3>4, <3>5, <3>6 DEF u
  <2>3. CASE ~IsSlice(u)
    <3>1. u.type \notin {"idr", "non"}
      BY <2>3 DEF IsSlice
    <3>2. vcl' = <<>> /\ pendingKeyframe' = FALSE
      BY <1>1, <1>4, <1>6, <2>1, <3>1
    <3>3. latest' = [sps |-> IF u.type = "sps" THEN pictures[u.of].config ELSE latest.sps,
                     pps |-> IF u.type = "pps" THEN pictures[u.of].config ELSE latest.pps]
      BY <1>1, <1>4 DEF WithParams
    <3>4. PICK l : l = latest'
      OBVIOUS
    <3>5. /\ l \in KnownParams /\ Ready(pictures, Tail(input), l) /\ Tail(input) # <<>>
          /\ Tail(input)[1].of = u.of
          /\ latest.sps # 0 => l.sps # 0
          /\ latest.pps # 0 => l.pps # 0
      BY <1>2, <1>3, <2>1, <2>3, <3>3, <3>4, ReadyNext DEF u
    <3> QED BY <1>1, <1>3, <1>4, <1>6, <3>2, <3>4, <3>5 DEF u
  <2> QED BY <2>2, <2>3
<1> QED BY <1>5, <1>6

LEMMA ParserProcesses == ASSUME ParserInv, ProcessNAL PROVE ParserInv'
<1>1. /\ pc = "nal" /\ pc' = pc /\ path' = path /\ pictures' = pictures /\ ended' = ended
      /\ ended = FALSE /\ input' = Tail(input) /\ latest' \in KnownParams
      /\ pendingKeyframe' \in BOOLEAN /\ Stream(pictures, Tail(input))
      /\ vcl' # <<>> => Gathered(pictures, Tail(input), vcl', pendingKeyframe', latest')
      /\ vcl' = <<>> => pendingKeyframe' = FALSE /\ Ready(pictures, Tail(input), latest')
  BY UnitProcessed
<1>2. path # "hevc"
  BY <1>1 DEF ParserInv, Stage
<1>3. ParserTypes'
  BY <1>1 DEF ParserInv, ParserTypes
<1>4. Buffered'
  BY <1>1 DEF Buffered
<1>5. Stage'
  BY <1>1, <1>2 DEF Stage, Flushing
<1> QED BY <1>3, <1>4, <1>5 DEF ParserInv

LEMMA ParserFlushSteps == ASSUME ParserInv, FlushStep PROVE ParserInv'
<1>1. ASSUME Flushing, DropPicture, UNCHANGED source PROVE ParserInv'
  BY <1>1, ParserReset DEF DropPicture, ResetVCL
<1>2. CASE Flush
  <2>1. Flushing /\ UNCHANGED source
        /\ IF frozen THEN DropPicture ELSE pc' = "resume" /\ UNCHANGED <<buffers, progress>>
    BY <1>2 DEF Flush, Flushing
  <2>2. CASE frozen
    BY <1>1, <2>1, <2>2
  <2>3. CASE ~frozen
    BY <2>1, <2>3, ParserMoves
  <2> QED BY <2>2, <2>3
<1>3. CASE Admit
  <2>1. Flushing /\ UNCHANGED source
        /\ IF Skips THEN DropPicture
           ELSE (pc' = IF NeedsConfig THEN "config" ELSE "send") /\ UNCHANGED <<buffers, progress>>
    BY <1>3 DEF Admit, Flushing
  <2>2. CASE Skips
    BY <1>1, <2>1, <2>2
  <2>3. CASE ~Skips
    BY <2>1, <2>3, ParserMoves
  <2> QED BY <2>2, <2>3
<1>4. CASE SendFails
  <2>1. pc # "unit" /\ pc' = "done" /\ UNCHANGED <<source, buffers>>
    BY <1>4 DEF SendFails
  <2> QED BY <2>1, ParserMoves
<1>5. CASE SendCodecFrame
  <2>1. Flushing /\ pc' = "send" /\ UNCHANGED <<source, buffers>>
    BY <1>5 DEF SendCodecFrame, Flushing
  <2> QED BY <2>1, ParserMoves
<1>6. CASE SendFrame
  <2>1. Flushing /\ pc' = "sent" /\ UNCHANGED <<source, buffers>>
    BY <1>6 DEF SendFrame, Flushing
  <2> QED BY <2>1, ParserMoves
<1>7. CASE FrameSent
  <2>1. Flushing /\ UNCHANGED <<source, input, latest>> /\ vcl' = <<>> /\ pendingKeyframe' = FALSE
        /\ pc' = AfterFlush
    BY <1>7 DEF FrameSent, Flushing, ResetVCL
  <2> QED BY <2>1, ParserReset
<1> QED BY <1>2, <1>3, <1>4, <1>5, <1>6, <1>7 DEF FlushStep

LEMMA ParserStep == ASSUME ParserInv, [Next]_vars PROVE ParserInv'
<1>1. CASE FlushStep
  BY <1>1, ParserFlushSteps
<1>2. CASE InputStep
  <2>1. CASE CheckContext
    <3>1. UNCHANGED <<source, buffers>> /\ pc = "top" /\ (pc' = "done" \/ pc' = "read")
      BY <2>1 DEF CheckContext
    <3> QED BY <3>1, ParserMoves
  <2>2. CASE InputDone
    <3>1. UNCHANGED <<source, buffers>>
      BY <2>2 DEF InputDone
    <3> QED BY <2>2, <3>1, ParserMoves
  <2> QED BY <1>2, <2>1, <2>2, ParserFlushes, ParserProcesses, ParserTakes DEF InputStep
<1>3. CASE CaptureStep
  <2>1. CASE CaptureEnds
    BY <2>1, ParserEnds
  <2>2. ASSUME NEW key \in BOOLEAN, NEW aud \in BOOLEAN, NEW params \in BOOLEAN,
               NEW config \in 1..MaxConfigs, NEW slices \in 1..MaxSlices,
               ReadPicture(key, aud, params, config, slices)
        PROVE  ParserInv'
    BY <2>2, ParserReads
  <2> QED BY <1>3, <2>1, <2>2 DEF CaptureStep
<1>4. CASE UserStep \/ Cancel \/ WorkerStep \/ CloseStep \/ UNCHANGED vars
  <2>1. UNCHANGED <<source, pc, buffers>>
    BY <1>4 DEF UserStep, Freeze, ResumeNeedsKeyframe, Unfreeze, Cancel, WorkerStep,
                HeartbeatStarts, HeartbeatEnds, FeedbackAnswered, FeedbackTick, FeedbackEnds,
                CloseStep, CloseCancels, Teardown, ConnectionsClosed, vars, loop
  <2> QED BY <2>1, ParserIdle
<1> QED BY <1>1, <1>2, <1>3, <1>4 DEF Next, StreamNext

LEMMA ParserStarts == ASSUME Init PROVE ParserInv
<1>1. /\ path \in Paths /\ pictures = <<>> /\ ended = FALSE /\ pc = "top" /\ input = <<>>
      /\ vcl = <<>> /\ pendingKeyframe = FALSE /\ latest = NoParams
  BY DEF Init
<1>2. pictures \in Seq(Picture) /\ input \in Seq(NalUnit) /\ Len(pictures) = 0 /\ Len(input) = 0
  BY <1>1, EmptySeq
<1>3. NoParams \in KnownParams
  BY BoundsAssumption DEF NoParams, KnownParams, Config
<1>4. ParserTypes
  <2>1. Encoded(pictures)
    BY <1>2 DEF Encoded
  <2>2. Len(pictures) <= MaxPictures
    BY <1>2, BoundsAssumption
  <2>3. pendingKeyframe \in BOOLEAN /\ ended \in BOOLEAN /\ pc \in {"top", "read", "nal", "unit", "done"}
    BY <1>1
  <2>4. path \in Paths /\ latest \in KnownParams
    BY <1>1, <1>3
  <2> QED BY <2>1, <2>2, <2>3, <2>4 DEF ParserTypes
<1>5. Stream(pictures, input)
  BY <1>1, <1>2 DEF Stream
<1>6. Buffered
  BY <1>1, <1>5 DEF Buffered, Ready, Knows
<1>7. Stage
  BY <1>1, <1>2 DEF Stage, Flushing
<1> QED BY <1>4, <1>6, <1>7 DEF ParserInv

\* The parser finds the pictures of the encoder: what it has gathered and what it has
\* read are the encoder's slices in their order, and what it flushes is a whole picture
\* unless the byte stream ended in it (splitNALs, processNAL, flushVCL).
THEOREM ParserInvariant == Spec => []ParserInv
BY ParserStarts, ParserStep, PTL DEF Spec

-----------------------------------------------------------------------------
(* The sender.                                                              *)

\* The last picture before the one that is or will be put together.
Flushed ==
    IF vcl # <<>> THEN vcl[1][1] - 1
    ELSE IF input # <<>> THEN input[1].of - 1 ELSE Len(pictures)

\* The stream may still send a picture.
Live == pc # "done" /\ (ended => vcl # <<>>)

\* What reading and parsing do for the sender.
Parses ==
    /\ UNCHANGED <<path, progress, flags, user, history>>
    /\ ~Flushing /\ pc # "done" /\ pc' \notin {"resume", "config", "send", "sent"}
    /\ Live' => Live /\ Flushed' = Flushed
    /\ Len(pictures) \in Nat /\ Len(pictures') \in Nat /\ Len(pictures) <= Len(pictures')
    /\ \A n \in 1..Len(pictures) : pictures'[n] = pictures[n]
    /\ ended => ended' /\ pictures' = pictures
    /\ latest.sps # 0 => latest'.sps # 0
    /\ latest.pps # 0 => latest'.pps # 0

LEMMA Parsing == ASSUME ParserInv, InputStep \/ CaptureStep PROVE Parses
<1>1. pictures \in Seq(Picture) /\ Len(pictures) \in Nat /\ ended \in BOOLEAN
  BY LenProperties DEF ParserInv, ParserTypes, Encoded
<1>2. CASE CheckContext \/ FlushFirst \/ InputDone
  <2>1. /\ UNCHANGED <<path, progress, flags, user, history>>
        /\ pc \in {"top", "nal"} /\ pc' \in {"done", "read", "flush", "top"}
        /\ pictures' = pictures /\ ended' = ended /\ input' = input /\ vcl' = vcl /\ latest' = latest
    BY <1>2 DEF CheckContext, FlushFirst, InputDone, source, buffers
  <2>2. Live' => Live /\ Flushed' = Flushed
    BY <2>1 DEF Live, Flushed
  <2> QED BY <1>1, <2>1, <2>2 DEF Parses, Flushing
<1>3. CASE CaptureEnds
  <2>1. /\ UNCHANGED <<path, progress, flags, user, history>>
        /\ pc = "read" /\ pc' \in {"done", "nal"}
        /\ pictures' = pictures /\ ended' = TRUE /\ input' = input /\ vcl' = vcl /\ latest' = latest
    BY <1>3 DEF CaptureEnds, buffers
  <2>2. ended = FALSE
    BY <1>1, <2>1 DEF ParserInv, Stage, Flushing
  <2>3. Live' => Live /\ Flushed' = Flushed
    BY <2>1, <2>2 DEF Live, Flushed
  <2> QED BY <1>1, <2>1, <2>2, <2>3 DEF Parses, Flushing
<1>4. CASE ProcessNAL
  <2>1. UNCHANGED <<path, progress, flags, user, history>>
    BY <1>4 DEF ProcessNAL, source
  <2>2. /\ pc = "nal" /\ pc' = pc /\ pictures' = pictures /\ ended' = ended
        /\ ended = FALSE /\ input # <<>> /\ input' = Tail(input)
        /\ (latest.sps # 0 => latest'.sps # 0) /\ (latest.pps # 0 => latest'.pps # 0)
        /\ vcl' = <<>> => vcl = <<>> /\ Tail(input) # <<>> /\ Tail(input)[1].of = input[1].of
        /\ vcl = <<>> /\ vcl' # <<>> => vcl'[1][1] = input[1].of
        /\ vcl # <<>> => vcl'[1][1] = vcl[1][1] /\ vcl' # <<>>
    BY <1>4, UnitProcessed
  <2>3. Flushed' = Flushed
    BY <2>2 DEF Flushed
  <2>4. Live
    BY <2>2 DEF Live
  <2> QED BY <1>1, <2>1, <2>2, <2>3, <2>4 DEF Parses, Flushing
<1>5. CASE TakeUnit
  <2>1. UNCHANGED <<path, progress, flags, user, history>> /\ pc = "unit"
    BY <1>5 DEF TakeUnit, source
  <2> DEFINE n == Len(pictures)
             m == pictures[n].slices
  <2>2. /\ n \in 1..Len(pictures) /\ vcl = <<>> /\ ended = FALSE
        /\ pictures' = pictures /\ ended' = ended
        /\ input # <<>> /\ input[1].of = n /\ input' = <<>> /\ pc' = "flush"
        /\ vcl' = [i \in 1..m |-> <<n, i>>] /\ m \in Nat \ {0}
        /\ latest' = latest \/ latest' = Params(ConfigOf(pictures, n))
    BY <1>5, UnitTaken
  <2>3. n \in 0..Len(pictures)
    BY <1>1
  <2> HIDE DEF n, m
  <2>4. vcl' # <<>> /\ vcl'[1][1] = n
    <3>1. PICK v : v = [i \in 1..m |-> <<n, i>>]
      OBVIOUS
    <3>2. v[1] = <<n, 1>> /\ v # <<>>
      BY <2>2, <3>1
    <3> QED BY <2>2, <3>1, <3>2
  <2>5. Flushed' = Flushed
    BY <2>2, <2>4 DEF Flushed
  <2>6. Live
    BY <2>1, <2>2 DEF Live
  <2>7. ConfigOf(pictures, n) # 0
    BY <1>1, <2>3, ConfigTypes
  <2>8. (latest.sps # 0 => latest'.sps # 0) /\ (latest.pps # 0 => latest'.pps # 0)
    BY <2>2, <2>7 DEF Params
  <2> QED BY <1>1, <2>1, <2>2, <2>5, <2>6, <2>8 DEF Parses, Flushing
<1>6. ASSUME NEW key \in BOOLEAN, NEW aud \in BOOLEAN, NEW params \in BOOLEAN,
             NEW config \in 1..MaxConfigs, NEW slices \in 1..MaxSlices,
             ReadPicture(key, aud, params, config, slices)
      PROVE  Parses
  <2> DEFINE p == [key |-> key, config |-> config, slices |-> slices]
             ns == NalUnits(Len(pictures) + 1, p, aud, params)
  <2>1. /\ UNCHANGED <<path, progress, flags, user, history>>
        /\ pc = "read" /\ pc' \in {"unit", "nal"} /\ ended' = ended /\ vcl' = vcl /\ latest' = latest
        /\ pictures' = Append(pictures, p) /\ input' = input \o ns
    BY <1>6 DEF ReadPicture
  <2>2. ended = FALSE /\ input \in Seq(NalUnit)
    BY <1>1, <2>1 DEF ParserInv, Stage, Flushing, Buffered, Stream
  <2>3. p \in Picture
    BY DEF Picture
  <2> HIDE DEF p
  <2>4. Len(pictures') = Len(pictures) + 1 /\ \A n \in 1..Len(pictures) : pictures'[n] = pictures[n]
    BY <1>1, <2>1, <2>3, AppendProperties
  <2>5. PICK a, b : PictureUnits(ns, Len(pictures) + 1, p, a, b)
    <3>1. PICK a, b : (a = IF aud THEN 1 ELSE 0) /\ (b = IF params THEN 2 ELSE 0)
      OBVIOUS
    <3>2. Len(pictures) + 1 \in Nat
      BY <1>1
    <3>3. PictureUnits(ns, Len(pictures) + 1, p, a, b)
      BY <2>3, <3>1, <3>2, NalUnitsAre, Zenon
    <3> QED BY <3>3
  <2> HIDE DEF ns
  <2>6. /\ ns \in Seq(NalUnit) /\ Len(ns) \in Nat \ {0} /\ ns[1].of = Len(pictures) + 1
    <3>1. SlicesRight(ns, Len(pictures) + 1, p, b)
      BY <1>1, <2>3, <2>5, SlicesOfPicture
    <3>2. ns \in Seq(NalUnit) /\ Len(ns) \in Nat \ {0}
      BY <2>5, <3>1, LenProperties DEF PictureUnits, SlicesRight
    <3>3. 1 \in 1..Len(ns)
      BY <3>2
    <3> QED BY <3>1, <3>2, <3>3 DEF SlicesRight
  <2>7. Flushed' = Flushed
    <3>1. CASE input = <<>>
      <4>1. input' = ns /\ ns # <<>>
        BY <2>1, <2>6, <3>1, ConcatEmptySeq, EmptySeq
      <4> QED BY <1>1, <2>1, <2>6, <3>1, <4>1 DEF Flushed
    <3>2. CASE input # <<>>
      <4>1. Len(input) \in Nat \ {0}
        BY <2>2, <3>2, EmptySeq
      <4>2. 1 \in 1..Len(input) + Len(ns) /\ 1 <= Len(input)
        BY <2>6, <4>1
      <4>3. input' # <<>> /\ input'[1] = input[1]
        BY <2>1, <2>2, <2>6, <4>1, <4>2, ConcatProperties, EmptySeq
      <4> QED BY <2>1, <3>2, <4>3 DEF Flushed
    <3> QED BY <3>1, <3>2
  <2>8. Live
    BY <2>1, <2>2 DEF Live
  <2> QED BY <1>1, <2>1, <2>2, <2>4, <2>7, <2>8 DEF Parses, Flushing
<1> QED BY <1>2, <1>3, <1>4, <1>5, <1>6 DEF InputStep, CaptureStep

-----------------------------------------------------------------------------
\* What the receiver got last was the last picture, or one before it.
Order ==
    /\ rx.last \in 0..Len(pictures)
    /\ Live /\ pc # "sent" => rx.last <= Flushed
    /\ pc = "sent" => rx.last = vcl[1][1] /\ rx.key = pendingKeyframe /\ rx.slices = vcl
    /\ frameCount \in Nat /\ frameCount <= rx.last
    /\ pc = "sent" => frameCount < rx.last

\* The receiver misses the picture before the one that is or will be put together.
Gap == rx.last # 0 /\ rx.last # Flushed

\* The stream is primed from its first picture on, and keeps what it sent.
Primed ==
    /\ rx.last # 0 => streamPrimed
    /\ pc \in {"send", "sent"} => streamPrimed
    /\ streamPrimed => latest.sps # 0 /\ latest.pps # 0
    /\ Live /\ streamPrimed => rx.last # 0 \/ (pc = "send" /\ pendingKeyframe)

\* The receiver's configuration fits the picture that is about to be sent.
Configured ==
    /\ rx.config = sent
    /\ pc \notin {"send", "done"} /\ rx.last # 0 => rx.decodedWith = sent
    /\ pc = "config" => pendingKeyframe /\ latest.sps # 0 /\ latest.pps # 0
    /\ pc = "send" /\ (pendingKeyframe \/ ~overtaken) => sent = Params(ConfigOf(pictures, vcl[1][1]))

\* After a gap nothing is sent before the next key picture: the session is frozen,
\* waits for a key picture, or the congestion controller goes on dropping.
Resuming ==
    /\ toggle = "resuming" => frozen /\ (resumeNeedsKeyframe \/ overtaken)
    /\ Live /\ Gap /\ pc \notin {"config", "send", "sent"} =>
         \/ frozen /\ pc # "resume"
         \/ resumeNeedsKeyframe \/ overtaken
         \/ ~Framed /\ ShouldDrop
    /\ pc \in {"config", "send"} /\ Gap => pendingKeyframe \/ overtaken

Freezing ==
    /\ late \in 0..1 /\ (late = 1 => rx.last # 0)
    /\ frozen /\ late = 1 => pc \notin {"resume", "config", "send"}

SenderTypes ==
    /\ rx \in [config : KnownParams, decodedWith : KnownParams, last : Nat, before : Nat,
               key : BOOLEAN, slices : Seq(Slices)]
    /\ rx.before <= Len(pictures)
    /\ sent \in KnownParams /\ streamPrimed \in BOOLEAN /\ level \in 0..3
    /\ frozen \in BOOLEAN /\ resumeNeedsKeyframe \in BOOLEAN /\ overtaken \in BOOLEAN
    /\ toggle \in {"idle", "resuming"} /\ toggles \in 0..MaxToggles

SenderInv ==
    /\ SenderTypes /\ Order /\ Primed /\ Configured /\ Resuming /\ Freezing
    /\ ReferencesSent /\ ConfiguredForPicture /\ WholePictures

LEMMA SenderParses == ASSUME ParserInv, SenderInv, Parses PROVE SenderInv'
<1>1. /\ path' = path /\ sent' = sent /\ streamPrimed' = streamPrimed /\ frameCount' = frameCount
      /\ level' = level /\ frozen' = frozen /\ resumeNeedsKeyframe' = resumeNeedsKeyframe
      /\ toggle' = toggle /\ toggles' = toggles /\ rx' = rx /\ late' = late /\ overtaken' = overtaken
      /\ pc \notin {"resume", "config", "send", "sent"}
      /\ pc' \notin {"resume", "config", "send", "sent"}
      /\ (Live' => Live /\ Flushed' = Flushed)
      /\ Len(pictures) \in Nat /\ Len(pictures') \in Nat /\ Len(pictures) <= Len(pictures')
  BY DEF Parses, progress, flags, user, history, Flushing
<1>2. \A n \in 1..Len(pictures) : pictures'[n] = pictures[n]
  BY DEF Parses
<1>3. Framed' <=> Framed
  BY <1>1 DEF Framed
<1>4. SenderTypes'
  BY <1>1 DEF SenderInv, SenderTypes
<1>5. Order'
  <2>1. rx'.last \in 0..Len(pictures')
    BY <1>1 DEF SenderInv, Order
  <2>2. Live' => rx'.last <= Flushed'
    BY <1>1 DEF SenderInv, Order
  <2> QED BY <1>1, <2>1, <2>2 DEF SenderInv, Order
<1>6. Primed'
  BY <1>1 DEF SenderInv, Primed, Parses
<1>7. Configured'
  <2>1. pc # "done"
    BY DEF Parses
  <2> QED BY <1>1, <2>1 DEF SenderInv, Configured
<1>8. Resuming'
  BY <1>1, <1>3 DEF SenderInv, Resuming, Gap, ShouldDrop
<1>9. Freezing'
  BY <1>1 DEF SenderInv, Freezing
<1>10. rx.last # 0 => rx.last \in 1..Len(pictures) /\ pictures'[rx.last] = pictures[rx.last]
  BY <1>1, <1>2 DEF SenderInv, Order
<1>11. ReferencesSent' /\ ConfiguredForPicture'
  BY <1>1, <1>10 DEF SenderInv, ReferencesSent, Decodable, ConfiguredForPicture
<1>12. WholePictures'
  <2>1. ended => ended' /\ pictures' = pictures
    BY DEF Parses
  <2> QED BY <1>1, <1>3, <1>10, <2>1 DEF SenderInv, WholePictures
<1> QED BY <1>4, <1>5, <1>6, <1>7, <1>8, <1>9, <1>11, <1>12 DEF SenderInv

\* The picture that is flushed is the next one.
LEMMA Current ==
    ASSUME ParserInv, Flushing
    PROVE  LET n == vcl[1][1]
               m == Len(vcl)
           IN /\ vcl # <<>> /\ n \in 1..Len(pictures) /\ m \in 1..pictures[n].slices
              /\ Len(pictures) \in Nat /\ n \in Nat \ {0} /\ n <= MaxPictures
              /\ pictures[n] \in Picture
              /\ vcl = [i \in 1..m |-> <<n, i>>] /\ pendingKeyframe = pictures[n].key
              /\ Knows(latest, pictures, n) /\ Whole /\ pendingKeyframe \in BOOLEAN
              /\ Flushed = n - 1 /\ Live
<1>1. /\ pictures \in Seq(Picture) /\ Len(pictures) \in Nat /\ vcl # <<>> /\ Whole
      /\ Gathered(pictures, input, vcl, pendingKeyframe, latest)
      /\ Len(pictures) <= MaxPictures /\ pendingKeyframe \in BOOLEAN
  BY LenProperties DEF ParserInv, ParserTypes, Encoded, Buffered, Stage
<1> DEFINE n == vcl[1][1]
           m == Len(vcl)
<1>2. /\ n \in 1..Len(pictures) /\ m \in 1..pictures[n].slices
      /\ vcl = [i \in 1..m |-> <<n, i>>] /\ pendingKeyframe = pictures[n].key
      /\ Knows(latest, pictures, n)
  BY <1>1 DEF Gathered
<1>3. pictures[n] \in Picture
  BY <1>1, <1>2, ElementOfSeq
<1>4. Flushed = n - 1 /\ Live
  BY <1>1 DEF Flushed, Live, Flushing
<1> HIDE DEF n, m
<1>5. n \in Nat \ {0} /\ n <= MaxPictures
  BY <1>1, <1>2, BoundsAssumption
<1> QED BY <1>1, <1>2, <1>3, <1>4, <1>5 DEF n, m

LEMMA AfterReset ==
    ASSUME ParserInv, Flushing, UNCHANGED <<source, input, latest>>,
           vcl' = <<>>, pendingKeyframe' = FALSE, pc' = AfterFlush
    PROVE  pc' \in {"top", "nal"} /\ (Live' => Flushed' = vcl[1][1])
<1>1. pc' \in {"top", "nal"} /\ pictures' = pictures /\ input' = input /\ ended' = ended
  BY DEF AfterFlush, source
<1>2. ASSUME Live' PROVE Flushed' = vcl[1][1]
  <2>1. ended = FALSE
    BY <1>1, <1>2 DEF Live, ParserInv, ParserTypes
  <2>2. vcl # <<>> /\ Len(vcl) = pictures[vcl[1][1]].slices
    BY <2>1 DEF ParserInv, Stage, Whole
  <2>3. /\ Gathered(pictures, input, vcl, pendingKeyframe, latest)
        /\ Stream(pictures, input) /\ pictures \in Seq(Picture)
    BY <2>2 DEF ParserInv, ParserTypes, Encoded, Buffered
  <2>4. /\ input = <<>> => vcl[1][1] = Len(pictures)
        /\ input # <<>> => input[1].of = vcl[1][1] + 1
    BY <2>2, <2>3, WholeReady
  <2>5. vcl[1][1] \in Nat
    BY Current
  <2> QED BY <1>1, <2>4, <2>5 DEF Flushed
<1> QED BY <1>1, <1>2

RxRecord == [config : KnownParams, decodedWith : KnownParams, last : Nat, before : Nat,
             key : BOOLEAN, slices : Seq(Slices)]

LEMMA CodecSent ==
    ASSUME SenderTypes, ParserTypes, SendCodecFrame
    PROVE  /\ rx' \in RxRecord /\ rx'.config = latest /\ rx'.decodedWith = rx.decodedWith
           /\ rx'.last = rx.last /\ rx'.before = rx.before /\ rx'.key = rx.key
           /\ rx'.slices = rx.slices
<1>1. rx' = [rx EXCEPT !.config = latest] /\ latest \in KnownParams /\ rx \in RxRecord
  BY DEF SendCodecFrame, ParserTypes, SenderTypes, RxRecord
<1> QED BY <1>1 DEF RxRecord

LEMMA PictureSent ==
    ASSUME ParserInv, SenderTypes, SendFrame
    PROVE  /\ rx' \in RxRecord /\ rx'.config = rx.config /\ rx'.decodedWith = rx.config
           /\ rx'.last = vcl[1][1] /\ rx'.before = rx.last /\ rx'.key = pendingKeyframe
           /\ rx'.slices = vcl
<1> DEFINE n == vcl[1][1]
           m == Len(vcl)
           r == [config |-> rx.config, decodedWith |-> rx.config, last |-> n, before |-> rx.last,
                 key |-> pendingKeyframe, slices |-> vcl]
<1>1. rx' = [rx EXCEPT !.last = n, !.before = rx.last, !.key = pendingKeyframe,
                       !.slices = vcl, !.decodedWith = rx.config]
  BY DEF SendFrame
<1>2. Flushing
  BY DEF SendFrame, Flushing
<1>3. /\ n \in 1..Len(pictures) /\ m \in 1..pictures[n].slices /\ n \in Nat \ {0}
      /\ n <= MaxPictures /\ pictures[n] \in Picture /\ vcl = [i \in 1..m |-> <<n, i>>]
      /\ pendingKeyframe \in BOOLEAN
  BY <1>2, Current
<1>4. vcl \in Seq(Slices)
  <2> HIDE DEF n, m
  <2>1. m \in Nat /\ \A i \in 1..m : <<n, i>> \in Slices
    BY <1>3, BoundsAssumption DEF Slices, Picture
  <2>2. PICK v : v = [i \in 1..m |-> <<n, i>>]
    OBVIOUS
  <2>3. v \in Seq(Slices)
    BY <2>1, <2>2
  <2> QED BY <1>3, <2>2, <2>3
<1>5. rx \in RxRecord
  BY DEF SenderTypes, RxRecord
<1> HIDE DEF n, m
<1>6. rx' = r
  BY <1>1, <1>5 DEF RxRecord
<1>7. r \in RxRecord
  BY <1>3, <1>4, <1>5 DEF RxRecord
<1> QED BY <1>6, <1>7 DEF n

LEMMA SenderDrops ==
    ASSUME ParserInv, SenderInv, pc \in {"flush", "resume"}, DropPicture,
           UNCHANGED <<source, flags, user, history>>, frozen \/ Skips
    PROVE  SenderInv'
<1> DEFINE n == vcl[1][1]
<1>1. /\ path' = path /\ pictures' = pictures /\ ended' = ended /\ input' = input /\ latest' = latest
      /\ sent' = sent /\ streamPrimed' = streamPrimed /\ frameCount' = frameCount
      /\ level' = level /\ frozen' = frozen /\ resumeNeedsKeyframe' = resumeNeedsKeyframe
      /\ toggle' = toggle /\ toggles' = toggles /\ rx' = rx /\ late' = late /\ overtaken' = overtaken
      /\ vcl' = <<>> /\ pendingKeyframe' = FALSE /\ pc' = AfterFlush
  BY DEF DropPicture, ResetVCL, source, progress, flags, user, history
<1>2. Flushing /\ UNCHANGED <<source, input, latest>>
  BY DEF DropPicture, Flushing
<1>3. /\ n \in 1..Len(pictures) /\ n \in Nat \ {0} /\ Flushed = n - 1 /\ Live
      /\ pendingKeyframe \in BOOLEAN
  BY <1>2, Current
<1>4. pc' \in {"top", "nal"} /\ (Live' => Flushed' = n)
  BY <1>1, <1>2, AfterReset
<1> HIDE DEF n
<1>5. Framed' <=> Framed
  BY <1>1 DEF Framed
<1>6. SenderTypes'
  BY <1>1 DEF SenderInv, SenderTypes
<1>7. Order'
  <2>1. rx.last <= Flushed /\ rx.last \in Nat
    BY <1>3 DEF SenderInv, Order, SenderTypes
  <2>2. Live' => rx'.last <= Flushed'
    BY <1>1, <1>3, <1>4, <2>1
  <2> QED BY <1>1, <1>4, <2>2 DEF SenderInv, Order
<1>8. streamPrimed => rx.last # 0
  BY <1>3 DEF SenderInv, Primed
<1>9. Primed'
  BY <1>1, <1>4, <1>8 DEF SenderInv, Primed
<1>10. Configured'
  BY <1>1, <1>4 DEF SenderInv, Configured
<1>11. Resuming'
  <2>1. rx.last # 0 => frozen \/ resumeNeedsKeyframe \/ (~Framed /\ ShouldDrop)
    BY DEF SenderInv, Primed, Skips, Unprimed
  <2>2. ShouldDrop' <=> ShouldDrop
    BY <1>1 DEF ShouldDrop
  <2>3. pc' # "resume" /\ pc' \notin {"config", "send"}
    BY <1>4
  <2>4. Gap' => rx.last # 0
    BY <1>1 DEF Gap
  <2>5. toggle = "resuming" => frozen /\ (resumeNeedsKeyframe \/ overtaken)
    BY DEF SenderInv, Resuming
  <2> QED BY <1>1, <1>5, <2>1, <2>2, <2>3, <2>4, <2>5 DEF Resuming
<1>12. Freezing'
  BY <1>1, <1>4 DEF SenderInv, Freezing
<1>13. ReferencesSent' /\ ConfiguredForPicture' /\ WholePictures'
  BY <1>1, <1>5 DEF SenderInv, ReferencesSent, Decodable, ConfiguredForPicture, WholePictures
<1> QED BY <1>6, <1>7, <1>9, <1>10, <1>11, <1>12, <1>13 DEF SenderInv

\* The stream goes on with the next picture, or ends.
LEMMA SenderPasses ==
    ASSUME ParserInv, SenderInv, UNCHANGED <<source, buffers, progress, flags, user, history>>,
           \/ pc = "flush" /\ ~frozen /\ pc' = "resume"
           \/ pc = "resume" /\ ~Skips /\ pc' = IF NeedsConfig THEN "config" ELSE "send"
           \/ pc' = "done"
    PROVE  SenderInv'
<1> DEFINE n == vcl[1][1]
<1>1. /\ path' = path /\ pictures' = pictures /\ ended' = ended /\ input' = input /\ latest' = latest
      /\ vcl' = vcl /\ pendingKeyframe' = pendingKeyframe
      /\ sent' = sent /\ streamPrimed' = streamPrimed /\ frameCount' = frameCount
      /\ level' = level /\ frozen' = frozen /\ resumeNeedsKeyframe' = resumeNeedsKeyframe
      /\ toggle' = toggle /\ toggles' = toggles /\ rx' = rx /\ late' = late /\ overtaken' = overtaken
  BY DEF source, buffers, progress, flags, user, history
<1>2. Framed' <=> Framed
  BY <1>1 DEF Framed
<1>3. Flushed' = Flushed
  BY <1>1 DEF Flushed
<1>4. ShouldDrop' <=> ShouldDrop
  BY <1>1 DEF ShouldDrop
<1>5. SenderTypes' /\ ReferencesSent' /\ ConfiguredForPicture' /\ WholePictures'
  BY <1>1, <1>2 DEF SenderInv, SenderTypes, ReferencesSent, Decodable, ConfiguredForPicture,
                   WholePictures
<1>6. CASE pc' = "done"
  <2>1. ~Live'
    BY <1>6 DEF Live
  <2>2. Order' /\ Primed' /\ Configured' /\ Resuming' /\ Freezing'
    BY <1>1, <1>6, <2>1 DEF SenderInv, Order, Primed, Configured, Resuming, Freezing
  <2> QED BY <1>5, <2>2 DEF SenderInv
<1>7. CASE pc = "flush" /\ ~frozen /\ pc' = "resume"
  <2>1. Live' <=> Live
    BY <1>1, <1>7 DEF Live
  <2>2. Order' /\ Primed' /\ Configured' /\ Freezing'
    BY <1>1, <1>3, <1>7, <2>1 DEF SenderInv, Order, Primed, Configured, Freezing
  <2>3. Resuming'
    BY <1>1, <1>2, <1>3, <1>4, <1>7, <2>1 DEF SenderInv, Resuming, Gap
  <2> QED BY <1>5, <2>2, <2>3 DEF SenderInv
<1>8. CASE pc = "resume" /\ ~Skips /\ pc' = IF NeedsConfig THEN "config" ELSE "send"
  <2>1. Flushing
    BY <1>8 DEF Flushing
  <2>2. /\ n \in 1..Len(pictures) /\ n \in Nat \ {0} /\ Flushed = n - 1 /\ Live
        /\ pendingKeyframe = pictures[n].key /\ pendingKeyframe \in BOOLEAN
        /\ Knows(latest, pictures, n) /\ Len(pictures) \in Nat
    BY <2>1, Current
  <2> HIDE DEF n
  <2>3. /\ resumeNeedsKeyframe => pendingKeyframe
        /\ ~Unprimed
        /\ ~Framed /\ ShouldDrop => pendingKeyframe
    BY <1>8 DEF Skips
  <2>4. Live' <=> Live
    BY <1>1, <1>8 DEF Live
  <2>5. streamPrimed => rx.last # 0
    BY <1>8, <2>2 DEF SenderInv, Primed
  <2>6. pc' = "send" => streamPrimed
    BY <1>8, <2>3 DEF NeedsConfig, Unprimed
  <2>7. pc' = "config" => pendingKeyframe /\ latest.sps # 0 /\ latest.pps # 0
    BY <1>8 DEF NeedsConfig
  <2>8. Order'
    BY <1>1, <1>3, <1>8, <2>4 DEF SenderInv, Order
  <2>9. Primed'
    BY <1>1, <1>8, <2>5, <2>6 DEF SenderInv, Primed
  <2>10. Gap => pendingKeyframe \/ overtaken
    BY <1>8, <2>2, <2>3 DEF SenderInv, Resuming
  <2>11. ASSUME pc' = "send", pendingKeyframe
         PROVE  sent = Params(ConfigOf(pictures, n))
    <3>1. latest.sps # 0 /\ latest.pps # 0
      BY <2>6, <2>11 DEF SenderInv, Primed
    <3>2. latest = sent
      BY <1>8, <2>11, <3>1 DEF NeedsConfig
    <3>3. latest # NoParams
      BY <3>1 DEF NoParams
    <3> QED BY <2>2, <3>2, <3>3 DEF Knows
  <2>12. ASSUME pc' = "send", ~pendingKeyframe, ~overtaken
         PROVE  sent = Params(ConfigOf(pictures, n))
    <3>1. ~Gap /\ rx.last # 0
      BY <2>5, <2>6, <2>10, <2>12
    <3>2. rx.last = n - 1 /\ n - 1 # 0
      BY <2>2, <3>1 DEF Gap
    <3>3. rx.decodedWith = sent
      BY <1>8, <3>1 DEF SenderInv, Configured
    <3>4. rx.decodedWith = Params(pictures[n - 1].config)
      BY <2>12, <3>1, <3>2 DEF SenderInv, ConfiguredForPicture
    <3>5. pictures[n].key = FALSE
      BY <2>2, <2>12
    <3>6. SameConfig(pictures, n)
      BY <2>2, <3>5 DEF ParserInv, ParserTypes, Encoded
    <3>7. ConfigOf(pictures, n) = pictures[n - 1].config
      BY <3>2, <3>6 DEF SameConfig, ConfigOf
    <3> QED BY <3>3, <3>4, <3>7
  <2>13. Configured'
    <3>1. pc' = "send" /\ (pendingKeyframe \/ ~overtaken) => sent = Params(ConfigOf(pictures, n))
      BY <2>11, <2>12
    <3> QED BY <1>1, <1>8, <2>7, <3>1 DEF SenderInv, Configured, n
  <2>14. Resuming'
    <3>1. Gap' <=> Gap
      BY <1>1, <1>3 DEF Gap
    <3>2. pc' \in {"config", "send"}
      BY <1>8
    <3> QED BY <1>1, <2>10, <3>1, <3>2 DEF SenderInv, Resuming
  <2>15. Freezing'
    BY <1>1, <1>8 DEF SenderInv, Freezing
  <2> QED BY <1>5, <2>8, <2>9, <2>13, <2>14, <2>15 DEF SenderInv
<1> QED BY <1>6, <1>7, <1>8

\* The configuration is sent, then the picture.
LEMMA SenderConfigures == ASSUME ParserInv, SenderInv, SendCodecFrame PROVE SenderInv'
<1> DEFINE n == vcl[1][1]
<1>1. /\ path' = path /\ pictures' = pictures /\ ended' = ended /\ input' = input /\ latest' = latest
      /\ vcl' = vcl /\ pendingKeyframe' = pendingKeyframe
      /\ sent' = latest /\ streamPrimed' = TRUE /\ frameCount' = frameCount
      /\ level' = level /\ frozen' = frozen /\ resumeNeedsKeyframe' = resumeNeedsKeyframe
      /\ toggle' = toggle /\ toggles' = toggles /\ late' = late /\ overtaken' = overtaken
      /\ pc = "config" /\ pc' = "send"
  BY DEF SendCodecFrame, source, buffers, flags, user
<1>2. /\ rx' \in RxRecord /\ rx'.config = latest /\ rx'.decodedWith = rx.decodedWith
      /\ rx'.last = rx.last /\ rx'.before = rx.before /\ rx'.key = rx.key /\ rx'.slices = rx.slices
  BY CodecSent DEF ParserInv, SenderInv
<1>3. Flushing
  BY <1>1 DEF Flushing
<1>4. Knows(latest, pictures, n)
  BY <1>3, Current
<1> HIDE DEF n
<1>5. Framed' <=> Framed
  BY <1>1 DEF Framed
<1>6. (Flushed' = Flushed) /\ (Live' <=> Live)
  BY <1>1 DEF Flushed, Live
<1>7. pendingKeyframe /\ latest.sps # 0 /\ latest.pps # 0
  BY <1>1 DEF SenderInv, Configured
<1>8. latest = Params(ConfigOf(pictures, n))
  BY <1>4, <1>7 DEF Knows, NoParams
<1>9. SenderTypes'
  BY <1>1, <1>2 DEF SenderInv, SenderTypes, RxRecord, ParserInv, ParserTypes
<1>10. Order' /\ Primed'
  BY <1>1, <1>2, <1>6, <1>7 DEF SenderInv, Order, Primed
<1>11. Configured'
  BY <1>1, <1>2, <1>8 DEF Configured, n
<1>12. Resuming' /\ Freezing'
  BY <1>1, <1>2, <1>6, <1>7 DEF SenderInv, Resuming, Freezing, Gap
<1>13. ReferencesSent' /\ ConfiguredForPicture' /\ WholePictures'
  BY <1>1, <1>2, <1>5 DEF SenderInv, ReferencesSent, Decodable, ConfiguredForPicture, WholePictures
<1> QED BY <1>9, <1>10, <1>11, <1>12, <1>13 DEF SenderInv

LEMMA SenderSends == ASSUME ParserInv, SenderInv, SendFrame PROVE SenderInv'
<1> DEFINE n == vcl[1][1]
<1>1. /\ path' = path /\ pictures' = pictures /\ ended' = ended /\ input' = input /\ latest' = latest
      /\ vcl' = vcl /\ pendingKeyframe' = pendingKeyframe
      /\ sent' = sent /\ streamPrimed' = streamPrimed /\ frameCount' = frameCount
      /\ level' = level /\ frozen' = frozen /\ resumeNeedsKeyframe' = resumeNeedsKeyframe
      /\ toggle' = toggle /\ toggles' = toggles /\ overtaken' = overtaken
      /\ late' = (IF frozen THEN late + 1 ELSE late)
      /\ pc = "send" /\ pc' = "sent"
  BY DEF SendFrame, source, buffers, progress, flags, user
<1>2. /\ rx' \in RxRecord /\ rx'.config = rx.config /\ rx'.decodedWith = rx.config
      /\ rx'.last = n /\ rx'.before = rx.last /\ rx'.key = pendingKeyframe /\ rx'.slices = vcl
  BY PictureSent DEF SenderInv
<1>3. Flushing
  BY <1>1 DEF Flushing
<1>4. /\ n \in 1..Len(pictures) /\ n \in Nat \ {0} /\ Flushed = n - 1 /\ Live /\ Whole
      /\ pendingKeyframe \in BOOLEAN /\ vcl = [i \in 1..Len(vcl) |-> <<n, i>>]
      /\ Len(pictures) \in Nat
  BY <1>3, Current
<1>5. Whole => Len(vcl) = pictures[n].slices \/ (~Framed /\ ended /\ n = Len(pictures))
  BY DEF Whole
<1> HIDE DEF n
<1>6. Framed' <=> Framed
  BY <1>1 DEF Framed
<1>7. rx.last \in Nat /\ rx.last <= n - 1 /\ rx.last <= Len(pictures)
  BY <1>1, <1>4 DEF SenderInv, Order, SenderTypes
<1>8. SenderTypes'
  BY <1>1, <1>2, <1>7 DEF SenderInv, SenderTypes, RxRecord
<1>9. Order'
  <2>1. frameCount \in Nat /\ frameCount <= rx.last
    BY DEF SenderInv, Order
  <2>2. frameCount < n /\ frameCount <= n
    BY <1>4, <1>7, <2>1
  <2>3. n \in 0..Len(pictures)
    BY <1>4
  <2> QED BY <1>1, <1>2, <2>1, <2>2, <2>3 DEF Order, n
<1>10. Primed'
  BY <1>1, <1>2, <1>4 DEF SenderInv, Primed
<1>11. Configured'
  BY <1>1, <1>2 DEF SenderInv, Configured
<1>12. Resuming'
  BY <1>1 DEF SenderInv, Resuming
<1>13. Freezing'
  <2>1. frozen => late = 0
    BY <1>1 DEF SenderInv, Freezing
  <2> QED BY <1>1, <1>2, <1>4, <2>1 DEF SenderInv, Freezing
<1>14. ReferencesSent'
  <2>1. CASE pendingKeyframe \/ overtaken
    BY <1>1, <1>2, <2>1 DEF ReferencesSent, Decodable
  <2>2. CASE ~pendingKeyframe /\ ~overtaken
    <3>1. ~Gap
      BY <1>1, <2>2 DEF SenderInv, Resuming
    <3>2. rx.last # 0
      BY <1>1, <1>4, <2>2 DEF SenderInv, Primed
    <3>3. rx.last = n - 1
      BY <1>4, <3>1, <3>2 DEF Gap
    <3> QED BY <1>2, <3>2, <3>3 DEF ReferencesSent, Decodable
  <2> QED BY <2>1, <2>2
<1>15. ConfiguredForPicture'
  <2> SUFFICES ASSUME ~overtaken PROVE rx'.decodedWith = Params(pictures[n].config)
    BY <1>1, <1>2 DEF ConfiguredForPicture
  <2>1. sent = Params(ConfigOf(pictures, n)) /\ rx.config = sent
    BY <1>1 DEF SenderInv, Configured, n
  <2> QED BY <1>2, <1>4, <2>1 DEF ConfigOf
<1>16. WholePictures'
  BY <1>1, <1>2, <1>4, <1>5, <1>6 DEF WholePictures
<1> QED BY <1>8, <1>9, <1>10, <1>11, <1>12, <1>13, <1>14, <1>15, <1>16 DEF SenderInv

\* After the picture was written the stream goes on.
LEMMA SenderRests == ASSUME ParserInv, SenderInv, FrameSent PROVE SenderInv'
<1> DEFINE n == vcl[1][1]
<1>1. /\ path' = path /\ pictures' = pictures /\ ended' = ended /\ input' = input /\ latest' = latest
      /\ vcl' = <<>> /\ pendingKeyframe' = FALSE
      /\ sent' = sent /\ streamPrimed' = streamPrimed /\ frameCount' = frameCount + 1
      /\ frozen' = frozen /\ toggle' = toggle /\ toggles' = toggles
      /\ resumeNeedsKeyframe' = (resumeNeedsKeyframe /\ ~pendingKeyframe)
      /\ overtaken' = (overtaken \/ (pendingKeyframe /\ toggle = "resuming"))
      /\ rx' = rx /\ late' = late /\ pc = "sent" /\ pc' = AfterFlush
  BY DEF FrameSent, ResetVCL, source, user
<1>2. level' \in 0..3
  <2>1. level' \in IF Framed THEN {level} ELSE 0..3
    BY DEF FrameSent
  <2> QED BY <2>1 DEF SenderInv, SenderTypes
<1>3. Flushing
  BY <1>1 DEF Flushing
<1>4. pc' \in {"top", "nal"} /\ (Live' => Flushed' = n)
  <2>1. UNCHANGED <<source, input, latest>>
    BY <1>1 DEF source
  <2> QED BY <1>1, <1>3, <2>1, AfterReset
<1>5. n \in 1..Len(pictures) /\ n \in Nat \ {0} /\ Live
  BY <1>3, Current
<1>6. rx.last = n
  BY <1>1 DEF SenderInv, Order
<1> HIDE DEF n
<1>7. Framed' <=> Framed
  BY <1>1 DEF Framed
<1>8. resumeNeedsKeyframe' \in BOOLEAN /\ overtaken' \in BOOLEAN
  BY <1>1
<1>9. SenderTypes'
  BY <1>1, <1>2, <1>8 DEF SenderInv, SenderTypes
<1>10. Order'
  <2>1. frameCount \in Nat /\ frameCount < rx.last /\ rx.last \in Nat
    BY <1>1, <1>5, <1>6 DEF SenderInv, Order
  <2>2. frameCount + 1 \in Nat /\ frameCount + 1 <= rx.last
    BY <2>1
  <2>3. Live' => rx'.last <= Flushed'
    BY <1>1, <1>4, <1>5, <1>6
  <2> QED BY <1>1, <1>4, <2>2, <2>3 DEF SenderInv, Order
<1>11. Primed'
  BY <1>1, <1>4, <1>5, <1>6 DEF SenderInv, Primed
<1>12. Configured'
  BY <1>1, <1>4 DEF SenderInv, Configured
<1>13. Resuming'
  <2>1. Live' => ~Gap'
    BY <1>1, <1>4, <1>6 DEF Gap
  <2>2. toggle = "resuming" => frozen /\ (resumeNeedsKeyframe \/ overtaken)
    BY DEF SenderInv, Resuming
  <2>3. toggle' = "resuming" => frozen' /\ (resumeNeedsKeyframe' \/ overtaken')
    BY <1>1, <2>2
  <2> QED BY <1>4, <2>1, <2>3 DEF Resuming
<1>14. Freezing'
  BY <1>1, <1>4 DEF SenderInv, Freezing
<1>15. ReferencesSent' /\ ConfiguredForPicture'
  BY <1>1 DEF SenderInv, ReferencesSent, Decodable, ConfiguredForPicture
<1>16. WholePictures'
  BY <1>1, <1>7 DEF SenderInv, WholePictures
<1> QED BY <1>9, <1>10, <1>11, <1>12, <1>13, <1>14, <1>15, <1>16 DEF SenderInv

\* The user freezes the picture or goes on.
LEMMA SenderUser == ASSUME ParserInv, SenderInv, UserStep PROVE SenderInv'
<1>1. /\ path' = path /\ pictures' = pictures /\ ended' = ended /\ pc' = pc /\ input' = input
      /\ vcl' = vcl /\ pendingKeyframe' = pendingKeyframe /\ latest' = latest
      /\ sent' = sent /\ streamPrimed' = streamPrimed /\ frameCount' = frameCount
      /\ level' = level /\ rx' = rx /\ overtaken' = overtaken
  BY DEF UserStep, Freeze, ResumeNeedsKeyframe, Unfreeze, source, loop, buffers, progress, history
<1>2. (Framed' <=> Framed) /\ (Live' <=> Live) /\ Flushed' = Flushed /\ (ShouldDrop' <=> ShouldDrop)
  BY <1>1 DEF Framed, Live, Flushed, ShouldDrop
<1>3. Gap' <=> Gap
  BY <1>1, <1>2 DEF Gap
<1>4. Order' /\ Primed' /\ Configured'
  BY <1>1, <1>2 DEF SenderInv, Order, Primed, Configured
<1>5. ReferencesSent' /\ ConfiguredForPicture' /\ WholePictures'
  BY <1>1, <1>2 DEF SenderInv, ReferencesSent, Decodable, ConfiguredForPicture, WholePictures
<1>6. CASE Freeze
  <2>1. /\ toggle = "idle" /\ toggles < MaxToggles /\ frozen' = TRUE /\ toggles' = toggles + 1
        /\ late' = (IF frozen THEN late ELSE 0)
        /\ resumeNeedsKeyframe' = resumeNeedsKeyframe /\ toggle' = toggle
    BY <1>6 DEF Freeze
  <2>2. toggles' \in 0..MaxToggles
    BY <2>1, BoundsAssumption DEF SenderInv, SenderTypes
  <2>3. SenderTypes'
    BY <1>1, <2>1, <2>2 DEF SenderInv, SenderTypes
  <2>4. Resuming'
    BY <1>1, <1>2, <1>3, <2>1 DEF SenderInv, Resuming
  <2>5. Freezing'
    BY <1>1, <2>1 DEF SenderInv, Freezing
  <2> QED BY <1>4, <1>5, <2>3, <2>4, <2>5 DEF SenderInv
<1>7. CASE ResumeNeedsKeyframe
  <2>1. /\ frozen /\ resumeNeedsKeyframe' = TRUE /\ toggle' = "resuming"
        /\ frozen' = frozen /\ toggles' = toggles /\ late' = late
    BY <1>7 DEF ResumeNeedsKeyframe, history
  <2>2. SenderTypes'
    BY <1>1, <2>1 DEF SenderInv, SenderTypes
  <2>3. Resuming'
    BY <1>1, <1>2, <1>3, <2>1 DEF SenderInv, Resuming
  <2>4. Freezing'
    BY <1>1, <2>1 DEF SenderInv, Freezing
  <2> QED BY <1>4, <1>5, <2>2, <2>3, <2>4 DEF SenderInv
<1>8. CASE Unfreeze
  <2>1. /\ toggle = "resuming" /\ frozen' = FALSE /\ toggle' = "idle"
        /\ resumeNeedsKeyframe' = resumeNeedsKeyframe /\ toggles' = toggles /\ late' = late
    BY <1>8 DEF Unfreeze, history
  <2>2. SenderTypes'
    BY <1>1, <2>1 DEF SenderInv, SenderTypes
  <2>3. resumeNeedsKeyframe \/ overtaken
    BY <2>1 DEF SenderInv, Resuming
  <2>4. Resuming'
    BY <1>1, <1>2, <1>3, <2>1, <2>3 DEF SenderInv, Resuming
  <2>5. Freezing'
    BY <1>1, <2>1 DEF SenderInv, Freezing
  <2> QED BY <1>4, <1>5, <2>2, <2>4, <2>5 DEF SenderInv
<1> QED BY <1>6, <1>7, <1>8 DEF UserStep

\* The workers, Close and the context leave the picture alone.
LEMMA SenderIdle ==
    ASSUME SenderInv, UNCHANGED <<source, loop, flags, user, history>>
    PROVE  SenderInv'
<1>1. /\ path' = path /\ pictures' = pictures /\ ended' = ended /\ pc' = pc /\ input' = input
      /\ vcl' = vcl /\ pendingKeyframe' = pendingKeyframe /\ latest' = latest
      /\ sent' = sent /\ streamPrimed' = streamPrimed /\ frameCount' = frameCount
      /\ level' = level /\ rx' = rx /\ overtaken' = overtaken /\ late' = late
      /\ frozen' = frozen /\ resumeNeedsKeyframe' = resumeNeedsKeyframe
      /\ toggle' = toggle /\ toggles' = toggles
  BY DEF source, loop, buffers, progress, flags, user, history
<1>2. (Framed' <=> Framed) /\ (Live' <=> Live) /\ Flushed' = Flushed /\ (ShouldDrop' <=> ShouldDrop)
  BY <1>1 DEF Framed, Live, Flushed, ShouldDrop
<1>3. Order' /\ Primed' /\ Configured' /\ Freezing'
  BY <1>1, <1>2 DEF SenderInv, Order, Primed, Configured, Freezing
<1>4. Resuming'
  BY <1>1, <1>2 DEF SenderInv, Resuming, Gap
<1>5. SenderTypes' /\ ReferencesSent' /\ ConfiguredForPicture' /\ WholePictures'
  BY <1>1, <1>2 DEF SenderInv, SenderTypes, ReferencesSent, Decodable, ConfiguredForPicture,
                   WholePictures
<1> QED BY <1>3, <1>4, <1>5 DEF SenderInv

LEMMA SenderStarts == ASSUME Init PROVE SenderInv
<1> DEFINE r == [config |-> NoParams, decodedWith |-> NoParams, last |-> 0, before |-> 0,
                 key |-> FALSE, slices |-> <<>>]
<1>1. /\ pictures = <<>> /\ pc = "top" /\ sent = NoParams /\ streamPrimed = FALSE
      /\ frameCount = 0 /\ level = 0 /\ frozen = FALSE /\ resumeNeedsKeyframe = FALSE
      /\ toggle = "idle" /\ toggles = 0 /\ rx = r /\ late = 0 /\ overtaken = FALSE
      /\ vcl = <<>> /\ input = <<>>
  BY DEF Init
<1>2. NoParams \in KnownParams /\ 0 \in 0..MaxToggles
  BY BoundsAssumption DEF NoParams, KnownParams, Config
<1>3. <<>> \in Seq(Slices) /\ Len(pictures) = 0
  BY <1>1, EmptySeq
<1>4. r \in RxRecord
  BY <1>2, <1>3 DEF RxRecord
<1>5. rx.last = 0 /\ rx.before = 0 /\ rx.config = NoParams
  BY <1>1
<1> HIDE DEF r
<1>6. SenderTypes
  <2>1. rx \in RxRecord
    BY <1>1, <1>4
  <2>2. rx.before <= Len(pictures) /\ sent \in KnownParams /\ level \in 0..3
    BY <1>1, <1>2, <1>3, <1>5
  <2>3. streamPrimed \in BOOLEAN /\ frozen \in BOOLEAN /\ resumeNeedsKeyframe \in BOOLEAN
        /\ overtaken \in BOOLEAN
    BY <1>1
  <2>4. toggle \in {"idle", "resuming"} /\ toggles \in 0..MaxToggles
    BY <1>1, <1>2
  <2> QED BY <2>1, <2>2, <2>3, <2>4 DEF SenderTypes, RxRecord
<1>7. Flushed = 0
  BY <1>1, <1>3 DEF Flushed
<1>8. Order /\ Primed /\ Configured /\ Freezing
  BY <1>1, <1>3, <1>5, <1>7 DEF Order, Primed, Configured, Freezing
<1>9. Resuming
  BY <1>1, <1>5 DEF Resuming, Gap
<1>10. ReferencesSent /\ ConfiguredForPicture /\ WholePictures
  BY <1>5 DEF ReferencesSent, Decodable, ConfiguredForPicture, WholePictures
<1> QED BY <1>6, <1>8, <1>9, <1>10 DEF SenderInv

LEMMA SenderStep == ASSUME ParserInv, SenderInv, [Next]_vars PROVE SenderInv'
<1>1. CASE FlushStep
  <2>1. CASE Flush
    <3>1. /\ pc = "flush" /\ UNCHANGED <<source, flags, user, history>>
          /\ IF frozen THEN DropPicture ELSE pc' = "resume" /\ UNCHANGED <<buffers, progress>>
      BY <2>1 DEF Flush
    <3>2. CASE frozen
      BY <3>1, <3>2, SenderDrops
    <3>3. CASE ~frozen
      BY <3>1, <3>3, SenderPasses
    <3> QED BY <3>2, <3>3
  <2>2. CASE Admit
    <3>1. /\ pc = "resume" /\ UNCHANGED <<source, flags, user, history>>
          /\ IF Skips THEN DropPicture
             ELSE (pc' = IF NeedsConfig THEN "config" ELSE "send") /\ UNCHANGED <<buffers, progress>>
      BY <2>2 DEF Admit
    <3>2. CASE Skips
      BY <3>1, <3>2, SenderDrops
    <3>3. CASE ~Skips
      BY <3>1, <3>3, SenderPasses
    <3> QED BY <3>2, <3>3
  <2>3. CASE SendFails
    <3>1. pc' = "done" /\ UNCHANGED <<source, buffers, progress, flags, user, history>>
      BY <2>3 DEF SendFails
    <3> QED BY <3>1, SenderPasses
  <2> QED BY <1>1, <2>1, <2>2, <2>3, SenderConfigures, SenderSends, SenderRests DEF FlushStep
<1>2. CASE InputStep \/ CaptureStep
  BY <1>2, Parsing, SenderParses
<1>3. CASE UserStep
  BY <1>3, SenderUser
<1>4. CASE Cancel \/ WorkerStep \/ CloseStep \/ UNCHANGED vars
  <2>1. UNCHANGED <<source, loop, flags, user, history>>
    BY <1>4 DEF Cancel, WorkerStep, HeartbeatStarts, HeartbeatEnds, FeedbackAnswered,
                FeedbackTick, FeedbackEnds, CloseStep, CloseCancels, Teardown, ConnectionsClosed,
                vars
  <2> QED BY <2>1, SenderIdle
<1> QED BY <1>1, <1>2, <1>3, <1>4 DEF Next, StreamNext

\* The sender, the user and the receiver agree: after a gap nothing is sent before a key
\* picture, a picture is sent only when its configuration was, and a frozen session lets
\* at most the picture through that is on its way (flushVCL, SetFrozen, shouldDrop).
THEOREM SenderInvariant == Spec => []SenderInv
<1>1. Spec => []ParserInv
  BY ParserInvariant
<1> QED BY <1>1, SenderStarts, SenderStep, PTL DEF Spec

\* The receiver can decode every picture it is sent: its reference was sent just before,
\* and its parameter sets too, whatever was frozen, dropped or missed before; the only
\* exception is the overtaken resume (codecConfigNeedsSend, streamPrimed, resumeNeedsKeyframe).
THEOREM StreamIsDecodable == Spec => []PicturesDecodable
<1>1. SenderInv => PicturesDecodable
  BY DEF SenderInv, PicturesDecodable
<1> QED BY <1>1, SenderInvariant, PTL

\* The slices that are sent together are exactly those of one picture of the encoder,
\* in order, with or without delimiters (processNAL, splitNALs).
THEOREM PicturesStayWhole == Spec => []WholePictures
<1>1. SenderInv => WholePictures
  BY DEF SenderInv
<1> QED BY <1>1, SenderInvariant, PTL

\* After SetFrozen(true) returned at most one picture is still delivered (flushVCL).
THEOREM FreezingHolds == Spec => []FrozenHolds
<1>1. SenderInv => FrozenHolds
  BY DEF SenderInv, Freezing, FrozenHolds
<1> QED BY <1>1, SenderInvariant, PTL

-----------------------------------------------------------------------------
(* Types.                                                                   *)

WorkerTypes ==
    /\ firstFrameSent \in BOOLEAN
    /\ heartbeat \in {"waiting", "beating", "gone"}
    /\ feedback \in {"request", "pause", "gone"}
    /\ close \in {"open", "waiting", "teardown", "closed"} /\ cancelled \in BOOLEAN

LEMMA WorkersStart == ASSUME Init PROVE WorkerTypes
BY DEF Init, WorkerTypes

LEMMA WorkersStep == ASSUME WorkerTypes, [Next]_vars PROVE WorkerTypes'
<1>1. CASE FlushStep
  BY <1>1 DEF FlushStep, Flush, Admit, SendFails, SendCodecFrame, SendFrame, FrameSent,
              WorkerTypes, session
<1>2. CASE InputStep
  BY <1>2 DEF InputStep, CheckContext, FlushFirst, ProcessNAL, InputDone, TakeUnit,
              WorkerTypes, session
<1>3. CASE CaptureStep
  <2>1. UNCHANGED <<firstFrameSent, session>>
    BY <1>3 DEF CaptureStep, ReadPicture, CaptureEnds
  <2> QED BY <2>1 DEF WorkerTypes, session
<1>4. CASE UserStep
  BY <1>4 DEF UserStep, Freeze, ResumeNeedsKeyframe, Unfreeze, WorkerTypes, session
<1>5. CASE WorkerStep
  BY <1>5 DEF WorkerStep, HeartbeatStarts, HeartbeatEnds, FeedbackAnswered, FeedbackTick,
              FeedbackEnds, WorkerTypes
<1>6. CASE CloseStep \/ Cancel
  BY <1>6 DEF CloseStep, CloseCancels, Teardown, ConnectionsClosed, Cancel, WorkerTypes
<1>7. CASE UNCHANGED vars
  BY <1>7 DEF vars, session, WorkerTypes
<1> QED BY <1>1, <1>2, <1>3, <1>4, <1>5, <1>6, <1>7 DEF Next, StreamNext

\* The slices that were gathered have their types.
LEMMA GatheredTypes == ASSUME ParserInv PROVE vcl \in Seq(Slices)
<1>1. CASE vcl = <<>>
  BY <1>1, EmptySeq
<1>2. CASE vcl # <<>>
  <2> DEFINE n == vcl[1][1]
             m == Len(vcl)
  <2>1. /\ pictures \in Seq(Picture) /\ Len(pictures) \in Nat /\ Len(pictures) <= MaxPictures
        /\ n \in 1..Len(pictures) /\ m \in 1..pictures[n].slices
        /\ vcl = [i \in 1..m |-> <<n, i>>]
    BY <1>2, LenProperties DEF ParserInv, ParserTypes, Encoded, Buffered, Gathered
  <2> HIDE DEF n, m
  <2>2. pictures[n] \in Picture
    BY <2>1, ElementOfSeq
  <2>3. m \in Nat /\ \A i \in 1..m : <<n, i>> \in Slices
    BY <2>1, <2>2, BoundsAssumption DEF Slices, Picture
  <2>4. PICK v : v = [i \in 1..m |-> <<n, i>>]
    OBVIOUS
  <2>5. v \in Seq(Slices)
    BY <2>3, <2>4
  <2> QED BY <2>1, <2>4, <2>5
<1> QED BY <1>1, <1>2

LEMMA AllTypes == ASSUME ParserInv, SenderInv, WorkerTypes PROVE TypeOK
<1>1. /\ pictures \in Seq(Picture) /\ Len(pictures) \in Nat /\ Len(pictures) <= MaxPictures
      /\ input \in Seq(NalUnit)
  BY LenProperties DEF ParserInv, ParserTypes, Encoded, Buffered, Stream
<1>2. vcl \in Seq(Slices) /\ (Flushing => vcl # <<>>)
  BY GatheredTypes DEF ParserInv, Stage
<1>3. frameCount \in 0..MaxPictures /\ late \in 0..MaxPictures
      /\ rx.last \in 0..MaxPictures /\ rx.before \in 0..MaxPictures
  <2>1. /\ rx.last \in 0..Len(pictures) /\ frameCount \in Nat /\ frameCount <= rx.last
        /\ late \in 0..1 /\ (late = 1 => rx.last # 0)
        /\ rx.before \in Nat /\ rx.before <= Len(pictures)
    BY DEF SenderInv, Order, Freezing, SenderTypes
  <2> QED BY <1>1, <2>1, BoundsAssumption
<1>4. rx \in [config : KnownParams, decodedWith : KnownParams, last : 0..MaxPictures,
              before : 0..MaxPictures, key : BOOLEAN, slices : Seq(Slices)]
  BY <1>3 DEF SenderInv, SenderTypes
<1>5. /\ path \in Paths /\ ended \in BOOLEAN
      /\ pc \in {"top", "read", "nal", "unit", "flush", "resume", "config", "send", "sent", "done"}
      /\ pendingKeyframe \in BOOLEAN /\ latest \in KnownParams
  BY DEF ParserInv, ParserTypes, Flushing
<1>6. /\ sent \in KnownParams /\ streamPrimed \in BOOLEAN /\ level \in 0..3
      /\ frozen \in BOOLEAN /\ resumeNeedsKeyframe \in BOOLEAN /\ overtaken \in BOOLEAN
      /\ toggle \in {"idle", "resuming"} /\ toggles \in 0..MaxToggles
  BY DEF SenderInv, SenderTypes
<1>7. WorkerTypes
  OBVIOUS
<1> QED BY <1>1, <1>2, <1>3, <1>4, <1>5, <1>6, <1>7
        DEF TypeOK, WorkerTypes, Picture, KnownParams, Flushing

\* Every variable of the stream keeps its type, and no more pictures are counted than
\* the encoder produced.
THEOREM StreamTypes == Spec => []TypeOK
<1>1. Spec => []WorkerTypes
  BY WorkersStart, WorkersStep, PTL DEF Spec
<1>2. ParserInv /\ SenderInv /\ WorkerTypes => TypeOK
  BY AllTypes
<1> QED BY <1>1, <1>2, ParserInvariant, SenderInvariant, PTL
=============================================================================
