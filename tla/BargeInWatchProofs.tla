-------------------------- MODULE BargeInWatchProofs ---------------------------
(*****************************************************************************)
(* What holds of BargeInWatch for every bargeInMs, every releaseMs and       *)
(* answers of any length, proved with the TLA+ proof system: the gate's two  *)
(* sums decide exactly what the whole of the frames calls for.               *)
(*                                                                           *)
(* The operators of BargeInWatch that read `heard` are restated of any list  *)
(* of levels, so that they can be compared before and after a frame.         *)
(*****************************************************************************)
EXTENDS BargeInWatch, FiniteSetTheorems, TLAPS

SilentIn(h, i, n) ==
  \E j \in i .. n :
    /\ j + ReleaseFrames <= n
    /\ \A k \in (j + 1) .. (j + ReleaseFrames) : h[k] = "low"

TalksIn(h, i, n) == h[i] = "high" /\ ~SilentIn(h, i, n)

Spoken(h, i, n) == {k \in i .. n : h[k] # "low"}

SustainedAt(h, n) ==
  \E i \in 1 .. n : TalksIn(h, i, n) /\ Cardinality(Spoken(h, i, n)) >= BargeInFrames

SustainedIn(h) == \E n \in 1 .. Len(h) : SustainedAt(h, n)

\* The gate's count of speech began at frame i, the first from which the user
\* has been talking since, and its count of silence is the frames after the
\* last of speech.
CountsFrom(i, g, h) ==
  /\ i \in 1 .. Len(h)
  /\ TalksIn(h, i, Len(h))
  /\ \A e \in 1 .. (i - 1) : ~TalksIn(h, e, Len(h))
  /\ g.voiced = Cardinality(Spoken(h, i, Len(h)))
  /\ g.voiced < BargeInFrames
  /\ g.silent \in 0 .. (Len(h) - i)
  /\ g.silent < ReleaseFrames
  /\ h[Len(h) - g.silent] # "low"
  /\ \A k \in (Len(h) - g.silent + 1) .. Len(h) : h[k] = "low"

\* What a gate of each kind says of the frames it was pushed.
Answers(g, h) ==
  /\ h \in Seq(Levels)
  /\ g.kind \in GateKinds /\ DOMAIN g = {"kind", "voiced", "silent"}
  /\ g.kind = "listening" =>
       ~SustainedIn(h) /\ \A i \in 1 .. Len(h) : ~TalksIn(h, i, Len(h))
  /\ g.kind = "ducked" =>
       ~SustainedIn(h) /\ \E i \in 1 .. Len(h) : CountsFrom(i, g, h)
  /\ g.kind = "committed" => SustainedIn(h)

IInv ==
  /\ Answers(gate, heard)
  /\ voice = IF gate.kind = "ducked" THEN "ducked" ELSE "unity"

-----------------------------------------------------------------------------
(* What a frame more changes.                                                *)

\* A silence stays in what was heard, and the earlier frames say what they said.
LEMMA OneMore ==
  ASSUME NEW h \in Seq(Levels), NEW level \in Levels
  PROVE  LET g == Append(h, level)
             n == Len(h)
         IN /\ g \in Seq(Levels) /\ n \in Nat /\ Len(g) = n + 1 /\ g[n + 1] = level
            /\ \A k \in 1 .. n : g[k] = h[k]
            /\ \A m \in 1 .. n : \A i \in 1 .. m :
                 /\ SilentIn(g, i, m) <=> SilentIn(h, i, m)
                 /\ TalksIn(g, i, m) <=> TalksIn(h, i, m)
                 /\ Spoken(g, i, m) = Spoken(h, i, m)
            /\ \A m \in 1 .. n : SustainedAt(g, m) <=> SustainedAt(h, m)
            /\ \A i \in 1 .. n : TalksIn(g, i, n + 1) => TalksIn(h, i, n)
<1> DEFINE g == Append(h, level)
           n == Len(h)
<1>1. /\ g \in Seq(Levels) /\ n \in Nat /\ Len(g) = n + 1 /\ g[n + 1] = level
      /\ \A k \in 1 .. n : g[k] = h[k]
  OBVIOUS
<1> HIDE DEF g, n
<1>2. \A m \in 1 .. n : \A i \in 1 .. m : SilentIn(g, i, m) <=> SilentIn(h, i, m)
  <2> SUFFICES ASSUME NEW m \in 1 .. n, NEW i \in 1 .. m
               PROVE  SilentIn(g, i, m) <=> SilentIn(h, i, m)
    OBVIOUS
  <2>1. \A j \in i .. m : j + ReleaseFrames <= m =>
          \A k \in (j + 1) .. (j + ReleaseFrames) : g[k] = h[k]
    BY <1>1, GateAssumption
  <2> QED
    BY <2>1 DEF SilentIn
<1>3. \A m \in 1 .. n : \A i \in 1 .. m :
        (TalksIn(g, i, m) <=> TalksIn(h, i, m)) /\ Spoken(g, i, m) = Spoken(h, i, m)
  BY <1>1, <1>2 DEF TalksIn, Spoken
<1>4. \A m \in 1 .. n : SustainedAt(g, m) <=> SustainedAt(h, m)
  BY <1>3 DEF SustainedAt
<1>5. ASSUME NEW i \in 1 .. n, TalksIn(g, i, n + 1)
      PROVE  TalksIn(h, i, n)
  <2>1. ASSUME SilentIn(g, i, n)
        PROVE  SilentIn(g, i, n + 1)
    <3>1. PICK j \in i .. n :
            /\ j + ReleaseFrames <= n
            /\ \A k \in (j + 1) .. (j + ReleaseFrames) : g[k] = "low"
      BY <2>1 DEF SilentIn
    <3>2. j \in i .. (n + 1) /\ j + ReleaseFrames <= n + 1
      BY <1>1, <3>1, GateAssumption
    <3> QED
      BY <3>1, <3>2 DEF SilentIn
  <2>2. ~SilentIn(h, i, n) /\ h[i] = "high"
    BY <1>1, <1>2, <1>5, <2>1 DEF TalksIn
  <2> QED
    BY <2>2 DEF TalksIn
<1> QED
  BY <1>1, <1>2, <1>3, <1>4, <1>5 DEF g, n

\* Nothing is sustained by a frame more unless it is by that very frame.
LEMMA SustainedByOneMore ==
  ASSUME NEW h \in Seq(Levels), NEW level \in Levels
  PROVE  SustainedIn(Append(h, level))
           <=> SustainedIn(h) \/ SustainedAt(Append(h, level), Len(h) + 1)
<1> DEFINE g == Append(h, level)
<1>1. /\ Len(h) \in Nat /\ Len(g) = Len(h) + 1
      /\ \A m \in 1 .. Len(h) : SustainedAt(g, m) <=> SustainedAt(h, m)
  BY OneMore
<1> HIDE DEF g
<1>2. SustainedIn(g) <=> SustainedIn(h) \/ SustainedAt(g, Len(h) + 1)
  BY <1>1 DEF SustainedIn
<1> QED
  BY <1>2 DEF g

\* The speech from a frame on, with a frame more.
LEMMA SpokenOneMore ==
  ASSUME NEW h \in Seq(Levels), NEW level \in Levels, NEW i \in 1 .. Len(h)
  PROVE  LET g == Append(h, level)
             n == Len(h)
         IN /\ Cardinality(Spoken(h, i, n)) \in Nat
            /\ Cardinality(Spoken(g, i, n + 1))
                 = Cardinality(Spoken(h, i, n)) + (IF level = "low" THEN 0 ELSE 1)
<1> DEFINE g == Append(h, level)
           n == Len(h)
<1>1. /\ n \in Nat /\ g[n + 1] = level
      /\ Spoken(g, i, n) = Spoken(h, i, n)
  BY OneMore
<1> HIDE DEF g, n
<1>2. i \in 1 .. n
  BY DEF n
<1>3. IsFiniteSet(Spoken(h, i, n)) /\ Cardinality(Spoken(h, i, n)) \in Nat
  <2>1. IsFiniteSet(i .. n)
    BY <1>1, <1>2, FS_Interval
  <2>2. Spoken(h, i, n) \subseteq i .. n
    BY DEF Spoken
  <2> QED
    BY <2>1, <2>2, FS_Subset, FS_CardinalityType
<1>4. n + 1 \notin Spoken(h, i, n)
  BY <1>1, <1>2 DEF Spoken
<1>5. CASE level = "low"
  <2>1. Spoken(g, i, n + 1) = Spoken(g, i, n)
    BY <1>1, <1>2, <1>5 DEF Spoken
  <2> QED
    BY <1>1, <1>3, <1>5, <2>1 DEF g, n
<1>6. CASE level # "low"
  <2>1. Spoken(g, i, n + 1) = Spoken(g, i, n) \union {n + 1}
    BY <1>1, <1>2, <1>6 DEF Spoken
  <2>2. Cardinality(Spoken(g, i, n + 1)) = Cardinality(Spoken(h, i, n)) + 1
    BY <1>1, <1>3, <1>4, <2>1, FS_AddElement
  <2> QED
    BY <1>3, <1>6, <2>2 DEF g, n
<1> QED
  BY <1>5, <1>6

\* Of two talks the one that began later holds no more speech.
LEMMA LaterIsLess ==
  ASSUME NEW h, NEW n \in Nat, NEW i \in 1 .. n, NEW e \in i .. n
  PROVE  Cardinality(Spoken(h, e, n)) <= Cardinality(Spoken(h, i, n))
         /\ Cardinality(Spoken(h, e, n)) \in Nat /\ Cardinality(Spoken(h, i, n)) \in Nat
<1>1. IsFiniteSet(i .. n)
  BY FS_Interval
<1>2. Spoken(h, i, n) \subseteq i .. n /\ Spoken(h, e, n) \subseteq Spoken(h, i, n)
  BY DEF Spoken
<1>3. IsFiniteSet(Spoken(h, i, n)) /\ IsFiniteSet(Spoken(h, e, n))
  BY <1>1, <1>2, FS_Subset
<1> QED
  BY <1>2, <1>3, FS_Subset, FS_CardinalityType

\* If the talk the gate counts is short, none that goes on is long.
LEMMA NotSustainedAt ==
  ASSUME NEW h, NEW n \in Nat, NEW i \in 1 .. n,
         \A e \in 1 .. (i - 1) : ~TalksIn(h, e, n),
         Cardinality(Spoken(h, i, n)) < BargeInFrames
  PROVE  ~SustainedAt(h, n)
<1> SUFFICES ASSUME NEW e \in 1 .. n, TalksIn(h, e, n),
                    Cardinality(Spoken(h, e, n)) >= BargeInFrames
             PROVE  FALSE
  BY DEF SustainedAt
<1>1. e \in i .. n
  OBVIOUS
<1> QED
  BY <1>1, LaterIsLess, GateAssumption

-----------------------------------------------------------------------------
(* The gate's steps.                                                         *)

\* Nobody was talking: the frame begins a talk, or none.
LEMMA ListeningPush ==
  ASSUME NEW g, NEW h, NEW level \in Levels, Answers(g, h), g.kind = "listening"
  PROVE  LET told == push(g, level) IN
           /\ Answers(told.gate, Append(h, level))
           /\ told.action = IF told.gate.kind = "ducked" THEN "duck"
                            ELSE IF told.gate.kind = "committed" THEN "commit" ELSE "none"
<1> DEFINE n == Len(h)
           h2 == Append(h, level)
<1>1. h \in Seq(Levels) /\ ~SustainedIn(h) /\ \A i \in 1 .. n : ~TalksIn(h, i, n)
  BY DEF Answers
<1>2. /\ h2 \in Seq(Levels) /\ n \in Nat /\ Len(h2) = n + 1 /\ h2[n + 1] = level
      /\ \A e \in 1 .. n : ~TalksIn(h2, e, n + 1)
      /\ SustainedIn(h2) <=> SustainedAt(h2, n + 1)
  BY <1>1, OneMore, SustainedByOneMore
<1> HIDE DEF n, h2
<1>3. CASE level # "high"
  <2>1. \A e \in 1 .. (n + 1) : ~TalksIn(h2, e, n + 1)
    BY <1>2, <1>3 DEF TalksIn
  <2>2. ~SustainedIn(h2)
    BY <1>2, <2>1 DEF SustainedAt
  <2>3. push(g, level) = Told(g, "none")
    BY <1>3 DEF push
  <2> QED
    BY <1>2, <2>1, <2>2, <2>3 DEF Answers, Told, GateKinds, h2
<1>4. CASE level = "high"
  <2>1. push(g, level) = firstFrame
    BY <1>4 DEF push
  <2>2. TalksIn(h2, n + 1, n + 1)
    BY <1>2, <1>4, GateAssumption DEF TalksIn, SilentIn
  <2>3. Cardinality(Spoken(h2, n + 1, n + 1)) = 1
    <3>1. Spoken(h2, n + 1, n + 1) = {n + 1}
      BY <1>2, <1>4 DEF Spoken
    <3> QED
      BY <3>1, FS_Singleton
  <2>4. CASE BargeInFrames <= 1
    <3>1. SustainedIn(h2)
      BY <1>2, <2>2, <2>3, <2>4 DEF SustainedAt
    <3>2. push(g, level) = Told(committedGate, "commit")
      BY <2>1, <2>4 DEF firstFrame
    <3> QED
      BY <1>2, <3>1, <3>2 DEF Answers, Told, committedGate, Gate, GateKinds, h2
  <2>5. CASE ~(BargeInFrames <= 1)
    <3>1. push(g, level) = Told(Gate("ducked", 1, 0), "duck")
      BY <2>1, <2>5 DEF firstFrame
    <3>2. BargeInFrames > 1
      BY <2>5, GateAssumption
    <3>3. CountsFrom(n + 1, Gate("ducked", 1, 0), h2)
      BY <1>2, <1>4, <2>2, <2>3, <3>2, GateAssumption DEF CountsFrom, Gate
    <3>4. ~SustainedIn(h2)
      BY <1>2, <2>3, <3>2, NotSustainedAt
    <3>5. Answers(Gate("ducked", 1, 0), h2)
      BY <1>2, <3>3, <3>4 DEF Answers, Gate, GateKinds
    <3> QED
      BY <3>1, <3>5 DEF Told, Gate, h2
  <2> QED
    BY <2>4, <2>5
<1> QED
  BY <1>3, <1>4

\* Somebody is talking, and goes on.
LEMMA VoicedPush ==
  ASSUME NEW g, NEW h, NEW level \in Levels, Answers(g, h), g.kind = "ducked", level # "low"
  PROVE  LET told == push(g, level) IN
           /\ Answers(told.gate, Append(h, level))
           /\ \/ told.gate.kind = "ducked" /\ told.action = "none"
              \/ told.gate.kind = "committed" /\ told.action = "commit"
<1> DEFINE n == Len(h)
           h2 == Append(h, level)
           voiced == g.voiced + 1
<1>1. h \in Seq(Levels) /\ ~SustainedIn(h)
  BY DEF Answers
<1>2. PICK i \in 1 .. n : CountsFrom(i, g, h)
  BY DEF Answers
<1>3. /\ h2 \in Seq(Levels) /\ n \in Nat /\ Len(h2) = n + 1 /\ h2[n + 1] = level
      /\ \A e \in 1 .. n : TalksIn(h2, e, n + 1) => TalksIn(h, e, n)
      /\ TalksIn(h2, i, n) /\ h2[i] = "high"
      /\ SustainedIn(h2) <=> SustainedAt(h2, n + 1)
  <2>1. TalksIn(h, i, n) /\ n \in 1 .. n
    BY <1>1, <1>2 DEF CountsFrom
  <2>2. TalksIn(h2, i, n)
    BY <1>1, <2>1, OneMore
  <2> QED
    BY <1>1, <2>2, OneMore, SustainedByOneMore DEF TalksIn
<1>4. Cardinality(Spoken(h2, i, n + 1)) = voiced /\ voiced \in Nat
  BY <1>1, <1>2, SpokenOneMore DEF CountsFrom
<1> HIDE DEF n, h2
<1>5. TalksIn(h2, i, n + 1)
  <2>1. ASSUME SilentIn(h2, i, n + 1)
        PROVE  FALSE
    <3>1. PICK j \in i .. (n + 1) :
            /\ j + ReleaseFrames <= n + 1
            /\ \A k \in (j + 1) .. (j + ReleaseFrames) : h2[k] = "low"
      BY <2>1 DEF SilentIn
    <3>2. j + ReleaseFrames # n + 1
      BY <1>3, <3>1, GateAssumption
    <3>3. j \in i .. n /\ j + ReleaseFrames <= n
      BY <1>3, <3>1, <3>2, GateAssumption
    <3> QED
      BY <1>3, <3>1, <3>3 DEF TalksIn, SilentIn
  <2> QED
    BY <1>3, <2>1 DEF TalksIn
<1>6. \A e \in 1 .. (i - 1) : ~TalksIn(h2, e, n + 1)
  BY <1>2, <1>3 DEF CountsFrom, n
<1>7. push(g, level) = voicedFrame(g)
  BY DEF push
<1>8. CASE voiced >= BargeInFrames
  <2>1. SustainedIn(h2)
    BY <1>3, <1>4, <1>5, <1>8 DEF SustainedAt
  <2>2. push(g, level) = Told(committedGate, "commit")
    BY <1>7, <1>8 DEF voicedFrame
  <2> QED
    BY <1>3, <2>1, <2>2 DEF Answers, Told, committedGate, Gate, GateKinds, h2
<1>9. CASE ~(voiced >= BargeInFrames)
  <2> DEFINE g2 == Gate("ducked", voiced, 0)
  <2>1. push(g, level) = Told(g2, "none")
    BY <1>7, <1>9 DEF voicedFrame
  <2>2. voiced < BargeInFrames
    BY <1>4, <1>9, GateAssumption
  <2>3. CountsFrom(i, g2, h2)
    BY <1>3, <1>4, <1>5, <1>6, <2>2, GateAssumption DEF CountsFrom, Gate
  <2>4. ~SustainedIn(h2)
    BY <1>3, <1>4, <1>6, <2>2, NotSustainedAt
  <2>5. Answers(g2, h2)
    BY <1>3, <2>3, <2>4 DEF Answers, Gate, GateKinds
  <2> QED
    BY <2>1, <2>5 DEF Told, Gate, h2
<1> QED
  BY <1>8, <1>9

\* Somebody was talking, and is silent.
LEMMA SilentPush ==
  ASSUME NEW g, NEW h, Answers(g, h), g.kind = "ducked"
  PROVE  LET told == push(g, "low") IN
           /\ Answers(told.gate, Append(h, "low"))
           /\ \/ told.gate.kind = "ducked" /\ told.action = "none"
              \/ told.gate.kind = "listening" /\ told.action = "unduck"
<1> DEFINE n == Len(h)
           h2 == Append(h, "low")
           silent == g.silent + 1
           from == n - g.silent
<1>1. h \in Seq(Levels) /\ ~SustainedIn(h) /\ "low" \in Levels
  BY DEF Answers, Levels
<1>2. PICK i \in 1 .. n : CountsFrom(i, g, h)
  BY DEF Answers
<1>3. /\ h2 \in Seq(Levels) /\ n \in Nat /\ Len(h2) = n + 1 /\ h2[n + 1] = "low"
      /\ \A k \in 1 .. n : h2[k] = h[k]
      /\ \A e \in 1 .. n : TalksIn(h2, e, n + 1) => TalksIn(h, e, n)
      /\ SustainedIn(h2) <=> SustainedAt(h2, n + 1)
  BY <1>1, OneMore, SustainedByOneMore
<1>4. /\ Cardinality(Spoken(h2, i, n + 1)) = g.voiced
      /\ g.voiced \in Nat /\ g.voiced < BargeInFrames
  BY <1>1, <1>2, SpokenOneMore DEF CountsFrom
<1>5. /\ TalksIn(h, i, n)
      /\ g.silent \in 0 .. (n - i) /\ g.silent < ReleaseFrames
      /\ h[from] # "low" /\ \A k \in (from + 1) .. n : h[k] = "low"
      /\ \A e \in 1 .. (i - 1) : ~TalksIn(h, e, n)
  BY <1>2 DEF CountsFrom
<1> HIDE DEF n, h2
<1>6. from \in i .. n /\ silent \in 1 .. ReleaseFrames /\ from + silent = n + 1
  BY <1>3, <1>5, GateAssumption
<1>7. h2[from] # "low" /\ \A k \in (from + 1) .. (n + 1) : h2[k] = "low"
  <2>1. from \in 1 .. n
    BY <1>3, <1>6
  <2> HIDE DEF from
  <2>2. h2[from] # "low"
    BY <1>3, <1>5, <2>1
  <2>3. ASSUME NEW k \in (from + 1) .. (n + 1)
        PROVE  h2[k] = "low"
    <3>1. k = n + 1 \/ (k \in 1 .. n /\ k \in (from + 1) .. n)
      BY <1>3, <2>1
    <3> QED
      BY <1>3, <1>5, <3>1
  <2> QED
    BY <2>2, <2>3
<1>8. \A e \in 1 .. (i - 1) : ~TalksIn(h2, e, n + 1)
  BY <1>3, <1>5
<1>9. push(g, "low") = silentFrame(g)
  BY DEF push
<1>10. CASE silent >= ReleaseFrames
  <2>1. silent = ReleaseFrames
    BY <1>6, <1>10, GateAssumption
  <2>2. ASSUME NEW e \in 1 .. (n + 1)
        PROVE  ~TalksIn(h2, e, n + 1)
    <3>1. CASE e \in (from + 1) .. (n + 1)
      BY <1>7, <3>1 DEF TalksIn
    <3>2. CASE e \in 1 .. from
      <4>1. from \in e .. (n + 1) /\ from + ReleaseFrames <= n + 1
        BY <1>3, <1>6, <2>1, <3>2
      <4>2. SilentIn(h2, e, n + 1)
        BY <1>6, <1>7, <2>1, <4>1 DEF SilentIn
      <4> QED
        BY <4>2 DEF TalksIn
    <3> QED
      BY <1>3, <1>6, <3>1, <3>2
  <2>3. ~SustainedIn(h2)
    BY <1>3, <2>2 DEF SustainedAt
  <2>4. push(g, "low") = Told(listeningGate, "unduck")
    BY <1>9, <1>10 DEF silentFrame
  <2> QED
    BY <1>3, <2>2, <2>3, <2>4 DEF Answers, Told, listeningGate, Gate, GateKinds, h2
<1>11. CASE ~(silent >= ReleaseFrames)
  <2> DEFINE g2 == [g EXCEPT !.silent = silent]
  <2>1. push(g, "low") = Told(g2, "none")
    BY <1>9, <1>11 DEF silentFrame
  <2>2. silent < ReleaseFrames
    BY <1>6, <1>11, GateAssumption
  <2>3. TalksIn(h2, i, n + 1)
    <3>1. ASSUME SilentIn(h2, i, n + 1)
          PROVE  FALSE
      <4>1. PICK j \in i .. (n + 1) :
              /\ j + ReleaseFrames <= n + 1
              /\ \A k \in (j + 1) .. (j + ReleaseFrames) : h2[k] = "low"
        BY <3>1 DEF SilentIn
      <4>2. CASE j + ReleaseFrames <= n
        <5>1. j \in i .. n
          BY <1>3, <4>1, <4>2, GateAssumption
        <5>2. \A k \in (j + 1) .. (j + ReleaseFrames) : h[k] = "low"
          BY <1>3, <4>1, <4>2, <5>1, GateAssumption
        <5> QED
          BY <1>5, <4>2, <5>1, <5>2 DEF TalksIn, SilentIn
      <4>3. CASE j + ReleaseFrames = n + 1
        <5>1. from \in (j + 1) .. (j + ReleaseFrames)
          BY <1>3, <1>6, <2>2, <4>1, <4>3, GateAssumption
        <5> QED
          BY <1>7, <4>1, <5>1
      <4> QED
        BY <1>3, <4>1, <4>2, <4>3, GateAssumption
    <3> QED
      BY <1>3, <1>5, <3>1 DEF TalksIn
  <2>4. /\ g2.silent = silent /\ g2.voiced = g.voiced /\ g2.kind = "ducked"
        /\ DOMAIN g2 = {"kind", "voiced", "silent"}
    BY DEF Answers
  <2> HIDE DEF g2
  <2>5. CountsFrom(i, g2, h2)
    BY <1>3, <1>4, <1>6, <1>7, <1>8, <2>2, <2>3, <2>4 DEF CountsFrom
  <2>6. ~SustainedIn(h2)
    BY <1>3, <1>4, <1>8, NotSustainedAt
  <2>7. Answers(g2, h2)
    BY <1>3, <2>4, <2>5, <2>6 DEF Answers, GateKinds
  <2> QED
    BY <2>1, <2>4, <2>7 DEF Told, h2
<1> QED
  BY <1>10, <1>11

\* A frame of any level, pushed to a gate of any kind.
LEMMA PushAnswers ==
  ASSUME NEW g, NEW h, NEW level \in Levels, Answers(g, h), g.kind # "disarmed"
  PROVE  LET told == push(g, level) IN
           /\ Answers(told.gate, Append(h, level))
           /\ \/ told.action = "duck" /\ told.gate.kind = "ducked"
              \/ told.action \in {"unduck", "commit"} /\ told.gate.kind # "ducked"
              \/ told.action = "none" /\ (told.gate.kind = "ducked" <=> g.kind = "ducked")
<1>1. CASE g.kind = "listening"
  <2>1. push(g, level).gate.kind \in GateKinds
    BY <1>1, ListeningPush DEF Answers
  <2> QED
    BY <1>1, <2>1, ListeningPush
<1>2. CASE g.kind = "ducked" /\ level # "low"
  BY <1>2, VoicedPush
<1>3. CASE g.kind = "ducked" /\ level = "low"
  BY <1>3, SilentPush
<1>4. CASE g.kind = "committed"
  <2>1. push(g, level) = Told(g, "none")
    BY <1>4 DEF push
  <2>2. SustainedIn(Append(h, level)) /\ Append(h, level) \in Seq(Levels)
    BY <1>4, SustainedByOneMore, OneMore DEF Answers
  <2>3. Answers(g, Append(h, level))
    BY <1>4, <2>2 DEF Answers
  <2> QED
    BY <1>4, <2>1, <2>3 DEF Told
<1> QED
  BY <1>1, <1>2, <1>3, <1>4 DEF Answers, GateKinds

LEMMA NextKeeps ==
  ASSUME IInv, [Next]_vars
  PROVE  IInv'
<1>1. CASE Arm
  <2>1. gate' = listeningGate /\ heard' = <<>> /\ voice' = "unity"
    BY <1>1 DEF Arm, arm, IInv
  <2>2. heard' \in Seq(Levels) /\ Len(heard') = 0
    BY <2>1
  <2> QED
    BY <2>1, <2>2 DEF IInv, Answers, listeningGate, Gate, GateKinds, SustainedIn
<1>2. CASE Disarm
  <2>1. gate' = disarmedGate /\ heard' = <<>> /\ voice' = "unity"
    BY <1>2 DEF Disarm, Obey, disarm, Told, ducked, IInv
  <2> QED
    BY <2>1 DEF IInv, Answers, disarmedGate, Gate, GateKinds
<1>3. ASSUME NEW level \in Levels, Push(level)
      PROVE  IInv'
  <2>1. /\ gate.kind # "disarmed" /\ Answers(gate, heard)
        /\ gate' = push(gate, level).gate /\ heard' = Append(heard, level)
        /\ voice = IF gate.kind = "ducked" THEN "ducked" ELSE "unity"
    BY <1>3 DEF Push, Obey, IInv
  <2>2. voice' = CASE push(gate, level).action = "duck" -> "ducked"
                   [] push(gate, level).action = "none" -> voice
                   [] OTHER -> "unity"
    BY <1>3 DEF Push, Obey
  <2>3. Answers(gate', heard')
    BY <2>1, PushAnswers
  <2>4. \/ push(gate, level).action = "duck" /\ gate'.kind = "ducked"
        \/ push(gate, level).action \in {"unduck", "commit"} /\ gate'.kind # "ducked"
        \/ /\ push(gate, level).action = "none"
           /\ gate'.kind = "ducked" <=> gate.kind = "ducked"
    BY <2>1, PushAnswers
  <2>5. voice' = IF gate'.kind = "ducked" THEN "ducked" ELSE "unity"
    BY <2>1, <2>2, <2>4
  <2> QED
    BY <2>3, <2>5 DEF IInv
<1>4. CASE UNCHANGED vars
  BY <1>4 DEF vars, IInv
<1> QED
  BY <1>1, <1>2, <1>3, <1>4 DEF Next

\* The gate's two sums, and the level the voice is at, say of the frames since
\* it was armed what a reader of them all would (barge-in.ts, push).
THEOREM WatchInvariant == Spec => []IInv
<1>1. Init => IInv
  <2> SUFFICES ASSUME Init
               PROVE  IInv
    OBVIOUS
  <2>1. gate = disarmedGate /\ heard = <<>> /\ voice = "unity"
    BY DEF Init
  <2> QED
    BY <2>1 DEF IInv, Answers, disarmedGate, Gate, GateKinds
<1>2. IInv /\ [Next]_vars => IInv'
  BY NextKeeps
<1> QED
  BY <1>1, <1>2, PTL DEF Spec

LEMMA Restated ==
  ASSUME IInv
  PROVE  /\ Sustained <=> SustainedIn(heard)
         /\ Talking <=> \E i \in 1 .. Len(heard) : TalksIn(heard, i, Len(heard))
<1>1. heard \in Seq(Levels) /\ DOMAIN heard = 1 .. Len(heard)
  BY DEF IInv, Answers
<1>2. \A i, n : FallsSilent(i, n) <=> SilentIn(heard, i, n)
  BY DEF FallsSilent, SilentIn
<1>3. \A i, n : TalksFrom(i, n) <=> TalksIn(heard, i, n)
  BY <1>2 DEF TalksFrom, TalksIn
<1>4. \A i, n : SpeechIn(i, n) = Cardinality(Spoken(heard, i, n))
  BY DEF SpeechIn, Spoken
<1>5. Sustained <=> SustainedIn(heard)
  BY <1>1, <1>3, <1>4 DEF Sustained, SustainedIn, SustainedAt
<1>6. Talking <=> \E i \in 1 .. Len(heard) : TalksIn(heard, i, Len(heard))
  BY <1>1, <1>3 DEF Talking
<1> QED
  BY <1>5, <1>6

\* However long she is talked over and whatever the times are set to, she is cut
\* exactly when the user has kept talking for bargeInMs (barge-in.ts).
THEOREM AlwaysCutsWhenTalkedOver == Spec => []CutsWhenTalkedOver
<1>1. ASSUME IInv
      PROVE  CutsWhenTalkedOver
  <2>1. gate.kind \in {"listening", "ducked"} => ~Sustained
    BY <1>1, Restated DEF IInv, Answers
  <2>2. gate.kind = "committed" => Sustained
    BY <1>1, Restated DEF IInv, Answers
  <2>3. Sustained \in BOOLEAN
    BY DEF Sustained
  <2> QED
    BY <1>1, <2>1, <2>2, <2>3 DEF IInv, Answers, GateKinds, CutsWhenTalkedOver
<1> QED
  BY <1>1, WatchInvariant, PTL

\* Her voice is turned down exactly while they talk over her and have not cut
\* her yet, through any number of answers (barge-in.ts).
THEOREM AlwaysDuckedWhileTalking == Spec => []DuckedWhileTalking
<1>1. ASSUME IInv
      PROVE  DuckedWhileTalking
  <2>1. gate.kind = "ducked" => Talking /\ ~Sustained
    BY <1>1, Restated DEF IInv, Answers, CountsFrom
  <2>2. gate.kind = "listening" => ~Talking
    BY <1>1, Restated DEF IInv, Answers
  <2>3. gate.kind = "committed" => Sustained
    BY <1>1, Restated DEF IInv, Answers
  <2> QED
    BY <1>1, <2>1, <2>2, <2>3 DEF IInv, Answers, GateKinds, DuckedWhileTalking
<1> QED
  BY <1>1, WatchInvariant, PTL
=============================================================================
