------------------------------ MODULE ReplyProofs ------------------------------
(*****************************************************************************)
(* What holds of Reply on Playback for any number of answers and sentences,  *)
(* proved with the TLA+ proof system.  A pending fade is a fade there is.    *)
(* As long as an answer is queued only once the fade before it is over,      *)
(* whatever an answer that was stopped left behind it, a fade is on its way  *)
(* to, and behind it in the channel.  Reply implements SpokenReply, whether  *)
(* or not an answer waits for that fade: what an owner is told of an answer  *)
(* (was any of it heard?) is decided by messages that are late, so the       *)
(* argument is about which segments may be in them.  And as long as an       *)
(* answer does wait, nothing is counted as heard that was not rendered:      *)
(* segments are rendered in the order they were queued in, and of the answer *)
(* she is giving none is lost and none is reported that was not rendered.    *)
(* With Backchannel's clips all of this still holds: a clip is one more      *)
(* segment, of no answer, and its scheduler only ever orders the gain.  What *)
(* the gain is comes down to which of the orders in the channel are undone   *)
(* by one behind them.                                                       *)
(*****************************************************************************)
EXTENDS Backchannel, FiniteSetTheorems, SequenceTheorems, WellFoundedInduction, TLAPS

Fades == {"none", "ramping", "silent"}

IsChannel(c) == \E S : c \in Seq(S)

Orders == {"enqueue", "gain", "fade"}

OrdersOnly(c) == \A i \in DOMAIN c : c[i].type \in Orders

IInv ==
  /\ OrdersOnly(toAudio)
  /\ IsChannel(toAudio) /\ IsChannel(toMain) /\ IsChannel(queue)
  /\ fade \in Fades
  /\ fadingOut \in BOOLEAN
  /\ FadeIsAccountedFor

-----------------------------------------------------------------------------
(* Messages of one kind in a channel.                                        *)

Places(c, type) == {i \in DOMAIN c : c[i].type = type}

\* A channel holds finitely many messages of a kind.
LEMMA CountIsNat ==
  ASSUME NEW c, IsChannel(c), NEW type
  PROVE  IsFiniteSet(Places(c, type)) /\ CountOf(c, type) \in Nat
         /\ CountOf(c, type) = Cardinality(Places(c, type))
<1>1. PICK S : c \in Seq(S)
  BY DEF IsChannel
<1>2. Len(c) \in Nat /\ DOMAIN c = 1 .. Len(c)
  BY <1>1
<1>3. IsFiniteSet(1 .. Len(c)) /\ Places(c, type) \subseteq 1 .. Len(c)
  BY <1>2, FS_Interval DEF Places
<1>4. IsFiniteSet(Places(c, type)) /\ Cardinality(Places(c, type)) \in Nat
  BY <1>3, FS_Subset, FS_CardinalityType
<1> QED
  BY <1>4 DEF CountOf, Places

\* Two channels one after the other hold what both hold.
LEMMA CountOfBoth ==
  ASSUME NEW a, NEW b, IsChannel(a), IsChannel(b), NEW type
  PROVE  IsChannel(a \o b) /\ CountOf(a \o b, type) = CountOf(a, type) + CountOf(b, type)
<1>1. PICK S : a \in Seq(S)
  BY DEF IsChannel
<1>2. PICK T : b \in Seq(T)
  BY DEF IsChannel
<1> DEFINE U == S \union T
           c == a \o b
           n == Len(a)
           later == {i \in (n + 1) .. (n + Len(b)) : b[i - n].type = type}
<1>3. a \in Seq(U) /\ b \in Seq(U)
  BY <1>1, <1>2
<1> HIDE DEF U
<1>4. /\ c \in Seq(U) /\ n \in Nat /\ Len(b) \in Nat /\ Len(c) = n + Len(b)
      /\ DOMAIN c = 1 .. (n + Len(b)) /\ DOMAIN a = 1 .. n /\ DOMAIN b = 1 .. Len(b)
      /\ \A i \in 1 .. n : c[i] = a[i]
      /\ \A i \in (n + 1) .. (n + Len(b)) : c[i] = b[i - n]
  BY <1>3
<1> HIDE DEF c, n
<1>5. Places(c, type) = Places(a, type) \union later
  BY <1>4 DEF Places
<1>6. Places(a, type) \cap later = {}
  BY <1>4 DEF Places
<1> DEFINE shift == [i \in Places(b, type) |-> i + n]
<1>7. shift \in Bijection(Places(b, type), later)
  <2>1. shift \in [Places(b, type) -> later]
    BY <1>4 DEF Places
  <2>2. \A i, j \in Places(b, type) : shift[i] = shift[j] => i = j
    BY <1>4 DEF Places
  <2>3. \A k \in later : \E i \in Places(b, type) : shift[i] = k
    <3> SUFFICES ASSUME NEW k \in later
                 PROVE  \E i \in Places(b, type) : shift[i] = k
      OBVIOUS
    <3>1. k - n \in Places(b, type) /\ (k - n) + n = k
      BY <1>4 DEF Places
    <3> QED
      BY <3>1
  <2> QED
    BY <2>1, <2>2, <2>3 DEF Bijection, Injection, Surjection, IsInjective
<1>8. IsFiniteSet(Places(a, type)) /\ IsFiniteSet(Places(b, type))
  BY CountIsNat
<1>9. IsFiniteSet(later) /\ Cardinality(later) = Cardinality(Places(b, type))
  <2> HIDE DEF shift, later
  <2> QED
    BY <1>7, <1>8, FS_Bijection DEF ExistsBijection
<1>10. Cardinality(Places(c, type)) = Cardinality(Places(a, type)) + Cardinality(Places(b, type))
  <2> HIDE DEF later
  <2> QED
    BY <1>5, <1>6, <1>8, <1>9, FS_Union, FS_EmptySet, FS_CardinalityType
<1>11. IsChannel(c)
  BY <1>4 DEF IsChannel
<1>12. CountOf(c, type) = CountOf(a, type) + CountOf(b, type)
  BY <1>10, <1>11, CountIsNat
<1> QED
  BY <1>11, <1>12 DEF c

\* A message by itself.
LEMMA CountOfOne ==
  ASSUME NEW m, NEW type
  PROVE  IsChannel(<<m>>) /\ CountOf(<<m>>, type) = IF m.type = type THEN 1 ELSE 0
<1>1. <<m>> \in Seq({m}) /\ DOMAIN <<m>> = {1}
  OBVIOUS
<1>2. CASE m.type = type
  <2>1. {i \in DOMAIN <<m>> : <<m>>[i].type = type} = {1}
    BY <1>1, <1>2
  <2> QED
    BY <1>1, <1>2, <2>1, FS_Singleton DEF CountOf, IsChannel
<1>3. CASE m.type # type
  <2>1. {i \in DOMAIN <<m>> : <<m>>[i].type = type} = {}
    BY <1>1, <1>3
  <2> QED
    BY <1>1, <1>3, <2>1, FS_EmptySet DEF CountOf, IsChannel
<1> QED
  BY <1>2, <1>3

\* A message is posted.
LEMMA CountPosted ==
  ASSUME NEW c, IsChannel(c), NEW m, NEW type
  PROVE  /\ IsChannel(Append(c, m))
         /\ CountOf(Append(c, m), type)
              = CountOf(c, type) + (IF m.type = type THEN 1 ELSE 0)
<1>1. PICK S : c \in Seq(S)
  BY DEF IsChannel
<1>2. Append(c, m) = c \o <<m>>
  BY <1>1
<1> QED
  BY <1>2, CountOfBoth, CountOfOne

\* A message is taken.
LEMMA CountTaken ==
  ASSUME NEW c, IsChannel(c), c # <<>>, NEW type
  PROVE  /\ IsChannel(Tail(c))
         /\ CountOf(c, type)
              = CountOf(Tail(c), type) + (IF Head(c).type = type THEN 1 ELSE 0)
<1>1. PICK S : c \in Seq(S)
  BY DEF IsChannel
<1>2. Tail(c) \in Seq(S) /\ c = <<Head(c)>> \o Tail(c)
  BY <1>1
<1>3. IsChannel(Tail(c))
  BY <1>2 DEF IsChannel
<1>4. CountOf(<<Head(c)>> \o Tail(c), type) = CountOf(<<Head(c)>>, type) + CountOf(Tail(c), type)
  BY <1>3, CountOfBoth, CountOfOne
<1>5. CountOf(c, type) = CountOf(<<Head(c)>>, type) + CountOf(Tail(c), type)
  BY <1>2, <1>4
<1>6. CountOf(Tail(c), type) \in Nat
  BY <1>3, CountIsNat
<1> HIDE DEF CountOf
<1> QED
  BY <1>3, <1>5, <1>6, CountOfOne

-----------------------------------------------------------------------------
(* The invariant.                                                            *)

\* The fades there are.
FadesAbout == CountOf(toAudio, "fade") + CountOf(toMain, "faded") + (IF fade # "none" THEN 1 ELSE 0)

\* A step that posts to both channels keeps the invariant if what it adds to the
\* fades it adds to the promise.
LEMMA StepKeeps ==
  ASSUME IInv, IsChannel(toAudio'), OrdersOnly(toAudio'), IsChannel(toMain'),
         IsChannel(queue'), fade' \in Fades, fadingOut' \in BOOLEAN,
         FadesAbout' = FadesAbout
           + (IF fadingOut' THEN 1 ELSE 0) - (IF fadingOut THEN 1 ELSE 0)
  PROVE  IInv'
<1>1. FadesAbout = (IF fadingOut THEN 1 ELSE 0)
  BY DEF IInv, FadesAbout, FadeIsAccountedFor
<1>2. FadesAbout' = (IF fadingOut' THEN 1 ELSE 0)
  BY <1>1
<1> QED
  BY <1>2 DEF IInv, FadesAbout, FadeIsAccountedFor

LEMMA Counts ==
  ASSUME IInv
  PROVE  /\ OrdersOnly(toAudio) /\ IsChannel(toAudio) /\ IsChannel(toMain) /\ IsChannel(queue)
         /\ fade \in Fades /\ fadingOut \in BOOLEAN
         /\ CountOf(toAudio, "fade") \in Nat /\ CountOf(toMain, "faded") \in Nat
         /\ FadesAbout = (IF fadingOut THEN 1 ELSE 0)
BY CountIsNat DEF IInv, FadesAbout, FadeIsAccountedFor

LEMMA SinkLeftAlone ==
  ASSUME IInv, UNCHANGED sinkVars
  PROVE  IInv'
BY DEF IInv, sinkVars, FadeIsAccountedFor, CountOf, OrdersOnly

LEMMA OrderPosted ==
  ASSUME NEW c, IsChannel(c), OrdersOnly(c), NEW m, m.type \in Orders
  PROVE  OrdersOnly(Append(c, m))
<1>1. PICK S : c \in Seq(S)
  BY DEF IsChannel
<1>2. DOMAIN Append(c, m) = 1 .. (Len(c) + 1) /\ Len(c) \in Nat /\ DOMAIN c = 1 .. Len(c)
  BY <1>1
<1>3. \A i \in 1 .. (Len(c) + 1) : Append(c, m)[i] = IF i = Len(c) + 1 THEN m ELSE c[i]
  BY <1>1
<1> QED
  BY <1>2, <1>3 DEF OrdersOnly

LEMMA OrderTaken ==
  ASSUME NEW c, IsChannel(c), OrdersOnly(c), c # <<>>
  PROVE  OrdersOnly(Tail(c)) /\ Head(c).type \in Orders
<1>1. PICK S : c \in Seq(S)
  BY DEF IsChannel
<1>2. /\ Len(c) \in Nat /\ Len(c) > 0 /\ DOMAIN c = 1 .. Len(c) /\ Head(c) = c[1]
      /\ DOMAIN Tail(c) = 1 .. (Len(c) - 1)
  BY <1>1
<1>3. \A i \in 1 .. (Len(c) - 1) : Tail(c)[i] = c[i + 1]
  BY <1>1, <1>2
<1> QED
  BY <1>2, <1>3 DEF OrdersOnly

\* Orders other than a fade.
LEMMA OrderKeeps ==
  ASSUME IInv, NEW m, m.type \in {"enqueue", "gain"}, toAudio' = Append(toAudio, m),
         UNCHANGED <<toMain, queue, fade, fadingOut>>
  PROVE  IInv'
<1>1. /\ IsChannel(toAudio') /\ OrdersOnly(toAudio')
      /\ CountOf(toAudio', "fade") = CountOf(toAudio, "fade")
  BY Counts, CountPosted, OrderPosted DEF Orders
<1>2. FadesAbout' = FadesAbout
  BY <1>1 DEF FadesAbout, CountOf
<1> QED
  BY <1>1, <1>2, StepKeeps, Counts

LEMMA FadeOutKeeps ==
  ASSUME IInv, SinkFadeOut
  PROVE  IInv'
<1>1. UNCHANGED <<toMain, queue, fade>> /\ fadingOut' = TRUE
  BY DEF SinkFadeOut, audioVars
<1>2. CASE fadingOut
  <2>1. toAudio' = toAudio
    BY <1>2 DEF SinkFadeOut
  <2> QED
    BY <1>1, <1>2, <2>1, Counts, StepKeeps DEF FadesAbout, CountOf
<1>3. CASE ~fadingOut
  <2>1. toAudio' = Append(toAudio, Message("fade", 0)) /\ Message("fade", 0).type = "fade"
    BY <1>3 DEF SinkFadeOut, Message
  <2>2. /\ IsChannel(toAudio') /\ OrdersOnly(toAudio')
        /\ CountOf(toAudio', "fade") = CountOf(toAudio, "fade") + 1
    BY <2>1, Counts, CountPosted, OrderPosted DEF Orders
  <2>3. CountOf(toMain', "faded") = CountOf(toMain, "faded")
    BY <1>1 DEF CountOf
  <2>4. FadesAbout' = FadesAbout + 1
    BY <1>1, <2>2, <2>3, Counts DEF FadesAbout
  <2> QED
    BY <1>1, <1>3, <2>2, <2>4, StepKeeps, Counts
<1> QED
  BY <1>2, <1>3

\* What a listener of the sink may order in answer to an event: the gain, or
\* nothing.
GainOnly(posts) == posts = <<>> \/ \E target : posts = <<Message("gain", target)>>

\* The main thread takes the next event, and a listener may set the gain.
Takes(posts) ==
  /\ toMain # <<>>
  /\ SinkHearsAndPosts(Head(toMain), posts)
  /\ RepliesHear(Head(toMain))

LEMMA MainTakes ==
  ASSUME MainReceives
  PROVE  GainOnly(<<>>) /\ Takes(<<>>)
BY DEF MainReceives, SinkHears, Takes, GainOnly

LEMMA GainPosted ==
  ASSUME NEW c, IsChannel(c), NEW posts, GainOnly(posts)
  PROVE  c \o posts = c \/ \E m : m.type = "gain" /\ c \o posts = Append(c, m)
<1>1. PICK S : c \in Seq(S)
  BY DEF IsChannel
<1>2. \A m : c \o <<m>> = Append(c, m)
  BY <1>1
<1>3. c \o <<>> = c
  BY <1>1
<1>4. \A target : Message("gain", target).type = "gain"
  BY DEF Message
<1> QED
  BY <1>2, <1>3, <1>4 DEF GainOnly

LEMMA MainKeeps ==
  ASSUME IInv, NEW posts, GainOnly(posts), Takes(posts)
  PROVE  IInv'
<1> DEFINE m == Head(toMain)
<1>1. /\ toMain # <<>> /\ toMain' = Tail(toMain) /\ toAudio' = toAudio \o posts
      /\ fadingOut' = (fadingOut /\ m.type # "faded") /\ UNCHANGED <<queue, fade>>
  BY DEF Takes, SinkHearsAndPosts, audioVars
<1>2. /\ IsChannel(toAudio') /\ OrdersOnly(toAudio')
      /\ CountOf(toAudio', "fade") = CountOf(toAudio, "fade")
  <2>1. CASE toAudio' = toAudio
    BY <2>1, Counts DEF CountOf
  <2>2. ASSUME NEW order, order.type = "gain", toAudio' = Append(toAudio, order)
        PROVE  /\ IsChannel(toAudio') /\ OrdersOnly(toAudio')
               /\ CountOf(toAudio', "fade") = CountOf(toAudio, "fade")
    BY <2>2, Counts, CountPosted, OrderPosted DEF Orders
  <2> QED
    BY <1>1, <2>1, <2>2, GainPosted, Counts
<1>3. /\ IsChannel(toMain') /\ CountOf(toMain', "faded") \in Nat
      /\ CountOf(toMain, "faded")
           = CountOf(toMain', "faded") + (IF m.type = "faded" THEN 1 ELSE 0)
  BY <1>1, Counts, CountTaken, CountIsNat
<1>5. FadesAbout' = FadesAbout - (IF m.type = "faded" THEN 1 ELSE 0)
  BY <1>1, <1>2, <1>3, Counts DEF FadesAbout
<1>6. m.type = "faded" => fadingOut
  BY <1>3, Counts DEF FadesAbout
<1>7. CASE m.type = "faded"
  <2>1. fadingOut' = FALSE /\ fadingOut = TRUE
    BY <1>1, <1>6, <1>7, Counts
  <2> QED
    BY <1>1, <1>2, <1>3, <1>5, <1>7, <2>1, StepKeeps, Counts
<1>8. CASE m.type # "faded"
  <2>1. fadingOut' = fadingOut
    BY <1>1, <1>8, Counts
  <2> QED
    BY <1>1, <1>2, <1>3, <1>5, <1>8, <2>1, StepKeeps, Counts
<1> QED
  BY <1>7, <1>8

LEMMA AudioKeeps ==
  ASSUME IInv, AudioReceives
  PROVE  IInv'
<1> DEFINE m == Head(toAudio)
<1>1. /\ toAudio # <<>> /\ toAudio' = Tail(toAudio) /\ UNCHANGED <<toMain, fadingOut>>
  BY DEF AudioReceives, mainVars
<1>2. /\ IsChannel(toAudio') /\ CountOf(toAudio', "fade") \in Nat
      /\ CountOf(toAudio, "fade")
           = CountOf(toAudio', "fade") + (IF m.type = "fade" THEN 1 ELSE 0)
  BY <1>1, Counts, CountTaken, CountIsNat
<1>3. CountOf(toMain', "faded") = CountOf(toMain, "faded")
  BY <1>1 DEF CountOf
<1>4. OrdersOnly(toAudio') /\ m.type \in Orders
  BY <1>1, Counts, OrderTaken
<1>5. CASE m.type = "enqueue"
  <2>1. queue' = Append(queue, m.arg) /\ UNCHANGED fade
    BY <1>5 DEF AudioReceives
  <2>2. IsChannel(queue')
    BY <2>1, Counts, CountPosted
  <2>3. FadesAbout' = FadesAbout
    BY <1>2, <1>3, <1>5, <2>1, Counts DEF FadesAbout
  <2> QED
    BY <1>1, <1>2, <1>4, <2>1, <2>2, <2>3, StepKeeps, Counts
<1>6. CASE m.type = "gain"
  <2>1. UNCHANGED <<queue, fade>>
    BY <1>6 DEF AudioReceives
  <2>2. FadesAbout' = FadesAbout
    BY <1>2, <1>3, <1>6, <2>1, Counts DEF FadesAbout
  <2> QED
    BY <1>1, <1>2, <1>4, <2>1, <2>2, StepKeeps, Counts
<1>7. CASE m.type = "fade"
  <2>1. fade' = FadeRequested /\ UNCHANGED queue
    BY <1>7 DEF AudioReceives
  <2>2. fade = "none"
    BY <1>2, <1>7, Counts DEF FadesAbout
  <2>3. fade' \in Fades /\ fade' # "none"
    BY <2>1, <2>2 DEF FadeRequested, Fades
  <2>4. FadesAbout' = FadesAbout
    BY <1>2, <1>3, <1>7, <2>2, <2>3, Counts DEF FadesAbout
  <2> QED
    BY <1>1, <1>2, <1>4, <2>1, <2>3, <2>4, StepKeeps, Counts
<1> QED
  BY <1>4, <1>5, <1>6, <1>7 DEF Orders

\* What a quantum reports without a fade ending.
LEMMA ReportKeeps ==
  ASSUME IInv, NEW c, IsChannel(c), CountOf(c, "faded") = 0, toMain' = toMain \o c,
         IsChannel(queue'), UNCHANGED <<toAudio, fade, fadingOut>>
  PROVE  IInv'
<1>1. IsChannel(toMain') /\ CountOf(toMain', "faded") = CountOf(toMain, "faded")
  BY Counts, CountOfBoth
<1>2. CountOf(toAudio', "fade") = CountOf(toAudio, "fade")
  BY DEF CountOf
<1>3. FadesAbout' = FadesAbout
  BY <1>1, <1>2 DEF FadesAbout
<1> QED
  BY <1>1, <1>3, StepKeeps, Counts

LEMMA StartsKeeps ==
  ASSUME IInv, RenderStarts
  PROVE  IInv'
<1> DEFINE m == Message("started", Head(queue))
<1>1. toMain' = Append(toMain, m) /\ UNCHANGED <<toAudio, queue, fade, fadingOut>>
  BY DEF RenderStarts
<1>2. m.type # "faded"
  BY DEF Message
<1>3. IsChannel(<<m>>) /\ CountOf(<<m>>, "faded") = 0
  BY <1>2, CountOfOne
<1>4. toMain' = toMain \o <<m>>
  <2>1. PICK S : toMain \in Seq(S)
    BY Counts DEF IsChannel
  <2> QED
    BY <1>1, <2>1
<1> HIDE DEF m
<1> QED
  BY <1>1, <1>3, <1>4, ReportKeeps, Counts

LEMMA EndsKeeps ==
  ASSUME IInv, RenderEnds
  PROVE  IInv'
<1> DEFINE started == Message("started", queue[2])
           ended == Message("ended", Head(queue))
<1>1. /\ queue # <<>> /\ queue' = Tail(queue) /\ UNCHANGED <<toAudio, fade, fadingOut>>
      /\ \/ toMain' = Append(toMain, ended)
         \/ toMain' = toMain \o <<started, ended>>
  BY DEF RenderEnds
<1>2. started.type # "faded" /\ ended.type # "faded"
  BY DEF Message
<1> HIDE DEF started, ended
<1>3. IsChannel(queue')
  BY <1>1, Counts, CountTaken
<1>4. IsChannel(<<ended>>) /\ CountOf(<<ended>>, "faded") = 0
  BY <1>2, CountOfOne
<1>5. IsChannel(<<started, ended>>) /\ CountOf(<<started, ended>>, "faded") = 0
  <2>1. IsChannel(<<started>>) /\ CountOf(<<started>>, "faded") = 0
    BY <1>2, CountOfOne
  <2>2. <<started, ended>> = Append(<<started>>, ended)
    OBVIOUS
  <2>3. /\ IsChannel(Append(<<started>>, ended))
        /\ CountOf(Append(<<started>>, ended), "faded") = 0
    BY <1>2, <2>1, CountPosted
  <2> QED
    BY <2>2, <2>3
<1>6. Append(toMain, ended) = toMain \o <<ended>>
  <2>1. PICK S : toMain \in Seq(S)
    BY Counts DEF IsChannel
  <2> QED
    BY <2>1
<1> QED
  BY <1>1, <1>3, <1>4, <1>5, <1>6, ReportKeeps

\* The fade that ends is the one that is reported.
LEMMA CompletesKeeps ==
  ASSUME IInv, FadeCompletes
  PROVE  IInv'
<1> DEFINE starts == IF queue # <<>> /\ ~headRead THEN <<Message("started", Head(queue))>> ELSE <<>>
           ends == [i \in DOMAIN queue |-> Message("ended", queue[i])]
           faded == Message("faded", 0)
<1>1. /\ fade # "none" /\ fade' = "none" /\ queue' = <<>>
      /\ UNCHANGED <<toAudio, fadingOut>>
      /\ toMain' = toMain \o starts \o ends \o <<faded>>
  BY DEF FadeCompletes, mainVars
<1>2. IsChannel(starts) /\ CountOf(starts, "faded") = 0
  <2>1. Message("started", Head(queue)).type # "faded"
    BY DEF Message
  <2>2. CASE starts = <<>>
    <3>1. starts \in Seq({}) /\ {i \in DOMAIN starts : starts[i].type = "faded"} = {}
      BY <2>2
    <3> QED
      BY <3>1, FS_EmptySet DEF IsChannel, CountOf
  <2> QED
    BY <2>1, <2>2, CountOfOne
<1>3. IsChannel(ends) /\ CountOf(ends, "faded") = 0
  <2>1. PICK S : queue \in Seq(S)
    BY Counts DEF IsChannel
  <2> DEFINE T == {Message("ended", x) : x \in S}
  <2>2. ends \in [1 .. Len(queue) -> T] /\ Len(queue) \in Nat
    BY <2>1
  <2>3. \A i \in DOMAIN ends : ends[i].type # "faded"
    BY DEF Message
  <2> HIDE DEF ends, T
  <2>4. ends \in Seq(T)
    BY <2>2
  <2>5. {i \in DOMAIN ends : ends[i].type = "faded"} = {}
    BY <2>3
  <2> QED
    BY <2>4, <2>5, FS_EmptySet DEF IsChannel, CountOf
<1>4. IsChannel(<<faded>>) /\ CountOf(<<faded>>, "faded") = 1
  BY CountOfOne DEF Message
<1> HIDE DEF starts, ends, faded
<1>5. IsChannel(toMain') /\ CountOf(toMain', "faded") = CountOf(toMain, "faded") + 1
  <2>1. /\ IsChannel(toMain \o starts)
        /\ CountOf(toMain \o starts, "faded") = CountOf(toMain, "faded")
    BY <1>2, Counts, CountOfBoth
  <2>2. /\ IsChannel((toMain \o starts) \o ends)
        /\ CountOf((toMain \o starts) \o ends, "faded") = CountOf(toMain, "faded")
    BY <1>3, <2>1, Counts, CountOfBoth
  <2> QED
    BY <1>1, <1>4, <2>2, Counts, CountOfBoth
<1>6. CountOf(toAudio', "fade") = CountOf(toAudio, "fade")
  BY <1>1 DEF CountOf
<1>7. FadesAbout' = FadesAbout
  BY <1>1, <1>5, <1>6, Counts DEF FadesAbout
<1>8. IsChannel(queue')
  <2>1. queue' \in Seq({})
    BY <1>1
  <2> QED
    BY <2>1 DEF IsChannel
<1> QED
  BY <1>1, <1>5, <1>7, <1>8, StepKeeps, Counts DEF Fades

LEMMA NextKeeps ==
  ASSUME IInv, [Next]_vars
  PROVE  IInv'
<1>1. CASE UNCHANGED sinkVars
  BY <1>1, SinkLeftAlone
<1>2. ASSUME NEW r \in Replies,
             \/ Begin(r) \/ Release(r) \/ Chunk(r) \/ Synthesise(r) \/ SynthesisFails(r)
             \/ Finish(r)
             \/ \E failing \in BOOLEAN : StreamEnds(r, failing)
             \/ \E hasAudio \in BOOLEAN : Synthesised(r, hasAudio)
      PROVE  IInv'
  <2>1. UNCHANGED sinkVars
    BY <1>2 DEF Begin, Release, Chunk, Synthesise, SynthesisFails, Finish, StreamEnds, Synthesised
  <2> QED
    BY <2>1, SinkLeftAlone
<1>3. ASSUME NEW r \in Replies, Enqueue(r)
      PROVE  IInv'
  <2>1. toAudio' = Append(toAudio, Message("enqueue", NextId))
        /\ UNCHANGED <<toMain, queue, fade, fadingOut>>
    BY <1>3 DEF Enqueue, SinkEnqueue, audioVars
  <2>2. Message("enqueue", NextId).type = "enqueue"
    BY DEF Message
  <2> QED
    BY <2>1, <2>2, OrderKeeps
<1>4. ASSUME NEW r \in Replies, Interrupt(r)
      PROVE  IInv'
  <2>1. SinkFadeOut \/ UNCHANGED sinkVars
    BY <1>4 DEF Interrupt, InterruptSink
  <2> QED
    BY <2>1, FadeOutKeeps, SinkLeftAlone
<1>5. ASSUME NEW target, SinkGain(target)
      PROVE  IInv'
  <2>1. toAudio' = Append(toAudio, Message("gain", target))
        /\ UNCHANGED <<toMain, queue, fade, fadingOut>>
    BY <1>5 DEF SinkGain, audioVars, mainVars
  <2>2. Message("gain", target).type = "gain"
    BY DEF Message
  <2> QED
    BY <2>1, <2>2, OrderKeeps
<1>6. ASSUME NEW r \in Replies, Duck(r)
      PROVE  IInv'
  BY <1>5, <1>6 DEF Duck
<1>7. CASE Unduck
  BY <1>5, <1>7 DEF Unduck
<1>8. CASE Audio(AudioReceives) \/ Audio(RenderStarts) \/ Audio(RenderEnds) \/ Audio(FadeCompletes)
  BY <1>8, AudioKeeps, StartsKeeps, EndsKeeps, CompletesKeeps DEF Audio
<1>9. ASSUME UNCHANGED vars
      PROVE  IInv'
  <2>1. UNCHANGED sinkVars
    BY <1>9 DEF vars, sinkVars
  <2> QED
    BY <2>1, SinkLeftAlone
<1> QED
  BY <1>2, <1>3, <1>4, <1>6, <1>7, <1>8, <1>9, MainTakes, MainKeeps DEF Next, Progress

LEMMA InitOK ==
  ASSUME Init
  PROVE  IInv
<1>1. toAudio = <<>> /\ toMain = <<>> /\ queue = <<>> /\ fade = "none" /\ fadingOut = FALSE
  BY DEF Init, SinkInit
<1>2. toAudio \in Seq({}) /\ toMain \in Seq({}) /\ queue \in Seq({})
  BY <1>1
<1>3. CountOf(toAudio, "fade") = 0 /\ CountOf(toMain, "faded") = 0
  <2>1. {i \in DOMAIN toAudio : toAudio[i].type = "fade"} = {}
        /\ {i \in DOMAIN toMain : toMain[i].type = "faded"} = {}
    BY <1>1
  <2> QED
    BY <2>1, FS_EmptySet DEF CountOf
<1>4. OrdersOnly(toAudio)
  BY <1>1 DEF OrdersOnly
<1>5. IsChannel(toAudio) /\ IsChannel(toMain) /\ IsChannel(queue)
  BY <1>2 DEF IsChannel
<1>6. FadeIsAccountedFor
  BY <1>1, <1>3 DEF FadeIsAccountedFor
<1> QED
  BY <1>1, <1>4, <1>5, <1>6 DEF IInv, Fades

\* However many answers follow one another without waiting, and however late
\* either thread hears of the other: the main thread's one pending fadeOut is one
\* fade that is asked for, running or reported (browser-output.ts, renderer.ts).
THEOREM FadeAlwaysAccountedFor == Spec => []FadeIsAccountedFor
<1>1. Init => IInv
  BY InitOK
<1>2. IInv /\ [Next]_vars => IInv'
  BY NextKeeps
<1>3. IInv => FadeIsAccountedFor
  BY DEF IInv
<1> QED
  BY <1>1, <1>2, <1>3, PTL DEF Spec

-----------------------------------------------------------------------------
(* What was stopped is dropped.                                              *)

Fields == DOMAIN NewReply

Stopped(r) == reply[r].state \in {"interrupted", "abandoned"}

\* A fade is asked for behind place i of the channel.
FadeAfter(c, i) == \E j \in DOMAIN c : j > i /\ c[j].type = "fade"

\* Wherever segment id still is, a fade will drop it: the one that runs, or one
\* that is behind it.
Dropped(id, waiting, c, running) ==
  /\ (\E i \in DOMAIN waiting : waiting[i] = id) => running # "none" \/ FadeAfter(c, 0)
  /\ \A i \in DOMAIN c : c[i].type = "enqueue" /\ c[i].arg = id => FadeAfter(c, i)

RepliesOK ==
  /\ DOMAIN reply = Replies
  /\ IsChannel(rendered)
  /\ \A r \in Replies :
       /\ DOMAIN reply[r] = Fields
       /\ IsChannel(reply[r].queued)
       /\ Segments(r) \subseteq 1 .. Len(rendered)
       /\ reply[r].state \in {"none", "live"} \union Outcomes
       /\ reply[r].state = "none" => reply[r].queued = <<>>

\* An answer begins once those before it have settled.
OneByOne ==
  \A r, q \in Replies : reply[r].state # "none" /\ q < r => reply[q].state \in Outcomes

\* Nothing of the answer she is giving is queued under the fade of another.
FadesAreOver == \A r \in Replies : fadingOut /\ Live(r) => reply[r].queued = <<>>

StoppedIsDropped ==
  \A r \in Replies : Stopped(r) =>
    \A id \in Segments(r) : Dropped(id, queue, toAudio, fade)

StopInv == IInv /\ RepliesOK /\ OneByOne /\ FadesAreOver /\ StoppedIsDropped

-----------------------------------------------------------------------------
(* The channel and the queue.                                                *)

\* Whatever is posted behind it, a segment's fade stays where it is.
LEMMA DroppedPosted ==
  ASSUME NEW c, IsChannel(c), NEW m, NEW id, NEW waiting, NEW running,
         Dropped(id, waiting, c, running), m.type # "enqueue" \/ m.arg # id
  PROVE  Dropped(id, waiting, Append(c, m), running)
<1> DEFINE d == Append(c, m)
<1>1. PICK S : c \in Seq(S)
  BY DEF IsChannel
<1>2. /\ Len(c) \in Nat /\ DOMAIN c = 1 .. Len(c) /\ DOMAIN d = 1 .. (Len(c) + 1)
      /\ \A i \in 1 .. Len(c) : d[i] = c[i]
      /\ d[Len(c) + 1] = m
  BY <1>1
<1> HIDE DEF d
<1>3. \A i : FadeAfter(c, i) => FadeAfter(d, i)
  BY <1>2 DEF FadeAfter
<1>4. \A i \in DOMAIN d : d[i].type = "enqueue" /\ d[i].arg = id => FadeAfter(d, i)
  BY <1>2, <1>3 DEF Dropped
<1> QED
  BY <1>3, <1>4 DEF Dropped, d

\* A fade that is posted is behind everything.
LEMMA DroppedByFade ==
  ASSUME NEW c, IsChannel(c), NEW m, m.type = "fade", NEW id, NEW waiting, NEW running
  PROVE  Dropped(id, waiting, Append(c, m), running)
<1> DEFINE d == Append(c, m)
<1>1. PICK S : c \in Seq(S)
  BY DEF IsChannel
<1>2. /\ Len(c) \in Nat /\ DOMAIN d = 1 .. (Len(c) + 1) /\ d[Len(c) + 1] = m
  BY <1>1
<1> HIDE DEF d
<1>3. \A i \in 0 .. Len(c) : FadeAfter(d, i)
  BY <1>2 DEF FadeAfter
<1>4. \A i \in DOMAIN d : d[i].type = "enqueue" => FadeAfter(d, i)
  BY <1>2, <1>3
<1> QED
  BY <1>2, <1>3, <1>4 DEF Dropped, d

\* The audio thread takes the next order, and does what it says.
LEMMA DroppedTaken ==
  ASSUME NEW c, IsChannel(c), c # <<>>, NEW id, NEW waiting, IsChannel(waiting), NEW running,
         Dropped(id, waiting, c, running)
  PROVE  /\ Head(c).type = "enqueue" =>
              Dropped(id, Append(waiting, Head(c).arg), Tail(c), running)
         /\ Head(c).type = "gain" => Dropped(id, waiting, Tail(c), running)
         /\ \A to : to # "none" => Dropped(id, waiting, Tail(c), to)
<1> DEFINE d == Tail(c)
           m == Head(c)
           longer == Append(waiting, m.arg)
<1>1. PICK S : c \in Seq(S)
  BY DEF IsChannel
<1>2. PICK T : waiting \in Seq(T)
  BY DEF IsChannel
<1>3. /\ Len(c) \in Nat /\ Len(c) > 0 /\ DOMAIN c = 1 .. Len(c)
      /\ DOMAIN d = 1 .. (Len(c) - 1) /\ m = c[1]
  BY <1>1
<1>4. \A i \in 1 .. (Len(c) - 1) : d[i] = c[i + 1]
  BY <1>1, <1>3
<1>5. /\ Len(waiting) \in Nat /\ DOMAIN waiting = 1 .. Len(waiting)
      /\ DOMAIN longer = 1 .. (Len(waiting) + 1)
      /\ \A i \in 1 .. Len(waiting) : longer[i] = waiting[i]
      /\ longer[Len(waiting) + 1] = m.arg
  BY <1>2
<1> HIDE DEF d, m, longer
<1>6. \A i \in 1 .. Len(c) : FadeAfter(c, i) => FadeAfter(d, i - 1)
  <2> SUFFICES ASSUME NEW i \in 1 .. Len(c), FadeAfter(c, i)
               PROVE  FadeAfter(d, i - 1)
    OBVIOUS
  <2>1. PICK j \in 1 .. Len(c) : j > i /\ c[j].type = "fade"
    BY <1>3 DEF FadeAfter
  <2>2. j - 1 \in 1 .. (Len(c) - 1) /\ j - 1 > i - 1 /\ d[j - 1] = c[j]
    BY <1>3, <1>4, <2>1
  <2> QED
    BY <1>3, <2>1, <2>2 DEF FadeAfter
<1>7. \A i \in DOMAIN d : d[i].type = "enqueue" /\ d[i].arg = id => FadeAfter(d, i)
  <2> SUFFICES ASSUME NEW i \in DOMAIN d, d[i].type = "enqueue" /\ d[i].arg = id
               PROVE  FadeAfter(d, i)
    OBVIOUS
  <2>1. i + 1 \in DOMAIN c /\ c[i + 1] = d[i] /\ (i + 1) - 1 = i
    BY <1>3, <1>4
  <2>2. FadeAfter(c, i + 1)
    BY <2>1 DEF Dropped
  <2> QED
    BY <1>3, <1>6, <2>1, <2>2
<1>8. m.type # "fade" /\ FadeAfter(c, 0) => FadeAfter(d, 0)
  <2> SUFFICES ASSUME m.type # "fade", FadeAfter(c, 0)
               PROVE  FadeAfter(d, 0)
    OBVIOUS
  <2>1. FadeAfter(c, 1)
    BY <1>3 DEF FadeAfter
  <2> QED
    BY <1>3, <1>6, <2>1
<1>9. m.type = "enqueue" => Dropped(id, longer, d, running)
  <2> SUFFICES ASSUME m.type = "enqueue", NEW i \in DOMAIN longer, longer[i] = id
               PROVE  running # "none" \/ FadeAfter(d, 0)
    BY <1>7 DEF Dropped
  <2>1. CASE i \in DOMAIN waiting
    BY <1>5, <1>8, <2>1 DEF Dropped
  <2>2. CASE i = Len(waiting) + 1
    <3>1. FadeAfter(c, 1)
      BY <1>3, <1>5, <2>2 DEF Dropped
    <3> QED
      BY <1>3, <1>6, <3>1
  <2> QED
    BY <1>5, <2>1, <2>2
<1>10. m.type = "gain" => Dropped(id, waiting, d, running)
  BY <1>7, <1>8 DEF Dropped
<1>11. \A to : to # "none" => Dropped(id, waiting, d, to)
  BY <1>7 DEF Dropped
<1> QED
  BY <1>9, <1>10, <1>11 DEF d, m, longer

\* A segment is over, or the fade has dropped them all.
LEMMA DroppedShorter ==
  ASSUME NEW id, NEW c, NEW waiting, IsChannel(waiting), NEW running,
         Dropped(id, waiting, c, running)
  PROVE  /\ waiting # <<>> => Dropped(id, Tail(waiting), c, running)
         /\ Dropped(id, <<>>, c, "none")
<1>1. PICK S : waiting \in Seq(S)
  BY DEF IsChannel
<1>2. ASSUME waiting # <<>>, NEW i \in DOMAIN Tail(waiting)
      PROVE  i + 1 \in DOMAIN waiting /\ waiting[i + 1] = Tail(waiting)[i]
  BY <1>1, <1>2
<1>3. DOMAIN <<>> = {}
  OBVIOUS
<1> QED
  BY <1>2, <1>3 DEF Dropped

-----------------------------------------------------------------------------
(* The replies.                                                              *)

\* Nothing is queued.  A reply may begin after those before it, or settle.
LEMMA StepIsObeyed ==
  ASSUME StopInv, IInv',
         IsChannel(rendered'), Len(rendered) \in Nat, Len(rendered') = Len(rendered),
         DOMAIN reply' = Replies,
         \A r \in Replies : DOMAIN reply'[r] = Fields /\ reply'[r].queued = reply[r].queued,
         \A r \in Replies :
           \/ reply'[r].state = reply[r].state
           \/ /\ reply[r].state = "none" /\ reply'[r].state = "live"
              /\ \A q \in Replies : q < r => reply[q].state \in Outcomes
           \/ reply[r].state = "live" /\ reply'[r].state \in Outcomes,
         fadingOut' => fadingOut \/ \A r \in Replies : ~Live(r)',
         \A r \in Replies : Stopped(r)' =>
           \A id \in Segments(r) : Dropped(id, queue', toAudio', fade')
  PROVE  StopInv'
<1>1. \A r \in Replies : Segments(r)' = Segments(r)
  BY DEF Segments
<1>2. RepliesOK'
  BY <1>1 DEF StopInv, RepliesOK, Outcomes
<1>3. OneByOne'
  BY DEF StopInv, OneByOne, Outcomes
<1>4. FadesAreOver'
  BY DEF StopInv, FadesAreOver, RepliesOK, Live
<1>5. StoppedIsDropped'
  BY <1>1 DEF StoppedIsDropped, Stopped
<1> QED
  BY <1>2, <1>3, <1>4, <1>5 DEF StopInv

\* Replies that neither begin, settle nor queue anything.
GoOn ==
  /\ DOMAIN reply' = Replies
  /\ \A r \in Replies :
       /\ DOMAIN reply'[r] = Fields
       /\ reply'[r].queued = reply[r].queued
       /\ reply'[r].state = reply[r].state

\* The sink's own steps, and the gain.
LEMMA SinkIsObeyed ==
  ASSUME StopInv, IInv', GoOn,
         IsChannel(rendered'), Len(rendered) \in Nat, Len(rendered') = Len(rendered),
         fadingOut' => fadingOut,
         \A id : Dropped(id, queue, toAudio, fade) => Dropped(id, queue', toAudio', fade')
  PROVE  StopInv'
<1>1. \A r \in Replies : Stopped(r)' =>
        \A id \in Segments(r) : Dropped(id, queue', toAudio', fade')
  BY DEF GoOn, Stopped, StopInv, StoppedIsDropped
<1> QED
  BY <1>1, StepIsObeyed DEF GoOn

LEMMA Standing ==
  ASSUME StopInv
  PROVE  /\ IInv /\ DOMAIN reply = Replies
         /\ \A r \in Replies : DOMAIN reply[r] = Fields /\ IsChannel(reply[r].queued)
         /\ IsChannel(rendered) /\ Len(rendered) \in Nat
         /\ IsChannel(toAudio) /\ IsChannel(queue) /\ OrdersOnly(toAudio)
         /\ fade \in Fades
<1>1. IsChannel(rendered)
  BY DEF StopInv, RepliesOK
<1>2. PICK S : rendered \in Seq(S)
  BY <1>1 DEF IsChannel
<1>3. Len(rendered) \in Nat
  BY <1>2
<1> QED
  BY <1>1, <1>3 DEF StopInv, RepliesOK, IInv

\* Changing one field of one reply.
LEMMA FieldSet ==
  ASSUME NEW f, NEW r \in DOMAIN f, NEW a \in DOMAIN f[r], NEW x
  PROVE  LET g == [f EXCEPT ![r][a] = x] IN
           /\ DOMAIN g = DOMAIN f
           /\ \A q \in DOMAIN f : q # r => g[q] = f[q]
           /\ DOMAIN g[r] = DOMAIN f[r]
           /\ g[r][a] = x
           /\ \A c \in DOMAIN f[r] \ {a} : g[r][c] = f[r][c]
OBVIOUS

\* Changing fields of one reply that are neither its state nor what it queued.
LEMMA OneFieldGoesOn ==
  ASSUME StopInv, NEW r \in Replies, NEW a \in Fields \ {"state", "queued"}, NEW x,
         reply' = [reply EXCEPT ![r][a] = x]
  PROVE  GoOn
<1>1. DOMAIN reply = Replies /\ DOMAIN reply[r] = Fields /\ {"state", "queued"} \subseteq Fields
  BY Standing DEF Fields, NewReply
<1> QED
  BY <1>1, FieldSet, Standing DEF GoOn

LEMMA TwoFieldsGoOn ==
  ASSUME StopInv, NEW r \in Replies, NEW a \in Fields \ {"state", "queued"}, NEW x,
         NEW b \in Fields \ {"state", "queued"}, NEW y,
         reply' = [[reply EXCEPT ![r][a] = x] EXCEPT ![r][b] = y]
  PROVE  GoOn
<1> DEFINE f == [reply EXCEPT ![r][a] = x]
<1>1. DOMAIN reply = Replies /\ DOMAIN reply[r] = Fields /\ {"state", "queued"} \subseteq Fields
  BY Standing DEF Fields, NewReply
<1>2. /\ DOMAIN f = Replies /\ DOMAIN f[r] = Fields
      /\ f[r].state = reply[r].state /\ f[r].queued = reply[r].queued
      /\ \A q \in Replies : q # r => f[q] = reply[q]
  BY <1>1, FieldSet
<1> HIDE DEF f
<1> QED
  BY <1>1, <1>2, FieldSet, Standing DEF GoOn

\* The stream and the voice.
LEMMA ProvidersGoOn ==
  ASSUME StopInv, NEW r \in Replies,
         \/ Chunk(r) \/ Synthesise(r) \/ SynthesisFails(r)
         \/ \E failing \in BOOLEAN : StreamEnds(r, failing)
         \/ \E hasAudio \in BOOLEAN : Synthesised(r, hasAudio)
  PROVE  GoOn
<1> DEFINE one == reply[r].spoken + 1
           more == reply[r].chunks + 1
<1>1. {"streaming", "failure", "chain", "spoken", "chunks"} \subseteq Fields \ {"state", "queued"}
  BY DEF Fields, NewReply
<1>2. CASE Chunk(r)
  <2>1. reply' = [reply EXCEPT ![r].chunks = more]
    BY <1>2, Zenon DEF Chunk
  <2> HIDE DEF more
  <2> QED
    BY <1>1, <2>1, OneFieldGoesOn
<1>3. CASE Synthesise(r)
  <2>1. \/ reply' = [reply EXCEPT ![r].spoken = one]
        \/ reply' = [reply EXCEPT ![r].chain = "synthesising"]
    BY <1>3, Zenon DEF Synthesise
  <2> HIDE DEF one
  <2> QED
    BY <1>1, <2>1, OneFieldGoesOn
<1>4. CASE SynthesisFails(r)
  <2> DEFINE f == [[reply EXCEPT ![r].chain = "idle"] EXCEPT ![r].spoken = one]
  <2>1. reply' = [f EXCEPT ![r].failure = TRUE]
    BY <1>4, Zenon DEF SynthesisFails
  <2>2. DOMAIN reply = Replies /\ DOMAIN reply[r] = Fields /\ {"state", "queued"} \subseteq Fields
    BY Standing DEF Fields, NewReply
  <2> HIDE DEF one
  <2>3. /\ DOMAIN f = Replies /\ DOMAIN f[r] = Fields
        /\ f[r].state = reply[r].state /\ f[r].queued = reply[r].queued
        /\ \A q \in Replies : q # r => f[q] = reply[q]
    BY <1>1, <2>2, FieldSet
  <2> HIDE DEF f
  <2> QED
    BY <1>1, <2>1, <2>2, <2>3, FieldSet, Standing DEF GoOn
<1>5. ASSUME NEW failing \in BOOLEAN, StreamEnds(r, failing)
      PROVE  GoOn
  <2> DEFINE y == reply[r].failure \/ failing \/ reply[r].chunks = 0
  <2>1. reply' = [[reply EXCEPT ![r].streaming = FALSE] EXCEPT ![r].failure = y]
    BY <1>5, Zenon DEF StreamEnds
  <2> HIDE DEF y
  <2> QED
    BY <1>1, <2>1, TwoFieldsGoOn
<1>6. ASSUME NEW hasAudio \in BOOLEAN, Synthesised(r, hasAudio)
      PROVE  GoOn
  <2>1. \/ reply' = [reply EXCEPT ![r].chain = "holding"]
        \/ reply' = [[reply EXCEPT ![r].chain = "idle"] EXCEPT ![r].spoken = one]
    BY <1>6, Zenon DEF Synthesised
  <2> HIDE DEF one
  <2> QED
    BY <1>1, <2>1, OneFieldGoesOn, TwoFieldsGoOn
<1> QED
  BY <1>2, <1>3, <1>4, <1>5, <1>6

\* onPlayback marks sentences started and ended, and no more.
LEMMA HearingGoesOn ==
  ASSUME StopInv, NEW m, RepliesHear(m)
  PROVE  GoOn
<1>1. reply' = [r \in Replies |-> PlaybackHeard(r, m)]
  BY DEF RepliesHear
<1>2. ASSUME NEW r \in Replies
      PROVE  LET p == PlaybackHeard(r, m) IN
               /\ DOMAIN p = Fields
               /\ p.queued = reply[r].queued /\ p.state = reply[r].state
  <2> DEFINE was == reply[r]
             x == was.started \union {m.arg}
             y == IF m.type = "ended" THEN was.ended \union {m.arg} ELSE was.ended
             f == [was EXCEPT !.started = x]
  <2>1. PlaybackHeard(r, m) = was \/ PlaybackHeard(r, m) = [f EXCEPT !.ended = y]
    BY Zenon DEF PlaybackHeard
  <2>2. DOMAIN was = Fields /\ {"state", "queued", "started", "ended"} \subseteq Fields
    BY Standing DEF Fields, NewReply
  <2> HIDE DEF was, x, y
  <2>3. DOMAIN f = Fields /\ f.state = was.state /\ f.queued = was.queued
    BY <2>2
  <2> HIDE DEF f
  <2> QED
    BY <2>1, <2>2, <2>3 DEF was
<1> QED
  BY <1>1, <1>2 DEF GoOn

LEMMA UnchangedGoesOn ==
  ASSUME StopInv, reply' = reply
  PROVE  GoOn
BY Standing DEF GoOn

-----------------------------------------------------------------------------
(* The steps.                                                                *)

LEMMA SinkAtRest ==
  ASSUME StopInv, IInv', GoOn, UNCHANGED sinkVars
  PROVE  StopInv'
BY Standing, SinkIsObeyed DEF sinkVars

LEMMA BeginKeeps ==
  ASSUME StopInv, IInv', NEW r \in Replies, Begin(r)
  PROVE  StopInv'
<1>1. /\ reply[r].state = "none" /\ reply' = [reply EXCEPT ![r].state = "live"]
      /\ \A q \in Replies : q < r => reply[q].state \in Outcomes
      /\ UNCHANGED <<rendered, queue, toAudio, fade, fadingOut>>
  BY DEF Begin, sinkVars
<1>2. DOMAIN reply = Replies /\ DOMAIN reply[r] = Fields /\ {"state", "queued"} \subseteq Fields
  BY Standing DEF Fields, NewReply
<1>3. /\ DOMAIN reply' = Replies /\ DOMAIN reply'[r] = Fields
      /\ reply'[r].state = "live" /\ reply'[r].queued = reply[r].queued
      /\ \A q \in Replies : q # r => reply'[q] = reply[q]
  BY <1>1, <1>2, FieldSet
<1>4. \A q \in Replies : Stopped(q)' => Stopped(q)
  BY <1>3 DEF Stopped
<1>5. \A q \in Replies : Stopped(q)' =>
        \A id \in Segments(q) : Dropped(id, queue', toAudio', fade')
  BY <1>1, <1>4 DEF StopInv, StoppedIsDropped
<1> QED
  BY <1>1, <1>3, <1>5, Standing, StepIsObeyed

\* An answer that settles, however it does.
LEMMA Settles ==
  ASSUME StopInv, NEW r \in Replies, NEW state, NEW heard,
         reply' = [reply EXCEPT ![r].state = state, ![r].heard = heard]
  PROVE  /\ DOMAIN reply' = Replies
         /\ \A q \in Replies : DOMAIN reply'[q] = Fields /\ reply'[q].queued = reply[q].queued
         /\ \A q \in Replies : q # r => reply'[q] = reply[q]
         /\ reply'[r].state = state
<1> DEFINE f == [reply EXCEPT ![r].state = state]
<1>1. reply' = [f EXCEPT ![r].heard = heard]
  BY Zenon
<1>2. DOMAIN reply = Replies /\ DOMAIN reply[r] = Fields
      /\ {"state", "queued", "heard"} \subseteq Fields
  BY Standing DEF Fields, NewReply
<1>3. /\ DOMAIN f = Replies /\ DOMAIN f[r] = Fields
      /\ f[r].state = state /\ f[r].queued = reply[r].queued
      /\ \A q \in Replies : q # r => f[q] = reply[q]
  BY <1>2, FieldSet
<1> HIDE DEF f
<1> QED
  BY <1>1, <1>2, <1>3, FieldSet, Standing

LEMMA FinishKeeps ==
  ASSUME StopInv, IInv', NEW r \in Replies, Finish(r)
  PROVE  StopInv'
<1> DEFINE state == IF reply[r].failure THEN "failed" ELSE "complete"
           spoken == IF reply[r].failure THEN HeardBy(r) ELSE Segments(r)
<1>1. /\ reply[r].state = "live"
      /\ reply' = [reply EXCEPT ![r].state = state, ![r].heard = spoken]
      /\ UNCHANGED <<rendered, queue, toAudio, fade, fadingOut>>
  BY DEF Finish, RanOut, Live, sinkVars
<1>2. state \in {"failed", "complete"}
  OBVIOUS
<1> HIDE DEF state, spoken
<1>3. /\ DOMAIN reply' = Replies /\ reply'[r].state = state
      /\ \A q \in Replies : DOMAIN reply'[q] = Fields /\ reply'[q].queued = reply[q].queued
      /\ \A q \in Replies : q # r => reply'[q] = reply[q]
  BY <1>1, Settles
<1>4. \A q \in Replies : Stopped(q)' => Stopped(q)
  BY <1>2, <1>3 DEF Stopped
<1>5. \A q \in Replies : Stopped(q)' =>
        \A id \in Segments(q) : Dropped(id, queue', toAudio', fade')
  BY <1>1, <1>4 DEF StopInv, StoppedIsDropped
<1>6. \A q \in Replies : reply'[q].state = reply[q].state
        \/ (reply[q].state = "live" /\ reply'[q].state \in Outcomes)
  BY <1>1, <1>2, <1>3 DEF Outcomes
<1> QED
  BY <1>1, <1>3, <1>5, <1>6, Standing, StepIsObeyed

\* The answer that is stopped is the only one, and if it queued anything no fade
\* was pending: the one it asks for is behind all it queued.
LEMMA InterruptKeeps ==
  ASSUME StopInv, IInv', NEW r \in Replies, Interrupt(r)
  PROVE  StopInv'
<1> DEFINE state == IF HeardBy(r) = {} THEN "abandoned" ELSE "interrupted"
           spoken == HeardBy(r)
<1>1. /\ reply[r].state = "live"
      /\ reply' = [reply EXCEPT ![r].state = state, ![r].heard = spoken]
      /\ InterruptSink(r)
  BY DEF Interrupt, Live
<1>2. state \in {"abandoned", "interrupted"}
  OBVIOUS
<1> HIDE DEF state, spoken
<1>3. /\ DOMAIN reply' = Replies /\ reply'[r].state = state
      /\ \A q \in Replies : DOMAIN reply'[q] = Fields /\ reply'[q].queued = reply[q].queued
      /\ \A q \in Replies : q # r => reply'[q] = reply[q]
  BY <1>1, Settles
<1>4. \A q \in Replies : q # r => (Stopped(q)' => Stopped(q))
  BY <1>3 DEF Stopped
<1>5. \A q \in Replies : ~Live(q)'
  <2> SUFFICES ASSUME NEW q \in Replies, reply'[q].state = "live"
               PROVE  FALSE
    BY DEF Live
  <2>1. q # r /\ reply[q].state = "live"
    BY <1>2, <1>3
  <2>2. q < r \/ r < q
    BY <2>1, ReplyAssumption
  <2> QED
    BY <1>1, <2>1, <2>2 DEF StopInv, OneByOne, Outcomes
<1>6. \A q \in Replies : reply'[q].state = reply[q].state
        \/ (reply[q].state = "live" /\ reply'[q].state \in Outcomes)
  BY <1>1, <1>2, <1>3 DEF Outcomes
<1>7. UNCHANGED <<rendered, queue, fade>>
  BY <1>1 DEF InterruptSink, SinkFadeOut, sinkVars, audioVars
<1>8. \A q \in Replies : Stopped(q)' =>
        \A id \in Segments(q) : Dropped(id, queue', toAudio', fade')
  <2>1. CASE reply[r].queued = <<>>
    <3>1. UNCHANGED toAudio
      BY <1>1, <2>1 DEF InterruptSink, sinkVars
    <3>2. Segments(r) = {}
      BY <2>1 DEF Segments
    <3> QED
      BY <1>4, <1>7, <3>1, <3>2 DEF StopInv, StoppedIsDropped
  <2>2. CASE reply[r].queued # <<>>
    <3>1. ~fadingOut
      BY <1>1, <2>2 DEF StopInv, FadesAreOver, Live
    <3>2. toAudio' = Append(toAudio, Message("fade", 0)) /\ Message("fade", 0).type = "fade"
      BY <1>1, <2>2, <3>1 DEF InterruptSink, SinkFadeOut, Message
    <3> QED
      BY <1>7, <3>2, DroppedByFade, Standing
  <2> QED
    BY <2>1, <2>2
<1> QED
  BY <1>3, <1>5, <1>6, <1>7, <1>8, Standing, StepIsObeyed

\* A segment is queued while no fade is pending, under a number of its own.
LEMMA EnqueueKeeps ==
  ASSUME NextWaitsForFade, StopInv, IInv', NEW r \in Replies, Enqueue(r)
  PROVE  StopInv'
<1> DEFINE more == Append(reply[r].queued, NextId)
           one == reply[r].spoken + 1
           f == [reply EXCEPT ![r].queued = more]
           g == [f EXCEPT ![r].chain = "idle"]
           m == Message("enqueue", NextId)
<1>1. /\ reply[r].state = "live" /\ ~fadingOut
      /\ rendered' = Append(rendered, "none") /\ toAudio' = Append(toAudio, m)
      /\ UNCHANGED <<queue, fade, fadingOut>>
  BY DEF Enqueue, Live, HoldIsOver, SinkEnqueue, audioVars
<1>2. reply' = [g EXCEPT ![r].spoken = one]
  BY Zenon DEF Enqueue
<1>3. DOMAIN reply = Replies /\ DOMAIN reply[r] = Fields
      /\ {"state", "queued", "chain", "spoken"} \subseteq Fields
  BY Standing DEF Fields, NewReply
<1>4. m.type = "enqueue" /\ m.arg = NextId
  BY DEF Message
<1> HIDE DEF more, one, m
<1>5. /\ DOMAIN f = Replies /\ DOMAIN f[r] = Fields
      /\ f[r].state = reply[r].state /\ f[r].queued = more
      /\ \A q \in Replies : q # r => f[q] = reply[q]
  BY <1>3, FieldSet
<1> HIDE DEF f
<1>6. /\ DOMAIN g = Replies /\ DOMAIN g[r] = Fields
      /\ g[r].state = reply[r].state /\ g[r].queued = more
      /\ \A q \in Replies : q # r => g[q] = reply[q]
  BY <1>3, <1>5, FieldSet
<1> HIDE DEF g
<1>7. /\ DOMAIN reply' = Replies /\ DOMAIN reply'[r] = Fields
      /\ reply'[r].state = reply[r].state /\ reply'[r].queued = more
      /\ \A q \in Replies : q # r => reply'[q] = reply[q]
  BY <1>2, <1>3, <1>6, FieldSet
<1>8. /\ IsChannel(rendered') /\ Len(rendered) \in Nat /\ Len(rendered') = Len(rendered) + 1
  <2>1. PICK S : rendered \in Seq(S)
    BY Standing DEF IsChannel
  <2>2. rendered' \in Seq(S \union {"none"}) /\ Len(rendered') = Len(rendered) + 1
    BY <1>1, <2>1
  <2> QED
    BY <2>2, Standing DEF IsChannel
<1>9. /\ IsChannel(more) /\ {more[i] : i \in DOMAIN more} = Segments(r) \union {NextId}
  <2>1. PICK S : reply[r].queued \in Seq(S)
    BY Standing DEF IsChannel
  <2> DEFINE was == reply[r].queued
  <2>2. was \in Seq(S) /\ more = Append(was, NextId) /\ Segments(r) = {was[i] : i \in DOMAIN was}
    BY <2>1 DEF more, Segments
  <2> HIDE DEF was
  <2>3. /\ more \in Seq(S \union {NextId}) /\ Len(was) \in Nat
        /\ DOMAIN was = 1 .. Len(was) /\ DOMAIN more = 1 .. (Len(was) + 1)
        /\ \A i \in 1 .. Len(was) : more[i] = was[i]
        /\ more[Len(was) + 1] = NextId
    BY <2>2
  <2>4. {more[i] : i \in DOMAIN more} = {was[i] : i \in DOMAIN was} \union {NextId}
    BY <2>3
  <2> QED
    BY <2>2, <2>3, <2>4 DEF IsChannel
<1>10. /\ Segments(r)' = Segments(r) \union {NextId}
       /\ \A q \in Replies : q # r => Segments(q)' = Segments(q)
  BY <1>7, <1>9 DEF Segments
<1>11. RepliesOK'
  BY <1>1, <1>7, <1>8, <1>9, <1>10 DEF StopInv, RepliesOK, NextId
<1>12. OneByOne' /\ FadesAreOver'
  BY <1>1, <1>7 DEF StopInv, OneByOne, FadesAreOver
<1>13. StoppedIsDropped'
  <2> SUFFICES ASSUME NEW q \in Replies, Stopped(q)', NEW id \in Segments(q)'
               PROVE  Dropped(id, queue', toAudio', fade')
    BY DEF StoppedIsDropped
  <2>1. q # r /\ Stopped(q)
    BY <1>1, <1>7 DEF Stopped
  <2>2. id \in Segments(q) /\ id # NextId
    BY <1>8, <1>10, <2>1 DEF StopInv, RepliesOK, NextId
  <2>3. Dropped(id, queue, toAudio, fade)
    BY <2>1, <2>2 DEF StopInv, StoppedIsDropped
  <2> QED
    BY <1>1, <1>4, <2>2, <2>3, DroppedPosted, Standing
<1> QED
  BY <1>11, <1>12, <1>13 DEF StopInv

LEMMA GainKeeps ==
  ASSUME StopInv, IInv', NEW target, SinkGain(target), reply' = reply
  PROVE  StopInv'
<1> DEFINE m == Message("gain", target)
<1>1. toAudio' = Append(toAudio, m) /\ UNCHANGED <<rendered, queue, fade, fadingOut>>
  BY DEF SinkGain, mainVars, audioVars
<1>2. m.type # "enqueue"
  BY DEF Message
<1> HIDE DEF m
<1>3. \A id : Dropped(id, queue, toAudio, fade) => Dropped(id, queue', toAudio', fade')
  BY <1>1, <1>2, DroppedPosted, Standing
<1> QED
  BY <1>1, <1>3, Standing, UnchangedGoesOn, SinkIsObeyed

LEMMA MainReceivesKeeps ==
  ASSUME StopInv, IInv', NEW posts, GainOnly(posts), Takes(posts)
  PROVE  StopInv'
<1>1. /\ toAudio' = toAudio \o posts /\ UNCHANGED <<rendered, queue, fade>>
      /\ fadingOut' = (fadingOut /\ Head(toMain).type # "faded")
      /\ RepliesHear(Head(toMain))
  BY DEF Takes, SinkHearsAndPosts, audioVars
<1>2. \A id : Dropped(id, queue, toAudio, fade) => Dropped(id, queue', toAudio', fade')
  <2>1. ASSUME NEW order, order.type = "gain", toAudio' = Append(toAudio, order)
        PROVE  \A id : Dropped(id, queue, toAudio, fade) => Dropped(id, queue', toAudio', fade')
    BY <1>1, <2>1, DroppedPosted, Standing
  <2> QED
    BY <1>1, <2>1, GainPosted, Standing
<1>3. GoOn
  BY <1>1, HearingGoesOn
<1>4. fadingOut' => fadingOut
  BY <1>1
<1> QED
  BY <1>1, <1>2, <1>3, <1>4, Standing, SinkIsObeyed

LEMMA AudioReceivesKeeps ==
  ASSUME StopInv, IInv', AudioReceives, reply' = reply
  PROVE  StopInv'
<1> DEFINE m == Head(toAudio)
<1>1. toAudio # <<>> /\ toAudio' = Tail(toAudio) /\ UNCHANGED <<rendered, fadingOut>>
  BY DEF AudioReceives, mainVars
<1>2. m.type \in Orders
  BY <1>1, OrderTaken, Standing
<1>3. \A id : Dropped(id, queue, toAudio, fade) => Dropped(id, queue', toAudio', fade')
  <2>1. CASE m.type = "enqueue"
    <3>1. queue' = Append(queue, m.arg) /\ UNCHANGED fade
      BY <2>1 DEF AudioReceives
    <3> QED
      BY <1>1, <2>1, <3>1, DroppedTaken, Standing
  <2>2. CASE m.type = "gain"
    <3>1. UNCHANGED <<queue, fade>>
      BY <2>2 DEF AudioReceives
    <3> QED
      BY <1>1, <2>2, <3>1, DroppedTaken, Standing
  <2>3. CASE m.type = "fade"
    <3>1. fade' = FadeRequested /\ UNCHANGED queue
      BY <2>3 DEF AudioReceives
    <3>2. fade' # "none"
      BY <3>1 DEF FadeRequested
    <3> QED
      BY <1>1, <2>3, <3>1, <3>2, DroppedTaken, Standing
  <2> QED
    BY <1>2, <2>1, <2>2, <2>3 DEF Orders
<1> QED
  BY <1>1, <1>3, Standing, UnchangedGoesOn, SinkIsObeyed

\* What is heard of a segment changes, and not how many there are.
LEMMA RenderedSet ==
  ASSUME NEW c, IsChannel(c), NEW i, NEW x
  PROVE  IsChannel([c EXCEPT ![i] = x]) /\ Len([c EXCEPT ![i] = x]) = Len(c)
<1>1. PICK S : c \in Seq(S)
  BY DEF IsChannel
<1> DEFINE T == S \union {x}
<1>2. c \in Seq(T) /\ x \in T
  BY <1>1
<1> HIDE DEF T
<1>3. [c EXCEPT ![i] = x] \in Seq(T) /\ Len([c EXCEPT ![i] = x]) = Len(c)
  <2>1. CASE i \in 1 .. Len(c)
    BY <1>2, <2>1, ExceptSeq
  <2>2. CASE i \notin 1 .. Len(c)
    <3>1. [c EXCEPT ![i] = x] = c
      BY <1>2, <2>2
    <3> QED
      BY <1>2, <3>1
  <2> QED
    BY <2>1, <2>2
<1> QED
  BY <1>3 DEF IsChannel

LEMMA RenderKeeps ==
  ASSUME StopInv, IInv', RenderStarts \/ RenderEnds, reply' = reply
  PROVE  StopInv'
<1>1. UNCHANGED <<toAudio, fade, fadingOut>>
  BY DEF RenderStarts, RenderEnds
<1>2. IsChannel(rendered') /\ Len(rendered') = Len(rendered)
  <2> DEFINE whole == [rendered EXCEPT ![Head(queue)] = "whole"]
             next == queue[2]
             begun == [rendered EXCEPT ![Head(queue)] = "partly"]
             both == [whole EXCEPT ![next] = "partly"]
  <2>1. IsChannel(whole) /\ Len(whole) = Len(rendered)
    BY Standing, RenderedSet
  <2>2. IsChannel(begun) /\ Len(begun) = Len(rendered)
    BY Standing, RenderedSet
  <2>3. rendered' \in {begun, whole, both}
    BY Zenon DEF RenderStarts, RenderEnds
  <2> HIDE DEF whole, next, begun
  <2>4. IsChannel(both) /\ Len(both) = Len(rendered)
    BY <2>1, RenderedSet
  <2> HIDE DEF both
  <2> QED
    BY <2>1, <2>2, <2>3, <2>4
<1>3. queue' = queue \/ (queue # <<>> /\ queue' = Tail(queue))
  BY DEF RenderStarts, RenderEnds
<1>4. \A id : Dropped(id, queue, toAudio, fade) => Dropped(id, queue', toAudio', fade')
  BY <1>1, <1>3, DroppedShorter, Standing
<1> QED
  BY <1>1, <1>2, <1>4, Standing, UnchangedGoesOn, SinkIsObeyed

LEMMA FadeCompletesKeeps ==
  ASSUME StopInv, IInv', FadeCompletes, reply' = reply
  PROVE  StopInv'
<1>1. /\ queue' = <<>> /\ fade' = "none"
      /\ UNCHANGED <<rendered, toAudio, fadingOut>>
  BY DEF FadeCompletes, mainVars
<1>2. \A id : Dropped(id, queue, toAudio, fade) => Dropped(id, queue', toAudio', fade')
  BY <1>1, DroppedShorter, Standing
<1> QED
  BY <1>1, <1>2, Standing, UnchangedGoesOn, SinkIsObeyed

LEMMA NextIsObeyed ==
  ASSUME NextWaitsForFade, StopInv, [Next]_vars
  PROVE  StopInv'
<1>1. IInv'
  BY NextKeeps DEF StopInv
<1>2. ASSUME NEW r \in Replies,
             \/ Chunk(r) \/ Synthesise(r) \/ SynthesisFails(r)
             \/ \E failing \in BOOLEAN : StreamEnds(r, failing)
             \/ \E hasAudio \in BOOLEAN : Synthesised(r, hasAudio)
      PROVE  StopInv'
  <2>1. UNCHANGED sinkVars
    BY <1>2 DEF Chunk, Synthesise, SynthesisFails, StreamEnds, Synthesised
  <2> QED
    BY <1>1, <1>2, <2>1, ProvidersGoOn, SinkAtRest
<1>3. ASSUME NEW r \in Replies, Release(r)
      PROVE  StopInv'
  <2>1. UNCHANGED <<reply, sinkVars>>
    BY <1>3 DEF Release
  <2> QED
    BY <1>1, <2>1, UnchangedGoesOn, SinkAtRest
<1>4. ASSUME NEW r \in Replies, Begin(r) \/ Finish(r) \/ Interrupt(r) \/ Enqueue(r)
      PROVE  StopInv'
  BY <1>1, <1>4, BeginKeeps, FinishKeeps, InterruptKeeps, EnqueueKeeps
<1>5. ASSUME NEW r \in Replies, Duck(r)
      PROVE  StopInv'
  BY <1>1, <1>5, GainKeeps DEF Duck
<1>6. CASE Unduck
  BY <1>1, <1>6, GainKeeps DEF Unduck
<1>7. CASE Audio(AudioReceives) \/ Audio(RenderStarts) \/ Audio(RenderEnds) \/ Audio(FadeCompletes)
  BY <1>1, <1>7, AudioReceivesKeeps, RenderKeeps, FadeCompletesKeeps DEF Audio
<1>8. CASE UNCHANGED vars
  <2>1. UNCHANGED <<reply, sinkVars>>
    BY <1>8 DEF vars, sinkVars
  <2> QED
    BY <1>1, <2>1, UnchangedGoesOn, SinkAtRest
<1> QED
  BY <1>1, <1>2, <1>3, <1>4, <1>5, <1>6, <1>7, <1>8, MainTakes, MainReceivesKeeps
     DEF Next, Progress

LEMMA InitIsObeyed ==
  ASSUME Init
  PROVE  StopInv
<1>1. /\ rendered = <<>> /\ toAudio = <<>> /\ queue = <<>> /\ fade = "none" /\ fadingOut = FALSE
      /\ reply = [r \in Replies |-> NewReply]
  BY DEF Init, SinkInit
<1>2. NewReply.state = "none" /\ NewReply.queued = <<>>
  BY DEF NewReply
<1>3. <<>> \in Seq({}) /\ DOMAIN <<>> = {}
  OBVIOUS
<1>4. RepliesOK
  <2>1. \A r \in Replies : Segments(r) = {}
    BY <1>1, <1>2, <1>3 DEF Segments
  <2>2. DOMAIN reply = Replies
    BY <1>1
  <2>3. \A r \in Replies : reply[r] = NewReply
    BY <1>1
  <2>4. IsChannel(<<>>)
    BY <1>3 DEF IsChannel
  <2> QED
    BY <1>1, <1>2, <2>1, <2>2, <2>3, <2>4 DEF RepliesOK, Fields
<1>5. \A r \in Replies : reply[r].state = "none"
  BY <1>1, <1>2
<1>6. OneByOne /\ FadesAreOver /\ StoppedIsDropped
  BY <1>1, <1>5 DEF OneByOne, FadesAreOver, StoppedIsDropped, Stopped
<1> QED
  BY <1>4, <1>6, InitOK DEF StopInv

LEMMA StopIsObeyed ==
  ASSUME StopInv
  PROVE  InterruptIsObeyed
<1> SUFFICES ASSUME NEW r \in Replies,
                  reply[r].state \in {"interrupted", "abandoned"},
                  NEW id \in Pending(r)
             PROVE  fade # "none" \/ CountOf(toAudio, "fade") > 0
  BY DEF InterruptIsObeyed
<1>1. id \in Segments(r) /\ Dropped(id, queue, toAudio, fade)
  BY DEF Pending, StopInv, StoppedIsDropped, Stopped
<1>2. fade # "none" \/ \E j \in DOMAIN toAudio : toAudio[j].type = "fade"
  BY <1>1 DEF Pending, Dropped, FadeAfter
<1>3. (\E j \in DOMAIN toAudio : toAudio[j].type = "fade") => CountOf(toAudio, "fade") > 0
  <2>1. /\ IsFiniteSet(Places(toAudio, "fade")) /\ CountOf(toAudio, "fade") \in Nat
        /\ CountOf(toAudio, "fade") = Cardinality(Places(toAudio, "fade"))
    BY CountIsNat, Standing
  <2>2. CountOf(toAudio, "fade") = 0 => Places(toAudio, "fade") = {}
    BY <2>1, FS_EmptySet
  <2> QED
    BY <2>1, <2>2 DEF Places
<1> QED
  BY <1>2, <1>3

\* As long as an answer waits for the fade before it, what an answer that was
\* stopped left in the queue or on its way there is never heard again, for any
\* number of answers and sentences (reply.ts, interrupt; renderer.ts, fade).
THEOREM InterruptAlwaysObeyed ==
  ASSUME NextWaitsForFade
  PROVE  Spec => []InterruptIsObeyed
<1>1. Init => StopInv
  BY InitIsObeyed
<1>2. StopInv /\ [Next]_vars => StopInv'
  BY NextIsObeyed
<1>3. StopInv => InterruptIsObeyed
  BY StopIsObeyed
<1> QED
  BY <1>1, <1>2, <1>3, PTL DEF Spec

-----------------------------------------------------------------------------
(* What the owner of an answer may believe of it.                            *)

\* Channel c names only ids of K in its messages of this type.
Names(c, type, K) == \A i \in DOMAIN c : c[i].type = type => c[i].arg \in K

Known == 1 .. Len(rendered)

\* Whatever is on its way, queued or believed to play was once enqueued.
SinkOK ==
  /\ playing \subseteq Known
  /\ \A i \in DOMAIN queue : queue[i] \in Known
  /\ Names(toAudio, "enqueue", Known)
  /\ Names(toMain, "started", Known)

\* An answer has queued only what it may, knows as started only what it queued,
\* and knows of all that plays.
HearsItself ==
  \A r \in Replies :
    /\ reply[r].started \subseteq Segments(r)
    /\ reply[r].queued # <<>> => r \in released
    /\ Live(r) => playing \cap Segments(r) \subseteq reply[r].started

RInv == IInv /\ RepliesOK /\ OneByOne /\ SinkOK /\ HearsItself

-----------------------------------------------------------------------------
(* Numbers and channels.                                                     *)

LEMMA LeastNat ==
  ASSUME NEW S, S \subseteq Nat, S # {}
  PROVE  \E m \in S : \A k \in S : m <= k
<1>1. PICK m \in S : \A k \in S : <<k, m>> \notin OpToRel(<, Nat)
  BY WFMin, NatLessThanWellFounded, Zenon
<1>2. \A k \in S : ~ (k < m)
  BY <1>1, Zenon DEF OpToRel
<1> QED
  BY <1>2

\* A bounded set has a greatest member.
LEMMA GreatestNat ==
  ASSUME NEW n \in Nat, NEW S, S \subseteq 1 .. n, S # {}
  PROVE  \E m \in S : \A k \in S : k <= m
<1> DEFINE U == {u \in Nat : \A k \in S : k <= u}
<1>1. n \in U
  OBVIOUS
<1>2. PICK m \in U : \A u \in U : m <= u
  BY <1>1, LeastNat
<1>3. CASE m \in S
  BY <1>2, <1>3
<1>4. CASE m \notin S
  <2>1. PICK k \in S : TRUE
    OBVIOUS
  <2>2. m - 1 \in U
    BY <1>2, <1>4, <2>1
  <2> QED
    BY <1>2, <2>2
<1> QED
  BY <1>3, <1>4

\* position() is a segment that plays, if any does.
LEMMA PositionPlays ==
  ASSUME IsChannel(rendered), playing \subseteq Known
  PROVE  playing # {} => Position \in playing
<1>1. PICK S : rendered \in Seq(S)
  BY DEF IsChannel
<1>2. Len(rendered) \in Nat
  BY <1>1
<1>3. playing # {} => \E id \in playing : \A p \in playing : p <= id
  BY <1>2, GreatestNat DEF Known
<1> QED
  BY <1>3 DEF Position

LEMMA NamesPosted ==
  ASSUME NEW c, IsChannel(c), NEW m, NEW type, NEW K, Names(c, type, K),
         m.type = type => m.arg \in K
  PROVE  Names(Append(c, m), type, K)
<1>1. PICK S : c \in Seq(S)
  BY DEF IsChannel
<1>2. /\ Len(c) \in Nat /\ DOMAIN c = 1 .. Len(c)
      /\ DOMAIN Append(c, m) = 1 .. (Len(c) + 1)
      /\ \A i \in 1 .. Len(c) : Append(c, m)[i] = c[i]
      /\ Append(c, m)[Len(c) + 1] = m
  BY <1>1
<1> QED
  BY <1>2 DEF Names

LEMMA NamesTaken ==
  ASSUME NEW c, IsChannel(c), c # <<>>, NEW type, NEW K, Names(c, type, K)
  PROVE  /\ Names(Tail(c), type, K)
         /\ Head(c).type = type => Head(c).arg \in K
<1>1. PICK S : c \in Seq(S)
  BY DEF IsChannel
<1>2. /\ Len(c) \in Nat /\ Len(c) > 0 /\ DOMAIN c = 1 .. Len(c)
      /\ DOMAIN Tail(c) = 1 .. (Len(c) - 1) /\ Head(c) = c[1]
      /\ \A i \in 1 .. (Len(c) - 1) : Tail(c)[i] = c[i + 1]
  BY <1>1
<1>3. \A i \in 1 .. (Len(c) - 1) : i + 1 \in 1 .. Len(c)
  BY <1>2
<1>4. 1 \in DOMAIN c
  BY <1>2
<1> QED
  BY <1>2, <1>3, <1>4 DEF Names

LEMMA NamesBoth ==
  ASSUME NEW a, NEW b, IsChannel(a), IsChannel(b), NEW type, NEW K,
         Names(a, type, K), Names(b, type, K)
  PROVE  Names(a \o b, type, K)
<1>1. PICK S : a \in Seq(S)
  BY DEF IsChannel
<1>2. PICK T : b \in Seq(T)
  BY DEF IsChannel
<1>3. /\ Len(a) \in Nat /\ Len(b) \in Nat
      /\ DOMAIN a = 1 .. Len(a) /\ DOMAIN b = 1 .. Len(b)
      /\ DOMAIN (a \o b) = 1 .. (Len(a) + Len(b))
      /\ \A i \in 1 .. (Len(a) + Len(b)) :
           (a \o b)[i] = IF i <= Len(a) THEN a[i] ELSE b[i - Len(a)]
  BY <1>1, <1>2
<1>4. \A i \in 1 .. (Len(a) + Len(b)) :
        IF i <= Len(a) THEN i \in DOMAIN a ELSE i - Len(a) \in DOMAIN b
  BY <1>3
<1> QED
  BY <1>3, <1>4 DEF Names

LEMMA NamesOne ==
  ASSUME NEW m, NEW type, NEW K, m.type = type => m.arg \in K
  PROVE  Names(<<m>>, type, K)
BY DEF Names

\* What the audio thread reports.
Events == {"started", "ended", "faded"}

EventsOnly(c) == \A i \in DOMAIN c : c[i].type \in Events

LEMMA EventsName ==
  ASSUME NEW c
  PROVE  EventsOnly(c) <=> \A type : type \notin Events => Names(c, type, {})
BY DEF EventsOnly, Names

LEMMA EventsPosted ==
  ASSUME NEW c, IsChannel(c), EventsOnly(c), NEW m, m.type \in Events
  PROVE  EventsOnly(Append(c, m))
BY EventsName, NamesPosted

LEMMA EventsTaken ==
  ASSUME NEW c, IsChannel(c), EventsOnly(c), c # <<>>
  PROVE  EventsOnly(Tail(c)) /\ Head(c).type \in Events
<1>1. \A type : type \notin Events => Names(Tail(c), type, {}) /\ Head(c).type # type
  BY EventsName, NamesTaken
<1> QED
  BY <1>1, EventsName

LEMMA EventsBoth ==
  ASSUME NEW a, NEW b, IsChannel(a), IsChannel(b), EventsOnly(a), EventsOnly(b)
  PROVE  EventsOnly(a \o b)
BY EventsName, NamesBoth

-----------------------------------------------------------------------------
(* What the owner is told.                                                   *)

StandingOf(r) ==
  IF ~Live(r) THEN reply[r].state
  ELSE IF reply[r].started # {} THEN "audible" ELSE "working"

Told == [r \in Replies |-> StandingOf(r)]

\* What of a reply is said to its owner, or decides what is.
Outward == {"state", "queued", "started", "ended", "heard"}

\* Replies of which nothing changes that their owner is told.
SaysNoMore ==
  /\ DOMAIN reply' = Replies
  /\ \A r \in Replies :
       /\ DOMAIN reply'[r] = Fields
       /\ \A a \in Outward : reply'[r][a] = reply[r][a]

LEMMA NothingTold ==
  ASSUME SaysNoMore
  PROVE  Told' = Told
<1>1. \A r \in Replies : StandingOf(r)' = StandingOf(r)
  BY DEF SaysNoMore, Outward, StandingOf, Live
<1> QED
  BY <1>1 DEF Told

LEMMA Holding ==
  ASSUME RInv
  PROVE  /\ IInv /\ DOMAIN reply = Replies
         /\ \A r \in Replies : DOMAIN reply[r] = Fields /\ IsChannel(reply[r].queued)
         /\ IsChannel(rendered) /\ Len(rendered) \in Nat
         /\ IsChannel(toAudio) /\ IsChannel(toMain) /\ IsChannel(queue) /\ OrdersOnly(toAudio)
         /\ Outward \subseteq Fields
<1>1. IsChannel(rendered)
  BY DEF RInv, RepliesOK
<1>2. PICK S : rendered \in Seq(S)
  BY <1>1 DEF IsChannel
<1>3. Len(rendered) \in Nat
  BY <1>2
<1>4. Outward \subseteq Fields
  BY DEF Fields, NewReply, Outward
<1> QED
  BY <1>1, <1>3, <1>4 DEF RInv, RepliesOK, IInv

\* An answer is heard of if, and only if, it is known to have started: what the
\* spoken prefix is empty by (heardAt) agrees with what `audible` was said by.
LEMMA HeardIsStarted ==
  ASSUME RInv, NEW r \in Replies, Live(r)
  PROVE  HeardBy(r) = {} <=> reply[r].started = {}
<1>1. /\ reply[r].started \subseteq Segments(r)
      /\ playing \cap Segments(r) \subseteq reply[r].started
      /\ playing \subseteq Known /\ Segments(r) \subseteq Known
  BY DEF RInv, HearsItself, SinkOK, RepliesOK, Known
<1>2. 0 \notin Known /\ \A l \in Known : l <= l
  BY Holding DEF Known
<1>3. CASE Position \in Segments(r)
  <2>1. Position # 0
    BY <1>1, <1>2, <1>3
  <2>2. Position \in playing
    BY <1>1, <2>1, Holding, PositionPlays DEF Position
  <2>3. HeardBy(r) = {id \in Segments(r) : \E l \in {Position} : id <= l}
    BY <1>3 DEF HeardBy
  <2>4. Position \in HeardBy(r)
    BY <1>1, <1>2, <1>3, <2>3
  <2> QED
    BY <1>1, <1>3, <2>2, <2>4
<1>4. CASE Position \notin Segments(r)
  <2>1. HeardBy(r) = {id \in Segments(r) : \E l \in reply[r].started : id <= l}
    BY <1>4 DEF HeardBy
  <2>2. \A l \in reply[r].started : l \in Segments(r) /\ l <= l
    BY <1>1, <1>2
  <2> QED
    BY <2>1, <2>2
<1> QED
  BY <1>3, <1>4

-----------------------------------------------------------------------------
(* The invariant.                                                            *)

\* Nothing is queued; replies begin, settle, or hear of what is theirs.
LEMMA StepHolds ==
  ASSUME RInv, IInv', SinkOK', IsChannel(rendered'), Len(rendered') = Len(rendered),
         released \subseteq released',
         DOMAIN reply' = Replies,
         \A r \in Replies :
           /\ DOMAIN reply'[r] = Fields
           /\ reply'[r].queued = reply[r].queued
           /\ reply'[r].started \subseteq Segments(r)
           /\ Live(r)' => playing' \cap Segments(r) \subseteq reply'[r].started,
         \A r \in Replies :
           \/ reply'[r].state = reply[r].state
           \/ /\ reply[r].state = "none" /\ reply'[r].state = "live"
              /\ \A q \in Replies : q < r => reply[q].state \in Outcomes
           \/ reply[r].state = "live" /\ reply'[r].state \in Outcomes
  PROVE  RInv'
<1>1. \A r \in Replies : Segments(r)' = Segments(r)
  BY DEF Segments
<1>2. RepliesOK'
  BY <1>1 DEF RInv, RepliesOK, Outcomes
<1>3. OneByOne'
  BY DEF RInv, OneByOne, Outcomes
<1>4. HearsItself'
  BY <1>1 DEF RInv, HearsItself
<1> QED
  BY <1>2, <1>3, <1>4 DEF RInv

\* The sink's steps, and a reply's that leave what it says alone.
LEMMA QuietHolds ==
  ASSUME RInv, IInv', SinkOK', IsChannel(rendered'), Len(rendered') = Len(rendered),
         released \subseteq released', SaysNoMore, playing' \subseteq playing
  PROVE  RInv'
<1>1. \A r \in Replies : Live(r)' => Live(r)
  BY DEF SaysNoMore, Outward, Live
<1> QED
  BY <1>1, StepHolds DEF SaysNoMore, Outward, RInv, HearsItself

LEMMA SinkUnchanged ==
  ASSUME RInv, UNCHANGED sinkVars
  PROVE  SinkOK' /\ IsChannel(rendered') /\ Len(rendered') = Len(rendered) /\ playing' = playing
BY Holding DEF sinkVars, RInv, SinkOK, Names, Known

\* An order is posted that names no segment.
LEMMA SinkOrdered ==
  ASSUME RInv, NEW m, m.type # "enqueue", toAudio' = Append(toAudio, m),
         UNCHANGED <<rendered, playing, toMain, queue>>
  PROVE  SinkOK' /\ IsChannel(rendered') /\ Len(rendered') = Len(rendered) /\ playing' = playing
<1>1. Names(toAudio', "enqueue", Known)
  BY Holding, NamesPosted DEF RInv, SinkOK
<1> QED
  BY <1>1, Holding DEF RInv, SinkOK, Known, Names

LEMMA SameReply ==
  ASSUME RInv, reply' = reply
  PROVE  SaysNoMore
BY Holding DEF SaysNoMore

-----------------------------------------------------------------------------
(* The steps of a reply.                                                     *)

\* Changing fields of one reply that are none of its state, what it queued and
\* what it knows as started.
LEMMA OneFieldSaysNoMore ==
  ASSUME RInv, NEW r \in Replies, NEW a \in Fields \ Outward, NEW x,
         reply' = [reply EXCEPT ![r][a] = x]
  PROVE  SaysNoMore
BY FieldSet, Holding DEF SaysNoMore

LEMMA TwoFieldsSayNoMore ==
  ASSUME RInv, NEW r \in Replies, NEW a \in Fields \ Outward, NEW x,
         NEW b \in Fields \ Outward, NEW y,
         reply' = [[reply EXCEPT ![r][a] = x] EXCEPT ![r][b] = y]
  PROVE  SaysNoMore
<1> DEFINE f == [reply EXCEPT ![r][a] = x]
<1>1. /\ DOMAIN f = Replies /\ DOMAIN f[r] = Fields
      /\ \A c \in Outward : f[r][c] = reply[r][c]
      /\ \A q \in Replies : q # r => f[q] = reply[q]
  BY FieldSet, Holding
<1> HIDE DEF f
<1> QED
  BY <1>1, FieldSet, Holding DEF SaysNoMore

\* The stream and the voice.
LEMMA ProvidersSayNoMore ==
  ASSUME RInv, NEW r \in Replies,
         \/ Chunk(r) \/ Synthesise(r) \/ SynthesisFails(r)
         \/ \E failing \in BOOLEAN : StreamEnds(r, failing)
         \/ \E hasAudio \in BOOLEAN : Synthesised(r, hasAudio)
  PROVE  SaysNoMore
<1> DEFINE one == reply[r].spoken + 1
           more == reply[r].chunks + 1
<1>1. {"streaming", "failure", "chain", "spoken", "chunks"}
        \subseteq Fields \ Outward
  BY DEF Fields, NewReply, Outward
<1>2. CASE Chunk(r)
  <2>1. reply' = [reply EXCEPT ![r].chunks = more]
    BY <1>2, Zenon DEF Chunk
  <2> HIDE DEF more
  <2> QED
    BY <1>1, <2>1, OneFieldSaysNoMore
<1>3. CASE Synthesise(r)
  <2>1. \/ reply' = [reply EXCEPT ![r].spoken = one]
        \/ reply' = [reply EXCEPT ![r].chain = "synthesising"]
    BY <1>3, Zenon DEF Synthesise
  <2> HIDE DEF one
  <2> QED
    BY <1>1, <2>1, OneFieldSaysNoMore
<1>4. CASE SynthesisFails(r)
  <2> DEFINE e == [reply EXCEPT ![r].chain = "idle"]
             f == [e EXCEPT ![r].spoken = one]
  <2>1. reply' = [f EXCEPT ![r].failure = TRUE]
    BY <1>4, Zenon DEF SynthesisFails
  <2> HIDE DEF one
  <2>3. /\ DOMAIN e = Replies /\ DOMAIN e[r] = Fields
        /\ \A c \in Outward : e[r][c] = reply[r][c]
        /\ \A q \in Replies : q # r => e[q] = reply[q]
    BY <1>1, FieldSet, Holding
  <2> HIDE DEF e
  <2>2. /\ DOMAIN f = Replies /\ DOMAIN f[r] = Fields
        /\ \A c \in Outward : f[r][c] = reply[r][c]
        /\ \A q \in Replies : q # r => f[q] = reply[q]
    BY <1>1, <2>3, FieldSet, Holding
  <2> HIDE DEF f
  <2> QED
    BY <1>1, <2>1, <2>2, FieldSet, Holding DEF SaysNoMore
<1>5. ASSUME NEW failing \in BOOLEAN, StreamEnds(r, failing)
      PROVE  SaysNoMore
  <2> DEFINE y == reply[r].failure \/ failing \/ reply[r].chunks = 0
  <2>1. reply' = [[reply EXCEPT ![r].streaming = FALSE] EXCEPT ![r].failure = y]
    BY <1>5, Zenon DEF StreamEnds
  <2> HIDE DEF y
  <2> QED
    BY <1>1, <2>1, TwoFieldsSayNoMore
<1>6. ASSUME NEW hasAudio \in BOOLEAN, Synthesised(r, hasAudio)
      PROVE  SaysNoMore
  <2>1. \/ reply' = [reply EXCEPT ![r].chain = "holding"]
        \/ reply' = [[reply EXCEPT ![r].chain = "idle"] EXCEPT ![r].spoken = one]
    BY <1>6, Zenon DEF Synthesised
  <2> HIDE DEF one
  <2> QED
    BY <1>1, <2>1, OneFieldSaysNoMore, TwoFieldsSayNoMore
<1> QED
  BY <1>2, <1>3, <1>4, <1>5, <1>6

\* The refinement, a step at a time: a stutter, or a step of SpokenReply.
Spokes == Spoken!Next \/ UNCHANGED <<Told, released>>

\* One reply's state changes.
LEMMA StateSet ==
  ASSUME RInv, NEW r \in Replies, NEW state, reply' = [reply EXCEPT ![r].state = state]
  PROVE  /\ DOMAIN reply' = Replies
         /\ \A q \in Replies :
              /\ DOMAIN reply'[q] = Fields
              /\ \A a \in Outward \ {"state"} : reply'[q][a] = reply[q][a]
         /\ reply'[r].state = state
         /\ \A q \in Replies : q # r => reply'[q].state = reply[q].state
BY FieldSet, Holding DEF Outward

LEMMA SettledSet ==
  ASSUME RInv, NEW r \in Replies, NEW state, NEW heard,
         reply' = [reply EXCEPT ![r].state = state, ![r].heard = heard]
  PROVE  /\ DOMAIN reply' = Replies
         /\ \A q \in Replies :
              /\ DOMAIN reply'[q] = Fields
              /\ \A a \in Outward \ {"state", "heard"} : reply'[q][a] = reply[q][a]
         /\ reply'[r].state = state /\ reply'[r].heard = heard
         /\ \A q \in Replies : q # r => reply'[q] = reply[q]
<1> DEFINE f == [reply EXCEPT ![r].state = state]
<1>1. reply' = [f EXCEPT ![r].heard = heard]
  BY Zenon
<1>2. "heard" \in Fields
  BY DEF Fields, NewReply
<1>3. /\ DOMAIN f = Replies /\ DOMAIN f[r] = Fields
      /\ f[r].state = state
      /\ \A c \in Outward \ {"state"} : f[r][c] = reply[r][c]
      /\ \A q \in Replies : q # r => f[q] = reply[q]
  BY FieldSet, Holding DEF Outward
<1> HIDE DEF f
<1>4. /\ DOMAIN reply' = Replies /\ DOMAIN reply'[r] = Fields
      /\ reply'[r].heard = heard
      /\ \A c \in Fields \ {"heard"} : reply'[r][c] = f[r][c]
      /\ \A q \in Replies : q # r => reply'[q] = reply[q]
  <2>1. r \in DOMAIN f /\ "heard" \in DOMAIN f[r]
    BY <1>2, <1>3
  <2> DEFINE g == [f EXCEPT ![r].heard = heard]
  <2>2. /\ DOMAIN g = DOMAIN f /\ DOMAIN g[r] = DOMAIN f[r]
        /\ g[r].heard = heard
        /\ \A c \in DOMAIN f[r] \ {"heard"} : g[r][c] = f[r][c]
        /\ \A q \in DOMAIN f : q # r => g[q] = f[q]
    BY <2>1, FieldSet
  <2> HIDE DEF g
  <2>3. reply' = g
    BY <1>1 DEF g
  <2> QED
    BY <1>3, <2>2, <2>3
<1>5. reply'[r].state = state
      /\ \A c \in Outward \ {"state", "heard"} : reply'[r][c] = reply[r][c]
  BY <1>3, <1>4, Holding DEF Outward
<1> QED
  BY <1>4, <1>5, Holding

\* Where what is told of one reply changes.
LEMMA ToldOfOne ==
  ASSUME NEW r \in Replies, \A q \in Replies : q # r => StandingOf(q)' = StandingOf(q)
  PROVE  Told' = [Told EXCEPT ![r] = StandingOf(r)']
BY DEF Told

LEMMA BeginRefines ==
  ASSUME RInv, IInv', NEW r \in Replies, Begin(r)
  PROVE  RInv' /\ Spokes
<1>1. /\ reply[r].state = "none" /\ reply' = [reply EXCEPT ![r].state = "live"]
      /\ \A q \in Replies : q < r => reply[q].state \in Outcomes
      /\ UNCHANGED <<released, sinkVars>>
  BY DEF Begin
<1>2. reply[r].queued = <<>> /\ Segments(r) = {} /\ reply[r].started = {}
  <2>1. reply[r].queued = <<>> /\ DOMAIN <<>> = {}
    BY <1>1 DEF RInv, RepliesOK
  <2>2. Segments(r) = {}
    BY <2>1 DEF Segments
  <2> QED
    BY <2>1, <2>2 DEF RInv, HearsItself
<1>3. /\ DOMAIN reply' = Replies
      /\ \A q \in Replies :
           /\ DOMAIN reply'[q] = Fields
           /\ reply'[q].queued = reply[q].queued /\ reply'[q].started = reply[q].started
      /\ reply'[r].state = "live"
      /\ \A q \in Replies : q # r => reply'[q].state = reply[q].state
  BY <1>1, StateSet DEF Outward
<1>4. RInv'
  BY <1>1, <1>2, <1>3, SinkUnchanged, StepHolds DEF RInv, HearsItself, Live
<1>5. StandingOf(r) = "none" /\ StandingOf(r)' = "working"
  BY <1>1, <1>2, <1>3 DEF StandingOf, Live
<1>6. Told' = [Told EXCEPT ![r] = "working"]
  BY <1>3, <1>5, ToldOfOne DEF StandingOf, Live
<1>7. Spoken!Begin(r)
  BY <1>1, <1>5, <1>6 DEF Spoken!Begin, Told, StandingOf
<1> QED
  BY <1>4, <1>7 DEF Spokes, Spoken!Next

\* However an answer ends, its owner is told so once.
LEMMA SettlingRefines ==
  ASSUME RInv, IInv', NEW r \in Replies, Live(r), NEW state \in Outcomes, NEW heard,
         reply' = [reply EXCEPT ![r].state = state, ![r].heard = heard],
         SinkOK', IsChannel(rendered'), Len(rendered') = Len(rendered),
         playing' = playing, released' = released
  PROVE  /\ RInv'
         /\ Told' = [Told EXCEPT ![r] = state]
         /\ Told[r] = IF reply[r].started # {} THEN "audible" ELSE "working"
<1>1. /\ DOMAIN reply' = Replies
      /\ \A q \in Replies :
           /\ DOMAIN reply'[q] = Fields
           /\ reply'[q].queued = reply[q].queued /\ reply'[q].started = reply[q].started
      /\ reply'[r].state = state
      /\ \A q \in Replies : q # r => reply'[q].state = reply[q].state
  <2>1. /\ DOMAIN reply' = Replies
        /\ \A q \in Replies :
             /\ DOMAIN reply'[q] = Fields
             /\ \A a \in Outward \ {"state", "heard"} : reply'[q][a] = reply[q][a]
        /\ reply'[r].state = state
        /\ \A q \in Replies : q # r => reply'[q] = reply[q]
    BY SettledSet
  <2>2. "queued" \in Outward \ {"state", "heard"} /\ "started" \in Outward \ {"state", "heard"}
    BY DEF Outward
  <2> QED
    BY <2>1, <2>2
<1>2. RInv'
  BY <1>1, StepHolds DEF RInv, HearsItself, Live
<1>3. StandingOf(r)' = state
  BY <1>1 DEF StandingOf, Live, Outcomes
<1>4. Told' = [Told EXCEPT ![r] = state]
  BY <1>1, <1>3, ToldOfOne DEF StandingOf, Live
<1> QED
  BY <1>2, <1>4 DEF Told, StandingOf

LEMMA FinishRefines ==
  ASSUME RInv, IInv', NEW r \in Replies, Finish(r)
  PROVE  RInv' /\ Spokes
<1> DEFINE state == IF reply[r].failure THEN "failed" ELSE "complete"
           heard == IF reply[r].failure THEN HeardBy(r) ELSE Segments(r)
<1>1. /\ Live(r) /\ reply' = [reply EXCEPT ![r].state = state, ![r].heard = heard]
      /\ UNCHANGED <<released, sinkVars>>
  BY DEF Finish, RanOut
<1>2. state \in {"failed", "complete"} /\ state \in Outcomes
  BY DEF Outcomes
<1> HIDE DEF state, heard
<1>3. /\ RInv' /\ Told' = [Told EXCEPT ![r] = state]
      /\ Told[r] = IF reply[r].started # {} THEN "audible" ELSE "working"
  BY <1>1, <1>2, SinkUnchanged, SettlingRefines
<1>4. Spoken!Settle(r, "failed") \/ Spoken!Settle(r, "complete")
  BY <1>1, <1>2, <1>3 DEF Spoken!Settle, Spoken!Live, Told, StandingOf
<1>5. {"failed", "complete"} \subseteq Spoken!Outcomes
  BY DEF Spoken!Outcomes
<1> QED
  BY <1>3, <1>4, <1>5 DEF Spokes, Spoken!Next

LEMMA InterruptRefines ==
  ASSUME RInv, IInv', NEW r \in Replies, Interrupt(r)
  PROVE  RInv' /\ Spokes
<1> DEFINE state == IF HeardBy(r) = {} THEN "abandoned" ELSE "interrupted"
           heard == HeardBy(r)
           m == Message("fade", 0)
<1>1. /\ Live(r) /\ reply' = [reply EXCEPT ![r].state = state, ![r].heard = heard]
      /\ InterruptSink(r) /\ UNCHANGED released
  BY DEF Interrupt
<1>2. state \in Outcomes
      /\ state = IF reply[r].started = {} THEN "abandoned" ELSE "interrupted"
  BY <1>1, HeardIsStarted DEF Outcomes
<1>3. m.type # "enqueue"
  BY DEF Message
<1> HIDE DEF state, heard, m
<1>4. SinkOK' /\ IsChannel(rendered') /\ Len(rendered') = Len(rendered) /\ playing' = playing
  <2>1. CASE UNCHANGED sinkVars
    BY <2>1, SinkUnchanged
  <2>2. CASE SinkFadeOut
    <3>1. UNCHANGED <<rendered, playing, toMain, queue>>
      BY <2>2 DEF SinkFadeOut, audioVars
    <3>2. toAudio' = toAudio \/ toAudio' = Append(toAudio, m)
      BY <2>2 DEF SinkFadeOut, m
    <3>3. CASE toAudio' = toAudio
      BY <3>1, <3>3, Holding DEF RInv, SinkOK, Names, Known
    <3> QED
      BY <1>3, <3>1, <3>2, <3>3, SinkOrdered
  <2> QED
    BY <1>1, <2>1, <2>2 DEF InterruptSink
<1>5. /\ RInv' /\ Told' = [Told EXCEPT ![r] = state]
      /\ Told[r] = IF reply[r].started # {} THEN "audible" ELSE "working"
  BY <1>1, <1>2, <1>4, SettlingRefines
<1>6. Told[r] \in Spoken!Live /\ state = Spoken!Interrupted(Told[r])
  BY <1>2, <1>5 DEF Spoken!Live, Spoken!Interrupted
<1>7. Spoken!Interrupt(r)
  BY <1>1, <1>5, <1>6 DEF Spoken!Interrupt, Told, StandingOf
<1> QED
  BY <1>5, <1>7 DEF Spokes, Spoken!Next

\* Steps nothing is told of.
LEMMA QuietRefines ==
  ASSUME RInv, IInv', SinkOK', IsChannel(rendered'), Len(rendered') = Len(rendered),
         released' = released, SaysNoMore, playing' \subseteq playing
  PROVE  RInv' /\ Spokes
BY QuietHolds, NothingTold DEF Spokes

LEMMA ProvidersRefine ==
  ASSUME RInv, IInv', NEW r \in Replies,
         \/ Chunk(r) \/ Synthesise(r) \/ SynthesisFails(r)
         \/ \E failing \in BOOLEAN : StreamEnds(r, failing)
         \/ \E hasAudio \in BOOLEAN : Synthesised(r, hasAudio)
  PROVE  RInv' /\ Spokes
<1>1. UNCHANGED <<released, sinkVars>>
  BY DEF Chunk, Synthesise, SynthesisFails, StreamEnds, Synthesised
<1> QED
  BY <1>1, ProvidersSayNoMore, SinkUnchanged, QuietRefines

LEMMA ReleaseRefines ==
  ASSUME RInv, IInv', NEW r \in Replies, Release(r)
  PROVE  RInv' /\ Spokes
<1>1. UNCHANGED <<reply, sinkVars>> /\ released' = released \union {r}
  BY DEF Release
<1>2. RInv' /\ Told' = Told
  BY <1>1, SinkUnchanged, SameReply, QuietHolds, NothingTold
<1>3. Spoken!Release(r)
  BY <1>1, <1>2 DEF Spoken!Release, Told, StandingOf
<1> QED
  BY <1>2, <1>3 DEF Spokes, Spoken!Next

LEMMA GainRefines ==
  ASSUME RInv, IInv', NEW target, SinkGain(target), UNCHANGED <<reply, released>>
  PROVE  RInv' /\ Spokes
<1> DEFINE m == Message("gain", target)
<1>1. toAudio' = Append(toAudio, m) /\ UNCHANGED <<rendered, playing, toMain, queue>>
  BY DEF SinkGain, mainVars, audioVars
<1>2. m.type # "enqueue"
  BY DEF Message
<1> HIDE DEF m
<1>3. SinkOK' /\ IsChannel(rendered') /\ Len(rendered') = Len(rendered) /\ playing' = playing
  BY <1>1, <1>2, SinkOrdered
<1>4. SaysNoMore
  BY SameReply
<1> QED
  BY <1>3, <1>4, QuietRefines

\* A segment is queued, at the end of its answer's.
LEMMA Enqueued ==
  ASSUME RInv, NEW r \in Replies, Enqueue(r)
  PROVE  /\ DOMAIN reply' = Replies /\ DOMAIN reply'[r] = Fields
         /\ \A a \in Outward \ {"queued"} : reply'[r][a] = reply[r][a]
         /\ IsChannel(reply'[r].queued)
         /\ \A q \in Replies : q # r => reply'[q] = reply[q]
         /\ IsChannel(rendered') /\ Len(rendered') = Len(rendered) + 1
         /\ \A k \in Known : rendered'[k] = rendered[k]
         /\ Segments(r)' = Segments(r) \union {NextId}
         /\ \A q \in Replies : q # r => Segments(q)' = Segments(q)
<1> DEFINE more == Append(reply[r].queued, NextId)
           one == reply[r].spoken + 1
           f == [reply EXCEPT ![r].queued = more]
           g == [f EXCEPT ![r].chain = "idle"]
<1>1. rendered' = Append(rendered, "none")
  BY DEF Enqueue, SinkEnqueue
<1>2. reply' = [g EXCEPT ![r].spoken = one]
  BY Zenon DEF Enqueue
<1>3. {"chain", "spoken"} \subseteq Fields
  BY DEF Fields, NewReply
<1> HIDE DEF more, one
<1>5. /\ DOMAIN f = Replies /\ DOMAIN f[r] = Fields
      /\ \A a \in Outward \ {"queued"} : f[r][a] = reply[r][a]
      /\ f[r].queued = more
      /\ \A q \in Replies : q # r => f[q] = reply[q]
  BY FieldSet, Holding DEF Outward
<1> HIDE DEF f
<1>6. /\ DOMAIN g = Replies /\ DOMAIN g[r] = Fields
      /\ \A a \in Outward \ {"queued"} : g[r][a] = reply[r][a]
      /\ g[r].queued = more
      /\ \A q \in Replies : q # r => g[q] = reply[q]
  BY <1>3, <1>5, FieldSet, Holding DEF Outward
<1> HIDE DEF g
<1>7. /\ DOMAIN reply' = Replies /\ DOMAIN reply'[r] = Fields
      /\ \A a \in Outward \ {"queued"} : reply'[r][a] = reply[r][a]
      /\ reply'[r].queued = more
      /\ \A q \in Replies : q # r => reply'[q] = reply[q]
  BY <1>2, <1>3, <1>6, FieldSet, Holding DEF Outward
<1>8. /\ IsChannel(rendered') /\ Len(rendered) \in Nat /\ Len(rendered') = Len(rendered) + 1
      /\ \A k \in Known : rendered'[k] = rendered[k]
  <2>1. PICK S : rendered \in Seq(S)
    BY Holding DEF IsChannel
  <2>2. rendered' \in Seq(S \union {"none"}) /\ Len(rendered') = Len(rendered) + 1
         /\ \A k \in 1 .. Len(rendered) : rendered'[k] = rendered[k]
    BY <1>1, <2>1
  <2> QED
    BY <2>2, Holding DEF IsChannel, Known
<1>9. /\ IsChannel(more) /\ {more[i] : i \in DOMAIN more} = Segments(r) \union {NextId}
  <2>1. PICK S : reply[r].queued \in Seq(S)
    BY Holding DEF IsChannel
  <2> DEFINE was == reply[r].queued
  <2>2. was \in Seq(S) /\ more = Append(was, NextId) /\ Segments(r) = {was[i] : i \in DOMAIN was}
    BY <2>1 DEF more, Segments
  <2> HIDE DEF was
  <2>3. /\ more \in Seq(S \union {NextId}) /\ Len(was) \in Nat
        /\ DOMAIN was = 1 .. Len(was) /\ DOMAIN more = 1 .. (Len(was) + 1)
        /\ \A i \in 1 .. Len(was) : more[i] = was[i]
        /\ more[Len(was) + 1] = NextId
    BY <2>2
  <2>4. {more[i] : i \in DOMAIN more} = {was[i] : i \in DOMAIN was} \union {NextId}
    BY <2>3
  <2> QED
    BY <2>2, <2>3, <2>4 DEF IsChannel
<1>10. /\ Segments(r)' = Segments(r) \union {NextId}
       /\ \A q \in Replies : q # r => Segments(q)' = Segments(q)
  BY <1>7, <1>9 DEF Segments
<1> QED
  BY <1>7, <1>8, <1>9, <1>10

\* Its answer is released by then, and nobody has heard of it.
LEMMA EnqueueRefines ==
  ASSUME RInv, IInv', NEW r \in Replies, Enqueue(r)
  PROVE  RInv' /\ Spokes
<1> DEFINE m == Message("enqueue", NextId)
<1>1. /\ Live(r) /\ r \in released
      /\ rendered' = Append(rendered, "none") /\ toAudio' = Append(toAudio, m)
      /\ UNCHANGED <<released, playing, toMain, queue>>
  BY DEF Enqueue, HoldIsOver, SinkEnqueue, audioVars
<1>4. m.type = "enqueue" /\ m.arg = NextId
  BY DEF Message
<1> HIDE DEF m
<1>7. /\ DOMAIN reply' = Replies /\ DOMAIN reply'[r] = Fields
      /\ reply'[r].state = reply[r].state /\ reply'[r].started = reply[r].started
      /\ IsChannel(reply'[r].queued)
      /\ \A q \in Replies : q # r => reply'[q] = reply[q]
  BY Enqueued DEF Outward
<1>8. IsChannel(rendered') /\ Len(rendered) \in Nat /\ Len(rendered') = Len(rendered) + 1
  BY Enqueued, Holding
<1>10. /\ Segments(r)' = Segments(r) \union {NextId}
       /\ \A q \in Replies : q # r => Segments(q)' = Segments(q)
  BY Enqueued
<1>11. Known \subseteq Known' /\ NextId \in Known' /\ NextId \notin Known
  BY <1>8 DEF Known, NextId
<1>12. RepliesOK'
  <2>1. \A q \in Replies : Segments(q)' \subseteq Known'
    BY <1>10, <1>11 DEF RInv, RepliesOK, Known
  <2> QED
    BY <1>1, <1>7, <1>8, <2>1 DEF RInv, RepliesOK, Known, Live
<1>13. OneByOne'
  BY <1>1, <1>7 DEF RInv, OneByOne, Live
<1>14. SinkOK'
  <2>1. Names(toAudio, "enqueue", Known') /\ Names(toMain, "started", Known')
    BY <1>11 DEF RInv, SinkOK, Names
  <2>2. Names(toAudio', "enqueue", Known')
    BY <1>1, <1>4, <1>11, <2>1, NamesPosted, Holding
  <2> QED
    BY <1>1, <1>11, <2>1, <2>2 DEF RInv, SinkOK
<1>15. HearsItself'
  BY <1>1, <1>7, <1>10, <1>11 DEF RInv, HearsItself, SinkOK, Live
<1>16. Told' = Told
  <2>1. \A q \in Replies : StandingOf(q)' = StandingOf(q)
    BY <1>7 DEF StandingOf, Live
  <2> QED
    BY <2>1 DEF Told
<1> QED
  BY <1>1, <1>12, <1>13, <1>14, <1>15, <1>16 DEF RInv, Spokes

-----------------------------------------------------------------------------
(* The steps of the sink.                                                    *)

\* One event of the sink: a reply that is over, or whose segment it is not about,
\* does nothing; another learns that its segment has started.
LEMMA OneHears ==
  ASSUME RInv, NEW m, RepliesHear(m)
  PROVE  /\ DOMAIN reply' = Replies
         /\ \A r \in Replies :
              /\ DOMAIN reply'[r] = Fields
              /\ reply'[r].queued = reply[r].queued /\ reply'[r].state = reply[r].state
              /\ reply'[r].heard = reply[r].heard
              /\ IF m.type # "faded" /\ Live(r) /\ m.arg \in Segments(r)
                 THEN /\ reply'[r].started = reply[r].started \union {m.arg}
                      /\ reply'[r].ended = IF m.type = "ended" THEN reply[r].ended \union {m.arg}
                                                               ELSE reply[r].ended
                 ELSE /\ reply'[r].started = reply[r].started
                      /\ reply'[r].ended = reply[r].ended
<1>1. reply' = [r \in Replies |-> PlaybackHeard(r, m)]
  BY DEF RepliesHear
<1>2. ASSUME NEW r \in Replies
      PROVE  LET p == PlaybackHeard(r, m) IN
               /\ DOMAIN p = Fields
               /\ p.queued = reply[r].queued /\ p.state = reply[r].state
               /\ p.heard = reply[r].heard
               /\ IF m.type # "faded" /\ Live(r) /\ m.arg \in Segments(r)
                  THEN /\ p.started = reply[r].started \union {m.arg}
                       /\ p.ended = IF m.type = "ended" THEN reply[r].ended \union {m.arg}
                                                        ELSE reply[r].ended
                  ELSE p.started = reply[r].started /\ p.ended = reply[r].ended
  <2> DEFINE was == reply[r]
             x == was.started \union {m.arg}
             y == IF m.type = "ended" THEN was.ended \union {m.arg} ELSE was.ended
             f == [was EXCEPT !.started = x]
             mine == m.type # "faded" /\ Live(r) /\ m.arg \in Segments(r)
  <2>1. PlaybackHeard(r, m) = IF mine THEN [f EXCEPT !.ended = y] ELSE was
    BY Zenon DEF PlaybackHeard
  <2>2. DOMAIN was = Fields /\ {"state", "queued", "started", "ended", "heard"} \subseteq Fields
    BY Holding DEF Outward
  <2> HIDE DEF was, y, mine
  <2>3. /\ DOMAIN f = Fields /\ f.state = was.state /\ f.queued = was.queued /\ f.started = x
        /\ f.ended = was.ended /\ f.heard = was.heard
    BY <2>2
  <2> HIDE DEF f, x
  <2>4. LET p == PlaybackHeard(r, m) IN
          /\ DOMAIN p = Fields /\ p.queued = was.queued /\ p.state = was.state
          /\ p.heard = was.heard
          /\ p.started = IF mine THEN x ELSE was.started
          /\ p.ended = IF mine THEN y ELSE was.ended
    BY <2>1, <2>2, <2>3
  <2> QED
    BY <2>4 DEF was, x, y, mine
<1> QED
  BY <1>1, <1>2

\* The first a live reply hears of its audio is that it is audible.
LEMMA MainRefines ==
  ASSUME RInv, IInv', NEW posts, GainOnly(posts), Takes(posts)
  PROVE  RInv' /\ Spokes
<1> DEFINE m == Head(toMain)
           mine(r) == m.type # "faded" /\ Live(r) /\ m.arg \in Segments(r)
<1>1. /\ toMain # <<>> /\ toMain' = Tail(toMain) /\ toAudio' = toAudio \o posts
      /\ playing' = CASE m.type = "started" -> playing \union {m.arg}
                      [] m.type = "ended" -> playing \ {m.arg}
                      [] OTHER -> playing
      /\ RepliesHear(m) /\ UNCHANGED <<released, rendered, queue>>
  BY DEF Takes, SinkHearsAndPosts, RepliesHear, audioVars
<1> HIDE DEF m
<1>2. Names(toAudio', "enqueue", Known)
  <2>1. ASSUME NEW order, order.type = "gain", toAudio' = Append(toAudio, order)
        PROVE  Names(toAudio', "enqueue", Known)
    BY <2>1, NamesPosted, Holding DEF RInv, SinkOK
  <2> QED
    BY <1>1, <2>1, GainPosted, Holding DEF RInv, SinkOK
<1>3. Names(toMain', "started", Known) /\ (m.type = "started" => m.arg \in Known)
  BY <1>1, NamesTaken, Holding DEF RInv, SinkOK, m
<1>4. /\ playing' \subseteq playing \union {m.arg}
      /\ m.type # "started" => playing' \subseteq playing
  BY <1>1
<1>5. SinkOK'
  <2>1. Known' = Known
    BY <1>1 DEF Known
  <2> QED
    BY <1>1, <1>2, <1>3, <1>4, <2>1 DEF RInv, SinkOK, Names
<1>6. /\ DOMAIN reply' = Replies
      /\ \A r \in Replies :
           /\ DOMAIN reply'[r] = Fields
           /\ reply'[r].queued = reply[r].queued /\ reply'[r].state = reply[r].state
           /\ IF mine(r)
              THEN reply'[r].started = reply[r].started \union {m.arg}
              ELSE reply'[r].started = reply[r].started
  BY <1>1, OneHears
<1>7. \A r \in Replies : /\ reply'[r].started \subseteq Segments(r)
                         /\ Live(r)' => playing' \cap Segments(r) \subseteq reply'[r].started
  <2> TAKE r \in Replies
  <2>1. reply[r].started \subseteq Segments(r)
        /\ (Live(r) => playing \cap Segments(r) \subseteq reply[r].started)
    BY DEF RInv, HearsItself
  <2>2. Live(r)' => Live(r)
    BY <1>6 DEF Live
  <2>3. CASE mine(r)
    BY <1>4, <1>6, <2>1, <2>2, <2>3
  <2>4. CASE ~mine(r)
    <3>1. Live(r) => m.type # "started" \/ m.arg \notin Segments(r)
      BY <2>4
    <3> QED
      BY <1>4, <1>6, <2>1, <2>2, <2>4, <3>1
  <2> QED
    BY <2>3, <2>4
<1>8. RInv'
  <2>1. IsChannel(rendered') /\ Len(rendered') = Len(rendered)
    BY <1>1, Holding
  <2> QED
    BY <1>1, <1>5, <1>6, <1>7, <2>1, StepHolds
<1>9. CASE \E r \in Replies : mine(r) /\ reply[r].started = {}
  <2>1. PICK r \in Replies : mine(r) /\ reply[r].started = {}
    BY <1>9
  <2>2. \A q \in Replies : q # r => ~Live(q)
    <3> SUFFICES ASSUME NEW q \in Replies, q # r, Live(q)
                 PROVE  FALSE
      OBVIOUS
    <3>1. q < r \/ r < q
      BY ReplyAssumption
    <3> QED
      BY <2>1, <3>1 DEF RInv, OneByOne, Live, Outcomes
  <2>3. StandingOf(r) = "working" /\ StandingOf(r)' = "audible"
    BY <1>6, <2>1 DEF StandingOf, Live
  <2>4. \A q \in Replies : q # r => StandingOf(q)' = StandingOf(q)
    BY <1>6, <2>2 DEF StandingOf, Live
  <2>5. Told' = [Told EXCEPT ![r] = "audible"]
    BY <2>3, <2>4, ToldOfOne
  <2>6. r \in released
    <3>1. reply[r].queued # <<>>
      BY <2>1 DEF Segments
    <3> QED
      BY <3>1 DEF RInv, HearsItself
  <2>7. Spoken!AudioStarts(r)
    BY <1>1, <2>3, <2>5, <2>6 DEF Spoken!AudioStarts, Told, StandingOf
  <2> QED
    BY <1>8, <2>7 DEF Spokes, Spoken!Next
<1>10. CASE ~\E r \in Replies : mine(r) /\ reply[r].started = {}
  <2>1. \A r \in Replies : reply'[r].started = {} <=> reply[r].started = {}
    BY <1>6, <1>10
  <2>2. \A r \in Replies : StandingOf(r)' = StandingOf(r)
    BY <1>6, <2>1 DEF StandingOf, Live
  <2> QED
    BY <1>1, <1>8, <2>2 DEF Told, Spokes
<1> QED
  BY <1>9, <1>10

LEMMA AudioRefines ==
  ASSUME RInv, IInv', AudioReceives, UNCHANGED <<reply, released>>
  PROVE  RInv' /\ Spokes
<1> DEFINE m == Head(toAudio)
<1>1. toAudio # <<>> /\ toAudio' = Tail(toAudio) /\ UNCHANGED <<rendered, playing, toMain>>
  BY DEF AudioReceives, mainVars
<1>2. m.type \in Orders
  BY <1>1, OrderTaken, Holding
<1>3. Names(toAudio', "enqueue", Known) /\ (m.type = "enqueue" => m.arg \in Known)
  BY <1>1, NamesTaken, Holding DEF RInv, SinkOK
<1>4. queue' = queue \/ (m.type = "enqueue" /\ queue' = Append(queue, m.arg))
  BY <1>2 DEF AudioReceives, Orders
<1> HIDE DEF m
<1>5. \A i \in DOMAIN queue' : queue'[i] \in Known
  <2>1. PICK S : queue \in Seq(S)
    BY Holding DEF IsChannel
  <2>2. /\ Len(queue) \in Nat /\ DOMAIN queue = 1 .. Len(queue)
        /\ DOMAIN Append(queue, m.arg) = 1 .. (Len(queue) + 1)
        /\ \A i \in 1 .. Len(queue) : Append(queue, m.arg)[i] = queue[i]
        /\ Append(queue, m.arg)[Len(queue) + 1] = m.arg
    BY <2>1
  <2> QED
    BY <1>3, <1>4, <2>2 DEF RInv, SinkOK
<1>6. SinkOK' /\ IsChannel(rendered') /\ Len(rendered') = Len(rendered)
  BY <1>1, <1>3, <1>5, Holding DEF RInv, SinkOK, Known, Names
<1> QED
  BY <1>1, <1>6, SameReply, QuietRefines

\* The audio thread reports segments that were in its queue.
LEMMA ReportRefines ==
  ASSUME RInv, IInv', NEW c, IsChannel(c), Names(c, "started", Known), toMain' = toMain \o c,
         \/ queue' = queue \/ (queue # <<>> /\ queue' = Tail(queue)) \/ queue' = <<>>,
         IsChannel(rendered'), Len(rendered') = Len(rendered),
         UNCHANGED <<reply, released, playing, toAudio>>
  PROVE  RInv' /\ Spokes
<1>1. Names(toMain', "started", Known)
  BY NamesBoth, Holding DEF RInv, SinkOK
<1>2. \A i \in DOMAIN queue' : queue'[i] \in Known
  <2>1. PICK S : queue \in Seq(S)
    BY Holding DEF IsChannel
  <2>2. CASE queue # <<>> /\ queue' = Tail(queue)
    <3>1. \A i \in DOMAIN queue' : i + 1 \in DOMAIN queue /\ queue'[i] = queue[i + 1]
      BY <2>1, <2>2
    <3> QED
      BY <3>1 DEF RInv, SinkOK
  <2>3. CASE queue' = <<>>
    BY <2>3
  <2> QED
    BY <2>2, <2>3 DEF RInv, SinkOK
<1>3. SinkOK'
  BY <1>1, <1>2 DEF RInv, SinkOK, Known, Names
<1> QED
  BY <1>3, SameReply, QuietRefines

LEMMA StartsRefines ==
  ASSUME RInv, IInv', RenderStarts, UNCHANGED <<reply, released>>
  PROVE  RInv' /\ Spokes
<1> DEFINE m == Message("started", Head(queue))
           begun == [rendered EXCEPT ![Head(queue)] = "partly"]
<1>1. /\ queue # <<>> /\ toMain' = Append(toMain, m) /\ rendered' = begun
      /\ UNCHANGED <<queue, playing, toAudio>>
  BY DEF RenderStarts
<1>2. m.arg \in Known
  <2>1. PICK S : queue \in Seq(S)
    BY Holding DEF IsChannel
  <2>2. Head(queue) = queue[1] /\ 1 \in DOMAIN queue
    BY <1>1, <2>1
  <2> QED
    BY <2>2 DEF Message, RInv, SinkOK
<1>3. IsChannel(begun) /\ Len(begun) = Len(rendered)
  BY Holding, RenderedSet
<1> HIDE DEF m, begun
<1>4. IsChannel(<<m>>) /\ Names(<<m>>, "started", Known)
  BY <1>2, NamesOne, CountOfOne
<1>5. toMain' = toMain \o <<m>>
  <2>1. PICK S : toMain \in Seq(S)
    BY Holding DEF IsChannel
  <2> QED
    BY <1>1, <2>1
<1> QED
  BY <1>1, <1>3, <1>4, <1>5, ReportRefines

LEMMA EndsRefines ==
  ASSUME RInv, IInv', RenderEnds, UNCHANGED <<reply, released>>
  PROVE  RInv' /\ Spokes
<1> DEFINE next == queue[2]
           started == Message("started", next)
           ended == Message("ended", Head(queue))
           whole == [rendered EXCEPT ![Head(queue)] = "whole"]
           both == [whole EXCEPT ![next] = "partly"]
<1>1. /\ queue # <<>> /\ queue' = Tail(queue) /\ UNCHANGED <<playing, toAudio>>
      /\ \/ toMain' = Append(toMain, ended)
         \/ Tail(queue) # <<>> /\ toMain' = toMain \o <<started, ended>>
  BY DEF RenderEnds
<1>2. IsChannel(rendered') /\ Len(rendered') = Len(rendered)
  <2>1. IsChannel(whole) /\ Len(whole) = Len(rendered)
    BY Holding, RenderedSet
  <2>2. rendered' = whole \/ rendered' = both
    BY Zenon DEF RenderEnds
  <2> HIDE DEF whole, next
  <2>3. IsChannel(both) /\ Len(both) = Len(rendered)
    BY <2>1, RenderedSet
  <2> HIDE DEF both
  <2> QED
    BY <2>1, <2>2, <2>3
<1>3. Tail(queue) # <<>> => started.arg \in Known
  <2>1. PICK S : queue \in Seq(S)
    BY Holding DEF IsChannel
  <2>2. Tail(queue) # <<>> => 2 \in DOMAIN queue
    BY <1>1, <2>1
  <2> QED
    BY <2>2 DEF Message, RInv, SinkOK
<1>4. ended.type # "started"
  BY DEF Message
<1> HIDE DEF started, ended
<1>5. PICK T : toMain \in Seq(T)
  BY Holding DEF IsChannel
<1>6. CASE toMain' = Append(toMain, ended)
  <2>1. toMain' = toMain \o <<ended>>
    BY <1>5, <1>6
  <2>2. IsChannel(<<ended>>) /\ Names(<<ended>>, "started", Known)
    BY <1>4, NamesOne, CountOfOne
  <2> QED
    BY <1>1, <1>2, <2>1, <2>2, ReportRefines
<1>7. CASE Tail(queue) # <<>> /\ toMain' = toMain \o <<started, ended>>
  <2>1. IsChannel(<<started, ended>>)
    <3>1. <<started, ended>> \in Seq({started, ended})
      OBVIOUS
    <3> QED
      BY <3>1 DEF IsChannel
  <2>2. Names(<<started, ended>>, "started", Known)
    BY <1>3, <1>4, <1>7 DEF Names
  <2> QED
    BY <1>1, <1>2, <1>7, <2>1, <2>2, ReportRefines
<1> QED
  BY <1>1, <1>6, <1>7

\* What the end of a fade reports was in the queue.
LEMMA FadeReports ==
  ASSUME RInv, FadeCompletes
  PROVE  \E c : /\ IsChannel(c) /\ toMain' = toMain \o c
                /\ Names(c, "started", Known) /\ Names(c, "ended", Known)
                /\ EventsOnly(c)
<1> DEFINE start == Message("started", Head(queue))
           starts == IF queue # <<>> /\ ~headRead THEN <<start>> ELSE <<>>
           ends == [i \in DOMAIN queue |-> Message("ended", queue[i])]
           faded == Message("faded", 0)
<1>1. toMain' = toMain \o starts \o ends \o <<faded>>
  BY DEF FadeCompletes
<1>2. PICK S : queue \in Seq(S)
  BY Holding DEF IsChannel
<1>3. /\ IsChannel(starts) /\ EventsOnly(starts)
      /\ Names(starts, "started", Known) /\ Names(starts, "ended", Known)
  <2>1. queue # <<>> => start.arg \in Known
    <3>1. queue # <<>> => Head(queue) = queue[1] /\ 1 \in DOMAIN queue
      BY <1>2
    <3> QED
      BY <3>1 DEF Message, RInv, SinkOK
  <2>4. start.type # "ended" /\ EventsOnly(<<start>>)
    BY DEF Message, EventsOnly, Events
  <2> HIDE DEF start
  <2>2. /\ IsChannel(<<start>>) /\ Names(<<start>>, "ended", Known)
        /\ queue # <<>> => Names(<<start>>, "started", Known)
    BY <2>1, <2>4, NamesOne, CountOfOne
  <2>3. /\ IsChannel(<<>>) /\ EventsOnly(<<>>)
        /\ Names(<<>>, "started", Known) /\ Names(<<>>, "ended", Known)
    <3>1. <<>> \in Seq({}) /\ DOMAIN <<>> = {}
      OBVIOUS
    <3> QED
      BY <3>1 DEF IsChannel, Names, EventsOnly
  <2> QED
    BY <2>2, <2>3, <2>4
<1>4. /\ IsChannel(ends) /\ EventsOnly(ends)
      /\ Names(ends, "started", Known) /\ Names(ends, "ended", Known)
  <2> DEFINE T == {Message("ended", x) : x \in S}
  <2>1. ends \in [1 .. Len(queue) -> T] /\ Len(queue) \in Nat
    BY <1>2
  <2>2. \A i \in DOMAIN ends : ends[i].type = "ended" /\ ends[i].arg \in Known
    BY DEF Message, RInv, SinkOK
  <2> HIDE DEF ends, T
  <2>3. ends \in Seq(T)
    BY <2>1
  <2> QED
    BY <2>2, <2>3 DEF IsChannel, Names, EventsOnly, Events
<1>5. /\ IsChannel(<<faded>>) /\ EventsOnly(<<faded>>)
      /\ Names(<<faded>>, "started", Known) /\ Names(<<faded>>, "ended", Known)
  <2>1. faded.type # "started" /\ faded.type # "ended"
        /\ EventsOnly(<<faded>>)
    BY DEF Message, EventsOnly, Events
  <2> HIDE DEF faded
  <2> QED
    BY <2>1, NamesOne, CountOfOne
<1> HIDE DEF starts, ends, faded
<1> DEFINE c == (starts \o ends) \o <<faded>>
<1>6. /\ IsChannel(starts \o ends) /\ EventsOnly(starts \o ends)
      /\ Names(starts \o ends, "started", Known) /\ Names(starts \o ends, "ended", Known)
  BY <1>3, <1>4, NamesBoth, EventsBoth, CountOfBoth
<1>7. IsChannel(c) /\ EventsOnly(c) /\ Names(c, "started", Known) /\ Names(c, "ended", Known)
  BY <1>5, <1>6, NamesBoth, EventsBoth, CountOfBoth
<1>8. toMain' = toMain \o c
  <2>1. PICK T : toMain \in Seq(T)
    BY Holding DEF IsChannel
  <2>2. PICK A : starts \in Seq(A)
    BY <1>3 DEF IsChannel
  <2>3. PICK B : ends \in Seq(B)
    BY <1>4 DEF IsChannel
  <2>4. PICK D : <<faded>> \in Seq(D)
    BY <1>5 DEF IsChannel
  <2> DEFINE U == T \union A \union B \union D
  <2>5. toMain \in Seq(U) /\ starts \in Seq(U) /\ ends \in Seq(U) /\ <<faded>> \in Seq(U)
    BY <2>1, <2>2, <2>3, <2>4
  <2> HIDE DEF U
  <2>6. /\ starts \o ends \in Seq(U)
        /\ (toMain \o starts) \o ends = toMain \o (starts \o ends)
    BY <2>5, ConcatProperties, ConcatAssociative
  <2>7. (toMain \o (starts \o ends)) \o <<faded>> = toMain \o ((starts \o ends) \o <<faded>>)
    BY <2>5, <2>6, ConcatAssociative
  <2> QED
    BY <1>1, <2>6, <2>7
<1> QED
  BY <1>7, <1>8

LEMMA CompletesRefines ==
  ASSUME RInv, IInv', FadeCompletes, UNCHANGED <<reply, released>>
  PROVE  RInv' /\ Spokes
<1>1. queue' = <<>> /\ UNCHANGED <<rendered, playing, toAudio>>
  BY DEF FadeCompletes, mainVars
<1>2. PICK c : /\ IsChannel(c) /\ toMain' = toMain \o c
               /\ Names(c, "started", Known)
  BY FadeReports
<1> QED
  BY <1>1, <1>2, Holding, ReportRefines

-----------------------------------------------------------------------------

LEMMA NextRefines ==
  ASSUME RInv, [Next]_vars
  PROVE  RInv' /\ Spokes
<1>1. IInv'
  BY NextKeeps DEF RInv
<1>2. ASSUME NEW r \in Replies,
             Begin(r) \/ Release(r) \/ Chunk(r) \/ Progress(r) \/ Interrupt(r) \/ Duck(r)
      PROVE  RInv' /\ Spokes
  <2>1. CASE Duck(r)
    BY <1>1, <2>1, GainRefines DEF Duck
  <2>2. CASE Chunk(r) \/ Progress(r)
    BY <1>1, <2>2, ProvidersRefine, EnqueueRefines, FinishRefines DEF Progress
  <2> QED
    BY <1>1, <1>2, <2>1, <2>2, BeginRefines, ReleaseRefines, InterruptRefines
<1>3. CASE Unduck
  BY <1>1, <1>3, GainRefines DEF Unduck
<1>4. CASE MainReceives
  BY <1>1, <1>4, MainTakes, MainRefines
<1>5. CASE Audio(AudioReceives) \/ Audio(RenderStarts) \/ Audio(RenderEnds) \/ Audio(FadeCompletes)
  BY <1>1, <1>5, AudioRefines, StartsRefines, EndsRefines, CompletesRefines DEF Audio
<1>6. CASE UNCHANGED vars
  <2>1. UNCHANGED <<reply, released, sinkVars>>
    BY <1>6 DEF vars, sinkVars
  <2> QED
    BY <1>1, <2>1, SinkUnchanged, SameReply, QuietRefines
<1> QED
  BY <1>2, <1>3, <1>4, <1>5, <1>6 DEF Next

LEMMA InitRefines ==
  ASSUME Init
  PROVE  RInv /\ Spoken!Init
<1>1. /\ rendered = <<>> /\ playing = {} /\ toAudio = <<>> /\ toMain = <<>> /\ queue = <<>>
      /\ reply = [r \in Replies |-> NewReply] /\ released = {}
  BY DEF Init, SinkInit
<1>2. NewReply.state = "none" /\ NewReply.queued = <<>> /\ NewReply.started = {}
  BY DEF NewReply
<1>3. <<>> \in Seq({}) /\ DOMAIN <<>> = {}
  OBVIOUS
<1>4. DOMAIN reply = Replies /\ \A r \in Replies : reply[r] = NewReply
  BY <1>1
<1>5. RepliesOK
  <2>1. \A r \in Replies : Segments(r) = {}
    BY <1>2, <1>3, <1>4 DEF Segments
  <2>2. IsChannel(<<>>)
    BY <1>3 DEF IsChannel
  <2> QED
    BY <1>1, <1>2, <1>4, <2>1, <2>2 DEF RepliesOK, Fields
<1>6. OneByOne /\ HearsItself
  BY <1>1, <1>2, <1>4 DEF OneByOne, HearsItself, Live
<1>7. SinkOK
  BY <1>1, <1>3 DEF SinkOK, Names
<1>8. Spoken!Init
  BY <1>1, <1>2, <1>4 DEF Spoken!Init, Live
<1> QED
  BY <1>5, <1>6, <1>7, <1>8, InitOK DEF RInv

\* Reply implements SpokenReply: an answer is heard only after its hold was
\* released, settles once, and its outcome says whether any of it was audible,
\* for any number of answers, with or without a wait for the fade before it
\* (reply.ts, with browser-output.ts and renderer.ts under it).
THEOREM RefinesSpokenReply == Spec => KeepsSpokenReply
<1>1. Init => RInv /\ Spoken!Init
  BY InitRefines
<1>2. RInv /\ [Next]_vars => RInv'
  BY NextRefines
<1>3. RInv /\ [Next]_vars => [Spoken!Next]_(Spoken!replyVars)
  BY NextRefines DEF Spokes, Told, StandingOf, Spoken!replyVars
<1> QED
  BY <1>1, <1>2, <1>3, PTL DEF Spec, KeepsSpokenReply, Spoken!Spec

-----------------------------------------------------------------------------
(* What was heard.                                                           *)

LiveIds == UNION {Segments(r) : r \in {q \in Replies : Live(q)}}

\* The segments that may be reported as started, or as ended: of the answer she
\* is giving, those of which some, or all, was rendered.
MayStart == {k \in Known : k \in LiveIds => rendered[k] # "none"}

MayEnd == {k \in Known : k \in LiveIds => rendered[k] = "whole"}

\* In the queue, or on its way to it.
InQueue(id) == \E i \in DOMAIN queue : queue[i] = id

OnItsWay(id) == \E i \in DOMAIN toAudio : toAudio[i].type = "enqueue" /\ toAudio[i].arg = id

\* Segments wait in the order they were enqueued in.
InLine(waiting, c) ==
  /\ \A i, j \in DOMAIN waiting : i < j => waiting[i] < waiting[j]
  /\ \A i, j \in DOMAIN c :
       c[i].type = "enqueue" /\ c[j].type = "enqueue" /\ i < j => c[i].arg < c[j].arg
  /\ \A i \in DOMAIN waiting, j \in DOMAIN c : c[j].type = "enqueue" => waiting[i] < c[j].arg

\* What was rendered comes before whatever waits, but for the segment at the
\* head of the queue once it has been read from.
Passed(k, waiting, c, read) ==
  /\ \A i \in DOMAIN waiting : k < waiting[i] \/ (k = waiting[i] /\ i = 1 /\ read)
  /\ \A i \in DOMAIN c : c[i].type = "enqueue" => k < c[i].arg

InOrder ==
  /\ InLine(queue, toAudio)
  /\ headRead => queue # <<>>
  /\ \A k \in Known : rendered[k] # "none" => Passed(k, queue, toAudio, headRead)

\* Of an answer she is giving nothing is lost, and nothing is reported that was
\* not rendered.
HearsTruth ==
  /\ Names(toMain, "started", MayStart)
  /\ Names(toMain, "ended", MayEnd)
  /\ \A r \in Replies : Live(r) =>
       /\ reply[r].started \subseteq MayStart
       /\ reply[r].ended \subseteq MayEnd
       /\ \A id \in Segments(r) : InQueue(id) \/ OnItsWay(id) \/ rendered[id] = "whole"

HeardIsQueued ==
  \A r \in Replies : /\ reply[r].ended \subseteq reply[r].started
                     /\ Settled(r) => reply[r].heard \subseteq Segments(r)

HInv == EventsOnly(toMain) /\ InOrder /\ HearsTruth /\ HeardIsQueued /\ NothingImagined

\* Rendering only goes on.
Grown ==
  /\ Known \subseteq Known'
  /\ \A k \in Known : /\ rendered[k] # "none" => rendered'[k] # "none"
                      /\ rendered[k] = "whole" => rendered'[k] = "whole"

-----------------------------------------------------------------------------
(* The line.                                                                 *)

LEMMA LinePosted ==
  ASSUME NEW waiting, NEW c, IsChannel(c), NEW m, InLine(waiting, c),
         m.type = "enqueue" =>
           /\ \A i \in DOMAIN waiting : waiting[i] < m.arg
           /\ \A i \in DOMAIN c : c[i].type = "enqueue" => c[i].arg < m.arg
  PROVE  /\ InLine(waiting, Append(c, m))
         /\ \A k, read : Passed(k, waiting, c, read) /\ (m.type = "enqueue" => k < m.arg)
              => Passed(k, waiting, Append(c, m), read)
<1> DEFINE d == Append(c, m)
<1>1. PICK S : c \in Seq(S)
  BY DEF IsChannel
<1>2. /\ Len(c) \in Nat /\ DOMAIN c = 1 .. Len(c) /\ DOMAIN d = 1 .. (Len(c) + 1)
      /\ \A i \in 1 .. Len(c) : d[i] = c[i]
      /\ d[Len(c) + 1] = m
  BY <1>1
<1> HIDE DEF d
<1>3. \A i \in DOMAIN d : (i \in DOMAIN c /\ d[i] = c[i]) \/ (i = Len(c) + 1 /\ d[i] = m)
  BY <1>2
<1>4. \A i, j \in DOMAIN d :
        d[i].type = "enqueue" /\ d[j].type = "enqueue" /\ i < j => d[i].arg < d[j].arg
  <2> SUFFICES ASSUME NEW i \in DOMAIN d, NEW j \in DOMAIN d,
                      d[i].type = "enqueue", d[j].type = "enqueue", i < j
               PROVE  d[i].arg < d[j].arg
    OBVIOUS
  <2>1. i \in DOMAIN c /\ d[i] = c[i]
    BY <1>2, <1>3
  <2> QED
    BY <1>2, <1>3, <2>1 DEF InLine
<1>5. \A i \in DOMAIN waiting, j \in DOMAIN d : d[j].type = "enqueue" => waiting[i] < d[j].arg
  BY <1>3 DEF InLine
<1>6. InLine(waiting, d)
  BY <1>4, <1>5 DEF InLine
<1>7. \A k, read : Passed(k, waiting, c, read) /\ (m.type = "enqueue" => k < m.arg)
        => Passed(k, waiting, d, read)
  BY <1>3 DEF Passed
<1> QED
  BY <1>6, <1>7 DEF d

\* The audio thread takes the next order.
LEMMA LineTaken ==
  ASSUME NEW waiting, IsChannel(waiting), NEW c, IsChannel(c), c # <<>>, InLine(waiting, c)
  PROVE  LET m == Head(c) d == Tail(c) longer == Append(waiting, m.arg) IN
           /\ InLine(waiting, d)
           /\ m.type = "enqueue" => InLine(longer, d)
           /\ \A k, read : Passed(k, waiting, c, read) =>
                /\ Passed(k, waiting, d, read)
                /\ m.type = "enqueue" => Passed(k, longer, d, read)
<1> DEFINE m == Head(c)
           d == Tail(c)
           longer == Append(waiting, m.arg)
<1>1. PICK S : c \in Seq(S)
  BY DEF IsChannel
<1>2. PICK T : waiting \in Seq(T)
  BY DEF IsChannel
<1>3. /\ Len(c) \in Nat /\ Len(c) > 0 /\ DOMAIN c = 1 .. Len(c)
      /\ DOMAIN d = 1 .. (Len(c) - 1) /\ m = c[1]
      /\ \A i \in 1 .. (Len(c) - 1) : d[i] = c[i + 1]
  BY <1>1
<1>4. /\ Len(waiting) \in Nat /\ DOMAIN waiting = 1 .. Len(waiting)
      /\ DOMAIN longer = 1 .. (Len(waiting) + 1)
      /\ \A i \in 1 .. Len(waiting) : longer[i] = waiting[i]
      /\ longer[Len(waiting) + 1] = m.arg
  BY <1>2
<1> HIDE DEF m, d, longer
<1>5. /\ 1 \in DOMAIN c
      /\ \A i \in DOMAIN d : i + 1 \in DOMAIN c /\ d[i] = c[i + 1] /\ 1 < i + 1
  BY <1>3
<1>6. \A i \in DOMAIN longer :
        \/ i \in DOMAIN waiting /\ longer[i] = waiting[i]
        \/ i = Len(waiting) + 1 /\ longer[i] = m.arg
  BY <1>4
<1>7. \A i, j \in DOMAIN d : i < j => i + 1 < j + 1
  BY <1>3
<1>8. InLine(waiting, d)
  BY <1>5, <1>7 DEF InLine
<1>9. ASSUME m.type = "enqueue"
      PROVE  InLine(longer, d)
  <2>1. \A i, j \in DOMAIN longer : i < j => longer[i] < longer[j]
    <3> SUFFICES ASSUME NEW i \in DOMAIN longer, NEW j \in DOMAIN longer, i < j
                 PROVE  longer[i] < longer[j]
      OBVIOUS
    <3>1. i \in DOMAIN waiting /\ longer[i] = waiting[i]
      BY <1>4, <1>6
    <3> QED
      BY <1>3, <1>5, <1>6, <1>9, <3>1 DEF InLine
  <2>2. \A i \in DOMAIN longer, j \in DOMAIN d : d[j].type = "enqueue" => longer[i] < d[j].arg
    BY <1>3, <1>5, <1>6, <1>9 DEF InLine
  <2> QED
    BY <1>8, <2>1, <2>2 DEF InLine
<1>10. \A k, read : Passed(k, waiting, c, read) =>
         /\ Passed(k, waiting, d, read)
         /\ m.type = "enqueue" => Passed(k, longer, d, read)
  BY <1>3, <1>5, <1>6 DEF Passed
<1> QED
  BY <1>8, <1>9, <1>10 DEF m, d, longer

\* The head is over.
LEMMA LineShorter ==
  ASSUME NEW waiting, IsChannel(waiting), waiting # <<>>, NEW c, InLine(waiting, c)
  PROVE  /\ InLine(Tail(waiting), c)
         /\ \A k, read, read2 : Passed(k, waiting, c, read) => Passed(k, Tail(waiting), c, read2)
         /\ \A read : Passed(Head(waiting), Tail(waiting), c, read)
         /\ Tail(waiting) # <<>> => Passed(waiting[2], Tail(waiting), c, TRUE)
<1> DEFINE rest == Tail(waiting)
<1>1. PICK S : waiting \in Seq(S)
  BY DEF IsChannel
<1>2. /\ Len(waiting) \in Nat /\ Len(waiting) > 0 /\ DOMAIN waiting = 1 .. Len(waiting)
      /\ DOMAIN rest = 1 .. (Len(waiting) - 1) /\ Head(waiting) = waiting[1]
      /\ \A i \in 1 .. (Len(waiting) - 1) : rest[i] = waiting[i + 1]
      /\ rest # <<>> => Len(waiting) > 1
  BY <1>1
<1> HIDE DEF rest
<1>3. /\ 1 \in DOMAIN waiting
      /\ \A i \in DOMAIN rest : i + 1 \in DOMAIN waiting /\ rest[i] = waiting[i + 1]
                                /\ 1 < i + 1 /\ i + 1 # 1
  BY <1>2
<1>4. \A i, j \in DOMAIN rest : i < j => i + 1 < j + 1
  BY <1>2
<1>5. InLine(rest, c)
  BY <1>3, <1>4 DEF InLine
<1>6. \A k, read, read2 : Passed(k, waiting, c, read) => Passed(k, rest, c, read2)
  BY <1>3 DEF Passed
<1>7. \A read : Passed(waiting[1], rest, c, read)
  BY <1>3 DEF Passed, InLine
<1>8. rest # <<>> => Passed(waiting[2], rest, c, TRUE)
  <2> SUFFICES ASSUME rest # <<>>
               PROVE  Passed(waiting[2], rest, c, TRUE)
    OBVIOUS
  <2>1. 2 \in DOMAIN waiting /\ \A i \in DOMAIN rest : i = 1 \/ 2 < i + 1
    BY <1>2
  <2> QED
    BY <1>3, <2>1 DEF Passed, InLine
<1> QED
  BY <1>2, <1>5, <1>6, <1>7, <1>8 DEF rest

LEMMA NamesMore ==
  ASSUME NEW c, NEW type, NEW K, NEW L, Names(c, type, K), K \subseteq L
  PROVE  Names(c, type, L)
BY DEF Names

-----------------------------------------------------------------------------
(* What stays true of what was heard.                                        *)

\* NothingImagined, of one answer that is over.
Honest(r) ==
  /\ reply[r].heard \subseteq Segments(r)
  /\ \A id \in reply[r].heard : rendered[id] # "none"
  /\ reply[r].state = "complete" => \A id \in Segments(r) : rendered[id] = "whole"

\* A live answer's part of HearsTruth.
Truthful(r) ==
  /\ reply[r].started \subseteq MayStart
  /\ reply[r].ended \subseteq MayEnd
  /\ \A id \in Segments(r) : InQueue(id) \/ OnItsWay(id) \/ rendered[id] = "whole"

LEMMA MayGrow ==
  ASSUME Grown, \A k \in Known : k \in LiveIds' => k \in LiveIds
  PROVE  MayStart \subseteq MayStart' /\ MayEnd \subseteq MayEnd'
BY DEF Grown, MayStart, MayEnd

LEMMA StaysTrue ==
  ASSUME RInv, HInv, InOrder', Grown, EventsOnly(toMain'),
         Names(toMain', "started", MayStart'), Names(toMain', "ended", MayEnd'),
         \A r \in Replies : /\ reply'[r].ended \subseteq reply'[r].started
                            /\ Live(r)' => Truthful(r)',
         \A r \in Replies : Settled(r)' =>
           \/ Honest(r)'
           \/ /\ Settled(r) /\ reply'[r].state = reply[r].state
              /\ reply'[r].queued = reply[r].queued /\ reply'[r].heard = reply[r].heard
  PROVE  HInv'
<1>1. ASSUME NEW r \in Replies, Settled(r)'
      PROVE  Honest(r)'
  <2>1. CASE Honest(r)'
    BY <2>1
  <2>2. CASE /\ Settled(r) /\ reply'[r].state = reply[r].state
             /\ reply'[r].queued = reply[r].queued /\ reply'[r].heard = reply[r].heard
    <3>1. Honest(r)
      BY <2>2 DEF HInv, HeardIsQueued, NothingImagined, Honest
    <3>2. Segments(r)' = Segments(r) /\ Segments(r) \subseteq Known
      BY <2>2 DEF Segments, RInv, RepliesOK, Known
    <3> QED
      BY <2>2, <3>1, <3>2 DEF Honest, Grown
  <2> QED
    BY <1>1, <2>1, <2>2
<1>2. HeardIsQueued' /\ NothingImagined'
  BY <1>1 DEF HeardIsQueued, NothingImagined, Honest
<1>3. HearsTruth'
  BY DEF HearsTruth, Truthful
<1> QED
  BY <1>2, <1>3 DEF HInv

\* The replies say no more than before.
LEMMA QuietIsTrue ==
  ASSUME RInv, HInv, SaysNoMore, InOrder', Grown, EventsOnly(toMain'),
         Names(toMain', "started", MayStart'), Names(toMain', "ended", MayEnd'),
         \A id \in LiveIds :
           InQueue(id) \/ OnItsWay(id) => InQueue(id)' \/ OnItsWay(id)' \/ rendered'[id] = "whole"
  PROVE  HInv'
<1>1. \A r \in Replies : /\ Segments(r)' = Segments(r) /\ reply'[r].state = reply[r].state
                         /\ reply'[r].queued = reply[r].queued
                         /\ reply'[r].heard = reply[r].heard
                         /\ reply'[r].started = reply[r].started
                         /\ reply'[r].ended = reply[r].ended
  BY DEF SaysNoMore, Outward, Segments
<1>2. LiveIds' = LiveIds
  BY <1>1 DEF LiveIds, Live
<1>3. MayStart \subseteq MayStart' /\ MayEnd \subseteq MayEnd'
  BY <1>2, MayGrow
<1>4. ASSUME NEW r \in Replies, Live(r)'
      PROVE  Truthful(r)'
  <2>1. Live(r) /\ Truthful(r)
    BY <1>1, <1>4 DEF Live, HInv, HearsTruth, Truthful
  <2>2. \A id \in Segments(r) : id \in LiveIds /\ id \in Known
    BY <2>1 DEF LiveIds, RInv, RepliesOK, Known
  <2>3. \A id \in Segments(r) : InQueue(id)' \/ OnItsWay(id)' \/ rendered'[id] = "whole"
    BY <2>1, <2>2 DEF Truthful, Grown
  <2> QED
    BY <1>1, <1>3, <2>1, <2>3 DEF Truthful
<1>5. \A r \in Replies : Settled(r)' => Settled(r)
  BY <1>1 DEF Settled
<1>6. \A r \in Replies : reply'[r].ended \subseteq reply'[r].started
  BY <1>1 DEF HInv, HeardIsQueued
<1> QED
  BY <1>1, <1>4, <1>5, <1>6, StaysTrue

\* Orders that enqueue nothing.
SinkOrdersOnly ==
  /\ UNCHANGED <<rendered, queue, headRead>>
  /\ \/ toAudio' = toAudio
     \/ \E m : m.type # "enqueue" /\ toAudio' = Append(toAudio, m)

SinkOrders == SinkOrdersOnly /\ UNCHANGED toMain

LEMMA SinkInOrder ==
  ASSUME RInv, HInv, SinkOrdersOnly
  PROVE  /\ Known' = Known /\ Grown /\ InOrder'
         /\ \A id : InQueue(id) \/ OnItsWay(id) => InQueue(id)' \/ OnItsWay(id)'
<1>1. Known' = Known /\ Grown
  BY DEF SinkOrdersOnly, Known, Grown
<1>2. InOrder' /\ \A id : OnItsWay(id) => OnItsWay(id)'
  <2>1. CASE toAudio' = toAudio
    BY <1>1, <2>1 DEF SinkOrdersOnly, HInv, InOrder, OnItsWay
  <2>2. ASSUME NEW m, m.type # "enqueue", toAudio' = Append(toAudio, m)
        PROVE  InOrder' /\ \A id : OnItsWay(id) => OnItsWay(id)'
    <3>1. /\ InLine(queue, toAudio')
          /\ \A k, read : Passed(k, queue, toAudio, read) => Passed(k, queue, toAudio', read)
      BY <2>2, LinePosted, Holding DEF HInv, InOrder
    <3>2. InOrder'
      BY <1>1, <3>1 DEF SinkOrdersOnly, HInv, InOrder
    <3>3. \A i \in DOMAIN toAudio : i \in DOMAIN toAudio' /\ toAudio'[i] = toAudio[i]
      <4>1. PICK S : toAudio \in Seq(S)
        BY Holding DEF IsChannel
      <4> QED
        BY <2>2, <4>1
    <3> QED
      BY <3>2, <3>3 DEF OnItsWay
  <2> QED
    BY <2>1, <2>2 DEF SinkOrdersOnly
<1>3. \A id : InQueue(id) => InQueue(id)'
  BY DEF SinkOrdersOnly, InQueue
<1> QED
  BY <1>1, <1>2, <1>3

\* Nothing is heard or rendered.
LEMMA SinkStaysTrue ==
  ASSUME RInv, HInv, SaysNoMore, SinkOrders
  PROVE  HInv'
<1>1. /\ Known' = Known /\ Grown /\ InOrder'
      /\ \A id : InQueue(id) \/ OnItsWay(id) => InQueue(id)' \/ OnItsWay(id)'
  BY SinkInOrder DEF SinkOrders
<1>2. LiveIds' = LiveIds
  BY DEF SaysNoMore, Outward, LiveIds, Live, Segments
<1>3. MayStart' = MayStart /\ MayEnd' = MayEnd
  BY <1>1, <1>2 DEF SinkOrders, SinkOrdersOnly, MayStart, MayEnd
<1>4. /\ Names(toMain', "started", MayStart') /\ Names(toMain', "ended", MayEnd')
      /\ EventsOnly(toMain')
  BY <1>3 DEF SinkOrders, SinkOrdersOnly, HInv, HearsTruth
<1> QED
  BY <1>1, <1>4, QuietIsTrue

-----------------------------------------------------------------------------
(* The steps of the sink.                                                    *)

LEMMA AudioStaysTrue ==
  ASSUME RInv, HInv, AudioReceives, reply' = reply
  PROVE  HInv'
<1> DEFINE m == Head(toAudio)
           x == m.arg
           longer == Append(queue, x)
<1>1. /\ toAudio # <<>> /\ toAudio' = Tail(toAudio)
      /\ UNCHANGED <<rendered, toMain>>
  BY DEF AudioReceives, mainVars
<1>2. m.type \in Orders
  BY <1>1, OrderTaken, Holding
<1>3. /\ IF m.type = "enqueue" THEN queue' = longer ELSE queue' = queue
      /\ headRead' = headRead
  BY <1>2 DEF AudioReceives, Orders
<1>4. /\ InLine(queue, toAudio')
      /\ m.type = "enqueue" => InLine(longer, toAudio')
      /\ \A k, read : Passed(k, queue, toAudio, read) =>
           /\ Passed(k, queue, toAudio', read)
           /\ m.type = "enqueue" => Passed(k, longer, toAudio', read)
  BY <1>1, LineTaken, Holding DEF HInv, InOrder
<1>5. PICK S : toAudio \in Seq(S)
  BY Holding DEF IsChannel
<1>8. /\ Len(toAudio) \in Nat /\ DOMAIN toAudio = 1 .. Len(toAudio)
      /\ DOMAIN toAudio' = 1 .. (Len(toAudio) - 1) /\ m = toAudio[1]
      /\ \A i \in 1 .. (Len(toAudio) - 1) : toAudio'[i] = toAudio[i + 1]
  BY <1>1, <1>5
<1> HIDE DEF m
<1>6. PICK T : queue \in Seq(T)
  BY Holding DEF IsChannel
<1>13. m.arg = x
  OBVIOUS
<1> HIDE DEF x
<1>7. /\ Len(queue) \in Nat /\ DOMAIN queue = 1 .. Len(queue)
      /\ DOMAIN longer = 1 .. (Len(queue) + 1)
      /\ \A i \in 1 .. Len(queue) : longer[i] = queue[i]
      /\ longer[Len(queue) + 1] = x
  BY <1>6
<1> HIDE DEF longer
<1>14. longer # <<>>
  <2>1. 1 \in DOMAIN longer /\ DOMAIN <<>> = {}
    BY <1>7
  <2> QED
    BY <2>1
<1>9. Known' = Known /\ Grown
  BY <1>1 DEF Known, Grown
<1>10. InOrder'
  BY <1>1, <1>3, <1>4, <1>9, <1>14 DEF HInv, InOrder
<1>11. \A id : InQueue(id) => InQueue(id)'
  BY <1>3, <1>7 DEF InQueue
<1>12. \A id : OnItsWay(id) => InQueue(id)' \/ OnItsWay(id)'
  <2> SUFFICES ASSUME NEW id, NEW i \in DOMAIN toAudio,
                      toAudio[i].type = "enqueue", toAudio[i].arg = id
               PROVE  InQueue(id)' \/ OnItsWay(id)'
    BY DEF OnItsWay
  <2>1. CASE i = 1
    <3>1. queue' = longer /\ x = id
      BY <1>3, <1>8, <1>13, <2>1
    <3>2. Len(queue) + 1 \in DOMAIN longer /\ longer[Len(queue) + 1] = x
      BY <1>7
    <3> QED
      BY <3>1, <3>2 DEF InQueue
  <2>2. CASE i # 1
    <3>1. i - 1 \in DOMAIN toAudio' /\ toAudio'[i - 1] = toAudio[i]
      BY <1>8, <2>2
    <3> QED
      BY <3>1 DEF OnItsWay
  <2> QED
    BY <2>1, <2>2
<1>15. LiveIds' = LiveIds /\ SaysNoMore
  BY SameReply DEF LiveIds, Live, Segments
<1>16. MayStart' = MayStart /\ MayEnd' = MayEnd
  BY <1>1, <1>9, <1>15 DEF MayStart, MayEnd
<1> QED
  BY <1>1, <1>9, <1>10, <1>11, <1>12, <1>15, <1>16, QuietIsTrue DEF HInv, HearsTruth

\* The head of the queue has not been rendered before it is read.
LEMMA HeadOfLine ==
  ASSUME RInv, HInv, queue # <<>>
  PROVE  /\ Head(queue) \in Known
         /\ Passed(Head(queue), queue, toAudio, TRUE)
         /\ ~headRead => rendered[Head(queue)] = "none"
         /\ Tail(queue) # <<>> =>
              /\ queue[2] \in Known /\ queue[2] # Head(queue) /\ rendered[queue[2]] = "none"
<1>1. PICK S : queue \in Seq(S)
  BY Holding DEF IsChannel
<1>2. /\ Len(queue) \in Nat /\ 1 \in DOMAIN queue /\ DOMAIN queue = 1 .. Len(queue)
      /\ Head(queue) = queue[1]
      /\ Tail(queue) # <<>> => 2 \in DOMAIN queue
  BY <1>1
<1>3. \A i \in DOMAIN queue : queue[i] \in Known /\ queue[i] \in Nat
  BY Holding DEF RInv, SinkOK, Known
<1>4. \A i \in DOMAIN queue : i = 1 \/ 1 < i
  BY <1>2
<1>5. Passed(queue[1], queue, toAudio, TRUE)
  BY <1>2, <1>4 DEF HInv, InOrder, InLine, Passed
<1>6. ~headRead => rendered[queue[1]] = "none"
  <2> SUFFICES ASSUME ~headRead, rendered[queue[1]] # "none"
               PROVE  FALSE
    OBVIOUS
  <2>1. queue[1] < queue[1]
    BY <1>2, <1>3 DEF HInv, InOrder, Passed
  <2> QED
    BY <1>2, <1>3, <2>1
<1>7. ASSUME Tail(queue) # <<>>
      PROVE  queue[2] \in Known /\ queue[2] # queue[1] /\ rendered[queue[2]] = "none"
  <2>1. queue[1] < queue[2] /\ queue[2] \in Known
    BY <1>2, <1>3, <1>7 DEF HInv, InOrder, InLine
  <2>2. rendered[queue[2]] # "none" => queue[2] < queue[2]
    BY <1>2, <1>7, <2>1 DEF HInv, InOrder, Passed
  <2> QED
    BY <1>2, <1>3, <1>7, <2>1, <2>2
<1> QED
  BY <1>2, <1>3, <1>5, <1>6, <1>7

\* Of one segment more or less is rendered.
LEMMA RenderedOne ==
  ASSUME NEW c, IsChannel(c), NEW i \in 1 .. Len(c), NEW x
  PROVE  LET d == [c EXCEPT ![i] = x] IN
           /\ IsChannel(d) /\ Len(d) = Len(c) /\ d[i] = x
           /\ \A k \in 1 .. Len(c) : k # i => d[k] = c[k]
<1>1. PICK S : c \in Seq(S)
  BY DEF IsChannel
<1>2. i \in DOMAIN c /\ \A k \in 1 .. Len(c) : k \in DOMAIN c
  BY <1>1
<1> QED
  BY <1>2, RenderedSet

LEMMA StartsStaysTrue ==
  ASSUME RInv, HInv, RenderStarts, reply' = reply
  PROVE  HInv'
<1> DEFINE h == Head(queue)
           m == Message("started", h)
           begun == [rendered EXCEPT ![h] = "partly"]
<1>1. /\ queue # <<>> /\ ~headRead /\ headRead' = TRUE
      /\ rendered' = begun /\ toMain' = Append(toMain, m)
      /\ UNCHANGED <<toAudio, queue>>
  BY DEF RenderStarts
<1>2. /\ h \in Known /\ Passed(h, queue, toAudio, TRUE) /\ rendered[h] = "none"
  BY <1>1, HeadOfLine
<1>3. m.type = "started" /\ m.arg = h
  BY DEF Message
<1> HIDE DEF h, m
<1>4. /\ Len(begun) = Len(rendered) /\ begun[h] = "partly"
      /\ \A k \in Known : k # h => begun[k] = rendered[k]
  <2>1. IsChannel(rendered) /\ h \in 1 .. Len(rendered)
    BY <1>2, Holding DEF Known
  <2> QED
    BY <2>1, RenderedOne DEF Known
<1> HIDE DEF begun
<1>5. Known' = Known /\ Grown
  BY <1>1, <1>2, <1>4 DEF Known, Grown
<1>6. \A k : Passed(k, queue, toAudio, FALSE) => Passed(k, queue, toAudio, TRUE)
  BY DEF Passed
<1>7. InOrder'
  <2>1. ASSUME NEW k \in Known, rendered'[k] # "none"
        PROVE  Passed(k, queue, toAudio, TRUE)
    <3>1. CASE k = h
      BY <1>2, <3>1
    <3>2. CASE k # h
      <4>1. Passed(k, queue, toAudio, FALSE)
        <5>1. rendered[k] # "none" /\ headRead = FALSE
          BY <1>1, <1>4, <2>1, <3>2
        <5> QED
          BY <5>1 DEF HInv, InOrder
      <4> QED
        BY <1>6, <4>1
    <3> QED
      BY <3>1, <3>2
  <2> QED
    BY <1>1, <1>5, <2>1 DEF HInv, InOrder
<1>8. LiveIds' = LiveIds /\ SaysNoMore
  BY SameReply DEF LiveIds, Live, Segments
<1>9. MayStart \subseteq MayStart' /\ MayEnd \subseteq MayEnd'
  BY <1>5, <1>8, MayGrow
<1>10. h \in MayStart'
  BY <1>1, <1>2, <1>4, <1>5 DEF MayStart
<1>11. Names(toMain, "started", MayStart') /\ Names(toMain, "ended", MayEnd')
  BY <1>9, NamesMore DEF HInv, HearsTruth
<1>12. Names(toMain', "started", MayStart') /\ Names(toMain', "ended", MayEnd')
  BY <1>1, <1>3, <1>10, <1>11, NamesPosted, Holding
<1>13. \A id : InQueue(id) \/ OnItsWay(id) => InQueue(id)' \/ OnItsWay(id)'
  BY <1>1 DEF InQueue, OnItsWay
<1>14. EventsOnly(toMain')
  BY <1>1, <1>3, EventsPosted, Holding DEF HInv, Events
<1> QED
  BY <1>5, <1>7, <1>8, <1>12, <1>13, <1>14, QuietIsTrue

LEMMA EndsStaysTrue ==
  ASSUME RInv, HInv, RenderEnds, reply' = reply
  PROVE  HInv'
<1> DEFINE h == Head(queue)
           n == queue[2]
           more == Tail(queue) # <<>>
           ended == Message("ended", h)
           started == Message("started", n)
           whole == [rendered EXCEPT ![h] = "whole"]
           both == [whole EXCEPT ![n] = "partly"]
<1>1. /\ queue # <<>> /\ headRead /\ queue' = Tail(queue) /\ headRead' = more
      /\ UNCHANGED toAudio
      /\ toMain' = IF more THEN toMain \o <<started, ended>> ELSE Append(toMain, ended)
  BY DEF RenderEnds
<1>2. rendered' = IF more THEN both ELSE whole
  BY Zenon DEF RenderEnds
<1>3. /\ h \in Known
      /\ more => n \in Known /\ n # h /\ rendered[n] = "none"
  BY <1>1, HeadOfLine
<1>4. /\ InLine(queue', toAudio)
      /\ \A k, read, read2 : Passed(k, queue, toAudio, read) => Passed(k, queue', toAudio, read2)
      /\ \A read : Passed(h, queue', toAudio, read)
      /\ more => Passed(n, queue', toAudio, TRUE)
  BY <1>1, LineShorter, Holding DEF HInv, InOrder
<1>5. /\ ended.type = "ended" /\ ended.arg = h
      /\ started.type = "started" /\ started.arg = n
  BY DEF Message
<1>6. \A id : InQueue(id) => id = h \/ InQueue(id)'
  <2>1. PICK S : queue \in Seq(S)
    BY Holding DEF IsChannel
  <2>2. /\ Len(queue) \in Nat /\ DOMAIN queue = 1 .. Len(queue) /\ h = queue[1]
        /\ DOMAIN queue' = 1 .. (Len(queue) - 1)
        /\ \A i \in 1 .. (Len(queue) - 1) : queue'[i] = queue[i + 1]
    BY <1>1, <2>1
  <2> SUFFICES ASSUME NEW id, InQueue(id), id # h
               PROVE  InQueue(id)'
    OBVIOUS
  <2>3. PICK i \in DOMAIN queue : queue[i] = id
    BY DEF InQueue
  <2>4. i # 1
    BY <2>2, <2>3
  <2>5. i - 1 \in DOMAIN queue' /\ queue'[i - 1] = id
    BY <2>2, <2>3, <2>4
  <2> QED
    BY <2>5 DEF InQueue
<1> HIDE DEF h, n, ended, started
<1>7. /\ IsChannel(whole) /\ Len(whole) = Len(rendered) /\ whole[h] = "whole"
      /\ \A k \in Known : k # h => whole[k] = rendered[k]
  <2>1. IsChannel(rendered) /\ h \in 1 .. Len(rendered)
    BY <1>3, Holding DEF Known
  <2> QED
    BY <2>1, RenderedOne DEF Known
<1> HIDE DEF whole
<1>8. more => /\ Len(both) = Len(rendered) /\ both[n] = "partly"
              /\ \A k \in Known : k # n => both[k] = whole[k]
  <2>1. more => n \in 1 .. Len(whole)
    BY <1>3, <1>7 DEF Known
  <2> QED
    BY <1>7, <2>1, RenderedOne DEF Known
<1> HIDE DEF both
<1>9. /\ Len(rendered') = Len(rendered) /\ rendered'[h] = "whole"
      /\ more => rendered'[n] = "partly"
      /\ \A k \in Known : k # h /\ (more => k # n) => rendered'[k] = rendered[k]
  BY <1>2, <1>3, <1>7, <1>8
<1> HIDE DEF more
<1>10. Known' = Known /\ Grown
  BY <1>3, <1>9 DEF Known, Grown
<1>11. InOrder'
  <2>1. ASSUME NEW k \in Known, rendered'[k] # "none"
        PROVE  Passed(k, queue', toAudio, headRead')
    <3>1. CASE k = h
      BY <1>4, <3>1
    <3>2. CASE more /\ k = n
      BY <1>1, <1>4, <3>2
    <3>3. CASE k # h /\ (more => k # n)
      BY <1>4, <1>9, <2>1, <3>3 DEF HInv, InOrder
    <3> QED
      BY <3>1, <3>2, <3>3
  <2>2. headRead' => queue' # <<>>
    BY <1>1 DEF more
  <2> QED
    BY <1>1, <1>4, <1>10, <2>1, <2>2 DEF InOrder
<1>12. LiveIds' = LiveIds /\ SaysNoMore
  BY SameReply DEF LiveIds, Live, Segments
<1>13. MayStart \subseteq MayStart' /\ MayEnd \subseteq MayEnd'
  BY <1>10, <1>12, MayGrow
<1>14. h \in MayEnd' /\ (more => n \in MayStart')
  BY <1>3, <1>9, <1>10 DEF MayStart, MayEnd
<1>15. Names(toMain, "started", MayStart') /\ Names(toMain, "ended", MayEnd')
  BY <1>13, NamesMore DEF HInv, HearsTruth
<1>16. /\ Names(toMain', "started", MayStart') /\ Names(toMain', "ended", MayEnd')
       /\ EventsOnly(toMain')
  <2>1. CASE more
    <3>1. IsChannel(<<started, ended>>)
      <4>1. <<started, ended>> \in Seq({started, ended})
        OBVIOUS
      <4> QED
        BY <4>1 DEF IsChannel
    <3>2. /\ Names(<<started, ended>>, "started", MayStart')
          /\ Names(<<started, ended>>, "ended", MayEnd')
      BY <1>5, <1>14, <2>1 DEF Names
    <3>3. EventsOnly(<<started, ended>>)
      BY <1>5 DEF EventsOnly, Events
    <3>4. EventsOnly(toMain')
      BY <1>1, <2>1, <3>1, <3>3, EventsBoth, Holding DEF HInv
    <3> QED
      BY <1>1, <1>15, <2>1, <3>1, <3>2, <3>4, NamesBoth, Holding
  <2>2. CASE ~more
    <3>1. EventsOnly(toMain')
      BY <1>1, <1>5, <2>2, EventsPosted, Holding DEF HInv, Events
    <3> QED
      BY <1>1, <1>5, <1>14, <1>15, <2>2, <3>1, NamesPosted, Holding
  <2> QED
    BY <2>1, <2>2
<1>17. \A id : InQueue(id) \/ OnItsWay(id) =>
         InQueue(id)' \/ OnItsWay(id)' \/ rendered'[id] = "whole"
  BY <1>1, <1>6, <1>9 DEF OnItsWay
<1> QED
  BY <1>10, <1>11, <1>12, <1>16, <1>17, QuietIsTrue

\* A fade drops nothing of the answer she is giving: it has queued nothing yet.
LEMMA CompletesStaysTrue ==
  ASSUME StopInv, RInv, HInv, FadeCompletes, reply' = reply
  PROVE  HInv'
<1>1. /\ fade # "none" /\ queue' = <<>> /\ headRead' = FALSE
      /\ UNCHANGED <<rendered, toAudio>>
  BY DEF FadeCompletes, mainVars
<1>2. PICK c : /\ IsChannel(c) /\ toMain' = toMain \o c
               /\ Names(c, "started", Known) /\ Names(c, "ended", Known)
               /\ EventsOnly(c)
  BY FadeReports
<1>10. EventsOnly(toMain')
  BY <1>2, EventsBoth, Holding DEF HInv
<1>3. fadingOut
  <2>1. CountOf(toAudio, "fade") \in Nat /\ CountOf(toMain, "faded") \in Nat
    BY Holding, Counts
  <2> QED
    BY <1>1, <2>1 DEF StopInv, IInv, FadeIsAccountedFor
<1>4. LiveIds = {}
  <2>1. \A r \in Replies : Live(r) => reply[r].queued = <<>>
    BY <1>3 DEF StopInv, FadesAreOver
  <2>2. DOMAIN <<>> = {}
    OBVIOUS
  <2> QED
    BY <2>1, <2>2 DEF LiveIds, Segments
<1>5. LiveIds' = LiveIds /\ SaysNoMore
  BY SameReply DEF LiveIds, Live, Segments
<1>6. Known' = Known /\ Grown
  BY <1>1 DEF Known, Grown
<1>7. MayStart = Known /\ MayEnd = Known /\ MayStart' = Known /\ MayEnd' = Known
  BY <1>4, <1>5, <1>6 DEF MayStart, MayEnd
<1>8. Names(toMain', "started", MayStart') /\ Names(toMain', "ended", MayEnd')
  BY <1>2, <1>7, NamesBoth, Holding DEF HInv, HearsTruth
<1>9. InOrder'
  <2>1. DOMAIN queue' = {}
    BY <1>1
  <2> QED
    BY <1>1, <1>6, <2>1 DEF HInv, InOrder, InLine, Passed
<1> QED
  BY <1>4, <1>5, <1>6, <1>8, <1>9, <1>10, QuietIsTrue

-----------------------------------------------------------------------------
(* The steps of a reply.                                                     *)

LEMMA MainStaysTrue ==
  ASSUME RInv, HInv, NEW posts, GainOnly(posts), Takes(posts)
  PROVE  HInv'
<1> DEFINE m == Head(toMain)
           mine(r) == m.type # "faded" /\ Live(r) /\ m.arg \in Segments(r)
<1>1. /\ toMain # <<>> /\ toMain' = Tail(toMain) /\ toAudio' = toAudio \o posts
      /\ RepliesHear(m) /\ UNCHANGED <<rendered, queue, headRead>>
  BY DEF Takes, SinkHearsAndPosts, RepliesHear, audioVars
<1>2. /\ InOrder'
      /\ \A id : InQueue(id) \/ OnItsWay(id) => InQueue(id)' \/ OnItsWay(id)'
  <2>1. toAudio' = toAudio \/ \E order : order.type # "enqueue" /\ toAudio' = Append(toAudio, order)
    BY <1>1, GainPosted, Holding
  <2>2. SinkOrdersOnly
    BY <1>1, <2>1 DEF SinkOrdersOnly
  <2> QED
    BY <2>2, SinkInOrder
<1>3. /\ Names(toMain', "started", MayStart) /\ Names(toMain', "ended", MayEnd)
      /\ m.type = "started" => m.arg \in MayStart
      /\ m.type = "ended" => m.arg \in MayEnd
  BY <1>1, NamesTaken, Holding DEF HInv, HearsTruth
<1>4. m.type \in Events /\ EventsOnly(toMain')
  BY <1>1, EventsTaken, Holding DEF HInv
<1> HIDE DEF m
<1>5. /\ DOMAIN reply' = Replies
      /\ \A r \in Replies :
           /\ DOMAIN reply'[r] = Fields
           /\ reply'[r].queued = reply[r].queued /\ reply'[r].state = reply[r].state
           /\ reply'[r].heard = reply[r].heard
           /\ IF mine(r)
              THEN /\ reply'[r].started = reply[r].started \union {m.arg}
                   /\ reply'[r].ended = IF m.type = "ended" THEN reply[r].ended \union {m.arg}
                                                            ELSE reply[r].ended
              ELSE reply'[r].started = reply[r].started /\ reply'[r].ended = reply[r].ended
  BY <1>1, OneHears
<1>6. \A r \in Replies : Segments(r)' = Segments(r) /\ (Live(r)' <=> Live(r))
  <2>1. \A r \in Replies : reply'[r].queued = reply[r].queued /\ reply'[r].state = reply[r].state
    BY <1>5
  <2> QED
    BY <2>1 DEF Segments, Live
<1>7. Known' = Known /\ Grown /\ LiveIds' = LiveIds
  BY <1>1, <1>6 DEF Known, Grown, LiveIds
<1>8. MayStart' = MayStart /\ MayEnd' = MayEnd /\ MayEnd \subseteq MayStart
  BY <1>1, <1>7 DEF MayStart, MayEnd
<1>10. ASSUME NEW r \in Replies, Live(r)'
       PROVE  Truthful(r)'
  <2>1. Live(r) /\ Truthful(r)
    BY <1>6, <1>10 DEF HInv, HearsTruth, Truthful
  <2>2. reply'[r].started \subseteq MayStart /\ reply'[r].ended \subseteq MayEnd
    BY <1>3, <1>4, <1>5, <1>8, <2>1 DEF Truthful, Events
  <2>3. \A id \in Segments(r) : InQueue(id)' \/ OnItsWay(id)' \/ rendered'[id] = "whole"
    BY <1>1, <1>2, <2>1 DEF Truthful
  <2> QED
    BY <1>6, <1>8, <2>2, <2>3 DEF Truthful
<1>11. \A r \in Replies : Settled(r)' => Settled(r)
  BY <1>5 DEF Settled
<1>12. ASSUME NEW r \in Replies
       PROVE  reply'[r].ended \subseteq reply'[r].started
  <2>1. reply[r].ended \subseteq reply[r].started
    BY DEF HInv, HeardIsQueued
  <2> QED
    BY <1>5, <2>1
<1> QED
  BY <1>2, <1>3, <1>4, <1>5, <1>7, <1>8, <1>10, <1>11, <1>12, StaysTrue

LEMMA BeginStaysTrue ==
  ASSUME RInv, HInv, NEW r \in Replies, Begin(r)
  PROVE  HInv'
<1>1. /\ reply[r].state = "none" /\ reply' = [reply EXCEPT ![r].state = "live"]
      /\ UNCHANGED sinkVars
  BY DEF Begin
<1>2. reply[r].queued = <<>> /\ Segments(r) = {}
  <2>1. reply[r].queued = <<>> /\ DOMAIN <<>> = {}
    BY <1>1 DEF RInv, RepliesOK
  <2> QED
    BY <2>1 DEF Segments
<1>3. /\ \A q \in Replies : \A a \in Outward \ {"state"} : reply'[q][a] = reply[q][a]
      /\ reply'[r].state = "live"
      /\ \A q \in Replies : q # r => reply'[q].state = reply[q].state
  BY <1>1, StateSet
<1>4. \A q \in Replies : /\ reply'[q].queued = reply[q].queued
                         /\ reply'[q].started = reply[q].started
                         /\ reply'[q].ended = reply[q].ended
                         /\ reply'[q].heard = reply[q].heard
  BY <1>3 DEF Outward
<1>5. /\ \A q \in Replies : Segments(q)' = Segments(q)
      /\ \A q \in Replies : q # r => (Live(q)' <=> Live(q))
  BY <1>3, <1>4 DEF Segments, Live
<1>6. SinkOrders
  BY <1>1 DEF SinkOrders, SinkOrdersOnly, sinkVars
<1>7. /\ Known' = Known /\ Grown /\ InOrder'
      /\ \A id : InQueue(id) \/ OnItsWay(id) => InQueue(id)' \/ OnItsWay(id)'
  BY <1>6, SinkInOrder DEF SinkOrders
<1>8. LiveIds' = LiveIds
  BY <1>1, <1>2, <1>5 DEF LiveIds, Live
<1>9. MayStart' = MayStart /\ MayEnd' = MayEnd
  BY <1>6, <1>7, <1>8 DEF SinkOrders, SinkOrdersOnly, MayStart, MayEnd
<1>10. /\ Names(toMain', "started", MayStart') /\ Names(toMain', "ended", MayEnd')
       /\ EventsOnly(toMain')
  BY <1>6, <1>9 DEF SinkOrders, SinkOrdersOnly, HInv, HearsTruth
<1>11. ASSUME NEW q \in Replies
       PROVE  /\ reply'[q].ended \subseteq reply'[q].started
              /\ Live(q)' => Truthful(q)'
  <2>1. reply[q].ended \subseteq reply[q].started /\ reply[q].started \subseteq Segments(q)
    BY DEF HInv, HeardIsQueued, RInv, HearsItself
  <2>2. CASE q = r
    BY <1>2, <1>4, <1>5, <2>1, <2>2 DEF Truthful
  <2>3. CASE q # r
    <3>1. Live(q) => Truthful(q)
      BY DEF HInv, HearsTruth, Truthful
    <3>2. \A id : rendered'[id] = rendered[id]
      BY <1>6 DEF SinkOrders, SinkOrdersOnly
    <3> QED
      BY <1>4, <1>5, <1>7, <1>9, <2>1, <2>3, <3>1, <3>2 DEF Truthful
  <2> QED
    BY <2>2, <2>3
<1>12. \A q \in Replies : Settled(q)' => Settled(q) /\ reply'[q].state = reply[q].state
  BY <1>3 DEF Settled, Outcomes
<1> QED
  BY <1>4, <1>7, <1>10, <1>11, <1>12, StaysTrue

LEMMA SameSegments ==
  ASSUME \A q \in Replies : reply'[q].queued = reply[q].queued
  PROVE  \A q \in Replies : Segments(q)' = Segments(q)
BY DEF Segments

\* However an answer ends, what is said of it then was so.
LEMMA SettlingStaysTrue ==
  ASSUME RInv, HInv, NEW r \in Replies, Live(r), NEW state \in Outcomes, NEW heard,
         reply' = [reply EXCEPT ![r].state = state, ![r].heard = heard],
         SinkOrders,
         heard \subseteq Segments(r), \A id \in heard : rendered[id] # "none",
         state = "complete" => \A id \in Segments(r) : rendered[id] = "whole"
  PROVE  HInv'
<1>1. /\ DOMAIN reply' = Replies
      /\ \A q \in Replies :
           /\ DOMAIN reply'[q] = Fields
           /\ \A a \in Outward \ {"state", "heard"} : reply'[q][a] = reply[q][a]
      /\ reply'[r].state = state /\ reply'[r].heard = heard
      /\ \A q \in Replies : q # r => reply'[q] = reply[q]
  BY SettledSet
<1>2. \A q \in Replies : /\ reply'[q].queued = reply[q].queued
                         /\ reply'[q].started = reply[q].started
                         /\ reply'[q].ended = reply[q].ended
  BY <1>1 DEF Outward
<1>3. /\ \A q \in Replies : Segments(q)' = Segments(q)
      /\ \A q \in Replies : Live(q)' => Live(q) /\ q # r
  <2>1. \A q \in Replies : Segments(q)' = Segments(q)
    BY <1>2, SameSegments
  <2>2. state # "live"
    BY DEF Outcomes
  <2>3. \A q \in Replies : Live(q)' => Live(q) /\ q # r
    BY <1>1, <2>2 DEF Live
  <2> QED
    BY <2>1, <2>3
<1>4. /\ Known' = Known /\ Grown /\ InOrder'
      /\ \A id : InQueue(id) \/ OnItsWay(id) => InQueue(id)' \/ OnItsWay(id)'
  BY SinkInOrder DEF SinkOrders
<1>5. \A k : k \in LiveIds' => k \in LiveIds
  BY <1>3 DEF LiveIds
<1>6. MayStart \subseteq MayStart' /\ MayEnd \subseteq MayEnd'
  BY <1>4, <1>5, MayGrow
<1>7. /\ Names(toMain', "started", MayStart') /\ Names(toMain', "ended", MayEnd')
      /\ EventsOnly(toMain')
  BY <1>6, NamesMore DEF SinkOrders, SinkOrdersOnly, HInv, HearsTruth
<1>8. ASSUME NEW q \in Replies
      PROVE  /\ reply'[q].ended \subseteq reply'[q].started
             /\ Live(q)' => Truthful(q)'
  <2>1. reply[q].ended \subseteq reply[q].started /\ (Live(q) => Truthful(q))
    BY DEF HInv, HeardIsQueued, HearsTruth, Truthful
  <2>2. \A id : rendered'[id] = rendered[id]
    BY DEF SinkOrders, SinkOrdersOnly
  <2> QED
    BY <1>2, <1>3, <1>4, <1>6, <2>1, <2>2 DEF Truthful
<1>9. ASSUME NEW q \in Replies, Settled(q)'
      PROVE  \/ Honest(q)'
             \/ /\ Settled(q) /\ reply'[q].state = reply[q].state
                /\ reply'[q].queued = reply[q].queued /\ reply'[q].heard = reply[q].heard
  <2>1. CASE q = r
    BY <1>1, <1>3, <2>1 DEF Honest, SinkOrders, SinkOrdersOnly
  <2>2. CASE q # r
    BY <1>1, <1>9, <2>2 DEF Settled
  <2> QED
    BY <2>1, <2>2
<1> QED
  BY <1>4, <1>7, <1>8, <1>9, StaysTrue

\* What an answer counts as heard was rendered: it comes no later than a segment
\* that was.
LEMMA HeardWasRendered ==
  ASSUME RInv, HInv, NEW r \in Replies, Live(r)
  PROVE  HeardBy(r) \subseteq Segments(r) /\ \A id \in HeardBy(r) : rendered[id] # "none"
<1>1. HeardBy(r) \subseteq Segments(r)
  BY DEF HeardBy
<1>2. /\ Segments(r) \subseteq Known /\ Segments(r) \subseteq LiveIds
      /\ \A k \in Known : k \in Nat /\ k # 0
      /\ playing \subseteq Known
      /\ playing \cap Segments(r) \subseteq reply[r].started
      /\ reply[r].started \subseteq Segments(r)
  BY Holding DEF RInv, RepliesOK, SinkOK, HearsItself, Known, LiveIds
<1>3. reply[r].started \subseteq MayStart
  BY DEF HInv, HearsTruth
<1>4. \A l \in reply[r].started : l \in Known /\ rendered[l] # "none"
  BY <1>2, <1>3 DEF MayStart
<1>5. Position \in Segments(r) => Position \in reply[r].started
  <2>1. Position \in Segments(r) => Position # 0
    BY <1>2
  <2> QED
    BY <1>2, <2>1, Holding, PositionPlays DEF Position
<1>6. ASSUME NEW id \in HeardBy(r)
      PROVE  rendered[id] # "none"
  <2>1. PICK l \in reply[r].started : id <= l
    BY <1>5 DEF HeardBy
  <2>2. /\ id \in Known /\ id \in Nat /\ l \in Nat
        /\ InQueue(id) \/ OnItsWay(id) \/ rendered[id] = "whole"
    BY <1>1, <1>2 DEF HInv, HearsTruth
  <2>3. Passed(l, queue, toAudio, headRead)
    BY <1>4 DEF HInv, InOrder
  <2>4. InQueue(id) => id = l
    BY <2>1, <2>2, <2>3 DEF Passed, InQueue
  <2>5. ~OnItsWay(id)
    BY <2>1, <2>2, <2>3 DEF Passed, OnItsWay
  <2> QED
    BY <1>4, <2>2, <2>4, <2>5
<1> QED
  BY <1>1, <1>6

LEMMA FinishStaysTrue ==
  ASSUME RInv, HInv, NEW r \in Replies, Finish(r)
  PROVE  HInv'
<1> DEFINE state == IF reply[r].failure THEN "failed" ELSE "complete"
           heard == IF reply[r].failure THEN HeardBy(r) ELSE Segments(r)
<1>1. /\ Live(r) /\ reply' = [reply EXCEPT ![r].state = state, ![r].heard = heard]
      /\ Segments(r) \subseteq reply[r].ended /\ UNCHANGED sinkVars
  BY DEF Finish, RanOut, EverythingEnded
<1>2. \A id \in Segments(r) : rendered[id] = "whole"
  BY <1>1 DEF HInv, HearsTruth, MayEnd, LiveIds
<1>3. /\ state \in Outcomes
      /\ heard \subseteq Segments(r) /\ \A id \in heard : rendered[id] # "none"
  BY <1>1, <1>2, HeardWasRendered DEF Outcomes
<1> HIDE DEF state, heard
<1>4. SinkOrders
  BY <1>1 DEF SinkOrders, SinkOrdersOnly, sinkVars
<1> QED
  BY <1>1, <1>2, <1>3, <1>4, SettlingStaysTrue

LEMMA InterruptStaysTrue ==
  ASSUME RInv, HInv, NEW r \in Replies, Interrupt(r)
  PROVE  HInv'
<1> DEFINE state == IF HeardBy(r) = {} THEN "abandoned" ELSE "interrupted"
           heard == HeardBy(r)
           m == Message("fade", 0)
<1>1. /\ Live(r) /\ reply' = [reply EXCEPT ![r].state = state, ![r].heard = heard]
      /\ SinkFadeOut \/ UNCHANGED sinkVars
  BY DEF Interrupt, InterruptSink
<1>2. /\ state \in Outcomes /\ state # "complete"
      /\ heard \subseteq Segments(r) /\ \A id \in heard : rendered[id] # "none"
  BY <1>1, HeardWasRendered DEF Outcomes
<1>3. SinkOrders
  <2>1. CASE UNCHANGED sinkVars
    BY <2>1 DEF SinkOrders, SinkOrdersOnly, sinkVars
  <2>2. CASE SinkFadeOut
    <3>1. m.type # "enqueue"
      BY DEF Message
    <3>2. /\ UNCHANGED <<rendered, toMain, queue, headRead>>
          /\ toAudio' = toAudio \/ toAudio' = Append(toAudio, m)
      BY <2>2 DEF SinkFadeOut, audioVars
    <3> HIDE DEF m
    <3> QED
      BY <3>1, <3>2 DEF SinkOrders, SinkOrdersOnly
  <2> QED
    BY <1>1, <2>1, <2>2
<1> HIDE DEF state, heard
<1> QED
  BY <1>1, <1>2, <1>3, SettlingStaysTrue

\* What is enqueued comes last.
LEMMA EnqueueStaysTrue ==
  ASSUME RInv, HInv, NEW r \in Replies, Enqueue(r)
  PROVE  HInv'
<1> DEFINE m == Message("enqueue", NextId)
<1>1. /\ Live(r) /\ rendered' = Append(rendered, "none") /\ toAudio' = Append(toAudio, m)
      /\ UNCHANGED <<toMain, queue, headRead>>
  BY DEF Enqueue, SinkEnqueue, audioVars
<1>2. m.type = "enqueue" /\ m.arg = NextId
  BY DEF Message
<1> HIDE DEF m
<1>3. /\ \A a \in Outward \ {"queued"} : reply'[r][a] = reply[r][a]
      /\ \A q \in Replies : q # r => reply'[q] = reply[q]
      /\ Len(rendered') = Len(rendered) + 1
      /\ \A k \in Known : rendered'[k] = rendered[k]
      /\ Segments(r)' = Segments(r) \union {NextId}
      /\ \A q \in Replies : q # r => Segments(q)' = Segments(q)
  BY Enqueued
<1>4. \A q \in Replies : /\ reply'[q].state = reply[q].state
                         /\ reply'[q].started = reply[q].started
                         /\ reply'[q].ended = reply[q].ended
                         /\ reply'[q].heard = reply[q].heard
  BY <1>3 DEF Outward
<1>5. /\ Known' = Known \union {NextId} /\ NextId \notin Known
      /\ \A k \in Known : k < NextId
  BY <1>3, Holding DEF Known, NextId
<1>6. rendered'[NextId] = "none"
  <2>1. PICK S : rendered \in Seq(S)
    BY Holding DEF IsChannel
  <2> QED
    BY <1>1, <2>1 DEF NextId
<1>7. Grown
  BY <1>3, <1>5 DEF Grown
<1>8. /\ InLine(queue, toAudio')
      /\ \A k, read : Passed(k, queue, toAudio, read) /\ k < NextId
                       => Passed(k, queue, toAudio', read)
  <2>1. /\ \A i \in DOMAIN queue : queue[i] < NextId
        /\ \A i \in DOMAIN toAudio : toAudio[i].type = "enqueue" => toAudio[i].arg < NextId
    BY <1>5 DEF RInv, SinkOK, Names
  <2> QED
    BY <1>1, <1>2, <2>1, LinePosted, Holding DEF HInv, InOrder
<1>9. InOrder'
  <2>1. \A k \in Known' : rendered'[k] # "none" => k \in Known /\ rendered[k] # "none"
    BY <1>3, <1>5, <1>6
  <2> QED
    BY <1>1, <1>5, <1>8, <2>1 DEF HInv, InOrder
<1>10. /\ \A id : InQueue(id) \/ OnItsWay(id) => InQueue(id)' \/ OnItsWay(id)'
       /\ \A id : id = NextId => OnItsWay(id)'
  <2>1. PICK S : toAudio \in Seq(S)
    BY Holding DEF IsChannel
  <2>2. /\ \A i \in DOMAIN toAudio : i \in DOMAIN toAudio' /\ toAudio'[i] = toAudio[i]
        /\ Len(toAudio) + 1 \in DOMAIN toAudio' /\ toAudio'[Len(toAudio) + 1] = m
    BY <1>1, <2>1
  <2>3. \A id : InQueue(id) => InQueue(id)'
    BY <1>1 DEF InQueue
  <2>4. \A id : OnItsWay(id) => OnItsWay(id)'
    BY <2>2 DEF OnItsWay
  <2>5. \A id : id = NextId => OnItsWay(id)'
    BY <1>2, <2>2 DEF OnItsWay
  <2> QED
    BY <2>3, <2>4, <2>5
<1>11. \A k \in Known : k \in LiveIds' => k \in LiveIds
  <2>1. \A q \in Replies : Segments(q)' \subseteq Segments(q) \union {NextId}
    BY <1>3
  <2>2. \A q \in Replies : Live(q)' => Live(q)
    BY <1>4 DEF Live
  <2> QED
    BY <1>5, <2>1, <2>2 DEF LiveIds
<1>12. MayStart \subseteq MayStart' /\ MayEnd \subseteq MayEnd'
  BY <1>7, <1>11, MayGrow
<1>13. /\ Names(toMain', "started", MayStart') /\ Names(toMain', "ended", MayEnd')
       /\ EventsOnly(toMain')
  BY <1>1, <1>12, NamesMore DEF HInv, HearsTruth
<1>14. ASSUME NEW q \in Replies
       PROVE  /\ reply'[q].ended \subseteq reply'[q].started
              /\ Live(q)' => Truthful(q)'
  <2>1. /\ reply[q].ended \subseteq reply[q].started /\ (Live(q) => Truthful(q))
        /\ Segments(q) \subseteq Known
    BY DEF HInv, HeardIsQueued, HearsTruth, Truthful, RInv, RepliesOK, Known
  <2>2. Live(q)' => Live(q)
    BY <1>4 DEF Live
  <2>3. \A id \in Segments(q)' : id = NextId \/ id \in Segments(q)
    BY <1>3
  <2>4. \A id \in Segments(q) : rendered[id] = "whole" => rendered'[id] = "whole"
    BY <1>3, <2>1
  <2>5. ASSUME Live(q)'
        PROVE  Truthful(q)'
    <3>1. reply'[q].started \subseteq MayStart' /\ reply'[q].ended \subseteq MayEnd'
      BY <1>4, <1>12, <2>1, <2>2, <2>5 DEF Truthful
    <3>2. ASSUME NEW id \in Segments(q)'
          PROVE  InQueue(id)' \/ OnItsWay(id)' \/ rendered'[id] = "whole"
      <4>1. CASE id = NextId
        BY <1>10, <4>1
      <4>2. CASE id \in Segments(q)
        <5>1. InQueue(id) \/ OnItsWay(id) \/ rendered[id] = "whole"
          BY <2>1, <2>2, <2>5, <4>2 DEF Truthful
        <5> QED
          BY <1>10, <2>4, <4>2, <5>1
      <4> QED
        BY <2>3, <4>1, <4>2
    <3> QED
      BY <3>1, <3>2 DEF Truthful
  <2> QED
    BY <1>4, <2>1, <2>5
<1>15. ASSUME NEW q \in Replies, Settled(q)'
       PROVE  /\ Settled(q) /\ reply'[q].state = reply[q].state
              /\ reply'[q].queued = reply[q].queued /\ reply'[q].heard = reply[q].heard
  <2>1. q # r
    BY <1>1, <1>4, <1>15 DEF Settled, Live, Outcomes
  <2> QED
    BY <1>3, <1>15, <2>1 DEF Settled
<1> QED
  BY <1>7, <1>9, <1>13, <1>14, <1>15, StaysTrue

-----------------------------------------------------------------------------

LEMMA NextStaysTrue ==
  ASSUME StopInv, RInv, HInv, [Next]_vars
  PROVE  HInv'
<1>1. CASE UNCHANGED <<reply, sinkVars>>
  <2>1. SinkOrders
    BY <1>1 DEF SinkOrders, SinkOrdersOnly, sinkVars
  <2> QED
    BY <1>1, <2>1, SameReply, SinkStaysTrue
<1>2. ASSUME NEW r \in Replies,
             \/ Chunk(r) \/ Synthesise(r) \/ SynthesisFails(r)
             \/ \E failing \in BOOLEAN : StreamEnds(r, failing)
             \/ \E hasAudio \in BOOLEAN : Synthesised(r, hasAudio)
      PROVE  HInv'
  <2>1. SinkOrders
    BY <1>2 DEF Chunk, Synthesise, SynthesisFails, StreamEnds, Synthesised,
       SinkOrders, SinkOrdersOnly, sinkVars
  <2> QED
    BY <1>2, <2>1, ProvidersSayNoMore, SinkStaysTrue
<1>3. ASSUME NEW r \in Replies, Begin(r) \/ Finish(r) \/ Interrupt(r) \/ Enqueue(r)
      PROVE  HInv'
  BY <1>3, BeginStaysTrue, FinishStaysTrue, InterruptStaysTrue, EnqueueStaysTrue
<1>4. ASSUME NEW target, SinkGain(target), reply' = reply
      PROVE  HInv'
  <2> DEFINE m == Message("gain", target)
  <2>1. /\ m.type # "enqueue" /\ toAudio' = Append(toAudio, m)
        /\ UNCHANGED <<rendered, toMain, queue, headRead>>
    BY <1>4 DEF SinkGain, mainVars, audioVars, Message
  <2> HIDE DEF m
  <2>2. SinkOrders
    BY <2>1 DEF SinkOrders, SinkOrdersOnly
  <2> QED
    BY <1>4, <2>2, SameReply, SinkStaysTrue
<1>5. ASSUME NEW r \in Replies, Release(r) \/ Duck(r)
      PROVE  HInv'
  BY <1>1, <1>4, <1>5 DEF Release, Duck
<1>6. CASE Unduck
  BY <1>4, <1>6 DEF Unduck
<1>7. CASE Audio(AudioReceives) \/ Audio(RenderStarts) \/ Audio(RenderEnds) \/ Audio(FadeCompletes)
  BY <1>7, AudioStaysTrue, StartsStaysTrue, EndsStaysTrue, CompletesStaysTrue DEF Audio
<1>8. CASE UNCHANGED vars
  BY <1>1, <1>8 DEF vars, sinkVars
<1> QED
  BY <1>2, <1>3, <1>5, <1>6, <1>7, <1>8, MainTakes, MainStaysTrue DEF Next, Progress

LEMMA InitIsTrue ==
  ASSUME Init
  PROVE  HInv
<1>1. /\ rendered = <<>> /\ toAudio = <<>> /\ toMain = <<>> /\ queue = <<>> /\ headRead = FALSE
      /\ \A r \in Replies : reply[r] = NewReply
  BY DEF Init, SinkInit
<1>2. /\ NewReply.state = "none" /\ NewReply.started = {} /\ NewReply.ended = {}
  BY DEF NewReply
<1>3. DOMAIN <<>> = {} /\ Len(<<>>) = 0
  OBVIOUS
<1>4. EventsOnly(toMain) /\ InOrder
  BY <1>1, <1>3 DEF EventsOnly, InOrder, InLine, Known
<1>5. \A r \in Replies : ~Live(r) /\ ~Settled(r)
  BY <1>1, <1>2 DEF Live, Settled, Outcomes
<1>6. HearsTruth /\ HeardIsQueued /\ NothingImagined
  BY <1>1, <1>2, <1>3, <1>5 DEF HearsTruth, HeardIsQueued, NothingImagined, Names
<1> QED
  BY <1>4, <1>6 DEF HInv

\* As long as an answer waits for the fade before it, nothing an answer says was
\* heard was never rendered, and an answer that says `complete` was rendered to
\* its end, for any number of answers and sentences, though it decides by
\* messages of the audio thread that are late (reply.ts, heardAt and finish;
\* browser-output.ts; renderer.ts).
THEOREM NothingIsImagined ==
  ASSUME NextWaitsForFade
  PROVE  Spec => []NothingImagined
<1>1. Init => StopInv /\ RInv /\ HInv
  BY InitIsObeyed, InitRefines, InitIsTrue
<1>2. StopInv /\ RInv /\ HInv /\ [Next]_vars => StopInv' /\ RInv' /\ HInv'
  BY NextIsObeyed, NextRefines, NextStaysTrue
<1>3. HInv => NothingImagined
  BY DEF HInv
<1> QED
  BY <1>1, <1>2, <1>3, PTL DEF Spec

-----------------------------------------------------------------------------
(* Clips (Backchannel): what the scheduler asks of the sink.                 *)

\* The main thread takes an event, and a clip that is over gives its gain back.
LEMMA ReceivesTakes ==
  ASSUME Receives
  PROVE  LET posts == IF IsOver(Head(toMain)) THEN GivesBack(clip) ELSE <<>>
         IN  GainOnly(posts) /\ Takes(posts)
<1> DEFINE m == Head(toMain)
           posts == IF IsOver(m) THEN GivesBack(clip) ELSE <<>>
<1>1. toMain # <<>> /\ SinkHearsAndPosts(m, posts) /\ RepliesHear(m)
  BY DEF Receives
<1>2. GainOnly(posts)
  BY DEF GainOnly, GivesBack
<1> QED
  BY <1>1, <1>2 DEF Takes

\* A clip that is disposed of gives its gain back, if it took it.
LEMMA DisposeOrders ==
  ASSUME IInv, DisposeScheduler
  PROVE  /\ SinkGain("unity") \/ UNCHANGED sinkVars
         /\ UNCHANGED <<reply, released, wanted>>
<1>1. /\ toAudio' = toAudio \o GivesBack(clip)
      /\ UNCHANGED <<reply, released, wanted, toMain>>
      /\ UNCHANGED mainVars /\ UNCHANGED audioVars
  BY DEF DisposeScheduler
<1>2. PICK S : toAudio \in Seq(S)
  BY Counts DEF IsChannel
<1>3. CASE GivesBack(clip) = <<>>
  BY <1>1, <1>2, <1>3 DEF sinkVars, mainVars, audioVars
<1>4. CASE GivesBack(clip) = <<Message("gain", "unity")>>
  <2>1. \A m : toAudio \o <<m>> = Append(toAudio, m)
    BY <1>2
  <2> QED
    BY <1>1, <1>4, <2>1 DEF SinkGain
<1> QED
  BY <1>1, <1>3, <1>4 DEF GivesBack

\* A clip is enqueued under a number of its own.
LEMMA ClipEnqueued ==
  ASSUME IsChannel(rendered), Len(rendered) \in Nat, SinkEnqueue
  PROVE  /\ IsChannel(rendered') /\ Len(rendered') = Len(rendered) + 1
         /\ Known' = Known \union {NextId} /\ NextId \notin Known
         /\ \A k \in Known : k < NextId /\ rendered'[k] = rendered[k]
         /\ rendered'[NextId] = "none"
         /\ toAudio' = Append(toAudio, Message("enqueue", NextId))
         /\ UNCHANGED <<playing, fadingOut, toMain, queue, headRead, fade, gain>>
<1>1. PICK S : rendered \in Seq(S)
  BY DEF IsChannel
<1>2. rendered' = Append(rendered, "none")
  BY DEF SinkEnqueue
<1>3. /\ rendered' \in Seq(S \union {"none"}) /\ Len(rendered') = Len(rendered) + 1
      /\ \A k \in 1 .. Len(rendered) : rendered'[k] = rendered[k]
      /\ rendered'[Len(rendered) + 1] = "none"
  BY <1>1, <1>2
<1>4. Known' = Known \union {NextId} /\ NextId \notin Known /\ \A k \in Known : k < NextId
  BY <1>3 DEF Known, NextId
<1> QED
  BY <1>3, <1>4 DEF SinkEnqueue, Known, NextId, IsChannel, audioVars

-----------------------------------------------------------------------------
(* The answers.                                                              *)

\* A step of the answers alone, which leaves the clip as it is.
RepliesStep == (Next \/ UNCHANGED vars) /\ UNCHANGED clipVars

LEMMA ClipCases ==
  ASSUME [ClipNext]_<<vars, clipVars>>
  PROVE  RepliesStep \/ Receives \/ Consider \/ SpokenOver \/ DisposeScheduler
BY DEF ClipNext, RepliesStep, Replying, Next

LEMMA GainOrderKeeps ==
  ASSUME IInv, NEW target, SinkGain(target)
  PROVE  IInv'
<1>1. toAudio' = Append(toAudio, Message("gain", target))
      /\ UNCHANGED <<toMain, queue, fade, fadingOut>>
  BY DEF SinkGain, audioVars, mainVars
<1>2. Message("gain", target).type = "gain"
  BY DEF Message
<1> QED
  BY <1>1, <1>2, OrderKeeps

LEMMA ClipKeeps ==
  ASSUME IInv, [ClipNext]_<<vars, clipVars>>
  PROVE  IInv'
<1>1. CASE RepliesStep
  BY <1>1, NextKeeps DEF RepliesStep
<1>2. CASE Receives
  BY <1>2, ReceivesTakes, MainKeeps
<1>3. CASE Consider
  <2>1. toAudio' = Append(toAudio, Message("enqueue", NextId))
        /\ UNCHANGED <<toMain, queue, fade, fadingOut>>
    BY <1>3 DEF Consider, SinkEnqueue, audioVars
  <2>2. Message("enqueue", NextId).type = "enqueue"
    BY DEF Message
  <2> QED
    BY <2>1, <2>2, OrderKeeps
<1>4. CASE SpokenOver
  BY <1>4, GainOrderKeeps, FadeOutKeeps DEF SpokenOver
<1>5. CASE DisposeScheduler
  BY <1>5, DisposeOrders, GainOrderKeeps, SinkLeftAlone
<1> QED
  BY <1>1, <1>2, <1>3, <1>4, <1>5, ClipCases

\* What the owner of an answer is told of it is the same with clips as without.
LEMMA ConsiderRefines ==
  ASSUME RInv, IInv', Consider
  PROVE  RInv' /\ Spokes
<1> DEFINE m == Message("enqueue", NextId)
<1>1. /\ IsChannel(rendered') /\ Len(rendered') = Len(rendered) + 1
      /\ Known' = Known \union {NextId}
      /\ toAudio' = Append(toAudio, m)
      /\ UNCHANGED <<playing, toMain, queue>>
  BY Holding, ClipEnqueued DEF Consider
<1>2. UNCHANGED <<reply, released>>
  BY DEF Consider
<1>3. m.type = "enqueue" /\ m.arg = NextId
  BY DEF Message
<1> HIDE DEF m
<1>4. \A r \in Replies : Segments(r)' = Segments(r) /\ (Live(r)' <=> Live(r))
  BY <1>2 DEF Segments, Live
<1>5. RepliesOK'
  <2>1. \A r \in Replies : Segments(r) \subseteq 1 .. Len(rendered')
    BY <1>1, Holding DEF RInv, RepliesOK
  <2> QED
    BY <1>1, <1>2, <1>4, <2>1 DEF RInv, RepliesOK
<1>6. OneByOne'
  BY <1>2 DEF RInv, OneByOne
<1>7. SinkOK'
  <2>1. Names(toAudio, "enqueue", Known') /\ Names(toMain, "started", Known')
    BY <1>1 DEF RInv, SinkOK, Names
  <2>2. Names(toAudio', "enqueue", Known')
    BY <1>1, <1>3, <2>1, NamesPosted, Holding
  <2> QED
    BY <1>1, <2>1, <2>2 DEF RInv, SinkOK
<1>8. HearsItself'
  BY <1>1, <1>2, <1>4 DEF RInv, HearsItself
<1>9. Told' = Told
  BY <1>2, SameReply, NothingTold
<1> QED
  BY <1>2, <1>5, <1>6, <1>7, <1>8, <1>9 DEF RInv, Spokes

LEMMA SpokenOverRefines ==
  ASSUME RInv, IInv', SpokenOver
  PROVE  RInv' /\ Spokes
<1>1. UNCHANGED <<reply, released>> /\ ((\E target : SinkGain(target)) \/ SinkFadeOut)
  BY DEF SpokenOver
<1>2. CASE \E target : SinkGain(target)
  BY <1>1, <1>2, GainRefines
<1>3. CASE SinkFadeOut
  <2> DEFINE m == Message("fade", 0)
  <2>1. UNCHANGED <<rendered, playing, toMain, queue>>
        /\ (toAudio' = toAudio \/ toAudio' = Append(toAudio, m))
    BY <1>3 DEF SinkFadeOut, audioVars
  <2>2. m.type # "enqueue"
    BY DEF Message
  <2> HIDE DEF m
  <2>3. SinkOK' /\ IsChannel(rendered') /\ Len(rendered') = Len(rendered) /\ playing' = playing
    <3>1. CASE toAudio' = toAudio
      BY <2>1, <3>1, Holding DEF RInv, SinkOK, Names, Known
    <3>2. CASE toAudio' = Append(toAudio, m)
      BY <2>1, <2>2, <3>2, SinkOrdered
    <3> QED
      BY <2>1, <3>1, <3>2
  <2> QED
    BY <1>1, <2>3, SameReply, QuietRefines
<1> QED
  BY <1>1, <1>2, <1>3

LEMMA DisposeRefines ==
  ASSUME RInv, IInv', DisposeScheduler
  PROVE  RInv' /\ Spokes
<1>1. /\ SinkGain("unity") \/ UNCHANGED sinkVars
      /\ UNCHANGED <<reply, released>>
  BY Holding, DisposeOrders
<1>2. CASE SinkGain("unity")
  BY <1>1, <1>2, GainRefines
<1>3. CASE UNCHANGED sinkVars
  BY <1>1, <1>3, SinkUnchanged, SameReply, QuietRefines
<1> QED
  BY <1>1, <1>2, <1>3

LEMMA ClipRefines ==
  ASSUME RInv, [ClipNext]_<<vars, clipVars>>
  PROVE  RInv' /\ Spokes
<1>1. IInv'
  BY Holding, ClipKeeps
<1>2. CASE RepliesStep
  BY <1>2, NextRefines DEF RepliesStep
<1>3. CASE Receives
  BY <1>1, <1>3, ReceivesTakes, MainRefines
<1> QED
  BY <1>1, <1>2, <1>3, ConsiderRefines, SpokenOverRefines, DisposeRefines, ClipCases

\* With clips before, between and under them, and whatever a clip does when it is
\* talked over, answers still keep SpokenReply's promise to who started them
\* (reply.ts, backchannel/scheduler.ts).
THEOREM ClipsRefineSpokenReply == ClipSpec => KeepsSpokenReply
<1>1. ClipInit => RInv /\ Spoken!Init
  BY InitRefines DEF ClipInit
<1>2. RInv /\ [ClipNext]_<<vars, clipVars>> => RInv'
  BY ClipRefines
<1>3. RInv /\ [ClipNext]_<<vars, clipVars>> => [Spoken!Next]_(Spoken!replyVars)
  BY ClipRefines DEF Spokes, Told, StandingOf, Spoken!replyVars
<1> QED
  BY <1>1, <1>2, <1>3, PTL DEF ClipSpec, KeepsSpokenReply, Spoken!Spec

-----------------------------------------------------------------------------
(* What was stopped, and what was heard, when a clip only ever ducks.        *)

LEMMA ConsiderIsObeyed ==
  ASSUME StopInv, IInv', Consider
  PROVE  StopInv'
<1> DEFINE m == Message("enqueue", NextId)
<1>1. /\ IsChannel(rendered') /\ Len(rendered') = Len(rendered) + 1
      /\ NextId \notin Known
      /\ toAudio' = Append(toAudio, m)
      /\ UNCHANGED <<fadingOut, queue, fade>>
  BY Standing, ClipEnqueued DEF Consider
<1>2. reply' = reply
  BY DEF Consider
<1>3. m.arg = NextId
  BY DEF Message
<1> HIDE DEF m
<1>4. \A r \in Replies : /\ Segments(r)' = Segments(r) /\ (Live(r)' <=> Live(r))
                         /\ (Stopped(r)' <=> Stopped(r))
  BY <1>2 DEF Segments, Live, Stopped
<1>5. RepliesOK'
  <2>1. \A r \in Replies : Segments(r) \subseteq 1 .. Len(rendered')
    BY <1>1, Standing DEF StopInv, RepliesOK
  <2> QED
    BY <1>1, <1>2, <1>4, <2>1 DEF StopInv, RepliesOK
<1>6. OneByOne' /\ FadesAreOver'
  BY <1>1, <1>2, <1>4 DEF StopInv, OneByOne, FadesAreOver
<1>7. StoppedIsDropped'
  <2> SUFFICES ASSUME NEW r \in Replies, Stopped(r), NEW id \in Segments(r)
               PROVE  Dropped(id, queue', toAudio', fade')
    BY <1>4 DEF StoppedIsDropped
  <2>1. Dropped(id, queue, toAudio, fade) /\ id # NextId
    BY <1>1 DEF StopInv, StoppedIsDropped, RepliesOK, Known
  <2> QED
    BY <1>1, <1>3, <2>1, DroppedPosted, Standing
<1> QED
  BY <1>5, <1>6, <1>7 DEF StopInv

LEMMA ClipIsObeyed ==
  ASSUME NextWaitsForFade, Overlap = "duck", StopInv, [ClipNext]_<<vars, clipVars>>
  PROVE  StopInv'
<1>1. IInv'
  BY Standing, ClipKeeps
<1>2. CASE RepliesStep
  BY <1>2, NextIsObeyed DEF RepliesStep
<1>3. CASE Receives
  BY <1>1, <1>3, ReceivesTakes, MainReceivesKeeps
<1>4. CASE SpokenOver
  BY <1>1, <1>4, GainKeeps DEF SpokenOver
<1>5. CASE DisposeScheduler
  BY <1>1, <1>5, Standing, DisposeOrders, GainKeeps, UnchangedGoesOn, SinkAtRest
<1> QED
  BY <1>1, <1>2, <1>3, <1>4, <1>5, ConsiderIsObeyed, ClipCases

LEMMA ConsiderStaysTrue ==
  ASSUME RInv, HInv, Consider
  PROVE  HInv'
<1> DEFINE m == Message("enqueue", NextId)
<1>1. /\ Known' = Known \union {NextId} /\ NextId \notin Known
      /\ \A k \in Known : k < NextId /\ rendered'[k] = rendered[k]
      /\ rendered'[NextId] = "none"
      /\ toAudio' = Append(toAudio, m)
      /\ UNCHANGED <<toMain, queue, headRead>>
  BY Holding, ClipEnqueued DEF Consider
<1>2. reply' = reply
  BY DEF Consider
<1>3. m.type = "enqueue" /\ m.arg = NextId
  BY DEF Message
<1> HIDE DEF m
<1>4. /\ InLine(queue, toAudio')
      /\ \A k, read : Passed(k, queue, toAudio, read) /\ k < NextId
                       => Passed(k, queue, toAudio', read)
  <2>1. /\ \A i \in DOMAIN queue : queue[i] < NextId
        /\ \A i \in DOMAIN toAudio : toAudio[i].type = "enqueue" => toAudio[i].arg < NextId
    BY <1>1 DEF RInv, SinkOK, Names
  <2> QED
    BY <1>1, <1>3, <2>1, LinePosted, Holding DEF HInv, InOrder
<1>5. InOrder'
  <2>1. \A k \in Known' : rendered'[k] # "none" => k \in Known /\ rendered[k] # "none"
    BY <1>1
  <2> QED
    BY <1>1, <1>4, <2>1 DEF HInv, InOrder
<1>6. Grown
  BY <1>1 DEF Grown
<1>7. \A id : InQueue(id) \/ OnItsWay(id) => InQueue(id)' \/ OnItsWay(id)'
  <2>1. PICK S : toAudio \in Seq(S)
    BY Holding DEF IsChannel
  <2>2. \A i \in DOMAIN toAudio : i \in DOMAIN toAudio' /\ toAudio'[i] = toAudio[i]
    BY <1>1, <2>1
  <2>3. \A id : InQueue(id) => InQueue(id)'
    BY <1>1 DEF InQueue
  <2>4. \A id : OnItsWay(id) => OnItsWay(id)'
    BY <2>2 DEF OnItsWay
  <2> QED
    BY <2>3, <2>4
<1>8. LiveIds' = LiveIds
  BY <1>2 DEF LiveIds, Live, Segments
<1>9. MayStart \subseteq MayStart' /\ MayEnd \subseteq MayEnd'
  BY <1>6, <1>8, MayGrow
<1>10. /\ Names(toMain', "started", MayStart') /\ Names(toMain', "ended", MayEnd')
       /\ EventsOnly(toMain')
  BY <1>1, <1>9, NamesMore DEF HInv, HearsTruth
<1> QED
  BY <1>2, <1>5, <1>6, <1>7, <1>10, SameReply, QuietIsTrue

LEMMA GainStaysTrue ==
  ASSUME RInv, HInv, NEW target, SinkGain(target), reply' = reply
  PROVE  HInv'
<1> DEFINE m == Message("gain", target)
<1>1. /\ m.type # "enqueue" /\ toAudio' = Append(toAudio, m)
      /\ UNCHANGED <<rendered, toMain, queue, headRead>>
  BY DEF SinkGain, mainVars, audioVars, Message
<1> HIDE DEF m
<1>2. SinkOrders
  BY <1>1 DEF SinkOrders, SinkOrdersOnly
<1> QED
  BY <1>2, SameReply, SinkStaysTrue

LEMMA ClipStaysTrue ==
  ASSUME Overlap = "duck", StopInv, RInv, HInv, [ClipNext]_<<vars, clipVars>>
  PROVE  HInv'
<1>1. CASE RepliesStep
  BY <1>1, NextStaysTrue DEF RepliesStep
<1>2. CASE Receives
  BY <1>2, ReceivesTakes, MainStaysTrue
<1>3. CASE SpokenOver
  BY <1>3, GainStaysTrue DEF SpokenOver
<1>4. CASE DisposeScheduler
  <2>1. reply' = reply /\ (SinkGain("unity") \/ UNCHANGED sinkVars)
    BY <1>4, Holding, DisposeOrders
  <2>2. CASE UNCHANGED sinkVars
    <3>1. SinkOrders
      BY <2>2 DEF SinkOrders, SinkOrdersOnly, sinkVars
    <3> QED
      BY <2>1, <3>1, SameReply, SinkStaysTrue
  <2> QED
    BY <2>1, <2>2, GainStaysTrue
<1> QED
  BY <1>1, <1>2, <1>3, <1>4, ConsiderStaysTrue, ClipCases

\* As long as an answer waits for the fade before it, and a clip ducks when it is
\* talked over, what a stopped answer left in the queue or on its way there is
\* never heard again, with clips before, between and under the answers (reply.ts,
\* interrupt; backchannel/scheduler.ts).
THEOREM InterruptObeyedWithClips ==
  ASSUME NextWaitsForFade, Overlap = "duck"
  PROVE  ClipSpec => []InterruptIsObeyed
<1>1. ClipInit => StopInv
  BY InitIsObeyed DEF ClipInit
<1>2. StopInv /\ [ClipNext]_<<vars, clipVars>> => StopInv'
  BY ClipIsObeyed
<1>3. StopInv => InterruptIsObeyed
  BY StopIsObeyed
<1> QED
  BY <1>1, <1>2, <1>3, PTL DEF ClipSpec

\* As long as both hold, nothing an answer says was heard was never rendered,
\* with clips before, between and under the answers, though a clip may be what
\* plays when an answer asks the sink for its position (reply.ts, heardAt).
THEOREM NothingImaginedWithClips ==
  ASSUME NextWaitsForFade, Overlap = "duck"
  PROVE  ClipSpec => []NothingImagined
<1>1. ClipInit => StopInv /\ RInv /\ HInv
  BY InitIsObeyed, InitRefines, InitIsTrue DEF ClipInit
<1>2. StopInv /\ RInv /\ HInv /\ [ClipNext]_<<vars, clipVars>> => StopInv' /\ RInv' /\ HInv'
  BY ClipIsObeyed, ClipRefines, ClipStaysTrue
<1>3. HInv => NothingImagined
  BY DEF HInv
<1> QED
  BY <1>1, <1>2, <1>3, PTL DEF ClipSpec

-----------------------------------------------------------------------------
(* The gain: which orders stand.                                             *)

Gains == {"unity", "ducked"}

Ducks(m) == m.type = "gain" /\ m.arg = "ducked"

\* A fade restores the gain for whatever comes after it.
Undoes(m) == m.type = "fade" \/ (m.type = "gain" /\ m.arg = "unity")

\* Behind place i of the channel something turns the voice up again.
Undone(c, i) == \E j \in DOMAIN c : j > i /\ Undoes(c[j])

\* A duck is on its way, and nothing behind it undoes it.
DuckComes(c) == \E i \in DOMAIN c : Ducks(c[i]) /\ ~Undone(c, i)

\* The voice is down, or will be, once every order has arrived.
Stands(c, target, running) ==
  \/ target = "ducked" /\ running = "none" /\ ~Undone(c, 0)
  \/ DuckComes(c)

Clips == [id : Nat, overlapped : BOOLEAN]

\* While the gate has the voice down no fade is pending and whoever is answering
\* has been heard of.  A duck stands only for a reason; and the gate's does stand
\* until a clip is played.
GainOK ==
  /\ wanted \in Gains /\ clips \in Nat /\ clip \in Clips
  /\ Names(toAudio, "gain", Gains)
  /\ wanted = "ducked" => ~fadingOut /\ \A r \in Replies : Live(r) => reply[r].started # {}
  /\ Stands(toAudio, gain, fade) => wanted = "ducked" \/ clip.overlapped
  /\ clips = 0 => clip = NoClip
  /\ wanted = "ducked" /\ clips = 0 => Stands(toAudio, gain, fade)

LEMMA OrderKinds ==
  ASSUME NEW m
  PROVE  /\ ~(Ducks(m) /\ Undoes(m))
         /\ m.type = "enqueue" => ~Ducks(m) /\ ~Undoes(m)
         /\ m.type = "gain" /\ m.arg \in Gains => Ducks(m) \/ Undoes(m)
BY DEF Ducks, Undoes, Gains

\* An order is posted.
LEMMA StandsPosted ==
  ASSUME NEW c, IsChannel(c), NEW m
  PROVE  /\ Undone(Append(c, m), 0) <=> Undone(c, 0) \/ Undoes(m)
         /\ DuckComes(Append(c, m)) <=> Ducks(m) \/ (DuckComes(c) /\ ~Undoes(m))
<1> DEFINE d == Append(c, m)
<1>1. PICK S : c \in Seq(S)
  BY DEF IsChannel
<1>2. /\ Len(c) \in Nat /\ DOMAIN c = 1 .. Len(c) /\ DOMAIN d = 1 .. (Len(c) + 1)
      /\ \A i \in 1 .. Len(c) : d[i] = c[i]
      /\ d[Len(c) + 1] = m
  BY <1>1
<1> HIDE DEF d
<1>3. \A i \in 0 .. Len(c) : Undone(d, i) <=> Undone(c, i) \/ Undoes(m)
  <2> TAKE i \in 0 .. Len(c)
  <2>1. Undone(d, i) => Undone(c, i) \/ Undoes(m)
    <3> SUFFICES ASSUME NEW j \in DOMAIN d, j > i, Undoes(d[j])
                 PROVE  Undone(c, i) \/ Undoes(m)
      BY DEF Undone
    <3>1. (j \in DOMAIN c /\ d[j] = c[j]) \/ d[j] = m
      BY <1>2
    <3> QED
      BY <3>1 DEF Undone
  <2>2. Undone(c, i) => Undone(d, i)
    <3> SUFFICES ASSUME NEW j \in DOMAIN c, j > i, Undoes(c[j])
                 PROVE  Undone(d, i)
      BY DEF Undone
    <3>1. j \in DOMAIN d /\ d[j] = c[j]
      BY <1>2
    <3> QED
      BY <3>1 DEF Undone
  <2>3. Undoes(m) => Undone(d, i)
    <3>1. Len(c) + 1 \in DOMAIN d /\ Len(c) + 1 > i
      BY <1>2
    <3> QED
      BY <1>2, <3>1 DEF Undone
  <2> QED
    BY <2>1, <2>2, <2>3
<1>4. ~Undone(d, Len(c) + 1)
  BY <1>2 DEF Undone
<1>5. DuckComes(d) => Ducks(m) \/ (DuckComes(c) /\ ~Undoes(m))
  <2> SUFFICES ASSUME NEW i \in DOMAIN d, Ducks(d[i]), ~Undone(d, i)
               PROVE  Ducks(m) \/ (DuckComes(c) /\ ~Undoes(m))
    BY DEF DuckComes
  <2>1. (i \in DOMAIN c /\ i \in 0 .. Len(c) /\ d[i] = c[i]) \/ d[i] = m
    BY <1>2
  <2> QED
    BY <1>3, <2>1 DEF DuckComes
<1>6. Ducks(m) => DuckComes(d)
  <2>1. Len(c) + 1 \in DOMAIN d
    BY <1>2
  <2> QED
    BY <1>2, <1>4, <2>1 DEF DuckComes
<1>7. DuckComes(c) /\ ~Undoes(m) => DuckComes(d)
  <2> SUFFICES ASSUME NEW i \in DOMAIN c, Ducks(c[i]), ~Undone(c, i), ~Undoes(m)
               PROVE  DuckComes(d)
    BY DEF DuckComes
  <2>1. i \in DOMAIN d /\ i \in 0 .. Len(c) /\ d[i] = c[i]
    BY <1>2
  <2> QED
    BY <1>3, <2>1 DEF DuckComes
<1>8. 0 \in 0 .. Len(c)
  BY <1>2
<1> QED
  BY <1>3, <1>5, <1>6, <1>7, <1>8 DEF d

\* The audio thread takes an order.
LEMMA StandsTaken ==
  ASSUME NEW c, IsChannel(c), c # <<>>
  PROVE  /\ Undone(c, 0) <=> Undoes(Head(c)) \/ Undone(Tail(c), 0)
         /\ DuckComes(c) <=> (Ducks(Head(c)) /\ ~Undone(Tail(c), 0)) \/ DuckComes(Tail(c))
<1> DEFINE d == Tail(c)
           m == Head(c)
<1>1. PICK S : c \in Seq(S)
  BY DEF IsChannel
<1>2. /\ Len(c) \in Nat /\ Len(c) > 0 /\ DOMAIN c = 1 .. Len(c)
      /\ DOMAIN d = 1 .. (Len(c) - 1) /\ m = c[1]
  BY <1>1
<1>3. \A i \in 1 .. (Len(c) - 1) : d[i] = c[i + 1]
  BY <1>1, <1>2
<1> HIDE DEF d, m
<1>4. \A i \in 1 .. Len(c) : Undone(c, i) <=> Undone(d, i - 1)
  <2> TAKE i \in 1 .. Len(c)
  <2>1. Undone(c, i) => Undone(d, i - 1)
    <3> SUFFICES ASSUME NEW j \in DOMAIN c, j > i, Undoes(c[j])
                 PROVE  Undone(d, i - 1)
      BY DEF Undone
    <3>1. j - 1 \in DOMAIN d /\ j - 1 > i - 1 /\ d[j - 1] = c[j]
      BY <1>2, <1>3
    <3> QED
      BY <3>1 DEF Undone
  <2>2. Undone(d, i - 1) => Undone(c, i)
    <3> SUFFICES ASSUME NEW j \in DOMAIN d, j > i - 1, Undoes(d[j])
                 PROVE  Undone(c, i)
      BY DEF Undone
    <3>1. j + 1 \in DOMAIN c /\ j + 1 > i /\ c[j + 1] = d[j]
      BY <1>2, <1>3
    <3> QED
      BY <3>1 DEF Undone
  <2> QED
    BY <2>1, <2>2
<1>5. 1 \in 1 .. Len(c) /\ 1 - 1 = 0
  BY <1>2
<1>6. Undone(c, 0) <=> Undoes(m) \/ Undone(c, 1)
  <2>1. \A j \in DOMAIN c : j > 0 /\ (j = 1 \/ j > 1)
    BY <1>2
  <2> QED
    BY <1>2, <1>5, <2>1 DEF Undone
<1>7. Undone(c, 1) <=> Undone(d, 0)
  BY <1>4, <1>5
<1>8. DuckComes(c) => (Ducks(m) /\ ~Undone(d, 0)) \/ DuckComes(d)
  <2> SUFFICES ASSUME NEW i \in DOMAIN c, Ducks(c[i]), ~Undone(c, i)
               PROVE  (Ducks(m) /\ ~Undone(d, 0)) \/ DuckComes(d)
    BY DEF DuckComes
  <2>1. CASE i = 1
    BY <1>2, <1>7, <2>1
  <2>2. CASE i # 1
    <3>1. i - 1 \in DOMAIN d /\ d[i - 1] = c[i]
      BY <1>2, <1>3, <2>2
    <3>2. ~Undone(d, i - 1)
      BY <1>2, <1>4
    <3> QED
      BY <3>1, <3>2 DEF DuckComes
  <2> QED
    BY <2>1, <2>2
<1>9. Ducks(m) /\ ~Undone(d, 0) => DuckComes(c)
  BY <1>2, <1>5, <1>7 DEF DuckComes
<1>10. DuckComes(d) => DuckComes(c)
  <2> SUFFICES ASSUME NEW i \in DOMAIN d, Ducks(d[i]), ~Undone(d, i)
               PROVE  DuckComes(c)
    BY DEF DuckComes
  <2>1. i + 1 \in DOMAIN c /\ i + 1 \in 1 .. Len(c) /\ c[i + 1] = d[i] /\ (i + 1) - 1 = i
    BY <1>2, <1>3
  <2>2. ~Undone(c, i + 1)
    BY <1>4, <2>1
  <2> QED
    BY <2>1, <2>2 DEF DuckComes
<1> QED
  BY <1>6, <1>7, <1>8, <1>9, <1>10 DEF d, m

-----------------------------------------------------------------------------
(* The gain: the steps.                                                      *)

\* No answer begins or is forgotten to have been heard.
HeardOfStill ==
  \A r \in Replies : Live(r)' => Live(r) /\ (reply[r].started # {} => reply'[r].started # {})

\* Nothing is ordered, and nothing arrives.
LEMMA GainAtRest ==
  ASSUME GainOK, UNCHANGED <<wanted, gain, fade, toAudio, clip, clips>>, fadingOut' => fadingOut,
         wanted = "unity" \/ HeardOfStill
  PROVE  GainOK'
BY DEF GainOK, HeardOfStill, Gains

\* The answers do something of which the sink does not hear.
LEMMA GainWaits ==
  ASSUME RInv, GainOK, UNCHANGED clipVars, NEW r \in Replies,
         \/ Begin(r) \/ Release(r) \/ Chunk(r) \/ Synthesise(r) \/ SynthesisFails(r)
         \/ \E failing \in BOOLEAN : StreamEnds(r, failing)
         \/ \E hasAudio \in BOOLEAN : Synthesised(r, hasAudio)
  PROVE  GainOK'
<1>1. UNCHANGED <<wanted, gain, fade, toAudio, fadingOut, clip, clips>>
  BY DEF Begin, Release, Chunk, Synthesise, SynthesisFails, StreamEnds, Synthesised, sinkVars,
     clipVars
<1>2. Begin(r) => wanted = "unity"
  BY DEF Begin
<1>3. ~Begin(r) => SaysNoMore
  BY ProvidersSayNoMore, SameReply DEF Release
<1>4. SaysNoMore => HeardOfStill
  BY DEF SaysNoMore, Outward, HeardOfStill, Live
<1> QED
  BY <1>1, <1>2, <1>3, <1>4, GainAtRest

\* Of an answer that ends none is left.
LEMMA EndsAlone ==
  ASSUME RInv, NEW r \in Replies, Finish(r) \/ Interrupt(r)
  PROVE  \A q \in Replies : ~Live(q)'
<1>1. Live(r)
  BY DEF Finish, RanOut, Interrupt
<1>2. \E to \in Outcomes : \E heard : reply' = [reply EXCEPT ![r].state = to, ![r].heard = heard]
  <2> DEFINE ending == IF reply[r].failure THEN "failed" ELSE "complete"
             cutting == IF HeardBy(r) = {} THEN "abandoned" ELSE "interrupted"
             all == IF reply[r].failure THEN HeardBy(r) ELSE Segments(r)
             some == HeardBy(r)
  <2>1. ending \in Outcomes /\ cutting \in Outcomes
    BY DEF Outcomes
  <2>2. \/ reply' = [reply EXCEPT ![r].state = ending, ![r].heard = all]
        \/ reply' = [reply EXCEPT ![r].state = cutting, ![r].heard = some]
    BY DEF Finish, Interrupt
  <2> HIDE DEF ending, cutting, all, some
  <2> QED
    BY <2>1, <2>2
<1>6. PICK to \in Outcomes :
        \E heard : reply' = [reply EXCEPT ![r].state = to, ![r].heard = heard]
  BY <1>2
<1>3. PICK heard : reply' = [reply EXCEPT ![r].state = to, ![r].heard = heard]
  BY <1>6
<1>4. reply'[r].state = to /\ \A q \in Replies : q # r => reply'[q].state = reply[q].state
  <2> DEFINE f == [reply EXCEPT ![r].state = to]
  <2>1. reply' = [f EXCEPT ![r].heard = heard]
    BY <1>3, Zenon
  <2>2. /\ DOMAIN f = Replies /\ DOMAIN f[r] = Fields /\ f[r].state = to
        /\ \A q \in Replies : q # r => f[q] = reply[q]
    BY FieldSet, Holding DEF Outward
  <2> HIDE DEF f
  <2>3. "heard" \in Fields /\ "state" \in Fields
    BY DEF Fields, NewReply
  <2> QED
    BY <2>1, <2>2, <2>3, FieldSet
<1>5. \A q \in Replies : q # r => ~Live(q)
  <2> SUFFICES ASSUME NEW q \in Replies, q # r, Live(q)
               PROVE  FALSE
    OBVIOUS
  <2>1. q < r \/ r < q
    BY ReplyAssumption
  <2> QED
    BY <1>1, <2>1 DEF RInv, OneByOne, Live, Outcomes
<1> QED
  BY <1>4, <1>5 DEF Live, Outcomes

LEMMA GainFinish ==
  ASSUME RInv, GainOK, UNCHANGED clipVars, NEW r \in Replies, Finish(r)
  PROVE  GainOK'
<1>1. UNCHANGED <<wanted, gain, fade, toAudio, fadingOut, clip, clips>>
  BY DEF Finish, sinkVars, clipVars
<1>2. HeardOfStill
  BY EndsAlone DEF HeardOfStill
<1> QED
  BY <1>1, <1>2, GainAtRest

\* A segment is posted, of an answer or a clip.
LEMMA GainEnqueued ==
  ASSUME IInv, GainOK, UNCHANGED <<wanted, gain, fade, fadingOut>>,
         toAudio' = Append(toAudio, Message("enqueue", NextId)),
         HeardOfStill, clip' \in Clips, clip'.overlapped = clip.overlapped,
         clips' \in Nat, clips' = 0 => clips = 0 /\ clip' = clip
  PROVE  GainOK'
<1> DEFINE m == Message("enqueue", NextId)
<1>1. m.type = "enqueue"
  BY DEF Message
<1> HIDE DEF m
<1>2. Names(toAudio', "gain", Gains)
  BY <1>1, NamesPosted, Counts DEF GainOK, m
<1>3. Stands(toAudio', gain', fade') <=> Stands(toAudio, gain, fade)
  BY <1>1, OrderKinds, StandsPosted, Counts DEF Stands, m
<1> QED
  BY <1>2, <1>3 DEF GainOK, HeardOfStill

LEMMA GainEnqueue ==
  ASSUME RInv, GainOK, UNCHANGED clipVars, NEW r \in Replies, Enqueue(r)
  PROVE  GainOK'
<1>1. UNCHANGED <<wanted, gain, fade, fadingOut, clip, clips>>
      /\ toAudio' = Append(toAudio, Message("enqueue", NextId))
  BY DEF Enqueue, SinkEnqueue, audioVars, clipVars
<1>2. HeardOfStill
  <2>1. /\ \A a \in Outward \ {"queued"} : reply'[r][a] = reply[r][a]
        /\ \A q \in Replies : q # r => reply'[q] = reply[q]
    BY Enqueued
  <2> QED
    BY <2>1 DEF HeardOfStill, Outward, Live
<1>3. clips \in Nat /\ clip \in Clips
  BY DEF GainOK
<1> QED
  BY <1>1, <1>2, <1>3, Holding, GainEnqueued

LEMMA GainConsider ==
  ASSUME RInv, GainOK, Consider
  PROVE  GainOK'
<1>1. UNCHANGED <<wanted, gain, fade, fadingOut>>
      /\ toAudio' = Append(toAudio, Message("enqueue", NextId))
  BY DEF Consider, SinkEnqueue, audioVars
<1>2. clip = NoClip /\ clip' = [NoClip EXCEPT !.id = NextId] /\ clips' = clips + 1
      /\ reply' = reply
  BY DEF Consider
<1>3. clip'.overlapped = clip.overlapped /\ clip' \in Clips
  <2>1. NextId \in Nat
    BY Holding DEF NextId
  <2> QED
    BY <1>2, <2>1 DEF NoClip, Clips
<1>4. HeardOfStill
  BY <1>2 DEF HeardOfStill, Live
<1>5. clips' \in Nat /\ clips' # 0
  BY <1>2 DEF GainOK
<1> QED
  BY <1>1, <1>3, <1>4, <1>5, Holding, GainEnqueued

\* The gate's duck, of an answer that is heard: no fade is pending then.
LEMMA GainDuck ==
  ASSUME StopInv, RInv, GainOK, UNCHANGED clipVars, NEW r \in Replies, Duck(r)
  PROVE  GainOK'
<1> DEFINE m == Message("gain", "ducked")
<1>1. /\ Live(r) /\ reply[r].started # {} /\ wanted' = "ducked" /\ reply' = reply
      /\ toAudio' = Append(toAudio, m) /\ UNCHANGED <<fadingOut, gain, fade, clip, clips>>
  BY DEF Duck, SinkGain, mainVars, audioVars, clipVars
<1>2. Ducks(m) /\ (m.type = "gain" => m.arg \in Gains)
  BY DEF Ducks, Message, Gains
<1> HIDE DEF m
<1>3. Names(toAudio', "gain", Gains)
  BY <1>1, <1>2, NamesPosted, Holding DEF GainOK
<1>4. Stands(toAudio', gain', fade')
  BY <1>1, <1>2, StandsPosted, Holding DEF Stands
<1>5. ~fadingOut
  <2>1. Segments(r) # {}
    BY <1>1 DEF RInv, HearsItself
  <2>2. reply[r].queued # <<>>
    BY <2>1 DEF Segments
  <2> QED
    BY <1>1, <2>2 DEF StopInv, FadesAreOver
<1>6. \A q \in Replies : Live(q)' => q = r
  <2> SUFFICES ASSUME NEW q \in Replies, q # r, Live(q)
               PROVE  FALSE
    BY <1>1 DEF Live
  <2>1. q < r \/ r < q
    BY ReplyAssumption
  <2> QED
    BY <1>1, <2>1 DEF RInv, OneByOne, Live, Outcomes
<1> QED
  BY <1>1, <1>3, <1>4, <1>5, <1>6 DEF GainOK, Gains

\* The gain is given back: nothing stands any more.
LEMMA GainUp ==
  ASSUME IInv, GainOK, NEW m, Undoes(m), m.type = "gain" => m.arg \in Gains,
         toAudio' = Append(toAudio, m), UNCHANGED <<gain, fade>>,
         wanted' \in Gains, clips' \in Nat, clip' \in Clips, clips' = 0 => clip' = NoClip,
         wanted' = "unity" \/
           /\ wanted' = wanted /\ (fadingOut' => fadingOut) /\ HeardOfStill /\ clips' # 0
  PROVE  GainOK'
<1>1. Names(toAudio', "gain", Gains)
  BY NamesPosted, Counts DEF GainOK
<1>2. ~Stands(toAudio', gain', fade')
  BY OrderKinds, StandsPosted, Counts DEF Stands
<1> QED
  BY <1>1, <1>2 DEF GainOK, HeardOfStill, Gains

LEMMA GainUnduck ==
  ASSUME RInv, GainOK, UNCHANGED clipVars, Unduck
  PROVE  GainOK'
<1> DEFINE m == Message("gain", "unity")
<1>1. /\ wanted' = "unity" /\ toAudio' = Append(toAudio, m)
      /\ UNCHANGED <<gain, fade, clip, clips>>
  BY DEF Unduck, SinkGain, audioVars, clipVars
<1>2. Undoes(m) /\ m.arg \in Gains
  BY DEF Undoes, Message, Gains
<1> HIDE DEF m
<1>3. wanted' \in Gains /\ clips \in Nat /\ clip \in Clips /\ (clips = 0 => clip = NoClip)
  BY <1>1 DEF GainOK, Gains
<1> QED
  BY <1>1, <1>2, <1>3, Holding, GainUp

\* An answer is stopped.  If it was ducked it was heard and no fade was pending:
\* the one it asks for is behind the duck.
LEMMA GainInterrupt ==
  ASSUME RInv, GainOK, UNCHANGED clipVars, NEW r \in Replies, Interrupt(r)
  PROVE  GainOK'
<1> DEFINE m == Message("fade", 0)
<1>1. Live(r) /\ wanted' = "unity" /\ InterruptSink(r)
  BY DEF Interrupt
<1>2. UNCHANGED <<gain, fade, clip, clips>>
  BY <1>1 DEF InterruptSink, SinkFadeOut, sinkVars, audioVars, clipVars
<1>3. Undoes(m) /\ m.type # "gain"
  BY DEF Undoes, Message
<1>4. wanted' \in Gains /\ clips \in Nat /\ clip \in Clips /\ (clips = 0 => clip = NoClip)
  BY <1>1 DEF GainOK, Gains
<1>5. toAudio' = toAudio \/ toAudio' = Append(toAudio, m)
  BY <1>1 DEF InterruptSink, SinkFadeOut, sinkVars
<1>6. wanted = "ducked" => toAudio' = Append(toAudio, m)
  <2> SUFFICES ASSUME wanted = "ducked"
               PROVE  toAudio' = Append(toAudio, m)
    OBVIOUS
  <2>1. ~fadingOut /\ reply[r].started # {}
    BY <1>1 DEF GainOK
  <2>2. Segments(r) # {}
    BY <2>1 DEF RInv, HearsItself
  <2>3. reply[r].queued # <<>>
    BY <2>2 DEF Segments
  <2> QED
    BY <1>1, <2>1, <2>3 DEF InterruptSink, SinkFadeOut
<1> HIDE DEF m
<1>7. CASE toAudio' = Append(toAudio, m)
  BY <1>1, <1>2, <1>3, <1>4, <1>7, Holding, GainUp
<1>8. CASE toAudio' = toAudio /\ wanted # "ducked"
  BY <1>1, <1>2, <1>4, <1>8 DEF GainOK
<1> QED
  BY <1>5, <1>6, <1>7, <1>8

\* The user speaks into a clip: its duck stands for as long as it plays.
LEMMA GainSpokenOver ==
  ASSUME RInv, GainOK, Overlap = "duck", SpokenOver
  PROVE  GainOK'
<1> DEFINE m == Message("gain", "ducked")
<1>1. /\ clip # NoClip /\ clip' = [clip EXCEPT !.overlapped = TRUE] /\ toAudio' = Append(toAudio, m)
      /\ UNCHANGED <<wanted, reply, fadingOut, gain, fade, clips>>
  BY DEF SpokenOver, SinkGain, mainVars, audioVars
<1>2. Ducks(m) /\ m.arg \in Gains
  BY DEF Ducks, Message, Gains
<1> HIDE DEF m
<1>3. Names(toAudio', "gain", Gains)
  BY <1>1, <1>2, NamesPosted, Holding DEF GainOK
<1>4. Stands(toAudio', gain', fade')
  BY <1>1, <1>2, StandsPosted, Holding DEF Stands
<1>5. clip' \in Clips /\ clip'.overlapped = TRUE
  BY <1>1 DEF GainOK, Clips
<1>6. clips # 0
  BY <1>1 DEF GainOK
<1>7. UNCHANGED <<wanted, reply, fadingOut, clips>>
  BY <1>1
<1> QED
  BY <1>3, <1>4, <1>5, <1>6, <1>7 DEF GainOK, Live

\* A clip is over, and gives back what it took.
LEMMA GainGivenBack ==
  ASSUME IInv, GainOK, Overlap = "duck", clip # NoClip, clip' = NoClip,
         toAudio' = toAudio \o GivesBack(clip), UNCHANGED <<wanted, gain, fade, clips>>,
         fadingOut' => fadingOut, HeardOfStill
  PROVE  GainOK'
<1> DEFINE m == Message("gain", "unity")
<1>1. Undoes(m) /\ m.arg \in Gains
  BY DEF Undoes, Message, Gains
<1>2. PICK S : toAudio \in Seq(S)
  BY Counts DEF IsChannel
<1>3. /\ ~clip.overlapped => GivesBack(clip) = <<>>
      /\ clip.overlapped => GivesBack(clip) = <<m>>
  BY DEF GivesBack
<1>4. toAudio \o <<>> = toAudio /\ toAudio \o <<m>> = Append(toAudio, m)
  BY <1>2
<1> HIDE DEF m
<1>5. NoClip \in Clips /\ ~NoClip.overlapped
  BY DEF NoClip, Clips
<1>6. wanted \in Gains /\ clips \in Nat /\ clips # 0
  BY DEF GainOK
<1>7. CASE clip.overlapped
  BY <1>1, <1>3, <1>4, <1>5, <1>6, <1>7, GainUp
<1>8. CASE ~clip.overlapped
  <2>1. toAudio' = toAudio
    BY <1>3, <1>4, <1>8
  <2> QED
    BY <1>5, <1>8, <2>1 DEF GainOK, HeardOfStill
<1> QED
  BY <1>7, <1>8

LEMMA GainDispose ==
  ASSUME RInv, GainOK, Overlap = "duck", DisposeScheduler
  PROVE  GainOK'
<1>1. /\ clip # NoClip /\ clip' = NoClip /\ toAudio' = toAudio \o GivesBack(clip)
      /\ UNCHANGED <<wanted, reply, gain, fade, fadingOut, clips>>
  BY DEF DisposeScheduler, mainVars, audioVars
<1>2. HeardOfStill
  BY <1>1 DEF HeardOfStill, Live
<1> QED
  BY <1>1, <1>2, Holding, GainGivenBack

\* The main thread hears, and the clip's end may be what it hears.
LEMMA Hearing ==
  ASSUME RInv, NEW posts, Takes(posts)
  PROVE  /\ toAudio' = toAudio \o posts /\ UNCHANGED <<wanted, gain, fade>>
         /\ fadingOut' => fadingOut
         /\ HeardOfStill
<1>1. /\ toAudio' = toAudio \o posts /\ UNCHANGED <<wanted, gain, fade>>
      /\ fadingOut' = (fadingOut /\ Head(toMain).type # "faded")
      /\ RepliesHear(Head(toMain))
  BY DEF Takes, SinkHearsAndPosts, RepliesHear, audioVars
<1>2. \A r \in Replies : /\ reply'[r].state = reply[r].state
                         /\ reply[r].started \subseteq reply'[r].started
  BY <1>1, OneHears
<1> QED
  BY <1>1, <1>2 DEF HeardOfStill, Live

LEMMA GainReceives ==
  ASSUME RInv, GainOK, Overlap = "duck", Receives
  PROVE  GainOK'
<1> DEFINE posts == IF IsOver(Head(toMain)) THEN GivesBack(clip) ELSE <<>>
<1>1. Takes(posts)
  BY ReceivesTakes
<1>2. /\ toAudio' = toAudio \o posts /\ UNCHANGED <<wanted, gain, fade>>
      /\ fadingOut' => fadingOut
      /\ HeardOfStill
  <2> HIDE DEF posts
  <2> QED
    BY <1>1, Hearing
<1>3. clip' = (IF IsOver(Head(toMain)) THEN NoClip ELSE clip) /\ clips' = clips
  BY DEF Receives
<1>4. CASE IsOver(Head(toMain))
  <2>1. clip # NoClip /\ clip' = NoClip /\ toAudio' = toAudio \o GivesBack(clip)
    BY <1>2, <1>3, <1>4 DEF IsOver
  <2> QED
    BY <1>2, <1>3, <2>1, Holding, GainGivenBack
<1>5. CASE ~IsOver(Head(toMain))
  <2>1. PICK S : toAudio \in Seq(S)
    BY Holding DEF IsChannel
  <2>2. toAudio' = toAudio /\ clip' = clip
    BY <1>2, <1>3, <1>5, <2>1
  <2> QED
    BY <1>2, <1>3, <2>2, GainAtRest
<1> QED
  BY <1>4, <1>5

\* The audio thread takes an order.  One that turns the voice down is ignored
\* under a fade, which the gate's never meets.
LEMMA GainAudio ==
  ASSUME RInv, GainOK, AudioReceives, UNCHANGED <<reply, wanted, clip, clips>>
  PROVE  GainOK'
<1> DEFINE m == Head(toAudio)
           d == Tail(toAudio)
<1>1. toAudio # <<>> /\ toAudio' = d /\ UNCHANGED fadingOut
  BY DEF AudioReceives, mainVars
<1>2. m.type \in Orders /\ Names(d, "gain", Gains) /\ (m.type = "gain" => m.arg \in Gains)
  BY <1>1, OrderTaken, NamesTaken, Holding DEF GainOK
<1>3. /\ m.type # "gain" => gain' = gain
      /\ m.type = "gain" => gain' = GainRequested(m.arg)
      /\ m.type # "fade" => fade' = fade
      /\ m.type = "fade" => fade' = FadeRequested
  BY <1>2 DEF AudioReceives, Orders
<1>4. /\ Undone(toAudio, 0) <=> Undoes(m) \/ Undone(d, 0)
      /\ DuckComes(toAudio) <=> (Ducks(m) /\ ~Undone(d, 0)) \/ DuckComes(d)
  BY <1>1, StandsTaken, Holding
<1>5. wanted = "ducked" => fade = "none" /\ m.type # "fade"
  <2> SUFFICES ASSUME wanted = "ducked"
               PROVE  fade = "none" /\ m.type # "fade"
    OBVIOUS
  <2>1. ~fadingOut
    BY DEF GainOK
  <2>2. CountOf(toAudio, "fade") = 0 /\ fade = "none"
    <3>1. /\ CountOf(toAudio, "fade") \in Nat /\ CountOf(toMain, "faded") \in Nat
          /\ FadesAbout = 0
      BY <2>1, Holding, Counts
    <3> QED
      BY <3>1 DEF FadesAbout
  <2>3. CountOf(toAudio, "fade") = CountOf(d, "fade") + (IF m.type = "fade" THEN 1 ELSE 0)
        /\ CountOf(d, "fade") \in Nat
    BY <1>1, CountTaken, CountIsNat, Holding
  <2> QED
    BY <2>2, <2>3
<1> HIDE DEF m, d
<1>6. fade # "none" /\ m.type # "fade" => fade' # "none"
  BY <1>3
<1>7. m.type = "fade" => fade' # "none"
  BY <1>3 DEF FadeRequested
<1>8. Stands(toAudio', gain', fade') => Stands(toAudio, gain, fade)
  <2>1. CASE m.type = "fade"
    BY <1>1, <1>4, <1>7, <2>1 DEF Stands
  <2>2. CASE m.type = "enqueue"
    BY <1>1, <1>3, <1>4, <2>2, OrderKinds DEF Stands
  <2>3. CASE m.type = "gain"
    BY <1>1, <1>3, <1>4, <2>3 DEF Stands, GainRequested, Ducks, Undoes
  <2> QED
    BY <1>2, <2>1, <2>2, <2>3 DEF Orders
<1>9. wanted = "ducked" /\ Stands(toAudio, gain, fade) => Stands(toAudio', gain', fade')
  <2> SUFFICES ASSUME wanted = "ducked", Stands(toAudio, gain, fade)
               PROVE  Stands(toAudio', gain', fade')
    OBVIOUS
  <2>1. fade = "none" /\ fade' = "none"
    BY <1>3, <1>5
  <2>2. CASE m.type = "enqueue"
    BY <1>1, <1>3, <1>4, <2>1, <2>2, OrderKinds DEF Stands
  <2>3. CASE m.type = "gain"
    BY <1>1, <1>2, <1>3, <1>4, <2>1, <2>3 DEF Stands, GainRequested, Ducks, Undoes, Gains
  <2> QED
    BY <1>2, <1>5, <2>2, <2>3 DEF Orders
<1>10. \A r \in Replies : Live(r)' <=> Live(r)
  BY DEF Live
<1> QED
  BY <1>1, <1>2, <1>8, <1>9, <1>10 DEF GainOK

\* A fade that ends restores the gain.
LEMMA GainFaded ==
  ASSUME RInv, GainOK, FadeCompletes, UNCHANGED <<reply, wanted, clip, clips>>
  PROVE  GainOK'
<1>1. fade # "none" /\ gain' = "unity" /\ UNCHANGED <<toAudio, fadingOut>>
  BY DEF FadeCompletes, FadeRestoresGain, mainVars
<1>2. Stands(toAudio', gain', fade') <=> Stands(toAudio, gain, fade)
  BY <1>1 DEF Stands
<1>3. \A r \in Replies : Live(r)' <=> Live(r)
  BY DEF Live
<1> QED
  BY <1>1, <1>2, <1>3 DEF GainOK

LEMMA GainRendered ==
  ASSUME GainOK, RenderStarts \/ RenderEnds \/ UNCHANGED sinkVars,
         UNCHANGED <<reply, wanted, clip, clips>>
  PROVE  GainOK'
<1>1. UNCHANGED <<gain, fade, toAudio, fadingOut>>
  BY DEF RenderStarts, RenderEnds, sinkVars
<1>2. HeardOfStill
  BY DEF HeardOfStill, Live
<1> QED
  BY <1>1, <1>2, GainAtRest

ClipInv == StopInv /\ RInv /\ HInv /\ GainOK

LEMMA ClipGain ==
  ASSUME Overlap = "duck", StopInv, RInv, GainOK, [ClipNext]_<<vars, clipVars>>
  PROVE  GainOK'
<1>1. ASSUME NEW r \in Replies, Replying(Begin(r)) \/ Replying(Release(r)) \/ Replying(Chunk(r))
      PROVE  GainOK'
  BY <1>1, GainWaits DEF Replying
<1>2. ASSUME NEW r \in Replies, Replying(Progress(r))
      PROVE  GainOK'
  BY <1>2, GainWaits, GainEnqueue, GainFinish DEF Replying, Progress
<1>3. ASSUME NEW r \in Replies, Replying(Interrupt(r)) \/ Replying(Duck(r))
      PROVE  GainOK'
  BY <1>3, GainInterrupt, GainDuck DEF Replying
<1>4. CASE Replying(Unduck)
  BY <1>4, GainUnduck DEF Replying
<1>5. CASE \/ Replying(Audio(AudioReceives)) \/ Replying(Audio(RenderStarts))
           \/ Replying(Audio(RenderEnds)) \/ Replying(Audio(FadeCompletes))
  BY <1>5, GainAudio, GainRendered, GainFaded DEF Replying, Audio, clipVars
<1>6. CASE UNCHANGED <<vars, clipVars>>
  BY <1>6, GainRendered DEF vars, sinkVars, clipVars
<1> QED
  BY <1>1, <1>2, <1>3, <1>4, <1>5, <1>6, GainReceives, GainConsider, GainSpokenOver, GainDispose
     DEF ClipNext

LEMMA InitClips ==
  ASSUME ClipInit
  PROVE  ClipInv
<1>1. /\ toAudio = <<>> /\ gain = "unity" /\ wanted = "unity" /\ fadingOut = FALSE
      /\ clip = NoClip /\ clips = 0
  BY DEF ClipInit, Init, SinkInit
<1>2. DOMAIN <<>> = {}
  OBVIOUS
<1>3. ~Stands(toAudio, gain, fade) /\ Names(toAudio, "gain", Gains)
  BY <1>1, <1>2 DEF Stands, DuckComes, Names
<1>4. NoClip \in Clips
  BY DEF NoClip, Clips
<1> QED
  BY <1>1, <1>3, <1>4, InitIsObeyed, InitRefines, InitIsTrue DEF ClipInit, ClipInv, GainOK, Gains

\* What the answers, the sink, the clip and the gain keep between them at every
\* step, as long as both hold (reply.ts, scheduler.ts, renderer.ts).
THEOREM ClipInvariant ==
  ASSUME NextWaitsForFade, Overlap = "duck"
  PROVE  ClipSpec => []ClipInv
<1>1. ClipInit => ClipInv
  BY InitClips
<1>2. ClipInv /\ [ClipNext]_<<vars, clipVars>> => ClipInv'
  BY ClipIsObeyed, ClipRefines, ClipStaysTrue, ClipGain DEF ClipInv
<1> QED
  BY <1>1, <1>2, PTL DEF ClipSpec

\* As long as an answer waits for the fade before it, and a clip ducks when it is
\* talked over: once every order has arrived, her voice is down only while the
\* gate has it down or the user speaks into a clip that still plays, for any
\* number of answers and clips, whatever fades and orders crossed on the way
\* (backchannel/scheduler.ts, voice/session.ts, renderer.ts).
THEOREM GainAlwaysHasAReason ==
  ASSUME NextWaitsForFade, Overlap = "duck"
  PROVE  ClipSpec => []GainHasAReason
<1>1. ClipSpec => []ClipInv
  BY ClipInvariant
<1>2. ClipInv => GainHasAReason
  <2> SUFFICES ASSUME ClipInv, ~Settling
               PROVE  /\ gain = "ducked" => wanted = "ducked" \/ clip.overlapped
                      /\ wanted = "ducked" /\ clips = 0 => gain = "ducked"
    BY DEF GainHasAReason
  <2>1. Places(toAudio, "gain") = {} /\ Places(toAudio, "fade") = {}
    <3>1. CountOf(toAudio, "gain") = 0 /\ CountOf(toAudio, "fade") = 0
      <4>1. CountOf(toAudio, "gain") \in Nat /\ CountOf(toAudio, "fade") \in Nat
        BY CountIsNat, Holding DEF ClipInv
      <4> QED
        BY <4>1 DEF Settling
    <3>2. \A type : /\ IsFiniteSet(Places(toAudio, type))
                    /\ CountOf(toAudio, type) = Cardinality(Places(toAudio, type))
      BY CountIsNat, Holding DEF ClipInv
    <3> QED
      BY <3>1, <3>2, FS_EmptySet
  <2>2. \A i \in DOMAIN toAudio : ~Undoes(toAudio[i]) /\ ~Ducks(toAudio[i])
    BY <2>1 DEF Places, Undoes, Ducks
  <2>3. fade = "none"
    BY DEF Settling
  <2>4. Stands(toAudio, gain, fade) <=> gain = "ducked"
    BY <2>2, <2>3 DEF Stands, Undone, DuckComes
  <2> QED
    BY <2>4 DEF ClipInv, GainOK
<1> QED
  BY <1>1, <1>2, PTL

=============================================================================
