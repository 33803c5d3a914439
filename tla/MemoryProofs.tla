----------------------------- MODULE MemoryProofs ------------------------------
(*****************************************************************************)
(* What holds of the memory kernel for any facts, sayings and number of jobs,*)
(* proved with the TLA+ proof system.                                        *)
(*****************************************************************************)
EXTENDS Memory, FiniteSetTheorems, SequenceTheorems, WellFoundedInduction, TLAPS

-----------------------------------------------------------------------------
(* The invariant.                                                            *)

IsChannel(c) == \E S : c \in Seq(S)

IsFact(f) ==
  f \in [id : Nat \ {None}, predicate : {f.predicate}, object : {f.object}, conf : Nat,
         from : Nat \ {None}, to : Nat, recorded : Nat]

\* Facts, and no two of one id.
AreFacts(facts) ==
  /\ IsFiniteSet(facts)
  /\ \A f \in facts : IsFact(f)
  /\ \A f, g \in facts : f.id = g.id => f = g

\* How many jobs were ever started, and the first id that none of them gave out.
Turn == queued - Len(queue)
Fresh == FirstId(Turn + 1)

\* Facts as they may be held by anyone: their ids have been given out, and they
\* are none of those that were deleted.
Sound(facts, fresh, deleted) ==
  /\ AreFacts(facts)
  /\ \A f \in facts : f.id < fresh /\ f.id \notin deleted

\* What an edit writes.
EditOK(j, fresh) ==
  /\ j.kind = "delete" => j.write \in [op : {"delete"}, id : {i \in Nat : i < fresh}]
  /\ j.kind \in {"correct", "record"} =>
       /\ j.write \in [op : {"upsert"}, id : {j.write.fact.id}, fact : {j.write.fact}]
       /\ IsFact(j.write.fact)
  /\ j.kind = "correct" => j.write.id < fresh
  /\ j.kind = "record" => j.write.id = FirstId(j.n)
  /\ j.kind = "close" =>
       j.write \in [op : {"supersede"}, id : {j.write.id}, at : {j.write.at}]

IsJob(j) ==
  j \in [kind : {j.kind}, n : {j.n}, write : {j.write}, phase : {j.phase}, stage : {j.stage},
         known : {j.known}, todo : {j.todo}, holds : {j.holds}]

Kinds == Edits \union {"extract", "sleep"}

Waits(j) ==
  /\ IsJob(j) /\ j.kind \in Kinds
  /\ j.phase = "queued" /\ j.stage = "none" /\ j.known = {} /\ j.todo = <<>> /\ j.holds = FALSE
  /\ EditOK(j, Fresh)

QueueOK ==
  /\ IsChannel(queue)
  /\ queued \in Nat
  /\ Len(queue) <= queued
  /\ \A i \in DOMAIN queue : Waits(queue[i]) /\ queue[i].n = Turn + i

Reading == job.phase \in {"read", "reading"}

JobOK ==
  /\ IsJob(job)
  /\ job.kind = "none" => job = NoJob
  /\ job.kind # "none" => job.n = Turn /\ Turn >= 1
  /\ EditOK(job, Fresh)
  /\ \/ job.kind = "none"
     \/ job.kind \in Edits /\ job.phase \in {"edit", "read", "reading"}
     \/ job.kind \in {"extract", "sleep"} /\ job.phase \in {"read", "reading", "ask", "write"}
  /\ IF job.kind = "sleep" THEN job.stage \in {"rules", "model", "tidy"} ELSE job.stage = "none"
  /\ job.kind = "sleep" /\ job.phase = "ask" => job.stage = "model"
  /\ IsChannel(job.todo)
  /\ job.phase # "write" => job.todo = <<>>
  /\ job.phase # "ask" => job.known = {}

\* The ids a job gives out are its own.
IdsOK ==
  \/ job.kind = "extract" /\ job.phase # "write"
  \/ job.kind = "record" /\ job.phase = "edit"
  => \A id \in gone \union expired \union {f.id : f \in table \union job.known} :
       id < FirstId(job.n)

\* What is left of a plan: nothing deleted, or no longer believed, is written.
TodoOK ==
  \A i \in DOMAIN job.todo : LET w == job.todo[i] IN
    /\ w.op \in {"supersede", "expire", "upsert"}
    /\ w.op = "supersede" =>
         /\ w.at \in Nat \ {None}
         /\ w.id \in expired => w.id \in revived
         /\ \A f \in table :
              f.id = w.id /\ f.id \notin expired /\ w.at > now => f \in cache.facts
         /\ \A k \in DOMAIN job.todo : k < i => job.todo[k].op = "supersede"
         /\ \A k \in DOMAIN job.todo :
              job.todo[k].op = "supersede" /\ job.todo[k].id = w.id => job.todo[k].at = w.at
    /\ w.op = "upsert" =>
         /\ IsFact(w.fact) /\ w.id = w.fact.id
         /\ w.id < Fresh /\ w.id \notin gone
         /\ w.id \in expired => w.id \in revived
         /\ \A k \in DOMAIN job.todo : job.todo[k].op = "expire" => job.todo[k].id # w.id

\* A job asks for the facts once, and then waits for them.
LoadsOK ==
  /\ \A l \in loads : l.who = "job" => l.n \in Nat /\ 1 <= l.n /\ l.n <= Turn
  /\ \A l \in loads : l.who = "job" /\ l.n = job.n => job.phase = "reading"
  /\ \A l, m \in loads : l.who = "job" /\ m.who = "job" /\ l.n = m.n => l = m

StoreOK ==
  /\ Sound(table, Fresh, gone)
  /\ \A id \in gone \union expired : id \in Nat /\ id < Fresh
  /\ now \in Nat \ {None}

HoldersOK ==
  /\ Sound(cache.facts, Fresh, gone)
  /\ Sound(shown, Fresh, {})
  /\ Sound(job.known, Fresh, gone)
  /\ note \in [facts : {note.facts}, gen : {note.gen}, wait : {note.wait}, phase : {note.phase}]
  /\ Sound(note.facts, Fresh, gone)

\* What an edit has written is written.
EditMade ==
  (job.kind \in Edits /\ Reading) =>
    /\ job.kind = "delete" => \A f \in table : f.id # job.write.id
    /\ job.kind \in {"correct", "record"} =>
         /\ job.write.fact \in table
         /\ job.write.id \in expired => job.write.id \in revived
    /\ job.kind = "close" =>
         /\ job.write.at \in 1 .. now
         /\ \A f \in table : f.id = job.write.id => f.to = job.write.at

\* What is known, to the kernel or in an answer, is what the store believes, but
\* for what was corrected after she had stopped believing it.
InStep(facts) ==
  /\ facts \subseteq table
  /\ currentFacts \subseteq facts
  /\ \A f \in facts : f.id \in expired => f.id \in revived

\* The facts with an edit in them that the store has.
Landed(facts) ==
  IF job.kind \in Edits /\ Reading THEN CacheAfter(facts, job.write) ELSE facts

CacheOK ==
  /\ cache.loaded => InStep(Landed(cache.facts))
  /\ job.phase \in {"ask", "write"} => cache.loaded
  /\ job.phase = "reading" /\ cache.loaded => InStep(cache.facts)
  /\ job.phase = "write" /\ job.todo # <<>> => job.holds
  /\ job.phase = "ask" =>
       /\ job.known \subseteq table
       /\ \A f \in job.known : f.id \in expired => f.id \in revived

\* What merging by rule has in hand: everything it closes is said by a fact that
\* it does not close.
KeptOK ==
  job.stage = "rules" =>
    /\ Reading /\ cache.loaded => cache.facts \subseteq Believed
    /\ \A i \in DOMAIN job.todo : LET w == job.todo[i] IN
         /\ w.op # "supersede"
         /\ \E f \in Believed :
              /\ \A k \in DOMAIN job.todo : job.todo[k].op = "expire" => job.todo[k].id # f.id
              /\ w.op = "upsert" => f.id = w.id /\ Key(w.fact) = Key(f)
              /\ w.op = "expire" => \A g \in Believed : g.id = w.id => Key(g) = Key(f)

Kernel ==
  /\ StoreOK /\ HoldersOK /\ QueueOK /\ JobOK /\ IdsOK /\ TodoOK /\ LoadsOK
  /\ EditMade /\ CacheOK /\ KeptOK

\* A read or an answer that was lost on its way excuses everything.
IInv == ~adrift => Kernel

-----------------------------------------------------------------------------
(* Numbers, sets and sequences.                                              *)

\* A set of numbers that is not empty has a least one.
LEMMA LeastNat ==
  ASSUME NEW S, S \subseteq Nat, S # {}
  PROVE  \E m \in S : \A k \in S : m <= k
<1>1. PICK m \in S : \A k \in S : <<k, m>> \notin OpToRel(<, Nat)
  BY WFMin, NatLessThanWellFounded, Zenon
<1>2. \A k \in S : ~ (k < m)
  BY <1>1, Zenon DEF OpToRel
<1> QED
  BY <1>2

\* A finite set of numbers has a greatest one: the smallest that had none would
\* have none without one of its members either.
LEMMA GreatestNat ==
  ASSUME NEW S, S \subseteq Nat, S # {}, IsFiniteSet(S)
  PROVE  \E m \in S : \A k \in S : k <= m
<1> DEFINE Bad(T) == /\ T \subseteq Nat /\ T # {} /\ IsFiniteSet(T)
                     /\ ~\E m \in T : \A k \in T : k <= m
           Sizes == {n \in Nat : \E T : Bad(T) /\ Cardinality(T) = n}
<1>1. SUFFICES ASSUME Sizes # {} PROVE FALSE
  <2>1. Cardinality(S) \in Nat
    BY FS_CardinalityType
  <2> QED
    BY <2>1
<1>2. PICK n \in Sizes : \A k \in Sizes : n <= k
  <2> HIDE DEF Bad
  <2>1. Sizes \subseteq Nat
    OBVIOUS
  <2> HIDE DEF Sizes
  <2> QED
    BY <1>1, <2>1, LeastNat
<1>3. PICK T : Bad(T) /\ Cardinality(T) = n
  OBVIOUS
<1>4. PICK x \in T : TRUE
  BY <1>3
<1> DEFINE U == T \ {x}
<1>5. U \subseteq Nat /\ IsFiniteSet(U) /\ Cardinality(U) = n - 1 /\ n \in Nat
  BY <1>3, FS_RemoveElement
<1>6. CASE U = {}
  BY <1>3, <1>4, <1>6
<1>7. CASE U # {}
  <2>1. ~Bad(U)
    <3>1. Cardinality(U) \in Nat
      BY <1>5, FS_CardinalityType
    <3>2. n - 1 \notin Sizes
      <4> HIDE DEF Sizes
      <4> QED
        BY <1>2, <1>5
    <3> QED
      BY <1>5, <3>1, <3>2
  <2>2. PICK m \in U : \A k \in U : k <= m
    BY <1>5, <1>7, <2>1
  <2>3. x \in Nat /\ m \in Nat /\ m \in T
    BY <1>3
  <2>4. \E y \in T : \A k \in T : k <= y
    <3>1. CASE x <= m
      BY <2>2, <2>3, <3>1
    <3>2. CASE ~(x <= m)
      <4>1. \A k \in T : k <= x
        <5> TAKE k \in T
        <5>1. k \in Nat
          BY <1>3
        <5>2. CASE k = x
          BY <5>1, <5>2
        <5>3. CASE k # x
          <6>1. k <= m
            BY <5>3, <2>2
          <6> QED
            BY <6>1, <5>1, <3>2, <2>3
        <5> QED
          BY <5>2, <5>3
      <4> QED
        BY <4>1
    <3> QED
      BY <3>1, <3>2
  <2> QED
    BY <2>4, <1>3
<1> QED
  BY <1>6, <1>7

\* What a function makes of a finite set is finite.
LEMMA FiniteImage ==
  ASSUME NEW S, IsFiniteSet(S), NEW f, DOMAIN f = S, f = [x \in S |-> f[x]]
  PROVE  IsFiniteSet({f[x] : x \in S})
<1> DEFINE T == {f[x] : x \in S}
<1>1. f \in Surjection(S, T)
  BY DEF Surjection
<1> QED
  BY <1>1, FS_Surjection

\* A finite set as a sequence: nothing else is in it, and all of it.
LEMMA SetInOrder ==
  ASSUME NEW S, IsFiniteSet(S)
  PROVE  /\ SetToSeq(S) \in Seq(S)
         /\ \A x \in S : \E i \in DOMAIN SetToSeq(S) : SetToSeq(S)[i] = x
<1> DEFINE n == Cardinality(S)
<1>1. n \in Nat /\ ExistsBijection(1..n, S)
  BY FS_CardinalityType
<1>2. PICK b : b \in Bijection(1..n, S)
  BY <1>1 DEF ExistsBijection
<1>3. b \in [1..n -> S] /\ IsInjective(b)
  BY <1>2 DEF Bijection, Injection, IsInjective
<1>4. SetToSeq(S) \in [1..n -> S] /\ IsInjective(SetToSeq(S))
  BY <1>3 DEF SetToSeq
<1>5. SetToSeq(S) \in Injection(1..n, S)
  BY <1>4 DEF Injection, IsInjective
<1>6. IsFiniteSet(1..n) /\ Cardinality(1..n) = n
  BY <1>1, FS_Interval
<1>7. SetToSeq(S) \in Surjection(1..n, S)
  BY <1>5, <1>6, FS_Injection
<1>8. SetToSeq(S) \in Seq(S) /\ DOMAIN SetToSeq(S) = 1..n
  BY <1>4, <1>1
<1> QED
  BY <1>7, <1>8 DEF Surjection

\* The empty channel is one.
LEMMA NoChannel == IsChannel(<<>>) /\ DOMAIN <<>> = {}
<1>1. <<>> \in Seq({})
  OBVIOUS
<1> QED
  BY <1>1 DEF IsChannel

\* A channel after one more is put into it.
LEMMA ChannelAppend ==
  ASSUME NEW c, IsChannel(c), NEW m
  PROVE  /\ IsChannel(Append(c, m))
         /\ Len(c) \in Nat /\ Len(Append(c, m)) = Len(c) + 1
         /\ DOMAIN c = 1..Len(c) /\ DOMAIN Append(c, m) = 1..(Len(c) + 1)
         /\ \A i \in DOMAIN c : Append(c, m)[i] = c[i]
         /\ Append(c, m)[Len(c) + 1] = m
<1>1. PICK S : c \in Seq(S)
  BY DEF IsChannel
<1>2. c \in Seq(S \union {m})
  BY <1>1
<1>3. Append(c, m) \in Seq(S \union {m})
  BY <1>2
<1> QED
  BY <1>2, <1>3 DEF IsChannel

\* A channel after its head is taken out of it.
LEMMA ChannelTail ==
  ASSUME NEW c, IsChannel(c), c # <<>>
  PROVE  /\ IsChannel(Tail(c))
         /\ Len(c) \in Nat \ {0} /\ Len(Tail(c)) = Len(c) - 1
         /\ DOMAIN c = 1..Len(c) /\ DOMAIN Tail(c) = 1..(Len(c) - 1)
         /\ \A i \in DOMAIN Tail(c) : Tail(c)[i] = c[i + 1]
         /\ Head(c) = c[1] /\ 1 \in DOMAIN c
<1>1. PICK S : c \in Seq(S)
  BY DEF IsChannel
<1>2. Tail(c) \in Seq(S)
  BY <1>1
<1> QED
  BY <1>1, <1>2 DEF IsChannel

\* Two channels, one behind the other.
LEMMA ConcatIn ==
  ASSUME NEW c, NEW d, IsChannel(c), IsChannel(d), NEW B, \A i \in DOMAIN d : d[i] \in B
  PROVE  /\ IsChannel(c \o d)
         /\ Len(c) \in Nat /\ DOMAIN c = 1..Len(c)
         /\ DOMAIN (c \o d) \subseteq Nat \ {0}
         /\ \A i \in DOMAIN (c \o d) :
              IF i <= Len(c) THEN (c \o d)[i] = c[i] ELSE (c \o d)[i] \in B
         /\ \A i \in DOMAIN c : \E k \in DOMAIN (c \o d) : (c \o d)[k] = c[i]
         /\ \A i \in DOMAIN d : \E k \in DOMAIN (c \o d) : (c \o d)[k] = d[i]
<1>1. PICK S, T : c \in Seq(S) /\ d \in Seq(T)
  BY DEF IsChannel
<1>2. c \in Seq(S \union T) /\ d \in Seq(S \union T)
  BY <1>1
<1>3. c \o d \in Seq(S \union T)
  BY <1>2
<1>4. /\ Len(c) \in Nat /\ Len(d) \in Nat
      /\ DOMAIN (c \o d) = 1..(Len(c) + Len(d))
      /\ \A i \in 1..(Len(c) + Len(d)) :
           (c \o d)[i] = IF i <= Len(c) THEN c[i] ELSE d[i - Len(c)]
  BY <1>2
<1>5. DOMAIN c = 1..Len(c) /\ DOMAIN d = 1..Len(d)
  BY <1>2
<1>6. ASSUME NEW i \in 1..(Len(c) + Len(d)), ~(i <= Len(c))
      PROVE  (c \o d)[i] \in B
  <2>1. i - Len(c) \in DOMAIN d /\ (c \o d)[i] = d[i - Len(c)]
    BY <1>4, <1>5, <1>6
  <2> QED
    BY <2>1
<1>7. ASSUME NEW i \in DOMAIN c
      PROVE  i \in DOMAIN (c \o d) /\ (c \o d)[i] = c[i]
  BY <1>4, <1>5
<1>8. ASSUME NEW i \in DOMAIN d
      PROVE  i + Len(c) \in DOMAIN (c \o d) /\ (c \o d)[i + Len(c)] = d[i]
  BY <1>4, <1>5
<1>9. IsChannel(c \o d) /\ DOMAIN (c \o d) \subseteq Nat \ {0}
  BY <1>3, <1>4 DEF IsChannel
<1>10. \A i \in DOMAIN (c \o d) :
          IF i <= Len(c) THEN (c \o d)[i] = c[i] ELSE (c \o d)[i] \in B
  BY <1>4, <1>6
<1>11. /\ \A i \in DOMAIN c : \E k \in DOMAIN (c \o d) : (c \o d)[k] = c[i]
       /\ \A i \in DOMAIN d : \E k \in DOMAIN (c \o d) : (c \o d)[k] = d[i]
  BY <1>7, <1>8, Zenon
<1> QED
  BY <1>4, <1>5, <1>9, <1>10, <1>11, Zenon
\* Of finite sets there is one from which nothing can be taken.
LEMMA SmallestSet ==
  ASSUME NEW B, \A s \in B : IsFiniteSet(s), B # {}
  PROVE  \E s \in B : \A x \in s : s \ {x} \notin B
<1> DEFINE Sizes == {Cardinality(s) : s \in B}
<1>1. Sizes \subseteq Nat /\ Sizes # {}
  <2>1. \A s \in B : Cardinality(s) \in Nat
    BY FS_CardinalityType
  <2> QED
    BY <2>1
<1>2. PICK n \in Sizes : \A k \in Sizes : n <= k
  <2> HIDE DEF Sizes
  <2> QED
    BY <1>1, LeastNat
<1>3. PICK s \in B : n = Cardinality(s)
  OBVIOUS
<1>4. ASSUME NEW x \in s
      PROVE  s \ {x} \notin B
  <2>1. /\ IsFiniteSet(s) /\ Cardinality(s \ {x}) = Cardinality(s) - 1
        /\ Cardinality(s) \in Nat
    BY FS_RemoveElement, FS_CardinalityType
  <2>2. n - 1 \notin Sizes
    <3> HIDE DEF Sizes
    <3> QED
      BY <1>1, <1>2
  <2> QED
    BY <1>3, <2>1, <2>2
<1> QED
  BY <1>4

\* The one that is taken of a set first.
Taken(s) == CHOOSE x \in s : TRUE

\* A sum over the parts of a set, as the fold takes it.
Sums(S, iter) ==
  iter = [s \in SUBSET S |->
            IF s = {} THEN 0 ELSE Taken(s).conf + iter[s \ {Taken(s)}]]

\* How sure she is of what several facts say.
Sure(S) == MapThenSumSet(LAMBDA f : f.conf, S)

\* How sure she is of facts together is one of the sums of them.
LEMMA SumOf ==
  ASSUME NEW S
  PROVE  Sure(S) = (CHOOSE iter : Sums(S, iter))[S]
BY DEF Sure, MapThenSumSet, MapThenFoldSet, Sums, Taken

\* There is one: the smallest set that had none would have one put together of
\* those of its parts.
LEMMA SumExists ==
  ASSUME NEW S, IsFiniteSet(S)
  PROVE  \E iter : Sums(S, iter)
<1> DEFINE Bad == {s \in SUBSET S : ~\E iter : Sums(s, iter)}
           val(s) == (CHOOSE h : Sums(s, h))[s]
<1>1. SUFFICES ASSUME Bad # {} PROVE FALSE
  OBVIOUS
<1>0. ASSUME NEW s \in SUBSET S
      PROVE  IsFiniteSet(s)
  BY FS_Subset
\* Two sums agree where both are.
<1>2. ASSUME NEW s \in SUBSET S, NEW t \in SUBSET S, NEW g, NEW h, Sums(s, g), Sums(t, h)
      PROVE  \A r \in SUBSET s : r \in SUBSET t => g[r] = h[r]
  <2> DEFINE D == {r \in SUBSET s : r \in SUBSET t /\ g[r] # h[r]}
  <2>1. SUFFICES ASSUME D # {} PROVE FALSE
    OBVIOUS
  <2>2. \A r \in D : IsFiniteSet(r)
    BY <1>0
  <2>3. PICK r \in D : \A x \in r : r \ {x} \notin D
    <3> HIDE DEF D
    <3> QED
      BY <2>1, <2>2, SmallestSet
  <2>4. CASE r = {}
    BY <1>2, <2>4 DEF Sums
  <2>5. CASE r # {}
    <3>1. Taken(r) \in r
      BY <2>5 DEF Taken
    <3>2. g[r \ {Taken(r)}] = h[r \ {Taken(r)}]
      BY <2>3, <3>1
    <3>3. g[r] = Taken(r).conf + g[r \ {Taken(r)}]
      BY <1>2, <2>5 DEF Sums
    <3>4. h[r] = Taken(r).conf + h[r \ {Taken(r)}]
      BY <1>2, <2>5 DEF Sums
    <3> QED
      BY <3>2, <3>3, <3>4
  <2> QED
    BY <2>4, <2>5
<1>3. PICK s \in Bad : \A x \in s : s \ {x} \notin Bad
  <2>1. \A s \in Bad : IsFiniteSet(s)
    BY <1>0
  <2> HIDE DEF Bad
  <2> QED
    BY <1>1, <2>1, SmallestSet
<1>4. s # {}
  <2> DEFINE e == [r \in SUBSET {} |-> 0]
  <2>1. Sums({}, e)
    <3>1. \A r \in SUBSET {} : r = {}
      OBVIOUS
    <3> QED
      BY <3>1 DEF Sums
  <2> QED
    BY <2>1
\* A part of a set that has sums has them.
<1>5. ASSUME NEW r, NEW t \in SUBSET r, NEW h, Sums(r, h)
      PROVE  \E g : Sums(t, g)
  <2> DEFINE g == [q \in SUBSET t |-> h[q]]
  <2>1. ASSUME NEW q \in SUBSET t
        PROVE  g[q] = IF q = {} THEN 0 ELSE Taken(q).conf + g[q \ {Taken(q)}]
    <3>1. q \in SUBSET r /\ q \ {Taken(q)} \in SUBSET t
      OBVIOUS
    <3>2. h[q] = IF q = {} THEN 0 ELSE Taken(q).conf + h[q \ {Taken(q)}]
      BY <1>5, <3>1 DEF Sums
    <3> QED
      BY <3>1, <3>2
  <2>2. g = [q \in SUBSET t |-> g[q]]
    OBVIOUS
  <2> HIDE DEF g
  <2>3. Sums(t, g)
    BY <2>1, <2>2, Zenon DEF Sums
  <2> QED
    BY <2>3
<1>6. ASSUME NEW r \in SUBSET s, r # s
      PROVE  Sums(r, CHOOSE h : Sums(r, h))
  <2>1. PICK x \in s : x \notin r
    BY <1>6
  <2>2. s \ {x} \notin Bad /\ s \ {x} \in SUBSET S /\ r \in SUBSET (s \ {x})
    BY <1>3, <2>1
  <2>3. PICK g : Sums(s \ {x}, g)
    BY <2>2
  <2>4. \E h : Sums(r, h)
    BY <2>2, <2>3, <1>5
  <2> QED
    BY <2>4
<1> DEFINE f == [r \in SUBSET s |->
                   IF r = s THEN Taken(s).conf + val(s \ {Taken(s)}) ELSE val(r)]
<1>7. ASSUME NEW r \in SUBSET s
      PROVE  f[r] = IF r = {} THEN 0 ELSE Taken(r).conf + f[r \ {Taken(r)}]
  <2>1. r # {} => Taken(r) \in r
    BY DEF Taken
  <2>2. CASE r = s
    <3>1. s \ {Taken(s)} \in SUBSET s /\ s \ {Taken(s)} # s
      BY <1>4, <2>1, <2>2
    <3>2. f[s \ {Taken(s)}] = val(s \ {Taken(s)})
      BY <3>1
    <3> QED
      BY <1>4, <2>2, <3>2
  <2>3. CASE r # s /\ r = {}
    <3>1. Sums(r, CHOOSE h : Sums(r, h))
      BY <1>6, <2>3
    <3>2. val(r) = 0
      BY <2>3, <3>1 DEF Sums
    <3> QED
      BY <2>3, <3>2
  <2>4. CASE r # s /\ r # {}
    <3> DEFINE q == r \ {Taken(r)}
    <3>1. q \in SUBSET s /\ q # s /\ q \in SUBSET r /\ r \in SUBSET r /\ q \in SUBSET q
      BY <2>1, <2>4
    <3>2. PICK h : Sums(r, h) /\ val(r) = h[r]
      BY <1>6, <2>4
    <3>3. PICK g : Sums(q, g) /\ val(q) = g[q]
      BY <1>6, <3>1
    <3>4. q \in SUBSET S /\ r \in SUBSET S
      BY <3>1
    <3> HIDE DEF q, val
    <3>5. g[q] = h[q]
      BY <1>2, <3>1, <3>2, <3>3, <3>4
    <3>6. h[r] = Taken(r).conf + h[q]
      BY <3>1, <3>2, <2>4 DEF Sums, q
    <3>7. f[r] = val(r) /\ f[q] = val(q)
      BY <2>4, <3>1
    <3> QED
      BY <2>4, <3>2, <3>3, <3>5, <3>6, <3>7 DEF q
  <2> QED
    BY <2>2, <2>3, <2>4
<1>8. Sums(s, f)
  <2>1. f = [r \in SUBSET s |-> f[r]]
    OBVIOUS
  <2> HIDE DEF f
  <2> QED
    BY <1>7, <2>1, Zenon DEF Sums
<1> QED
  BY <1>8

\* The sum of some numbers is one, and no less than each of them.
LEMMA SureOfAll ==
  ASSUME NEW S, IsFiniteSet(S), \A f \in S : f.conf \in Nat
  PROVE  /\ Sure(S) \in Nat
         /\ \A f \in S : f.conf <= Sure(S)
<1> DEFINE iter == CHOOSE h : Sums(S, h)
           Good(s) == iter[s] \in Nat /\ \A f \in s : f.conf <= iter[s]
           Bad == {s \in SUBSET S : ~Good(s)}
<1>1. Sums(S, iter) /\ Sure(S) = iter[S]
  BY SumExists, SumOf
<1> HIDE DEF iter
<1>2. SUFFICES ASSUME Bad # {} PROVE FALSE
  BY <1>1
<1>3. PICK s \in Bad : \A x \in s : s \ {x} \notin Bad
  <2>1. \A s \in Bad : IsFiniteSet(s)
    BY FS_Subset
  <2> HIDE DEF Bad
  <2> QED
    BY <1>2, <2>1, SmallestSet
<1>4. s # {}
  BY <1>1, <1>3 DEF Sums
<1> DEFINE x == Taken(s)
           r == s \ {x}
<1>5. x \in s /\ x.conf \in Nat
  BY <1>4 DEF Taken
<1>6. iter[s] = x.conf + iter[r]
  BY <1>1, <1>4 DEF Sums
<1>7. Good(r)
  BY <1>3, <1>5
<1>8. Good(s)
  <2> HIDE DEF x
  <2>1. iter[s] \in Nat /\ x.conf <= iter[s] /\ iter[r] <= iter[s]
    BY <1>5, <1>6, <1>7
  <2>2. ASSUME NEW f \in s
        PROVE  f.conf <= iter[s]
    <3>1. f.conf \in Nat
      OBVIOUS
    <3>2. f = x \/ f \in r
      OBVIOUS
    <3>3. iter[r] \in Nat /\ \A g \in r : g.conf <= iter[r]
      BY <1>7
    <3> HIDE DEF r
    <3>4. CASE f = x
      BY <2>1, <3>4
    <3>5. CASE f \in r
      <4>1. f.conf <= iter[r]
        BY <3>3, <3>5
      <4> QED
        BY <4>1, <2>1, <3>1, <3>3
    <3> QED
      BY <3>2, <3>4, <3>5
  <2> QED
    BY <2>1, <2>2
<1> QED
  BY <1>3, <1>8
-----------------------------------------------------------------------------
(* Facts.                                                                    *)

\* Some of the facts are facts.
LEMMA FactsPart ==
  ASSUME NEW F, AreFacts(F), NEW S, S \subseteq F
  PROVE  AreFacts(S)
<1>1. IsFiniteSet(S)
  BY FS_Subset DEF AreFacts
<1> QED
  BY <1>1 DEF AreFacts

\* And may be held as they may, as ids are given out.
LEMMA SoundPart ==
  ASSUME NEW F, NEW a \in Int, NEW b \in Int, NEW G, Sound(F, a, G), a <= b, NEW S, S \subseteq F
  PROVE  Sound(S, b, G)
<1>1. AreFacts(S)
  BY FactsPart DEF Sound
<1>2. \A f \in S : f.id \in Int
  BY <1>1 DEF AreFacts, IsFact
<1> QED
  BY <1>1, <1>2 DEF Sound

\* No facts may be held by anyone.
LEMMA NothingIsSound ==
  ASSUME NEW a, NEW G
  PROVE  Sound({}, a, G)
BY FS_EmptySet DEF Sound, AreFacts

\* A fact that is ended is one, of the same id.
LEMMA EndedFact ==
  ASSUME NEW f, IsFact(f), NEW at \in Nat
  PROVE  /\ IsFact([f EXCEPT !.to = at])
         /\ [f EXCEPT !.to = at].id = f.id
         /\ [f EXCEPT !.to = at].to = at
BY DEF IsFact

\* A fact that is not deleted may be put among those that are held.
LEMMA PutSound ==
  ASSUME NEW F, NEW a, NEW G, Sound(F, a, G),
         NEW f, IsFact(f), f.id < a, f.id \notin G
  PROVE  Sound(Put(F, f), a, G)
<1>1. IsFiniteSet(Without(F, {f.id}) \union {f})
  <2>1. IsFiniteSet(Without(F, {f.id}))
    BY FS_Subset DEF Sound, AreFacts, Without
  <2> QED
    BY <2>1, FS_AddElement
<1> QED
  BY <1>1 DEF Put, Without, Sound, AreFacts

\* And any may be taken from them, whatever is deleted with it.
LEMMA WithoutSound ==
  ASSUME NEW F, NEW a, NEW G, Sound(F, a, G), NEW id
  PROVE  /\ Sound(Without(F, {id}), a, G)
         /\ Sound(Without(F, {id}), a, G \union {id})
<1>1. AreFacts(Without(F, {id}))
  BY FactsPart DEF Sound, Without
<1> QED
  BY <1>1 DEF Sound, Without

\* And ended.
LEMMA EndedSound ==
  ASSUME NEW F, NEW a, NEW G, Sound(F, a, G), NEW w, w.at \in Nat
  PROVE  Sound(Ended(F, w), a, G)
<1> DEFINE e == [f \in F |-> IF f.id = w.id THEN [f EXCEPT !.to = w.at] ELSE f]
<1>1. e = [f \in F |-> e[f]] /\ DOMAIN e = F
  OBVIOUS
<1>2. Ended(F, w) = {e[f] : f \in F}
  BY DEF Ended
<1>3. \A f \in F : IsFact(e[f]) /\ e[f].id = f.id
  BY EndedFact DEF Sound, AreFacts
<1> HIDE DEF e
<1>4. IsFiniteSet({e[f] : f \in F})
  BY <1>1, FiniteImage DEF Sound, AreFacts
<1> QED
  BY <1>2, <1>3, <1>4 DEF Sound, AreFacts

\* Of facts there is an earliest recorded one, and of those of one tick one of
\* the least id.
LEMMA EarliestIsOne ==
  ASSUME NEW S, S # {}, \A f \in S : IsFact(f)
  PROVE  Earliest(S) \in S
<1>1. PICK m \in {f.recorded : f \in S} : \A k \in {f.recorded : f \in S} : m <= k
  <2>1. {f.recorded : f \in S} \subseteq Nat /\ {f.recorded : f \in S} # {}
    BY DEF IsFact
  <2> QED
    BY <2>1, LeastNat
<1> DEFINE T == {f \in S : f.recorded = m}
<1>2. PICK n \in {f.id : f \in T} : \A k \in {f.id : f \in T} : n <= k
  <2>1. {f.id : f \in T} \subseteq Nat /\ {f.id : f \in T} # {}
    BY DEF IsFact
  <2> QED
    BY <2>1, LeastNat
<1>3. PICK e \in T : e.id = n
  BY <1>2
<1>4. \A g \in S : e.recorded < g.recorded \/ (e.recorded = g.recorded /\ e.id <= g.id)
  <2> TAKE g \in S
  <2>1. e.recorded = m /\ e.recorded \in Nat /\ g.recorded \in Nat /\ m <= g.recorded
    BY <1>1, <1>3 DEF IsFact
  <2>2. CASE g.recorded = m
    BY <1>2, <1>3, <2>1, <2>2
  <2>3. CASE g.recorded # m
    BY <2>1, <2>3
  <2> QED
    BY <2>2, <2>3
<1> QED
  BY <1>3, <1>4 DEF Earliest

-----------------------------------------------------------------------------
(* What a plan is made of.                                                   *)

\* Every write of a plan is one of those it was made of, and all that ends is
\* among them; what ends is closed first, and what is new is written last.
LEMMA PlanInOrder ==
  ASSUME NEW w, IsFiniteSet(w.upserts), IsFiniteSet(w.supersede), IsFiniteSet(w.expire)
  PROVE  /\ IsChannel(Writes(w))
         /\ \A i \in DOMAIN Writes(w) :
              \/ \E s \in w.supersede :
                   Writes(w)[i] = [op |-> "supersede", id |-> s.id, at |-> s.at]
              \/ \E id \in w.expire : Writes(w)[i] = [op |-> "expire", id |-> id]
              \/ \E f \in w.upserts : Writes(w)[i] = [op |-> "upsert", id |-> f.id, fact |-> f]
         /\ \A i, k \in DOMAIN Writes(w) :
              Writes(w)[i].op = "supersede" /\ k < i => Writes(w)[k].op = "supersede"
         /\ \A i, k \in DOMAIN Writes(w) :
              Writes(w)[i].op = "upsert" /\ i < k => Writes(w)[k].op = "upsert"
         /\ \A s \in w.supersede : \E i \in DOMAIN Writes(w) :
              Writes(w)[i].op = "supersede" /\ Writes(w)[i].id = s.id
         /\ \A id \in w.expire : \E i \in DOMAIN Writes(w) :
              Writes(w)[i].op = "expire" /\ Writes(w)[i].id = id
         /\ \A f \in w.upserts : \E i \in DOMAIN Writes(w) :
              Writes(w)[i].op = "upsert" /\ Writes(w)[i].id = f.id
<1> DEFINE S == {[op |-> "supersede", id |-> s.id, at |-> s.at] : s \in w.supersede}
           E == {[op |-> "expire", id |-> id] : id \in w.expire}
           U == {[op |-> "upsert", id |-> f.id, fact |-> f] : f \in w.upserts}
           s1 == SetToSeq(S)
           s2 == SetToSeq(E)
           s3 == SetToSeq(U)
<1>1. IsFiniteSet(S)
  <2> DEFINE f == [s \in w.supersede |-> [op |-> "supersede", id |-> s.id, at |-> s.at]]
  <2>1. f = [s \in w.supersede |-> f[s]] /\ DOMAIN f = w.supersede
    OBVIOUS
  <2>2. S = {f[s] : s \in w.supersede}
    OBVIOUS
  <2> HIDE DEF f
  <2>3. IsFiniteSet({f[s] : s \in w.supersede})
    BY <2>1, FiniteImage
  <2> QED
    BY <2>2, <2>3
<1>2. IsFiniteSet(E)
  <2> DEFINE f == [id \in w.expire |-> [op |-> "expire", id |-> id]]
  <2>1. f = [id \in w.expire |-> f[id]] /\ DOMAIN f = w.expire
    OBVIOUS
  <2>2. E = {f[id] : id \in w.expire}
    OBVIOUS
  <2> HIDE DEF f
  <2>3. IsFiniteSet({f[id] : id \in w.expire})
    BY <2>1, FiniteImage
  <2> QED
    BY <2>2, <2>3
<1>3. IsFiniteSet(U)
  <2> DEFINE f == [g \in w.upserts |-> [op |-> "upsert", id |-> g.id, fact |-> g]]
  <2>1. f = [g \in w.upserts |-> f[g]] /\ DOMAIN f = w.upserts
    OBVIOUS
  <2>2. U = {f[g] : g \in w.upserts}
    OBVIOUS
  <2> HIDE DEF f
  <2>3. IsFiniteSet({f[g] : g \in w.upserts})
    BY <2>1, FiniteImage
  <2> QED
    BY <2>2, <2>3
<1>4. s1 \in Seq(S) /\ s2 \in Seq(E) /\ s3 \in Seq(U)
  <2> HIDE DEF S, E, U
  <2> QED
    BY <1>1, <1>2, <1>3, SetInOrder
<1>5. /\ \A i \in DOMAIN s1 : s1[i] \in S
      /\ \A i \in DOMAIN s2 : s2[i] \in E
      /\ \A i \in DOMAIN s3 : s3[i] \in U
  <2> HIDE DEF S, E, U, s1, s2, s3
  <2> QED
    BY <1>4
<1>16. /\ \A x \in S : \E i \in DOMAIN s1 : s1[i] = x
       /\ \A x \in E : \E i \in DOMAIN s2 : s2[i] = x
       /\ \A x \in U : \E i \in DOMAIN s3 : s3[i] = x
  <2> HIDE DEF S, E, U
  <2> QED
    BY <1>1, <1>2, <1>3, SetInOrder
<1>6. IsChannel(s1) /\ IsChannel(s2) /\ IsChannel(s3)
  <2> HIDE DEF S, E, U, s1, s2, s3
  <2> QED
    BY <1>4 DEF IsChannel
<1>7. Writes(w) = s1 \o s2 \o s3
  BY DEF Writes
<1>8. /\ \A x \in E \union U : x.op # "supersede"
      /\ \A x \in S \union E : x.op # "upsert"
      /\ \A x \in U : x.op = "upsert"
  OBVIOUS
<1>9. \A x \in S : x.op = "supersede"
  OBVIOUS
<1> HIDE DEF s1, s2, s3
<1> DEFINE s12 == s1 \o s2
           all == s12 \o s3
<1>10. /\ IsChannel(s12) /\ Len(s1) \in Nat /\ DOMAIN s1 = 1..Len(s1)
       /\ \A i \in DOMAIN s12 : IF i <= Len(s1) THEN s12[i] = s1[i] ELSE s12[i] \in E
       /\ \A i \in DOMAIN s1 : \E k \in DOMAIN s12 : s12[k] = s1[i]
       /\ \A i \in DOMAIN s2 : \E k \in DOMAIN s12 : s12[k] = s2[i]
  <2> HIDE DEF S, E, U
  <2> QED
    BY <1>5, <1>6, ConcatIn
<1> HIDE DEF s12
<1>11. /\ IsChannel(all) /\ Len(s12) \in Nat /\ DOMAIN s12 = 1..Len(s12)
       /\ DOMAIN all \subseteq Nat \ {0}
       /\ \A i \in DOMAIN all : IF i <= Len(s12) THEN all[i] = s12[i] ELSE all[i] \in U
       /\ \A i \in DOMAIN s12 : \E k \in DOMAIN all : all[k] = s12[i]
       /\ \A i \in DOMAIN s3 : \E k \in DOMAIN all : all[k] = s3[i]
  <2> HIDE DEF S, E, U
  <2> QED
    <3>1. IsChannel(s3) /\ \A i \in DOMAIN s3 : s3[i] \in U
      BY <1>5, <1>6
    <3>2. IsChannel(s12)
      BY <1>10
    <3>3. /\ IsChannel(s12 \o s3) /\ Len(s12) \in Nat /\ DOMAIN s12 = 1..Len(s12)
          /\ DOMAIN (s12 \o s3) \subseteq Nat \ {0}
          /\ \A i \in DOMAIN (s12 \o s3) :
               IF i <= Len(s12) THEN (s12 \o s3)[i] = s12[i] ELSE (s12 \o s3)[i] \in U
          /\ \A i \in DOMAIN s12 : \E k \in DOMAIN (s12 \o s3) : (s12 \o s3)[k] = s12[i]
          /\ \A i \in DOMAIN s3 : \E k \in DOMAIN (s12 \o s3) : (s12 \o s3)[k] = s3[i]
      BY <3>1, <3>2, ConcatIn, Zenon
    <3> QED
      BY <3>3
<1> HIDE DEF all
<1>12. \A i \in DOMAIN all :
          IF i <= Len(s12) /\ i <= Len(s1) THEN all[i] \in S ELSE all[i] \in E \union U
  <2> HIDE DEF S, E, U
  <2> TAKE i \in DOMAIN all
  <2>1. i \in Nat \ {0}
    BY <1>11
  <2>2. CASE i <= Len(s12) /\ i <= Len(s1)
    <3>1. i \in DOMAIN s12 /\ i \in DOMAIN s1
      BY <1>10, <1>11, <2>1, <2>2
    <3> QED
      BY <3>1, <1>5, <1>10, <1>11, <2>2
  <2>3. CASE i <= Len(s12) /\ ~(i <= Len(s1))
    <3>1. i \in DOMAIN s12
      BY <1>11, <2>1, <2>3
    <3> QED
      BY <3>1, <1>10, <1>11, <2>3
  <2>4. CASE ~(i <= Len(s12))
    BY <1>11, <2>4
  <2> QED
    BY <2>2, <2>3, <2>4
<1>13. ASSUME NEW i \in DOMAIN all, NEW k \in DOMAIN all, all[i].op = "supersede", k < i
       PROVE  all[k].op = "supersede"
  <2> HIDE DEF S, E, U
  <2>1. i \in Nat /\ k \in Nat
    BY <1>11
  <2>2. i <= Len(s12) /\ i <= Len(s1)
    BY <1>8, <1>12, <1>13
  <2>3. k <= Len(s12) /\ k <= Len(s1)
    BY <2>1, <2>2, <1>10, <1>11, <1>13
  <2> QED
    BY <2>3, <1>9, <1>12
<1>17. \A i \in DOMAIN all : IF i <= Len(s12) THEN all[i] \in S \union E ELSE all[i] \in U
  <2> HIDE DEF S, E, U
  <2> TAKE i \in DOMAIN all
  <2>1. CASE i <= Len(s12)
    <3>1. i \in DOMAIN s12
      BY <1>11, <2>1
    <3>2. s12[i] \in S \union E
      <4>1. i <= Len(s1) => i \in DOMAIN s1
        BY <1>10, <1>11
      <4> QED
        BY <3>1, <4>1, <1>5, <1>10
    <3> QED
      BY <3>2, <2>1, <1>11
  <2>2. CASE ~(i <= Len(s12))
    BY <1>11, <2>2
  <2> QED
    BY <2>1, <2>2
<1>18. ASSUME NEW i \in DOMAIN all, NEW k \in DOMAIN all, all[i].op = "upsert", i < k
       PROVE  all[k].op = "upsert"
  <2> HIDE DEF S, E, U
  <2>1. i \in Nat /\ k \in Nat
    BY <1>11
  <2>2. ~(i <= Len(s12))
    BY <1>8, <1>17, <1>18
  <2>3. ~(k <= Len(s12))
    BY <2>1, <2>2, <1>11, <1>18
  <2> QED
    BY <2>3, <1>8, <1>17
<1>19. \A x \in S \union E \union U : \E i \in DOMAIN all : all[i] = x
  <2> HIDE DEF S, E, U
  <2> QED
    BY <1>10, <1>11, <1>16
<1>20. \A s \in w.supersede : \E i \in DOMAIN all : all[i].op = "supersede" /\ all[i].id = s.id
  <2> TAKE s \in w.supersede
  <2> DEFINE x == [op |-> "supersede", id |-> s.id, at |-> s.at]
  <2>1. x \in S /\ x.op = "supersede" /\ x.id = s.id
    OBVIOUS
  <2> HIDE DEF x, S, E
  <2> QED
    BY <1>19, <2>1
<1>21. \A id \in w.expire : \E i \in DOMAIN all : all[i].op = "expire" /\ all[i].id = id
  <2> TAKE id \in w.expire
  <2> DEFINE x == [op |-> "expire", id |-> id]
  <2>1. x \in E /\ x.op = "expire" /\ x.id = id
    OBVIOUS
  <2> HIDE DEF x, S, E
  <2> QED
    BY <1>19, <2>1
<1>22. \A f \in w.upserts : \E i \in DOMAIN all : all[i].op = "upsert" /\ all[i].id = f.id
  <2> TAKE f \in w.upserts
  <2> DEFINE x == [op |-> "upsert", id |-> f.id, fact |-> f]
  <2>1. x \in U /\ x.op = "upsert" /\ x.id = f.id
    OBVIOUS
  <2> HIDE DEF x, U
  <2> QED
    BY <1>19, <2>1
<1>14. all = Writes(w)
  BY <1>7 DEF all, s12
<1>15. ASSUME NEW i \in DOMAIN all
       PROVE  \/ \E s \in w.supersede : all[i] = [op |-> "supersede", id |-> s.id, at |-> s.at]
              \/ \E id \in w.expire : all[i] = [op |-> "expire", id |-> id]
              \/ \E f \in w.upserts : all[i] = [op |-> "upsert", id |-> f.id, fact |-> f]
  BY <1>12
<1> QED
  BY <1>11, <1>13, <1>14, <1>15, <1>18, <1>20, <1>21, <1>22

\* What is written of a fact that there is: the same, surer, or from earlier.
Continues(f, u) ==
  /\ u.id = f.id /\ u.predicate = f.predicate /\ u.object = f.object /\ u.to = f.to
  /\ u.recorded = f.recorded /\ f.conf <= u.conf

\* Facts that say the same in other words, and are merged by rule.
Twice(f, g) == f # g /\ FollowUp \notin {f.predicate, g.predicate} /\ Key(f) = Key(g)

\* A fact that is forgotten at a time: hedged, without an end, and old.
Hedged(f, when) == f.to = None /\ f.conf < ForgetBelow /\ when - f.recorded > ForgetAfter

\* A plan so far, of what is known at a tick: it closes only what is known, and
\* what it is to write is known and current, or new, and not what it closes.
IsPlan(w) ==
  w \in [working : {w.working}, upserts : {w.upserts}, supersede : {w.supersede},
         expire : {w.expire}, next : {w.next}]

PlanOK(known, at, next, w) ==
  /\ IsPlan(w)
  /\ IsFiniteSet(w.upserts) /\ IsFiniteSet(w.supersede) /\ IsFiniteSet(w.expire)
  /\ IsFiniteSet(w.working)
  /\ w.next \in Nat /\ next <= w.next
  /\ \A f \in w.working \union w.upserts :
       /\ IsFact(f) /\ f.id < w.next /\ f.id \notin w.expire
       /\ next <= f.id \/ \E g \in known : isCurrent(g, at) /\ g.id = f.id
  /\ \A id \in w.expire : id \in Nat /\ id < next
  /\ \A s \in w.supersede :
       /\ s.at \in Nat \ {None}
       /\ \E g \in known : isCurrent(g, at) /\ g.id = s.id
       /\ \A f \in w.working : f.id # s.id
       /\ \A t \in w.supersede : t.id = s.id => t.at = s.at

KnownOK(known, next) ==
  /\ next \in Nat \ {None}
  /\ IsFiniteSet(known)
  /\ \A g \in known : IsFact(g) /\ g.id < next
  /\ \A g, h \in known : g.id = h.id => g = h

\* The values side by side in a plan so far: what is written and goes on is in
\* the working copy, where two values of what has one are both known, and all
\* that was known and is not in it any more is closed.
PlanSides(known, at, w) ==
  /\ \A f, g \in w.working : f.id = g.id => f = g
  /\ \A u \in w.upserts :
       u \in w.working \/ (u.to # None /\ \A f \in w.working \union known : f.id # u.id)
  /\ \A u, v \in w.upserts : u.id = v.id => u = v
  /\ \A f \in w.working \union w.upserts : f.recorded = at \/ \E k \in known : k.id = f.id
  /\ \A f \in w.working, k \in known : k.id = f.id => Continues(k, f)
  /\ \A f, g \in w.working :
       f.predicate = g.predicate /\ f.predicate \in SingleValued /\ f # g =>
         \E k \in known : k.id = f.id
  /\ \A k \in known : isCurrent(k, at) =>
       \/ \E f \in w.working : f.id = k.id
       \/ k.id \in w.expire
       \/ \E s \in w.supersede : s.id = k.id

\* To close facts keeps a plan one.
LEMMA ClosesInPlan ==
  ASSUME NEW known, NEW at, NEW next, KnownOK(known, next),
         NEW w, PlanOK(known, at, next, w),
         NEW olds, olds \subseteq w.working, NEW when \in Nat \ {None},
         NEW v, v = Close(known, w, olds, when)
  PROVE  PlanOK(known, at, next, v)
<1> DEFINE ids == {o.id : o \in olds}
           stored == {o \in olds : ById(known, o.id) # {}}
           begun == {o \in olds : o.from < when}
           E == {o.id : o \in stored \ begun}
           S == {[id |-> o.id, at |-> when] : o \in stored \cap begun}
           U == {[o EXCEPT !.to = when] : o \in begun \ stored}
<1>1. /\ IsPlan(v) /\ v.next = w.next
      /\ v.working = Without(w.working, ids)
      /\ v.upserts = Without(w.upserts, ids) \union U
      /\ v.supersede = w.supersede \union S
      /\ v.expire = w.expire \union E
  <2>1. v = [w EXCEPT !.working = Without(@, ids), !.expire = @ \union E,
                      !.supersede = @ \union S, !.upserts = Without(@, ids) \union U]
    BY DEF Close
  <2>2. IsPlan(w)
    BY DEF PlanOK
  <2> HIDE DEF E, S, U, ids
  <2> QED
    BY <2>1, <2>2 DEF IsPlan
<1>2. IsFiniteSet(olds)
  BY FS_Subset DEF PlanOK
<1>3. IsFiniteSet(E)
  <2> DEFINE D == stored \ begun
             f == [o \in D |-> o.id]
  <2>1. IsFiniteSet(D)
    BY <1>2, FS_Subset
  <2>2. f = [o \in D |-> f[o]] /\ DOMAIN f = D /\ E = {f[o] : o \in D}
    OBVIOUS
  <2> HIDE DEF f, D, E
  <2> QED
    BY <2>1, <2>2, FiniteImage
<1>4. IsFiniteSet(S)
  <2> DEFINE D == stored \cap begun
             f == [o \in D |-> [id |-> o.id, at |-> when]]
  <2>1. IsFiniteSet(D)
    BY <1>2, FS_Subset
  <2>2. f = [o \in D |-> f[o]] /\ DOMAIN f = D /\ S = {f[o] : o \in D}
    OBVIOUS
  <2> HIDE DEF f, D, S
  <2> QED
    BY <2>1, <2>2, FiniteImage
<1>5. IsFiniteSet(U)
  <2> DEFINE D == begun \ stored
             f == [o \in D |-> [o EXCEPT !.to = when]]
  <2>1. IsFiniteSet(D)
    BY <1>2, FS_Subset
  <2>2. f = [o \in D |-> f[o]] /\ DOMAIN f = D /\ U = {f[o] : o \in D}
    OBVIOUS
  <2> HIDE DEF f, D, U
  <2> QED
    BY <2>1, <2>2, FiniteImage
<1>6. /\ IsFiniteSet(v.upserts) /\ IsFiniteSet(v.supersede) /\ IsFiniteSet(v.expire)
      /\ IsFiniteSet(v.working)
  <2>1. IsFiniteSet(Without(w.working, ids)) /\ IsFiniteSet(Without(w.upserts, ids))
    BY FS_Subset DEF Without, PlanOK
  <2>2. IsFiniteSet(w.supersede) /\ IsFiniteSet(w.expire)
    BY DEF PlanOK
  <2> HIDE DEF E, S, U, ids
  <2> QED
    <3>1. /\ IsFiniteSet(Without(w.upserts, ids) \union U)
          /\ IsFiniteSet(w.supersede \union S)
          /\ IsFiniteSet(w.expire \union E)
      BY <1>3, <1>4, <1>5, <2>1, <2>2, FS_Union
    <3> QED
      BY <1>1, <2>1, <3>1
<1>7. \A id \in E : id \in Nat /\ id < next /\ id \in ids
  <2> TAKE id \in E
  <2>1. PICK o \in stored : o.id = id
    OBVIOUS
  <2>2. PICK g \in known : g.id = id
    BY <2>1 DEF ById
  <2> QED
    BY <2>1, <2>2 DEF KnownOK, IsFact
<1>8. \A s \in S : /\ s.at = when /\ s.id \in ids
                 /\ \E g \in known : isCurrent(g, at) /\ g.id = s.id
  <2> TAKE s \in S
  <2>1. PICK o \in stored \cap begun : s = [id |-> o.id, at |-> when]
    OBVIOUS
  <2>2. PICK g \in known : g.id = o.id
    BY <2>1 DEF ById
  <2>3. o.id < next /\ o.id \in Nat /\ next \in Nat
    BY <2>2 DEF KnownOK, IsFact
  <2>4. \E h \in known : isCurrent(h, at) /\ h.id = o.id
    BY <2>3 DEF PlanOK
  <2> QED
    BY <2>1, <2>4
<1>11. \A s \in w.supersede \union S :
         /\ s.at \in Nat \ {None}
         /\ \E g \in known : isCurrent(g, at) /\ g.id = s.id
         /\ \A f \in Without(w.working, ids) : f.id # s.id
         /\ \A t \in w.supersede \union S : t.id = s.id => t.at = s.at
  <2>1. \A s \in w.supersede : s.id \notin ids
    BY DEF PlanOK
  <2> HIDE DEF S, ids
  <2> QED
    BY <1>8, <2>1 DEF PlanOK, Without
<1>9. ASSUME NEW f \in U
      PROVE  /\ IsFact(f) /\ f.id < w.next /\ f.id \notin w.expire /\ f.id \notin E
             /\ next <= f.id \/ \E g \in known : isCurrent(g, at) /\ g.id = f.id
  <2>1. PICK o \in begun \ stored : f = [o EXCEPT !.to = when]
    OBVIOUS
  <2>2. o \in w.working /\ IsFact(o)
    BY DEF PlanOK
  <2>3. IsFact(f) /\ f.id = o.id
    BY <2>1, <2>2, EndedFact
  <2>4. o.id \notin E
    BY DEF ById
  <2> QED
    BY <2>2, <2>3, <2>4 DEF PlanOK
<1>10. ASSUME NEW f \in Without(w.working, ids) \union Without(w.upserts, ids)
       PROVE  /\ IsFact(f) /\ f.id < w.next /\ f.id \notin w.expire /\ f.id \notin E
              /\ next <= f.id \/ \E g \in known : isCurrent(g, at) /\ g.id = f.id
  <2>1. f \in w.working \union w.upserts /\ f.id \notin ids
    BY DEF Without
  <2> HIDE DEF E, ids
  <2> QED
    BY <2>1, <1>7 DEF PlanOK
<1> HIDE DEF E, S, U, ids
<1> QED
  BY <1>1, <1>6, <1>7, <1>8, <1>9, <1>10, <1>11 DEF PlanOK

\* What closing makes of a plan.
LEMMA ClosedSides ==
  ASSUME NEW known, NEW at, NEW w, IsPlan(w), PlanSides(known, at, w),
         \A f \in w.working : IsFact(f),
         NEW olds, olds \subseteq w.working, NEW when, when # None,
         NEW v, v = Close(known, w, olds, when)
  PROVE  /\ PlanSides(known, at, v)
         /\ \A f \in v.working : f \in w.working /\ \A o \in olds : o.id # f.id
<1> DEFINE ids == {o.id : o \in olds}
           stored == {o \in olds : ById(known, o.id) # {}}
           begun == {o \in olds : o.from < when}
           E == {o.id : o \in stored \ begun}
           S == {[id |-> o.id, at |-> when] : o \in stored \cap begun}
           U == {[o EXCEPT !.to = when] : o \in begun \ stored}
<1>1. /\ v.working = Without(w.working, ids)
      /\ v.upserts = Without(w.upserts, ids) \union U
      /\ v.supersede = w.supersede \union S
      /\ v.expire = w.expire \union E
  <2>1. v = [w EXCEPT !.working = Without(@, ids), !.expire = @ \union E,
                      !.supersede = @ \union S, !.upserts = Without(@, ids) \union U]
    BY DEF Close
  <2> HIDE DEF E, S, U, ids
  <2> QED
    BY <2>1 DEF IsPlan
<1>2. \A u \in U : /\ u.to # None /\ \A k \in known : k.id # u.id
                   /\ \E o \in olds : u = [o EXCEPT !.to = when] /\ u.id = o.id
                                      /\ u.recorded = o.recorded
  <2> TAKE u \in U
  <2>1. PICK o \in begun \ stored : u = [o EXCEPT !.to = when]
    OBVIOUS
  <2>2. IsFact(o)
    OBVIOUS
  <2>3. u.to = when /\ u.id = o.id /\ u.recorded = o.recorded
    BY <2>1, <2>2 DEF IsFact
  <2>4. \A k \in known : k.id # o.id
    BY DEF ById
  <2> QED
    BY <2>1, <2>3, <2>4
<1>10. \A u \in U : u.id \in ids
  BY <1>2
<1>3. ASSUME NEW k \in known, NEW o \in olds, o.id = k.id
      PROVE  k.id \in E \/ \E s \in S : s.id = k.id
  <2>1. o \in stored
    BY <1>3 DEF ById
  <2>2. CASE o \in begun
    <3> DEFINE s == [id |-> o.id, at |-> when]
    <3>1. s \in S /\ s.id = k.id
      BY <1>3, <2>1, <2>2
    <3> QED
      BY <3>1
  <2>3. CASE o \notin begun
    BY <1>3, <2>1, <2>3
  <2> QED
    BY <2>2, <2>3
<1>4. \A f \in v.working : f \in w.working /\ f.id \notin ids
  BY <1>1 DEF Without
<1>5. \A f \in w.working : f \in v.working \/ \E o \in olds : o.id = f.id
  BY <1>1 DEF Without
<1>6. \A u \in v.upserts : u \in U \/ (u \in w.upserts /\ u.id \notin ids)
  BY <1>1 DEF Without
<1> HIDE DEF E, S, U
<1>7. \A u \in v.upserts :
        u \in v.working \/ (u.to # None /\ \A f \in v.working \union known : f.id # u.id)
  <2> TAKE u \in v.upserts
  <2>1. CASE u \in U
    BY <2>1, <1>2, <1>10, <1>4
  <2>2. CASE u \in w.upserts /\ u.id \notin ids
    BY <2>2, <1>4, <1>5 DEF PlanSides
  <2> QED
    BY <2>1, <2>2, <1>6
<1>8. \A k \in known : isCurrent(k, at) =>
        \/ \E f \in v.working : f.id = k.id
        \/ k.id \in v.expire
        \/ \E s \in v.supersede : s.id = k.id
  <2> SUFFICES ASSUME NEW k \in known, isCurrent(k, at)
               PROVE  \/ \E f \in v.working : f.id = k.id
                      \/ k.id \in v.expire
                      \/ \E s \in v.supersede : s.id = k.id
    OBVIOUS
  <2>1. CASE \E f \in w.working : f.id = k.id
    BY <2>1, <1>1, <1>3, <1>5
  <2>2. CASE k.id \in w.expire \/ \E s \in w.supersede : s.id = k.id
    BY <2>2, <1>1
  <2> QED
    BY <2>1, <2>2 DEF PlanSides
<1>11. \A t, u \in v.upserts : t.id = u.id => t = u
  <2> TAKE t \in v.upserts, u \in v.upserts
  <2> HAVE t.id = u.id
  <2>1. CASE t \in U /\ u \in U
    <3>1. PICK o \in olds : t = [o EXCEPT !.to = when] /\ t.id = o.id
      BY <2>1, <1>2
    <3>2. PICK p \in olds : u = [p EXCEPT !.to = when] /\ u.id = p.id
      BY <2>1, <1>2
    <3>3. o = p
      BY <3>1, <3>2 DEF PlanSides
    <3> QED
      BY <3>1, <3>2, <3>3
  <2>2. CASE t \notin U /\ u \notin U
    BY <2>2, <1>6 DEF PlanSides
  <2>3. CASE (t \in U /\ u \notin U) \/ (t \notin U /\ u \in U)
    BY <2>3, <1>6, <1>10
  <2> QED
    BY <2>1, <2>2, <2>3
<1>12. \A f \in v.working \union v.upserts : f.recorded = at \/ \E k \in known : k.id = f.id
  <2> TAKE f \in v.working \union v.upserts
  <2>1. CASE f \in w.working \union w.upserts
    BY <2>1 DEF PlanSides
  <2>2. CASE f \in U
    <3>1. PICK o \in olds : f.id = o.id /\ f.recorded = o.recorded
      BY <2>2, <1>2
    <3> QED
      BY <3>1 DEF PlanSides
  <2> QED
    BY <2>1, <2>2, <1>4, <1>6
<1> HIDE DEF ids
<1>9. PlanSides(known, at, v)
  BY <1>4, <1>7, <1>8, <1>11, <1>12 DEF PlanSides
<1> QED
  BY <1>4, <1>9 DEF ids

\* What reinforcing makes of it.
LEMMA RaisedSides ==
  ASSUME NEW known, NEW at, NEW w, PlanSides(known, at, w),
         NEW old \in w.working, NEW raised, Continues(old, raised),
         old.conf \in Nat, raised.conf \in Nat, \A k \in known : k.conf \in Nat,
         NEW v, v.working = Put(w.working, raised), v.upserts = Put(w.upserts, raised),
         v.supersede = w.supersede, v.expire = w.expire
  PROVE  PlanSides(known, at, v)
<1> USE DEF Continues
<1>1. raised \in v.working /\ \A f \in v.working : f = raised \/ (f \in w.working /\ f.id # old.id)
  BY DEF Put, Without
<1>2. \A f \in w.working : f \in v.working \/ f.id = raised.id
  BY DEF Put, Without
<1>3. \A u \in v.upserts : u = raised \/ (u \in w.upserts /\ u.id # old.id)
  BY DEF Put, Without
<1>4. \A f, g \in v.working : f.id = g.id => f = g
  BY <1>1 DEF PlanSides
<1>5. \A u \in v.upserts :
        u \in v.working \/ (u.to # None /\ \A f \in v.working \union known : f.id # u.id)
  BY <1>1, <1>2, <1>3 DEF PlanSides
<1>6. \A f \in v.working, k \in known : k.id = f.id => Continues(k, f)
  <2> SUFFICES ASSUME NEW f \in v.working, NEW k \in known, k.id = f.id
               PROVE  Continues(k, f)
    OBVIOUS
  <2>1. CASE f = raised
    <3>1. Continues(k, old)
      BY <2>1 DEF PlanSides
    <3> QED
      BY <2>1, <3>1
  <2>2. CASE f # raised
    BY <2>2, <1>1 DEF PlanSides
  <2> QED
    BY <2>1, <2>2
<1>9. \A t, u \in v.upserts : t.id = u.id => t = u
  BY <1>3 DEF PlanSides
<1>10. \A f \in v.working \union v.upserts : f.recorded = at \/ \E k \in known : k.id = f.id
  BY <1>1, <1>3 DEF PlanSides
<1>7. ASSUME NEW f \in v.working, NEW g \in v.working,
             f.predicate = g.predicate, f.predicate \in SingleValued, f # g
      PROVE  \E k \in known : k.id = f.id
  <2>1. CASE f = raised
    <3>1. g \in w.working /\ g.id # old.id
      BY <1>1, <1>7, <2>1
    <3> QED
      BY <3>1, <1>7, <2>1 DEF PlanSides
  <2>2. CASE f # raised /\ g = raised
    <3>1. f \in w.working /\ f.id # old.id
      BY <1>1, <2>2
    <3> QED
      BY <3>1, <1>7, <2>2 DEF PlanSides
  <2>3. CASE f # raised /\ g # raised
    BY <1>1, <1>7, <2>3 DEF PlanSides
  <2> QED
    BY <2>1, <2>2, <2>3
<1>8. \A k \in known : isCurrent(k, at) =>
        \/ \E f \in v.working : f.id = k.id
        \/ k.id \in v.expire
        \/ \E s \in v.supersede : s.id = k.id
  BY <1>1, <1>2 DEF PlanSides
<1> QED
  BY <1>4, <1>5, <1>6, <1>7, <1>8, <1>9, <1>10 DEF PlanSides

\* What is new is alone in it.
LEMMA AddedSides ==
  ASSUME NEW known, NEW at, NEW w, PlanSides(known, at, w),
         NEW fact, \A f \in w.working \union w.upserts \union known : f.id # fact.id,
         fact.recorded = at,
         \A f \in w.working : f.predicate = fact.predicate => f.predicate \notin SingleValued,
         NEW v, v.working = w.working \union {fact}, v.upserts = w.upserts \union {fact},
         v.supersede = w.supersede, v.expire = w.expire
  PROVE  PlanSides(known, at, v)
<1>1. \A f, g \in v.working : f.id = g.id => f = g
  BY DEF PlanSides
<1>2. \A u \in v.upserts :
        u \in v.working \/ (u.to # None /\ \A f \in v.working \union known : f.id # u.id)
  BY DEF PlanSides
<1>3. \A f \in v.working, k \in known : k.id = f.id => Continues(k, f)
  BY DEF PlanSides
<1>6. \A t, u \in v.upserts : t.id = u.id => t = u
  BY DEF PlanSides
<1>7. \A f \in v.working \union v.upserts : f.recorded = at \/ \E k \in known : k.id = f.id
  BY DEF PlanSides
<1>4. \A f, g \in v.working :
        f.predicate = g.predicate /\ f.predicate \in SingleValued /\ f # g =>
          \E k \in known : k.id = f.id
  BY DEF PlanSides
<1>5. \A k \in known : isCurrent(k, at) =>
        \/ \E f \in v.working : f.id = k.id
        \/ k.id \in v.expire
        \/ \E s \in v.supersede : s.id = k.id
  BY DEF PlanSides
<1> QED
  BY <1>1, <1>2, <1>3, <1>4, <1>5, <1>6, <1>7 DEF PlanSides

\* Of the facts that say the same there is one of the least id.
LEMMA LeastId ==
  ASSUME NEW S, S # {}, \A f \in S : IsFact(f)
  PROVE  (CHOOSE f \in S : \A g \in S : f.id <= g.id) \in S
<1>1. PICK n \in {f.id : f \in S} : \A k \in {f.id : f \in S} : n <= k
  <2>1. {f.id : f \in S} \subseteq Nat /\ {f.id : f \in S} # {}
    BY DEF IsFact
  <2> QED
    BY <2>1, LeastNat
<1>2. \E f \in S : \A g \in S : f.id <= g.id
  BY <1>1
<1> QED
  BY <1>2

\* What is read of one fact.
IsRaw(raw) == raw.from \in Nat /\ raw.conf \in Nat

\* To hear a fact keeps a plan one, and gives out one id at most.
LEMMA HearsInPlan ==
  ASSUME NEW known, NEW at \in Nat \ {None}, NEW next, KnownOK(known, next),
         NEW w, PlanOK(known, at, next, w), PlanSides(known, at, w),
         NEW raw, IsRaw(raw)
  PROVE  /\ PlanOK(known, at, next, Hear(known, at, w, raw))
         /\ PlanSides(known, at, Hear(known, at, w, raw))
         /\ Hear(known, at, w, raw).next \in {w.next, w.next + 1}
<1> DEFINE startsAt == IF raw.from = None THEN at ELSE raw.from
           same == {f \in w.working : f.predicate = raw.predicate /\ f.object = raw.object}
<1>1. startsAt \in Nat \ {None}
  BY DEF IsRaw
<1>2. CASE same # {}
  <2> DEFINE old == CHOOSE f \in same : \A g \in same : f.id <= g.id
             earlier == startsAt < old.from
             raised == [old EXCEPT !.conf = @ + raw.conf,
                                   !.from = IF earlier THEN startsAt ELSE @]
             olds == Rivals(w, old.predicate, {old.id})
             closed == IF earlier THEN Close(known, w, olds, startsAt) ELSE w
             v == [closed EXCEPT !.working = Put(@, raised), !.upserts = Put(@, raised)]
  <2>1. old \in same
    <3>1. \A f \in same : IsFact(f)
      BY DEF PlanOK
    <3> HIDE DEF same
    <3> QED
      BY <1>2, <3>1, LeastId
  <2>2. Hear(known, at, w, raw) = v
    BY <1>2 DEF Hear
  <2> HIDE DEF same, old
  <2>3. old \in w.working
    BY <2>1 DEF same
  <2>4. olds \subseteq w.working /\ \A f \in olds : f.id # old.id
    BY DEF Rivals, Without
  <2> HIDE DEF olds
  <2>5. /\ PlanOK(known, at, next, closed) /\ closed.next = w.next
        /\ PlanSides(known, at, closed)
        /\ old \in closed.working
    <3>1. CASE earlier
      <4> DEFINE c == Close(known, w, olds, startsAt)
      <4>1. PlanOK(known, at, next, c)
        <5> HIDE DEF startsAt
        <5> QED
          BY <2>4, <1>1, ClosesInPlan
      <4>2. closed = c
        BY <3>1
      <4>3. c.next = w.next /\ c.working = Without(w.working, {o.id : o \in olds})
        <5> HIDE DEF startsAt
        <5>1. IsPlan(w)
          BY DEF PlanOK
        <5> QED
          BY <5>1 DEF IsPlan, Close
      <4>4. PlanSides(known, at, c)
        <5>1. IsPlan(w) /\ \A f \in w.working : IsFact(f)
          BY DEF PlanOK
        <5> HIDE DEF startsAt
        <5> QED
          BY <2>4, <1>1, <5>1, ClosedSides
      <4> HIDE DEF closed, c
      <4> QED
        BY <4>1, <4>2, <4>3, <4>4, <2>3, <2>4 DEF Without
    <3>2. CASE ~earlier
      BY <2>3, <3>2
    <3> QED
      BY <3>1, <3>2
  <2>6. /\ IsFact(old) /\ IsFact(raised) /\ raised.id = old.id /\ Continues(old, raised)
        /\ raised.predicate = old.predicate /\ raised.object = old.object /\ raised.to = old.to
    <3> DEFINE since == IF earlier THEN startsAt ELSE old.from
               sure == old.conf + raw.conf
    <3>1. IsFact(old)
      BY <2>3 DEF PlanOK
    <3> HIDE DEF startsAt, earlier
    <3>2. raised = [old EXCEPT !.conf = sure, !.from = since]
      BY <3>1 DEF IsFact
    <3>3. since \in Nat \ {None} /\ sure \in Nat /\ old.conf <= sure
      BY <3>1, <1>1 DEF IsFact, IsRaw
    <3> HIDE DEF since, sure, raised
    <3> QED
      BY <3>1, <3>2, <3>3 DEF IsFact, Continues
  <2> HIDE DEF closed, raised
  <2>7. /\ IsPlan(v) /\ v.working = Put(closed.working, raised)
        /\ v.upserts = Put(closed.upserts, raised)
        /\ v.supersede = closed.supersede /\ v.expire = closed.expire /\ v.next = closed.next
    <3>1. IsPlan(closed)
      BY <2>5 DEF PlanOK
    <3> QED
      BY <3>1 DEF IsPlan
  <2> HIDE DEF v
  <2>8. IsFiniteSet(v.working) /\ IsFiniteSet(v.upserts)
    <3>1. IsFiniteSet(Without(closed.working, {raised.id}))
          /\ IsFiniteSet(Without(closed.upserts, {raised.id}))
      BY <2>5, FS_Subset DEF Without, PlanOK
    <3>2. /\ IsFiniteSet(Without(closed.working, {raised.id}) \union {raised})
          /\ IsFiniteSet(Without(closed.upserts, {raised.id}) \union {raised})
      BY <3>1, FS_AddElement
    <3> QED
      BY <2>7, <3>2 DEF Put
  <2>9. PlanOK(known, at, next, v)
    BY <2>5, <2>6, <2>7, <2>8 DEF PlanOK, Put, Without
  <2>10. PlanSides(known, at, v)
    <3>1. old.conf \in Nat /\ raised.conf \in Nat /\ \A k \in known : k.conf \in Nat
      BY <2>6 DEF IsFact, KnownOK
    <3> QED
      BY <2>5, <2>6, <2>7, <3>1, RaisedSides
  <2> QED
    BY <2>2, <2>5, <2>7, <2>9, <2>10
<1>3. CASE same = {}
  <2> DEFINE closes == ById(w.working, raw.replaces) \union Rivals(w, raw.predicate, {})
             closed == Close(known, w, closes, startsAt)
             fact == [id |-> w.next, predicate |-> raw.predicate, object |-> raw.object,
                      conf |-> raw.conf, from |-> startsAt, to |-> None, recorded |-> at]
             v == [closed EXCEPT !.working = @ \union {fact}, !.upserts = @ \union {fact},
                                 !.next = @ + 1]
  <2>1. Hear(known, at, w, raw) = v
    BY <1>3 DEF Hear
  <2>2. /\ closes \subseteq w.working
        /\ \A f \in w.working :
             f.predicate = raw.predicate /\ f.predicate \in SingleValued => f \in closes
    BY DEF ById, Rivals, Without
  <2> HIDE DEF closes, startsAt
  <2>12. /\ PlanSides(known, at, closed)
         /\ \A f \in closed.working : f \in w.working /\ \A o \in closes : o.id # f.id
    <3>1. IsPlan(w) /\ \A f \in w.working : IsFact(f)
      BY DEF PlanOK
    <3>2. closes \subseteq w.working /\ startsAt # None
      BY <2>2, <1>1
    <3> QED
      BY <3>1, <3>2, ClosedSides
  <2>3. PlanOK(known, at, next, closed) /\ closed.next = w.next
    <3>1. PlanOK(known, at, next, closed)
      BY <2>2, <1>1, ClosesInPlan
    <3>2. closed.next = w.next
      <4>1. IsPlan(w)
        BY DEF PlanOK
      <4> QED
        BY <4>1 DEF IsPlan, Close
    <3> QED
      BY <3>1, <3>2
  <2> HIDE DEF closed
  <2>4. w.next \in Nat /\ next <= w.next /\ next \in Nat /\ w.next # None
    BY DEF PlanOK, KnownOK, None
  <2>5. /\ IsFact(fact) /\ fact.id = w.next /\ fact.predicate = raw.predicate
        /\ fact.recorded = at
    BY <1>1, <2>4 DEF IsFact, IsRaw, None
  <2> HIDE DEF fact
  <2>6. /\ IsPlan(v) /\ v.working = closed.working \union {fact}
        /\ v.upserts = closed.upserts \union {fact} /\ v.supersede = closed.supersede
        /\ v.expire = closed.expire /\ v.next = w.next + 1
    <3>1. IsPlan(closed)
      BY <2>3 DEF PlanOK
    <3> QED
      BY <3>1, <2>3 DEF IsPlan
  <2> HIDE DEF v
  <2>7. IsFiniteSet(v.working) /\ IsFiniteSet(v.upserts)
    <3>1. IsFiniteSet(closed.working) /\ IsFiniteSet(closed.upserts)
      BY <2>3 DEF PlanOK
    <3>2. IsFiniteSet(closed.working \union {fact}) /\ IsFiniteSet(closed.upserts \union {fact})
      BY <3>1, FS_AddElement
    <3> QED
      BY <2>6, <3>2
  <2>8. fact.id \notin closed.expire
    BY <2>3, <2>4, <2>5 DEF PlanOK
  <2>9. \A f \in closed.working \union closed.upserts : f.id \in Nat /\ f.id < w.next + 1
    BY <2>3, <2>4 DEF PlanOK, IsFact
  <2>10. \A s \in closed.supersede : s.id # fact.id
    BY <2>3, <2>4, <2>5 DEF PlanOK, KnownOK, IsFact
  <2>11. PlanOK(known, at, next, v)
    BY <2>3, <2>4, <2>5, <2>6, <2>7, <2>8, <2>9, <2>10 DEF PlanOK
  <2>13. \A f \in closed.working : f.predicate = fact.predicate => f.predicate \notin SingleValued
    BY <2>2, <2>5, <2>12
  <2>14. \A f \in closed.working \union closed.upserts \union known : f.id # fact.id
    BY <2>3, <2>4, <2>5 DEF PlanOK, KnownOK, IsFact
  <2>15. PlanSides(known, at, v)
    BY <2>5, <2>6, <2>12, <2>13, <2>14, AddedSides
  <2> QED
    BY <2>1, <2>6, <2>11, <2>15
<1> QED
  BY <1>2, <1>3

\* A plan is made fact by fact: there is a function that takes each number to
\* the plan after so many facts, since the least number without one would have
\* one, an entry more than that of the number before.
PlansOf(known, at, extracted, first, n, p) ==
  p = [i \in 0 .. n |-> IF i = 0 THEN first ELSE Hear(known, at, p[i - 1], extracted[i])]

\* There is a plan after every number of facts.
LEMMA PlanExists ==
  ASSUME NEW known, NEW at, NEW extracted, NEW first, NEW n \in Nat
  PROVE  \E p : PlansOf(known, at, extracted, first, n, p)
<1> DEFINE Step(w, i) == Hear(known, at, w, extracted[i])
           Plans(p, m) == p = [i \in 0 .. m |-> IF i = 0 THEN first ELSE Step(p[i - 1], i)]
           Bad == {m \in Nat : ~\E p : Plans(p, m)}
<1> HIDE DEF Step
<1>1. SUFFICES ASSUME Bad # {} PROVE FALSE
  <2>1. \E p : Plans(p, n)
    BY <1>1
  <2> QED
    BY <2>1 DEF Step, PlansOf
<1>2. PICK m \in Bad : \A k \in Bad : m <= k
  BY <1>1, LeastNat
<1>3. m \in Nat /\ ~\E p : Plans(p, m)
  OBVIOUS
<1>4. m # 0
  <2> DEFINE p == [i \in 0 .. 0 |-> first]
  <2>1. Plans(p, 0)
    <3>1. \A i \in 0 .. 0 : i = 0
      OBVIOUS
    <3> QED
      BY <3>1
  <2> QED
    BY <2>1, <1>3
<1>5. PICK q : Plans(q, m - 1)
  <2>1. m - 1 \in Nat /\ m - 1 \notin Bad
    BY <1>2, <1>3, <1>4
  <2> QED
    BY <2>1
<1> DEFINE p == [i \in 0 .. m |-> IF i = m THEN Step(q[m - 1], m) ELSE q[i]]
<1>6. ASSUME NEW i \in 0 .. m
      PROVE  p[i] = IF i = 0 THEN first ELSE Step(p[i - 1], i)
  <2>1. CASE i = 0
    BY <1>3, <1>4, <1>5, <2>1
  <2>2. CASE i # 0 /\ i # m
    <3>1. i \in 0 .. (m - 1) /\ i - 1 \in 0 .. m /\ i - 1 # m
      BY <1>3, <2>2
    <3>2. p[i] = q[i] /\ p[i - 1] = q[i - 1]
      BY <3>1, <2>2
    <3> QED
      BY <3>1, <3>2, <2>2, <1>5
  <2>3. CASE i = m
    <3>1. m - 1 \in 0 .. m /\ m - 1 # m /\ m \in 0 .. m
      BY <1>3, <1>4
    <3>2. p[m] = Step(q[m - 1], m) /\ p[m - 1] = q[m - 1]
      BY <3>1
    <3> QED
      BY <3>2, <2>3, <1>4
  <2> QED
    BY <2>1, <2>2, <2>3
<1>7. Plans(p, m)
  <2>1. p = [i \in 0 .. m |-> p[i]]
    OBVIOUS
  <2> HIDE DEF p
  <2> QED
    BY <2>1, <1>6
<1> QED
  BY <1>7, <1>3

\* What is planned of what was heard, given what is known: it writes no fact
\* that was neither known and current nor new, and none that it closes.
LEMMA HeardInPlan ==
  ASSUME NEW known, NEW at \in Nat \ {None}, NEW next, KnownOK(known, next),
         NEW extracted, NEW ended, Len(extracted) \in Nat,
         \A i \in 1 .. Len(extracted) : IsRaw(extracted[i])
  PROVE  LET w == planFactWrites(known, extracted, ended, at, next) IN
           /\ PlanOK(known, at, next, w) /\ w.next <= next + Len(extracted)
           /\ PlanSides(known, at, w)
<1> DEFINE first == [working |-> {f \in known : isCurrent(f, at)}, upserts |-> {},
                     supersede |-> {}, expire |-> {}, next |-> next]
           n == Len(extracted)
           plan == CHOOSE p : PlansOf(known, at, extracted, first, n, p)
<1>1. PlanOK(known, at, next, first) /\ first.next = next
  <2>1. IsFiniteSet({f \in known : isCurrent(f, at)}) /\ IsFiniteSet({})
    BY FS_Subset, FS_EmptySet DEF KnownOK
  <2> QED
    BY <2>1 DEF PlanOK, IsPlan, KnownOK
<1>10. PlanSides(known, at, first)
  <2>1. \A k \in known : Continues(k, k)
    BY DEF KnownOK, IsFact, Continues
  <2> QED
    BY <2>1 DEF PlanSides, KnownOK
<1>2. planFactWrites(known, extracted, ended, at, next) = End(known, at, plan[n], ended)
  BY DEF planFactWrites, PlansOf
<1> HIDE DEF first
<1>3. plan = [i \in 0 .. n |->
                IF i = 0 THEN first ELSE Hear(known, at, plan[i - 1], extracted[i])]
  <2>1. n \in Nat
    OBVIOUS
  <2> HIDE DEF n, plan
  <2>2. \E p : PlansOf(known, at, extracted, first, n, p)
    BY <2>1, PlanExists, Zenon
  <2>3. PlansOf(known, at, extracted, first, n, plan)
    BY <2>2, Zenon DEF plan
  <2> QED
    BY <2>3 DEF PlansOf
<1> HIDE DEF plan
<1> DEFINE Good(i) == /\ PlanOK(known, at, next, plan[i]) /\ plan[i].next <= next + i
                      /\ PlanSides(known, at, plan[i])
           Bad == {i \in 0 .. n : ~Good(i)}
<1>4. Bad = {}
  <2> SUFFICES ASSUME Bad # {} PROVE FALSE
    OBVIOUS
  <2>1. PICK m \in Bad : \A k \in Bad : m <= k
    <3>1. Bad \subseteq Nat
      OBVIOUS
    <3> HIDE DEF Bad
    <3> QED
      BY <3>1, LeastNat
  <2>2. m \in 0 .. n /\ ~Good(m)
    OBVIOUS
  <2>3. next \in Nat \ {None}
    BY DEF KnownOK
  <2>4. m # 0
    BY <1>1, <1>3, <1>10, <2>2, <2>3
  <2>5. Good(m - 1) /\ m - 1 \in 0 .. n
    <3>1. m - 1 \in 0 .. n /\ m - 1 \notin Bad
      BY <2>1, <2>2, <2>4
    <3> QED
      BY <3>1
  <2>6. plan[m] = Hear(known, at, plan[m - 1], extracted[m]) /\ IsRaw(extracted[m])
    BY <1>3, <2>2, <2>4
  <2> DEFINE w == plan[m - 1]
             v == plan[m]
  <2>7. /\ PlanOK(known, at, next, w) /\ PlanSides(known, at, w)
        /\ v = Hear(known, at, w, extracted[m])
    BY <2>5, <2>6
  <2> HIDE DEF w, v
  <2>8. PlanOK(known, at, next, v) /\ PlanSides(known, at, v) /\ v.next \in {w.next, w.next + 1}
    BY <2>6, <2>7, HearsInPlan
  <2>9. w.next <= next + (m - 1) /\ w.next \in Nat
    BY <2>5, <2>7 DEF w, PlanOK
  <2>10. v.next <= next + m
    BY <2>8, <2>9, <2>2, <2>3
  <2> QED
    BY <2>2, <2>8, <2>10 DEF v
<1>5. /\ PlanOK(known, at, next, plan[n]) /\ plan[n].next <= next + n
      /\ PlanSides(known, at, plan[n])
  <2>1. n \in 0 .. n /\ n \notin Bad
    BY <1>4
  <2> QED
    BY <2>1
<1> DEFINE w == plan[n]
           olds == {f \in w.working : f.id \in ended /\ ById(known, f.id) # {}}
           v == Close(known, w, olds, at)
<1>6. planFactWrites(known, extracted, ended, at, next) = v
  BY <1>2 DEF End
<1>7. /\ PlanOK(known, at, next, w) /\ w.next <= next + n /\ olds \subseteq w.working
      /\ PlanSides(known, at, w)
  BY <1>5
<1> HIDE DEF w, olds
<1>8. PlanOK(known, at, next, v)
  BY <1>7, ClosesInPlan
<1>9. v.next = w.next
  BY <1>7 DEF PlanOK, IsPlan, Close
<1>11. PlanSides(known, at, v)
  <2>1. IsPlan(w) /\ \A f \in w.working : IsFact(f)
    BY <1>7 DEF PlanOK
  <2> QED
    BY <1>7, <2>1, ClosedSides DEF None
<1> QED
  BY <1>6, <1>7, <1>8, <1>9, <1>11

-----------------------------------------------------------------------------
(* What sleep plans.                                                         *)

\* A plan made of some facts: what it writes is one of them but for how sure she
\* is of it and since when it holds, and is not what it closes.
PlanFrom(F, w) ==
  /\ IsFiniteSet(w.upserts) /\ IsFiniteSet(w.supersede) /\ IsFiniteSet(w.expire)
  /\ \A u \in w.upserts :
       /\ IsFact(u) /\ u.id \notin w.expire
       /\ \E f \in F : Continues(f, u)
       /\ \A v \in w.upserts : v.id = u.id => v = u
       /\ \A s \in w.supersede : s.id # u.id
  /\ \A s \in w.supersede :
       /\ s.at \in Nat \ {None}
       /\ \E f \in F : f.id = s.id
       /\ \A t \in w.supersede : t.id = s.id => t.at = s.at

\* Groups of facts to be merged: none is kept in one and folded into another.
GroupsOK(F, groups) ==
  /\ IsFiniteSet(groups)
  /\ \A g \in groups :
       /\ \E f \in F : f.id = g.keep
       /\ \A id \in g.merge : \E f \in F : f.id = id
       /\ \A h \in groups : g.keep \notin h.merge /\ (g.keep = h.keep => g = h)

\* What merging groups of facts writes is a plan made of them.
LEMMA MergesPlan ==
  ASSUME NEW F, AreFacts(F), NEW groups, GroupsOK(F, groups),
         NEW w, w = applyMerges(F, groups)
  PROVE  PlanFrom(F, w) /\ w.supersede = {} /\ w.expire = UNION {g.merge : g \in groups}
<1> DEFINE fact(id) == CHOOSE f \in F : f.id = id
           all(g) == {fact(id) : id \in g.merge} \union {fact(g.keep)}
           sure(g) == MapThenSumSet(LAMBDA f : f.conf, all(g))
           since(g) == Min({f.from : f \in all(g)})
           up(g) == [fact(g.keep) EXCEPT !.conf = sure(g), !.from = since(g)]
<1>1. /\ w.upserts = {up(g) : g \in groups} /\ w.supersede = {}
      /\ w.expire = UNION {g.merge : g \in groups}
  BY DEF applyMerges
<1>2. \A id : (\E f \in F : f.id = id) => fact(id) \in F /\ fact(id).id = id
  OBVIOUS
<1> HIDE DEF fact
<1>3. ASSUME NEW g \in groups
      PROVE  since(g) \in Nat \ {None}
  <2> DEFINE T == {f.from : f \in all(g)}
  <2>1. all(g) \subseteq F /\ fact(g.keep) \in all(g)
    BY <1>2 DEF GroupsOK
  <2>2. T \subseteq Nat \ {None} /\ T # {}
    <3> HIDE DEF all
    <3> QED
      BY <2>1 DEF AreFacts, IsFact
  <2> HIDE DEF T
  <2>3. \E m \in T : \A k \in T : m <= k
    BY <2>2, LeastNat
  <2>4. Min(T) \in T
    BY <2>3 DEF Min
  <2> QED
    BY <2>2, <2>4 DEF T
<1>4. ASSUME NEW g \in groups
      PROVE  /\ IsFact(up(g)) /\ up(g).id = g.keep
             /\ \E f \in F : Continues(f, up(g))
  <2>1. fact(g.keep) \in F /\ fact(g.keep).id = g.keep
    BY <1>2 DEF GroupsOK
  <2>2. since(g) \in Nat \ {None}
    BY <1>3
  <2>3. IsFact(fact(g.keep))
    BY <2>1 DEF AreFacts
  <2>4. sure(g) \in Nat /\ fact(g.keep).conf <= sure(g)
    <3>1. all(g) \subseteq F /\ fact(g.keep) \in all(g)
      BY <1>2 DEF GroupsOK
    <3>2. sure(g) = Sure(all(g))
      BY DEF Sure
    <3> HIDE DEF all, sure
    <3>3. IsFiniteSet(all(g)) /\ \A f \in all(g) : f.conf \in Nat
      <4>1. IsFiniteSet(all(g))
        BY <3>1, FS_Subset DEF AreFacts
      <4> QED
        BY <3>1, <4>1 DEF AreFacts, IsFact
    <3> QED
      BY <3>1, <3>2, <3>3, SureOfAll
  <2> HIDE DEF since, sure
  <2>5. IsFact(up(g)) /\ up(g).id = g.keep /\ Continues(fact(g.keep), up(g))
    BY <2>1, <2>2, <2>3, <2>4 DEF IsFact, Continues
  <2> QED
    BY <2>1, <2>5
<1> HIDE DEF up
<1>5. IsFiniteSet({up(g) : g \in groups})
  <2> DEFINE e == [g \in groups |-> up(g)]
  <2>1. e = [g \in groups |-> e[g]] /\ DOMAIN e = groups
    OBVIOUS
  <2>2. {up(g) : g \in groups} = {e[g] : g \in groups}
    OBVIOUS
  <2> HIDE DEF e
  <2>3. IsFiniteSet({e[g] : g \in groups})
    BY <2>1, FiniteImage DEF GroupsOK
  <2> QED
    BY <2>2, <2>3
<1>6. IsFiniteSet(UNION {g.merge : g \in groups})
  <2> DEFINE e == [f \in F |-> f.id]
  <2>1. e = [f \in F |-> e[f]] /\ DOMAIN e = F
    OBVIOUS
  <2>2. UNION {g.merge : g \in groups} \subseteq {e[f] : f \in F}
    <3>1. \A id \in UNION {g.merge : g \in groups} : \E f \in F : f.id = id
      BY DEF GroupsOK
    <3> QED
      BY <3>1
  <2> HIDE DEF e
  <2>3. IsFiniteSet({e[f] : f \in F})
    BY <2>1, FiniteImage DEF AreFacts
  <2> QED
    BY <2>2, <2>3, FS_Subset
<1>7. \A u \in w.upserts :
        /\ IsFact(u) /\ u.id \notin w.expire
        /\ \E f \in F : Continues(f, u)
        /\ \A v \in w.upserts : v.id = u.id => v = u
  <2> TAKE u \in w.upserts
  <2>1. PICK g \in groups : u = up(g)
    BY <1>1
  <2>3. ASSUME NEW v \in w.upserts, v.id = u.id
        PROVE  v = u
    <3>1. PICK h \in groups : v = up(h)
      BY <1>1
    <3>2. h.keep = g.keep
      BY <1>4, <2>1, <2>3, <3>1
    <3>3. h = g
      BY <3>2 DEF GroupsOK
    <3> QED
      BY <2>1, <3>1, <3>3
  <2>2. g.keep \notin UNION {h.merge : h \in groups}
    BY DEF GroupsOK
  <2> QED
    BY <1>1, <1>4, <2>1, <2>2, <2>3
<1>8. IsFiniteSet(w.upserts) /\ IsFiniteSet(w.supersede) /\ IsFiniteSet(w.expire)
  BY <1>1, <1>5, <1>6, FS_EmptySet
<1> QED
  BY <1>1, <1>7, <1>8 DEF PlanFrom

\* By rule, facts that say the same are folded into the earliest of them: what
\* is kept in one group is not folded into it, and is in no other.
LEMMA RuleGroups ==
  ASSUME NEW F, AreFacts(F)
  PROVE  /\ GroupsOK(F, ruleMerges(F))
         /\ \A g \in ruleMerges(F) : \A id \in g.merge :
              \E e, f \in F : e.id = id /\ f.id = g.keep /\ Key(e) = Key(f)
         /\ \A e, f \in F : Twice(e, f) => \E g \in ruleMerges(F) : {e.id, f.id} \cap g.merge # {}
<1> DEFINE key(f) == <<Family[f.predicate], Plain[f.object]>>
           group(k) == {f \in Mergeable(F) : key(f) = k}
           K == {key(f) : f \in Mergeable(F)}
           keys == {k \in K : Cardinality(group(k)) > 1}
           set(k) == [keep |-> Earliest(group(k)).id,
                      merge |-> {f.id : f \in group(k)} \ {Earliest(group(k)).id}]
<1>1. ruleMerges(F) = {set(k) : k \in keys}
  BY DEF ruleMerges
<1>2. Mergeable(F) \subseteq F
  BY DEF Mergeable
<1>3. ASSUME NEW k \in keys
      PROVE  Earliest(group(k)) \in group(k) /\ group(k) \subseteq F
  <2>1. group(k) # {} /\ group(k) \subseteq F /\ \A f \in group(k) : IsFact(f)
    BY <1>2 DEF AreFacts
  <2> HIDE DEF group
  <2> QED
    BY <2>1, EarliestIsOne
<1>4. IsFiniteSet(ruleMerges(F))
  <2> DEFINE e == [f \in Mergeable(F) |-> key(f)]
             d == [k \in keys |-> set(k)]
  <2>1. IsFiniteSet(Mergeable(F))
    BY <1>2, FS_Subset DEF AreFacts
  <2>2. e = [f \in Mergeable(F) |-> e[f]] /\ DOMAIN e = Mergeable(F)
        /\ K = {e[f] : f \in Mergeable(F)}
    OBVIOUS
  <2>3. d = [k \in keys |-> d[k]] /\ DOMAIN d = keys /\ {set(k) : k \in keys} = {d[k] : k \in keys}
    OBVIOUS
  <2>4. keys \subseteq K
    OBVIOUS
  <2> HIDE DEF e, d, K, keys
  <2>5. IsFiniteSet(keys)
    <3>1. IsFiniteSet({e[f] : f \in Mergeable(F)})
      BY <2>1, <2>2, FiniteImage
    <3> QED
      BY <3>1, <2>2, <2>4, FS_Subset
  <2>6. IsFiniteSet({d[k] : k \in keys})
    BY <2>3, <2>5, FiniteImage
  <2> QED
    BY <1>1, <2>3, <2>6
<1>5. ASSUME NEW k \in keys, NEW id \in set(k).merge
      PROVE  \E e \in group(k) : e.id = id
  OBVIOUS
<1>9. ASSUME NEW k \in keys, NEW j \in keys, set(k).keep = set(j).keep
      PROVE  k = j
  <2> DEFINE e == Earliest(group(k))
             f == Earliest(group(j))
  <2>1. e \in group(k) /\ f \in group(j) /\ e.id = f.id /\ f \in F /\ e \in F
    BY <1>3, <1>9
  <2> HIDE DEF e, f
  <2>2. e = f
    BY <2>1 DEF AreFacts
  <2> QED
    BY <2>1, <2>2
<1>6. ASSUME NEW k \in keys, NEW j \in keys
      PROVE  set(k).keep \notin set(j).merge
  <2> SUFFICES ASSUME set(k).keep \in set(j).merge PROVE FALSE
    OBVIOUS
  <2>1. PICK e \in group(j) : e.id = set(k).keep
    BY <1>5
  <2> DEFINE f == Earliest(group(k))
  <2>2. f \in group(k) /\ e.id = f.id /\ f \in F /\ e \in F
    BY <1>3, <2>1
  <2> HIDE DEF f
  <2>3. e = f
    BY <2>2 DEF AreFacts
  <2>4. j = k
    BY <2>2, <2>3
  <2> QED
    BY <2>4
<1>7. ASSUME NEW g \in ruleMerges(F)
      PROVE  /\ \E f \in F : f.id = g.keep
             /\ \A id \in g.merge : \E e, f \in F : e.id = id /\ f.id = g.keep /\ Key(e) = Key(f)
             /\ \A h \in ruleMerges(F) : g.keep \notin h.merge /\ (g.keep = h.keep => g = h)
  <2>1. PICK k \in keys : g = set(k)
    BY <1>1
  <2> DEFINE f == Earliest(group(k))
  <2>2. f \in group(k) /\ group(k) \subseteq F /\ g.keep = f.id
    BY <1>3, <2>1
  <2>3. \A id \in g.merge : \E e \in group(k) : e.id = id
    BY <1>5, <2>1
  <2>4. \A h \in ruleMerges(F) : g.keep \notin h.merge /\ (g.keep = h.keep => g = h)
    <3> TAKE h \in ruleMerges(F)
    <3>1. PICK j \in keys : h = set(j)
      BY <1>1
    <3> HIDE DEF set, keys
    <3> QED
      BY <2>1, <3>1, <1>6, <1>9
  <2> HIDE DEF f
  <2>5. \A id \in g.merge : \E e \in F : e.id = id /\ Key(e) = Key(f)
    BY <2>2, <2>3 DEF Key
  <2> QED
    BY <2>2, <2>4, <2>5
<1>8. GroupsOK(F, ruleMerges(F))
  BY <1>4, <1>7 DEF GroupsOK
<1>10. ASSUME NEW e \in F, NEW f \in F, Twice(e, f)
       PROVE  \E g \in ruleMerges(F) : {e.id, f.id} \cap g.merge # {}
  <2> DEFINE k == key(e)
             E == Earliest(group(k))
  <2>1. e \in group(k) /\ f \in group(k) /\ e # f /\ k \in K
    BY <1>10 DEF Twice, Mergeable, Key
  <2>2. Cardinality(group(k)) > 1
    <3>1. IsFiniteSet(group(k)) /\ {e, f} \subseteq group(k)
      <4>1. group(k) \subseteq F
        BY <1>2
      <4> HIDE DEF group
      <4> QED
        BY <2>1, <4>1, FS_Subset DEF AreFacts
    <3> HIDE DEF group
    <3>2. /\ Cardinality(group(k)) \in Nat /\ Cardinality(group(k) \ {e}) \in Nat
          /\ Cardinality(group(k) \ {e}) = Cardinality(group(k)) - 1
          /\ IsFiniteSet(group(k) \ {e}) /\ f \in group(k) \ {e}
      BY <3>1, <2>1, FS_RemoveElement, FS_CardinalityType
    <3>3. Cardinality(group(k) \ {e}) # 0
      BY <3>2, FS_EmptySet
    <3> QED
      BY <3>2, <3>3
  <2>3. k \in keys
    BY <2>1, <2>2
  <2>4. e.id # f.id
    BY <2>1 DEF AreFacts
  <2>5. e.id \in set(k).merge \/ f.id \in set(k).merge
    BY <2>1, <2>4
  <2> QED
    BY <1>1, <2>3, <2>5
<1> QED
  BY <1>7, <1>8, <1>10

\* And so are those the model may find to say the same.
LEMMA ModelGroups ==
  ASSUME NEW F, AreFacts(F), NEW groups \in parseMerges(F)
  PROVE  GroupsOK(F, groups)
<1>1. CASE groups = {}
  BY <1>1, FS_EmptySet DEF GroupsOK
<1>2. CASE groups # {}
  <2>1. PICK ids \in SUBSET {f.id : f \in F} :
          \E k \in ids : groups = {[keep |-> k, merge |-> ids \ {k}]}
    BY <1>2 DEF parseMerges
  <2>2. PICK k \in ids : groups = {[keep |-> k, merge |-> ids \ {k}]}
    BY <2>1
  <2>3. IsFiniteSet(groups)
    BY <2>2, FS_Singleton
  <2> QED
    BY <2>1, <2>2, <2>3 DEF GroupsOK
<1> QED
  BY <1>1, <1>2

\* Of facts there is one that began last, and of those of one tick one that was
\* recorded last.
LEMMA LatestIsOne ==
  ASSUME NEW S, S # {}, IsFiniteSet(S),
         \A f \in S : f.from \in Nat /\ f.recorded \in Nat
  PROVE  (CHOOSE g \in S : \A h \in S :
            g.from > h.from \/ (g.from = h.from /\ g.recorded >= h.recorded)) \in S
<1> DEFINE T == {f.from : f \in S}
<1>1. IsFiniteSet(T) /\ T \subseteq Nat /\ T # {}
  <2> DEFINE e == [f \in S |-> f.from]
  <2>1. e = [f \in S |-> e[f]] /\ DOMAIN e = S /\ T = {e[f] : f \in S}
    OBVIOUS
  <2>2. T \subseteq Nat /\ T # {}
    OBVIOUS
  <2> HIDE DEF e, T
  <2> QED
    BY <2>1, <2>2, FiniteImage
<1>2. PICK m \in T : \A k \in T : k <= m
  <2> HIDE DEF T
  <2> QED
    BY <1>1, GreatestNat
<1> DEFINE R == {f \in S : f.from = m}
           U == {f.recorded : f \in R}
<1>3. IsFiniteSet(U) /\ U \subseteq Nat /\ U # {}
  <2> DEFINE e == [f \in R |-> f.recorded]
  <2>1. e = [f \in R |-> e[f]] /\ DOMAIN e = R /\ U = {e[f] : f \in R}
    OBVIOUS
  <2>2. U \subseteq Nat /\ U # {}
    BY <1>2
  <2>3. IsFiniteSet(R)
    BY FS_Subset
  <2> HIDE DEF e, U, R
  <2> QED
    BY <2>1, <2>2, <2>3, FiniteImage
<1>4. PICK n \in U : \A k \in U : k <= n
  <2> HIDE DEF U
  <2> QED
    BY <1>3, GreatestNat
<1>5. PICK g \in R : g.recorded = n
  BY <1>4
<1>6. \A h \in S : g.from > h.from \/ (g.from = h.from /\ g.recorded >= h.recorded)
  <2> TAKE h \in S
  <2>1. h.from \in T /\ h.from <= m /\ g.from = m /\ m \in Nat /\ h.from \in Nat
    BY <1>1, <1>2, <1>5
  <2>2. CASE h.from = m
    <3>1. h.recorded <= n /\ h.recorded \in Nat /\ n \in Nat
      BY <1>3, <1>4, <2>2
    <3> QED
      BY <2>1, <2>2, <3>1, <1>5
  <2>3. CASE h.from # m
    BY <2>1, <2>3
  <2> QED
    BY <2>2, <2>3
<1> QED
  BY <1>5, <1>6

\* And so is what tidying them writes; what is hedged and old is in it.
LEMMA TidyPlan ==
  ASSUME NEW F, AreFacts(F), NEW at, NEW w, w = consolidateFacts(F, at)
  PROVE  /\ PlanFrom(F, w)
         /\ \A f \in F : f.to = None /\ f.conf < ForgetBelow /\ at - f.recorded > ForgetAfter =>
              \/ f.id \in w.expire
              \/ \E s \in w.supersede : s.id = f.id
              \/ \E u \in w.upserts : u.id = f.id
         /\ \A u \in w.upserts :
              ~(u.conf < ForgetBelow /\ at - u.recorded > ForgetAfter)
<1> DEFINE key(f) == <<f.predicate, f.object>>
           copies(f) == {g \in F : key(g) = key(f)}
           kept == {f \in F : f = Earliest(copies(f))}
           sure(f) == MapThenSumSet(LAMBDA g : g.conf, copies(f))
           surer(f) == [f EXCEPT !.conf = sure(f)]
           merged == {surer(f) : f \in kept}
           slot(f) == {g \in merged : g.predicate = f.predicate}
           latest(f) == CHOOSE g \in slot(f) : \A h \in slot(f) :
                          g.from > h.from \/ (g.from = h.from /\ g.recorded >= h.recorded)
           closed == {f \in merged : f.predicate \in SingleValued /\ latest(f) # f}
           forgotten == {f \in merged \ closed :
                           f.conf < ForgetBelow /\ at - f.recorded > ForgetAfter}
<1>1. /\ w.upserts = (merged \ F) \ (closed \union forgotten)
      /\ w.supersede = {[id |-> f.id, at |-> latest(f).from] : f \in closed}
      /\ w.expire = {f.id : f \in (F \ kept) \union forgotten}
  BY DEF consolidateFacts
<1>13. \A f \in F : sure(f) \in Nat /\ f.conf <= sure(f)
  <2> TAKE f \in F
  <2>1. f \in copies(f) /\ copies(f) \subseteq F /\ sure(f) = Sure(copies(f))
    BY DEF Sure
  <2> HIDE DEF copies, sure
  <2>2. IsFiniteSet(copies(f))
    BY <2>1, FS_Subset DEF AreFacts
  <2>3. \A g \in copies(f) : g.conf \in Nat
    BY <2>1 DEF AreFacts, IsFact
  <2> QED
    BY <2>1, <2>2, <2>3, SureOfAll
<1> HIDE DEF sure
<1>2. kept \subseteq F
  OBVIOUS
<1>3. \A f \in F : /\ IsFact(surer(f)) /\ surer(f).id = f.id /\ Continues(f, surer(f))
                   /\ surer(f).conf = sure(f)
  BY <1>13 DEF AreFacts, IsFact, Continues
<1> HIDE DEF kept, surer
<1>4. IsFiniteSet(kept) /\ IsFiniteSet(merged)
  <2> DEFINE e == [f \in kept |-> surer(f)]
  <2>1. e = [f \in kept |-> e[f]] /\ DOMAIN e = kept /\ merged = {e[f] : f \in kept}
    OBVIOUS
  <2>2. IsFiniteSet(kept)
    BY <1>2, FS_Subset DEF AreFacts
  <2> HIDE DEF e, merged
  <2> QED
    BY <2>1, <2>2, FiniteImage
<1>5. \A m \in merged : IsFact(m) /\ \E f \in kept : m = surer(f) /\ f \in F
  BY <1>2, <1>3
<1> HIDE DEF merged
<1>6. ASSUME NEW f \in closed
      PROVE  latest(f).from \in Nat \ {None}
  <2>1. f \in slot(f) /\ slot(f) \subseteq merged
    OBVIOUS
  <2>2. IsFiniteSet(slot(f))
    BY <1>4, <2>1, FS_Subset
  <2>3. \A g \in slot(f) : g.from \in Nat \ {None} /\ g.recorded \in Nat
    BY <1>5, <2>1 DEF IsFact
  <2> HIDE DEF slot
  <2>4. latest(f) \in slot(f)
    BY <2>1, <2>2, <2>3, LatestIsOne
  <2> QED
    BY <2>3, <2>4
<1> HIDE DEF latest
<1>8. closed \subseteq merged /\ forgotten \subseteq merged
  OBVIOUS
<1> HIDE DEF closed, forgotten
<1>7. \A s \in w.supersede : /\ s.at \in Nat \ {None}
                           /\ \E f \in F : f.id = s.id
                           /\ \A t \in w.supersede : t.id = s.id => t.at = s.at
  <2>1. \A m \in closed : \E f \in F : m = surer(f) /\ m.id = f.id
    BY <1>3, <1>5, <1>8
  <2>2. \A m, n \in merged : m.id = n.id => m = n
    BY <1>3, <1>5 DEF AreFacts
  <2>6. \A m, n \in closed : m.id = n.id => m = n
    BY <2>2, <1>8
  <2>3. ASSUME NEW s \in w.supersede
        PROVE  \E m \in closed : s = [id |-> m.id, at |-> latest(m).from]
    BY <1>1
  <2>4. ASSUME NEW s \in w.supersede
        PROVE  s.at \in Nat \ {None} /\ \E f \in F : f.id = s.id
    BY <2>1, <2>3, <1>6
  <2>5. ASSUME NEW s \in w.supersede, NEW t \in w.supersede, t.id = s.id
        PROVE  t.at = s.at
    BY <2>6, <2>3, <2>5
  <2> QED
    BY <2>4, <2>5
<1>9. IsFiniteSet(w.upserts)
  <2>1. w.upserts \subseteq merged
    BY <1>1
  <2> QED
    BY <2>1, <1>4, FS_Subset
<1>10. IsFiniteSet(w.supersede)
  <2> DEFINE e == [f \in closed |-> [id |-> f.id, at |-> latest(f).from]]
  <2>1. e = [f \in closed |-> e[f]] /\ DOMAIN e = closed /\ w.supersede = {e[f] : f \in closed}
    BY <1>1
  <2>2. IsFiniteSet(closed)
    BY <1>4, <1>8, FS_Subset
  <2> HIDE DEF e
  <2> QED
    BY <2>1, <2>2, FiniteImage
<1>11. IsFiniteSet(w.expire)
  <2> DEFINE D == (F \ kept) \union forgotten
             e == [f \in D |-> f.id]
  <2>1. e = [f \in D |-> e[f]] /\ DOMAIN e = D /\ w.expire = {e[f] : f \in D}
    BY <1>1
  <2>2. IsFiniteSet(D)
    <3>1. IsFiniteSet(F \ kept) /\ IsFiniteSet(forgotten)
      BY <1>4, <1>8, FS_Subset DEF AreFacts
    <3> QED
      BY <3>1, FS_Union
  <2> HIDE DEF e, D
  <2> QED
    BY <2>1, <2>2, FiniteImage
<1>12. ASSUME NEW u \in w.upserts
       PROVE  /\ IsFact(u) /\ u.id \notin w.expire
              /\ \E f \in F : Continues(f, u)
              /\ \A v \in w.upserts : v.id = u.id => v = u
              /\ \A s \in w.supersede : s.id # u.id
  <2>1. u \in merged /\ u \notin forgotten /\ u \notin closed
    BY <1>1
  <2>6. \A m, n \in merged : m.id = n.id => m = n
    BY <1>3, <1>5 DEF AreFacts
  <2>7. \A v \in w.upserts : v.id = u.id => v = u
    BY <1>1, <2>1, <2>6
  <2>8. \A s \in w.supersede : s.id # u.id
    <3> TAKE s \in w.supersede
    <3>1. PICK m \in closed : s = [id |-> m.id, at |-> latest(m).from]
      BY <1>1
    <3> QED
      BY <3>1, <2>1, <2>6, <1>8
  <2>2. PICK f \in kept : u = surer(f) /\ f \in F
    BY <1>5, <2>1
  <2>3. IsFact(u) /\ u.id = f.id /\ Continues(f, u)
    BY <1>3, <2>2
  <2>4. \A g \in F \ kept : g.id # u.id
    BY <2>2, <2>3 DEF AreFacts
  <2>5. \A g \in forgotten : g.id # u.id
    <3> TAKE g \in forgotten
    <3>1. PICK h \in kept : g = surer(h) /\ h \in F
      BY <1>5, <1>8
    <3>2. g.id = h.id
      BY <1>3, <3>1
    <3>3. h.id = f.id => h = f
      BY <2>2, <3>1 DEF AreFacts
    <3> QED
      BY <2>1, <2>2, <2>3, <3>1, <3>2, <3>3
  <2> QED
    BY <1>1, <2>2, <2>3, <2>4, <2>5, <2>7, <2>8
<1>14. ASSUME NEW f \in F, f.to = None, f.conf < ForgetBelow, at - f.recorded > ForgetAfter
       PROVE  \/ f.id \in w.expire
              \/ \E s \in w.supersede : s.id = f.id
              \/ \E u \in w.upserts : u.id = f.id
  <2>1. CASE f \notin kept
    BY <2>1, <1>1
  <2>2. CASE f \in kept
    <3> DEFINE m == surer(f)
    <3>1. m \in merged
      BY <2>2 DEF merged
    <3>2. m.id = f.id /\ IsFact(m) /\ m.recorded = f.recorded
      BY <1>3 DEF Continues
    <3> HIDE DEF m
    <3>3. CASE m \in closed
      <4> DEFINE s == [id |-> m.id, at |-> latest(m).from]
      <4>1. s \in w.supersede /\ s.id = f.id
        BY <1>1, <3>2, <3>3
      <4> QED
        BY <4>1
    <3>4. CASE m \in forgotten
      BY <1>1, <3>2, <3>4
    <3>5. CASE m \notin closed /\ m \notin forgotten /\ m \notin F
      BY <1>1, <3>1, <3>2, <3>5
    <3>6. CASE m \notin closed /\ m \notin forgotten /\ m \in F
      <4>1. m = f
        BY <3>2, <3>6 DEF AreFacts
      <4>2. m \in forgotten
        BY <4>1, <3>1, <3>6, <1>14 DEF forgotten
      <4> QED
        BY <3>6, <4>2
    <3> QED
      BY <3>3, <3>4, <3>5, <3>6
  <2> QED
    BY <2>1, <2>2
<1>15. \A u \in w.upserts : ~(u.conf < ForgetBelow /\ at - u.recorded > ForgetAfter)
  BY <1>1 DEF forgotten
<1> QED
  BY <1>7, <1>9, <1>10, <1>11, <1>12, <1>14, <1>15 DEF PlanFrom


-----------------------------------------------------------------------------
(* What is asked of the kernel, and what is read, leaves it in order.        *)

\* The numbers of the jobs, and of the ids they give out.
LEMMA Numbers ==
  ASSUME QueueOK
  PROVE  /\ Len(queue) \in Nat /\ DOMAIN queue = 1..Len(queue)
         /\ queued \in Nat /\ Turn \in Nat /\ queued = Turn + Len(queue)
         /\ Fresh \in Nat /\ Fresh = 10 * (Turn + 1)
<1>1. Len(queue) \in Nat /\ DOMAIN queue = 1..Len(queue)
  BY DEF QueueOK, IsChannel
<1> QED
  BY <1>1 DEF QueueOK, Turn, Fresh, FirstId

\* A job as it is queued.
Asked(kind, write) ==
  [NoJob EXCEPT !.kind = kind, !.n = queued + 1, !.write = write, !.phase = "queued"]

\* The queue takes a job that is in order.
LEMMA Enqueued ==
  ASSUME QueueOK, NEW kind \in Kinds, NEW write, enqueue(kind, write),
         EditOK(Asked(kind, write), Fresh)
  PROVE  QueueOK' /\ Turn' = Turn
<1> DEFINE j == Asked(kind, write)
<1>1. /\ queued' = queued + 1 /\ queue' = Append(queue, j)
      /\ j.kind = kind /\ j.write = write /\ j.n = queued + 1 /\ IsJob(j)
      /\ j.phase = "queued" /\ j.stage = "none" /\ j.known = {} /\ j.todo = <<>>
      /\ j.holds = FALSE
  BY DEF enqueue, Asked, NoJob, IsJob
<1>2. Waits(j)
  BY <1>1 DEF Waits
<1> HIDE DEF j
<1>3. /\ IsChannel(queue') /\ Len(queue') = Len(queue) + 1
      /\ DOMAIN queue' = 1..(Len(queue) + 1)
      /\ \A i \in DOMAIN queue : queue'[i] = queue[i]
      /\ queue'[Len(queue) + 1] = j
  BY <1>1, ChannelAppend DEF QueueOK
<1>4. Turn' = Turn /\ Fresh' = Fresh
  BY <1>1, <1>3, Numbers DEF Turn, Fresh, QueueOK
<1>5. \A i \in DOMAIN queue' : i \in DOMAIN queue \/ i = Len(queue) + 1
  BY <1>3, Numbers
<1>6. QueueOK'
  <2>1. \A i \in DOMAIN queue' : Waits(queue'[i]) /\ queue'[i].n = Turn + i
    <3>1. \A i \in DOMAIN queue : Waits(queue'[i]) /\ queue'[i].n = Turn + i
      BY <1>3 DEF QueueOK
    <3>2. Waits(j) /\ j.n = Turn + (Len(queue) + 1)
      BY <1>1, <1>2, Numbers
    <3> QED
      BY <1>3, <1>5, <3>1, <3>2
  <2>2. \A q : Waits(q) <=> Waits(q)'
    BY <1>4 DEF Waits
  <2>3. queued' \in Nat /\ Len(queue') <= queued'
    BY <1>1, <1>3, Numbers DEF QueueOK
  <2> QED
    BY <1>3, <1>4, <2>1, <2>2, <2>3 DEF QueueOK
<1> QED
  BY <1>4, <1>6

\* What changes neither the facts, nor the job, nor its reads, changes nothing
\* but the queue.
LEMMA StillKernel ==
  ASSUME Kernel, UNCHANGED <<now, store, cache, job, gone>>,
         QueueOK', Turn' = Turn, \A l \in loads' : l.who = "job" => l \in loads,
         Sound(shown', Fresh, {}),
         note' \in [facts : {note'.facts}, gen : {note'.gen}, wait : {note'.wait},
                    phase : {note'.phase}],
         Sound(note'.facts, Fresh, gone)
  PROVE  Kernel'
<1>1. Fresh' = Fresh
  BY DEF Fresh
<1>2. /\ table' = table /\ expired' = expired /\ revived' = revived /\ now' = now
      /\ cache' = cache /\ job' = job /\ gone' = gone
  BY DEF store
<1>3. StoreOK'
  BY <1>1, <1>2 DEF StoreOK, Kernel
<1>4. HoldersOK'
  BY <1>1, <1>2 DEF HoldersOK, Kernel
<1>5. JobOK'
  BY <1>1, <1>2 DEF JobOK, Kernel
<1>6. IdsOK'
  BY <1>2 DEF IdsOK, Kernel
<1>7. TodoOK'
  BY <1>1, <1>2 DEF TodoOK, Kernel
<1>8. LoadsOK'
  BY <1>2 DEF LoadsOK, Kernel
<1>9. EditMade'
  BY <1>2 DEF EditMade, Reading, Kernel
<1>10. CacheOK'
  BY <1>2 DEF CacheOK, InStep, Landed, CacheAfter, Reading, currentFacts, Kernel
<1>11. KeptOK'
  BY <1>2 DEF KeptOK, Reading, Believed, Kernel
<1> QED
  BY <1>3, <1>4, <1>5, <1>6, <1>7, <1>8, <1>9, <1>10, <1>11 DEF Kernel

\* An exchange asks for its facts.
LEMMA ExchangeStep ==
  ASSUME Kernel, Exchange
  PROVE  Kernel'
<1>1. QueueOK' /\ Turn' = Turn
  <2>1. EditOK(Asked("extract", <<>>), Fresh)
    BY DEF EditOK, Asked, NoJob
  <2> QED
    BY <2>1, Enqueued DEF Exchange, Kernel, Kinds
<1>2. note' \in [facts : {note.facts}, gen : {note'.gen}, wait : {note'.wait},
                 phase : {note'.phase}]
  BY DEF Exchange, Refreshed, Kernel, HoldersOK
<1> QED
  BY <1>1, <1>2, StillKernel DEF Exchange, Kernel, HoldersOK

\* The person deletes a fact the panel shows.
LEMMA DeleteStep ==
  ASSUME Kernel, NEW fact, deleteFact(fact)
  PROVE  Kernel'
<1> DEFINE w == [op |-> "delete", id |-> fact.id]
<1>1. IsFact(fact) /\ fact.id < Fresh
  BY DEF deleteFact, Kernel, HoldersOK, Sound, AreFacts
<1>2. EditOK(Asked("delete", w), Fresh)
  BY <1>1 DEF EditOK, Asked, NoJob, IsFact
<1>3. QueueOK' /\ Turn' = Turn
  BY <1>2, Enqueued DEF deleteFact, Kernel, Kinds, Edits
<1> QED
  BY <1>3, StillKernel DEF deleteFact, Kernel, HoldersOK

\* The person corrects one.
LEMMA CorrectStep ==
  ASSUME Kernel, NEW fact, NEW object, correctFact(fact, object)
  PROVE  Kernel'
<1> DEFINE g == [fact EXCEPT !.object = object, !.conf = Certain]
           w == [op |-> "upsert", id |-> fact.id, fact |-> g]
<1>1. IsFact(fact) /\ fact.id < Fresh
  BY DEF correctFact, Kernel, HoldersOK, Sound, AreFacts
<1>2. IsFact(g) /\ g.id = fact.id
  BY <1>1, MemoryAssumption DEF IsFact
<1> HIDE DEF g
<1>3. EditOK(Asked("correct", w), Fresh)
  BY <1>1, <1>2 DEF EditOK, Asked, NoJob
<1>4. enqueue("correct", w) /\ w.id = fact.id
  BY DEF correctFact, g
<1> HIDE DEF w
<1>5. QueueOK' /\ Turn' = Turn
  BY <1>3, <1>4, Enqueued DEF correctFact, Kernel, Kinds, Edits
<1> QED
  BY <1>5, StillKernel DEF correctFact, Kernel, HoldersOK

\* A plan states a follow-up.
LEMMA RecordStep ==
  ASSUME Kernel, NEW object, recordFact(object)
  PROVE  Kernel'
<1> DEFINE id == FirstId(queued + 1)
           g == [id |-> id, predicate |-> FollowUp, object |-> object, conf |-> Certain,
                 from |-> now, to |-> None, recorded |-> now]
           w == [op |-> "upsert", id |-> id, fact |-> g]
<1>1. /\ queued \in Nat /\ Turn <= queued /\ Fresh \in Nat /\ Fresh = 10 * (Turn + 1)
      /\ Turn \in Nat
  BY Numbers DEF Kernel
<1>2. id \in Nat \ {None} /\ Fresh <= id
  BY <1>1 DEF FirstId, None
<1>3. enqueue("record", w)
  <2>1. queued' = queued + 1
    BY DEF recordFact, enqueue
  <2> QED
    BY <2>1 DEF recordFact
<1> HIDE DEF id
<1>4. IsFact(g) /\ g.id = id /\ id \notin gone
  BY <1>1, <1>2, MemoryAssumption DEF IsFact, Kernel, StoreOK, None
<1> HIDE DEF g
<1>5. EditOK(Asked("record", w), Fresh)
  BY <1>4 DEF EditOK, Asked, NoJob, id
<1> HIDE DEF w
<1>6. QueueOK' /\ Turn' = Turn
  BY <1>3, <1>5, Enqueued DEF recordFact, Kernel, Kinds, Edits
<1> QED
  BY <1>6, StillKernel DEF recordFact, Kernel, HoldersOK

\* A plan closes one.
LEMMA CloseStep ==
  ASSUME Kernel, NEW fact, closeFact(fact)
  PROVE  Kernel'
<1> DEFINE w == [op |-> "supersede", id |-> fact.id, at |-> None]
<1>1. EditOK(Asked("close", w), Fresh)
  BY DEF EditOK, Asked, NoJob
<1>2. QueueOK' /\ Turn' = Turn
  BY <1>1, Enqueued DEF closeFact, Kernel, Kinds, Edits
<1> QED
  BY <1>2, StillKernel DEF closeFact, Kernel, HoldersOK

-----------------------------------------------------------------------------
(* Reads by the panel, the note and the rest.                                *)

\* What the store answers is what is known, with the edit in it that the store
\* has.
LEMMA CurrentInStep ==
  ASSUME Kernel
  PROVE  /\ InStep(currentFacts) /\ InStep(Landed(currentFacts))
         /\ Sound(currentFacts, Fresh, gone)
         /\ currentFacts \subseteq Believed
<1>1. InStep(currentFacts) /\ currentFacts \subseteq Believed
  BY DEF InStep, currentFacts, Believed
<1>2. Sound(currentFacts, Fresh, gone)
  <2>1. Fresh \in Int /\ currentFacts \subseteq table /\ Sound(table, Fresh, gone)
    BY Numbers DEF currentFacts, Kernel, StoreOK
  <2> QED
    BY <2>1, SoundPart
<1>3. InStep(Landed(currentFacts))
  <2>1. CASE ~(job.kind \in Edits /\ Reading)
    BY <1>1, <2>1 DEF Landed
  <2>2. CASE job.kind \in Edits /\ Reading
    <3> DEFINE w == job.write
    <3>1. Landed(currentFacts) = CacheAfter(currentFacts, w)
      BY <2>2 DEF Landed
    <3>2. CASE job.kind = "delete"
      <4>1. w.op = "delete" /\ \A f \in table : f.id # w.id
        BY <2>2, <3>2 DEF Kernel, EditMade, JobOK, EditOK
      <4>2. CacheAfter(currentFacts, w) = currentFacts
        BY <4>1 DEF CacheAfter, Without, currentFacts
      <4> QED
        BY <1>1, <3>1, <4>2
    <3>3. CASE job.kind \in {"correct", "record"}
      <4>1. /\ w.op = "upsert" /\ w.id = w.fact.id /\ w.fact \in table
            /\ w.id \in expired => w.id \in revived
        BY <2>2, <3>3 DEF Kernel, EditMade, JobOK, EditOK
      <4>2. CacheAfter(currentFacts, w) = Without(currentFacts, {w.fact.id}) \union {w.fact}
        BY <4>1 DEF CacheAfter, Put
      <4>3. \A f \in table : f.id = w.fact.id => f = w.fact
        BY <4>1 DEF Kernel, StoreOK, Sound, AreFacts
      <4> HIDE DEF w
      <4> QED
        BY <1>1, <3>1, <4>1, <4>2, <4>3 DEF InStep, Without
    <3>4. CASE job.kind = "close"
      <4>1. /\ w.op = "supersede" /\ w.at \in 1 .. now
            /\ \A f \in table : f.id = w.id => f.to = w.at
        BY <2>2, <3>4 DEF Kernel, EditMade, JobOK, EditOK
      <4>2. now \in Nat
        BY DEF Kernel, StoreOK
      <4>3. ~(w.at > now)
        BY <4>1, <4>2
      <4>4. \A f \in table : f.id = w.id => ~isCurrent(f, now)
        BY <4>1, <4>2 DEF isCurrent, None
      <4>5. CacheAfter(currentFacts, w) = Without(currentFacts, {w.id})
        BY <4>1, <4>3 DEF CacheAfter
      <4>6. Without(currentFacts, {w.id}) = currentFacts
        BY <4>4 DEF Without, currentFacts
      <4> QED
        BY <1>1, <3>1, <4>5, <4>6
    <3> QED
      BY <2>2, <3>2, <3>3, <3>4 DEF Edits
  <2> QED
    BY <2>1, <2>2
<1> QED
  BY <1>1, <1>2, <1>3

\* Whoever is given facts that may be held leaves the rest as it is.
LEMMA GivenStep ==
  ASSUME Kernel, NEW who, NEW n, NEW facts, Sound(facts, Fresh, gone), Given(who, n, facts),
         job'.kind = job.kind, job'.write = job.write, gone' = gone
  PROVE  /\ QueueOK' /\ Turn' = Turn
         /\ Sound(shown', Fresh, {})
         /\ note' \in [facts : {note'.facts}, gen : {note'.gen}, wait : {note'.wait},
                       phase : {note'.phase}]
         /\ Sound(note'.facts, Fresh, gone)
<1>1. /\ Sound(shown', Fresh, {})
      /\ note' \in [facts : {note'.facts}, gen : {note'.gen}, wait : {note'.wait},
                    phase : {note'.phase}]
      /\ Sound(note'.facts, Fresh, gone)
  BY DEF Given, Kernel, HoldersOK, Sound
<1>2. QueueOK' /\ Turn' = Turn
  <2>1. CASE queue' = queue /\ queued' = queued
    BY <2>1 DEF Kernel, QueueOK, Turn, Waits, Fresh
  <2>2. CASE enqueue("sleep", <<>>)
    <3>1. EditOK(Asked("sleep", <<>>), Fresh)
      BY DEF EditOK, Asked, NoJob
    <3> QED
      BY <2>2, <3>1, Enqueued DEF Kernel, Kinds
  <2> QED
    BY <2>1, <2>2 DEF Given, LiesDown
<1> QED
  BY <1>1, <1>2

\* The facts are asked for by anyone but the job.
LEMMA KnownStep ==
  ASSUME Kernel, NEW who, who # "job", NEW n, knownFacts(who, n)
  PROVE  Kernel'
<1>1. CASE cache.loaded
  <2>1. Given(who, n, cache.facts) /\ UNCHANGED <<loads, now, store, cache, job, gone>>
    BY <1>1 DEF knownFacts
  <2>2. Sound(cache.facts, Fresh, gone)
    BY DEF Kernel, HoldersOK
  <2> QED
    BY <2>1, <2>2, GivenStep, StillKernel
<1>2. CASE ~cache.loaded
  <2>1. /\ Load(who, n)
        /\ note' = IF who = "note" THEN [note EXCEPT !.phase = "reading"] ELSE note
        /\ shown' = IF who = "panel" THEN {} ELSE shown
        /\ UNCHANGED <<queue, queued, now, store, cache, job, gone>>
    BY <1>2 DEF knownFacts
  <2>2. /\ note' \in [facts : {note'.facts}, gen : {note'.gen}, wait : {note'.wait},
                      phase : {note'.phase}]
        /\ note'.facts = note.facts
    BY <2>1 DEF Kernel, HoldersOK
  <2>3. QueueOK' /\ Turn' = Turn
    BY <2>1 DEF Kernel, QueueOK, Turn, Waits, Fresh
  <2>4. \A l \in loads' : l.who = "job" => l \in loads
    BY <2>1 DEF Load
  <2>5. Sound(shown', Fresh, {}) /\ Sound(note'.facts, Fresh, gone)
    BY <2>1, <2>2, NothingIsSound DEF Kernel, HoldersOK
  <2> QED
    BY <2>1, <2>2, <2>3, <2>4, <2>5, StillKernel
<1> QED
  BY <1>1, <1>2

\* A record with the value in a field that it has there is the same record.
LEMMA SameField ==
  ASSUME NEW r, NEW D, NEW x \in D, NEW b, r = [y \in D |-> r[y]], r[x] = b
  PROVE  [r EXCEPT ![x] = b] = r
OBVIOUS

\* No job holds nothing.
LEMMA NoJobHolds == [NoJob EXCEPT !.holds = FALSE] = NoJob
<1> DEFINE D == {"kind", "n", "write", "phase", "stage", "known", "todo", "holds"}
<1>1. NoJob = [y \in D |-> NoJob[y]] /\ NoJob.holds = FALSE
  BY DEF NoJob
<1> HIDE DEF NoJob
<1> QED
  BY <1>1, SameField

\* A read of somebody else becomes the cache: it is what the store believes, and
\* no job has writes left for the map that was there.
LEMMA OthersReadStep ==
  ASSUME Kernel, NEW l \in loads, l.who # "job", l.facts = currentFacts,
         ~(job.holds /\ job.todo # <<>>),
         loads' = loads \ {l}, cache' = Cached(l.facts), job' = [job EXCEPT !.holds = FALSE],
         Given(l.who, l.n, l.facts), UNCHANGED <<gone, now, store>>
  PROVE  Kernel'
<1>1. /\ IsJob(job') /\ job'.kind = job.kind /\ job'.n = job.n /\ job'.write = job.write
      /\ job'.phase = job.phase /\ job'.stage = job.stage /\ job'.known = job.known
      /\ job'.todo = job.todo /\ job'.holds = FALSE
  BY DEF Kernel, JobOK, IsJob
<1>2. job.kind = "none" => job' = NoJob
  BY NoJobHolds DEF Kernel, JobOK
<1>3. job.phase = "write" => job.todo = <<>>
  BY DEF Kernel, CacheOK
<1>4. job.todo = <<>>
  BY <1>3 DEF Kernel, JobOK
<1>5. /\ table' = table /\ expired' = expired /\ revived' = revived /\ now' = now
      /\ gone' = gone
  BY DEF store
<1>6. /\ QueueOK' /\ Turn' = Turn
      /\ Sound(shown', Fresh, {})
      /\ note' \in [facts : {note'.facts}, gen : {note'.gen}, wait : {note'.wait},
                    phase : {note'.phase}]
      /\ Sound(note'.facts, Fresh, gone)
  BY <1>1, GivenStep, CurrentInStep
<1>7. Fresh' = Fresh
  BY <1>6 DEF Fresh
<1>8. cache'.loaded = TRUE /\ cache'.facts = currentFacts
  BY DEF Cached
<1>9. StoreOK'
  BY <1>5, <1>7 DEF StoreOK, Kernel
<1>10. HoldersOK'
  BY <1>1, <1>5, <1>6, <1>7, <1>8, CurrentInStep DEF HoldersOK, Kernel
<1>11. JobOK'
  BY <1>1, <1>2, <1>5, <1>6, <1>7 DEF JobOK, EditOK, Kernel
<1>12. IdsOK'
  BY <1>1, <1>5 DEF IdsOK, Kernel
<1>13. TodoOK'
  BY <1>1, <1>4, NoChannel DEF TodoOK
<1>14. LoadsOK'
  BY <1>1, <1>6 DEF LoadsOK, Kernel
<1>15. EditMade'
  BY <1>1, <1>5 DEF EditMade, Reading, Kernel
<1>16. CacheOK'
  <2>1. InStep(Landed(currentFacts))
    BY CurrentInStep
  <2>2. InStep(Landed(cache.facts))'
    BY <2>1, <1>1, <1>5, <1>8 DEF InStep, Landed, CacheAfter, Reading, currentFacts
  <2>3. InStep(cache.facts)'
    BY <1>5, <1>8, CurrentInStep DEF InStep, currentFacts
  <2> QED
    BY <2>2, <2>3, <1>1, <1>4, <1>5, <1>8 DEF CacheOK, Kernel
<1>17. KeptOK'
  <2>1. (\A i \in DOMAIN job.todo : FALSE) /\ cache'.facts \subseteq Believed
    BY <1>4, <1>8, CurrentInStep, NoChannel
  <2> QED
    BY <2>1, <1>1, <1>5 DEF KeptOK, Believed, Kernel
<1> QED
  BY <1>6, <1>9, <1>10, <1>11, <1>12, <1>13, <1>14, <1>15, <1>16, <1>17 DEF Kernel

-----------------------------------------------------------------------------
(* A job is given the facts.                                                 *)

\* What is planned of facts that are known is in order to be written.
LEMMA TodoFrom ==
  ASSUME Kernel, NEW F, Sound(F, Fresh, gone), F \subseteq table,
         \A f \in F : f.id \in expired => f.id \in revived,
         NEW w, PlanFrom(F, w), w.supersede = {} \/ F \subseteq cache'.facts,
         job'.todo = Writes(w), UNCHANGED <<table, expired, revived, gone>>, Fresh' = Fresh
  PROVE  TodoOK' /\ IsChannel(job'.todo)
<1> DEFINE T == Writes(w)
<1>1. /\ IsChannel(T)
      /\ \A i \in DOMAIN T :
           \/ \E s \in w.supersede : T[i] = [op |-> "supersede", id |-> s.id, at |-> s.at]
           \/ \E id \in w.expire : T[i] = [op |-> "expire", id |-> id]
           \/ \E f \in w.upserts : T[i] = [op |-> "upsert", id |-> f.id, fact |-> f]
      /\ \A i, k \in DOMAIN T : T[i].op = "supersede" /\ k < i => T[k].op = "supersede"
  BY PlanInOrder DEF PlanFrom
<1>2. job'.todo = T
  OBVIOUS
<1> HIDE DEF T
<1>3. \A i \in DOMAIN T : T[i].op \in {"supersede", "expire", "upsert"}
  BY <1>1
<1>4. \A i \in DOMAIN T : T[i].op = "expire" => T[i].id \in w.expire
  BY <1>1
<1>5. \A i \in DOMAIN T : T[i].op = "supersede" =>
        \E s \in w.supersede : T[i].id = s.id /\ T[i].at = s.at
  BY <1>1
<1>6. \A i \in DOMAIN T : T[i].op = "upsert" =>
        \E f \in w.upserts : T[i].id = f.id /\ T[i].fact = f
  BY <1>1
<1>7. ASSUME NEW i \in DOMAIN T, T[i].op = "supersede"
      PROVE  /\ T[i].at \in Nat \ {None}
             /\ T[i].id \in expired => T[i].id \in revived
             /\ \A f \in table : f.id = T[i].id => f \in cache'.facts
             /\ \A k \in DOMAIN T : T[k].op = "supersede" /\ T[k].id = T[i].id => T[k].at = T[i].at
  <2>1. PICK s \in w.supersede : T[i].id = s.id /\ T[i].at = s.at
    BY <1>5, <1>7
  <2>2. PICK e \in F : e.id = s.id
    BY DEF PlanFrom
  <2>3. \A f \in table : f.id = e.id => f = e
    BY DEF Kernel, StoreOK, Sound, AreFacts
  <2>4. F \subseteq cache'.facts
    OBVIOUS
  <2>5. \A k \in DOMAIN T : T[k].op = "supersede" /\ T[k].id = T[i].id => T[k].at = T[i].at
    BY <1>5, <2>1 DEF PlanFrom
  <2> QED
    BY <2>1, <2>2, <2>3, <2>4, <2>5 DEF PlanFrom
<1>8. ASSUME NEW i \in DOMAIN T, T[i].op = "upsert"
      PROVE  /\ IsFact(T[i].fact) /\ T[i].id = T[i].fact.id
             /\ T[i].id < Fresh /\ T[i].id \notin gone
             /\ T[i].id \in expired => T[i].id \in revived
             /\ \A k \in DOMAIN T : T[k].op = "expire" => T[k].id # T[i].id
  <2>1. PICK u \in w.upserts : T[i].id = u.id /\ T[i].fact = u
    BY <1>6, <1>8
  <2>2. IsFact(u) /\ u.id \notin w.expire
    BY DEF PlanFrom
  <2>3. PICK f \in F : f.id = u.id
    BY DEF PlanFrom, Continues
  <2> QED
    BY <2>1, <2>2, <2>3, <1>4 DEF Sound
<1> QED
  BY <1>1, <1>2, <1>3, <1>7, <1>8 DEF TodoOK

\* What is to be merged by rule keeps what it closes.
LEMMA KeptFrom ==
  ASSUME Kernel, NEW F, AreFacts(F), F \subseteq Believed,
         NEW w, w = applyMerges(F, ruleMerges(F)),
         job'.todo = Writes(w), job'.phase = "write", UNCHANGED <<table, expired>>
  PROVE  KeptOK'
<1> DEFINE T == Writes(w)
           G == ruleMerges(F)
<1>1. /\ GroupsOK(F, G)
      /\ \A g \in G : \A id \in g.merge :
           \E e, f \in F : e.id = id /\ f.id = g.keep /\ Key(e) = Key(f)
  BY RuleGroups
<1>2. w = applyMerges(F, G)
  OBVIOUS
<1> HIDE DEF G
<1>3. PlanFrom(F, w) /\ w.supersede = {} /\ w.expire = UNION {g.merge : g \in G}
  BY <1>1, <1>2, MergesPlan
<1>4. \A i \in DOMAIN T :
           \/ \E id \in w.expire : T[i] = [op |-> "expire", id |-> id]
           \/ \E f \in w.upserts : T[i] = [op |-> "upsert", id |-> f.id, fact |-> f]
  <2>1. IsFiniteSet(w.upserts) /\ IsFiniteSet(w.supersede) /\ IsFiniteSet(w.expire)
    BY <1>3 DEF PlanFrom
  <2>2. \A i \in DOMAIN T :
          \/ \E s \in w.supersede : T[i] = [op |-> "supersede", id |-> s.id, at |-> s.at]
          \/ \E id \in w.expire : T[i] = [op |-> "expire", id |-> id]
          \/ \E f \in w.upserts : T[i] = [op |-> "upsert", id |-> f.id, fact |-> f]
    BY <2>1, PlanInOrder
  <2> HIDE DEF T
  <2> QED
    BY <1>3, <2>2
<1>5. job'.todo = T
  OBVIOUS
<1> HIDE DEF T
<1>6. \A i \in DOMAIN T : T[i].op # "supersede" /\ (T[i].op = "expire" => T[i].id \in w.expire)
  BY <1>4
<1>7. ASSUME NEW i \in DOMAIN T
      PROVE  \E f \in Believed :
               /\ f.id \notin w.expire
               /\ T[i].op = "upsert" => f.id = T[i].id /\ Key(T[i].fact) = Key(f)
               /\ T[i].op = "expire" => \A g \in Believed : g.id = T[i].id => Key(g) = Key(f)
  <2>1. CASE \E id \in w.expire : T[i] = [op |-> "expire", id |-> id]
    <3>1. PICK id \in w.expire : T[i] = [op |-> "expire", id |-> id]
      BY <2>1
    <3>2. PICK g \in G : id \in g.merge
      BY <1>3
    <3>3. PICK e \in F, f \in F : e.id = id /\ f.id = g.keep /\ Key(e) = Key(f)
      BY <1>1, <3>2
    <3>4. f.id \notin w.expire
      BY <1>1, <1>3, <3>3 DEF GroupsOK
    <3>5. \A h \in Believed : h.id = id => h = e
      BY <3>3 DEF Believed, Kernel, StoreOK, Sound, AreFacts
    <3> QED
      BY <3>1, <3>3, <3>4, <3>5
  <2>2. CASE \E u \in w.upserts : T[i] = [op |-> "upsert", id |-> u.id, fact |-> u]
    <3>1. PICK u \in w.upserts : T[i] = [op |-> "upsert", id |-> u.id, fact |-> u]
      BY <2>2
    <3>2. u.id \notin w.expire /\ \E f \in F : f.id = u.id /\ Key(f) = Key(u)
      BY <1>3 DEF PlanFrom, Continues, Key
    <3> QED
      BY <3>1, <3>2
  <2> QED
    BY <1>4, <2>1, <2>2
<1>8. Believed' = Believed
  BY DEF Believed
<1> QED
  BY <1>5, <1>6, <1>7, <1>8 DEF KeptOK, Reading

\* Nothing is wrong with no job.
LEMMA NoJobOK ==
  ASSUME job' = NoJob
  PROVE  JobOK' /\ IdsOK' /\ TodoOK' /\ EditMade' /\ KeptOK'
<1>1. /\ job'.kind = "none" /\ job'.phase = "none" /\ job'.stage = "none" /\ job'.known = {}
      /\ job'.todo = <<>> /\ IsJob(job')
  BY DEF NoJob, IsJob
<1>2. IsChannel(job'.todo) /\ DOMAIN job'.todo = {}
  BY <1>1, NoChannel
<1>3. JobOK'
  BY <1>1, <1>2 DEF JobOK, EditOK, Edits
<1>4. TodoOK'
  BY <1>2 DEF TodoOK
<1> QED
  BY <1>1, <1>3, <1>4 DEF IdsOK, EditMade, Edits, KeptOK

\* A job may end at any time, but for one that is about to bring its edit into
\* the cache there is.
LEMMA JobEnds ==
  ASSUME Kernel, job' = NoJob, ~(job.kind \in Edits /\ job.phase = "read"),
         loads' \subseteq loads,
         UNCHANGED <<now, store, cache, queue, queued, shown, note, gone>>
  PROVE  Kernel'
<1>1. /\ job'.kind = "none" /\ job'.phase = "none" /\ job'.n = 0 /\ job'.known = {}
  BY DEF NoJob
<1>2. /\ table' = table /\ expired' = expired /\ revived' = revived /\ now' = now
      /\ cache' = cache /\ gone' = gone /\ Turn' = Turn /\ Fresh' = Fresh
  BY DEF store, Turn, Fresh
<1>3. QueueOK' /\ StoreOK'
  BY <1>1, <1>2 DEF Kernel, QueueOK, Waits, StoreOK
<1>4. HoldersOK'
  BY <1>1, <1>2, NothingIsSound DEF Kernel, HoldersOK
<1>5. LoadsOK'
  BY <1>1, <1>2 DEF Kernel, LoadsOK
<1>6. CacheOK'
  <2>1. cache.loaded => InStep(cache.facts)
    BY DEF Kernel, CacheOK, Landed, Reading
  <2>2. InStep(Landed(cache.facts))' <=> InStep(cache.facts)
    BY <1>1, <1>2 DEF Landed, InStep, Edits, currentFacts
  <2> QED
    BY <2>1, <2>2, <1>1, <1>2 DEF CacheOK
<1> QED
  BY <1>3, <1>4, <1>5, <1>6, NoJobOK DEF Kernel

\* An edit is over with the facts that are known: it is in the cache, and what
\* it deleted is nowhere.
LEMMA EditKnownStep ==
  ASSUME Kernel, NEW facts, job.kind \in Edits, Reading, JobKnows(facts),
         Sound(facts, Fresh, gone), InStep(Landed(facts)),
         loads' \subseteq loads,
         UNCHANGED <<now, store, queue, queued>>
  PROVE  Kernel'
<1> DEFINE w == job.write
<1>1. /\ cache' = Cached(CacheAfter(facts, w)) /\ job' = NoJob
      /\ note' = NoteAfter(job, note) /\ shown' = ShownAfter(job, shown)
      /\ gone' = IF job.kind = "delete" THEN gone \union {w.id} ELSE gone
  <2>1. Finishes(job) /\ job.kind # "extract" /\ job.stage = "none"
    BY DEF Finishes, Edits, Kernel, JobOK
  <2> QED
    BY <2>1 DEF JobKnows, CacheKnowing, Knowing
<1>2. /\ table' = table /\ expired' = expired /\ revived' = revived /\ now' = now
      /\ Turn' = Turn /\ Fresh' = Fresh
  BY DEF store, Turn, Fresh
<1>3. /\ job'.kind = "none" /\ job'.phase = "none" /\ job'.n = 0 /\ job'.known = {}
  BY <1>1 DEF NoJob
<1>4. Turn \in Nat /\ Turn >= 1 /\ Fresh = 10 * (Turn + 1) /\ DOMAIN queue = 1..Len(queue)
      /\ Len(queue) \in Nat /\ job.n = Turn
  BY Numbers DEF Kernel, JobOK, Edits
<1>5. EditOK(job, Fresh) /\ IsJob(job)
  BY DEF Kernel, JobOK
<1>6. StoreOK'
  <2>1. CASE job.kind = "delete"
    <3>1. \A f \in table : f.id # w.id
      BY <2>1 DEF Kernel, EditMade
    <3>2. w.id \in Nat /\ w.id < Fresh
      BY <1>5, <2>1 DEF EditOK
    <3> QED
      BY <1>1, <1>2, <2>1, <3>1, <3>2 DEF Kernel, StoreOK, Sound
  <2>2. CASE job.kind # "delete"
    BY <1>1, <1>2, <2>2 DEF Kernel, StoreOK
  <2> QED
    BY <2>1, <2>2
<1>7. HoldersOK'
  <2>1. Sound(job'.known, Fresh', gone')
    BY <1>3, NothingIsSound
  <2>2. CASE job.kind = "delete"
    <3>1. w.op = "delete"
      BY <1>5, <2>2 DEF EditOK
    <3>2. CacheAfter(facts, w) = Without(facts, {w.id})
      BY <3>1 DEF CacheAfter
    <3>3. cache'.facts = Without(facts, {w.id}) /\ shown' \subseteq shown
          /\ gone' = gone \union {w.id}
      BY <1>1, <2>2, <3>2 DEF Cached, ShownAfter, Without
    <3>4. /\ note' \in [facts : {note'.facts}, gen : {note'.gen}, wait : {note'.wait},
                        phase : {note'.phase}]
          /\ note'.facts = Without(note.facts, {w.id})
      BY <1>1, <2>2 DEF NoteAfter, Kernel, HoldersOK
    <3>5. /\ Sound(Without(facts, {w.id}), Fresh, gone \union {w.id})
          /\ Sound(Without(note.facts, {w.id}), Fresh, gone \union {w.id})
      BY WithoutSound DEF Kernel, HoldersOK
    <3>6. Sound(shown', Fresh, {})
      BY <1>4, <3>3, SoundPart DEF Kernel, HoldersOK
    <3> QED
      BY <1>2, <2>1, <3>3, <3>4, <3>5, <3>6 DEF HoldersOK
  <2>3. CASE job.kind # "delete"
    <3>1. gone' = gone /\ shown' = shown
      BY <1>1, <2>3 DEF ShownAfter
    <3>2. /\ note' \in [facts : {note'.facts}, gen : {note'.gen}, wait : {note'.wait},
                        phase : {note'.phase}]
          /\ note'.facts = note.facts
      BY <1>1, <2>3 DEF NoteAfter, Refreshed, Kernel, HoldersOK
    <3>3. Sound(CacheAfter(facts, w), Fresh, gone)
      <4>1. CASE job.kind \in {"correct", "record"}
        <5>1. /\ w.op = "upsert" /\ w.id = w.fact.id /\ IsFact(w.fact) /\ w.id \notin gone
          <6>1. w.op = "upsert" /\ w.id = w.fact.id /\ IsFact(w.fact)
            BY <1>5, <4>1 DEF EditOK
          <6>2. w.fact \in table
            BY <4>1 DEF Kernel, EditMade
          <6> QED
            BY <6>1, <6>2 DEF Kernel, StoreOK, Sound
        <5>2. w.id < Fresh
          <6>1. CASE job.kind = "correct"
            BY <1>5, <6>1 DEF EditOK
          <6>2. CASE job.kind = "record"
            BY <1>4, <1>5, <6>2 DEF EditOK, FirstId
          <6> QED
            BY <4>1, <6>1, <6>2
        <5>3. Sound(Put(facts, w.fact), Fresh, gone)
          BY <5>1, <5>2, PutSound
        <5> QED
          BY <5>1, <5>3 DEF CacheAfter
      <4>2. CASE job.kind = "close"
        <5>1. w.op = "supersede" /\ w.at \in 1 .. now
          BY <1>5, <4>2 DEF EditOK, Kernel, EditMade
        <5>2. w.at \in Nat
          BY <5>1 DEF Kernel, StoreOK
        <5>3. Sound(Ended(facts, w), Fresh, gone) /\ Sound(Without(facts, {w.id}), Fresh, gone)
          BY <5>2, EndedSound, WithoutSound
        <5> QED
          BY <5>1, <5>3 DEF CacheAfter
      <4> QED
        BY <2>3, <4>1, <4>2 DEF Edits
    <3> QED
      BY <1>1, <1>2, <2>1, <3>1, <3>2, <3>3 DEF Cached, Kernel, HoldersOK
  <2> QED
    BY <2>2, <2>3
<1>8. QueueOK'
  BY <1>2 DEF Kernel, QueueOK, Waits
<1>10. LoadsOK'
  BY <1>2, <1>3 DEF Kernel, LoadsOK
<1>11. CacheOK'
  <2>1. Landed(facts) = CacheAfter(facts, w)
    BY DEF Landed
  <2> DEFINE F == CacheAfter(facts, w)
  <2>2. InStep(F) /\ cache'.facts = F
    BY <1>1, <2>1 DEF Cached
  <2> HIDE DEF F
  <2>3. InStep(Landed(cache.facts))'
    BY <2>2, <1>2, <1>3 DEF InStep, Landed, Edits, currentFacts
  <2> QED
    BY <2>3, <1>3 DEF CacheOK
<1> QED
  BY <1>1, <1>6, <1>7, <1>8, <1>10, <1>11, NoJobOK DEF Kernel

\* An extraction, or a sleep, goes on with the facts that are known.
LEMMA SortKnownStep ==
  ASSUME Kernel, NEW facts, job.kind \notin Edits, Reading, JobKnows(facts),
         Sound(facts, Fresh, gone), InStep(Landed(facts)),
         job.stage = "rules" => facts \subseteq Believed,
         loads' \subseteq loads, \A l \in loads' : ~(l.who = "job" /\ l.n = job.n),
         UNCHANGED <<now, store, queue, queued>>
  PROVE  Kernel'
<1>1. /\ cache' = Cached(facts) /\ job' = Knowing(job, facts)
      /\ note' = note /\ shown' = shown /\ gone' = gone
  BY DEF JobKnows, CacheKnowing, Finishes, NoteAfter, ShownAfter, Edits
<1>2. /\ table' = table /\ expired' = expired /\ revived' = revived /\ now' = now
      /\ Turn' = Turn /\ Fresh' = Fresh
  BY DEF store, Turn, Fresh
<1>3. InStep(facts) /\ cache'.facts = facts /\ cache'.loaded = TRUE
  BY <1>1 DEF Landed, Cached
<1>4. /\ IsJob(job) /\ job.kind \in {"extract", "sleep"} /\ job.n = Turn /\ Turn >= 1
      /\ job.phase \in {"read", "reading"} /\ job.known = {} /\ job.todo = <<>>
      /\ job.kind = "sleep" => job.stage \in {"rules", "model", "tidy"}
      /\ job.kind = "extract" => job.stage = "none"
  BY DEF Kernel, JobOK, Edits, Reading, NoJob
<1>5. StoreOK' /\ QueueOK'
  BY <1>1, <1>2 DEF Kernel, StoreOK, QueueOK, Waits
<1> DEFINE Rest == HoldersOK' /\ JobOK' /\ IdsOK' /\ TodoOK' /\ LoadsOK'
                   /\ EditMade' /\ CacheOK' /\ KeptOK'
<1>6. InStep(facts)'
  BY <1>2, <1>3 DEF InStep, currentFacts
<1>7. CASE job.kind = "extract"
  <2>1. /\ IsJob(job') /\ job'.kind = "extract" /\ job'.n = job.n /\ job'.write = job.write
        /\ job'.phase = "ask" /\ job'.stage = "none" /\ job'.known = facts
        /\ job'.todo = <<>>
    BY <1>1, <1>4, <1>7 DEF Knowing, IsJob
  <2>2. IsChannel(job'.todo) /\ DOMAIN job'.todo = {}
    BY <2>1, NoChannel
  <2>3. HoldersOK'
    BY <1>1, <1>2, <1>3, <2>1 DEF Kernel, HoldersOK
  <2>4. EditMade' /\ KeptOK' /\ TodoOK'
    BY <2>1, <2>2 DEF Kernel, EditMade, Edits, KeptOK, TodoOK
  <2>5. JobOK'
    BY <1>2, <1>4, <2>1, <2>2 DEF JobOK, EditOK
  <2>6. IdsOK'
    <3>1. facts \subseteq table
      BY <1>3 DEF InStep
    <3>2. \A id \in gone \union expired \union {f.id : f \in table} : id < FirstId(job.n)
      BY <1>4, <1>7 DEF Kernel, IdsOK
    <3> QED
      BY <1>1, <1>2, <2>1, <3>1, <3>2 DEF IdsOK
  <2>7. LoadsOK'
    BY <1>2, <2>1 DEF Kernel, LoadsOK
  <2>8. CacheOK'
    <3>1. InStep(Landed(cache.facts))'
      BY <1>3, <1>6, <2>1 DEF Landed, Edits
    <3>2. facts \subseteq table' /\ \A f \in facts : f.id \in expired' => f.id \in revived'
      BY <1>6 DEF InStep
    <3> QED
      BY <1>3, <2>1, <3>1, <3>2 DEF CacheOK
  <2> QED
    BY <1>5, <2>3, <2>4, <2>5, <2>6, <2>7, <2>8 DEF Kernel
<1>8. CASE job.kind = "sleep" /\ job.stage \in {"rules", "tidy"}
  <2> DEFINE w == IF job.stage = "rules" THEN applyMerges(facts, ruleMerges(facts))
                  ELSE consolidateFacts(facts, now)
  <2>1. job' = [job EXCEPT !.phase = "write", !.holds = TRUE, !.todo = Writes(w)]
    BY <1>1, <1>8 DEF Knowing
  <2>2. AreFacts(facts)
    BY DEF Sound
  <2>3. PlanFrom(facts, w)
    <3>1. CASE job.stage = "rules"
      BY <2>2, <3>1, RuleGroups, MergesPlan
    <3>2. CASE job.stage # "rules"
      BY <2>2, <3>2, TidyPlan
    <3> QED
      BY <3>1, <3>2
  <2>4. job.stage = "rules" => w = applyMerges(facts, ruleMerges(facts))
    OBVIOUS
  <2> HIDE DEF w
  <2>5. /\ IsJob(job') /\ job'.kind = "sleep" /\ job'.n = job.n /\ job'.write = job.write
        /\ job'.phase = "write" /\ job'.stage = job.stage /\ job'.known = {}
        /\ job'.todo = Writes(w) /\ job'.holds = TRUE
    BY <1>4, <1>8, <2>1 DEF IsJob
  <2>6. TodoOK' /\ IsChannel(job'.todo)
    <3>1. facts \subseteq table /\ \A f \in facts : f.id \in expired => f.id \in revived
      BY <1>3 DEF InStep
    <3> QED
      BY <1>1, <1>2, <1>3, <2>3, <2>5, <3>1, TodoFrom
  <2>7. KeptOK'
    <3>1. CASE job.stage = "rules"
      BY <1>2, <2>2, <2>4, <2>5, <3>1, KeptFrom
    <3>2. CASE job.stage # "rules"
      BY <2>5, <3>2 DEF KeptOK
    <3> QED
      BY <3>1, <3>2
  <2>8. HoldersOK'
    BY <1>1, <1>2, <1>3, <2>5, NothingIsSound DEF Kernel, HoldersOK
  <2>9. EditMade'
    BY <2>5 DEF Kernel, EditMade, Edits
  <2>10. JobOK'
    BY <1>2, <1>4, <1>8, <2>5, <2>6 DEF JobOK, EditOK
  <2>11. IdsOK'
    BY <2>5 DEF IdsOK
  <2>12. LoadsOK'
    BY <1>2, <2>5 DEF Kernel, LoadsOK
  <2>13. CacheOK'
    <3>1. InStep(Landed(cache.facts))'
      BY <1>3, <1>6, <2>5 DEF Landed, Edits
    <3> QED
      BY <1>3, <2>5, <3>1 DEF CacheOK
  <2> QED
    BY <1>5, <2>6, <2>7, <2>8, <2>9, <2>10, <2>11, <2>12, <2>13 DEF Kernel
<1>9. CASE job.kind = "sleep" /\ job.stage = "model"
  <2>1. job' = NoJob
    BY <1>1, <1>9 DEF Knowing
  <2>2. /\ job'.kind = "none" /\ job'.phase = "none" /\ job'.n = 0 /\ job'.known = {}
    BY <2>1 DEF NoJob
  <2>3. HoldersOK'
    BY <1>1, <1>2, <1>3, <2>2, NothingIsSound DEF Kernel, HoldersOK
  <2>4. LoadsOK'
    BY <1>2, <2>2 DEF Kernel, LoadsOK
  <2>5. CacheOK'
    <3>1. InStep(Landed(cache.facts))'
      BY <1>3, <1>6, <2>2 DEF Landed, Edits
    <3> QED
      BY <2>2, <3>1 DEF CacheOK
  <2> QED
    BY <1>5, <2>1, <2>3, <2>4, <2>5, NoJobOK DEF Kernel
<1> QED
  BY <1>4, <1>7, <1>8, <1>9

\* The job asks for the facts.
LEMMA JobReadsStep ==
  ASSUME Kernel, JobReads
  PROVE  Kernel'
<1>1. /\ job.phase = "read" /\ UNCHANGED <<now, store, queue, queued>>
  BY DEF JobReads
<1>2. CASE cache.loaded
  <2>1. JobKnows(cache.facts) /\ loads' = loads
    BY <1>2 DEF JobReads
  <2>2. Sound(cache.facts, Fresh, gone) /\ InStep(Landed(cache.facts))
        /\ (job.stage = "rules" => cache.facts \subseteq Believed) /\ Reading
    BY <1>1, <1>2 DEF Kernel, HoldersOK, CacheOK, KeptOK, Reading
  <2>3. \A l \in loads' : ~(l.who = "job" /\ l.n = job.n)
    BY <1>1, <2>1 DEF Kernel, LoadsOK
  <2>4. loads' \subseteq loads
    BY <2>1
  <2>5. CASE job.kind \in Edits
    BY <1>1, <2>1, <2>2, <2>4, <2>5, EditKnownStep
  <2>6. CASE job.kind \notin Edits
    BY <1>1, <2>1, <2>2, <2>3, <2>4, <2>6, SortKnownStep
  <2> QED
    BY <2>5, <2>6
<1>3. CASE ~cache.loaded
  <2> DEFINE r == [who |-> "job", n |-> job.n, facts |-> currentFacts]
  <2>1. /\ loads' = loads \union {r} /\ job' = [job EXCEPT !.phase = "reading"]
        /\ UNCHANGED <<cache, note, shown, gone>>
    BY <1>3 DEF JobReads, Load
  <2>2. /\ IsJob(job) /\ job.kind # "none" /\ job.n = Turn /\ Turn >= 1 /\ Turn \in Nat
        /\ job.todo = <<>> /\ job.known = {}
    BY <1>1, Numbers DEF Kernel, JobOK, NoJob
  <2>3. /\ IsJob(job') /\ job'.kind = job.kind /\ job'.n = job.n /\ job'.write = job.write
        /\ job'.phase = "reading" /\ job'.stage = job.stage /\ job'.known = job.known
        /\ job'.todo = job.todo /\ job'.holds = job.holds
    BY <2>1, <2>2 DEF IsJob
  <2>4. /\ table' = table /\ expired' = expired /\ revived' = revived /\ now' = now
        /\ gone' = gone /\ cache' = cache /\ Turn' = Turn /\ Fresh' = Fresh
    BY <1>1, <2>1 DEF store, Turn, Fresh
  <2>5. StoreOK' /\ QueueOK' /\ HoldersOK'
    BY <1>1, <2>1, <2>3, <2>4 DEF Kernel, StoreOK, QueueOK, Waits, HoldersOK
  <2>6. JobOK'
    BY <1>1, <2>2, <2>3, <2>4 DEF Kernel, JobOK, EditOK
  <2>7. IdsOK' /\ TodoOK'
    BY <1>1, <2>2, <2>3, <2>4, NoChannel DEF Kernel, IdsOK, TodoOK
  <2>8. LoadsOK'
    <3>1. r.who = "job" /\ r.n = job.n
      OBVIOUS
    <3>2. \A l \in loads : ~(l.who = "job" /\ l.n = job.n)
      BY <1>1 DEF Kernel, LoadsOK
    <3> HIDE DEF r
    <3> QED
      BY <2>1, <2>2, <2>3, <2>4, <3>1, <3>2 DEF Kernel, LoadsOK
  <2>9. EditMade'
    BY <1>1, <2>3, <2>4 DEF Kernel, EditMade, Reading
  <2>10. CacheOK' /\ KeptOK'
    BY <1>3, <2>2, <2>3, <2>4, NoChannel DEF CacheOK, KeptOK
  <2> QED
    BY <2>5, <2>6, <2>7, <2>8, <2>9, <2>10 DEF Kernel
<1> QED
  BY <1>2, <1>3

\* An answer changes nothing out of order, unless it brings back the past.
LEMMA ReadLandsStep ==
  ASSUME Kernel, ReadLands, ~adrift'
  PROVE  Kernel'
<1>1. PICK l \in loads :
        /\ loads' = loads \ {l}
        /\ l.facts = currentFacts
        /\ l.who # "job" => ~(job.holds /\ job.todo # <<>>)
        /\ IF l.who = "job"
           THEN IF l.n = job.n
                THEN JobKnows(l.facts) /\ UNCHANGED <<queue, queued, rest>>
                ELSE UNCHANGED <<cache, job, note, shown, gone, queue, queued>>
           ELSE /\ cache' = Cached(l.facts)
                /\ job' = [job EXCEPT !.holds = FALSE]
                /\ Given(l.who, l.n, l.facts)
                /\ UNCHANGED <<done, gone>>
        /\ UNCHANGED <<now, store, slept, faults>>
  BY DEF ReadLands
<1>2. CASE l.who = "job" /\ l.n = job.n
  <2>1. JobKnows(l.facts) /\ UNCHANGED <<now, store, queue, queued>>
    BY <1>1, <1>2
  <2>2. Sound(l.facts, Fresh, gone) /\ InStep(Landed(l.facts)) /\ l.facts \subseteq Believed
    BY <1>1, CurrentInStep
  <2>3. Reading
    BY <1>2 DEF Kernel, LoadsOK, Reading
  <2>4. \A m \in loads' : ~(m.who = "job" /\ m.n = job.n)
    BY <1>1, <1>2 DEF Kernel, LoadsOK
  <2>5. loads' \subseteq loads
    BY <1>1
  <2>6. CASE job.kind \in Edits
    BY <2>1, <2>2, <2>3, <2>5, <2>6, EditKnownStep
  <2>7. CASE job.kind \notin Edits
    BY <2>1, <2>2, <2>3, <2>4, <2>5, <2>7, SortKnownStep
  <2> QED
    BY <2>6, <2>7
<1>3. CASE l.who = "job" /\ l.n # job.n
  <2>1. UNCHANGED <<now, store, cache, job, note, shown, gone, queue, queued>>
    BY <1>1, <1>3
  <2>2. QueueOK' /\ Turn' = Turn
    BY <2>1 DEF Kernel, QueueOK, Turn, Waits, Fresh
  <2>3. \A m \in loads' : m.who = "job" => m \in loads
    BY <1>1
  <2> QED
    BY <2>1, <2>2, <2>3, StillKernel DEF Kernel, HoldersOK
<1>4. CASE l.who # "job"
  BY <1>1, <1>4, OthersReadStep
<1> QED
  BY <1>2, <1>3, <1>4

\* A read fails: the job that waits for it is over, and nothing else is lost.
LEMMA ReadFailsIs ==
  ASSUME HoldersOK, LoadsOK, ReadFails
  PROVE  /\ loads' \subseteq loads
         /\ UNCHANGED <<now, store, cache, queue, queued, shown, slept, gone, adrift>>
         /\ note'.facts = note.facts
         /\ note' \in [facts : {note'.facts}, gen : {note'.gen}, wait : {note'.wait},
                       phase : {note'.phase}]
         /\ rest' = rest \/ rest' = [rest EXCEPT !.asking = "no"]
         /\ \/ job' = job /\ done' = done
            \/ /\ job' = NoJob /\ done' = done + 1 /\ job.phase = "reading"
               /\ note' = note /\ rest' = rest
<1>1. PICK l \in loads :
        /\ loads' = loads \ {l}
        /\ IF l.who = "job" /\ l.n = job.n
           THEN job' = NoJob /\ done' = done + 1
           ELSE UNCHANGED <<job, done>>
        /\ note' = IF l.who = "note" /\ l.n = note.gen
                   THEN [note EXCEPT !.phase = "idle"] ELSE note
        /\ rest' = IF l.who = "rest" THEN [rest EXCEPT !.asking = "no"] ELSE rest
  BY DEF ReadFails
<1>2. UNCHANGED <<now, store, cache, queue, queued, shown, slept, gone, adrift>>
  BY DEF ReadFails
<1>3. note \in [facts : {note.facts}, gen : {note.gen}, wait : {note.wait}, phase : {note.phase}]
  BY DEF HoldersOK
<1>4. /\ note'.facts = note.facts
      /\ note' \in [facts : {note'.facts}, gen : {note'.gen}, wait : {note'.wait},
                    phase : {note'.phase}]
  BY <1>1, <1>3
<1>5. l.who = "job" /\ l.n = job.n => job.phase = "reading"
  BY DEF LoadsOK
<1> QED
  BY <1>1, <1>2, <1>4, <1>5

LEMMA ReadFailsStep ==
  ASSUME Kernel, ReadFails
  PROVE  Kernel'
<1>1. /\ loads' \subseteq loads
      /\ UNCHANGED <<now, store, cache, queue, queued, shown, gone>>
      /\ note'.facts = note.facts
      /\ note' \in [facts : {note'.facts}, gen : {note'.gen}, wait : {note'.wait},
                    phase : {note'.phase}]
      /\ job' = job \/ (job' = NoJob /\ job.phase = "reading" /\ note' = note)
  BY ReadFailsIs DEF Kernel
<1>2. CASE job' = NoJob /\ job.phase = "reading" /\ note' = note
  BY <1>1, <1>2, JobEnds
<1>3. CASE job' = job
  <2>1. QueueOK' /\ Turn' = Turn
    BY <1>1 DEF Kernel, QueueOK, Turn, Waits, Fresh
  <2> QED
    BY <1>1, <1>3, <2>1, StillKernel DEF Kernel, HoldersOK
<1> QED
  BY <1>1, <1>2, <1>3

-----------------------------------------------------------------------------
(* The queue's job.                                                          *)

\* What an edit writes stays in order as ids are given out.
LEMMA EditStays ==
  ASSUME NEW j, NEW a \in Int, NEW b \in Int, a <= b, EditOK(j, a)
  PROVE  EditOK(j, b)
<1>1. j.kind = "correct" => j.write.id \in Int
  BY DEF EditOK, IsFact
<1> QED
  BY <1>1 DEF EditOK

\* The next job starts, with the next ids.
LEMMA JobStartsStep ==
  ASSUME Kernel, JobStarts
  PROVE  Kernel'
<1> DEFINE j == Head(queue)
<1>1. /\ job = NoJob /\ queue # <<>> /\ queue' = Tail(queue)
      /\ cache' = IF j.kind = "sleep" THEN NoCache ELSE cache
      /\ UNCHANGED <<now, store, queued, loads, shown, note, gone>>
  BY DEF JobStarts
<1>2. job' = CASE j.kind \in Edits -> [j EXCEPT !.phase = "edit"]
               [] j.kind = "sleep" -> [j EXCEPT !.phase = "read", !.stage = "rules"]
               [] OTHER -> [j EXCEPT !.phase = "read"]
  BY DEF JobStarts
<1>3. /\ Len(queue) \in Nat \ {0} /\ Len(queue') = Len(queue) - 1
      /\ IsChannel(queue')
      /\ DOMAIN queue = 1..Len(queue) /\ DOMAIN queue' = 1..(Len(queue) - 1)
      /\ \A i \in DOMAIN queue' : queue'[i] = queue[i + 1] /\ i + 1 \in DOMAIN queue
      /\ j = queue[1] /\ 1 \in DOMAIN queue
  BY <1>1, ChannelTail DEF Kernel, QueueOK
<1>4. /\ Turn \in Nat /\ queued \in Nat /\ queued = Turn + Len(queue) /\ Fresh = 10 * (Turn + 1)
      /\ Turn' = Turn + 1 /\ Fresh' = 10 * (Turn + 2)
  BY <1>1, <1>3, Numbers DEF Kernel, Turn, Fresh, FirstId
<1>5. Waits(j) /\ j.n = Turn + 1
  BY <1>3 DEF Kernel, QueueOK
<1> HIDE DEF j
<1>6. /\ IsJob(job') /\ job'.kind = j.kind /\ job'.kind \in Kinds /\ job'.n = Turn'
      /\ job'.write = j.write /\ job'.known = {} /\ job'.todo = <<>> /\ job'.holds = FALSE
      /\ job'.phase = IF j.kind \in Edits THEN "edit" ELSE "read"
      /\ job'.stage = IF j.kind = "sleep" THEN "rules" ELSE "none"
  BY <1>2, <1>4, <1>5 DEF Waits, IsJob, Kinds, Edits
<1>7. /\ table' = table /\ expired' = expired /\ revived' = revived /\ now' = now
      /\ loads' = loads /\ gone' = gone /\ shown' = shown /\ note' = note
  BY <1>1 DEF store
<1>8. Fresh \in Int /\ Fresh' \in Int /\ Fresh <= Fresh'
  BY <1>4
<1>9. StoreOK'
  <2>1. Sound(table, Fresh', gone)
    BY <1>8, SoundPart DEF Kernel, StoreOK
  <2>2. \A id \in gone \union expired : id \in Nat /\ id < Fresh'
    BY <1>8 DEF Kernel, StoreOK
  <2> QED
    BY <1>7, <2>1, <2>2 DEF Kernel, StoreOK
<1>10. HoldersOK'
  <2>1. /\ Sound(cache.facts, Fresh', gone) /\ Sound(shown, Fresh', {})
        /\ Sound(note.facts, Fresh', gone) /\ Sound({}, Fresh', gone)
    BY <1>8, SoundPart, NothingIsSound DEF Kernel, HoldersOK
  <2>2. cache'.facts = cache.facts \/ cache'.facts = {}
    BY <1>1 DEF NoCache
  <2> QED
    BY <1>6, <1>7, <2>1, <2>2 DEF Kernel, HoldersOK
<1>11. QueueOK'
  <2>1. ASSUME NEW i \in DOMAIN queue'
        PROVE  Waits(queue[i])' /\ queue'[i].n = Turn' + i
    <3>1. Waits(queue[i + 1]) /\ queue[i + 1].n = Turn + (i + 1) /\ queue'[i] = queue[i + 1]
      BY <1>3 DEF Kernel, QueueOK
    <3>2. EditOK(queue[i + 1], Fresh')
      BY <1>8, <3>1, EditStays DEF Waits
    <3>3. i \in Nat
      BY <1>3
    <3> QED
      BY <1>4, <1>7, <3>1, <3>2, <3>3 DEF Waits
  <2> QED
    BY <1>1, <1>3, <1>4, <2>1 DEF QueueOK
<1>13. JobOK'
  <2>1. EditOK(j, Fresh')
    BY <1>5, <1>8, EditStays DEF Waits
  <2>2. EditOK(job, Fresh)'
    BY <1>4, <1>5, <1>6, <1>7, <2>1 DEF EditOK
  <2>3. job'.kind # "none" /\ Turn' >= 1
    BY <1>4, <1>6 DEF Kinds, Edits
  <2> QED
    BY <1>6, <2>2, <2>3, NoChannel DEF JobOK, Kinds, Edits
<1>14. IdsOK'
  <2>1. FirstId(job'.n) = Fresh
    BY <1>4, <1>6 DEF FirstId
  <2>2. \A id \in gone \union expired \union {f.id : f \in table} : id < Fresh
    BY DEF Kernel, StoreOK, Sound
  <2> QED
    BY <1>6, <1>7, <2>1, <2>2 DEF IdsOK
<1>15. TodoOK'
  BY <1>6, NoChannel DEF TodoOK
<1>16. LoadsOK'
  BY <1>4, <1>6, <1>7 DEF Kernel, LoadsOK
<1>17. EditMade'
  BY <1>6 DEF EditMade, Reading, Edits
<1>18. CacheOK'
  <2>1. cache.loaded => InStep(cache.facts)
    BY <1>1 DEF Kernel, CacheOK, Landed, NoJob, Edits
  <2>2. cache'.loaded => cache' = cache
    BY <1>1 DEF NoCache
  <2>3. InStep(Landed(cache.facts))' <=> InStep(cache'.facts)
    BY <1>6, <1>7 DEF Landed, InStep, currentFacts, Reading, Edits, Kinds
  <2> QED
    BY <1>6, <2>1, <2>2, <2>3 DEF CacheOK
<1>19. KeptOK'
  <2>1. job'.stage = "rules" => ~cache'.loaded
    BY <1>1, <1>6 DEF NoCache
  <2> QED
    BY <1>6, <2>1, NoChannel DEF KeptOK
<1> QED
  BY <1>9, <1>10, <1>11, <1>13, <1>14, <1>15, <1>16, <1>17, <1>18, <1>19 DEF Kernel

\* What is planned of what was heard is in order to be written.
LEMMA HeardTodo ==
  ASSUME Kernel, job.kind = "extract", job.phase = "ask",
         NEW w, PlanOK(job.known, now, FirstId(job.n), w), w.next <= Fresh,
         job'.todo = Writes(w), UNCHANGED <<now, table, expired, revived, gone, cache>>,
         Fresh' = Fresh
  PROVE  TodoOK' /\ IsChannel(job'.todo)
<1> DEFINE T == Writes(w)
<1>1. IsFiniteSet(w.upserts) /\ IsFiniteSet(w.supersede) /\ IsFiniteSet(w.expire)
  BY DEF PlanOK
<1>2. /\ IsChannel(T)
      /\ \A i \in DOMAIN T :
           \/ \E s \in w.supersede : T[i] = [op |-> "supersede", id |-> s.id, at |-> s.at]
           \/ \E id \in w.expire : T[i] = [op |-> "expire", id |-> id]
           \/ \E f \in w.upserts : T[i] = [op |-> "upsert", id |-> f.id, fact |-> f]
      /\ \A i, k \in DOMAIN T : T[i].op = "supersede" /\ k < i => T[k].op = "supersede"
  BY <1>1, PlanInOrder
<1>3. job'.todo = T
  OBVIOUS
<1> HIDE DEF T
<1>4. /\ \A i \in DOMAIN T : T[i].op \in {"supersede", "expire", "upsert"}
      /\ \A i \in DOMAIN T : T[i].op = "expire" => T[i].id \in w.expire
  BY <1>2
<1>5. \A i \in DOMAIN T : T[i].op = "supersede" =>
        \E s \in w.supersede : T[i].id = s.id /\ T[i].at = s.at
  BY <1>2
<1>6. \A i \in DOMAIN T : T[i].op = "upsert" =>
        \E f \in w.upserts : T[i].id = f.id /\ T[i].fact = f
  BY <1>2
<1>7. /\ job.known \subseteq table /\ Sound(job.known, Fresh, gone)
      /\ \A g \in job.known : g.id \in expired => g.id \in revived
      /\ currentFacts \subseteq cache.facts
  <2>1. InStep(cache.facts)
    BY DEF Kernel, CacheOK, Landed, Edits
  <2> QED
    BY <2>1 DEF Kernel, CacheOK, HoldersOK, InStep
<1>8. ASSUME NEW i \in DOMAIN T, T[i].op = "supersede"
      PROVE  /\ T[i].at \in Nat \ {None}
             /\ T[i].id \in expired => T[i].id \in revived
             /\ \A f \in table : f.id = T[i].id /\ f.id \notin expired => f \in cache.facts
             /\ \A k \in DOMAIN T : T[k].op = "supersede" /\ T[k].id = T[i].id => T[k].at = T[i].at
  <2>1. PICK s \in w.supersede : T[i].id = s.id /\ T[i].at = s.at
    BY <1>5, <1>8
  <2>2. PICK g \in job.known : isCurrent(g, now) /\ g.id = s.id
    BY DEF PlanOK
  <2>3. \A f \in table : f.id = g.id => f = g
    BY <1>7 DEF Kernel, StoreOK, Sound, AreFacts
  <2>4. g.id \notin expired => g \in cache.facts
    BY <1>7, <2>2 DEF currentFacts
  <2>5. \A k \in DOMAIN T : T[k].op = "supersede" /\ T[k].id = T[i].id => T[k].at = T[i].at
    BY <1>5, <2>1 DEF PlanOK
  <2>6. s.at \in Nat \ {None}
    BY DEF PlanOK
  <2> QED
    BY <1>7, <2>1, <2>2, <2>3, <2>4, <2>5, <2>6
<1>9. ASSUME NEW i \in DOMAIN T, T[i].op = "upsert"
      PROVE  /\ IsFact(T[i].fact) /\ T[i].id = T[i].fact.id
             /\ T[i].id < Fresh /\ T[i].id \notin gone
             /\ T[i].id \in expired => T[i].id \in revived
             /\ \A k \in DOMAIN T : T[k].op = "expire" => T[k].id # T[i].id
  <2>1. PICK u \in w.upserts : T[i].id = u.id /\ T[i].fact = u
    BY <1>6, <1>9
  <2>2. IsFact(u) /\ u.id < w.next /\ w.next \in Nat /\ u.id \notin w.expire
    BY DEF PlanOK
  <2>3. u.id \in Nat /\ u.id < Fresh
    <3>1. u.id \in Nat /\ Fresh \in Nat
      BY <2>2, Numbers DEF IsFact, Kernel
    <3> QED
      BY <2>2, <3>1
  <2>4. u.id \notin gone /\ (u.id \in expired => u.id \in revived)
    <3>1. CASE \E g \in job.known : g.id = u.id
      BY <1>7, <3>1 DEF Sound
    <3>2. CASE ~\E g \in job.known : g.id = u.id
      <4>1. FirstId(job.n) <= u.id
        BY <3>2 DEF PlanOK
      <4>2. FirstId(job.n) \in Nat
        BY Numbers DEF FirstId, Kernel, JobOK
      <4>3. \A id \in gone \union expired : id \in Nat /\ id < FirstId(job.n)
        <5>1. job.phase # "write"
          OBVIOUS
        <5> QED
          BY <5>1 DEF Kernel, IdsOK, StoreOK
      <4> QED
        BY <2>3, <4>1, <4>2, <4>3
    <3> QED
      BY <3>1, <3>2
  <2> QED
    BY <2>1, <2>2, <2>3, <2>4, <1>4
<1> QED
  BY <1>2, <1>3, <1>4, <1>8, <1>9 DEF TodoOK

\* A job that asked goes on to write what was planned.
LEMMA PlannedStep ==
  ASSUME Kernel, job.phase = "ask", NEW todo,
         job' = [job EXCEPT !.phase = "write", !.holds = TRUE, !.known = {}, !.todo = todo],
         TodoOK', IsChannel(todo), job.stage # "rules",
         UNCHANGED <<now, store, cache, queue, queued, loads, shown, note, gone>>
  PROVE  Kernel'
<1>1. /\ IsJob(job) /\ job.kind \in {"extract", "sleep"} /\ job.n = Turn
  BY DEF Kernel, JobOK, Edits, NoJob
<1>2. /\ IsJob(job') /\ job'.kind = job.kind /\ job'.n = job.n /\ job'.write = job.write
      /\ job'.phase = "write" /\ job'.stage = job.stage /\ job'.known = {}
      /\ job'.todo = todo /\ job'.holds = TRUE
  BY <1>1 DEF IsJob
<1>3. /\ table' = table /\ expired' = expired /\ revived' = revived /\ now' = now
      /\ gone' = gone /\ cache' = cache /\ Turn' = Turn /\ Fresh' = Fresh
  BY DEF store, Turn, Fresh
<1>4. StoreOK' /\ QueueOK'
  BY <1>1, <1>2, <1>3 DEF Kernel, StoreOK, QueueOK, Waits
<1>5. HoldersOK'
  BY <1>2, <1>3, NothingIsSound DEF Kernel, HoldersOK
<1>6. JobOK'
  BY <1>1, <1>2, <1>3 DEF Kernel, JobOK, EditOK, Edits
<1>7. IdsOK' /\ EditMade' /\ KeptOK'
  BY <1>1, <1>2 DEF IdsOK, EditMade, Edits, KeptOK
<1>8. LoadsOK'
  BY <1>2, <1>3 DEF Kernel, LoadsOK
<1>9. CacheOK'
  <2>1. cache.loaded /\ InStep(cache.facts)
    BY <1>1 DEF Kernel, CacheOK, Landed, Edits
  <2>2. InStep(Landed(cache.facts))'
    BY <1>1, <1>2, <1>3, <2>1 DEF InStep, Landed, Edits, currentFacts
  <2> QED
    BY <1>2, <1>3, <2>1, <2>2 DEF CacheOK
<1> QED
  BY <1>4, <1>5, <1>6, <1>7, <1>8, <1>9 DEF Kernel

\* What is planned of what was heard is a plan.
LEMMA HearsPlan ==
  ASSUME Kernel, Hears, job' # NoJob
  PROVE  \E w : /\ PlanOK(job.known, now, FirstId(job.n), w) /\ PlanSides(job.known, now, w)
               /\ w.next <= Fresh
               /\ job' = [job EXCEPT !.phase = "write", !.holds = TRUE, !.known = {},
                                    !.todo = Writes(w)]
<1>0. job.phase = "ask" /\ job.kind = "extract"
  BY DEF Hears
<1> DEFINE heard(saying, replaces) ==
             [i \in DOMAIN saying |->
                [predicate |-> saying[i].predicate, object |-> saying[i].object,
                 conf |-> saying[i].conf, from |-> saying[i].from, replaces |-> replaces[i]]]
           plan(saying, replaces, ended) ==
             planFactWrites(job.known, heard(saying, replaces), ended, now, FirstId(job.n))
<1>1. PICK saying \in Sayings, ended \in SUBSET {f.id : f \in job.known} :
        \E replaces \in [DOMAIN saying -> {None} \union {f.id : f \in job.known}] :
          LET said == [i \in DOMAIN saying |->
                         [predicate |-> saying[i].predicate, object |-> saying[i].object,
                          conf |-> saying[i].conf, from |-> saying[i].from,
                          replaces |-> replaces[i]]]
          IN /\ job' = [job EXCEPT !.phase = "write", !.holds = TRUE, !.known = {},
                          !.todo = Writes(planFactWrites(job.known, said, ended, now,
                                                         FirstId(job.n)))]
             /\ done' = done
  BY Zenon DEF Hears
<1>8. PICK replaces :
        job' = [job EXCEPT !.phase = "write", !.holds = TRUE, !.known = {},
                           !.todo = Writes(plan(saying, replaces, ended))]
  BY <1>1, Zenon
<1> DEFINE h == heard(saying, replaces)
           w == planFactWrites(job.known, h, ended, now, FirstId(job.n))
<1>2. saying \in Seq(Said) /\ Len(saying) <= 10
  BY MemoryAssumption
<1>3. /\ Len(h) = Len(saying) /\ Len(h) \in Nat
      /\ \A i \in 1 .. Len(h) : IsRaw(h[i])
  <2>2. DOMAIN saying = 1 .. Len(saying) /\ Len(saying) \in Nat
        /\ \A i \in 1 .. Len(saying) : saying[i].from \in Nat /\ saying[i].conf \in Nat
    <3>1. /\ DOMAIN saying = 1 .. Len(saying) /\ Len(saying) \in Nat
          /\ \A i \in 1 .. Len(saying) : saying[i] \in Said
      BY <1>2
    <3>2. \A s \in Said : s.from \in Nat /\ s.conf \in Nat
      BY DEF Said
    <3> QED
      BY <3>1, <3>2
  <2>3. \A i \in 1 .. Len(saying) : IsRaw(h[i])
    BY <2>2 DEF IsRaw
  <2>4. h \in Seq({h[i] : i \in DOMAIN saying}) /\ Len(h) = Len(saying)
    BY <2>2
  <2> QED
    BY <2>2, <2>3, <2>4
<1>4. KnownOK(job.known, FirstId(job.n))
  <2>1. FirstId(job.n) \in Nat \ {None}
    BY <1>0, Numbers DEF Kernel, JobOK, FirstId, None
  <2>2. \A g \in job.known : g.id < FirstId(job.n)
    BY <1>0 DEF Kernel, IdsOK
  <2> QED
    BY <2>1, <2>2 DEF KnownOK, Kernel, HoldersOK, Sound, AreFacts
<1> HIDE DEF h
<1>5. PlanOK(job.known, now, FirstId(job.n), w) /\ w.next <= FirstId(job.n) + Len(h)
      /\ PlanSides(job.known, now, w)
  <2>1. now \in Nat \ {None}
    BY DEF Kernel, StoreOK
  <2> QED
    BY <1>3, <1>4, <2>1, HeardInPlan
<1>6. job' = [job EXCEPT !.phase = "write", !.holds = TRUE, !.known = {}, !.todo = Writes(w)]
  BY <1>8 DEF h
<1> HIDE DEF w
<1>7. w.next <= Fresh
  <2>1. w.next \in Nat /\ job.n = Turn /\ Turn \in Nat /\ Fresh = 10 * (Turn + 1)
    BY <1>0, <1>5, Numbers DEF PlanOK, Kernel, JobOK
  <2> QED
    BY <1>2, <1>3, <1>5, <2>1 DEF FirstId
<1> QED
  BY <1>5, <1>6, <1>7

\* The extractor answers, or fails.
LEMMA HearsStep ==
  ASSUME Kernel, Hears
  PROVE  Kernel'
<1>1. /\ job.phase = "ask" /\ job.kind = "extract"
      /\ UNCHANGED <<now, store, cache, queue, queued, loads, shown, note, gone>>
  BY DEF Hears
<1>2. CASE job' = NoJob
  BY <1>1, <1>2, JobEnds DEF Edits
<1>3. CASE job' # NoJob
  <2>1. PICK w : /\ PlanOK(job.known, now, FirstId(job.n), w) /\ w.next <= Fresh
                 /\ job' = [job EXCEPT !.phase = "write", !.holds = TRUE, !.known = {},
                                      !.todo = Writes(w)]
    BY <1>3, HearsPlan
  <2>2. job'.todo = Writes(w) /\ job.stage # "rules"
    BY <1>1, <2>1 DEF Kernel, JobOK, IsJob
  <2>3. UNCHANGED <<now, table, expired, revived, gone, cache>> /\ Fresh' = Fresh
    BY <1>1 DEF store, Fresh, Turn
  <2>4. TodoOK' /\ IsChannel(Writes(w))
    BY <1>1, <2>1, <2>2, <2>3, HeardTodo
  <2> QED
    BY <1>1, <2>1, <2>2, <2>4, PlannedStep
<1> QED
  BY <1>2, <1>3

\* The model says which facts say the same.
LEMMA MergesStep ==
  ASSUME Kernel, Merges
  PROVE  Kernel'
<1>1. /\ job.phase = "ask" /\ job.kind = "sleep"
      /\ UNCHANGED <<now, store, cache, queue, queued, loads, shown, note, gone>>
  BY DEF Merges
<1>2. PICK groups \in parseMerges(job.known) :
        job' = [job EXCEPT !.phase = "write", !.holds = TRUE, !.known = {},
                           !.todo = Writes(applyMerges(job.known, groups))]
  BY DEF Merges
<1> DEFINE w == applyMerges(job.known, groups)
<1>3. /\ Sound(job.known, Fresh, gone) /\ job.known \subseteq table
      /\ \A f \in job.known : f.id \in expired => f.id \in revived
  BY <1>1 DEF Kernel, HoldersOK, CacheOK
<1>4. PlanFrom(job.known, w) /\ w.supersede = {}
  <2>1. AreFacts(job.known)
    BY <1>3 DEF Sound
  <2> QED
    BY <2>1, ModelGroups, MergesPlan
<1> HIDE DEF w
<1>5. job' = [job EXCEPT !.phase = "write", !.holds = TRUE, !.known = {}, !.todo = Writes(w)]
  BY <1>2 DEF w
<1>6. job'.todo = Writes(w)
  BY <1>5 DEF Kernel, JobOK, IsJob
<1>7. UNCHANGED <<table, expired, revived, gone>> /\ Fresh' = Fresh
  BY <1>1 DEF store, Fresh, Turn
<1>8. TodoOK' /\ IsChannel(Writes(w))
  BY <1>3, <1>4, <1>6, <1>7, TodoFrom
<1>9. job.stage # "rules"
  BY <1>1 DEF Kernel, JobOK
<1> QED
  BY <1>1, <1>5, <1>8, <1>9, PlannedStep

\* A write that may be made, of the facts of a store or of those that are known.
WriteOK(w) ==
  /\ w.op \in {"upsert", "supersede", "delete", "expire"}
  /\ w.op = "upsert" =>
       IsFact(w.fact) /\ w.id = w.fact.id /\ w.id < Fresh
  /\ w.op = "supersede" => w.at \in Nat \ {None}

\* A write leaves the store in order, and the facts of the cache.
LEMMA WriteIsSound ==
  ASSUME Kernel, NEW w, WriteOK(w), Takes(w), StoreDoes(w),
         NEW D, Sound(table, Fresh, D), w.op = "upsert" => w.id \notin D
  PROVE  /\ Sound(table', Fresh, D)
         /\ \A id \in expired' : id \in Nat /\ id < Fresh
<1>1. Sound(table', Fresh, D)
  <2>2. w.op = "upsert" => Sound(Put(table, w.fact), Fresh, D)
    BY PutSound DEF WriteOK
  <2>3. w.op = "supersede" => Sound(Ended(table, w), Fresh, D)
    BY EndedSound DEF WriteOK
  <2>4. Sound(Without(table, {w.id}), Fresh, D)
    BY WithoutSound
  <2> QED
    BY <2>2, <2>3, <2>4 DEF StoreDoes
<1>2. w.op = "expire" => w.id \in Nat /\ w.id < Fresh
  BY DEF Takes, ById, Kernel, StoreOK, Sound, AreFacts, IsFact
<1> QED
  BY <1>1, <1>2 DEF StoreDoes, Kernel, StoreOK

\* The facts of the cache may be held after a write of it too.
LEMMA CacheIsSound ==
  ASSUME NEW w, WriteOK(w), NEW F, NEW D, Sound(F, Fresh, D),
         w.op = "upsert" => w.id \notin D
  PROVE  Sound(CacheAfter(F, w), Fresh, D)
<1>1. w.op = "upsert" => Sound(Put(F, w.fact), Fresh, D)
  BY PutSound DEF WriteOK
<1>2. w.op = "supersede" => Sound(Ended(F, w), Fresh, D)
  BY EndedSound DEF WriteOK
<1>3. Sound(Without(F, {w.id}), Fresh, D)
  BY WithoutSound
<1> QED
  BY <1>1, <1>2, <1>3 DEF CacheAfter

\* Brought into the cache, it keeps what is known in step with the store.
LEMMA WriteInStep ==
  ASSUME Kernel, NEW w, WriteOK(w), StoreDoes(w), revived \subseteq revived',
         w.op = "upsert" \/ (w.op = "supersede" /\ w.at > now) =>
           (w.id \in expired => w.id \in revived'),
         NEW F, InStep(F),
         w.op = "supersede" =>
           \A f \in table : f.id = w.id /\ f.id \notin expired /\ w.at > now => f \in F,
         NEW G, G = CacheAfter(F, w)
  PROVE  /\ G \subseteq table'
         /\ {f \in table' : f.id \notin expired' /\ isCurrent(f, now)} \subseteq G
         /\ \A f \in G : f.id \in expired' => f.id \in revived'
<1>1. /\ F \subseteq table
      /\ \A f \in table : f.id \notin expired /\ isCurrent(f, now) => f \in F
      /\ \A f \in F : f.id \in expired => f.id \in revived'
  BY DEF InStep, currentFacts
<1>2. CASE w.op = "upsert"
  <2>1. /\ table' = Without(table, {w.id}) \union {w.fact} /\ expired' = expired
        /\ G = Without(F, {w.id}) \union {w.fact} /\ w.id = w.fact.id
    BY <1>2 DEF StoreDoes, CacheAfter, Put, WriteOK
  <2> QED
    BY <1>1, <1>2, <2>1 DEF Without
<1>3. CASE w.op = "supersede" /\ w.at > now
  <2> DEFINE e(f) == IF f.id = w.id THEN [f EXCEPT !.to = w.at] ELSE f
  <2>1. /\ table' = {e(f) : f \in table} /\ expired' = expired /\ G = {e(f) : f \in F}
    BY <1>3 DEF StoreDoes, CacheAfter, Ended
  <2>2. \A f \in table : e(f).id = f.id /\ (f.id # w.id => e(f) = f)
    BY EndedFact DEF Kernel, StoreOK, Sound, AreFacts, WriteOK, IsFact
  <2> HIDE DEF e
  <2>3. \A f \in table : f.id \notin expired /\ isCurrent(e(f), now) => f \in F
    BY <1>1, <1>3, <2>2
  <2> QED
    BY <1>1, <1>3, <2>1, <2>2, <2>3
<1>4. CASE w.op = "supersede" /\ ~(w.at > now)
  <2> DEFINE e(f) == IF f.id = w.id THEN [f EXCEPT !.to = w.at] ELSE f
  <2>1. /\ table' = {e(f) : f \in table} /\ expired' = expired /\ G = Without(F, {w.id})
    BY <1>4 DEF StoreDoes, CacheAfter, Ended
  <2>2. \A f \in table : e(f).id = f.id /\ (f.id # w.id => e(f) = f)
    BY EndedFact DEF Kernel, StoreOK, Sound, AreFacts, WriteOK, IsFact
  <2>3. \A f \in table : f.id = w.id => ~isCurrent(e(f), now)
    <3> TAKE f \in table
    <3>1. f.id = w.id => e(f).to = w.at
      BY EndedFact DEF Kernel, StoreOK, Sound, AreFacts, WriteOK
    <3> HIDE DEF e
    <3> QED
      BY <1>4, <3>1 DEF isCurrent, WriteOK
  <2> HIDE DEF e
  <2> QED
    BY <1>1, <1>4, <2>1, <2>2, <2>3 DEF Without
<1>5. CASE w.op = "delete"
  <2>1. /\ table' = Without(table, {w.id}) /\ expired' = expired \ {w.id}
        /\ G = Without(F, {w.id})
    BY <1>5 DEF StoreDoes, CacheAfter
  <2> QED
    BY <1>1, <2>1 DEF Without
<1>6. CASE w.op = "expire"
  <2>1. /\ table' = table /\ expired' = expired \union {w.id}
        /\ G = Without(F, {w.id})
    BY <1>6 DEF StoreDoes, CacheAfter
  <2> QED
    BY <1>1, <2>1 DEF Without
<1> QED
  BY <1>2, <1>3, <1>4, <1>5, <1>6 DEF WriteOK

\* An edit is written.
LEMMA EditWritesStep ==
  ASSUME Kernel, EditWrites
  PROVE  Kernel'
<1> DEFINE w == Made(job.write)
<1>1. /\ job.phase = "edit" /\ Takes(w) /\ StoreDoes(w)
      /\ revived' = revived \union {id \in expired : id = w.id /\ job.kind = "correct"}
      /\ gone' = gone \ {id \in gone : id = w.id /\ job.kind = "correct"}
      /\ job' = [job EXCEPT !.phase = "read", !.write = w]
      /\ UNCHANGED <<now, cache, queue, queued, loads, shown, note>>
  BY DEF EditWrites
<1>2. /\ IsJob(job) /\ job.kind \in Edits /\ job.n = Turn /\ Turn >= 1 /\ job.stage = "none"
      /\ job.known = {} /\ job.todo = <<>> /\ EditOK(job, Fresh)
  BY <1>1 DEF Kernel, JobOK, Edits, NoJob
<1>3. /\ Turn' = Turn /\ Fresh' = Fresh /\ Turn \in Nat /\ Fresh = 10 * (Turn + 1)
      /\ now \in Nat \ {None}
  BY <1>1, Numbers DEF Turn, Fresh, Kernel, StoreOK
<1>4. /\ job.kind = "delete" => w = job.write /\ w.op = "delete"
      /\ job.kind = "record" => w = job.write
      /\ job.kind \in {"correct", "record"} =>
           /\ w \in [op : {"upsert"}, id : {w.fact.id}, fact : {w.fact}]
           /\ IsFact(w.fact)
      /\ job.kind = "close" => w \in [op : {"supersede"}, id : {w.id}, at : {now}]
      /\ w.id = job.write.id
  <2>1. CASE job.kind = "delete"
    BY <1>2, <2>1 DEF Made, EditOK
  <2>2. CASE job.kind = "record"
    BY <1>2, <2>2 DEF Made, EditOK
  <2>3. CASE job.kind = "close"
    BY <1>2, <2>3 DEF Made, EditOK
  <2>4. CASE job.kind = "correct"
    <3> DEFINE f == job.write.fact
               g == [f EXCEPT !.recorded = now]
    <3>1. job.write \in [op : {"upsert"}, id : {f.id}, fact : {f}] /\ IsFact(f)
      BY <1>2, <2>4 DEF EditOK
    <3>2. IsFact(g) /\ g.id = f.id
      BY <1>3, <3>1 DEF IsFact
    <3>3. w = [job.write EXCEPT !.fact = g]
      BY <2>4, <3>1 DEF Made
    <3> HIDE DEF f, g, w
    <3> QED
      BY <2>4, <3>1, <3>2, <3>3
  <2> QED
    BY <1>2, <2>1, <2>2, <2>3, <2>4 DEF Edits
<1> HIDE DEF w
<1>5. /\ job.kind \in {"correct", "record"} => w.op = "upsert" /\ w.id = w.fact.id
      /\ job.kind = "close" => w.op = "supersede" /\ w.at = now
  BY <1>4
<1>6. job.kind \in {"correct", "record"} => w.id < Fresh
  <2>1. CASE job.kind = "correct"
    BY <1>2, <1>4, <2>1 DEF EditOK
  <2>2. CASE job.kind = "record"
    BY <1>2, <1>3, <1>4, <2>2 DEF EditOK, FirstId
  <2> QED
    BY <2>1, <2>2
<1>7. WriteOK(w)
  BY <1>2, <1>3, <1>4, <1>5, <1>6 DEF WriteOK, Edits
<1>8. /\ IsJob(job') /\ job'.kind = job.kind /\ job'.n = job.n /\ job'.write = w
      /\ job'.phase = "read" /\ job'.stage = job.stage /\ job'.known = {}
      /\ job'.todo = <<>>
  BY <1>1, <1>2 DEF IsJob
<1>9. /\ now' = now /\ cache' = cache /\ gone' \subseteq gone
      /\ job.kind = "correct" => w.id \notin gone'
  BY <1>1
<1>10. /\ job.kind = "correct" => (w.id \in expired => w.id \in revived')
       /\ job.kind = "record" => w.id \notin expired
  <2>1. CASE job.kind = "record"
    <3>1. \A id \in expired : id \in Nat /\ id < FirstId(job.n)
      BY <1>1, <2>1 DEF Kernel, IdsOK, StoreOK
    <3>2. w.id = FirstId(job.n)
      BY <1>2, <1>4, <2>1 DEF EditOK
    <3> QED
      BY <2>1, <3>1, <3>2
  <2>2. CASE job.kind = "correct"
    BY <1>1, <2>2
  <2> QED
    BY <2>1, <2>2
<1>11. Sound(table', Fresh, gone') /\ \A id \in expired' : id \in Nat /\ id < Fresh
  <2>1. Sound(table, Fresh, gone')
    BY <1>9 DEF Kernel, StoreOK, Sound
  <2>2. w.op = "upsert" => w.id \notin gone'
    <3>1. CASE job.kind = "record"
      <4>1. \A id \in gone : id \in Nat /\ id < FirstId(job.n)
        BY <1>1, <3>1 DEF Kernel, IdsOK, StoreOK
      <4>2. w.id = FirstId(job.n)
        BY <1>2, <1>4, <3>1 DEF EditOK
      <4> QED
        BY <1>9, <4>1, <4>2
    <3>2. CASE job.kind \in {"delete", "close"}
      BY <1>4, <1>5, <3>2
    <3> QED
      BY <1>2, <1>9, <3>1, <3>2 DEF Edits
  <2> QED
    BY <1>1, <1>7, <2>1, <2>2, WriteIsSound
<1>12. StoreOK'
  BY <1>3, <1>9, <1>11 DEF Kernel, StoreOK
<1>13. HoldersOK' /\ QueueOK'
  <2>1. /\ Sound(cache.facts, Fresh, gone') /\ Sound(shown, Fresh, {})
        /\ Sound(note.facts, Fresh, gone')
    BY <1>9 DEF Kernel, HoldersOK, Sound
  <2>2. Sound({}, Fresh, gone')
    BY NothingIsSound
  <2> QED
    BY <1>1, <1>3, <1>8, <1>9, <2>1, <2>2 DEF Kernel, HoldersOK, QueueOK, Waits
<1>15. JobOK'
  <2>1. EditOK(job, Fresh)'
    <3>1. CASE job.kind = "delete"
      BY <1>2, <1>3, <1>4, <1>8, <1>9, <3>1 DEF EditOK
    <3>2. CASE job.kind \in {"correct", "record"}
      BY <1>2, <1>3, <1>4, <1>6, <1>8, <1>9, <3>2 DEF EditOK
    <3>3. CASE job.kind = "close"
      BY <1>4, <1>5, <1>8, <3>3 DEF EditOK
    <3> QED
      BY <1>2, <3>1, <3>2, <3>3 DEF Edits
  <2> QED
    BY <1>2, <1>3, <1>8, <2>1, NoChannel DEF JobOK, Edits
<1>16. IdsOK' /\ TodoOK'
  BY <1>2, <1>8, NoChannel DEF IdsOK, TodoOK, Edits
<1>17. LoadsOK'
  <2>1. \A l \in loads : ~(l.who = "job" /\ l.n = job.n)
    BY <1>1 DEF Kernel, LoadsOK
  <2> QED
    BY <1>1, <1>3, <1>8, <2>1 DEF Kernel, LoadsOK
<1>18. EditMade'
  <2>1. CASE job.kind = "delete"
    <3>1. table' = Without(table, {w.id})
      BY <1>1, <1>4, <2>1 DEF StoreDoes
    <3> QED
      BY <1>8, <2>1, <3>1 DEF EditMade, Without
  <2>2. CASE job.kind \in {"correct", "record"}
    <3>1. w.fact \in table' /\ expired' = expired /\ (w.id \in expired => w.id \in revived')
      BY <1>1, <1>5, <1>10, <2>2 DEF StoreDoes, Put
    <3> QED
      BY <1>8, <2>2, <3>1 DEF EditMade
  <2>3. CASE job.kind = "close"
    <3>1. \A f \in table' : f.id = w.id => f.to = w.at
      <4> TAKE f \in table'
      <4>1. table' = Ended(table, w)
        BY <1>1, <1>5, <2>3 DEF StoreDoes
      <4>2. PICK e \in table : f = IF e.id = w.id THEN [e EXCEPT !.to = w.at] ELSE e
        BY <4>1 DEF Ended
      <4>3. IsFact(e)
        BY DEF Kernel, StoreOK, Sound, AreFacts
      <4> QED
        BY <4>2, <4>3 DEF IsFact
    <3> QED
      BY <1>3, <1>5, <1>8, <1>9, <2>3, <3>1 DEF EditMade, None
  <2> QED
    BY <1>2, <2>1, <2>2, <2>3 DEF Edits
<1>19. CacheOK'
  <2> SUFFICES ASSUME cache.loaded PROVE InStep(Landed(cache.facts))'
    BY <1>8, <1>9 DEF CacheOK
  <2>1. InStep(cache.facts)
    BY <1>1 DEF Kernel, CacheOK, Landed, Reading
  <2> DEFINE G == CacheAfter(cache.facts, w)
  <2>2. /\ w.op = "upsert" => (w.id \in expired => w.id \in revived')
        /\ w.op = "supersede" => ~(w.at > now)
    BY <1>2, <1>3, <1>4, <1>5, <1>10 DEF Edits
  <2>3. /\ G \subseteq table'
        /\ {f \in table' : f.id \notin expired' /\ isCurrent(f, now)} \subseteq G
        /\ \A f \in G : f.id \in expired' => f.id \in revived'
    BY <1>1, <1>7, <2>1, <2>2, WriteInStep
  <2>4. Landed(cache.facts)' = G
    BY <1>2, <1>8, <1>9 DEF Landed, Reading, CacheAfter
  <2> HIDE DEF G
  <2> QED
    BY <1>9, <2>3, <2>4 DEF InStep, currentFacts
<1>20. KeptOK'
  BY <1>2, <1>8 DEF KeptOK
<1> QED
  BY <1>12, <1>13, <1>15, <1>16, <1>17, <1>18, <1>19, <1>20 DEF Kernel

\* The first write of a plan that is left.
LEMMA HeadOfTodo ==
  ASSUME Kernel, job.phase = "write", job.todo # <<>>,
         NEW w, w = Head(job.todo)
  PROVE  /\ WriteOK(w) /\ w.op # "delete" /\ cache.loaded /\ job.holds
         /\ InStep(cache.facts)
         /\ w.op \in {"upsert", "supersede"} => (w.id \in expired => w.id \in revived)
         /\ w.op = "upsert" => w.id \notin gone
         /\ w.op = "supersede" =>
              \A f \in table : f.id = w.id /\ f.id \notin expired /\ w.at > now => f \in cache.facts
         /\ w = job.todo[1] /\ 1 \in DOMAIN job.todo
         /\ job.kind \in {"extract", "sleep"} /\ job.known = {}
<1>1. /\ IsChannel(job.todo) /\ job.kind \in {"extract", "sleep"} /\ job.known = {}
      /\ cache.loaded /\ job.holds
  BY DEF Kernel, JobOK, CacheOK, Edits, NoJob
<1>2. w = job.todo[1] /\ 1 \in DOMAIN job.todo
  BY <1>1, ChannelTail
<1>3. InStep(cache.facts)
  BY <1>1 DEF Kernel, CacheOK, Landed, Edits
<1> QED
  BY <1>1, <1>2, <1>3 DEF Kernel, TodoOK, WriteOK

\* What is left of the plan after it.
LEMMA TodoShrinks ==
  ASSUME Kernel, job.phase = "write", job.todo # <<>>, NEW w, w = Head(job.todo),
         StoreDoes(w), revived' = revived, now' = now, gone' = gone, Fresh' = Fresh,
         cache'.facts = CacheAfter(cache.facts, w), job'.todo = Tail(job.todo)
  PROVE  TodoOK'
<1> DEFINE T == job.todo
           U == Tail(job.todo)
<1>1. /\ DOMAIN T = 1..Len(T) /\ DOMAIN U = 1..(Len(T) - 1) /\ Len(T) \in Nat
      /\ \A i \in DOMAIN U : U[i] = T[i + 1]
      /\ w = T[1] /\ 1 \in DOMAIN T
  BY ChannelTail DEF Kernel, JobOK
<1>2. \A i \in DOMAIN U : i \in Nat /\ i + 1 \in DOMAIN T /\ 1 < i + 1
  BY <1>1
<1>3. job'.todo = U
  OBVIOUS
<1> HIDE DEF U
<1>4. ASSUME NEW i \in DOMAIN U, U[i].op = "supersede"
      PROVE  /\ U[i].at \in Nat \ {None}
             /\ U[i].id \in expired' => U[i].id \in revived'
             /\ \A f \in table' :
                  f.id = U[i].id /\ f.id \notin expired' /\ U[i].at > now' => f \in cache'.facts
             /\ \A k \in DOMAIN U : k < i => U[k].op = "supersede"
             /\ \A k \in DOMAIN U :
                  U[k].op = "supersede" /\ U[k].id = U[i].id => U[k].at = U[i].at
  <2> DEFINE v == T[i + 1]
  <2>1. /\ v = U[i] /\ v.op = "supersede" /\ i + 1 \in DOMAIN T
    BY <1>1, <1>2, <1>4
  <2>2. /\ v.at \in Nat \ {None}
        /\ v.id \in expired => v.id \in revived
        /\ \A f \in table : f.id = v.id /\ f.id \notin expired /\ v.at > now => f \in cache.facts
        /\ \A k \in DOMAIN T : k < i + 1 => T[k].op = "supersede"
        /\ \A k \in DOMAIN T : T[k].op = "supersede" /\ T[k].id = v.id => T[k].at = v.at
    BY <2>1 DEF Kernel, TodoOK
  <2>3. w.op = "supersede" /\ (w.id = v.id => w.at = v.at)
    BY <1>1, <1>2, <2>2
  <2>4. /\ \A f \in table : f.id = w.id /\ f.id \notin expired /\ w.at > now => f \in cache.facts
        /\ w.at \in Nat
    BY <2>3, HeadOfTodo DEF WriteOK
  <2>5. /\ \A k \in DOMAIN U : k < i => U[k].op = "supersede"
        /\ \A k \in DOMAIN U : U[k].op = "supersede" /\ U[k].id = v.id => U[k].at = v.at
    <3>1. \A k \in DOMAIN U : k < i => k + 1 < i + 1
      BY <1>2
    <3> QED
      BY <1>1, <1>2, <2>2, <3>1
  <2>6. table' = Ended(table, w) /\ expired' = expired
    BY <2>3 DEF StoreDoes
  <2> HIDE DEF v
  <2>7. ASSUME NEW f \in table', f.id = v.id, f.id \notin expired, v.at > now
        PROVE  f \in cache'.facts
    <3>1. PICK g \in table : f = IF g.id = w.id THEN [g EXCEPT !.to = w.at] ELSE g
      BY <2>6 DEF Ended
    <3>2. IsFact(g)
      BY DEF Kernel, StoreOK, Sound, AreFacts
    <3>3. g.id = f.id
      BY <2>4, <3>1, <3>2, EndedFact
    <3>4. g \in cache.facts
      BY <2>2, <2>7, <3>3
    <3>5. CASE w.at > now
      <4>1. cache'.facts = Ended(cache.facts, w)
        BY <2>3, <3>5 DEF CacheAfter
      <4> QED
        BY <3>1, <3>4, <4>1 DEF Ended
    <3>6. CASE ~(w.at > now)
      <4>1. cache'.facts = Without(cache.facts, {w.id})
        BY <2>3, <3>6 DEF CacheAfter
      <4>2. g.id # w.id /\ f = g
        BY <2>3, <2>7, <3>1, <3>3, <3>6
      <4> QED
        BY <3>4, <4>1, <4>2 DEF Without
    <3> QED
      BY <3>5, <3>6
  <2> QED
    BY <2>1, <2>2, <2>5, <2>6, <2>7
<1>5. ASSUME NEW i \in DOMAIN U, U[i].op = "upsert"
      PROVE  /\ IsFact(U[i].fact) /\ U[i].id = U[i].fact.id
             /\ U[i].id < Fresh /\ U[i].id \notin gone
             /\ U[i].id \in expired' => U[i].id \in revived'
             /\ \A k \in DOMAIN U : U[k].op = "expire" => U[k].id # U[i].id
  <2> DEFINE v == T[i + 1]
  <2>1. /\ v = U[i] /\ v.op = "upsert" /\ i + 1 \in DOMAIN T
    BY <1>1, <1>2, <1>5
  <2>2. /\ IsFact(v.fact) /\ v.id = v.fact.id
        /\ v.id < Fresh /\ v.id \notin gone
        /\ v.id \in expired => v.id \in revived
        /\ \A k \in DOMAIN T : T[k].op = "expire" => T[k].id # v.id
    BY <2>1 DEF Kernel, TodoOK
  <2>3. w.op = "expire" => w.id # v.id
    BY <1>1, <2>2
  <2>4. \A k \in DOMAIN U : U[k].op = "expire" => U[k].id # v.id
    BY <1>1, <1>2, <2>2
  <2> HIDE DEF v
  <2>5. v.id \in expired' => v.id \in expired
    BY <2>3 DEF StoreDoes
  <2> QED
    BY <2>1, <2>2, <2>4, <2>5
<1>6. \A i \in DOMAIN U : U[i].op \in {"supersede", "expire", "upsert"}
  BY <1>1, <1>2 DEF Kernel, TodoOK
<1>7. /\ \A i \in DOMAIN U : U[i].op = "supersede" =>
            /\ U[i].at \in Nat \ {None}
            /\ U[i].id \in expired' => U[i].id \in revived'
            /\ \A f \in table' :
                 f.id = U[i].id /\ f.id \notin expired' /\ U[i].at > now' => f \in cache'.facts
            /\ \A k \in DOMAIN U : k < i => U[k].op = "supersede"
            /\ \A k \in DOMAIN U :
                 U[k].op = "supersede" /\ U[k].id = U[i].id => U[k].at = U[i].at
      /\ \A i \in DOMAIN U : U[i].op = "upsert" =>
            /\ IsFact(U[i].fact) /\ U[i].id = U[i].fact.id
            /\ U[i].id < Fresh' /\ U[i].id \notin gone'
            /\ U[i].id \in expired' => U[i].id \in revived'
            /\ \A k \in DOMAIN U : U[k].op = "expire" => U[k].id # U[i].id
  BY <1>4, <1>5
<1> QED
  BY ONLY <1>3, <1>6, <1>7 DEF TodoOK

\* A write of the merging by rule: what every fact said is still said, and what
\* is left of the plan keeps what it closes.
LEMMA RuleWrite ==
  ASSUME Kernel, job.stage = "rules", job.phase = "write", job.todo # <<>>,
         NEW w, w = Head(job.todo), StoreDoes(w)
  PROVE  /\ \A f \in Believed : \E g \in Believed' : Key(f) = Key(g)
         /\ \A i \in DOMAIN Tail(job.todo) : LET v == Tail(job.todo)[i] IN
              /\ v.op # "supersede"
              /\ \E f \in Believed' :
                   /\ \A k \in DOMAIN Tail(job.todo) :
                        Tail(job.todo)[k].op = "expire" => Tail(job.todo)[k].id # f.id
                   /\ v.op = "upsert" => f.id = v.id /\ Key(v.fact) = Key(f)
                   /\ v.op = "expire" => \A g \in Believed' : g.id = v.id => Key(g) = Key(f)
<1> DEFINE T == job.todo
           U == Tail(job.todo)
<1>1. /\ DOMAIN T = 1..Len(T) /\ DOMAIN U = 1..(Len(T) - 1) /\ Len(T) \in Nat
      /\ \A i \in DOMAIN U : U[i] = T[i + 1]
      /\ w = T[1] /\ 1 \in DOMAIN T
  BY ChannelTail DEF Kernel, JobOK
<1>2. \A i \in DOMAIN U : i \in Nat /\ i + 1 \in DOMAIN T
  BY <1>1
<1> HIDE DEF U
<1>3. ASSUME NEW i \in DOMAIN T
      PROVE  /\ T[i].op \in {"upsert", "expire"}
             /\ T[i].op = "upsert" =>
                  /\ T[i].id = T[i].fact.id
                  /\ \A k \in DOMAIN T : T[k].op = "expire" => T[k].id # T[i].id
             /\ \E f \in Believed :
                  /\ \A k \in DOMAIN T : T[k].op = "expire" => T[k].id # f.id
                  /\ T[i].op = "upsert" => f.id = T[i].id /\ Key(T[i].fact) = Key(f)
                  /\ T[i].op = "expire" => \A g \in Believed : g.id = T[i].id => Key(g) = Key(f)
  BY DEF Kernel, TodoOK, KeptOK
<1>4. \A f, g \in Believed : f.id = g.id => f = g
  BY DEF Believed, Kernel, StoreOK, Sound, AreFacts
<1>5. \A i \in DOMAIN U : U[i].op = "expire" =>
        \E k \in DOMAIN T : T[k].op = "expire" /\ T[k].id = U[i].id
  BY <1>1, <1>2
\* A fact that is not closed has a successor of its id and key.
<1>6. ASSUME NEW f \in Believed, \A k \in DOMAIN T : T[k].op = "expire" => T[k].id # f.id
      PROVE  \E g \in Believed' : g.id = f.id /\ Key(g) = Key(f)
  <2>1. CASE w.op = "expire"
    <3>1. w.id # f.id
      BY <1>1, <1>6, <2>1
    <3>2. f \in Believed'
      BY <2>1, <3>1 DEF StoreDoes, Believed
    <3> QED
      BY <3>2
  <2>2. CASE w.op = "upsert"
    <3>1. PICK e \in Believed : e.id = w.id /\ Key(w.fact) = Key(e) /\ w.fact.id = w.id
      BY <1>1, <1>3, <2>2
    <3>2. w.fact \in Believed'
      BY <2>2, <3>1 DEF StoreDoes, Believed, Put
    <3>3. CASE f.id = w.id
      BY <1>4, <3>1, <3>2, <3>3
    <3>4. CASE f.id # w.id
      <4>1. f \in Believed'
        BY <2>2, <3>1, <3>4 DEF StoreDoes, Believed, Put, Without
      <4> QED
        BY <4>1
    <3> QED
      BY <3>3, <3>4
  <2> QED
    BY <1>1, <1>3, <2>1, <2>2
\* And what is believed afterwards was so before, or is what was written.
<1>7. ASSUME NEW g \in Believed'
      PROVE  \/ g \in Believed
             \/ w.op = "upsert" /\ g = w.fact /\ g.id = w.id
  <2>1. CASE w.op = "expire"
    BY <2>1 DEF StoreDoes, Believed
  <2>2. CASE w.op = "upsert"
    BY <1>1, <1>3, <2>2 DEF StoreDoes, Believed, Put, Without
  <2> QED
    BY <1>1, <1>3, <2>1, <2>2
<1>8. ASSUME NEW f \in Believed
      PROVE  \E g \in Believed' : Key(f) = Key(g)
  <2>1. CASE w.op = "expire" /\ f.id = w.id
    <3>1. PICK e \in Believed :
            /\ \A k \in DOMAIN T : T[k].op = "expire" => T[k].id # e.id
            /\ \A g \in Believed : g.id = w.id => Key(g) = Key(e)
      BY <1>1, <1>3, <2>1
    <3>2. Key(f) = Key(e)
      BY <2>1, <3>1
    <3> QED
      BY <1>6, <3>1, <3>2
  <2>2. CASE w.op = "expire" /\ f.id # w.id
    <3>1. f \in Believed'
      BY <2>2 DEF StoreDoes, Believed
    <3> QED
      BY <3>1
  <2>3. CASE w.op = "upsert"
    <3>1. PICK e \in Believed : e.id = w.id /\ Key(w.fact) = Key(e) /\ w.fact.id = w.id
      BY <1>1, <1>3, <2>3
    <3>2. CASE f.id = w.id
      <4>1. w.fact \in Believed'
        BY <2>3, <3>1 DEF StoreDoes, Believed, Put
      <4> QED
        BY <1>4, <3>1, <3>2, <4>1
    <3>3. CASE f.id # w.id
      <4>1. f \in Believed'
        BY <2>3, <3>1, <3>3 DEF StoreDoes, Believed, Put, Without
      <4> QED
        BY <4>1
    <3> QED
      BY <3>2, <3>3
  <2> QED
    BY <1>1, <1>3, <2>1, <2>2, <2>3
<1>9. ASSUME NEW i \in DOMAIN U
      PROVE  /\ U[i].op # "supersede"
             /\ \E f \in Believed' :
                  /\ \A k \in DOMAIN U : U[k].op = "expire" => U[k].id # f.id
                  /\ U[i].op = "upsert" => f.id = U[i].id /\ Key(U[i].fact) = Key(f)
                  /\ U[i].op = "expire" => \A g \in Believed' : g.id = U[i].id => Key(g) = Key(f)
  <2> DEFINE v == T[i + 1]
  <2>1. v = U[i] /\ i + 1 \in DOMAIN T
    BY <1>1, <1>2
  <2>2. PICK f \in Believed :
          /\ \A k \in DOMAIN T : T[k].op = "expire" => T[k].id # f.id
          /\ v.op = "upsert" => f.id = v.id /\ Key(v.fact) = Key(f)
          /\ v.op = "expire" => \A g \in Believed : g.id = v.id => Key(g) = Key(f)
    BY <1>3, <2>1
  <2>3. v.op # "supersede"
    BY <1>3, <2>1
  <2>4. w.op = "upsert" /\ v.op = "expire" => w.id # v.id
    BY <1>1, <1>3, <2>1
  <2> HIDE DEF v
  <2>5. PICK g \in Believed' : g.id = f.id /\ Key(g) = Key(f)
    BY <1>6, <2>2
  <2>6. v.op = "expire" => \A h \in Believed' : h.id = v.id => Key(h) = Key(g)
    BY <1>7, <2>2, <2>4, <2>5
  <2>7. \A k \in DOMAIN U : U[k].op = "expire" => U[k].id # g.id
    BY <1>5, <2>2, <2>5
  <2>8. v.op = "upsert" => g.id = v.id /\ Key(v.fact) = Key(g)
    BY <2>2, <2>5
  <2> QED
    BY <2>1, <2>3, <2>5, <2>6, <2>7, <2>8
<1> QED
  BY <1>8, <1>9 DEF U

\* A write of a plan is made.
LEMMA AppliesStep ==
  ASSUME Kernel, Applies
  PROVE  Kernel'
<1> DEFINE w == Head(job.todo)
           F == CacheAfter(cache.facts, w)
<1>1. /\ job.phase = "write" /\ job.todo # <<>> /\ Takes(w) /\ StoreDoes(w)
      /\ cache' = IF job.holds THEN Cached(F) ELSE cache
      /\ job' = [job EXCEPT !.todo = Tail(job.todo)]
      /\ UNCHANGED <<now, revived, queue, queued, loads, shown, note, gone>>
  BY DEF Applies
<1> HIDE DEF w
<1>2. /\ WriteOK(w) /\ w.op # "delete" /\ cache.loaded /\ job.holds /\ InStep(cache.facts)
      /\ w.op \in {"upsert", "supersede"} => (w.id \in expired => w.id \in revived)
      /\ w.op = "upsert" => w.id \notin gone
      /\ w.op = "supersede" =>
           \A f \in table : f.id = w.id /\ f.id \notin expired /\ w.at > now => f \in cache.facts
      /\ job.kind \in {"extract", "sleep"} /\ job.known = {}
  BY <1>1, HeadOfTodo DEF w
<1>3. cache'.facts = F /\ cache'.loaded = TRUE
  BY <1>1, <1>2 DEF Cached
<1>4. IsJob(job) /\ job.n = Turn /\ IsChannel(job.todo)
  BY <1>2 DEF Kernel, JobOK
<1>5. /\ IsJob(job') /\ job'.kind = job.kind /\ job'.n = job.n /\ job'.write = job.write
      /\ job'.phase = "write" /\ job'.stage = job.stage /\ job'.known = {}
      /\ job'.todo = Tail(job.todo) /\ job'.holds = job.holds
  BY <1>1, <1>2, <1>4 DEF IsJob
<1>6. /\ Turn' = Turn /\ Fresh' = Fresh /\ now' = now /\ gone' = gone /\ revived' = revived
  BY <1>1 DEF Turn, Fresh
<1>7. Sound(table', Fresh, gone) /\ \A id \in expired' : id \in Nat /\ id < Fresh
  BY <1>1, <1>2, WriteIsSound DEF Kernel, StoreOK
<1>8. StoreOK'
  BY <1>6, <1>7 DEF Kernel, StoreOK
<1>9. HoldersOK'
  <2>1. Sound(F, Fresh, gone)
    BY <1>2, CacheIsSound DEF Kernel, HoldersOK
  <2> HIDE DEF F
  <2> QED
    BY <1>1, <1>3, <1>5, <1>6, <2>1, NothingIsSound DEF Kernel, HoldersOK
<1>10. QueueOK'
  BY <1>1, <1>5, <1>6 DEF Kernel, QueueOK, Waits
<1>11. JobOK'
  <2>1. IsChannel(job'.todo)
    BY <1>1, <1>4, <1>5, ChannelTail
  <2> QED
    BY <1>2, <1>5, <1>6, <2>1 DEF Kernel, JobOK, EditOK
<1>12. IdsOK' /\ EditMade'
  BY <1>2, <1>5 DEF IdsOK, EditMade, Edits
<1>13. TodoOK'
  BY <1>1, <1>3, <1>5, <1>6, TodoShrinks DEF w
<1>14. LoadsOK'
  BY <1>1, <1>5, <1>6 DEF Kernel, LoadsOK
<1>15. CacheOK'
  <2>1. /\ F \subseteq table'
        /\ {f \in table' : f.id \notin expired' /\ isCurrent(f, now)} \subseteq F
        /\ \A f \in F : f.id \in expired' => f.id \in revived'
    BY <1>1, <1>2, WriteInStep
  <2>2. Landed(cache.facts)' = F
    BY <1>2, <1>3, <1>5 DEF Landed, Edits
  <2> HIDE DEF F
  <2>3. InStep(Landed(cache.facts))'
    BY <1>6, <2>1, <2>2 DEF InStep, currentFacts
  <2> QED
    BY <1>2, <1>3, <1>5, <2>3 DEF CacheOK
<1>16. KeptOK'
  <2>1. CASE job.stage = "rules"
    <3>1. \A i \in DOMAIN job'.todo : LET v == job'.todo[i] IN
              /\ v.op # "supersede"
              /\ \E f \in Believed' :
                   /\ \A k \in DOMAIN job'.todo :
                        job'.todo[k].op = "expire" => job'.todo[k].id # f.id
                   /\ v.op = "upsert" => f.id = v.id /\ Key(v.fact) = Key(f)
                   /\ v.op = "expire" => \A g \in Believed' : g.id = v.id => Key(g) = Key(f)
      BY <1>1, <1>5, <2>1, RuleWrite DEF w
    <3> QED
      BY <1>5, <3>1 DEF KeptOK, Reading
  <2>2. CASE job.stage # "rules"
    BY <1>5, <2>2 DEF KeptOK
  <2> QED
    BY <2>1, <2>2
<1> QED
  BY <1>8, <1>9, <1>10, <1>11, <1>12, <1>13, <1>14, <1>15, <1>16 DEF Kernel

\* A write is refused, and the job is over.
LEMMA RefusedStep ==
  ASSUME Kernel, Refused
  PROVE  Kernel'
<1>1. job.phase \in {"edit", "write"} /\ job' = NoJob
      /\ UNCHANGED <<now, store, cache, queue, queued, loads, shown, note, gone>>
  BY DEF Refused
<1> QED
  BY <1>1, JobEnds

\* A write fails, and nothing is written.
LEMMA StoreFailsStep ==
  ASSUME Kernel, StoreFails, ~adrift'
  PROVE  Kernel'
<1>1. job.phase \in {"edit", "write"} /\ job' = NoJob
      /\ UNCHANGED <<now, store, cache, queue, queued, loads, shown, note, gone>>
  BY DEF StoreFails, store
<1> QED
  BY <1>1, JobEnds

\* A plan is written, and the job goes on or is over.
LEMMA PlanWrittenStep ==
  ASSUME Kernel, PlanWritten
  PROVE  Kernel'
<1>1. /\ job.phase = "write" /\ job.todo = <<>>
      /\ UNCHANGED <<now, store, queue, queued, loads, shown, note, gone>>
  BY DEF PlanWritten
<1>2. /\ IsJob(job) /\ job.kind \in {"extract", "sleep"} /\ job.n = Turn /\ job.known = {}
      /\ cache.loaded /\ InStep(cache.facts)
      /\ job.kind = "extract" => job.stage = "none"
  <2>1. job.kind \in {"extract", "sleep"}
    BY <1>1 DEF Kernel, JobOK, Edits, NoJob
  <2> QED
    BY <1>1, <2>1 DEF Kernel, JobOK, CacheOK, Landed, Edits
<1>3. CASE job' = NoJob /\ cache' = cache
  BY <1>1, <1>2, <1>3, JobEnds DEF Edits
<1> DEFINE M == Mergeable(cache.facts)
<1>4. CASE /\ job' = [job EXCEPT !.phase = "ask", !.stage = "model", !.known = M, !.holds = FALSE]
           /\ cache' = cache /\ job.kind = "sleep"
  <2>1. M \subseteq cache.facts
    BY DEF Mergeable
  <2> HIDE DEF M
  <2>2. /\ IsJob(job') /\ job'.kind = job.kind /\ job'.n = job.n /\ job'.write = job.write
        /\ job'.phase = "ask" /\ job'.stage = "model" /\ job'.known = M
        /\ job'.todo = <<>> /\ job'.holds = FALSE
    BY <1>1, <1>2, <1>4 DEF IsJob
  <2>3. /\ table' = table /\ expired' = expired /\ revived' = revived /\ now' = now
        /\ gone' = gone /\ cache' = cache /\ Turn' = Turn /\ Fresh' = Fresh
    BY <1>1, <1>4 DEF store, Turn, Fresh
  <2>4. StoreOK' /\ QueueOK'
    BY <1>1, <2>2, <2>3 DEF Kernel, StoreOK, QueueOK, Waits
  <2>5. HoldersOK'
    <3>1. Fresh \in Int
      BY Numbers DEF Kernel
    <3>2. Sound(M, Fresh, gone)
      BY <2>1, <3>1, SoundPart DEF Kernel, HoldersOK
    <3> QED
      BY <1>1, <2>2, <2>3, <3>2 DEF Kernel, HoldersOK
  <2>6. JobOK'
    BY <1>1, <1>2, <1>4, <2>2, <2>3, NoChannel DEF Kernel, JobOK, EditOK, Edits
  <2>7. IdsOK' /\ EditMade' /\ TodoOK' /\ KeptOK'
    BY <1>4, <2>2, NoChannel DEF IdsOK, EditMade, TodoOK, KeptOK, Edits
  <2>8. LoadsOK'
    BY <1>1, <2>2, <2>3 DEF Kernel, LoadsOK
  <2>9. CacheOK'
    <3>1. InStep(Landed(cache.facts))'
      BY <1>2, <1>4, <2>2, <2>3 DEF InStep, Landed, Edits, currentFacts
    <3>2. M \subseteq table /\ \A f \in M : f.id \in expired => f.id \in revived
      BY <1>2, <2>1 DEF InStep
    <3> QED
      BY <1>2, <2>2, <2>3, <3>1, <3>2 DEF CacheOK
  <2> QED
    BY <2>4, <2>5, <2>6, <2>7, <2>8, <2>9 DEF Kernel
<1>5. CASE /\ job' = [job EXCEPT !.phase = "read", !.stage = "tidy", !.holds = FALSE]
           /\ cache' = NoCache /\ job.kind = "sleep"
  <2>2. /\ IsJob(job') /\ job'.kind = job.kind /\ job'.n = job.n /\ job'.write = job.write
        /\ job'.phase = "read" /\ job'.stage = "tidy" /\ job'.known = {}
        /\ job'.todo = <<>> /\ job'.holds = FALSE
    BY <1>1, <1>2, <1>5 DEF IsJob
  <2>3. /\ table' = table /\ expired' = expired /\ revived' = revived /\ now' = now
        /\ gone' = gone /\ Turn' = Turn /\ Fresh' = Fresh
        /\ cache'.loaded = FALSE /\ cache'.facts = {}
    BY <1>1, <1>5 DEF store, Turn, Fresh, NoCache
  <2>4. StoreOK' /\ QueueOK'
    BY <1>1, <2>2, <2>3 DEF Kernel, StoreOK, QueueOK, Waits
  <2>5. HoldersOK'
    BY <1>1, <2>2, <2>3, NothingIsSound DEF Kernel, HoldersOK
  <2>6. JobOK'
    BY <1>1, <1>2, <1>5, <2>2, <2>3, NoChannel DEF Kernel, JobOK, EditOK, Edits
  <2>7. IdsOK' /\ EditMade' /\ TodoOK' /\ KeptOK' /\ CacheOK'
    BY <1>5, <2>2, <2>3, NoChannel DEF IdsOK, EditMade, TodoOK, KeptOK, CacheOK, Edits
  <2>8. LoadsOK'
    BY <1>1, <2>2, <2>3 DEF Kernel, LoadsOK
  <2> QED
    BY <2>4, <2>5, <2>6, <2>7, <2>8 DEF Kernel
<1>6. CASE job.kind = "extract"
  <2>1. job' = NoJob /\ cache' = cache
    BY <1>2, <1>6 DEF PlanWritten
  <2> QED
    BY <1>3, <2>1
<1>7. CASE job.kind = "sleep"
  BY <1>3, <1>4, <1>5, <1>7 DEF PlanWritten, SleepOver
<1> QED
  BY <1>2, <1>6, <1>7

-----------------------------------------------------------------------------
(* Time, and the page.                                                       *)

\* She is woken.
LEMMA WakesStep ==
  ASSUME Kernel, Wakes
  PROVE  Kernel'
<1>1. UNCHANGED <<now, store, cache, queue, queued, job, loads, shown, note, gone>>
  BY DEF Wakes
<1>2. QueueOK' /\ Turn' = Turn
  BY <1>1 DEF Kernel, QueueOK, Turn, Waits, Fresh
<1> QED
  BY <1>1, <1>2, StillKernel DEF Kernel, HoldersOK

\* As time passes, less is current, and nothing else changes.
LEMMA AdvanceStep ==
  ASSUME Kernel, Advance
  PROVE  Kernel'
<1>1. /\ now' = now + 1 /\ now \in Nat \ {None}
      /\ UNCHANGED <<store, cache, queue, queued, job, loads, shown, note, gone>>
  BY DEF Advance, Kernel, StoreOK
<1>2. /\ table' = table /\ expired' = expired /\ revived' = revived
      /\ gone' = gone /\ cache' = cache /\ job' = job /\ Turn' = Turn /\ Fresh' = Fresh
  BY <1>1 DEF store, Turn, Fresh
<1>3. StoreOK' /\ HoldersOK' /\ QueueOK' /\ JobOK' /\ IdsOK' /\ LoadsOK' /\ KeptOK'
  <2>1. StoreOK'
    BY <1>1, <1>2 DEF Kernel, StoreOK, None
  <2>2. HoldersOK' /\ QueueOK'
    BY <1>1, <1>2 DEF Kernel, HoldersOK, QueueOK, Waits
  <2>3. JobOK' /\ IdsOK' /\ LoadsOK'
    BY <1>1, <1>2 DEF Kernel, JobOK, IdsOK, LoadsOK
  <2>4. KeptOK'
    BY <1>1, <1>2 DEF Kernel, KeptOK, Reading, Believed
  <2> QED
    BY <2>1, <2>2, <2>3, <2>4
<1>4. TodoOK'
  <2>1. \A i \in DOMAIN job.todo :
          job.todo[i].op = "supersede" /\ job.todo[i].at > now' => job.todo[i].at > now
    <3> TAKE i \in DOMAIN job.todo
    <3>1. job.todo[i].op = "supersede" => job.todo[i].at \in Nat
      BY DEF Kernel, TodoOK
    <3> QED
      BY <1>1, <3>1
  <2> QED
    BY <1>2, <2>1 DEF Kernel, TodoOK
<1>5. EditMade'
  <2>1. \A n \in 1 .. now : n \in 1 .. now'
    BY <1>1 DEF None
  <2> QED
    BY <1>2, <2>1 DEF Kernel, EditMade, Reading
<1>6. CacheOK'
  <2>1. currentFacts' \subseteq currentFacts
    <3>1. ASSUME NEW f \in table, isCurrent(f, now + 1)
          PROVE  isCurrent(f, now)
      <4>1. f.to \in Nat
        BY DEF Kernel, StoreOK, Sound, AreFacts, IsFact
      <4> QED
        BY <1>1, <3>1, <4>1 DEF isCurrent
    <3> QED
      BY <1>1, <1>2, <3>1 DEF currentFacts
  <2>2. Landed(cache.facts)' = Landed(cache.facts)
    <3>1. CASE job.kind \in Edits /\ Reading /\ job.write.op = "supersede"
      <4>1. job.kind = "close"
        BY <3>1 DEF Edits, Kernel, JobOK, EditOK
      <4>2. job.write.at \in 1 .. now
        BY <3>1, <4>1 DEF Kernel, EditMade
      <4>3. ~(job.write.at > now) /\ ~(job.write.at > now')
        BY <1>1, <4>2
      <4> QED
        BY <1>2, <3>1, <4>3 DEF Landed, CacheAfter, Reading
    <3>2. CASE ~(job.kind \in Edits /\ Reading /\ job.write.op = "supersede")
      BY <1>2, <3>2 DEF Landed, CacheAfter, Reading
    <3> QED
      BY <3>1, <3>2
  <2>3. /\ InStep(Landed(cache.facts)) => InStep(Landed(cache.facts))'
        /\ InStep(cache.facts) => InStep(cache.facts)'
    BY <1>2, <2>1, <2>2 DEF InStep
  <2> QED
    BY <1>2, <2>3 DEF Kernel, CacheOK
<1> QED
  BY <1>3, <1>4, <1>5, <1>6 DEF Kernel

\* The page opened again has nothing under way.
LEMMA ReloadsStep ==
  ASSUME Kernel, Reloads
  PROVE  Kernel'
<1>1. /\ job' = NoJob /\ cache' = NoCache /\ queue' = <<>> /\ loads' = {} /\ shown' = {}
      /\ note' = [facts |-> {}, gen |-> note.gen + 1, wait |-> 0, phase |-> "wait"]
      /\ UNCHANGED <<now, store, queued, gone>>
  BY DEF Reloads
<1>2. /\ job'.kind = "none" /\ job'.phase = "none" /\ job'.known = {}
      /\ cache'.loaded = FALSE /\ cache'.facts = {} /\ note'.facts = {}
      /\ note' \in [facts : {note'.facts}, gen : {note'.gen}, wait : {note'.wait},
                    phase : {note'.phase}]
  BY <1>1 DEF NoJob, NoCache
<1>3. /\ table' = table /\ expired' = expired /\ now' = now /\ gone' = gone /\ queued' = queued
  BY <1>1 DEF store
<1>4. IsChannel(queue') /\ DOMAIN queue' = {} /\ Len(queue') = 0
  BY <1>1, NoChannel
<1>5. /\ Turn' = queued /\ Fresh' = 10 * (queued + 1) /\ queued \in Nat
      /\ Turn \in Nat /\ Turn <= queued /\ Fresh = 10 * (Turn + 1)
  BY <1>3, <1>4, Numbers DEF Kernel, Turn, Fresh, FirstId
<1>6. Fresh \in Int /\ Fresh' \in Int /\ Fresh <= Fresh'
  BY <1>5
<1>7. StoreOK'
  <2>1. Sound(table, Fresh', gone)
    BY <1>6, SoundPart DEF Kernel, StoreOK
  <2>2. \A id \in gone \union expired : id \in Nat /\ id < Fresh'
    BY <1>6 DEF Kernel, StoreOK
  <2> QED
    BY <1>3, <2>1, <2>2 DEF Kernel, StoreOK
<1>8. HoldersOK'
  BY <1>1, <1>2, NothingIsSound DEF HoldersOK
<1>9. QueueOK' /\ LoadsOK' /\ CacheOK'
  BY <1>1, <1>2, <1>3, <1>4, <1>5 DEF QueueOK, LoadsOK, CacheOK
<1> QED
  BY <1>1, <1>7, <1>8, <1>9, NoJobOK DEF Kernel

\* What was lost stays lost.
LEMMA DriftStays ==
  ASSUME [Next]_vars, ~adrift'
  PROVE  ~adrift
<1>1. CASE UNCHANGED vars
  BY <1>1 DEF vars
<1>2. CASE Asks
  BY <1>2 DEF Asks, Exchange, deleteFact, correctFact, recordFact, closeFact
<1>3. CASE PanelLoads \/ NoteReads \/ RestLooks
  BY <1>3 DEF PanelLoads, NoteReads, RestLooks, knownFacts
<1>4. CASE ReadLands \/ ReadFails
  BY <1>4 DEF ReadLands, ReadFails
<1>5. CASE JobStarts \/ JobReads \/ Hears \/ Merges
  BY <1>5 DEF JobStarts, JobReads, Hears, Merges
<1>6. CASE EditWrites \/ Applies \/ Refused \/ PlanWritten
  BY <1>6 DEF EditWrites, Applies, Refused, PlanWritten
<1>7. CASE StoreFails
  BY <1>7 DEF StoreFails
<1>8. CASE Wakes \/ Advance \/ Reloads
  BY <1>8 DEF Wakes, Advance, Reloads
<1> QED
  BY <1>1, <1>2, <1>3, <1>4, <1>5, <1>6, <1>7, <1>8 DEF Next, Works

\* Nothing happens.
LEMMA StutterStep ==
  ASSUME Kernel, UNCHANGED vars
  PROVE  Kernel'
<1>1. UNCHANGED <<now, store, cache, queue, queued, job, loads, shown, note, gone>>
  BY DEF vars
<1>2. QueueOK' /\ Turn' = Turn
  BY <1>1 DEF Kernel, QueueOK, Turn, Waits, Fresh
<1> QED
  BY <1>1, <1>2, StillKernel DEF Kernel, HoldersOK

\* No step that loses nothing puts anything out of order.
LEMMA NextStep ==
  ASSUME Kernel, [Next]_vars, ~adrift'
  PROVE  Kernel'
<1>1. CASE UNCHANGED vars
  BY <1>1, StutterStep
<1>2. CASE Exchange
  BY <1>2, ExchangeStep
<1>3. ASSUME NEW fact \in shown, deleteFact(fact)
      PROVE  Kernel'
  BY <1>3, DeleteStep
<1>4. ASSUME NEW fact \in shown, NEW object \in Wordings, correctFact(fact, object)
      PROVE  Kernel'
  BY <1>4, CorrectStep
<1>5. ASSUME NEW object \in Wordings, recordFact(object)
      PROVE  Kernel'
  BY <1>5, RecordStep
<1>6. ASSUME NEW fact \in table, closeFact(fact)
      PROVE  Kernel'
  BY <1>6, CloseStep
<1>7. CASE PanelLoads
  <2>1. knownFacts("panel", 0)
    BY <1>7 DEF PanelLoads
  <2> QED
    BY <2>1, KnownStep
<1>8. CASE NoteReads
  <2>1. knownFacts("note", note.gen)
    BY <1>8 DEF NoteReads
  <2> QED
    BY <2>1, KnownStep
<1>9. CASE RestLooks
  <2>1. knownFacts("rest", 0)
    BY <1>9 DEF RestLooks
  <2> QED
    BY <2>1, KnownStep
<1>10. CASE ReadLands
  BY <1>10, ReadLandsStep
<1>11. CASE JobStarts
  BY <1>11, JobStartsStep
<1>12. CASE JobReads
  BY <1>12, JobReadsStep
<1>13. CASE Hears
  BY <1>13, HearsStep
<1>14. CASE EditWrites
  BY <1>14, EditWritesStep
<1>15. CASE Applies
  BY <1>15, AppliesStep
<1>16. CASE Refused
  BY <1>16, RefusedStep
<1>17. CASE PlanWritten
  BY <1>17, PlanWrittenStep
<1>18. CASE Merges
  BY <1>18, MergesStep
<1>19. CASE StoreFails
  BY <1>19, StoreFailsStep
<1>20. CASE Wakes
  BY <1>20, WakesStep
<1>21. CASE Advance
  BY <1>21, AdvanceStep
<1>22. CASE Reloads
  BY <1>22, ReloadsStep
<1>23. CASE ReadFails
  BY <1>23, ReadFailsStep
<1> QED
  BY <1>1, <1>2, <1>3, <1>4, <1>5, <1>6, <1>7, <1>8, <1>9, <1>10, <1>11, <1>12, <1>13, <1>14,
     <1>15, <1>16, <1>17, <1>18, <1>19, <1>20, <1>21, <1>22, <1>23 DEF Next, Asks, Works

\* What the store may hold when the page opens is in order.
LEMMA InitKernel ==
  ASSUME Init
  PROVE  Kernel
<1>1. /\ now = 1 /\ table \in Tables /\ expired = {} /\ cache = NoCache /\ queue = <<>>
      /\ job = NoJob /\ queued = 0 /\ loads = {} /\ shown = {} /\ gone = {}
      /\ note = [facts |-> {}, gen |-> 1, wait |-> 0, phase |-> "wait"]
  BY DEF Init
<1>2. IsChannel(queue) /\ DOMAIN queue = {} /\ Len(queue) = 0 /\ IsChannel(job.todo)
      /\ DOMAIN job.todo = {}
  <2>1. job.todo = <<>>
    BY <1>1 DEF NoJob
  <2>2. Len(queue) = 0
    BY <1>1
  <2>3. ASSUME NEW c, c = <<>>
        PROVE  IsChannel(c) /\ DOMAIN c = {}
    BY <2>3, NoChannel, Zenon
  <2> QED
    BY <1>1, <2>1, <2>2, <2>3, Zenon
<1>3. Turn = 0 /\ Fresh = 10
  <2>1. queued = 0 /\ Len(queue) = 0
    BY <1>1, <1>2
  <2>2. Turn = 0
    BY <2>1 DEF Turn
  <2> QED
    BY <2>2 DEF Fresh, FirstId
<1>4. StoreOK
  <2>1. IsFiniteSet(table)
    BY <1>1, MemoryAssumption
  <2>2. \A f \in table : f \in Fact /\ f.id < 10
    BY <1>1, MemoryAssumption
  <2>3. \A f, g \in table : f.id = g.id => f = g
    BY <1>1, MemoryAssumption
  <2>4. \A f \in table : IsFact(f)
    BY <2>2 DEF Fact, IsFact
  <2>5. Sound(table, Fresh, gone)
    BY <1>1, <1>3, <2>1, <2>2, <2>3, <2>4 DEF Sound, AreFacts
  <2> QED
    BY <1>1, <2>5 DEF StoreOK, None
<1>5. HoldersOK
  BY <1>1, NothingIsSound DEF HoldersOK, NoCache, NoJob
<1>6. QueueOK /\ LoadsOK
  BY <1>1, <1>2 DEF QueueOK, LoadsOK
<1>7. JobOK /\ IdsOK /\ TodoOK
  BY <1>1, <1>2 DEF JobOK, IdsOK, TodoOK, NoJob, IsJob, EditOK
<1>8. EditMade /\ CacheOK /\ KeptOK
  BY <1>1, <1>2 DEF EditMade, CacheOK, KeptOK, Reading, NoJob, NoCache, Edits
<1> QED
  BY <1>4, <1>5, <1>6, <1>7, <1>8 DEF Kernel

\* Unless a read came back late or the answer of a write was lost, the kernel is
\* as its writes assume: what it holds is what the store has, what it is about
\* to write is neither deleted nor taken back, and no two jobs share an id.
THEOREM MemoryInvariant == Spec => []IInv
<1>1. Init => IInv
  BY InitKernel DEF IInv
<1>2. IInv /\ [Next]_vars => IInv'
  BY DriftStays, NextStep DEF IInv
<1> QED
  BY <1>1, <1>2, PTL DEF Spec

-----------------------------------------------------------------------------
(* What it is for.                                                           *)

\* What the person deletes stays deleted, unless they state it again (kernel.ts,
\* deleteFact): it comes back neither in the store, nor in the note, nor in what
\* is known.
THEOREM DeletedStays == Spec => []DeletedStaysDeleted
<1>1. IInv => DeletedStaysDeleted
  BY DEF IInv, Kernel, StoreOK, HoldersOK, Sound, DeletedStaysDeleted, ById
<1> QED
  BY <1>1, MemoryInvariant, PTL

\* Between jobs what is known is what the store would answer, but for what the
\* person corrected after she had stopped believing it (kernel.ts, loadKnown and
\* apply).
THEOREM CacheStaysInStep == Spec => []CacheInStep
<1>1. IInv => CacheInStep
  <2> SUFFICES ASSUME Kernel, cache.loaded, job = NoJob
               PROVE  /\ currentFacts \subseteq cache.facts
                      /\ \A f \in cache.facts \ currentFacts :
                           isCurrent(f, now) => f.id \in expired /\ f.id \in revived
    BY DEF IInv, CacheInStep
  <2>1. Landed(cache.facts) = cache.facts
    BY DEF Landed, Edits, NoJob
  <2>2. InStep(cache.facts)
    BY <2>1 DEF Kernel, CacheOK
  <2> QED
    BY <2>2 DEF InStep, currentFacts
<1> QED
  BY <1>1, MemoryInvariant, PTL

\* Merging by rule loses nothing (sleep.ts): after every write, whatever a fact
\* said is said by one that is still believed.
THEOREM MergingLosesNothing == Spec => MergedLivesOn
<1>1. IInv /\ [Next]_vars =>
        [(job.stage = "rules" /\ ~adrift) =>
           {Key(f) : f \in Believed} \subseteq {Key(f) : f \in Believed'}]_vars
  <2> SUFFICES ASSUME Kernel, Next, job.stage = "rules"
               PROVE  \A f \in Believed : \E g \in Believed' : Key(f) = Key(g)
    BY DEF IInv
  <2>1. job.kind = "sleep"
    BY DEF Kernel, JobOK
  <2>2. ASSUME table' = table, expired' = expired
        PROVE  Believed' = Believed
    BY <2>2 DEF Believed
  <2>3. ASSUME NEW w, job.phase = "write", job.todo # <<>>, w = Head(job.todo), StoreDoes(w)
        PROVE  \A f \in Believed : \E g \in Believed' : Key(f) = Key(g)
    BY <2>3, RuleWrite
  <2>4. CASE Applies
    BY <2>3, <2>4 DEF Applies
  <2>5. CASE StoreFails
    <3>1. job.phase = "write" /\ job.todo # <<>>
      BY <2>1, <2>5 DEF StoreFails, Kernel, JobOK, Edits
    <3>2. StoreDoes(Head(job.todo)) \/ UNCHANGED <<table, expired>>
      BY <2>5, <3>1 DEF StoreFails
    <3> QED
      BY <2>2, <2>3, <3>1, <3>2
  <2>6. CASE EditWrites
    BY <2>1, <2>6 DEF EditWrites, Kernel, JobOK, Edits
  <2>7. CASE Asks
    BY <2>2, <2>7 DEF Asks, Exchange, deleteFact, correctFact, recordFact, closeFact, store
  <2>8. CASE PanelLoads \/ NoteReads \/ RestLooks \/ ReadLands \/ ReadFails
    BY <2>2, <2>8 DEF PanelLoads, NoteReads, RestLooks, knownFacts, ReadLands, ReadFails, store
  <2>9. CASE JobStarts \/ JobReads \/ Hears \/ Merges \/ Refused \/ PlanWritten
    BY <2>2, <2>9 DEF JobStarts, JobReads, Hears, Merges, Refused, PlanWritten, store
  <2>10. CASE Wakes \/ Advance \/ Reloads
    BY <2>2, <2>10 DEF Wakes, Advance, Reloads, store
  <2> QED
    BY <2>4, <2>5, <2>6, <2>7, <2>8, <2>9, <2>10 DEF Next, Works
<1> QED
  BY <1>1, MemoryInvariant, PTL DEF Spec, MergedLivesOn

-----------------------------------------------------------------------------
(* Values side by side.                                                      *)

\* A value without an end that is to be written, of what has one.
Opens(w) == w.op = "upsert" /\ w.fact.to = None /\ w.fact.predicate \in SingleValued

\* Another such value of the same.
Rival(u, f) == f.id # u.id /\ f.to = None /\ f.predicate = u.predicate /\ f.object # u.object

\* A write that is left closes it.
Pending(id) ==
  \E i \in DOMAIN job.todo : job.todo[i].op \in {"supersede", "expire"} /\ job.todo[i].id = id

\* It is believed as it is, or will not be.
Stood(u) ==
  \/ u.id \in expired
  \/ \E f \in Believed :
       f.id = u.id /\ f.predicate = u.predicate /\ f.object = u.object /\ f.to = None

\* A write that is left of what she hears: what would stand beside its value is
\* closed by one before it, unless the value was believed all along.
ClosedBefore(i) ==
  LET u == job.todo[i].fact IN
    /\ \A f \in Believed : Rival(u, f) => Pending(f.id) \/ Stood(u)
    /\ \A k \in DOMAIN job.todo : job.todo[k].op = "upsert" =>
         /\ Rival(u, job.todo[k].fact) => Stood(u)
         /\ job.todo[k].id = u.id => job.todo[k].fact = u
    /\ \A k \in DOMAIN job.todo : job.todo[k].op = "supersede" => job.todo[k].id # u.id

SidesOK ==
  job.kind = "extract" =>
    /\ job.phase = "ask" => currentFacts \subseteq job.known
    /\ \A i \in DOMAIN job.todo : Opens(job.todo[i]) => ClosedBefore(i)
    /\ \A i, k \in DOMAIN job.todo :
         job.todo[i].op = "upsert" /\ i < k => job.todo[k].op = "upsert"

SInv == ~adrift => Kernel /\ SidesOK

\* A plan of what was heard closes what would stand beside what it writes.
LEMMA PlanClosesFirst ==
  ASSUME Kernel, job.kind = "extract", job.phase = "ask", currentFacts \subseteq job.known,
         NEW w, PlanOK(job.known, now, FirstId(job.n), w), PlanSides(job.known, now, w),
         job'.todo = Writes(w), job'.phase = "write", UNCHANGED <<now, table, expired>>
  PROVE  SidesOK'
<1> DEFINE T == Writes(w)
           known == job.known
<1>1. IsFiniteSet(w.upserts) /\ IsFiniteSet(w.supersede) /\ IsFiniteSet(w.expire)
  BY DEF PlanOK
<1>2. /\ \A i \in DOMAIN T :
           \/ \E s \in w.supersede : T[i] = [op |-> "supersede", id |-> s.id, at |-> s.at]
           \/ \E id \in w.expire : T[i] = [op |-> "expire", id |-> id]
           \/ \E f \in w.upserts : T[i] = [op |-> "upsert", id |-> f.id, fact |-> f]
      /\ \A i, k \in DOMAIN T : T[i].op = "upsert" /\ i < k => T[k].op = "upsert"
      /\ \A s \in w.supersede : \E i \in DOMAIN T : T[i].op = "supersede" /\ T[i].id = s.id
      /\ \A id \in w.expire : \E i \in DOMAIN T : T[i].op = "expire" /\ T[i].id = id
  BY <1>1, PlanInOrder
<1>3. job'.todo = T
  OBVIOUS
<1> HIDE DEF T
<1>4. \A i \in DOMAIN T : T[i].op = "supersede" => \E s \in w.supersede : T[i].id = s.id
  BY <1>2
<1>5. \A i \in DOMAIN T : T[i].op = "upsert" =>
        \E f \in w.upserts : T[i].id = f.id /\ T[i].fact = f
  BY <1>2
<1>6. /\ known \subseteq table /\ \A f, g \in table : f.id = g.id => f = g
      /\ \A f \in Believed : f \in table /\ (f.to = None => f \in known /\ isCurrent(f, now))
      /\ \A f \in known : f.id \notin expired => f \in Believed
  BY DEF Kernel, CacheOK, StoreOK, Sound, AreFacts, Believed, currentFacts, isCurrent
<1>7. ASSUME NEW u \in w.upserts, u.to = None
      PROVE  /\ u \in w.working
             /\ \A v \in w.upserts : v.id = u.id => v = u
             /\ \A s \in w.supersede : s.id # u.id
             /\ (\E k \in known : k.id = u.id) => Stood(u)
  <2>1. u \in w.working
    BY <1>7 DEF PlanSides
  <2>2. \A v \in w.upserts : v.id = u.id => v = u
    BY <2>1 DEF PlanSides
  <2>3. \A s \in w.supersede : s.id # u.id
    BY <2>1 DEF PlanOK
  <2>4. ASSUME NEW k \in known, k.id = u.id
        PROVE  Stood(u)
    <3>1. k.predicate = u.predicate /\ k.object = u.object /\ k.to = u.to
      BY <2>1, <2>4 DEF PlanSides, Continues
    <3> QED
      BY <3>1, <2>4, <1>6, <1>7 DEF Stood
  <2> QED
    BY <2>1, <2>2, <2>3, <2>4
<1>8. ASSUME NEW u \in w.upserts, u.to = None, u.predicate \in SingleValued
      PROVE  /\ \A v \in w.upserts : Rival(u, v) => Stood(u)
             /\ \A f \in Believed : Rival(u, f) =>
                  \/ Stood(u) \/ f.id \in w.expire \/ \E s \in w.supersede : s.id = f.id
  <2>1. ASSUME NEW g \in w.working, g.id # u.id, g.predicate = u.predicate
        PROVE  Stood(u)
    <3>1. u \in w.working /\ g # u
      BY <1>7, <1>8, <2>1
    <3>2. \E k \in known : k.id = u.id
      BY <3>1, <1>8, <2>1 DEF PlanSides
    <3> QED
      BY <3>2, <1>7, <1>8
  <2>2. ASSUME NEW v \in w.upserts, Rival(u, v)
        PROVE  Stood(u)
    <3>1. v.id # u.id /\ v.predicate = u.predicate /\ v.to = None
      BY <2>2 DEF Rival
    <3>2. v \in w.working
      BY <3>1, <1>7
    <3> QED
      BY <3>1, <3>2, <2>1
  <2>3. ASSUME NEW f \in Believed, Rival(u, f)
        PROVE  \/ Stood(u) \/ f.id \in w.expire \/ \E s \in w.supersede : s.id = f.id
    <3>1. f.id # u.id /\ f.predicate = u.predicate /\ f.to = None
      BY <2>3 DEF Rival
    <3>2. f \in known /\ isCurrent(f, now)
      BY <3>1, <1>6
    <3>3. CASE \E g \in w.working : g.id = f.id
      <4>1. PICK g \in w.working : g.id = f.id
        BY <3>3
      <4>2. g.predicate = f.predicate
        BY <3>2, <4>1 DEF PlanSides, Continues
      <4> QED
        BY <3>1, <4>1, <4>2, <2>1
    <3> QED
      BY <3>2, <3>3 DEF PlanSides
  <2> QED
    BY <2>2, <2>3
<1>9. /\ table' = table /\ expired' = expired /\ Believed' = Believed
      /\ \A u : Stood(u)' <=> Stood(u)
  BY DEF Stood, Believed
<1>10. ASSUME NEW i \in DOMAIN T, Opens(T[i])
       PROVE  LET u == T[i].fact IN
                /\ \A f \in Believed : Rival(u, f) => Pending(f.id)' \/ Stood(u)
                /\ \A k \in DOMAIN T : T[k].op = "upsert" =>
                     /\ Rival(u, T[k].fact) => Stood(u)
                     /\ T[k].id = u.id => T[k].fact = u
                /\ \A k \in DOMAIN T : T[k].op = "supersede" => T[k].id # u.id
  <2> DEFINE u == T[i].fact
  <2>1. u \in w.upserts /\ u.to = None /\ u.predicate \in SingleValued
    BY <1>5, <1>10 DEF Opens
  <2> HIDE DEF u
  <2>2. ASSUME NEW f \in Believed, Rival(u, f)
        PROVE  Pending(f.id)' \/ Stood(u)
    <3>1. \/ Stood(u) \/ f.id \in w.expire \/ \E s \in w.supersede : s.id = f.id
      BY <1>8, <2>1, <2>2
    <3>2. f.id \in w.expire \/ (\E s \in w.supersede : s.id = f.id) =>
            \E k \in DOMAIN T : T[k].op \in {"supersede", "expire"} /\ T[k].id = f.id
      BY <1>2
    <3> QED
      BY <3>1, <3>2, <1>3 DEF Pending
  <2>3. ASSUME NEW k \in DOMAIN T, T[k].op = "upsert"
        PROVE  /\ Rival(u, T[k].fact) => Stood(u)
               /\ T[k].id = u.id => T[k].fact = u
    <3>1. PICK v \in w.upserts : T[k].id = v.id /\ T[k].fact = v
      BY <1>5, <2>3
    <3> QED
      BY <3>1, <1>7, <1>8, <2>1
  <2>4. \A k \in DOMAIN T : T[k].op = "supersede" => T[k].id # u.id
    BY <1>4, <1>7, <2>1
  <2> QED
    BY <2>2, <2>3, <2>4 DEF u
<1>11. \A i \in DOMAIN T : Opens(T[i]) => ClosedBefore(i)'
  BY <1>3, <1>9, <1>10 DEF ClosedBefore, Rival
<1> QED
  BY <1>2, <1>3, <1>11 DEF SidesOK, Opens

\* Of a write that is left: what it leaves of the facts that are believed.
LEMMA WriteLeaves ==
  ASSUME Kernel, job.phase = "write", job.todo # <<>>, NEW w, w = Head(job.todo), StoreDoes(w)
  PROVE  /\ w.op \in {"supersede", "expire", "upsert"}
         /\ expired \subseteq expired'
         /\ w.op # "upsert" => \A f \in Believed' : f.to = None => f \in Believed /\ f.id # w.id
         /\ w.op = "upsert" => \A f \in Believed' :
              f = w.fact \/ (f \in Believed /\ f.id # w.fact.id)
         /\ \A f \in Believed : \/ f \in Believed' \/ f.id \in expired'
                                \/ w.op # "expire" /\ f.id = w.id
         /\ w.op = "upsert" => w.id = w.fact.id /\ w.fact \in table'
<1>1. WriteOK(w) /\ w.op # "delete" /\ w = job.todo[1] /\ 1 \in DOMAIN job.todo
  BY HeadOfTodo
<1>2. w.op \in {"supersede", "expire", "upsert"}
  BY <1>1 DEF Kernel, TodoOK
<1>3. CASE w.op = "supersede"
  <2>1. table' = Ended(table, w) /\ expired' = expired
    BY <1>3 DEF StoreDoes
  <2>2. w.at \in Nat \ {None}
    BY <1>1, <1>3 DEF Kernel, TodoOK
  <2>3. ASSUME NEW f \in table', f.to = None
        PROVE  f \in table /\ f.id # w.id
    <3>1. PICK g \in table : f = IF g.id = w.id THEN [g EXCEPT !.to = w.at] ELSE g
      BY <2>1 DEF Ended
    <3>2. IsFact(g)
      BY DEF Kernel, StoreOK, Sound, AreFacts
    <3>3. CASE g.id = w.id
      <4>1. f.to = w.at
        BY <3>1, <3>2, <3>3 DEF IsFact
      <4> QED
        BY <4>1, <2>2, <2>3
    <3> QED
      BY <3>1, <3>3
  <2>4. \A f \in table : f.id # w.id => f \in table'
    BY <2>1 DEF Ended
  <2> QED
    BY <1>2, <1>3, <2>1, <2>3, <2>4 DEF Believed
<1>4. CASE w.op = "expire"
  <2>1. table' = table /\ expired' = expired \union {w.id}
    BY <1>4 DEF StoreDoes
  <2> QED
    BY <1>2, <1>4, <2>1 DEF Believed
<1>5. CASE w.op = "upsert"
  <2>1. table' = Put(table, w.fact) /\ expired' = expired
    BY <1>5 DEF StoreDoes
  <2>2. w.id = w.fact.id
    BY <1>1, <1>5 DEF Kernel, TodoOK
  <2> QED
    BY <1>2, <1>5, <2>1, <2>2 DEF Believed, Put, Without
<1> QED
  BY <1>2, <1>3, <1>4, <1>5

\* No write of what she hears puts two values side by side.
LEMMA HeardWrite ==
  ASSUME Kernel, SidesOK, job.kind = "extract", SideBySide = {},
         job.phase = "write", job.todo # <<>>, NEW w, w = Head(job.todo), StoreDoes(w)
  PROVE  SideBySide' = {}
<1>1. w = job.todo[1] /\ 1 \in DOMAIN job.todo /\ DOMAIN job.todo \subseteq Nat \ {0}
  <2>1. IsChannel(job.todo)
    BY DEF Kernel, JobOK
  <2>2. DOMAIN job.todo = 1 .. Len(job.todo) /\ Len(job.todo) \in Nat
    BY <2>1, ChannelTail
  <2>3. DOMAIN job.todo \subseteq Nat \ {0}
    BY <2>2
  <2> QED
    BY <2>3, HeadOfTodo
<1>2. \A f, g \in Believed :
        ~(/\ f.predicate = g.predicate /\ f.object # g.object /\ f.predicate \in SingleValued
          /\ f.to = None /\ g.to = None)
  BY DEF SideBySide
<1>3. SUFFICES ASSUME NEW f \in Believed', NEW g \in Believed',
                      f.predicate = g.predicate, f.object # g.object,
                      f.predicate \in SingleValued, f.to = None, g.to = None
               PROVE  FALSE
  BY DEF SideBySide
<1>4. CASE w.op # "upsert"
  BY <1>2, <1>3, <1>4, WriteLeaves
<1>5. ASSUME w.op = "upsert", NEW h \in Believed, w.fact \in Believed', w.fact.id # h.id,
             h.predicate = w.fact.predicate, h.object # w.fact.object,
             h.predicate \in SingleValued, h.to = None, w.fact.to = None
      PROVE  FALSE
  <2>1. Opens(job.todo[1]) /\ Rival(w.fact, h)
    BY <1>1, <1>5 DEF Opens, Rival
  <2>2. Pending(h.id) \/ Stood(w.fact)
    BY <1>1, <2>1 DEF SidesOK, ClosedBefore
  <2>3. ~Pending(h.id)
    <3>1. \A k \in DOMAIN job.todo : k = 1 \/ 1 < k
      BY <1>1
    <3>2. \A k \in DOMAIN job.todo : job.todo[k].op = "upsert"
      BY <1>1, <1>5, <3>1 DEF SidesOK
    <3> QED
      BY <3>2 DEF Pending
  <2>4. w.fact.id \notin expired
    BY <1>5, WriteLeaves DEF Believed
  <2>5. PICK e \in Believed : /\ e.predicate = w.fact.predicate /\ e.object = w.fact.object
                              /\ e.to = None
    BY <2>2, <2>3, <2>4 DEF Stood
  <2> QED
    BY <2>5, <1>2, <1>5
<1>6. CASE w.op = "upsert"
  <2>1. /\ f = w.fact \/ (f \in Believed /\ f.id # w.fact.id)
        /\ g = w.fact \/ (g \in Believed /\ g.id # w.fact.id)
    BY <1>6, WriteLeaves
  <2>2. CASE f = w.fact /\ g # w.fact
    BY <1>3, <1>5, <1>6, <2>1, <2>2
  <2>3. CASE f # w.fact /\ g = w.fact
    BY <1>3, <1>5, <1>6, <2>1, <2>3
  <2>4. CASE f # w.fact /\ g # w.fact
    BY <1>2, <1>3, <2>1, <2>4
  <2> QED
    BY <1>3, <2>2, <2>3, <2>4
<1> QED
  BY <1>4, <1>6

\* What is left of the plan after it goes on as it should.
LEMMA SidesLeft ==
  ASSUME Kernel, SidesOK, job.kind = "extract", job.phase = "write", job.todo # <<>>,
         NEW w, w = Head(job.todo), StoreDoes(w),
         job'.phase = "write", job'.todo = Tail(job.todo)
  PROVE  SidesOK'
<1> DEFINE T == job.todo
           U == Tail(job.todo)
<1>1. /\ DOMAIN T = 1..Len(T) /\ DOMAIN U = 1..(Len(T) - 1) /\ Len(T) \in Nat
      /\ \A i \in DOMAIN U : U[i] = T[i + 1]
      /\ w = T[1] /\ 1 \in DOMAIN T
  BY ChannelTail DEF Kernel, JobOK
<1>2. \A i \in DOMAIN U : i \in Nat /\ i + 1 \in DOMAIN T /\ 1 < i + 1
  BY <1>1
<1>3. \A i \in DOMAIN T : i = 1 \/ (i - 1 \in DOMAIN U /\ U[i - 1] = T[i] /\ 1 < i)
  BY <1>1
<1>4. job'.todo = U
  OBVIOUS
<1> HIDE DEF U
<1>5. \A i, k \in DOMAIN U : U[i].op = "upsert" /\ i < k => U[k].op = "upsert"
  <2>1. \A i, k \in DOMAIN U : i < k => i + 1 < k + 1
    BY <1>2
  <2> QED
    BY <1>1, <1>2, <2>1 DEF SidesOK
<1>6. ASSUME NEW i \in DOMAIN U, Opens(U[i])
      PROVE  ClosedBefore(i)'
  <2>0. PICK u : u = U[i].fact
    OBVIOUS
  <2>1. U[i] = T[i + 1] /\ i + 1 \in DOMAIN T /\ Opens(T[i + 1])
    BY <1>1, <1>2, <1>6
  <2>2. ClosedBefore(i + 1)
    BY <2>1 DEF SidesOK
  <2>3. /\ \A f \in Believed : Rival(u, f) => Pending(f.id) \/ Stood(u)
        /\ \A k \in DOMAIN T : T[k].op = "upsert" =>
             /\ Rival(u, T[k].fact) => Stood(u)
             /\ T[k].id = u.id => T[k].fact = u
        /\ \A k \in DOMAIN T : T[k].op = "supersede" => T[k].id # u.id
        /\ u.to = None
    BY <2>0, <2>1, <2>2 DEF ClosedBefore, Opens
  <2>4. /\ \A k \in DOMAIN U : U[k].op = "upsert" =>
             /\ Rival(u, U[k].fact) => Stood(u)
             /\ U[k].id = u.id => U[k].fact = u
        /\ \A k \in DOMAIN U : U[k].op = "supersede" => U[k].id # u.id
    BY <1>1, <1>2, <2>3
  <2>5. ASSUME Stood(u)
        PROVE  Stood(u)'
    <3>1. CASE u.id \in expired
      BY <3>1, WriteLeaves DEF Stood
    <3>2. CASE u.id \notin expired
      <4>1. PICK f \in Believed : /\ f.id = u.id /\ f.predicate = u.predicate
                                  /\ f.object = u.object /\ f.to = None
        BY <3>2, <2>5 DEF Stood
      <4>2. CASE f \in Believed' \/ f.id \in expired'
        BY <4>1, <4>2 DEF Stood
      <4>3. CASE w.op # "expire" /\ f.id = w.id
        <5>1. w.op = "upsert"
          BY <1>1, <2>3, <4>1, <4>3, WriteLeaves
        <5>2. w.fact = u
          BY <1>1, <2>3, <4>1, <4>3, <5>1
        <5>3. u \in table'
          BY <5>1, <5>2, WriteLeaves
        <5> QED
          BY <2>3, <5>3 DEF Stood, Believed
      <4> QED
        BY <4>2, <4>3, WriteLeaves
    <3> QED
      BY <3>1, <3>2
  <2>6. ASSUME NEW id, Pending(id), w.op = "upsert" \/ w.id # id
        PROVE  Pending(id)'
    <3>1. PICK k \in DOMAIN T : T[k].op \in {"supersede", "expire"} /\ T[k].id = id
      BY <2>6 DEF Pending
    <3>2. k # 1
      BY <1>1, <2>6, <3>1
    <3>3. k - 1 \in DOMAIN U /\ U[k - 1] = T[k]
      BY <1>3, <3>2
    <3> QED
      BY <1>4, <3>1, <3>3 DEF Pending
  <2>7. ASSUME NEW f \in Believed', Rival(u, f)
        PROVE  Pending(f.id)' \/ Stood(u)'
    <3>1. f.to = None
      BY <2>7 DEF Rival
    <3>2. CASE w.op = "upsert" /\ f = w.fact
      BY <1>1, <2>3, <2>5, <2>7, <3>2
    <3>3. CASE f \in Believed /\ (w.op = "upsert" \/ f.id # w.id)
      BY <2>3, <2>5, <2>6, <2>7, <3>3
    <3> QED
      BY <3>1, <3>2, <3>3, WriteLeaves
  <2> QED
    BY <1>4, <2>0, <2>4, <2>5, <2>7 DEF ClosedBefore, Rival
<1> QED
  BY <1>4, <1>5, <1>6 DEF SidesOK, Opens

\* What leaves the table, the plan and what is known to the job leaves it.
LEMMA SidesStay ==
  ASSUME SidesOK, job'.kind = job.kind, job'.phase = job.phase, job'.known = job.known,
         job'.todo = job.todo, UNCHANGED <<table, expired>>, currentFacts' \subseteq currentFacts
  PROVE  SidesOK'
<1>1. Believed' = Believed /\ expired' = expired /\ \A id : Pending(id)' <=> Pending(id)
  BY DEF Believed, Pending
<1>2. \A u : Stood(u)' <=> Stood(u)
  BY <1>1 DEF Stood
<1>3. \A i : ClosedBefore(i)' <=> ClosedBefore(i)
  BY <1>1, <1>2 DEF ClosedBefore, Rival
<1> QED
  BY <1>3 DEF SidesOK, Opens

\* Nothing is planned by a job that has not heard anything yet, or is none.
LEMMA NothingPlanned ==
  ASSUME job'.kind = "extract" => job'.todo = <<>> /\ job'.phase # "ask"
  PROVE  SidesOK'
<1>1. ASSUME job'.kind = "extract"
      PROVE  DOMAIN job'.todo = {} /\ job'.phase # "ask"
  <2>1. job'.todo = <<>>
    BY <1>1
  <2> QED
    BY <1>1, <2>1, NoChannel
<1> QED
  BY <1>1 DEF SidesOK

\* A job that is not an exchange's does not become one.
LEMMA KnowingKind ==
  ASSUME IsJob(job), job.kind # "extract", NEW facts, job' = Knowing(job, facts)
  PROVE  job'.kind # "extract"
<1>1. CASE job.stage = "rules"
  <2> DEFINE todo == Writes(applyMerges(facts, ruleMerges(facts)))
  <2>1. job' = [job EXCEPT !.phase = "write", !.holds = TRUE, !.todo = todo]
    BY <1>1, Zenon DEF Knowing
  <2> HIDE DEF todo
  <2> QED
    BY <2>1 DEF IsJob
<1>2. CASE job.stage = "tidy"
  <2> DEFINE todo == Writes(consolidateFacts(facts, now))
  <2>1. job' = [job EXCEPT !.phase = "write", !.holds = TRUE, !.todo = todo]
    <3>1. job.stage # "rules"
      BY <1>2
    <3> QED
      BY <1>2, <3>1, Zenon DEF Knowing
  <2> HIDE DEF todo
  <2> QED
    BY <2>1 DEF IsJob
<1>3. CASE job.stage # "rules" /\ job.stage # "tidy"
  <2>1. job' = NoJob
    BY <1>3, Zenon DEF Knowing
  <2> QED
    BY <2>1 DEF NoJob
<1> QED
  BY <1>1, <1>2, <1>3

\* The job is given the facts: an exchange's job has all that are current.
LEMMA GivenSides ==
  ASSUME Kernel, Reading, NEW facts, currentFacts \subseteq facts,
         job' = Knowing(job, facts), UNCHANGED <<now, table, expired>>
  PROVE  SidesOK'
<1>1. job.todo = <<>> /\ IsJob(job)
  <2>1. job.phase # "write"
    BY DEF Reading
  <2> QED
    BY <2>1 DEF Kernel, JobOK
<1>2. CASE job.kind = "extract"
  <2>1. job' = [job EXCEPT !.phase = "ask", !.known = facts]
    <3>1. job.stage = "none"
      BY <1>2 DEF Kernel, JobOK
    <3> QED
      BY <1>2, <3>1, Zenon DEF Knowing
  <2>2. job'.known = facts /\ job'.todo = job.todo
    BY <1>1, <2>1 DEF IsJob
  <2>3. DOMAIN job'.todo = {}
    BY <1>1, <2>2, NoChannel
  <2>4. currentFacts' = currentFacts
    BY DEF currentFacts
  <2> QED
    BY <2>2, <2>3, <2>4 DEF SidesOK
<1>3. CASE job.kind # "extract"
  <2>1. job'.kind # "extract"
    BY <1>1, <1>3, KnowingKind
  <2> QED
    BY <2>1, NothingPlanned
<1> QED
  BY <1>2, <1>3

\* What the store answers does not grow with time.
LEMMA CurrentShrinks ==
  ASSUME Kernel, Advance
  PROVE  currentFacts' \subseteq currentFacts
<1>1. now \in Nat /\ now' = now + 1 /\ table' = table /\ expired' = expired
  BY DEF Advance, store, Kernel, StoreOK
<1>2. \A f \in table : f.to \in Nat
  BY DEF Kernel, StoreOK, Sound, AreFacts, IsFact
<1>3. \A f \in table : isCurrent(f, now') => isCurrent(f, now)
  BY <1>1, <1>2 DEF isCurrent
<1> QED
  BY <1>1, <1>3 DEF currentFacts

\* What is left of the plan of what she hears stays so, whatever happens.
LEMMA SidesStep ==
  ASSUME Kernel, SidesOK, [Next]_vars, ~adrift'
  PROVE  SidesOK'
<1>1. ASSUME job' = job, UNCHANGED <<now, table, expired>>
      PROVE  SidesOK'
  <2>1. currentFacts' = currentFacts
    BY <1>1 DEF currentFacts
  <2> QED
    BY <1>1, <2>1, SidesStay
<1>2. ASSUME job' = NoJob
      PROVE  SidesOK'
  BY <1>2, NothingPlanned DEF NoJob
<1>3. CASE UNCHANGED vars
  BY <1>1, <1>3 DEF vars, store
<1>4. CASE Asks
  BY <1>1, <1>4 DEF Asks, Exchange, deleteFact, correctFact, recordFact, closeFact, store
<1>5. CASE PanelLoads \/ NoteReads \/ RestLooks \/ Wakes
  BY <1>1, <1>5 DEF PanelLoads, NoteReads, RestLooks, Wakes, knownFacts, store
<1>6. CASE Advance
  <2>1. job' = job /\ UNCHANGED <<table, expired>>
    BY <1>6 DEF Advance, store
  <2> QED
    BY <1>6, <2>1, CurrentShrinks, SidesStay
<1>7. CASE ReadLands
  <2>1. PICK l \in loads :
          /\ adrift' = (adrift \/ l.facts # currentFacts
                               \/ (l.who # "job" /\ job.holds /\ job.todo # <<>>))
          /\ IF l.who = "job"
             THEN IF l.n = job.n THEN JobKnows(l.facts) ELSE job' = job
             ELSE job' = [job EXCEPT !.holds = FALSE]
          /\ UNCHANGED <<now, table, expired>>
    BY <1>7 DEF ReadLands, store
  <2>2. CASE l.who = "job" /\ l.n = job.n
    <3>1. l.facts = currentFacts /\ job' = Knowing(job, l.facts)
      BY <2>1, <2>2 DEF JobKnows
    <3>2. Reading
      BY <2>2 DEF Kernel, LoadsOK, Reading
    <3> QED
      BY <2>1, <3>1, <3>2, GivenSides
  <2>3. CASE l.who = "job" /\ l.n # job.n
    BY <1>1, <2>1, <2>3
  <2>4. CASE l.who # "job"
    <3>1. /\ job'.kind = job.kind /\ job'.phase = job.phase /\ job'.known = job.known
          /\ job'.todo = job.todo
      BY <2>1, <2>4 DEF Kernel, JobOK, IsJob
    <3>2. currentFacts' = currentFacts
      BY <2>1 DEF currentFacts
    <3> QED
      BY <2>1, <3>1, <3>2, SidesStay
  <2> QED
    BY <2>2, <2>3, <2>4
<1>8. CASE JobStarts
  <2> DEFINE j == Head(queue)
  <2>1. IsChannel(queue) /\ queue # <<>>
    BY <1>8 DEF JobStarts, Kernel, QueueOK
  <2>2. Waits(j)
    BY <2>1, ChannelTail DEF Kernel, QueueOK
  <2> HIDE DEF j
  <2>3. job' = CASE j.kind \in Edits -> [j EXCEPT !.phase = "edit"]
                 [] j.kind = "sleep" -> [j EXCEPT !.phase = "read", !.stage = "rules"]
                 [] OTHER -> [j EXCEPT !.phase = "read"]
    BY <1>8 DEF JobStarts, j
  <2>4. CASE j.kind = "extract"
    <3>1. job' = [j EXCEPT !.phase = "read"]
      BY <2>3, <2>4 DEF Edits
    <3>2. job'.todo = <<>> /\ job'.phase = "read"
      BY <2>2, <3>1 DEF Waits, IsJob
    <3> QED
      BY <3>2, NothingPlanned
  <2>5. CASE j.kind # "extract"
    <3>1. IsJob(j) /\ j.kind \in Edits \union {"sleep"} /\ "sleep" \notin Edits
      BY <2>2, <2>5 DEF Waits, Kinds, Edits
    <3>2. CASE j.kind \in Edits
      <4>1. job' = [j EXCEPT !.phase = "edit"]
        BY <2>3, <3>1, <3>2
      <4>2. job'.kind = j.kind
        BY <3>1, <4>1 DEF IsJob
      <4> QED
        BY <2>5, <4>2, NothingPlanned
    <3>3. CASE j.kind = "sleep"
      <4>1. job' = [j EXCEPT !.phase = "read", !.stage = "rules"]
        BY <2>3, <3>1, <3>3
      <4>2. job'.kind = j.kind
        BY <3>1, <4>1 DEF IsJob
      <4> QED
        BY <2>5, <4>2, NothingPlanned
    <3> QED
      BY <3>1, <3>2, <3>3
  <2> QED
    BY <2>4, <2>5
<1>9. CASE JobReads
  <2>1. job.phase = "read" /\ UNCHANGED <<now, table, expired>>
    BY <1>9 DEF JobReads, store
  <2>2. Reading
    BY <2>1 DEF Reading
  <2>3. CASE cache.loaded
    <3>1. job' = Knowing(job, cache.facts)
      BY <1>9, <2>3 DEF JobReads, JobKnows
    <3>2. CASE job.kind = "extract"
      <4>1. currentFacts \subseteq cache.facts
        BY <2>3, <3>2 DEF Kernel, CacheOK, Landed, Edits, InStep
      <4> QED
        BY <2>1, <2>2, <3>1, <4>1, GivenSides
    <3>3. CASE job.kind # "extract"
      <4>1. IsJob(job)
        BY DEF Kernel, JobOK
      <4>2. job'.kind # "extract"
        BY <3>1, <3>3, <4>1, KnowingKind
      <4> QED
        BY <4>2, NothingPlanned
    <3> QED
      BY <3>2, <3>3
  <2>4. CASE ~cache.loaded
    <3>1. job' = [job EXCEPT !.phase = "reading"]
      BY <1>9, <2>4 DEF JobReads
    <3>2. job'.todo = <<>> /\ job'.phase = "reading"
      BY <2>1, <3>1 DEF Kernel, JobOK, IsJob
    <3> QED
      BY <3>2, NothingPlanned
  <2> QED
    BY <2>3, <2>4
<1>10. CASE Hears
  <2>1. job.phase = "ask" /\ job.kind = "extract" /\ UNCHANGED <<now, table, expired>>
    BY <1>10 DEF Hears, store
  <2>2. CASE job' # NoJob
    <3>1. PICK w : /\ PlanOK(job.known, now, FirstId(job.n), w)
                   /\ PlanSides(job.known, now, w)
                   /\ job' = [job EXCEPT !.phase = "write", !.holds = TRUE, !.known = {},
                                         !.todo = Writes(w)]
      BY <1>10, <2>2, HearsPlan
    <3>2. job'.todo = Writes(w) /\ job'.phase = "write"
      BY <3>1 DEF Kernel, JobOK, IsJob
    <3>3. currentFacts \subseteq job.known
      BY <2>1 DEF SidesOK
    <3> QED
      BY <2>1, <3>1, <3>2, <3>3, PlanClosesFirst
  <2> QED
    BY <1>2, <2>2
<1>11. CASE EditWrites
  <2>1. job.kind \in Edits
    BY <1>11 DEF EditWrites, Kernel, JobOK, NoJob
  <2>2. job'.kind = job.kind
    BY <1>11 DEF EditWrites, Kernel, JobOK, IsJob
  <2> QED
    BY <2>1, <2>2, NothingPlanned DEF Edits
<1>12. CASE Applies
  <2>1. /\ job.phase = "write" /\ job.todo # <<>> /\ StoreDoes(Head(job.todo))
        /\ job' = [job EXCEPT !.todo = Tail(@)]
    BY <1>12 DEF Applies
  <2>2. job'.kind = job.kind /\ job'.phase = "write" /\ job'.todo = Tail(job.todo)
    BY <2>1 DEF Kernel, JobOK, IsJob
  <2>3. CASE job.kind = "extract"
    BY <2>1, <2>2, <2>3, SidesLeft
  <2>4. CASE job.kind # "extract"
    BY <2>2, <2>4, NothingPlanned
  <2> QED
    BY <2>3, <2>4
<1>13. CASE Refused \/ StoreFails \/ Reloads
  BY <1>2, <1>13 DEF Refused, StoreFails, Reloads
<1>14. CASE PlanWritten
  <2>1. CASE job.kind = "extract"
    <3>1. job.stage = "none"
      BY <2>1 DEF Kernel, JobOK
    <3> QED
      BY <1>2, <1>14, <2>1, <3>1 DEF PlanWritten
  <2>2. CASE job.kind # "extract"
    <3>1. IsJob(job)
      BY DEF Kernel, JobOK
    <3>2. CASE job' = NoJob
      BY <1>2, <3>2
    <3>3. CASE job' = [job EXCEPT !.phase = "ask", !.stage = "model",
                                  !.known = Mergeable(cache.facts), !.holds = FALSE]
      <4>1. job'.kind = job.kind
        BY <3>1, <3>3 DEF IsJob
      <4> QED
        BY <2>2, <4>1, NothingPlanned
    <3>4. CASE job' = [job EXCEPT !.phase = "read", !.stage = "tidy", !.holds = FALSE]
      <4>1. job'.kind = job.kind
        BY <3>1, <3>4 DEF IsJob
      <4> QED
        BY <2>2, <4>1, NothingPlanned
    <3> QED
      BY <1>14, <2>2, <3>2, <3>3, <3>4 DEF PlanWritten, SleepOver
  <2> QED
    BY <2>1, <2>2
<1>15. CASE Merges
  <2>1. job.kind = "sleep" /\ job'.kind = job.kind
    BY <1>15 DEF Merges, Kernel, JobOK, IsJob
  <2> QED
    BY <2>1, NothingPlanned
<1>16. CASE ReadFails
  BY <1>1, <1>2, <1>16, ReadFailsIs DEF Kernel, store
<1> QED
  BY <1>3, <1>4, <1>5, <1>6, <1>7, <1>8, <1>9, <1>10, <1>11, <1>12, <1>13, <1>14, <1>15, <1>16
     DEF Next, Works

\* What is left of a plan of what she hears closes whatever would stand beside a
\* value before it writes it.
THEOREM SidesInvariant == Spec => []SInv
<1>1. Init => SInv
  <2>1. Init => Kernel
    BY InitKernel
  <2>2. Init => SidesOK
    BY DEF Init, NoJob, SidesOK
  <2> QED
    BY <2>1, <2>2 DEF SInv
<1>2. SInv /\ [Next]_vars => SInv'
  BY DriftStays, NextStep, SidesStep DEF SInv
<1> QED
  BY <1>1, <1>2, PTL DEF Spec

\* No write of what she hears puts two values without an end of one thing side by
\* side, not even for the time between two writes (kernel.ts, apply: closing
\* first).
THEOREM ClosesWhatItReplaces == Spec => ClosesFirst
<1>1. SInv /\ [Next]_vars =>
        [(job.kind = "extract" /\ ~adrift /\ SideBySide = {}) => SideBySide' = {}]_vars
  <2> SUFFICES ASSUME Kernel, SidesOK, Next, job.kind = "extract", SideBySide = {}
               PROVE  SideBySide' = {}
    BY DEF SInv
  <2>1. ASSUME table' = table, expired' = expired
        PROVE  SideBySide' = {}
    BY <2>1 DEF SideBySide, Believed
  <2>2. ASSUME NEW w, job.phase = "write", job.todo # <<>>, w = Head(job.todo), StoreDoes(w)
        PROVE  SideBySide' = {}
    BY <2>2, HeardWrite
  <2>3. CASE Applies
    BY <2>2, <2>3 DEF Applies
  <2>4. CASE StoreFails
    <3>1. job.phase = "write" /\ job.todo # <<>>
      BY <2>4 DEF StoreFails, Kernel, JobOK, Edits
    <3>2. StoreDoes(Head(job.todo)) \/ UNCHANGED <<table, expired>>
      BY <2>4, <3>1 DEF StoreFails
    <3> QED
      BY <2>1, <2>2, <3>1, <3>2
  <2>5. CASE EditWrites
    BY <2>5 DEF EditWrites, Kernel, JobOK, Edits
  <2>6. CASE Asks
    BY <2>1, <2>6 DEF Asks, Exchange, deleteFact, correctFact, recordFact, closeFact, store
  <2>7. CASE PanelLoads \/ NoteReads \/ RestLooks \/ ReadLands \/ ReadFails
    BY <2>1, <2>7 DEF PanelLoads, NoteReads, RestLooks, knownFacts, ReadLands, ReadFails, store
  <2>8. CASE JobStarts \/ JobReads \/ Hears \/ Merges \/ Refused \/ PlanWritten
    BY <2>1, <2>8 DEF JobStarts, JobReads, Hears, Merges, Refused, PlanWritten, store
  <2>9. CASE Wakes \/ Advance \/ Reloads
    BY <2>1, <2>9 DEF Wakes, Advance, Reloads, store
  <2> QED
    BY <2>3, <2>4, <2>5, <2>6, <2>7, <2>8, <2>9 DEF Next, Works
<1> QED
  BY <1>1, SidesInvariant, PTL DEF Spec, ClosesFirst

-----------------------------------------------------------------------------
(* Her sleep.                                                                *)

\* The rest: a read asked for it is awaited, it is asked for while she is up, and
\* the sleep she is in is the last job of all.  Whoever is queued behind a sleep
\* has woken her from it, so every other sleep is stopped, and what a plan states
\* is not from before the sleep she last finished.
RestOK ==
  /\ rest \in [resting : BOOLEAN, asking : {"no", "yes", "disturbed"}, sleep : {rest.sleep},
               started : {rest.started}, active : {rest.active}, stopped : {rest.stopped}]
  /\ \A l \in loads : l.who = "rest" => rest.asking # "no"
  /\ \A l, m \in loads : l.who = "rest" /\ m.who = "rest" => l = m
  /\ rest.asking = "yes" => ~rest.resting
  /\ ~rest.resting => rest.sleep = 0
  /\ rest.sleep # 0 => rest.sleep = queued /\ rest.started \in 0 .. now
  /\ slept \in 0 .. now
  /\ \A i \in DOMAIN queue :
       /\ queue[i].kind = "record" => queue[i].write.fact.recorded >= slept
       /\ queue[i].kind = "sleep" => queue[i].n \in rest.stopped \union {rest.sleep}
  /\ job.kind = "record" => job.write.fact.recorded >= slept
  /\ job.kind = "correct" /\ Reading => job.write.fact.recorded >= slept
  /\ job.kind = "sleep" => job.n \in rest.stopped \union {rest.sleep}

\* To be woken.
LEMMA WokenRest ==
  ASSUME RestOK
  PROVE  /\ Woken \in [resting : BOOLEAN, asking : {"no", "yes", "disturbed"},
                       sleep : {Woken.sleep}, started : {Woken.started},
                       active : {Woken.active}, stopped : {Woken.stopped}]
         /\ Woken.resting = FALSE /\ Woken.sleep = 0 /\ Woken.asking # "yes"
         /\ rest.asking # "no" => Woken.asking # "no"
         /\ rest.stopped \subseteq Woken.stopped
         /\ rest.sleep # 0 => rest.sleep \in Woken.stopped
BY DEF RestOK, Woken

\* Whoever asks something of the kernel wakes her.
LEMMA AskedRest ==
  ASSUME Kernel, RestOK, NEW kind \in Kinds \ {"sleep"}, NEW write, enqueue(kind, write),
         kind = "record" => write.fact.recorded = now,
         rest' = Woken, UNCHANGED <<now, job, loads, slept>>
  PROVE  RestOK'
<1> DEFINE j == Asked(kind, write)
<1>1. queued' = queued + 1 /\ queue' = Append(queue, j) /\ j.kind = kind /\ j.write = write
  BY DEF enqueue, Asked, NoJob
<1> HIDE DEF j
<1>2. /\ DOMAIN queue = 1 .. Len(queue) /\ Len(queue) \in Nat
      /\ DOMAIN queue' = 1 .. (Len(queue) + 1)
      /\ \A i \in DOMAIN queue : queue'[i] = queue[i]
      /\ queue'[Len(queue) + 1] = j
  BY <1>1, ChannelAppend DEF Kernel, QueueOK
<1>3. \A i \in DOMAIN queue' : i \in DOMAIN queue \/ queue'[i] = j
  BY <1>2
<1>4. \A i \in DOMAIN queue : queue[i].n # 0
  BY <1>2, Numbers DEF Kernel, QueueOK
<1>5. job.kind = "sleep" => job.n # 0
  BY Numbers DEF Kernel, JobOK
<1>6. now \in Nat /\ slept \in 0 .. now
  BY DEF Kernel, StoreOK, RestOK
<1>7. \A i \in DOMAIN queue' :
        /\ queue'[i].kind = "record" => queue'[i].write.fact.recorded >= slept
        /\ queue'[i].kind = "sleep" => queue'[i].n \in rest'.stopped
  <2> TAKE i \in DOMAIN queue'
  <2>1. CASE i \in DOMAIN queue
    BY <1>2, <1>4, <2>1, WokenRest DEF RestOK
  <2>2. CASE queue'[i] = j
    BY <1>1, <1>6, <2>2
  <2> QED
    BY <1>3, <2>1, <2>2
<1>8. job.kind = "sleep" => job.n \in rest'.stopped
  BY <1>5, WokenRest DEF RestOK
<1> QED
  BY <1>6, <1>7, <1>8, WokenRest DEF RestOK, Reading

\* She lies down only if nobody came back, and is the only one who sleeps.
LEMMA LaidRest ==
  ASSUME Kernel, RestOK, ~rest.resting, NEW facts, LiesDown(facts),
         loads' \subseteq loads, \A l \in loads' : l.who # "rest",
         job'.kind = job.kind, job'.n = job.n, job'.write = job.write,
         job'.phase = job.phase, UNCHANGED <<now, slept>>
  PROVE  RestOK'
<1>1. rest.sleep = 0 /\ now \in Nat
  BY DEF RestOK, Kernel, StoreOK
<1>2. Reading' <=> Reading
  BY DEF Reading
<1>3. CASE rest' = [rest EXCEPT !.asking = "no"] /\ UNCHANGED <<queue, queued>>
  <2>1. /\ rest' \in [resting : BOOLEAN, asking : {"no", "yes", "disturbed"},
                      sleep : {rest'.sleep}, started : {rest'.started},
                      active : {rest'.active}, stopped : {rest'.stopped}]
        /\ rest'.asking = "no" /\ rest'.resting = rest.resting /\ rest'.sleep = rest.sleep
        /\ rest'.stopped = rest.stopped
    BY <1>3 DEF RestOK
  <2> QED
    BY <1>1, <1>2, <1>3, <2>1 DEF RestOK
<1>4. CASE /\ enqueue("sleep", <<>>)
           /\ rest' = [rest EXCEPT !.asking = "no", !.resting = TRUE, !.sleep = queued',
                                   !.started = now]
  <2> DEFINE j == Asked("sleep", <<>>)
  <2>1. /\ rest' \in [resting : BOOLEAN, asking : {"no", "yes", "disturbed"},
                      sleep : {rest'.sleep}, started : {rest'.started},
                      active : {rest'.active}, stopped : {rest'.stopped}]
        /\ rest'.asking = "no" /\ rest'.resting = TRUE /\ rest'.sleep = queued'
        /\ rest'.started = now /\ rest'.stopped = rest.stopped
    BY <1>4 DEF RestOK
  <2>2. queued' = queued + 1 /\ queue' = Append(queue, j) /\ j.kind = "sleep" /\ j.n = queued + 1
    BY <1>4 DEF enqueue, Asked, NoJob
  <2> HIDE DEF j
  <2>3. /\ DOMAIN queue = 1 .. Len(queue) /\ Len(queue) \in Nat
        /\ DOMAIN queue' = 1 .. (Len(queue) + 1)
        /\ \A i \in DOMAIN queue : queue'[i] = queue[i]
        /\ queue'[Len(queue) + 1] = j
    BY <2>2, ChannelAppend DEF Kernel, QueueOK
  <2>4. \A i \in DOMAIN queue' : i \in DOMAIN queue \/ queue'[i] = j
    BY <2>3
  <2>5. \A i \in DOMAIN queue : queue[i].n # 0
    BY <2>3, Numbers DEF Kernel, QueueOK
  <2>6. job.kind = "sleep" => job.n # 0
    BY Numbers DEF Kernel, JobOK
  <2>7. \A i \in DOMAIN queue' :
          /\ queue'[i].kind = "record" => queue'[i].write.fact.recorded >= slept
          /\ queue'[i].kind = "sleep" => queue'[i].n \in rest'.stopped \union {rest'.sleep}
    <3> TAKE i \in DOMAIN queue'
    <3>1. CASE i \in DOMAIN queue
      BY <1>1, <2>1, <2>3, <2>5, <3>1 DEF RestOK
    <3>2. CASE queue'[i] = j
      BY <2>1, <2>2, <3>2
    <3> QED
      BY <2>4, <3>1, <3>2
  <2>8. job'.kind = "sleep" => job'.n \in rest'.stopped \union {rest'.sleep}
    BY <1>1, <2>1, <2>6 DEF RestOK
  <2> QED
    BY <1>1, <1>2, <2>1, <2>7, <2>8 DEF RestOK
<1> QED
  BY <1>3, <1>4 DEF LiesDown

\* What changes neither the rest nor the queue, and at most ends the job or brings
\* it on, leaves it.
LEMMA StillRest ==
  ASSUME Kernel, RestOK, UNCHANGED <<rest, queued, now, slept>>,
         queue' = queue \/ queue' = <<>>,
         \A l \in loads' : l.who = "rest" => l \in loads,
         \/ job'.kind = "none"
         \/ /\ job'.kind = job.kind /\ job'.n = job.n
            /\ job.kind \in {"correct", "record"} =>
                 job'.write = job.write /\ (Reading' => Reading)
  PROVE  RestOK'
<1>1. queue' = <<>> => DOMAIN queue' = {}
  BY NoChannel
<1> QED
  BY <1>1 DEF RestOK

\* A read is back, or the cache had it, and she is told if she asked.
LEMMA GivenRest ==
  ASSUME Kernel, RestOK, NEW who, NEW n, NEW facts, Given(who, n, facts),
         who = "rest" => ~rest.resting /\ \A l \in loads' : l.who # "rest",
         loads' \subseteq loads, job'.kind = job.kind, job'.n = job.n, job'.write = job.write,
         job'.phase = job.phase, UNCHANGED <<now, slept>>
  PROVE  RestOK'
<1>1. CASE who = "rest"
  BY <1>1, LaidRest DEF Given
<1>2. CASE who # "rest"
  BY <1>2, StillRest DEF Given, Reading
<1> QED
  BY <1>1, <1>2

\* The facts are asked for.
LEMMA KnownRest ==
  ASSUME Kernel, RestOK, NEW who, NEW n, knownFacts(who, n),
         who = "rest" => ~rest.resting /\ rest.asking = "no"
  PROVE  RestOK'
<1>1. job' = job /\ now' = now /\ slept' = slept
  BY DEF knownFacts
<1>2. CASE cache.loaded
  <2>1. Given(who, n, cache.facts) /\ loads' = loads
    BY <1>2 DEF knownFacts
  <2>2. who = "rest" => \A l \in loads' : l.who # "rest"
    BY <2>1 DEF RestOK
  <2> QED
    BY <1>1, <2>1, <2>2, GivenRest
<1>3. CASE ~cache.loaded
  <2>1. /\ Load(who, n) /\ queue' = queue /\ queued' = queued
        /\ rest' = IF who = "rest" THEN [rest EXCEPT !.asking = "yes"] ELSE rest
    BY <1>3 DEF knownFacts
  <2>2. CASE who # "rest"
    <3>1. rest' = rest /\ \A l \in loads' : l.who = "rest" => l \in loads
      BY <2>1, <2>2 DEF Load
    <3>2. job'.kind = job.kind /\ job'.n = job.n /\ job'.write = job.write /\ (Reading' => Reading)
      BY <1>1 DEF Reading
    <3> QED
      BY <1>1, <2>1, <3>1, <3>2, StillRest
  <2>3. CASE who = "rest"
    <3>1. /\ rest' \in [resting : BOOLEAN, asking : {"no", "yes", "disturbed"},
                        sleep : {rest'.sleep}, started : {rest'.started},
                        active : {rest'.active}, stopped : {rest'.stopped}]
          /\ rest'.asking = "yes" /\ rest'.resting = rest.resting /\ rest'.sleep = rest.sleep
          /\ rest'.stopped = rest.stopped /\ rest'.started = rest.started
      BY <2>1, <2>3 DEF RestOK
    <3>2. PICK m : loads' = loads \union {m}
      BY <2>1 DEF Load
    <3>3. \A l \in loads : l.who # "rest"
      BY <2>3 DEF RestOK
    <3> QED
      BY <1>1, <2>1, <2>3, <3>1, <3>2, <3>3 DEF RestOK, Reading
  <2> QED
    BY <2>2, <2>3
<1> QED
  BY <1>2, <1>3

\* The job is given the facts, and goes on or is over.
LEMMA KnowingOn ==
  ASSUME IsJob(job), job.kind = "extract" => job.stage = "none",
         NEW facts, job' = Knowing(job, facts)
  PROVE  \/ job' = NoJob
         \/ /\ job'.kind = job.kind /\ job'.n = job.n
            /\ job.kind = "extract" \/ job.stage \in {"rules", "tidy"}
<1>1. CASE job.kind = "extract"
  <2>0. job.stage # "rules" /\ job.stage # "tidy"
    BY <1>1
  <2>1. job' = [job EXCEPT !.phase = "ask", !.known = facts]
    BY <1>1, <2>0, Zenon DEF Knowing
  <2> QED
    BY <1>1, <2>1 DEF IsJob
<1>2. CASE job.kind # "extract" /\ job.stage = "rules"
  <2> DEFINE todo == Writes(applyMerges(facts, ruleMerges(facts)))
  <2>1. job' = [job EXCEPT !.phase = "write", !.holds = TRUE, !.todo = todo]
    BY <1>2, Zenon DEF Knowing
  <2> HIDE DEF todo
  <2> QED
    BY <1>2, <2>1 DEF IsJob
<1>3. CASE job.kind # "extract" /\ job.stage = "tidy"
  <2> DEFINE todo == Writes(consolidateFacts(facts, now))
  <2>1. job' = [job EXCEPT !.phase = "write", !.holds = TRUE, !.todo = todo]
    <3>1. job.stage # "rules"
      BY <1>3
    <3> QED
      BY <1>3, <3>1, Zenon DEF Knowing
  <2> HIDE DEF todo
  <2> QED
    BY <1>3, <2>1 DEF IsJob
<1>4. CASE job.kind # "extract" /\ job.stage # "rules" /\ job.stage # "tidy"
  <2>1. job' = NoJob
    BY <1>4, Zenon DEF Knowing
  <2> QED
    BY <2>1
<1> QED
  BY <1>1, <1>2, <1>3, <1>4

\* And the rest is as it was.
LEMMA JobKnowsRest ==
  ASSUME Kernel, RestOK, NEW facts, job' = Knowing(job, facts),
         UNCHANGED <<rest, queue, queued, now, slept>>,
         \A l \in loads' : l.who = "rest" => l \in loads
  PROVE  RestOK'
<1>1. /\ IsJob(job) /\ (job.stage \in {"rules", "tidy"} => job.kind = "sleep")
      /\ job.kind = "extract" => job.stage = "none"
  BY DEF Kernel, JobOK
<1>2. job' = NoJob \/ (job'.kind = job.kind /\ job'.n = job.n /\ job.kind \notin Edits)
  BY <1>1, KnowingOn DEF Edits
<1> QED
  BY <1>2, StillRest DEF NoJob, Edits

\* A sleep is over: that she was not woken from it means that nothing waits.
LEMMA SleptRest ==
  ASSUME Kernel, RestOK, SleepOver, job.kind = "sleep",
         UNCHANGED <<queue, queued, now, loads>>
  PROVE  /\ RestOK'
         /\ ~Stopped => rest.started \in 0 .. now /\ slept' = rest.started
<1>1. /\ job' = NoJob /\ slept' = Slept
      /\ rest' = [rest EXCEPT !.sleep = IF @ = job.n THEN 0 ELSE @]
  BY DEF SleepOver
<1>2. /\ rest' \in [resting : BOOLEAN, asking : {"no", "yes", "disturbed"},
                    sleep : {rest'.sleep}, started : {rest'.started},
                    active : {rest'.active}, stopped : {rest'.stopped}]
      /\ rest'.asking = rest.asking /\ rest'.resting = rest.resting
      /\ rest'.sleep = IF rest.sleep = job.n THEN 0 ELSE rest.sleep
      /\ rest'.stopped = rest.stopped /\ rest'.started = rest.started
  BY <1>1 DEF RestOK
<1>3. /\ job.n = Turn /\ Turn \in Nat \ {0} /\ queued = Turn + Len(queue) /\ Len(queue) \in Nat
      /\ DOMAIN queue = 1 .. Len(queue) /\ \A i \in DOMAIN queue : queue[i].n = Turn + i
  BY Numbers DEF Kernel, JobOK, QueueOK
<1>4. \A i \in DOMAIN queue : queue[i].n # job.n
  BY <1>3
<1>5. CASE Stopped
  <2>1. slept' = slept
    BY <1>1, <1>5 DEF Slept
  <2>2. \A i \in DOMAIN queue : queue[i].kind = "sleep" =>
          queue[i].n \in rest.stopped \union {rest'.sleep}
    BY <1>2, <1>4 DEF RestOK
  <2> QED
    BY <1>1, <1>2, <1>5, <2>1, <2>2 DEF RestOK, NoJob
<1>6. CASE ~Stopped
  <2>1. slept' = rest.started
    BY <1>1, <1>6 DEF Slept
  <2>2. rest.sleep = job.n /\ rest.sleep # 0
    BY <1>3, <1>6 DEF RestOK, Stopped
  <2>3. rest.sleep = queued /\ rest.started \in 0 .. now
    BY <2>2 DEF RestOK
  <2>4. DOMAIN queue = {}
    BY <1>3, <2>2, <2>3
  <2> QED
    BY <1>1, <1>2, <1>6, <2>1, <2>2, <2>3, <2>4 DEF RestOK, NoJob
<1> QED
  BY <1>5, <1>6

\* The rest stays as it is, whatever happens.
LEMMA RestStep ==
  ASSUME Kernel, RestOK, [Next]_vars
  PROVE  RestOK'
<1>0. IsJob(job) /\ now \in Nat /\ slept \in 0 .. now
  BY DEF Kernel, JobOK, StoreOK, RestOK
<1>1. CASE UNCHANGED vars
  BY <1>1, StillRest DEF vars, Reading
<1>2. CASE Exchange
  BY <1>2, AskedRest DEF Exchange, Kinds
<1>3. ASSUME NEW fact \in shown, deleteFact(fact)
      PROVE  RestOK'
  BY <1>3, AskedRest DEF deleteFact, Kinds, Edits
<1>4. ASSUME NEW fact \in shown, NEW object \in Wordings, correctFact(fact, object)
      PROVE  RestOK'
  BY <1>4, AskedRest DEF correctFact, Kinds, Edits
<1>5. ASSUME NEW object \in Wordings, recordFact(object)
      PROVE  RestOK'
  BY <1>5, AskedRest DEF recordFact, Kinds, Edits
<1>6. ASSUME NEW fact \in table, closeFact(fact)
      PROVE  RestOK'
  BY <1>6, AskedRest DEF closeFact, Kinds, Edits
<1>7. CASE PanelLoads
  BY <1>7, KnownRest DEF PanelLoads
<1>8. CASE NoteReads
  BY <1>8, KnownRest DEF NoteReads
<1>9. CASE RestLooks
  BY <1>9, KnownRest DEF RestLooks
<1>10. CASE ReadLands
  <2>1. PICK l \in loads :
          /\ loads' = loads \ {l}
          /\ IF l.who = "job"
             THEN IF l.n = job.n
                  THEN JobKnows(l.facts) /\ UNCHANGED <<queue, queued, rest>>
                  ELSE UNCHANGED <<cache, job, done, note, shown, gone, queue, queued, rest>>
             ELSE /\ job' = [job EXCEPT !.holds = FALSE]
                  /\ Given(l.who, l.n, l.facts)
          /\ UNCHANGED <<now, slept>>
    BY <1>10 DEF ReadLands
  <2>2. CASE l.who = "job" /\ l.n = job.n
    BY <2>1, <2>2, JobKnowsRest DEF JobKnows
  <2>3. CASE l.who = "job" /\ l.n # job.n
    BY <2>1, <2>3, StillRest DEF Reading
  <2>4. CASE l.who # "job"
    <3>1. /\ job'.kind = job.kind /\ job'.n = job.n /\ job'.write = job.write
          /\ job'.phase = job.phase
      BY <1>0, <2>1, <2>4 DEF IsJob
    <3>2. l.who # "rest" \/ ~rest.resting \/ rest.asking = "disturbed"
      BY DEF RestOK
    <3>3. l.who = "rest" => \A m \in loads' : m.who # "rest"
      BY <2>1 DEF RestOK
    <3>4. CASE l.who # "rest" \/ ~rest.resting
      BY <2>1, <2>4, <3>1, <3>3, <3>4, GivenRest
    <3>5. CASE l.who = "rest" /\ rest.asking = "disturbed"
      <4>1. rest' = [rest EXCEPT !.asking = "no"] /\ UNCHANGED <<queue, queued>>
        BY <2>1, <2>4, <3>5 DEF Given, LiesDown
      <4>2. /\ rest' \in [resting : BOOLEAN, asking : {"no", "yes", "disturbed"},
                          sleep : {rest'.sleep}, started : {rest'.started},
                          active : {rest'.active}, stopped : {rest'.stopped}]
            /\ rest'.asking = "no" /\ rest'.resting = rest.resting /\ rest'.sleep = rest.sleep
            /\ rest'.stopped = rest.stopped /\ rest'.started = rest.started
        BY <4>1 DEF RestOK
      <4>3. \A m \in loads' : m.who # "rest"
        BY <3>3, <3>5
      <4> QED
        BY <2>1, <3>1, <4>1, <4>2, <4>3 DEF RestOK, Reading
    <3> QED
      BY <3>2, <3>4, <3>5
  <2> QED
    BY <2>2, <2>3, <2>4
<1>11. CASE JobStarts
  <2> DEFINE j == Head(queue)
  <2>1. IsChannel(queue) /\ queue # <<>> /\ queue' = Tail(queue)
        /\ UNCHANGED <<now, loads, rest, slept, queued>>
    BY <1>11 DEF JobStarts, Kernel, QueueOK
  <2>2. /\ DOMAIN queue' = 1 .. (Len(queue) - 1) /\ DOMAIN queue = 1 .. Len(queue)
        /\ Len(queue) \in Nat
        /\ \A i \in DOMAIN queue' : queue'[i] = queue[i + 1] /\ i + 1 \in DOMAIN queue
        /\ j = queue[1] /\ 1 \in DOMAIN queue
    BY <2>1, ChannelTail
  <2>3. Waits(j)
    BY <2>2 DEF Kernel, QueueOK
  <2>4. /\ j.kind = "record" => j.write.fact.recorded >= slept
        /\ j.kind = "sleep" => j.n \in rest.stopped \union {rest.sleep}
    BY <2>2 DEF RestOK
  <2> HIDE DEF j
  <2>5. job' = CASE j.kind \in Edits -> [j EXCEPT !.phase = "edit"]
                 [] j.kind = "sleep" -> [j EXCEPT !.phase = "read", !.stage = "rules"]
                 [] OTHER -> [j EXCEPT !.phase = "read"]
    BY <1>11 DEF JobStarts, j
  <2>6. /\ job'.kind = j.kind /\ job'.n = j.n /\ job'.write = j.write
        /\ j.kind = "correct" => job'.phase = "edit"
    BY <2>3, <2>5 DEF Waits, IsJob, Kinds, Edits
  <2>7. \A i \in DOMAIN queue' :
          /\ queue'[i].kind = "record" => queue'[i].write.fact.recorded >= slept
          /\ queue'[i].kind = "sleep" => queue'[i].n \in rest.stopped \union {rest.sleep}
    BY <2>2 DEF RestOK
  <2> QED
    BY <2>1, <2>4, <2>6, <2>7 DEF RestOK, Reading
<1>12. CASE JobReads
  <2>1. CASE cache.loaded
    BY <1>12, <2>1, JobKnowsRest DEF JobReads, JobKnows
  <2>2. CASE ~cache.loaded
    <3>1. Load("job", job.n) /\ job' = [job EXCEPT !.phase = "reading"] /\ Reading
      BY <1>12, <2>2 DEF JobReads, Reading
    <3>2. job'.kind = job.kind /\ job'.n = job.n /\ job'.write = job.write
      BY <1>0, <3>1 DEF IsJob
    <3> QED
      BY <1>12, <3>1, <3>2, StillRest DEF JobReads, Load
  <2> QED
    BY <2>1, <2>2
<1>13. CASE Hears
  <2>1. job.kind = "extract" /\ UNCHANGED <<rest, queue, queued, now, slept, loads>>
    BY <1>13 DEF Hears
  <2>2. CASE job' = NoJob
    BY <2>1, <2>2, StillRest DEF NoJob
  <2>3. CASE job' # NoJob
    <3>1. PICK w : job' = [job EXCEPT !.phase = "write", !.holds = TRUE, !.known = {},
                                      !.todo = Writes(w)]
      BY <1>13, <2>3, HearsPlan
    <3>2. job'.kind = job.kind /\ job'.n = job.n
      BY <1>0, <3>1 DEF IsJob
    <3> QED
      BY <2>1, <3>2, StillRest
  <2> QED
    BY <2>2, <2>3
<1>14. CASE EditWrites
  <2> DEFINE w == Made(job.write)
  <2>1. /\ job.phase = "edit" /\ job' = [job EXCEPT !.phase = "read", !.write = w]
        /\ UNCHANGED <<rest, queue, queued, now, slept, loads>>
    BY <1>14 DEF EditWrites
  <2>2. job'.kind = job.kind /\ job'.n = job.n /\ job'.write = w
    BY <1>0, <2>1 DEF IsJob
  <2>3. job.kind = "record" => w = job.write
    BY DEF Made
  <2>4. job.kind = "correct" => w.fact.recorded = now
    <3>1. SUFFICES ASSUME job.kind = "correct" PROVE w.fact.recorded = now
      OBVIOUS
    <3>2. w = [job.write EXCEPT !.fact.recorded = now]
      BY <3>1 DEF Made
    <3>3. job.write \in [op : {"upsert"}, id : {job.write.fact.id}, fact : {job.write.fact}]
          /\ IsFact(job.write.fact)
      BY <3>1 DEF Kernel, JobOK, EditOK
    <3> QED
      BY <3>2, <3>3 DEF IsFact
  <2> HIDE DEF w
  <2> QED
    BY <1>0, <2>1, <2>2, <2>3, <2>4 DEF RestOK
<1>15. CASE Applies
  <2>1. /\ job' = [job EXCEPT !.todo = Tail(@)] /\ job.phase = "write"
        /\ UNCHANGED <<rest, queue, queued, now, slept, loads>>
    BY <1>15 DEF Applies
  <2>2. job'.kind = job.kind /\ job'.n = job.n /\ job'.write = job.write /\ job'.phase = job.phase
    BY <1>0, <2>1 DEF IsJob
  <2> QED
    BY <2>1, <2>2, StillRest DEF Reading
<1>16. CASE Refused \/ StoreFails
  BY <1>16, StillRest DEF Refused, StoreFails, NoJob
<1>17. CASE PlanWritten
  <2>1. job.phase = "write" /\ UNCHANGED <<queue, queued, now, loads>>
    BY <1>17 DEF PlanWritten
  <2>2. job.stage \in {"rules", "model", "tidy"} => job.kind = "sleep"
    BY DEF Kernel, JobOK
  <2>3. CASE SleepOver /\ job.kind = "sleep"
    BY <2>1, <2>3, SleptRest
  <2>4. CASE job' = NoJob /\ UNCHANGED <<rest, slept>>
    BY <2>1, <2>4, StillRest DEF NoJob
  <2>5. CASE /\ job' = [job EXCEPT !.phase = "ask", !.stage = "model",
                                   !.known = Mergeable(cache.facts), !.holds = FALSE]
             /\ UNCHANGED <<rest, slept>>
    <3>1. /\ job'.kind = job.kind /\ job'.n = job.n /\ job'.write = job.write
          /\ job'.phase = "ask"
      BY <1>0, <2>5 DEF IsJob
    <3> QED
      BY <2>1, <2>5, <3>1, StillRest DEF Reading
  <2>6. CASE /\ job' = [job EXCEPT !.phase = "read", !.stage = "tidy", !.holds = FALSE]
             /\ UNCHANGED <<rest, slept>> /\ job.kind # "extract"
    <3>1. job'.kind = job.kind /\ job'.n = job.n
      BY <1>0, <2>6 DEF IsJob
    <3>2. job.kind \notin {"correct", "record"}
      BY <2>1 DEF Kernel, JobOK, Edits
    <3> QED
      BY <2>1, <2>6, <3>1, <3>2, StillRest
  <2> QED
    BY <1>17, <2>2, <2>3, <2>4, <2>5, <2>6 DEF PlanWritten
<1>18. CASE Merges
  <2>1. PICK todo : job' = [job EXCEPT !.phase = "write", !.holds = TRUE, !.known = {},
                                       !.todo = todo]
    BY <1>18 DEF Merges
  <2>2. job'.kind = job.kind /\ job'.n = job.n /\ job.kind = "sleep"
    BY <1>0, <1>18, <2>1 DEF IsJob, Merges
  <2> QED
    BY <1>18, <2>2, StillRest DEF Merges
<1>19. CASE Wakes
  <2>1. rest' = Woken /\ UNCHANGED <<now, queue, job, queued, loads, slept>>
    BY <1>19 DEF Wakes
  <2>2. \A i \in DOMAIN queue : queue[i].n # 0
    BY Numbers DEF Kernel, QueueOK
  <2>3. job.kind = "sleep" => job.n # 0
    BY Numbers DEF Kernel, JobOK
  <2>4. \A i \in DOMAIN queue : queue[i].kind = "sleep" => queue[i].n \in rest'.stopped
    BY <2>1, <2>2, WokenRest DEF RestOK
  <2>5. job.kind = "sleep" => job.n \in rest'.stopped
    BY <2>1, <2>3, WokenRest DEF RestOK
  <2> QED
    BY <2>1, <2>4, <2>5, WokenRest DEF RestOK, Reading
<1>20. CASE Advance
  <2>1. now' = now + 1 /\ UNCHANGED <<queue, job, queued, loads, rest, slept>>
    BY <1>20 DEF Advance
  <2>2. \A k \in 0 .. now : k \in 0 .. now'
    BY <1>0, <2>1
  <2> QED
    BY <2>1, <2>2 DEF RestOK, Reading
<1>21. CASE Reloads
  <2>1. /\ queue' = <<>> /\ job' = NoJob /\ loads' = {} /\ rest' = [Awake EXCEPT !.active = now]
        /\ now' = now /\ slept' = slept
    BY <1>21 DEF Reloads
  <2>2. DOMAIN queue' = {}
    BY <2>1, NoChannel
  <2> QED
    BY <1>0, <2>1, <2>2 DEF RestOK, Awake, NoJob
<1>22. CASE ReadFails
  <2>1. PICK l \in loads :
          /\ loads' = loads \ {l}
          /\ job' = NoJob \/ job' = job
          /\ l.who = "rest" => job' = job
          /\ rest' = IF l.who = "rest" THEN [rest EXCEPT !.asking = "no"] ELSE rest
          /\ UNCHANGED <<now, queue, queued, slept>>
    BY <1>22 DEF ReadFails
  <2>2. CASE l.who # "rest"
    BY <2>1, <2>2, StillRest DEF NoJob, Reading
  <2>3. CASE l.who = "rest"
    <3>1. /\ rest' \in [resting : BOOLEAN, asking : {"no", "yes", "disturbed"},
                        sleep : {rest'.sleep}, started : {rest'.started},
                        active : {rest'.active}, stopped : {rest'.stopped}]
          /\ rest'.asking = "no" /\ rest'.resting = rest.resting /\ rest'.sleep = rest.sleep
          /\ rest'.stopped = rest.stopped /\ rest'.started = rest.started
      BY <2>1, <2>3 DEF RestOK
    <3>2. \A m \in loads' : m.who # "rest"
      BY <2>1, <2>3 DEF RestOK
    <3> QED
      BY <2>1, <2>3, <3>1, <3>2 DEF RestOK, Reading
  <2> QED
    BY <2>2, <2>3
<1> QED
  BY <1>1, <1>2, <1>3, <1>4, <1>5, <1>6, <1>7, <1>8, <1>9, <1>10, <1>11, <1>12, <1>13, <1>14,
     <1>15, <1>16, <1>17, <1>18, <1>19, <1>20, <1>21, <1>22 DEF Next, Asks, Works

\* The facts a sleep is answerable for: those believed that are current, or that
\* whoever writes has in hand and may make current again.
InHand ==
  {f \in Believed :
     \/ isCurrent(f, now)
     \/ cache.loaded /\ f \in cache.facts
     \/ f \in job.known
     \/ \E i \in DOMAIN job.todo : job.todo[i].op = "upsert" /\ job.todo[i].id = f.id}

\* What was recorded before the sleep she last finished stays sorted.
SortedOK ==
  \A f \in InHand : f.recorded < slept =>
    /\ ~Hedged(f, slept)
    /\ \A g \in InHand : g.recorded < slept => ~Twice(f, g)

\* What is left to be written is new, of a fact she will not believe, or says no
\* less of a fact than the store does; and it is written once.
UpsertsOK ==
  \A i \in DOMAIN job.todo : LET u == job.todo[i] IN u.op = "upsert" =>
    /\ \/ job.kind = "extract" /\ u.fact.recorded >= slept
       \/ u.id \in expired
       \/ \E f \in table : Continues(f, u.fact)
    /\ \A k \in DOMAIN job.todo : job.todo[k].id = u.id =>
         job.todo[k].op = "upsert" /\ job.todo[k].fact = u.fact

\* Once a sleep has merged by rule, of what says the same one goes.
MergingOK ==
  (job.kind = "sleep" /\ (job.stage # "rules" \/ job.phase = "write")) =>
    \A f, g \in InHand : Twice(f, g) =>
      \E i \in DOMAIN job.todo : job.todo[i].op = "expire" /\ job.todo[i].id \in {f.id, g.id}

\* And once she tidies, what she would have forgotten as she lay down is changed.
TidyOK ==
  (job.stage = "tidy" /\ job.phase = "write" /\ ~Stopped) =>
    /\ \A f \in InHand : Hedged(f, rest.started) =>
         \E i \in DOMAIN job.todo : job.todo[i].id = f.id
    /\ \A i \in DOMAIN job.todo : job.todo[i].op = "upsert" =>
         ~Hedged(job.todo[i].fact, rest.started)

\* A fact that is in hand after a step, and what it was before.
Same(f, g) ==
  /\ g.id = f.id /\ g.predicate = f.predicate /\ g.object = f.object
  /\ g.recorded = f.recorded /\ f.conf <= g.conf
  /\ g.to = None => f.to = None

\* The facts in hand are facts of the table.
LEMMA HandIsStored ==
  ASSUME Kernel
  PROVE  /\ \A f \in InHand : f \in table /\ f.id \notin expired /\ IsFact(f) /\ Same(f, f)
         /\ \A f, g \in table : f.id = g.id => f = g
<1>1. \A f \in table : IsFact(f)
  BY DEF Kernel, StoreOK, Sound, AreFacts
<1>2. \A f \in InHand : f \in table /\ f.id \notin expired
  BY DEF InHand, Believed
<1>3. \A f \in InHand : IsFact(f) /\ f.conf \in Nat
  BY <1>1, <1>2 DEF IsFact
<1>4. \A f \in InHand : Same(f, f)
  BY <1>3 DEF Same
<1>5. \A f, g \in table : f.id = g.id => f = g
  BY DEF Kernel, StoreOK, Sound, AreFacts
<1> QED
  BY <1>2, <1>3, <1>4, <1>5

\* What follows a fact says the same twice only if that did, and is to be
\* forgotten only if that was.
LEMMA SameSays ==
  ASSUME NEW f, NEW g, IsFact(f), IsFact(g), Same(f, g)
  PROVE  /\ \A when : Hedged(g, when) => Hedged(f, when)
         /\ \A d, e : IsFact(d) /\ Same(d, e) /\ e.id # g.id /\ Twice(e, g) => Twice(d, f)
<1>1. f.conf \in Nat /\ g.conf \in Nat /\ f.conf <= g.conf /\ ForgetBelow \in Nat
  BY FactsAssumption DEF IsFact, Same
<1>2. g.conf < ForgetBelow => f.conf < ForgetBelow
  BY <1>1
<1>3. \A when : Hedged(g, when) => Hedged(f, when)
  BY <1>2 DEF Hedged, Same
<1>4. ASSUME NEW d, NEW e, Same(d, e), e.id # g.id, Twice(e, g)
      PROVE  Twice(d, f)
  <2>1. d.id # f.id
    BY <1>4 DEF Same
  <2>2. Key(d) = Key(e) /\ Key(f) = Key(g)
    BY <1>4 DEF Same, Key
  <2> QED
    BY <1>4, <2>1, <2>2 DEF Same, Twice
<1> QED
  BY <1>3, <1>4

\* What was sorted stays so if all that is in hand follows what was, or is new.
LEMMA SortedFrom ==
  ASSUME Kernel, Kernel', SortedOK, slept \in Nat, slept' = slept,
         \A g \in InHand' : g.recorded >= slept \/ \E f \in InHand : Same(f, g)
  PROVE  SortedOK'
<1>1. \A f \in InHand : IsFact(f)
  BY HandIsStored
<1>2. \A g \in InHand' : g \in table'
  BY DEF InHand, Believed
<1>3. /\ \A g \in table' : IsFact(g)
      /\ \A g, h \in table' : g.id = h.id => g = h
  BY DEF Kernel, StoreOK, Sound, AreFacts
<1>4. ASSUME NEW g, g \in InHand', g.recorded < slept
      PROVE  \E f \in InHand : f.recorded < slept /\ Same(f, g)
  <2>1. ~(g.recorded >= slept)
    BY <1>2, <1>3, <1>4 DEF IsFact
  <2> QED
    BY <2>1, <1>4 DEF Same
<1>5. ASSUME NEW g, g \in InHand', g.recorded < slept
      PROVE  ~Hedged(g, slept)
  <2>1. PICK f \in InHand : f.recorded < slept /\ Same(f, g)
    BY <1>4, <1>5
  <2>2. IsFact(f) /\ IsFact(g) /\ ~Hedged(f, slept)
    BY <1>1, <1>2, <1>3, <1>5, <2>1 DEF SortedOK
  <2> QED
    BY <2>1, <2>2, SameSays
<1>6. ASSUME NEW g, g \in InHand', g.recorded < slept,
             NEW h, h \in InHand', h.recorded < slept, Twice(g, h)
      PROVE  FALSE
  <2>1. PICK e \in InHand : e.recorded < slept /\ Same(e, g)
    BY <1>4, <1>6
  <2>2. PICK f \in InHand : f.recorded < slept /\ Same(f, h)
    BY <1>4, <1>6
  <2>3. IsFact(e) /\ IsFact(f) /\ IsFact(g) /\ IsFact(h) /\ ~Twice(e, f)
    BY <1>1, <1>2, <1>3, <1>6, <2>1, <2>2 DEF SortedOK
  <2>4. g.id # h.id
    BY <1>2, <1>3, <1>6 DEF Twice
  <2> QED
    BY <1>6, <2>1, <2>2, <2>3, <2>4, SameSays
<1>7. \A g \in InHand' : g.recorded < slept =>
        /\ ~Hedged(g, slept)
        /\ \A h \in InHand' : h.recorded < slept => ~Twice(g, h)
  BY <1>5, <1>6
<1> QED
  BY <1>7 DEF SortedOK

\* Nothing more comes to hand while the table stays, unless somebody takes it.
LEMMA HandShrinks ==
  ASSUME Kernel, UNCHANGED <<table, expired>>, now' \in Nat, now <= now',
         cache'.loaded => \A f \in cache'.facts : f \in Believed => f \in InHand,
         \A f \in job'.known : f \in Believed => f \in InHand,
         \A i \in DOMAIN job'.todo, f \in Believed :
           job'.todo[i].op = "upsert" /\ job'.todo[i].id = f.id => f \in InHand
  PROVE  \A g \in InHand' : g \in InHand
<1>1. \A f \in table : IsFact(f) /\ f.to \in Nat
  BY DEF Kernel, StoreOK, Sound, AreFacts, IsFact
<1>2. now \in Nat
  BY DEF Kernel, StoreOK
<1>3. \A f \in Believed : f.to = None \/ f.to > now' => f \in InHand
  BY <1>1, <1>2 DEF InHand, Believed, isCurrent
<1> QED
  BY <1>3 DEF InHand, Believed, isCurrent

\* What a plan writes of facts that are known, it writes once, and of one of them.
LEMMA PlanFromWrites ==
  ASSUME NEW F, NEW w, PlanFrom(F, w), NEW T, T = Writes(w)
  PROVE  \A i \in DOMAIN T : T[i].op = "upsert" =>
           /\ T[i].fact \in w.upserts /\ IsFact(T[i].fact)
           /\ \E f \in F : Continues(f, T[i].fact) /\ f.id = T[i].id
           /\ \A k \in DOMAIN T : T[k].id = T[i].id => T[k].op = "upsert" /\ T[k].fact = T[i].fact
<1>1. \A i \in DOMAIN T :
        \/ \E s \in w.supersede : T[i] = [op |-> "supersede", id |-> s.id, at |-> s.at]
        \/ \E id \in w.expire : T[i] = [op |-> "expire", id |-> id]
        \/ \E f \in w.upserts : T[i] = [op |-> "upsert", id |-> f.id, fact |-> f]
  BY PlanInOrder DEF PlanFrom
<1>2. \A i \in DOMAIN T :
        /\ T[i].op = "upsert" => T[i].fact \in w.upserts /\ T[i].id = T[i].fact.id
        /\ T[i].op # "upsert" => \/ \E s \in w.supersede : T[i].id = s.id
                                 \/ T[i].id \in w.expire
  BY <1>1
<1> QED
  BY <1>2 DEF PlanFrom, Continues

\* A sleep is given the facts, and plans.
LEMMA KnowingPlan ==
  ASSUME IsJob(job), job.kind = "sleep", NEW facts, AreFacts(facts), job' = Knowing(job, facts)
  PROVE  \/ job' = NoJob /\ job.stage \notin {"rules", "tidy"}
         \/ \E w : /\ PlanFrom(facts, w)
                   /\ job' = [job EXCEPT !.phase = "write", !.holds = TRUE, !.todo = Writes(w)]
                   /\ \/ job.stage = "rules" /\ w = applyMerges(facts, ruleMerges(facts))
                      \/ job.stage = "tidy" /\ w = consolidateFacts(facts, now)
<1>0. job.kind # "extract"
  OBVIOUS
<1>1. CASE job.stage = "rules"
  <2>1. PICK w : w = applyMerges(facts, ruleMerges(facts))
    OBVIOUS
  <2>2. job' = [job EXCEPT !.phase = "write", !.holds = TRUE, !.todo = Writes(w)]
    BY <1>0, <1>1, <2>1, Zenon DEF Knowing
  <2>3. PlanFrom(facts, w)
    <3>1. PICK groups : groups = ruleMerges(facts)
      OBVIOUS
    <3>2. GroupsOK(facts, groups) /\ w = applyMerges(facts, groups)
      BY <2>1, <3>1, RuleGroups
    <3> QED
      BY <3>2, MergesPlan
  <2> QED
    BY <1>1, <2>1, <2>2, <2>3
<1>2. CASE job.stage = "tidy"
  <2>1. PICK w : w = consolidateFacts(facts, now)
    OBVIOUS
  <2>2. job' = [job EXCEPT !.phase = "write", !.holds = TRUE, !.todo = Writes(w)]
    <3>1. job.stage # "rules"
      BY <1>2
    <3> QED
      BY <1>0, <1>2, <2>1, <3>1, Zenon DEF Knowing
  <2>3. PlanFrom(facts, w)
    BY <2>1, TidyPlan
  <2> QED
    BY <1>2, <2>1, <2>2, <2>3
<1>3. CASE job.stage # "rules" /\ job.stage # "tidy"
  BY <1>0, <1>3, Zenon DEF Knowing
<1> QED
  BY <1>1, <1>2, <1>3

\* What is in hand after a step was so before it, or is new and not a sleep's.
Follows(g) ==
  \/ \E f \in InHand : Same(f, g)
  \/ g.recorded >= slept /\ job.kind # "sleep"

\* The job is given the facts.
LEMMA HandKnows ==
  ASSUME Kernel, RestOK, Reading, NEW facts, Sound(facts, Fresh, gone), InStep(Landed(facts)),
         \A f \in facts : f \in Believed => f \in InHand,
         job' = Knowing(job, facts), cache' = CacheKnowing(job, facts),
         UNCHANGED <<now, table, expired>>
  PROVE  \A g \in InHand' : Follows(g)
<1>1. /\ IsJob(job) /\ job.todo = <<>> /\ job.known = {} /\ AreFacts(facts) /\ now \in Nat
      /\ \A f \in InHand : Same(f, f)
      /\ \A f, g \in table : f.id = g.id => f = g
  BY HandIsStored DEF Reading, Kernel, JobOK, StoreOK, Sound
<1>2. DOMAIN (<<>>) = {}
  OBVIOUS
<1>3. CASE job.kind \in Edits
  <2>1. job' = NoJob /\ cache' = Cached(CacheAfter(facts, job.write))
    <3>1. job.kind # "extract" /\ job.stage # "rules" /\ job.stage # "tidy"
      BY <1>3 DEF Kernel, JobOK, Edits
    <3>2. job' = NoJob
      BY <3>1, Zenon DEF Knowing
    <3> QED
      BY <1>3, <3>2 DEF CacheKnowing, Finishes
  <2>2. \A g \in InHand' : g \in Believed /\ (g \in InHand \/ g \in CacheAfter(facts, job.write))
    <3> DEFINE after == CacheAfter(facts, job.write)
    <3>1. cache'.facts = after /\ job'.known = {} /\ DOMAIN job'.todo = {}
      BY <1>2, <2>1 DEF Cached, NoJob
    <3> HIDE DEF after
    <3>2. Believed' = Believed
      BY DEF Believed
    <3>3. \A g \in InHand' : g \in Believed /\ (isCurrent(g, now) \/ g \in after)
      BY <3>1, <3>2 DEF InHand, isCurrent
    <3>4. \A g \in Believed : isCurrent(g, now) => g \in InHand
      BY DEF InHand
    <3> QED
      BY <3>3, <3>4 DEF after
  <2>3. CASE job.kind \in {"delete", "close"}
    <3>1. CacheAfter(facts, job.write) = Without(facts, {job.write.id})
      <4>1. job.kind = "delete" => job.write.op = "delete"
        BY DEF Kernel, JobOK, EditOK
      <4>2. job.kind = "close" => job.write.op = "supersede" /\ ~(job.write.at > now)
        <5>1. job.kind = "close" => job.write.op = "supersede"
          BY DEF Kernel, JobOK, EditOK
        <5>2. job.kind = "close" => job.write.at \in 1 .. now
          BY <1>3 DEF Kernel, EditMade
        <5> QED
          BY <1>1, <5>1, <5>2
      <4> QED
        BY <2>3, <4>1, <4>2 DEF CacheAfter
    <3> QED
      BY <1>1, <2>2, <3>1 DEF Without, Follows
  <2>4. CASE job.kind \in {"correct", "record"}
    <3>1. CacheAfter(facts, job.write) = Put(facts, job.write.fact)
      <4>1. job.write.op = "upsert"
        BY <2>4 DEF Kernel, JobOK, EditOK
      <4> QED
        BY <4>1 DEF CacheAfter
    <3>2. job.write.fact.recorded >= slept
      BY <2>4 DEF RestOK
    <3> QED
      BY <1>1, <2>2, <2>4, <3>1, <3>2 DEF Put, Without, Follows
  <2> QED
    BY <1>3, <2>3, <2>4 DEF Edits
<1>4. CASE job.kind \notin Edits
  <2>1. cache' = Cached(facts) /\ facts \subseteq table
    BY <1>4 DEF CacheKnowing, Finishes, Landed, InStep
  <2>2. cache'.facts = facts
    BY <2>1 DEF Cached
  <2>3. CASE job' = NoJob
    <3>1. job'.known = {} /\ DOMAIN job'.todo = {}
      BY <1>2, <2>3 DEF NoJob
    <3> QED
      BY <1>1, <2>2, <3>1, HandShrinks DEF Follows
  <2>4. CASE job.kind = "extract"
    <3>1. job' = [job EXCEPT !.phase = "ask", !.known = facts]
      <4>1. job.stage # "rules" /\ job.stage # "tidy"
        BY <2>4 DEF Kernel, JobOK
      <4> QED
        BY <2>4, <4>1, Zenon DEF Knowing
    <3>2. job'.known = facts /\ DOMAIN job'.todo = {}
      BY <1>1, <1>2, <3>1 DEF IsJob
    <3> QED
      BY <1>1, <2>2, <3>2, HandShrinks DEF Follows
  <2>5. CASE job.kind = "sleep" /\ job' # NoJob
    <3>1. PICK w : /\ PlanFrom(facts, w)
                   /\ job' = [job EXCEPT !.phase = "write", !.holds = TRUE, !.todo = Writes(w)]
      BY <1>1, <2>5, KnowingPlan
    <3>2. job'.known = {} /\ job'.todo = Writes(w)
      BY <1>1, <3>1 DEF IsJob
    <3>3. PICK T : T = Writes(w)
      OBVIOUS
    <3>4. \A i \in DOMAIN T : T[i].op = "upsert" => \E f \in facts : f.id = T[i].id
      BY <3>1, <3>3, PlanFromWrites
    <3>5. \A i \in DOMAIN T, f \in Believed : T[i].op = "upsert" /\ T[i].id = f.id => f \in facts
      BY <1>1, <2>1, <3>4 DEF Believed
    <3> QED
      BY <1>1, <2>2, <3>2, <3>3, <3>5, HandShrinks DEF Follows
  <2> QED
    BY <1>1, <1>4, <2>3, <2>4, <2>5 DEF Kernel, JobOK, Reading, NoJob
<1> QED
  BY <1>3, <1>4

\* What a write makes of the fact it is about.
LEMMA WriteMakes ==
  ASSUME Kernel, job.phase = "write", job.todo # <<>>, NEW w, w = Head(job.todo), StoreDoes(w)
  PROVE  /\ w.op \in {"supersede", "expire", "upsert"}
         /\ \A g \in Believed' :
              /\ g.id # w.id => g \in Believed
              /\ w.op = "expire" => g.id # w.id
              /\ w.op = "upsert" /\ g.id = w.id => g = w.fact
              /\ w.op = "supersede" /\ g.id = w.id =>
                   g.to = w.at /\ w.at # None /\ \E f \in Believed : Same(f, g)
<1>1. WriteOK(w) /\ w.op # "delete" /\ w = job.todo[1] /\ 1 \in DOMAIN job.todo
  BY HeadOfTodo
<1>2. w.op \in {"supersede", "expire", "upsert"}
  BY <1>1 DEF Kernel, TodoOK
<1>3. CASE w.op = "supersede"
  <2>1. table' = Ended(table, w) /\ expired' = expired
    BY <1>3 DEF StoreDoes
  <2>2. w.at \in Nat \ {None}
    BY <1>1, <1>3 DEF WriteOK
  <2>3. ASSUME NEW g, g \in Believed'
        PROVE  /\ g.id # w.id => g \in Believed
               /\ g.id = w.id => g.to = w.at /\ \E f \in Believed : Same(f, g)
    <3>1. PICK f \in table : g = IF f.id = w.id THEN [f EXCEPT !.to = w.at] ELSE f
      BY <2>1, <2>3 DEF Ended, Believed
    <3>2. IsFact(f) /\ g.id \notin expired
      BY <2>1, <2>3 DEF Kernel, StoreOK, Sound, AreFacts, Believed
    <3>3. CASE f.id = w.id
      <4>1. g = [f EXCEPT !.to = w.at]
        BY <3>1, <3>3
      <4>2. g.id = f.id /\ g.to = w.at /\ Same(f, g)
        BY <2>2, <3>2, <4>1 DEF IsFact, Same
      <4> QED
        BY <3>2, <3>3, <4>2 DEF Believed
    <3>4. CASE f.id # w.id
      BY <3>1, <3>2, <3>4 DEF Believed
    <3> QED
      BY <3>3, <3>4
  <2> QED
    BY <1>2, <1>3, <2>2, <2>3
<1>4. CASE w.op = "expire"
  <2>1. table' = table /\ expired' = expired \union {w.id}
    BY <1>4 DEF StoreDoes
  <2> QED
    BY <1>2, <1>4, <2>1 DEF Believed
<1>5. CASE w.op = "upsert"
  <2>1. table' = Put(table, w.fact) /\ expired' = expired
    BY <1>5 DEF StoreDoes
  <2>2. w.id = w.fact.id
    BY <1>1, <1>5 DEF WriteOK
  <2> QED
    BY <1>2, <1>5, <2>1, <2>2 DEF Believed, Put, Without
<1> QED
  BY <1>2, <1>3, <1>4, <1>5

\* The writes that are left, after the first of them.
LEMMA RestOfTodo ==
  ASSUME Kernel, job.phase = "write", job.todo # <<>>, NEW w, w = Head(job.todo)
  PROVE  /\ 1 \in DOMAIN job.todo /\ job.todo[1] = w
         /\ \A i \in DOMAIN Tail(job.todo) :
              i + 1 \in DOMAIN job.todo /\ Tail(job.todo)[i] = job.todo[i + 1]
         /\ \A i \in DOMAIN job.todo : i = 1 \/
              \E k \in DOMAIN Tail(job.todo) : job.todo[i] = Tail(job.todo)[k]
<1> DEFINE T == job.todo
           U == Tail(job.todo)
<1>1. /\ DOMAIN T = 1..Len(T) /\ DOMAIN U = 1..(Len(T) - 1) /\ Len(T) \in Nat
      /\ \A i \in DOMAIN U : U[i] = T[i + 1]
      /\ w = T[1] /\ 1 \in DOMAIN T
  BY ChannelTail DEF Kernel, JobOK
<1>2. \A i \in DOMAIN U : i + 1 \in DOMAIN T
  BY <1>1
<1>3. \A i \in DOMAIN T : i = 1 \/ (i - 1 \in DOMAIN U /\ (i - 1) + 1 = i)
  BY <1>1
<1> QED
  BY <1>1, <1>2, <1>3

\* A write of a plan is made.
LEMMA HandWrite ==
  ASSUME Kernel, UpsertsOK, job.phase = "write", job.todo # <<>>, NEW w, w = Head(job.todo),
         StoreDoes(w), now' = now, cache' = Cached(CacheAfter(cache.facts, w)),
         job'.known = {}, job'.todo = Tail(job.todo)
  PROVE  \A g \in InHand' : Follows(g)
<1>1. /\ w.op \in {"supersede", "expire", "upsert"}
      /\ cache.loaded /\ cache.facts \subseteq table
      /\ \A f \in InHand : Same(f, f)
      /\ \A f, g \in table : f.id = g.id => f = g
  BY WriteMakes, HeadOfTodo, HandIsStored DEF InStep
<1>2. /\ 1 \in DOMAIN job.todo /\ job.todo[1] = w
      /\ \A i \in DOMAIN job'.todo : i + 1 \in DOMAIN job.todo /\ job'.todo[i] = job.todo[i + 1]
  BY RestOfTodo
<1>3. \A i \in DOMAIN job'.todo : \E k \in DOMAIN job.todo : job'.todo[i] = job.todo[k]
  BY <1>2
<1>4. \A f \in CacheAfter(cache.facts, w) : f.id # w.id => f \in cache.facts
  <2>1. \A f \in Ended(cache.facts, w) : f.id # w.id => f \in cache.facts
    <3> SUFFICES ASSUME NEW f \in Ended(cache.facts, w), f.id # w.id PROVE f \in cache.facts
      OBVIOUS
    <3>1. PICK e \in cache.facts : f = IF e.id = w.id THEN [e EXCEPT !.to = w.at] ELSE e
      BY DEF Ended
    <3>2. IsFact(e)
      BY <1>1 DEF Kernel, StoreOK, Sound, AreFacts
    <3>3. e.id # w.id
      BY <3>1, <3>2 DEF IsFact
    <3> QED
      BY <3>1, <3>3
  <2>2. w.op = "upsert" => w.fact.id = w.id
    BY HeadOfTodo DEF WriteOK
  <2>3. CASE w.op = "upsert"
    BY <2>2, <2>3 DEF CacheAfter, Put, Without
  <2>4. CASE w.op = "supersede" /\ w.at > now
    BY <2>1, <2>4 DEF CacheAfter
  <2>5. CASE w.op # "upsert" /\ ~(w.op = "supersede" /\ w.at > now)
    BY <2>5 DEF CacheAfter, Without
  <2> QED
    BY <2>3, <2>4, <2>5
<1>5. \A g \in InHand' :
        /\ g \in Believed'
        /\ \/ isCurrent(g, now)
           \/ g \in CacheAfter(cache.facts, w)
           \/ \E k \in DOMAIN job.todo : job.todo[k].op = "upsert" /\ job.todo[k].id = g.id
  BY <1>3 DEF InHand, Cached, isCurrent
<1>6. ASSUME NEW g, g \in InHand', g.id # w.id
      PROVE  g \in InHand
  <2>1. g \in Believed
    BY <1>5, <1>6, WriteMakes
  <2> QED
    BY <1>1, <1>4, <1>5, <1>6, <2>1 DEF InHand
<1>7. ASSUME NEW g, g \in InHand', g.id = w.id
      PROVE  Follows(g)
  <2>1. w.op # "expire"
    BY <1>5, <1>7, WriteMakes
  <2>2. CASE w.op = "supersede"
    <3>1. PICK f \in Believed : Same(f, g) /\ g.to = w.at /\ w.at # None
      BY <1>5, <1>7, <2>2, WriteMakes
    <3>2. f \in table /\ f.id = w.id /\ f.id \notin expired
      BY <1>7, <3>1 DEF Believed, Same
    <3>3. CASE w.at > now
      <4>1. f \in cache.facts
        BY <2>2, <3>2, <3>3, HeadOfTodo
      <4> QED
        BY <1>1, <3>1, <4>1 DEF InHand, Follows
    <3>4. CASE ~(w.at > now)
      <4>1. ~isCurrent(g, now)
        BY <3>1, <3>4 DEF isCurrent
      <4>2. CacheAfter(cache.facts, w) = Without(cache.facts, {w.id})
        BY <2>2, <3>4 DEF CacheAfter
      <4>3. PICK k \in DOMAIN job.todo : job.todo[k].op = "upsert" /\ job.todo[k].id = w.id
        BY <1>5, <1>7, <4>1, <4>2 DEF Without
      <4>4. job.todo[1].op = "upsert"
        BY <1>2, <4>3 DEF UpsertsOK
      <4> QED
        BY <1>2, <2>2, <4>4
    <3> QED
      BY <3>3, <3>4
  <2>3. CASE w.op = "upsert"
    <3>1. g = w.fact /\ g \in Believed'
      BY <1>5, <1>7, <2>3, WriteMakes
    <3>2. w.id \notin expired
      BY <1>7, <2>3, <3>1 DEF Believed, StoreDoes
    <3>3. \/ job.kind = "extract" /\ w.fact.recorded >= slept
          \/ \E f \in table : Continues(f, w.fact)
      BY <1>2, <2>3, <3>2 DEF UpsertsOK
    <3>4. ASSUME NEW f \in table, Continues(f, w.fact)
          PROVE  f \in InHand /\ Same(f, g)
      <4>1. f.id = w.id
        BY <1>7, <3>1, <3>4 DEF Continues
      <4>2. f \in InHand
        BY <1>2, <2>3, <3>2, <4>1 DEF InHand, Believed
      <4> QED
        BY <3>1, <3>4, <4>2 DEF Continues, Same
    <3> QED
      BY <3>1, <3>3, <3>4 DEF Follows
  <2> QED
    BY <1>1, <2>1, <2>2, <2>3
<1> QED
  BY <1>1, <1>6, <1>7 DEF Follows

\* An edit's write, in the store.
LEMMA HandEdit ==
  ASSUME Kernel, RestOK', slept' = slept, EditWrites
  PROVE  \A g \in InHand' : Follows(g)
<1> DEFINE w == Made(job.write)
<1>1. /\ job.phase = "edit" /\ StoreDoes(w)
      /\ job' = [job EXCEPT !.phase = "read", !.write = w]
      /\ UNCHANGED <<now, cache>>
  BY DEF EditWrites
<1>2. /\ IsJob(job) /\ job.kind \in Edits /\ job.known = {} /\ job.todo = <<>>
      /\ EditOK(job, Fresh) /\ now \in Nat \ {None}
      /\ \A f \in InHand : Same(f, f)
      /\ \A f, g \in table : f.id = g.id => f = g
  BY <1>1, HandIsStored DEF Kernel, JobOK, Edits, NoJob, StoreOK
<1>3. /\ job.kind = "delete" => w.op = "delete"
      /\ job.kind \in {"correct", "record"} => w.op = "upsert"
      /\ job.kind = "close" => w.op = "supersede" /\ w.at = now
  <2>1. CASE job.kind = "delete"
    BY <1>2, <2>1 DEF Made, EditOK
  <2>2. CASE job.kind = "record"
    BY <1>2, <2>2 DEF Made, EditOK
  <2>3. CASE job.kind = "close"
    BY <1>2, <2>3 DEF Made, EditOK
  <2>4. CASE job.kind = "correct"
    <3>1. job.write.op = "upsert" /\ w = [job.write EXCEPT !.fact.recorded = now]
      BY <1>2, <2>4 DEF Made, EditOK
    <3> QED
      BY <1>2, <2>4, <3>1 DEF EditOK
  <2> QED
    BY <2>1, <2>2, <2>3, <2>4 DEF Edits
<1> HIDE DEF w
<1>4. /\ job'.kind = job.kind /\ job'.write = w /\ job'.known = {} /\ job'.todo = <<>>
      /\ job'.phase = "read"
  BY <1>1, <1>2 DEF IsJob
<1>5. \A g \in InHand' :
        /\ g \in Believed'
        /\ isCurrent(g, now) \/ (cache.loaded /\ g \in cache.facts)
  <2>1. DOMAIN job'.todo = {}
    BY <1>4
  <2>2. now' = now /\ cache' = cache /\ job'.known = {}
    BY <1>1, <1>4
  <2>3. \A g \in InHand' :
          /\ g \in Believed'
          /\ isCurrent(g, now') \/ (cache'.loaded /\ g \in cache'.facts)
    BY <2>1, <2>2 DEF InHand
  <2> QED
    BY <2>2, <2>3 DEF isCurrent
<1>6. ASSUME NEW g, g \in InHand', g \in Believed
      PROVE  Follows(g)
  <2>1. g \in InHand
    BY <1>5, <1>6 DEF InHand
  <2> QED
    BY <1>2, <2>1 DEF Follows
<1>7. CASE job.kind = "delete"
  <2>1. table' = Without(table, {w.id}) /\ expired' = expired \ {w.id}
    BY <1>1, <1>3, <1>7 DEF StoreDoes
  <2>2. \A g \in Believed' : g \in Believed
    BY <2>1 DEF Believed, Without
  <2> QED
    BY <1>5, <1>6, <2>2
<1>8. CASE job.kind \in {"correct", "record"}
  <2>1. table' = Put(table, w.fact) /\ expired' = expired
    BY <1>1, <1>3, <1>8 DEF StoreDoes
  <2>2. \A g \in Believed' : g \in Believed \/ g = w.fact
    BY <2>1 DEF Believed, Put, Without
  <2>3. w.fact.recorded >= slept
    BY <1>4, <1>8 DEF RestOK, Reading
  <2>4. job.kind # "sleep"
    BY <1>8
  <2> QED
    BY <1>5, <1>6, <2>2, <2>3, <2>4 DEF Follows
<1>9. CASE job.kind = "close"
  <2>1. table' = Ended(table, w) /\ expired' = expired
    BY <1>1, <1>3, <1>9 DEF StoreDoes
  <2>2. ASSUME NEW g, g \in InHand'
        PROVE  g \in Believed
    <3>1. PICK f \in table : g = IF f.id = w.id THEN [f EXCEPT !.to = w.at] ELSE f
      BY <1>5, <2>1, <2>2 DEF Ended, Believed
    <3>2. IsFact(f) /\ g.id \notin expired
      BY <1>5, <2>1, <2>2 DEF Kernel, StoreOK, Sound, AreFacts, Believed
    <3>3. CASE f.id = w.id
      <4>1. g = [f EXCEPT !.to = w.at]
        BY <3>1, <3>3
      <4>2. g.to = now
        BY <1>2, <1>3, <1>9, <3>2, <4>1 DEF IsFact
      <4>3. cache.loaded /\ g \in cache.facts
        BY <1>2, <1>5, <2>2, <4>2 DEF isCurrent
      <4>4. cache.facts \subseteq table
        BY <1>1, <4>3 DEF Kernel, CacheOK, Landed, Reading, InStep
      <4> QED
        BY <3>2, <4>3, <4>4 DEF Believed
    <3>4. CASE f.id # w.id
      BY <3>1, <3>2, <3>4 DEF Believed
    <3> QED
      BY <3>3, <3>4
  <2> QED
    BY <1>6, <2>2
<1> QED
  BY <1>2, <1>7, <1>8, <1>9 DEF Edits

\* Whatever happens, what is in hand then was so before, or is new.
LEMMA HandStep ==
  ASSUME Kernel, RestOK, UpsertsOK, RestOK', [Next]_vars, ~adrift'
  PROVE  \A g \in InHand' : Follows(g)
<1>1. /\ IsJob(job) /\ now \in Nat /\ \A f \in InHand : Same(f, f)
      /\ \A f, g \in table : f.id = g.id => f = g
      /\ DOMAIN (<<>>) = {}
  BY HandIsStored DEF Kernel, JobOK, StoreOK
<1>2. /\ cache.loaded => \A f \in cache.facts : f \in Believed => f \in InHand
      /\ \A f \in job.known : f \in Believed => f \in InHand
      /\ \A i \in DOMAIN job.todo, f \in Believed :
           job.todo[i].op = "upsert" /\ job.todo[i].id = f.id => f \in InHand
      /\ \A f \in currentFacts : f \in InHand
  BY DEF InHand, currentFacts, Believed
<1>3. ASSUME \A g \in InHand' : g \in InHand
      PROVE  \A g \in InHand' : Follows(g)
  BY <1>1, <1>3 DEF Follows
<1>4. ASSUME UNCHANGED <<now, table, expired>>, ~cache'.loaded \/ cache' = cache,
             job'.known = {} \/ job'.known = job.known, job'.todo = <<>> \/ job'.todo = job.todo
      PROVE  \A g \in InHand' : Follows(g)
  <2>1. /\ cache'.loaded => \A f \in cache'.facts : f \in Believed => f \in InHand
        /\ \A f \in job'.known : f \in Believed => f \in InHand
        /\ \A i \in DOMAIN job'.todo, f \in Believed :
             job'.todo[i].op = "upsert" /\ job'.todo[i].id = f.id => f \in InHand
    BY <1>1, <1>2, <1>4
  <2> QED
    BY <1>1, <1>3, <1>4, <2>1, HandShrinks
<1>5. CASE UNCHANGED vars
  BY <1>4, <1>5 DEF vars, store
<1>6. CASE Asks
  BY <1>4, <1>6 DEF Asks, Exchange, deleteFact, correctFact, recordFact, closeFact, store
<1>7. CASE PanelLoads \/ NoteReads \/ RestLooks \/ Wakes
  BY <1>4, <1>7 DEF PanelLoads, NoteReads, RestLooks, Wakes, knownFacts, store
<1>8. CASE Advance
  <2>1. UNCHANGED <<table, expired, cache, job>> /\ now' = now + 1
    BY <1>8 DEF Advance, store
  <2>2. now' \in Nat /\ now <= now'
    BY <1>1, <2>1
  <2>3. /\ cache'.loaded => \A f \in cache'.facts : f \in Believed => f \in InHand
        /\ \A f \in job'.known : f \in Believed => f \in InHand
        /\ \A i \in DOMAIN job'.todo, f \in Believed :
             job'.todo[i].op = "upsert" /\ job'.todo[i].id = f.id => f \in InHand
    BY <1>2, <2>1
  <2> QED
    BY <1>3, <2>1, <2>2, <2>3, HandShrinks
<1>9. CASE ReadLands
  <2>1. PICK l \in loads :
          /\ l.facts = currentFacts
          /\ IF l.who = "job"
             THEN IF l.n = job.n THEN JobKnows(l.facts) ELSE cache' = cache /\ job' = job
             ELSE cache' = Cached(l.facts) /\ job' = [job EXCEPT !.holds = FALSE]
          /\ UNCHANGED <<now, table, expired>>
    BY <1>9 DEF ReadLands, store
  <2>2. PICK facts : facts = l.facts
    OBVIOUS
  <2>3. /\ Sound(facts, Fresh, gone) /\ InStep(Landed(facts))
        /\ \A f \in facts : f \in InHand
    BY <1>2, <2>1, <2>2, CurrentInStep
  <2>4. CASE l.who = "job" /\ l.n = job.n
    <3>1. job' = Knowing(job, facts) /\ cache' = CacheKnowing(job, facts)
      BY <2>1, <2>2, <2>4 DEF JobKnows
    <3>2. Reading
      BY <2>4 DEF Kernel, LoadsOK, Reading
    <3> QED
      BY <2>1, <2>3, <3>1, <3>2, HandKnows
  <2>5. CASE l.who = "job" /\ l.n # job.n
    BY <1>4, <2>1, <2>5
  <2>6. CASE l.who # "job"
    <3>1. cache' = Cached(facts) /\ job'.known = job.known /\ job'.todo = job.todo
      BY <1>1, <2>1, <2>2, <2>6 DEF IsJob
    <3>2. cache'.facts = facts
      BY <3>1 DEF Cached
    <3> QED
      BY <1>1, <1>2, <1>3, <2>1, <2>3, <3>1, <3>2, HandShrinks
  <2> QED
    BY <2>4, <2>5, <2>6
<1>10. CASE JobStarts
  <2> DEFINE j == Head(queue)
  <2>1. IsChannel(queue) /\ queue # <<>>
    BY <1>10 DEF JobStarts, Kernel, QueueOK
  <2>2. Waits(j)
    BY <2>1, ChannelTail DEF Kernel, QueueOK
  <2> HIDE DEF j
  <2>3. job' = CASE j.kind \in Edits -> [j EXCEPT !.phase = "edit"]
                 [] j.kind = "sleep" -> [j EXCEPT !.phase = "read", !.stage = "rules"]
                 [] OTHER -> [j EXCEPT !.phase = "read"]
    BY <1>10 DEF JobStarts, j
  <2>4. job'.known = {} /\ job'.todo = <<>>
    BY <2>2, <2>3 DEF Waits, IsJob, Kinds, Edits
  <2>5. UNCHANGED <<now, table, expired>> /\ (~cache'.loaded \/ cache' = cache)
    BY <1>10 DEF JobStarts, store, NoCache
  <2> QED
    BY <1>4, <2>4, <2>5
<1>11. CASE JobReads
  <2>1. job.phase = "read" /\ UNCHANGED <<now, table, expired>>
    BY <1>11 DEF JobReads, store
  <2>2. CASE cache.loaded
    <3>1. PICK facts : facts = cache.facts
      OBVIOUS
    <3>2. job' = Knowing(job, facts) /\ cache' = CacheKnowing(job, facts)
      BY <1>11, <2>2, <3>1 DEF JobReads, JobKnows
    <3>3. Reading /\ Sound(facts, Fresh, gone) /\ InStep(Landed(facts))
      BY <2>1, <2>2, <3>1 DEF Kernel, HoldersOK, CacheOK, Reading
    <3> QED
      BY <1>2, <2>1, <2>2, <3>1, <3>2, <3>3, HandKnows
  <2>3. CASE ~cache.loaded
    <3>1. job' = [job EXCEPT !.phase = "reading"] /\ cache' = cache
      BY <1>11, <2>3 DEF JobReads
    <3>2. job'.known = job.known /\ job'.todo = job.todo
      BY <1>1, <3>1 DEF IsJob
    <3> QED
      BY <1>4, <2>1, <3>1, <3>2
  <2> QED
    BY <2>2, <2>3
<1>12. ASSUME UNCHANGED <<now, table, expired, cache>>, job.phase = "ask", NEW T,
              job' = [job EXCEPT !.phase = "write", !.holds = TRUE, !.known = {}, !.todo = T],
              \A i \in DOMAIN T, f \in Believed :
                T[i].op = "upsert" /\ T[i].id = f.id => f \in job.known
       PROVE  \A g \in InHand' : Follows(g)
  <2>1. job'.known = {} /\ job'.todo = T
    BY <1>1, <1>12 DEF IsJob
  <2>2. \A i \in DOMAIN job'.todo, f \in Believed :
          job'.todo[i].op = "upsert" /\ job'.todo[i].id = f.id => f \in InHand
    BY <1>2, <1>12, <2>1
  <2> QED
    BY <1>1, <1>2, <1>3, <1>12, <2>1, <2>2, HandShrinks
<1>13. CASE Hears
  <2>1. job.phase = "ask" /\ job.kind = "extract" /\ UNCHANGED <<now, table, expired, cache>>
    BY <1>13 DEF Hears, store
  <2>2. CASE job' # NoJob
    <3>1. PICK w : /\ PlanOK(job.known, now, FirstId(job.n), w)
                   /\ job' = [job EXCEPT !.phase = "write", !.holds = TRUE, !.known = {},
                                         !.todo = Writes(w)]
      BY <1>13, <2>2, HearsPlan
    <3>2. PICK T : T = Writes(w)
      OBVIOUS
    <3>3. \A i \in DOMAIN T : T[i].op = "upsert" => \E u \in w.upserts : T[i].id = u.id
      <4>1. \A i \in DOMAIN T :
              \/ \E s \in w.supersede : T[i] = [op |-> "supersede", id |-> s.id, at |-> s.at]
              \/ \E id \in w.expire : T[i] = [op |-> "expire", id |-> id]
              \/ \E f \in w.upserts : T[i] = [op |-> "upsert", id |-> f.id, fact |-> f]
        BY <3>1, <3>2, PlanInOrder DEF PlanOK
      <4> QED
        BY <4>1
    <3>4. /\ \A u \in w.upserts : FirstId(job.n) <= u.id \/ \E g \in job.known : g.id = u.id
          /\ \A f \in table : f.id < FirstId(job.n) /\ f.id \in Nat /\ FirstId(job.n) \in Nat
          /\ job.known \subseteq table
      <4>1. job.n \in Nat
        BY <2>1, Numbers DEF Kernel, JobOK
      <4>2. \A f \in table : f.id < FirstId(job.n) /\ f.id \in Nat
        BY <2>1 DEF Kernel, IdsOK, StoreOK, Sound, AreFacts, IsFact
      <4> QED
        BY <2>1, <3>1, <4>1, <4>2 DEF PlanOK, FirstId, Kernel, CacheOK
    <3>5. \A i \in DOMAIN T, f \in Believed :
            T[i].op = "upsert" /\ T[i].id = f.id => f \in job.known
      BY <1>1, <3>3, <3>4 DEF Believed
    <3> QED
      BY <1>12, <2>1, <3>1, <3>2, <3>5
  <2> QED
    BY <1>4, <2>1, <2>2 DEF NoJob
<1>14. CASE EditWrites
  BY <1>14, HandEdit DEF EditWrites
<1>15. CASE Applies
  <2>1. /\ job.phase = "write" /\ job.todo # <<>> /\ now' = now
        /\ StoreDoes(Head(job.todo))
        /\ cache' = IF job.holds THEN Cached(CacheAfter(cache.facts, Head(job.todo))) ELSE cache
        /\ job' = [job EXCEPT !.todo = Tail(@)]
    BY <1>15 DEF Applies
  <2>2. PICK w : w = Head(job.todo)
    OBVIOUS
  <2>3. job.holds /\ job.known = {}
    BY <2>1, <2>2, HeadOfTodo
  <2>4. job'.known = {} /\ job'.todo = Tail(job.todo)
    BY <1>1, <2>1, <2>3 DEF IsJob
  <2> QED
    BY <2>1, <2>2, <2>3, <2>4, HandWrite
<1>16. CASE Refused \/ StoreFails \/ Reloads
  BY <1>4, <1>16 DEF Refused, StoreFails, Reloads, NoJob, NoCache, store
<1>17. CASE PlanWritten
  <2>1. UNCHANGED <<now, table, expired>> /\ job.phase = "write"
    BY <1>17 DEF PlanWritten, store
  <2>2. CASE job' = NoJob /\ cache' = cache
    BY <1>4, <2>1, <2>2 DEF NoJob
  <2>3. CASE /\ cache' = cache
             /\ job' = [job EXCEPT !.phase = "ask", !.stage = "model",
                                   !.known = Mergeable(cache.facts), !.holds = FALSE]
    <3>1. job'.known = Mergeable(cache.facts) /\ job'.todo = job.todo
      BY <1>1, <2>3 DEF IsJob
    <3>2. cache.loaded
      BY <2>1 DEF Kernel, CacheOK
    <3>3. \A f \in job'.known : f \in Believed => f \in InHand
      BY <1>2, <3>1, <3>2 DEF Mergeable
    <3> QED
      BY <1>1, <1>2, <1>3, <2>1, <2>3, <3>1, <3>3, HandShrinks
  <2>4. CASE /\ job' = [job EXCEPT !.phase = "read", !.stage = "tidy", !.holds = FALSE]
             /\ cache' = NoCache
    <3>1. job'.known = job.known /\ job'.todo = job.todo
      BY <1>1, <2>4 DEF IsJob
    <3> QED
      BY <1>4, <2>1, <2>4, <3>1 DEF NoCache
  <2> QED
    BY <1>17, <2>2, <2>3, <2>4 DEF PlanWritten, SleepOver
<1>18. CASE Merges
  <2>1. PICK groups \in parseMerges(job.known) :
          job' = [job EXCEPT !.phase = "write", !.holds = TRUE, !.known = {},
                             !.todo = Writes(applyMerges(job.known, groups))]
    BY <1>18 DEF Merges
  <2>2. job.phase = "ask" /\ UNCHANGED <<now, table, expired, cache>>
    BY <1>18 DEF Merges, store
  <2>3. PICK F : F = job.known
    OBVIOUS
  <2>4. AreFacts(F) /\ F \subseteq table /\ groups \in parseMerges(F)
    BY <2>1, <2>2, <2>3 DEF Kernel, HoldersOK, Sound, CacheOK
  <2>5. PICK w : w = applyMerges(F, groups)
    OBVIOUS
  <2>6. PlanFrom(F, w)
    BY <2>4, <2>5, ModelGroups, MergesPlan
  <2>7. PICK T : T = Writes(w)
    OBVIOUS
  <2>8. \A i \in DOMAIN T : T[i].op = "upsert" => \E f \in F : f.id = T[i].id
    BY <2>6, <2>7, PlanFromWrites
  <2>9. \A i \in DOMAIN T, f \in Believed : T[i].op = "upsert" /\ T[i].id = f.id => f \in job.known
    BY <1>1, <2>3, <2>4, <2>8 DEF Believed
  <2> QED
    BY <1>12, <2>1, <2>2, <2>3, <2>5, <2>7, <2>9
<1>19. CASE ReadFails
  BY <1>4, <1>19, ReadFailsIs DEF Kernel, NoJob, store
<1> QED
  BY <1>5, <1>6, <1>7, <1>8, <1>9, <1>10, <1>11, <1>13, <1>14, <1>15, <1>16, <1>17, <1>18, <1>19
     DEF Next, Works

\* What is left of a plan is written as it was planned, whatever happens.
LEMMA UpsertsStep ==
  ASSUME Kernel, RestOK, UpsertsOK, [Next]_vars, ~adrift'
  PROVE  UpsertsOK'
<1>1. IsJob(job) /\ DOMAIN (<<>>) = {} /\ now \in Nat /\ slept \in 0 .. now
  BY DEF Kernel, JobOK, StoreOK, RestOK
<1>2. ASSUME job'.todo = <<>>
      PROVE  UpsertsOK'
  BY <1>1, <1>2 DEF UpsertsOK
<1>3. ASSUME job'.todo = job.todo, job'.kind = job.kind, UNCHANGED <<table, expired, slept>>
      PROVE  UpsertsOK'
  BY <1>3 DEF UpsertsOK
<1>4. ASSUME NEW F, F \subseteq table, NEW w, PlanFrom(F, w), job'.todo = Writes(w), table' = table
      PROVE  UpsertsOK'
  <2>1. PICK T : T = Writes(w)
    OBVIOUS
  <2>2. \A i \in DOMAIN T : T[i].op = "upsert" =>
          /\ \E f \in F : Continues(f, T[i].fact)
          /\ \A k \in DOMAIN T : T[k].id = T[i].id => T[k].op = "upsert" /\ T[k].fact = T[i].fact
    BY <1>4, <2>1, PlanFromWrites
  <2>3. job'.todo = T
    BY <1>4, <2>1
  <2>4. \A i \in DOMAIN T : T[i].op = "upsert" => \E f \in table' : Continues(f, T[i].fact)
    BY <1>4, <2>2
  <2> QED
    BY <2>2, <2>3, <2>4 DEF UpsertsOK
<1>5. ASSUME NEW facts, Reading, AreFacts(facts), InStep(Landed(facts)),
             job' = Knowing(job, facts), table' = table
      PROVE  UpsertsOK'
  <2>1. job.todo = <<>>
    BY <1>5 DEF Reading, Kernel, JobOK
  <2>2. CASE job.kind # "sleep"
    <3>1. job.stage # "rules" /\ job.stage # "tidy"
      BY <2>2 DEF Kernel, JobOK
    <3>2. CASE job.kind = "extract"
      <4>1. job' = [job EXCEPT !.phase = "ask", !.known = facts]
        BY <1>5, <3>1, <3>2, Zenon DEF Knowing
      <4> QED
        BY <1>1, <1>2, <2>1, <4>1 DEF IsJob
    <3>3. CASE job.kind # "extract"
      <4>1. job' = NoJob
        BY <1>5, <3>1, <3>3, Zenon DEF Knowing
      <4> QED
        BY <1>2, <4>1 DEF NoJob
    <3> QED
      BY <3>2, <3>3
  <2>3. CASE job.kind = "sleep" /\ job' # NoJob
    <3>1. PICK w : /\ PlanFrom(facts, w)
                   /\ job' = [job EXCEPT !.phase = "write", !.holds = TRUE, !.todo = Writes(w)]
      BY <1>1, <1>5, <2>3, KnowingPlan
    <3>2. job'.todo = Writes(w) /\ facts \subseteq table
      BY <1>1, <1>5, <2>3, <3>1 DEF IsJob, Landed, Edits, InStep
    <3> QED
      BY <1>4, <1>5, <3>1, <3>2
  <2> QED
    BY <1>2, <2>2, <2>3 DEF NoJob
<1>6. CASE UNCHANGED vars
  BY <1>3, <1>6 DEF vars, store
<1>7. CASE Asks
  BY <1>3, <1>7 DEF Asks, Exchange, deleteFact, correctFact, recordFact, closeFact, store
<1>8. CASE PanelLoads \/ NoteReads \/ RestLooks \/ Wakes \/ Advance
  BY <1>3, <1>8 DEF PanelLoads, NoteReads, RestLooks, Wakes, Advance, knownFacts, store
<1>9. CASE ReadLands
  <2>1. PICK l \in loads :
          /\ l.facts = currentFacts
          /\ IF l.who = "job"
             THEN IF l.n = job.n THEN JobKnows(l.facts) ELSE job' = job
             ELSE job' = [job EXCEPT !.holds = FALSE]
          /\ UNCHANGED <<now, table, expired, slept>>
    BY <1>9 DEF ReadLands, store
  <2>2. CASE l.who = "job" /\ l.n = job.n
    <3>1. PICK facts : facts = l.facts
      OBVIOUS
    <3>2. job' = Knowing(job, facts)
      BY <2>1, <2>2, <3>1 DEF JobKnows
    <3>3. Reading /\ AreFacts(facts) /\ InStep(Landed(facts))
      BY <2>1, <2>2, <3>1, CurrentInStep DEF Kernel, LoadsOK, Reading, Sound
    <3> QED
      BY <1>5, <2>1, <3>2, <3>3
  <2>3. CASE l.who = "job" /\ l.n # job.n
    BY <1>3, <2>1, <2>3
  <2>4. CASE l.who # "job"
    <3>1. job'.todo = job.todo /\ job'.kind = job.kind
      BY <1>1, <2>1, <2>4 DEF IsJob
    <3> QED
      BY <1>3, <2>1, <3>1
  <2> QED
    BY <2>2, <2>3, <2>4
<1>10. CASE JobStarts
  <2> DEFINE j == Head(queue)
  <2>1. IsChannel(queue) /\ queue # <<>>
    BY <1>10 DEF JobStarts, Kernel, QueueOK
  <2>2. Waits(j)
    BY <2>1, ChannelTail DEF Kernel, QueueOK
  <2> HIDE DEF j
  <2>3. job' = CASE j.kind \in Edits -> [j EXCEPT !.phase = "edit"]
                 [] j.kind = "sleep" -> [j EXCEPT !.phase = "read", !.stage = "rules"]
                 [] OTHER -> [j EXCEPT !.phase = "read"]
    BY <1>10 DEF JobStarts, j
  <2>4. job'.todo = <<>>
    BY <2>2, <2>3 DEF Waits, IsJob, Kinds, Edits
  <2> QED
    BY <1>2, <2>4
<1>11. CASE JobReads
  <2>1. job.phase = "read" /\ table' = table
    BY <1>11 DEF JobReads, store
  <2>2. CASE cache.loaded
    <3>1. PICK facts : facts = cache.facts
      OBVIOUS
    <3>2. job' = Knowing(job, facts)
      BY <1>11, <2>2, <3>1 DEF JobReads, JobKnows
    <3>3. Reading /\ AreFacts(facts) /\ InStep(Landed(facts))
      BY <2>1, <2>2, <3>1 DEF Kernel, HoldersOK, CacheOK, Reading, Sound
    <3> QED
      BY <1>5, <2>1, <3>2, <3>3
  <2>3. CASE ~cache.loaded
    <3>1. job' = [job EXCEPT !.phase = "reading"]
      BY <1>11, <2>3 DEF JobReads
    <3>2. job'.todo = <<>>
      BY <1>1, <2>1, <3>1 DEF IsJob, Kernel, JobOK
    <3> QED
      BY <1>2, <3>2
  <2> QED
    BY <2>2, <2>3
<1>12. CASE Hears
  <2>1. /\ job.phase = "ask" /\ job.kind = "extract"
        /\ UNCHANGED <<now, table, expired, slept>>
    BY <1>12 DEF Hears, store
  <2>2. CASE job' # NoJob
    <3>1. PICK w : /\ PlanOK(job.known, now, FirstId(job.n), w) /\ PlanSides(job.known, now, w)
                   /\ job' = [job EXCEPT !.phase = "write", !.holds = TRUE, !.known = {},
                                         !.todo = Writes(w)]
      BY <1>12, <2>2, HearsPlan
    <3>2. PICK T : T = Writes(w)
      OBVIOUS
    <3>3. job'.todo = T /\ job'.kind = "extract" /\ job.known \subseteq table
      BY <1>1, <2>1, <3>1, <3>2 DEF IsJob, Kernel, CacheOK
    <3>4. \A i \in DOMAIN T :
            \/ \E s \in w.supersede : T[i] = [op |-> "supersede", id |-> s.id, at |-> s.at]
            \/ \E id \in w.expire : T[i] = [op |-> "expire", id |-> id]
            \/ \E f \in w.upserts : T[i] = [op |-> "upsert", id |-> f.id, fact |-> f]
      BY <3>1, <3>2, PlanInOrder DEF PlanOK
    <3>5. \A i \in DOMAIN T :
            /\ T[i].op = "upsert" => T[i].fact \in w.upserts /\ T[i].id = T[i].fact.id
            /\ T[i].op # "upsert" => \/ \E s \in w.supersede : T[i].id = s.id
                                     \/ T[i].id \in w.expire
      BY <3>4
    <3>6. \A u \in w.upserts :
            /\ u.recorded = now \/ \E f \in job.known : Continues(f, u)
            /\ u.id \notin w.expire
            /\ \A s \in w.supersede : s.id # u.id
            /\ \A v \in w.upserts : v.id = u.id => v = u
      <4> TAKE u \in w.upserts
      <4>1. u.recorded = now \/ \E f \in job.known : Continues(f, u)
        BY <3>1 DEF PlanSides
      <4>2. \A s \in w.supersede : s.id # u.id
        <5>1. \A s \in w.supersede : \E g \in job.known : g.id = s.id
          BY <3>1 DEF PlanOK
        <5>2. \A s \in w.supersede : \A f \in w.working : f.id # s.id
          BY <3>1 DEF PlanOK
        <5>3. u \in w.working \/ \A f \in job.known : f.id # u.id
          BY <3>1 DEF PlanSides
        <5> QED
          BY <5>1, <5>2, <5>3
      <4>3. u.id \notin w.expire /\ \A v \in w.upserts : v.id = u.id => v = u
        BY <3>1 DEF PlanOK, PlanSides
      <4> QED
        BY <4>1, <4>2, <4>3
    <3>7. \A i \in DOMAIN T : T[i].op = "upsert" =>
            /\ T[i].fact.recorded >= slept \/ \E f \in table : Continues(f, T[i].fact)
            /\ \A k \in DOMAIN T : T[k].id = T[i].id => T[k].op = "upsert" /\ T[k].fact = T[i].fact
      BY <1>1, <3>3, <3>5, <3>6
    <3> QED
      BY <2>1, <3>3, <3>7 DEF UpsertsOK
  <2> QED
    BY <1>2, <2>2 DEF NoJob
<1>13. CASE EditWrites
  <2>1. job.phase = "edit" /\ job' = [job EXCEPT !.phase = "read", !.write = Made(job.write)]
    BY <1>13 DEF EditWrites
  <2>2. job'.todo = <<>>
    BY <1>1, <2>1 DEF IsJob, Kernel, JobOK
  <2> QED
    BY <1>2, <2>2
<1>14. CASE Applies
  <2>1. /\ job.phase = "write" /\ job.todo # <<>> /\ slept' = slept
        /\ StoreDoes(Head(job.todo)) /\ job' = [job EXCEPT !.todo = Tail(@)]
    BY <1>14 DEF Applies
  <2>2. PICK w : w = Head(job.todo)
    OBVIOUS
  <2>3. job'.todo = Tail(job.todo) /\ job'.kind = job.kind
    BY <1>1, <2>1 DEF IsJob
  <2>4. /\ 1 \in DOMAIN job.todo /\ job.todo[1] = w
        /\ \A i \in DOMAIN job'.todo :
             i + 1 \in DOMAIN job.todo /\ job'.todo[i] = job.todo[i + 1]
    BY <2>1, <2>2, <2>3, RestOfTodo
  <2>5. /\ w.op \in {"supersede", "expire", "upsert"} /\ StoreDoes(w) /\ WriteOK(w)
        /\ expired \subseteq expired'
    BY <2>1, <2>2, WriteLeaves, HeadOfTodo
  <2>6. ASSUME NEW u, u.op = "upsert", NEW k \in DOMAIN job.todo, u = job.todo[k]
        PROVE  \/ job.kind = "extract" /\ u.fact.recorded >= slept
               \/ u.id \in expired'
               \/ \E f \in table' : Continues(f, u.fact)
    <3>1. CASE /\ job.kind = "extract"
               /\ u.fact.recorded >= slept
      BY <3>1
    <3>2. CASE u.id \in expired
      BY <2>5, <3>2
    <3>3. ASSUME NEW f \in table, Continues(f, u.fact)
          PROVE  \E g \in table' : Continues(g, u.fact)
      <4>0. u.id = u.fact.id /\ IsFact(u.fact) /\ f.id = u.id
        BY <2>6, <3>3 DEF Kernel, TodoOK, Continues
      <4>1. w.id = u.id => w.op = "upsert" /\ w.fact = u.fact
        BY <2>4, <2>6 DEF UpsertsOK
      <4>2. CASE w.op = "supersede"
        <5>1. table' = Ended(table, w)
          BY <2>5, <4>2 DEF StoreDoes
        <5>2. f.id # w.id
          BY <4>0, <4>1, <4>2
        <5>3. f \in table'
          BY <5>1, <5>2 DEF Ended
        <5> QED
          BY <3>3, <5>3
      <4>3. CASE w.op = "expire"
        BY <2>5, <3>3, <4>3 DEF StoreDoes
      <4>4. CASE w.op = "upsert"
        <5>1. table' = Put(table, w.fact) /\ w.id = w.fact.id
          BY <2>5, <4>4 DEF StoreDoes, WriteOK
        <5>2. CASE w.id = u.id
          <6>1. u.fact \in table'
            BY <4>1, <5>1, <5>2 DEF Put
          <6>2. Continues(u.fact, u.fact)
            <7>1. u.fact.conf <= u.fact.conf
              BY <4>0 DEF IsFact
            <7> QED
              BY <7>1 DEF Continues
          <6> QED
            BY <6>1, <6>2
        <5>3. CASE w.id # u.id
          <6>1. f \in table'
            BY <4>0, <5>1, <5>3 DEF Put, Without
          <6> QED
            BY <3>3, <6>1
        <5> QED
          BY <5>2, <5>3
      <4> QED
        BY <2>5, <4>2, <4>3, <4>4
    <3> QED
      BY <2>6, <3>1, <3>2, <3>3 DEF UpsertsOK
  <2>7. \A i \in DOMAIN job'.todo : job'.todo[i].op = "upsert" =>
          \A k \in DOMAIN job'.todo : job'.todo[k].id = job'.todo[i].id =>
            job'.todo[k].op = "upsert" /\ job'.todo[k].fact = job'.todo[i].fact
    BY <2>4 DEF UpsertsOK
  <2>8. \A i \in DOMAIN job'.todo : job'.todo[i].op = "upsert" =>
          \/ job.kind = "extract" /\ job'.todo[i].fact.recorded >= slept
          \/ job'.todo[i].id \in expired'
          \/ \E f \in table' : Continues(f, job'.todo[i].fact)
    BY <2>4, <2>6
  <2> QED
    BY <2>1, <2>3, <2>7, <2>8 DEF UpsertsOK
<1>15. CASE Refused \/ StoreFails \/ Reloads
  BY <1>2, <1>15 DEF Refused, StoreFails, Reloads, NoJob
<1>16. CASE PlanWritten
  <2>1. job.todo = <<>>
    BY <1>16 DEF PlanWritten
  <2>2. CASE job' = NoJob
    BY <1>2, <2>2 DEF NoJob
  <2>3. CASE job' = [job EXCEPT !.phase = "ask", !.stage = "model",
                                !.known = Mergeable(cache.facts), !.holds = FALSE]
    BY <1>1, <1>2, <2>1, <2>3 DEF IsJob
  <2>4. CASE job' = [job EXCEPT !.phase = "read", !.stage = "tidy", !.holds = FALSE]
    BY <1>1, <1>2, <2>1, <2>4 DEF IsJob
  <2> QED
    BY <1>16, <2>2, <2>3, <2>4 DEF PlanWritten, SleepOver
<1>17. CASE Merges
  <2>1. PICK groups \in parseMerges(job.known) :
          job' = [job EXCEPT !.phase = "write", !.holds = TRUE, !.known = {},
                             !.todo = Writes(applyMerges(job.known, groups))]
    BY <1>17 DEF Merges
  <2>2. job.phase = "ask" /\ table' = table
    BY <1>17 DEF Merges, store
  <2>3. PICK F : F = job.known
    OBVIOUS
  <2>4. AreFacts(F) /\ F \subseteq table /\ groups \in parseMerges(F)
    BY <2>1, <2>2, <2>3 DEF Kernel, HoldersOK, Sound, CacheOK
  <2>5. PICK w : w = applyMerges(F, groups)
    OBVIOUS
  <2>6. PlanFrom(F, w) /\ job'.todo = Writes(w)
    BY <1>1, <2>1, <2>3, <2>4, <2>5, ModelGroups, MergesPlan DEF IsJob
  <2> QED
    BY <1>4, <2>2, <2>4, <2>6
<1>18. CASE ReadFails
  BY <1>2, <1>3, <1>18, ReadFailsIs DEF Kernel, NoJob, store
<1> QED
  BY <1>6, <1>7, <1>8, <1>9, <1>10, <1>11, <1>12, <1>13, <1>14, <1>15, <1>16, <1>17, <1>18
     DEF Next, Works

\* She is not told, while she sleeps, that she lay down at another time.
LEMMA RestLeaves ==
  ASSUME Kernel, RestOK, [Next]_vars, job.kind = "sleep", job'.kind = "sleep", job'.n = job.n,
         ~Stopped'
  PROVE  ~Stopped /\ rest'.started = rest.started
<1>1. IsJob(job) /\ job.n # 0
  BY Numbers DEF Kernel, JobOK
<1>2. job.n \notin rest'.stopped
  BY DEF Stopped
<1>3. ASSUME rest' = rest
      PROVE  ~Stopped /\ rest'.started = rest.started
  BY <1>2, <1>3 DEF Stopped
<1>4. ASSUME rest' = Woken
      PROVE  ~Stopped /\ rest'.started = rest.started
  BY <1>2, <1>4, WokenRest DEF Stopped, Woken, RestOK
<1>5. ASSUME NEW facts, LiesDown(facts), ~rest.resting \/ rest.asking = "disturbed"
      PROVE  ~Stopped /\ rest'.started = rest.started
  <2>1. CASE rest' = [rest EXCEPT !.asking = "no"]
    BY <1>2, <2>1 DEF RestOK, Stopped
  <2>2. CASE /\ ~rest.resting
             /\ rest' = [rest EXCEPT !.asking = "no", !.resting = TRUE, !.sleep = queued',
                                     !.started = now]
    <3>1. job.n \in rest.stopped
      BY <1>1, <2>2 DEF RestOK
    <3>2. rest'.stopped = rest.stopped
      BY <2>2 DEF RestOK
    <3> QED
      BY <1>2, <3>1, <3>2
  <2> QED
    BY <1>5, <2>1, <2>2 DEF LiesDown
<1>6. ASSUME NEW who, NEW n, NEW facts, Given(who, n, facts),
             who = "rest" => ~rest.resting \/ rest.asking = "disturbed"
      PROVE  ~Stopped /\ rest'.started = rest.started
  BY <1>3, <1>5, <1>6 DEF Given
<1>7. ASSUME NEW who, NEW n, knownFacts(who, n), who = "rest" => ~rest.resting
      PROVE  ~Stopped /\ rest'.started = rest.started
  <2>1. CASE cache.loaded
    BY <1>6, <1>7, <2>1 DEF knownFacts
  <2>2. CASE ~cache.loaded
    <3>1. rest' = rest \/ rest' = [rest EXCEPT !.asking = "yes"]
      BY <1>7, <2>2 DEF knownFacts
    <3>2. rest'.stopped = rest.stopped /\ rest'.started = rest.started
      BY <3>1 DEF RestOK
    <3> QED
      BY <1>2, <3>2 DEF Stopped
  <2> QED
    BY <2>1, <2>2
<1>8. CASE UNCHANGED vars
  BY <1>3, <1>8 DEF vars
<1>9. CASE Asks \/ Wakes
  BY <1>4, <1>9 DEF Asks, Exchange, deleteFact, correctFact, recordFact, closeFact, Wakes
<1>10. CASE PanelLoads
  BY <1>7, <1>10 DEF PanelLoads
<1>11. CASE NoteReads
  BY <1>7, <1>11 DEF NoteReads
<1>12. CASE RestLooks
  BY <1>7, <1>12 DEF RestLooks
<1>13. CASE ReadLands
  <2>1. PICK l \in loads :
          rest' = rest \/ (l.who # "job" /\ Given(l.who, l.n, l.facts))
    BY <1>13 DEF ReadLands
  <2>2. l.who = "rest" => ~rest.resting \/ rest.asking = "disturbed"
    BY DEF RestOK
  <2> QED
    BY <1>3, <1>6, <2>1, <2>2
<1>14. CASE JobStarts \/ JobReads \/ Hears \/ EditWrites \/ Applies \/ Refused \/ Merges
  BY <1>3, <1>14 DEF JobStarts, JobReads, Hears, EditWrites, Applies, Refused, Merges
<1>15. CASE PlanWritten
  BY <1>3, <1>15 DEF PlanWritten, SleepOver, NoJob
<1>16. CASE StoreFails \/ Advance
  BY <1>3, <1>16 DEF StoreFails, Advance
<1>17. CASE Reloads
  BY <1>17 DEF Reloads, NoJob
<1>18. CASE ReadFails
  <2>1. rest' = rest \/ rest' = [rest EXCEPT !.asking = "no"]
    BY <1>18 DEF ReadFails
  <2>2. rest'.stopped = rest.stopped /\ rest'.started = rest.started
    BY <2>1 DEF RestOK
  <2> QED
    BY <1>2, <2>2 DEF Stopped
<1> QED
  BY <1>8, <1>9, <1>10, <1>11, <1>12, <1>13, <1>14, <1>15, <1>16, <1>17, <1>18 DEF Next, Works

\* A sleep that plans what is to be written of the facts that are known.
Plans(facts, w) ==
  /\ job.kind = "sleep" /\ job.todo = <<>>
  /\ AreFacts(facts) /\ InStep(facts) /\ PlanFrom(facts, w)
  /\ \/ job.stage = "rules" /\ w = applyMerges(facts, ruleMerges(facts))
     \/ job.stage = "tidy" /\ w = consolidateFacts(facts, now)
  /\ job'.n = job.n /\ job'.stage = job.stage /\ job'.known = {} /\ job'.todo = Writes(w)
  /\ cache' = Cached(facts)
  /\ UNCHANGED <<now, table, expired, rest>>

\* A sleep begins, does nothing, plans, writes, or goes on once all is written.
SleepMoves ==
  \/ job'.stage = "rules" /\ job'.phase # "write"
  \/ /\ job.kind = "sleep" /\ job'.n = job.n /\ job'.stage = job.stage /\ job'.todo = job.todo
     /\ (job'.phase = "write") <=> (job.phase = "write")
     /\ UNCHANGED <<table, expired>>
  \/ \E facts, w : Plans(facts, w)
  \/ Applies
  \/ /\ job.kind = "sleep" /\ job.todo = <<>>
     /\ job.stage # "rules" \/ job.phase = "write"
     /\ job'.stage = "model" \/ job'.phase # "write"

\* A sleep that is given the facts, and is not over, plans.
LEMMA GivenPlans ==
  ASSUME Kernel, job.kind = "sleep", job'.kind = "sleep", Reading,
         NEW facts, AreFacts(facts), InStep(Landed(facts)),
         job' = Knowing(job, facts), cache' = CacheKnowing(job, facts),
         UNCHANGED <<now, table, expired, rest>>
  PROVE  \E w : Plans(facts, w)
<1>1. IsJob(job) /\ job.todo = <<>> /\ job.known = {}
  BY DEF Kernel, JobOK, Reading
<1>2. job' # NoJob
  BY DEF NoJob
<1>3. PICK w : /\ PlanFrom(facts, w)
               /\ job' = [job EXCEPT !.phase = "write", !.holds = TRUE, !.todo = Writes(w)]
               /\ \/ job.stage = "rules" /\ w = applyMerges(facts, ruleMerges(facts))
                  \/ job.stage = "tidy" /\ w = consolidateFacts(facts, now)
  BY <1>1, <1>2, KnowingPlan
<1>4. /\ job'.n = job.n /\ job'.stage = job.stage /\ job'.known = {} /\ job'.todo = Writes(w)
  BY <1>1, <1>3 DEF IsJob
<1>5. InStep(facts) /\ cache' = Cached(facts)
  BY DEF Landed, CacheKnowing, Finishes, Edits
<1> QED
  BY <1>1, <1>3, <1>4, <1>5 DEF Plans

\* And that is all a sleep does.
LEMMA SleepStep ==
  ASSUME Kernel, [Next]_vars, ~adrift', job'.kind = "sleep"
  PROVE  SleepMoves
<1>1. IsJob(job)
  BY DEF Kernel, JobOK
<1>2. ASSUME job' = job, UNCHANGED <<table, expired>>
      PROVE  SleepMoves
  BY <1>2 DEF SleepMoves
<1>3. CASE UNCHANGED vars
  BY <1>2, <1>3 DEF vars, store
<1>4. CASE Asks
  BY <1>2, <1>4 DEF Asks, Exchange, deleteFact, correctFact, recordFact, closeFact, store
<1>5. CASE PanelLoads \/ NoteReads \/ RestLooks \/ Wakes \/ Advance
  BY <1>2, <1>5 DEF PanelLoads, NoteReads, RestLooks, Wakes, Advance, knownFacts, store
<1>6. CASE ReadLands
  <2>1. PICK l \in loads :
          /\ l.facts = currentFacts
          /\ IF l.who = "job"
             THEN IF l.n = job.n THEN JobKnows(l.facts) /\ rest' = rest ELSE job' = job
             ELSE job' = [job EXCEPT !.holds = FALSE]
          /\ UNCHANGED <<now, table, expired>>
    BY <1>6 DEF ReadLands, store
  <2>2. CASE l.who = "job" /\ l.n = job.n
    <3>1. PICK facts : facts = l.facts
      OBVIOUS
    <3>2. job' = Knowing(job, facts) /\ cache' = CacheKnowing(job, facts) /\ rest' = rest
      BY <2>1, <2>2, <3>1 DEF JobKnows
    <3>3. Reading /\ AreFacts(facts) /\ InStep(Landed(facts))
      BY <2>1, <2>2, <3>1, CurrentInStep DEF Kernel, LoadsOK, Reading, Sound
    <3>4. job.kind = "sleep"
      <4>1. job' # NoJob
        BY DEF NoJob
      <4>2. job.kind = "extract" => job.stage = "none"
        BY DEF Kernel, JobOK
      <4>3. job'.kind = job.kind
        BY <1>1, <3>2, <4>1, <4>2, KnowingOn
      <4> QED
        BY <4>3
    <3> QED
      BY <2>1, <3>2, <3>3, <3>4, GivenPlans DEF SleepMoves
  <2>3. CASE l.who = "job" /\ l.n # job.n
    BY <1>2, <2>1, <2>3
  <2>4. CASE l.who # "job"
    <3>1. /\ job'.kind = job.kind /\ job'.n = job.n /\ job'.stage = job.stage
          /\ job'.todo = job.todo /\ job'.phase = job.phase
      BY <1>1, <2>1, <2>4 DEF IsJob
    <3> QED
      BY <2>1, <3>1 DEF SleepMoves
  <2> QED
    BY <2>2, <2>3, <2>4
<1>7. CASE JobStarts
  <2> DEFINE j == Head(queue)
  <2>1. IsChannel(queue) /\ queue # <<>>
    BY <1>7 DEF JobStarts, Kernel, QueueOK
  <2>2. Waits(j)
    BY <2>1, ChannelTail DEF Kernel, QueueOK
  <2> HIDE DEF j
  <2>3. job' = CASE j.kind \in Edits -> [j EXCEPT !.phase = "edit"]
                 [] j.kind = "sleep" -> [j EXCEPT !.phase = "read", !.stage = "rules"]
                 [] OTHER -> [j EXCEPT !.phase = "read"]
    BY <1>7 DEF JobStarts, j
  <2>4. j.kind = "sleep"
    BY <2>2, <2>3 DEF Waits, IsJob, Kinds, Edits
  <2>5. job' = [j EXCEPT !.phase = "read", !.stage = "rules"]
    BY <2>3, <2>4 DEF Edits
  <2>6. job'.stage = "rules" /\ job'.phase # "write"
    BY <2>2, <2>5 DEF Waits, IsJob
  <2> QED
    BY <2>6 DEF SleepMoves
<1>8. CASE JobReads
  <2>1. job.phase = "read" /\ UNCHANGED <<now, table, expired, rest>>
    BY <1>8 DEF JobReads, store
  <2>2. CASE cache.loaded
    <3>1. PICK facts : facts = cache.facts
      OBVIOUS
    <3>2. job' = Knowing(job, facts) /\ cache' = CacheKnowing(job, facts)
      BY <1>8, <2>2, <3>1 DEF JobReads, JobKnows
    <3>3. Reading /\ AreFacts(facts) /\ InStep(Landed(facts))
      BY <2>1, <2>2, <3>1 DEF Kernel, HoldersOK, CacheOK, Reading, Sound
    <3>4. job.kind = "sleep"
      <4>1. job' # NoJob
        BY DEF NoJob
      <4>2. job.kind = "extract" => job.stage = "none"
        BY DEF Kernel, JobOK
      <4>3. job'.kind = job.kind
        BY <1>1, <3>2, <4>1, <4>2, KnowingOn
      <4> QED
        BY <4>3
    <3> QED
      BY <2>1, <3>2, <3>3, <3>4, GivenPlans DEF SleepMoves
  <2>3. CASE ~cache.loaded
    <3>1. job' = [job EXCEPT !.phase = "reading"]
      BY <1>8, <2>3 DEF JobReads
    <3>2. /\ job'.kind = job.kind /\ job'.n = job.n /\ job'.stage = job.stage
          /\ job'.todo = job.todo /\ job'.phase = "reading"
      BY <1>1, <3>1 DEF IsJob
    <3> QED
      BY <2>1, <3>2 DEF SleepMoves
  <2> QED
    BY <2>2, <2>3
<1>9. CASE Hears
  <2>1. job.kind = "extract"
    BY <1>9 DEF Hears
  <2>2. job' # NoJob
    BY DEF NoJob
  <2>3. PICK w : job' = [job EXCEPT !.phase = "write", !.holds = TRUE, !.known = {},
                                    !.todo = Writes(w)]
    BY <1>9, <2>2, HearsPlan
  <2>4. job'.kind = job.kind
    BY <1>1, <2>3 DEF IsJob
  <2> QED
    BY <2>1, <2>4
<1>10. CASE EditWrites
  <2>1. job.kind \in Edits
    BY <1>10 DEF EditWrites, Kernel, JobOK, NoJob
  <2>2. job'.kind = job.kind
    BY <1>1, <1>10 DEF EditWrites, IsJob
  <2> QED
    BY <2>1, <2>2 DEF Edits
<1>11. CASE Applies
  BY <1>11 DEF SleepMoves
<1>12. CASE Refused \/ StoreFails \/ Reloads
  BY <1>12 DEF Refused, StoreFails, Reloads, NoJob
<1>13. CASE PlanWritten
  <2>1. job.todo = <<>> /\ job.phase = "write"
    BY <1>13 DEF PlanWritten
  <2>2. CASE job' = NoJob
    BY <2>2 DEF NoJob
  <2>3. CASE job' = [job EXCEPT !.phase = "ask", !.stage = "model",
                                !.known = Mergeable(cache.facts), !.holds = FALSE]
    <3>1. job'.kind = job.kind /\ job'.stage = "model"
      BY <1>1, <2>3 DEF IsJob
    <3> QED
      BY <2>1, <3>1 DEF SleepMoves
  <2>4. CASE job' = [job EXCEPT !.phase = "read", !.stage = "tidy", !.holds = FALSE]
    <3>1. job'.kind = job.kind /\ job'.phase = "read"
      BY <1>1, <2>4 DEF IsJob
    <3> QED
      BY <2>1, <3>1 DEF SleepMoves
  <2> QED
    BY <1>13, <2>2, <2>3, <2>4 DEF PlanWritten, SleepOver
<1>14. CASE Merges
  <2>1. PICK T : job' = [job EXCEPT !.phase = "write", !.holds = TRUE, !.known = {}, !.todo = T]
    BY <1>14 DEF Merges
  <2>2. /\ job.kind = "sleep" /\ job.stage = "model" /\ job.todo = <<>> /\ job'.stage = "model"
    BY <1>1, <1>14, <2>1 DEF Merges, Kernel, JobOK, IsJob
  <2> QED
    BY <2>2 DEF SleepMoves
<1>15. CASE ReadFails
  BY <1>2, <1>15, ReadFailsIs DEF Kernel, NoJob, store
<1> QED
  BY <1>3, <1>4, <1>5, <1>6, <1>7, <1>8, <1>9, <1>10, <1>11, <1>12, <1>13, <1>14, <1>15
     DEF Next, Works

\* What is in hand of a sleep that has planned is what it was given.
LEMMA PlannedHand ==
  ASSUME Kernel, NEW facts, NEW w, Plans(facts, w)
  PROVE  \A g \in InHand' : g \in facts
<1>1. /\ facts \subseteq table /\ currentFacts \subseteq facts
      /\ \A f, g \in table : f.id = g.id => f = g
  BY HandIsStored DEF Plans, InStep
<1>2. PICK T : T = Writes(w)
  OBVIOUS
<1>3. \A i \in DOMAIN T : T[i].op = "upsert" => \E f \in facts : f.id = T[i].id
  BY <1>2, PlanFromWrites DEF Plans
<1>4. /\ now' = now /\ table' = table /\ expired' = expired /\ job'.known = {} /\ job'.todo = T
      /\ cache'.facts = facts
  BY <1>2 DEF Plans, Cached
<1>5. \A g \in InHand' :
        /\ g \in table /\ g.id \notin expired
        /\ \/ isCurrent(g, now) \/ g \in facts
           \/ \E i \in DOMAIN T : T[i].op = "upsert" /\ T[i].id = g.id
  BY <1>4 DEF InHand, Believed, isCurrent
<1>6. \A g \in table : g.id \notin expired /\ isCurrent(g, now) => g \in facts
  BY <1>1 DEF currentFacts
<1> QED
  BY <1>1, <1>3, <1>5, <1>6

\* Two facts in hand that say the same did so before the step of a sleep.
LEMMA TwiceBefore ==
  ASSUME Kernel, Kernel', job.kind = "sleep", \A g \in InHand' : Follows(g),
         NEW g, g \in InHand', NEW h, h \in InHand', Twice(g, h)
  PROVE  \E e, f \in InHand : Same(e, g) /\ Same(f, h) /\ Twice(e, f)
<1>1. PICK e \in InHand : Same(e, g)
  BY DEF Follows
<1>2. PICK f \in InHand : Same(f, h)
  BY DEF Follows
<1>3. g \in table' /\ h \in table'
  BY DEF InHand, Believed
<1>4. IsFact(g) /\ IsFact(h) /\ g.id # h.id
  BY <1>3 DEF Kernel, StoreOK, Sound, AreFacts, Twice
<1>5. IsFact(e) /\ IsFact(f)
  BY HandIsStored
<1>6. Twice(e, f)
  BY <1>1, <1>2, <1>4, <1>5, SameSays
<1> QED
  BY <1>1, <1>2, <1>6

\* What says the same stays in the plan, from when it has been merged by rule.
LEMMA MergingStep ==
  ASSUME Kernel, Kernel', MergingOK, [Next]_vars, ~adrift', \A g \in InHand' : Follows(g)
  PROVE  MergingOK'
<1> SUFFICES ASSUME job'.kind = "sleep", job'.stage # "rules" \/ job'.phase = "write",
                    NEW g, g \in InHand', NEW h, h \in InHand', Twice(g, h)
             PROVE  \E i \in DOMAIN job'.todo :
                      job'.todo[i].op = "expire" /\ job'.todo[i].id \in {g.id, h.id}
  BY DEF MergingOK
<1>1. SleepMoves
  BY SleepStep
<1>2. IsJob(job)
  BY DEF Kernel, JobOK
<1>3. ASSUME job.kind = "sleep", job.stage # "rules" \/ job.phase = "write"
      PROVE  \E i \in DOMAIN job.todo :
               job.todo[i].op = "expire" /\ job.todo[i].id \in {g.id, h.id}
  <2>1. PICK e \in InHand, f \in InHand : Same(e, g) /\ Same(f, h) /\ Twice(e, f)
    BY <1>3, TwiceBefore
  <2>2. e.id = g.id /\ f.id = h.id
    BY <2>1 DEF Same
  <2> QED
    BY <1>3, <2>1, <2>2 DEF MergingOK
<1>4. CASE /\ job.kind = "sleep" /\ job'.stage = job.stage /\ job'.todo = job.todo
           /\ (job'.phase = "write") <=> (job.phase = "write")
  BY <1>3, <1>4
<1>5. ASSUME NEW facts, NEW w, Plans(facts, w)
      PROVE  \E i \in DOMAIN job'.todo :
               job'.todo[i].op = "expire" /\ job'.todo[i].id \in {g.id, h.id}
  <2>1. CASE job.stage = "rules"
    <3>1. g \in facts /\ h \in facts /\ AreFacts(facts)
      BY <1>5, PlannedHand DEF Plans
    <3>2. w = applyMerges(facts, ruleMerges(facts)) /\ PlanFrom(facts, w) /\ job'.todo = Writes(w)
      BY <1>5, <2>1 DEF Plans
    <3>3. PICK groups : groups = ruleMerges(facts)
      OBVIOUS
    <3>4. PICK m \in groups : {g.id, h.id} \cap m.merge # {}
      BY <3>1, <3>3, RuleGroups
    <3>5. GroupsOK(facts, groups) /\ w = applyMerges(facts, groups)
      BY <3>1, <3>2, <3>3, RuleGroups
    <3>6. w.expire = UNION {m2.merge : m2 \in groups}
      BY <3>1, <3>5, MergesPlan
    <3>7. PICK id \in {g.id, h.id} : id \in w.expire
      BY <3>4, <3>6
    <3>8. PICK T : T = Writes(w)
      OBVIOUS
    <3>9. \E i \in DOMAIN T : T[i].op = "expire" /\ T[i].id = id
      BY <3>2, <3>7, <3>8, PlanInOrder DEF PlanFrom
    <3> QED
      BY <3>2, <3>7, <3>8, <3>9
  <2>2. CASE job.stage # "rules"
    <3>1. job.kind = "sleep" /\ DOMAIN job.todo = {}
      BY <1>5 DEF Plans
    <3> QED
      BY <1>3, <2>2, <3>1
  <2> QED
    BY <2>1, <2>2
<1>6. CASE Applies
  <2>1. /\ job.phase = "write" /\ job.todo # <<>> /\ StoreDoes(Head(job.todo))
        /\ job' = [job EXCEPT !.todo = Tail(@)]
    BY <1>6 DEF Applies
  <2>2. PICK w : w = Head(job.todo)
    OBVIOUS
  <2>3. job'.todo = Tail(job.todo) /\ job'.kind = job.kind
    BY <1>2, <2>1 DEF IsJob
  <2>4. PICK i \in DOMAIN job.todo :
          job.todo[i].op = "expire" /\ job.todo[i].id \in {g.id, h.id}
    BY <1>3, <2>1, <2>3
  <2>5. /\ job.todo[1] = w
        /\ i = 1 \/ \E k \in DOMAIN job'.todo : job.todo[i] = job'.todo[k]
    BY <2>1, <2>2, <2>3, RestOfTodo
  <2>6. i # 1
    <3>1. g \in Believed' /\ h \in Believed'
      BY DEF InHand
    <3> QED
      BY <2>1, <2>2, <2>4, <2>5, <3>1, WriteMakes
  <2> QED
    BY <2>4, <2>5, <2>6
<1>7. CASE job.kind = "sleep" /\ job.todo = <<>> /\ (job.stage # "rules" \/ job.phase = "write")
  <2>1. DOMAIN job.todo = {}
    BY <1>7
  <2> QED
    BY <1>3, <1>7, <2>1
<1> QED
  BY <1>1, <1>4, <1>5, <1>6, <1>7 DEF SleepMoves

\* And so does what is to be forgotten, from when she tidies.
LEMMA TidyStep ==
  ASSUME Kernel, Kernel', RestOK, RestOK', TidyOK, [Next]_vars, ~adrift',
         \A g \in InHand' : Follows(g)
  PROVE  TidyOK'
<1> SUFFICES ASSUME job'.stage = "tidy", job'.phase = "write", ~Stopped'
             PROVE  /\ \A g \in InHand' : Hedged(g, rest'.started) =>
                         \E i \in DOMAIN job'.todo : job'.todo[i].id = g.id
                    /\ \A i \in DOMAIN job'.todo : job'.todo[i].op = "upsert" =>
                         ~Hedged(job'.todo[i].fact, rest'.started)
  BY DEF TidyOK
<1>1. IsJob(job) /\ job'.kind = "sleep" /\ now \in Nat
  BY DEF Kernel, JobOK, StoreOK
<1>2. SleepMoves
  BY <1>1, SleepStep
<1>3. \A g \in InHand' : IsFact(g)
  <2>1. \A g \in InHand' : g \in table'
    BY DEF InHand, Believed
  <2> QED
    BY <2>1 DEF Kernel, StoreOK, Sound, AreFacts
<1>4. ASSUME job.kind = "sleep", job.n = job'.n, job.stage = "tidy", job.phase = "write"
      PROVE  /\ ~Stopped /\ rest'.started = rest.started
             /\ \A g \in InHand' : Hedged(g, rest'.started) =>
                  \E i \in DOMAIN job.todo : job.todo[i].id = g.id
             /\ \A i \in DOMAIN job.todo : job.todo[i].op = "upsert" =>
                  ~Hedged(job.todo[i].fact, rest'.started)
  <2>1. ~Stopped /\ rest'.started = rest.started
    BY <1>1, <1>4, RestLeaves
  <2>2. ASSUME NEW g, g \in InHand', Hedged(g, rest.started)
        PROVE  \E i \in DOMAIN job.todo : job.todo[i].id = g.id
    <3>1. PICK f \in InHand : Same(f, g)
      BY <1>4, <2>2 DEF Follows
    <3>2. IsFact(f) /\ IsFact(g) /\ f.id = g.id
      BY <1>3, <2>2, <3>1, HandIsStored DEF Same
    <3>3. Hedged(f, rest.started)
      BY <2>2, <3>1, <3>2, SameSays
    <3> QED
      BY <1>4, <2>1, <3>2, <3>3 DEF TidyOK
  <2>3. \A i \in DOMAIN job.todo : job.todo[i].op = "upsert" =>
          ~Hedged(job.todo[i].fact, rest.started)
    BY <1>4, <2>1 DEF TidyOK
  <2> QED
    BY <2>1, <2>2, <2>3
<1>5. CASE /\ job.kind = "sleep" /\ job'.n = job.n /\ job'.stage = job.stage
           /\ job'.todo = job.todo
           /\ (job'.phase = "write") <=> (job.phase = "write")
  BY <1>4, <1>5
<1>6. ASSUME NEW facts, NEW w, Plans(facts, w)
      PROVE  /\ \A g \in InHand' : Hedged(g, rest'.started) =>
                  \E i \in DOMAIN job'.todo : job'.todo[i].id = g.id
             /\ \A i \in DOMAIN job'.todo : job'.todo[i].op = "upsert" =>
                  ~Hedged(job'.todo[i].fact, rest'.started)
  <2>1. /\ w = consolidateFacts(facts, now) /\ AreFacts(facts) /\ PlanFrom(facts, w)
        /\ job'.todo = Writes(w) /\ rest' = rest /\ job'.n = job.n /\ job.kind = "sleep"
    BY <1>6 DEF Plans
  <2>2. rest.started \in 0 .. now
    <3>1. job.n # 0 /\ job.n \notin rest.stopped
      BY <2>1, Numbers DEF Kernel, JobOK, Stopped
    <3> QED
      BY <2>1, <3>1 DEF RestOK
  <2>3. ASSUME NEW f, IsFact(f), Hedged(f, rest.started)
        PROVE  f.to = None /\ f.conf < ForgetBelow /\ now - f.recorded > ForgetAfter
    <3>1. ForgetAfter \in Nat /\ f.recorded \in Nat
      BY <2>3, FactsAssumption DEF IsFact
    <3> QED
      BY <1>1, <2>2, <2>3, <3>1 DEF Hedged
  <2>4. /\ \A f \in facts :
             f.to = None /\ f.conf < ForgetBelow /\ now - f.recorded > ForgetAfter =>
               \/ f.id \in w.expire
               \/ \E s \in w.supersede : s.id = f.id
               \/ \E u \in w.upserts : u.id = f.id
        /\ \A u \in w.upserts : ~(u.conf < ForgetBelow /\ now - u.recorded > ForgetAfter)
    BY <2>1, TidyPlan
  <2>5. PICK T : T = Writes(w)
    OBVIOUS
  <2>6. /\ \A s \in w.supersede : \E i \in DOMAIN T : T[i].id = s.id
        /\ \A id \in w.expire : \E i \in DOMAIN T : T[i].id = id
        /\ \A u \in w.upserts : \E i \in DOMAIN T : T[i].id = u.id
    <3>1. IsFiniteSet(w.upserts) /\ IsFiniteSet(w.supersede) /\ IsFiniteSet(w.expire)
      BY <2>1 DEF PlanFrom
    <3>2. /\ \A s \in w.supersede : \E i \in DOMAIN T : T[i].op = "supersede" /\ T[i].id = s.id
          /\ \A id \in w.expire : \E i \in DOMAIN T : T[i].op = "expire" /\ T[i].id = id
          /\ \A u \in w.upserts : \E i \in DOMAIN T : T[i].op = "upsert" /\ T[i].id = u.id
      BY <2>5, <3>1, PlanInOrder
    <3> QED
      BY <3>2
  <2>7. \A i \in DOMAIN T : T[i].op = "upsert" => T[i].fact \in w.upserts /\ IsFact(T[i].fact)
    BY <2>1, <2>5, PlanFromWrites
  <2>8. ASSUME NEW g, g \in InHand', Hedged(g, rest.started)
        PROVE  \E i \in DOMAIN T : T[i].id = g.id
    <3>1. g \in facts /\ IsFact(g)
      BY <1>3, <1>6, <2>8, PlannedHand
    <3>2. g.to = None /\ g.conf < ForgetBelow /\ now - g.recorded > ForgetAfter
      BY <2>3, <2>8, <3>1
    <3> QED
      BY <2>4, <2>6, <3>1, <3>2
  <2>9. \A i \in DOMAIN T : T[i].op = "upsert" => ~Hedged(T[i].fact, rest.started)
    BY <2>3, <2>4, <2>7
  <2> QED
    BY <2>1, <2>5, <2>8, <2>9
<1>7. CASE Applies
  <2>1. /\ job.phase = "write" /\ job.todo # <<>> /\ StoreDoes(Head(job.todo))
        /\ job' = [job EXCEPT !.todo = Tail(@)]
    BY <1>7 DEF Applies
  <2>2. PICK w : w = Head(job.todo)
    OBVIOUS
  <2>3. /\ job'.todo = Tail(job.todo) /\ job'.kind = job.kind /\ job'.n = job.n
        /\ job'.stage = job.stage
    BY <1>1, <2>1 DEF IsJob
  <2>4. /\ 1 \in DOMAIN job.todo /\ job.todo[1] = w
        /\ \A i \in DOMAIN job'.todo :
             i + 1 \in DOMAIN job.todo /\ job'.todo[i] = job.todo[i + 1]
        /\ \A i \in DOMAIN job.todo : i = 1 \/
             \E k \in DOMAIN job'.todo : job.todo[i] = job'.todo[k]
    BY <2>1, <2>2, <2>3, RestOfTodo
  <2>5. /\ \A g \in InHand' : Hedged(g, rest'.started) =>
             \E i \in DOMAIN job.todo : job.todo[i].id = g.id
        /\ \A i \in DOMAIN job.todo : job.todo[i].op = "upsert" =>
             ~Hedged(job.todo[i].fact, rest'.started)
    BY <1>1, <1>4, <2>1, <2>3
  <2>6. ASSUME NEW g, g \in InHand', Hedged(g, rest'.started), g.id = w.id
        PROVE  FALSE
    <3>1. g \in Believed'
      BY <2>6 DEF InHand
    <3>2. g.to = None
      BY <2>6 DEF Hedged
    <3>3. w.op = "upsert" /\ g = w.fact
      BY <2>1, <2>2, <2>6, <3>1, <3>2, WriteMakes
    <3> QED
      BY <2>4, <2>5, <2>6, <3>3
  <2>7. \A g \in InHand' : Hedged(g, rest'.started) =>
          \E i \in DOMAIN job'.todo : job'.todo[i].id = g.id
    BY <2>4, <2>5, <2>6
  <2>8. \A i \in DOMAIN job'.todo : job'.todo[i].op = "upsert" =>
          ~Hedged(job'.todo[i].fact, rest'.started)
    BY <2>4, <2>5
  <2> QED
    BY <2>7, <2>8
<1> QED
  BY <1>2, <1>5, <1>6, <1>7 DEF SleepMoves

\* What is in hand is sorted up to the sleep she last finished: a sleep that is
\* over had nothing left to write, so that nothing in hand says the same twice,
\* and nothing was to be forgotten as she lay down.
LEMMA SortedStep ==
  ASSUME Kernel, Kernel', RestOK, RestOK', SortedOK, MergingOK, TidyOK, [Next]_vars,
         \A g \in InHand' : Follows(g)
  PROVE  SortedOK'
<1>1. slept \in Nat /\ now \in Nat
  BY DEF RestOK, Kernel, StoreOK
<1>2. ASSUME slept' = slept
      PROVE  SortedOK'
  <2>1. \A g \in InHand' : g.recorded >= slept \/ \E f \in InHand : Same(f, g)
    BY DEF Follows
  <2> QED
    BY <1>1, <1>2, <2>1, SortedFrom
<1>3. CASE slept' # slept
  <2>1. SleepOver /\ job.phase = "write" /\ job.todo = <<>> /\ job.kind = "sleep"
        /\ job.stage = "tidy" /\ ~Stopped
    <3>1. PlanWritten
      BY <1>3 DEF Next, vars, Works, Asks, Exchange, deleteFact, correctFact, recordFact, closeFact,
                  PanelLoads, NoteReads, RestLooks, Wakes, Advance, knownFacts, ReadLands,
                  ReadFails, JobStarts, JobReads, Hears, EditWrites, Applies, Refused,
                  StoreFails, Merges, Reloads
    <3>2. job.phase = "write" /\ job.todo = <<>>
      BY <3>1 DEF PlanWritten
    <3>3. job.kind # "extract"
      <4>1. job.kind = "extract" => job.stage = "none"
        BY DEF Kernel, JobOK
      <4> QED
        BY <1>3, <3>1, <4>1 DEF PlanWritten
    <3>4. job.stage = "tidy" \/ (job.kind = "sleep" /\ Stopped)
      BY <1>3, <3>1, <3>3 DEF PlanWritten
    <3>5. SleepOver
      BY <3>1, <3>3, <3>4, Zenon DEF PlanWritten
    <3>6. ~Stopped
      BY <1>3, <3>5 DEF SleepOver, Slept
    <3> QED
      BY <3>2, <3>4, <3>5, <3>6 DEF Kernel, JobOK
  <2>2. DOMAIN job.todo = {} /\ job' = NoJob /\ slept' = rest.started
    BY <2>1 DEF SleepOver, Slept
  <2>3. /\ \A g \in InHand' : IsFact(g)
        /\ \A g \in InHand' : \E f \in InHand : IsFact(f) /\ Same(f, g)
    <3>1. \A g \in InHand' : g \in table'
      BY DEF InHand, Believed
    <3>2. \A g \in table' : IsFact(g)
      BY DEF Kernel, StoreOK, Sound, AreFacts
    <3> QED
      BY <2>1, <3>1, <3>2, HandIsStored DEF Follows
  <2>4. ASSUME NEW g, g \in InHand', Hedged(g, rest.started)
        PROVE  FALSE
    <3>1. PICK f \in InHand : IsFact(f) /\ Same(f, g)
      BY <2>3, <2>4
    <3>2. Hedged(f, rest.started)
      BY <2>3, <2>4, <3>1, SameSays
    <3> QED
      BY <2>1, <2>2, <3>2 DEF TidyOK
  <2>5. ASSUME NEW g, g \in InHand', NEW h, h \in InHand', Twice(g, h)
        PROVE  FALSE
    <3>1. PICK e \in InHand, f \in InHand : Twice(e, f)
      BY <2>1, <2>5, TwiceBefore
    <3> QED
      BY <2>1, <2>2, <3>1 DEF MergingOK
  <2> QED
    BY <2>2, <2>4, <2>5 DEF SortedOK
<1> QED
  BY <1>2, <1>3

\* Sleep keeps its word: what is in hand is sorted up to the sleep she finished,
\* and what is left of a plan makes it so up to the sleep she is in.
SleepOK == RestOK /\ SortedOK /\ UpsertsOK /\ MergingOK /\ TidyOK

SleepInv == ~adrift => Kernel /\ SleepOK

\* Unless a read came back late or the answer of a write was lost: of what was
\* recorded before the sleep she last finished nothing is to be merged by rule or
\* forgotten, through every write of every job, and a sleep that is under way
\* has what is still to be merged or forgotten in the plan it has left.
THEOREM SleepInvariant == Spec => []SleepInv
<1>1. Init => SleepInv
  <2> SUFFICES ASSUME Init PROVE Kernel /\ SleepOK
    BY DEF SleepInv
  <2>1. Kernel
    BY InitKernel
  <2>2. now = 1 /\ slept = 0 /\ queue = <<>> /\ job = NoJob /\ loads = {} /\ rest = Awake
    BY DEF Init
  <2>3. RestOK
    <3>1. DOMAIN queue = {}
      BY <2>2
    <3> QED
      BY <2>2, <3>1 DEF RestOK, Awake, NoJob
  <2>4. DOMAIN job.todo = {} /\ job.stage = "none" /\ job.kind = "none"
    BY <2>2 DEF NoJob
  <2>5. UpsertsOK /\ MergingOK /\ TidyOK
    BY <2>4 DEF UpsertsOK, MergingOK, TidyOK
  <2>6. \A f \in InHand : ~(f.recorded < slept)
    BY <2>1, <2>2, HandIsStored DEF IsFact
  <2> QED
    BY <2>1, <2>3, <2>5, <2>6 DEF SleepOK, SortedOK
<1>2. SleepInv /\ [Next]_vars => SleepInv'
  <2> SUFFICES ASSUME Kernel, SleepOK, [Next]_vars, ~adrift'
               PROVE  Kernel' /\ SleepOK'
    BY DriftStays DEF SleepInv
  <2>1. Kernel' /\ RestOK'
    BY NextStep, RestStep DEF SleepOK
  <2>2. \A g \in InHand' : Follows(g)
    BY <2>1, HandStep DEF SleepOK
  <2>3. UpsertsOK' /\ MergingOK' /\ TidyOK' /\ SortedOK'
    BY <2>1, <2>2, UpsertsStep, MergingStep, TidyStep, SortedStep DEF SleepOK
  <2> QED
    BY <2>1, <2>3 DEF SleepOK
<1> QED
  BY <1>1, <1>2, PTL DEF Spec

\* She counts as having slept on it only if she has (sleep.ts, consolidate.ts):
\* of what was recorded before the sleep she last finished, nothing is said
\* twice, and nothing is left that was to be forgotten then.
THEOREM SleptIsSorted == Spec => []SleptMeansSorted
<1>1. SleepInv => SleptMeansSorted
  <2> SUFFICES ASSUME Kernel, SortedOK, slept \in Nat
               PROVE  LET before == {f \in currentFacts : f.recorded < slept} IN
                        /\ \A f \in before :
                             f.conf < ForgetBelow /\ f.to = None =>
                               slept - f.recorded <= ForgetAfter
                        /\ \A f, g \in Mergeable(before) : Key(f) = Key(g) => f = g
    BY DEF SleepInv, SleepOK, RestOK, SleptMeansSorted
  <2> DEFINE before == {f \in currentFacts : f.recorded < slept}
  <2>1. \A f \in before : f \in InHand /\ f.recorded < slept
    BY DEF currentFacts, InHand, Believed
  <2>2. ASSUME NEW f \in before, f.conf < ForgetBelow, f.to = None
        PROVE  slept - f.recorded <= ForgetAfter
    <3>1. ~(slept - f.recorded > ForgetAfter)
      BY <2>1, <2>2 DEF SortedOK, Hedged
    <3>2. f.recorded \in Nat /\ ForgetAfter \in Nat
      BY <2>1, <2>2, HandIsStored, FactsAssumption DEF IsFact
    <3> QED
      BY <3>1, <3>2
  <2>3. ASSUME NEW f \in Mergeable(before), NEW g \in Mergeable(before), Key(f) = Key(g), f # g
        PROVE  FALSE
    <3>1. f \in before /\ g \in before /\ Twice(f, g)
      BY <2>3 DEF Mergeable, Twice
    <3> QED
      BY <2>1, <3>1 DEF SortedOK
  <2> QED
    BY <2>2, <2>3
<1> QED
  BY <1>1, SleepInvariant, PTL
=============================================================================
