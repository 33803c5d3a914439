--------------------------------- MODULE Facts ---------------------------------
(*****************************************************************************)
(* What is done to the facts she believes, as functions of them: how newly   *)
(* heard ones meet them (packages/core/src/memory/facts.ts), how sleep merges*)
(* them (sleep.ts) and how they are tidied (consolidate.ts).                 *)
(*                                                                           *)
(* All facts are about one subject.  A predicate is in canonical form, and   *)
(* `Family` takes it to the first of those that mean the same; an object is  *)
(* up to case, and `Plain` is its plain form.  A confidence c stands for     *)
(* -log(1 - c), so that two independent witnesses add up.  Times are ticks   *)
(* from 1; 0 stands for null, in `to` for "still true".                      *)
(*****************************************************************************)
EXTENDS Integers, FiniteSets, FiniteSetsExt, SequencesExt

CONSTANTS
  Family,        \* predicate -> the first of its family
  Plain,         \* object -> its plain form
  SingleValued,  \* SINGLE_VALUED_PREDICATES
  FollowUp,      \* FOLLOW_UP_PREDICATE: a plan's, never merged
  ForgetBelow,   \* a confidence below this is forgotten ...
  ForgetAfter    \* ... once this many ticks have passed

Predicates == DOMAIN Family
Objects == DOMAIN Plain

ASSUME FactsAssumption ==
  /\ SingleValued \subseteq Predicates
  /\ FollowUp \in Predicates \ SingleValued
  /\ {ForgetBelow, ForgetAfter} \subseteq Nat

None == 0

Fact ==
  [id : Nat \ {None}, predicate : Predicates, object : Objects, conf : Nat, from : Nat \ {None},
   to : Nat, recorded : Nat]

isCurrent(fact, now) == fact.to = None \/ fact.to > now

ById(facts, id) == {f \in facts : f.id = id}

Without(facts, ids) == {f \in facts : f.id \notin ids}

\* A map's entry for a fact's id: set.
Put(facts, fact) == Without(facts, {fact.id}) \union {fact}

\* The earliest recorded of a set of facts.
Earliest(facts) ==
  CHOOSE f \in facts : \A g \in facts :
    f.recorded < g.recorded \/ (f.recorded = g.recorded /\ f.id <= g.id)

-----------------------------------------------------------------------------
(* Hearing (facts.ts).  `w` is the plan so far: the working copy, and what   *)
(* is to be written.                                                         *)

\* close, of each of `olds`: expired if it never began, superseded if stored,
\* closed in place if it was heard in this very exchange.
Close(known, w, olds, at) ==
  LET ids    == {o.id : o \in olds}
      stored == {o \in olds : ById(known, o.id) # {}}
      begun  == {o \in olds : o.from < at}
  IN [w EXCEPT !.working = Without(@, ids),
               !.expire = @ \union {o.id : o \in stored \ begun},
               !.supersede = @ \union {[id |-> o.id, at |-> at] : o \in stored \cap begun},
               !.upserts = Without(@, ids) \union {[o EXCEPT !.to = at] : o \in begun \ stored}]

Rivals(w, predicate, except) ==
  IF predicate \notin SingleValued THEN {}
  ELSE {f \in Without(w.working, except) : f.predicate = predicate}

\* One extracted fact: it reinforces the same fact, or it is new and closes
\* the fact it names and those of a predicate that has one value at a time.
Hear(known, now, w, raw) ==
  LET startsAt == IF raw.from = None THEN now ELSE raw.from
      same == {f \in w.working : f.predicate = raw.predicate /\ f.object = raw.object}
  IN IF same # {}
     THEN LET old     == CHOOSE f \in same : \A g \in same : f.id <= g.id
              earlier == startsAt < old.from
              raised  == [old EXCEPT !.conf = @ + raw.conf,
                                     !.from = IF earlier THEN startsAt ELSE @]
              closed  == IF earlier
                         THEN Close(known, w, Rivals(w, old.predicate, {old.id}), startsAt) ELSE w
          IN [closed EXCEPT !.working = Put(@, raised), !.upserts = Put(@, raised)]
     ELSE LET closes == ById(w.working, raw.replaces) \union Rivals(w, raw.predicate, {})
              closed == Close(known, w, closes, startsAt)
              fact   == [id |-> w.next, predicate |-> raw.predicate, object |-> raw.object,
                         conf |-> raw.conf, from |-> startsAt, to |-> None, recorded |-> now]
          IN [closed EXCEPT !.working = @ \union {fact},
                            !.upserts = @ \union {fact},
                            !.next = @ + 1]

\* What an exchange ends with nothing in its place: current, stored facts only.
End(known, now, w, ended) ==
  LET olds == {f \in w.working : f.id \in ended /\ ById(known, f.id) # {}} IN
    Close(known, w, olds, now)

\* planFactWrites: the writes for what was extracted, one after the other, given
\* what is known.
planFactWrites(known, extracted, ended, now, next) ==
  LET plan[i \in 0 .. Len(extracted)] ==
        IF i = 0
        THEN [working |-> {f \in known : isCurrent(f, now)}, upserts |-> {}, supersede |-> {},
              expire |-> {}, next |-> next]
        ELSE Hear(known, now, plan[i - 1], extracted[i])
  IN End(known, now, plan[Len(extracted)], ended)

-----------------------------------------------------------------------------
(* Sleep's merging (sleep.ts).  A group is the fact kept and those folded    *)
(* into it.                                                                  *)

Mergeable(facts) == {f \in facts : f.predicate # FollowUp}

\* Mutant: the fact kept is among those folded into it.
ruleMergesWhole(facts) ==
  LET key(f)   == <<Family[f.predicate], Plain[f.object]>>
      group(k) == {f \in Mergeable(facts) : key(f) = k}
      keys     == {k \in {key(f) : f \in Mergeable(facts)} : Cardinality(group(k)) > 1}
  IN {[keep |-> Earliest(group(k)).id, merge |-> {f.id : f \in group(k)}] : k \in keys}

\* ruleMerges: of facts that say the same in other words, the earliest recorded.
ruleMerges(facts) ==
  LET key(f)   == <<Family[f.predicate], Plain[f.object]>>
      group(k) == {f \in Mergeable(facts) : key(f) = k}
      keys     == {k \in {key(f) : f \in Mergeable(facts)} : Cardinality(group(k)) > 1}
  IN {[keep |-> Earliest(group(k)).id,
       merge |-> {f.id : f \in group(k)} \ {Earliest(group(k)).id}] : k \in keys}

\* parseMerges: what the model may answer that is taken, of the facts it was
\* shown: a group of two or more, one of them kept.  One group is enough here.
parseMerges(facts) ==
  LET several == {ids \in SUBSET {f.id : f \in facts} : Cardinality(ids) > 1} IN
    {{}} \union UNION {{{[keep |-> k, merge |-> ids \ {k}]} : k \in ids} : ids \in several}

\* applyMerges: the kept facts reinforced and widened, the rest expired.
applyMerges(facts, groups) ==
  LET fact(id) == CHOOSE f \in facts : f.id = id
      merged(g) == {fact(id) : id \in g.merge}
      all(g)   == merged(g) \union {fact(g.keep)}
  IN [upserts |-> {[fact(g.keep) EXCEPT !.conf = MapThenSumSet(LAMBDA f : f.conf, all(g)),
                                        !.from = Min({f.from : f \in all(g)})] : g \in groups},
      supersede |-> {},
      expire |-> UNION {g.merge : g \in groups}]

-----------------------------------------------------------------------------
(* Tidying (consolidate.ts).                                                 *)

\* consolidateFacts: word for word the same merge into the earliest; a single
\* value keeps the one that began last, the others ending where it began; what
\* was hedged once and long ago is forgotten.
consolidateFacts(facts, now) ==
  LET key(f)    == <<f.predicate, f.object>>
      copies(f) == {g \in facts : key(g) = key(f)}
      kept      == {f \in facts : f = Earliest(copies(f))}
      merged    == {[f EXCEPT !.conf = MapThenSumSet(LAMBDA g : g.conf, copies(f))] : f \in kept}
      slot(f)   == {g \in merged : g.predicate = f.predicate}
      latest(f) == CHOOSE g \in slot(f) : \A h \in slot(f) :
                     g.from > h.from \/ (g.from = h.from /\ g.recorded >= h.recorded)
      closed    == {f \in merged : f.predicate \in SingleValued /\ latest(f) # f}
      forgotten == {f \in merged \ closed :
                      f.conf < ForgetBelow /\ now - f.recorded > ForgetAfter}
  IN [upserts   |-> (merged \ facts) \ (closed \union forgotten),
      supersede |-> {[id |-> f.id, at |-> latest(f).from] : f \in closed},
      expire    |-> {f.id : f \in (facts \ kept) \union forgotten}]
=============================================================================
