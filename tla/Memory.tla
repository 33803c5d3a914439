-------------------------------- MODULE Memory ---------------------------------
(*****************************************************************************)
(* What she remembers (packages/core/src/memory/kernel.ts), the note of it   *)
(* that the prompt carries (attach.ts) and the rest in which she sorts it    *)
(* (rest/rest.ts).                                                           *)
(*                                                                           *)
(* The kernel writes in a queue of jobs, one at a time, and holds the facts  *)
(* she believes in a cache: a map that is loaded when somebody needs it and  *)
(* there is none.  Every store call is an await; a read takes its rows when  *)
(* it is asked and installs them when the answer comes.                      *)
(*                                                                           *)
(* Left out: turns stored as episodes and their recall (it orders the prompt *)
(* and decides nothing), embeddings, and which subject a fact is about.      *)
(*****************************************************************************)
EXTENDS Facts

CONSTANTS
  Tables,      \* what the store may hold when the page opens
  Sayings,     \* what the extractor may read from an exchange: sequences of
               \* facts without what they replace, `from` None if it does not say
  Wordings,    \* the objects a person, or a plan, may write of a fact
  RestAfter,   \* REST_AFTER_MS in ticks
  Certain,     \* the confidence of what the person says of a fact themselves
  MaxNow,      \* bound: the last tick of the clock
  MaxJobs,     \* bound: how many jobs are queued
  MaxFaults    \* bound: how often a store call fails or the page is reloaded

\* What the extractor reads of a fact; the ids of a job are ten.
Said == [predicate : Predicates, object : Objects, conf : Nat, from : Nat]

ASSUME MemoryAssumption ==
  /\ Wordings \subseteq Objects
  /\ \A t \in Tables : IsFiniteSet(t)
  /\ \A f \in UNION Tables : f \in Fact /\ f.id < 10
  /\ \A saying \in Sayings : saying \in Seq(Said) /\ Len(saying) <= 10
  /\ {RestAfter, Certain, MaxNow, MaxJobs, MaxFaults} \subseteq Nat
  /\ \A table \in Tables : \A f, g \in table : f.id = g.id => f = g

VARIABLES
  now,
  table,     \* the store's facts, one of each id
  expired,   \* the ids of those it no longer believes, and
  revived,   \* of those the person corrected after that
  cache,     \* known: whether it is loaded, and its facts
  queue,     \* the jobs that wait
  job,       \* the one under way
  queued,    \* how many jobs were ever queued, and
  done,      \* how many are over
  loads,     \* the reads of the table under way, each with what it read
  shown,     \* the facts the memory panel shows, and
  opened,    \* how many jobs had been queued when it was opened
  note,      \* attach.ts: the prompt's facts, and the refresh it waits for
  rest,      \* rest.ts: whether she rests, her decision and her sleep
  slept,     \* the `_sleep` block: when she last slept, 0 for never
  gone,      \* facts the person was told they have deleted, and that they have
             \* not stated again since
  adrift,    \* a read brought back a past the kernel had moved on from, or a
             \* write's answer was lost
  faults

store == <<table, expired, revived>>

vars == <<now, store, cache, queue, job, queued, done, loads, shown, opened, note, rest,
          slept, gone, adrift, faults>>

NoCache == [loaded |-> FALSE, facts |-> {}]
Cached(facts) == [loaded |-> TRUE, facts |-> facts]

NoJob == [kind |-> "none", n |-> 0, write |-> <<>>, phase |-> "none", stage |-> "none",
          known |-> {}, todo |-> <<>>, holds |-> FALSE]

Awake == [resting |-> FALSE, asking |-> "no", sleep |-> 0, started |-> 0, active |-> 0,
          stopped |-> {}]

\* currentFacts, as every store answers it.
currentFacts == {f \in table : f.id \notin expired /\ isCurrent(f, now)}

Init ==
  /\ now = 1
  /\ table \in Tables
  /\ expired = {}
  /\ revived = {}
  /\ cache = NoCache
  /\ queue = <<>>
  /\ job = NoJob
  /\ queued = 0
  /\ done = 0
  /\ loads = {}
  /\ shown = {}
  /\ opened = 0
  /\ note = [facts |-> {}, gen |-> 1, wait |-> 0, phase |-> "wait"]
  /\ rest = Awake
  /\ slept = 0
  /\ gone = {}
  /\ adrift = FALSE
  /\ faults = 0

-----------------------------------------------------------------------------
(* What is asked of the kernel.                                              *)

enqueue(kind, write) ==
  /\ queued < MaxJobs
  /\ queued' = queued + 1
  /\ queue' = Append(queue, [NoJob EXCEPT !.kind = kind, !.n = queued', !.write = write,
                                          !.phase = "queued"])

\* wake: anything that happens stops the sleep she is in.
Woken ==
  [rest EXCEPT !.resting = FALSE, !.sleep = 0, !.active = now,
               !.asking = IF @ = "no" THEN @ ELSE "disturbed",
               !.stopped = IF rest.sleep = 0 THEN @ ELSE @ \union {rest.sleep}]

\* refresh: the note is to be read again once the jobs so far are over.
Refreshed(n, upTo) == [n EXCEPT !.gen = @ + 1, !.wait = upTo, !.phase = "wait"]

\* remember: an exchange is over and is to be read for facts; the note after it.
Exchange ==
  /\ enqueue("extract", <<>>)
  /\ note' = Refreshed(note, queued')
  /\ rest' = Woken
  /\ UNCHANGED <<now, store, cache, job, done, loads, shown, opened, slept, gone, adrift,
                 faults>>

\* The panel's rows that wait for an edit of theirs are disabled, until the panel
\* is opened anew: a row of a fact that is about to be deleted is then enabled.
Busy ==
  {q.write.id : q \in {k \in Range(queue) \union {job} :
                         k.kind \in {"delete", "correct"} /\ k.n > opened}}

\* deleteFact: the person removes a fact the panel shows.
deleteFact(fact) ==
  /\ fact \in shown
  /\ fact.id \notin Busy
  /\ enqueue("delete", [op |-> "delete", id |-> fact.id])
  /\ rest' = Woken
  /\ UNCHANGED <<now, store, cache, job, done, loads, shown, opened, note, slept, gone,
                 adrift, faults>>

\* correctFact: the panel's copy with another object, certain.  It is recorded
\* when the job gets to it.
correctFact(fact, object) ==
  /\ fact \in shown
  /\ fact.id \notin Busy
  /\ object # fact.object
  /\ enqueue("correct", [op |-> "upsert", id |-> fact.id,
                         fact |-> [fact EXCEPT !.object = object, !.conf = Certain]])
  /\ rest' = Woken
  /\ UNCHANGED <<now, store, cache, job, done, loads, shown, opened, note, slept, gone,
                 adrift, faults>>

\* The ids a job gives out; those of the facts there were are below the first.
FirstId(n) == 10 * n

\* recordFact: a plan's follow-up, as the page states it.
recordFact(object) ==
  /\ enqueue("record", [op |-> "upsert", id |-> FirstId(queued'), fact |->
       [id |-> FirstId(queued'), predicate |-> FollowUp, object |-> object, conf |-> Certain,
        from |-> now, to |-> None, recorded |-> now]])
  /\ rest' = Woken
  /\ UNCHANGED <<now, store, cache, job, done, loads, shown, opened, note, slept, gone,
                 adrift, faults>>

\* closeFact: a follow-up the plans know of stops holding.
closeFact(fact) ==
  /\ fact \in table
  /\ fact.predicate = FollowUp
  /\ enqueue("close", [op |-> "supersede", id |-> fact.id, at |-> None])
  /\ rest' = Woken
  /\ UNCHANGED <<now, store, cache, job, done, loads, shown, opened, note, slept, gone,
                 adrift, faults>>

-----------------------------------------------------------------------------
(* loadKnown.  Those who need the facts take them from the cache, or read    *)
(* them: the job, the panel, the note and the rest.                          *)

\* The read as it was asked for; its answer may come late.
Load(who, n) == loads' = loads \union {[who |-> who, n |-> n, facts |-> currentFacts]}

\* Mutant: what is new is written before what it replaces is closed.
WritesNewFirst(w) ==
  SetToSeq({[op |-> "upsert", id |-> f.id, fact |-> f] : f \in w.upserts})
  \o SetToSeq({[op |-> "supersede", id |-> s.id, at |-> s.at] : s \in w.supersede})
  \o SetToSeq({[op |-> "expire", id |-> id] : id \in w.expire})

\* apply's order: what ends is closed first, then what is no longer believed,
\* and then what is new.
Writes(w) ==
  SetToSeq({[op |-> "supersede", id |-> s.id, at |-> s.at] : s \in w.supersede})
  \o SetToSeq({[op |-> "expire", id |-> id] : id \in w.expire})
  \o SetToSeq({[op |-> "upsert", id |-> f.id, fact |-> f] : f \in w.upserts})

\* The fact a write is about, ended by it.
Ended(facts, w) == {IF f.id = w.id THEN [f EXCEPT !.to = w.at] ELSE f : f \in facts}

\* Mutant: what ends stays in the cache.
CacheAfterKeeps(facts, w) ==
  IF w.op = "upsert" THEN Put(facts, w.fact) ELSE facts

\* What a write makes of the cache's facts.
CacheAfter(facts, w) ==
  CASE w.op = "upsert" -> Put(facts, w.fact)
    [] w.op = "supersede" /\ w.at > now -> Ended(facts, w)
    [] OTHER -> Without(facts, {w.id})

Edits == {"delete", "correct", "record", "close"}

\* The job goes on with the facts it was given.
Knowing(j, facts) ==
  CASE j.kind = "extract" -> [j EXCEPT !.phase = "ask", !.known = facts]
    [] j.stage = "rules" ->
         [j EXCEPT !.phase = "write", !.holds = TRUE,
                   !.todo = Writes(applyMerges(facts, ruleMerges(facts)))]
    [] j.stage = "tidy" ->
         [j EXCEPT !.phase = "write", !.holds = TRUE,
                   !.todo = Writes(consolidateFacts(facts, now))]
    [] OTHER -> NoJob

\* An edit is over with its write in the cache.
Finishes(j) == j.kind \in Edits

CacheKnowing(j, facts) == Cached(IF Finishes(j) THEN CacheAfter(facts, j.write) ELSE facts)

\* Mutant: the note is left as it is until the next exchange.
NoteUntouched(j, n) == n

\* The note after an edit: what was deleted is left out, and what was corrected
\* is read again.
NoteAfter(j, n) ==
  CASE j.kind = "delete" -> [n EXCEPT !.facts = Without(@, {j.write.id})]
    [] j.kind = "correct" -> Refreshed(n, queued)
    [] OTHER -> n

\* The panel's after a deletion asked for in it; one opened since keeps the row.
ShownAfter(j, facts) ==
  IF j.kind = "delete" /\ j.n > opened THEN Without(facts, {j.write.id}) ELSE facts

JobKnows(facts) ==
  /\ cache' = CacheKnowing(job, facts)
  /\ job' = Knowing(job, facts)
  /\ done' = IF Finishes(job) THEN done + 1 ELSE done
  /\ note' = NoteAfter(job, note)
  /\ shown' = ShownAfter(job, shown)
  /\ gone' = IF job.kind = "delete" THEN gone \union {job.write.id} ELSE gone

JobReads ==
  /\ job.phase = "read"
  /\ IF cache.loaded
     THEN JobKnows(cache.facts) /\ UNCHANGED loads
     ELSE /\ Load("job", job.n)
          /\ job' = [job EXCEPT !.phase = "reading"]
          /\ UNCHANGED <<cache, done, note, shown, gone>>
  /\ UNCHANGED <<now, store, queue, queued, opened, rest, slept, adrift, faults>>

\* hasSomethingToSort: something recorded since she last slept.
hasSomethingToSort(facts) ==
  IF slept = 0 THEN Cardinality(facts) >= 2 ELSE \E f \in facts : f.recorded > slept

\* She lies down, if nobody came back while she looked: a sleep is queued.
LiesDown(facts) ==
  IF rest.asking = "disturbed" \/ ~hasSomethingToSort(facts) \/ queued = MaxJobs
  THEN /\ rest' = [rest EXCEPT !.asking = "no"]
       /\ UNCHANGED <<queue, queued>>
  ELSE /\ enqueue("sleep", <<>>)
       /\ rest' = [rest EXCEPT !.asking = "no", !.resting = TRUE, !.sleep = queued',
                               !.started = now]

\* The read of somebody else is back, or the cache had it: the panel shows it,
\* the note has it if no later refresh was asked for, and she decides by it.
Given(who, n, facts) ==
  /\ shown' = IF who = "panel" THEN facts ELSE shown
  /\ note' = IF who = "note" /\ n = note.gen
             THEN [note EXCEPT !.facts = facts, !.phase = "idle"] ELSE note
  /\ IF who = "rest" THEN LiesDown(facts) ELSE UNCHANGED <<queue, queued, rest>>

\* knownFacts, for anyone but the job.
knownFacts(who, n) ==
  /\ IF cache.loaded
     THEN Given(who, n, cache.facts) /\ UNCHANGED loads
     ELSE /\ Load(who, n)
          /\ note' = IF who = "note" THEN [note EXCEPT !.phase = "reading"] ELSE note
          /\ rest' = IF who = "rest" THEN [rest EXCEPT !.asking = "yes"] ELSE rest
          /\ shown' = IF who = "panel" THEN {} ELSE shown
          /\ UNCHANGED <<queue, queued>>
  /\ UNCHANGED <<now, store, cache, job, done, slept, gone, adrift, faults>>

\* The memory panel is opened, or opened anew (the click wakes her too, before),
\* while there is still an edit to be made in it.
PanelLoads ==
  /\ ~\E l \in loads : l.who = "panel"
  /\ ~rest.resting
  /\ queued < MaxJobs
  /\ opened' = queued
  /\ knownFacts("panel", 0)

\* The refresh's jobs are over.
NoteReads ==
  /\ note.phase = "wait"
  /\ done >= note.wait
  /\ knownFacts("note", note.gen)
  /\ UNCHANGED opened

\* The answer of a read: it becomes the cache, whatever is there by now, and a
\* job that writes on has the map that was there.
ReadLands ==
  \E l \in loads :
    /\ loads' = loads \ {l}
    /\ adrift' = (adrift \/ l.facts # currentFacts
                         \/ (l.who # "job" /\ job.holds /\ job.todo # <<>>))
    /\ IF l.who = "job"
       THEN IF l.n = job.n
            THEN /\ JobKnows(l.facts)
                 /\ UNCHANGED <<queue, queued, rest>>
            ELSE UNCHANGED <<cache, job, done, note, shown, gone, queue, queued, rest>>
       ELSE /\ cache' = Cached(l.facts)
            /\ job' = [job EXCEPT !.holds = FALSE]
            /\ Given(l.who, l.n, l.facts)
            /\ UNCHANGED <<done, gone>>
    /\ UNCHANGED <<now, store, opened, slept, faults>>

\* A read fails.  The job that waits for it ends there, what it has written
\* written (a deletion is then told as one that failed); the note stays as it
\* was, and she does not lie down.
ReadFails ==
  /\ faults < MaxFaults
  /\ faults' = faults + 1
  /\ \E l \in loads :
       /\ loads' = loads \ {l}
       /\ IF l.who = "job" /\ l.n = job.n
          THEN job' = NoJob /\ done' = done + 1
          ELSE UNCHANGED <<job, done>>
       /\ note' = IF l.who = "note" /\ l.n = note.gen
                  THEN [note EXCEPT !.phase = "idle"] ELSE note
       /\ rest' = IF l.who = "rest" THEN [rest EXCEPT !.asking = "no"] ELSE rest
  /\ UNCHANGED <<now, store, cache, queue, queued, shown, opened, slept, gone, adrift>>

-----------------------------------------------------------------------------
(* The queue's job.                                                          *)

\* The queue goes on with its next job, when the last is over.
JobStarts ==
  /\ job = NoJob
  /\ queue # <<>>
  /\ LET j == Head(queue) IN
       /\ job' = CASE j.kind \in Edits -> [j EXCEPT !.phase = "edit"]
                   [] j.kind = "sleep" -> [j EXCEPT !.phase = "read", !.stage = "rules"]
                   [] OTHER -> [j EXCEPT !.phase = "read"]
       /\ cache' = IF j.kind = "sleep" THEN NoCache ELSE cache
  /\ queue' = Tail(queue)
  /\ UNCHANGED <<now, store, queued, done, loads, shown, opened, note, rest, slept, gone,
                 adrift, faults>>

\* The extractor's answer, or its failure: the facts it read, each with the one
\* it replaces, if any, and the ids of what has ended, are met with those known
\* when it was asked.
Hears ==
  /\ job.phase = "ask"
  /\ job.kind = "extract"
  /\ \/ /\ job' = NoJob
        /\ done' = done + 1
     \/ \E saying \in Sayings, ended \in SUBSET {f.id : f \in job.known} :
          \E replaces \in [DOMAIN saying -> {None} \union {f.id : f \in job.known}] :
             LET heard == [i \in DOMAIN saying |->
                             [predicate |-> saying[i].predicate, object |-> saying[i].object,
                              conf |-> saying[i].conf, from |-> saying[i].from,
                              replaces |-> replaces[i]]]
             IN /\ job' = [job EXCEPT !.phase = "write", !.holds = TRUE, !.known = {},
                             !.todo = Writes(planFactWrites(job.known, heard, ended, now,
                                                            FirstId(job.n)))]
                /\ done' = done
  /\ UNCHANGED <<now, store, cache, queue, queued, loads, shown, opened, note, rest,
                 slept, gone, adrift, faults>>

\* A write as the job makes it: what is corrected is recorded now, and a plan's
\* follow-up closed now.
Made(w) ==
  CASE job.kind = "correct" -> [w EXCEPT !.fact.recorded = now]
    [] job.kind = "close" -> [w EXCEPT !.at = now]
    [] OTHER -> w

\* Whether the store takes a write.
Takes(w) ==
  CASE w.op = "upsert" -> w.fact.to = None \/ w.fact.to >= w.fact.from
    [] w.op = "supersede" -> \E f \in ById(table, w.id) : w.at >= f.from
    [] OTHER -> ById(table, w.id) # {}

\* What it does with it.  A fact no longer believed stays so, whatever is
\* written of it.
StoreDoes(w) ==
  /\ table' = CASE w.op = "upsert" -> Put(table, w.fact)
                [] w.op = "supersede" -> Ended(table, w)
                [] w.op = "delete" -> Without(table, {w.id})
                [] OTHER -> table
  /\ expired' = CASE w.op = "expire" -> expired \union {w.id}
                  [] w.op = "delete" -> expired \ {w.id}
                  [] OTHER -> expired

\* A person's edit, or a plan's: written, and then brought into the cache.
EditWrites ==
  /\ job.phase = "edit"
  /\ LET w == Made(job.write) IN
       /\ Takes(w)
       /\ StoreDoes(w)
       /\ revived' = revived \union {id \in expired : id = w.id /\ job.kind = "correct"}
       /\ gone' = gone \ {id \in gone : id = w.id /\ job.kind = "correct"}
       /\ job' = [job EXCEPT !.phase = "read", !.write = w]
  /\ UNCHANGED <<now, cache, queue, queued, done, loads, shown, opened, note, rest,
                 slept, adrift, faults>>

\* apply: one write of the plan, in the store and then in the map the job has.
Applies ==
  /\ job.phase = "write"
  /\ job.todo # <<>>
  /\ Takes(Head(job.todo))
  /\ StoreDoes(Head(job.todo))
  /\ cache' = IF job.holds THEN Cached(CacheAfter(cache.facts, Head(job.todo))) ELSE cache
  /\ job' = [job EXCEPT !.todo = Tail(@)]
  /\ UNCHANGED <<now, revived, queue, queued, done, loads, shown, opened, note, rest,
                 slept, gone, adrift, faults>>

\* The store refuses a write, and the job ends there: the rest is not written.
\* The queue carries on.
Refused ==
  /\ \/ job.phase = "edit" /\ ~Takes(Made(job.write))
     \/ job.phase = "write" /\ job.todo # <<>> /\ ~Takes(Head(job.todo))
  /\ job' = NoJob
  /\ done' = done + 1
  /\ UNCHANGED <<now, store, cache, queue, queued, loads, shown, opened, note, rest,
                 slept, gone, adrift, faults>>

\* A store call fails.
StoreFails ==
  /\ faults < MaxFaults
  /\ faults' = faults + 1
  /\ job.phase \in {"edit", "write"}
  /\ job.phase = "write" => job.todo # <<>>
  /\ LET w == IF job.phase = "edit" THEN Made(job.write) ELSE Head(job.todo) IN
       \/ UNCHANGED <<table, expired, adrift>>
       \/ Takes(w) /\ StoreDoes(w) /\ adrift' = TRUE
  /\ job' = NoJob
  /\ done' = done + 1
  /\ UNCHANGED <<now, revived, cache, queue, queued, loads, shown, opened, note, rest,
                 slept, gone>>

Stopped == job.n \in rest.stopped

\* Mutant: she takes a sleep that was stopped for one she slept through.
SleptThrough == rest.started

\* The ledger after a sleep: when it began, unless it was stopped.
Slept == IF Stopped THEN slept ELSE rest.started

SleepOver ==
  /\ job' = NoJob
  /\ done' = done + 1
  /\ slept' = Slept
  /\ rest' = [rest EXCEPT !.sleep = IF @ = job.n THEN 0 ELSE @]

\* The plan is written: an exchange's job is over, and a sleep goes on, by rule,
\* by the model and tidying, unless it has been stopped.
PlanWritten ==
  /\ job.phase = "write"
  /\ job.todo = <<>>
  /\ CASE job.kind = "extract" ->
            /\ job' = NoJob
            /\ done' = done + 1
            /\ UNCHANGED <<cache, rest, slept>>
       [] job.stage = "tidy" \/ (job.kind = "sleep" /\ Stopped) -> SleepOver /\ UNCHANGED cache
       [] job.stage = "rules" /\ ~Stopped /\ Cardinality(Mergeable(cache.facts)) > 1 ->
            /\ job' = [job EXCEPT !.phase = "ask", !.stage = "model",
                                  !.known = Mergeable(cache.facts), !.holds = FALSE]
            /\ UNCHANGED <<cache, done, rest, slept>>
       [] OTHER ->
            /\ job' = [job EXCEPT !.phase = "read", !.stage = "tidy", !.holds = FALSE]
            /\ cache' = NoCache
            /\ UNCHANGED <<done, rest, slept>>
  /\ UNCHANGED <<now, store, queue, queued, loads, shown, opened, note, gone, adrift,
                 faults>>

\* The model says which say the same thing.  A failure, and an answer to a sleep
\* that was stopped, merge nothing.
Merges ==
  /\ job.phase = "ask"
  /\ job.kind = "sleep"
  /\ \E groups \in parseMerges(job.known) :
       /\ Stopped => groups = {}
       /\ job' = [job EXCEPT !.phase = "write", !.holds = TRUE, !.known = {},
                             !.todo = Writes(applyMerges(job.known, groups))]
  /\ UNCHANGED <<now, store, cache, queue, queued, done, loads, shown, opened, note,
                 rest, slept, gone, adrift, faults>>

-----------------------------------------------------------------------------
(* Rest, and time.                                                           *)

\* The tick asks whether to rest: quiet for long enough, and nothing open.
RestLooks ==
  /\ ~rest.resting
  /\ rest.asking = "no"
  /\ now - rest.active >= RestAfter
  /\ knownFacts("rest", 0)
  /\ UNCHANGED opened

\* A key or a press on the page.
Wakes ==
  /\ rest.resting \/ rest.asking = "yes"
  /\ rest' = Woken
  /\ UNCHANGED <<now, store, cache, queue, job, queued, done, loads, shown, opened, note,
                 slept, gone, adrift, faults>>

Advance ==
  /\ now < MaxNow
  /\ now' = now + 1
  /\ UNCHANGED <<store, cache, queue, job, queued, done, loads, shown, opened, note,
                 rest, slept, gone, adrift, faults>>

\* The page is closed and opened again: the store and the block are what is left.
Reloads ==
  /\ faults < MaxFaults
  /\ faults' = faults + 1
  /\ cache' = NoCache
  /\ queue' = <<>>
  /\ job' = NoJob
  /\ done' = queued
  /\ loads' = {}
  /\ shown' = {}
  /\ opened' = queued
  /\ note' = [facts |-> {}, gen |-> note.gen + 1, wait |-> 0, phase |-> "wait"]
  /\ rest' = [Awake EXCEPT !.active = now]
  /\ UNCHANGED <<now, store, queued, slept, gone, adrift>>

Works ==
  \/ JobStarts \/ JobReads \/ Hears \/ EditWrites \/ Applies \/ Refused \/ PlanWritten \/ Merges

Asks ==
  \/ Exchange
  \/ \E fact \in shown : deleteFact(fact) \/ \E object \in Wordings : correctFact(fact, object)
  \/ \E object \in Wordings : recordFact(object)
  \/ \E fact \in table : closeFact(fact)

Next ==
  \/ Asks
  \/ PanelLoads \/ NoteReads \/ ReadLands \/ ReadFails
  \/ Works \/ StoreFails
  \/ RestLooks \/ Wakes
  \/ Advance
  \/ Reloads

Spec == Init /\ [][Next]_vars

-----------------------------------------------------------------------------
(* Properties.                                                               *)

\* Between jobs, what the kernel holds is what the store would answer: each of
\* its writes is in both, whichever of a job's writes failed.  The exceptions
\* are a read that came back late, and a fact the person corrected after she
\* had stopped believing it.
CacheInStep ==
  (cache.loaded /\ job = NoJob /\ loads = {} /\ ~adrift) =>
    /\ currentFacts \subseteq cache.facts
    /\ \A f \in cache.facts \ currentFacts :
         isCurrent(f, now) => f.id \in expired /\ f.id \in revived

\* What the person deletes stays deleted, unless they state it again: no
\* extraction that was in flight writes it back, and it is not told to the model.
DeletedStaysDeleted ==
  ~adrift => \A id \in gone :
    /\ ById(table, id) = {}
    /\ ById(note.facts, id) = {}
    /\ ById(cache.facts, id) = {}

Believed == {f \in table : f.id \notin expired}

\* Two values, neither with an end, of what has one value at a time.
SideBySide ==
  {f \in Believed : \E g \in Believed :
     /\ f.predicate = g.predicate /\ f.object # g.object /\ f.predicate \in SingleValued
     /\ f.to = None /\ g.to = None}

\* No write of what she hears puts two values of one thing side by side, not
\* even for the time between two writes (apply: closing first).
ClosesFirst ==
  [][(job.kind = "extract" /\ ~adrift /\ SideBySide = {}) => SideBySide' = {}]_vars

Key(f) == <<Family[f.predicate], Plain[f.object]>>

\* She counts as having slept on it only if she has: of what was recorded before
\* the sleep she last finished, nothing is said twice, and nothing is left that
\* was hedged, has no end and is old enough to be forgotten.
SleptMeansSorted ==
  ~adrift => LET before == {f \in currentFacts : f.recorded < slept} IN
    /\ \A f \in before :
         f.conf < ForgetBelow /\ f.to = None => slept - f.recorded <= ForgetAfter
    /\ \A f, g \in Mergeable(before) : Key(f) = Key(g) => f = g

\* Merging by rule loses nothing, however it is stopped or fails: what a fact
\* said is said by one that is still believed (sleep.ts).
MergedLivesOn ==
  [][(job.stage = "rules" /\ ~adrift) =>
       {Key(f) : f \in Believed} \subseteq {Key(f) : f \in Believed'}]_vars
=============================================================================
