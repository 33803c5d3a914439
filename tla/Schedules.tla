------------------------------- MODULE Schedules -------------------------------
(*****************************************************************************)
(* Schedules (packages/core/src/scheduler): one table of schedules that four *)
(* programs read and write whole rows of, each a read and a write with an    *)
(* await between them:                                                       *)
(*                                                                           *)
(*  - the page's runner (runner.ts) and the companion's (server/schedules/   *)
(*    runner.rs), which claim what is due, run it and keep the run;          *)
(*  - the page's queue of edits (schedules.ts), hers and the panel's;        *)
(*  - the page's deliveries (deliveries.ts), which tell the person of what   *)
(*    ran, and mark it told through that queue.                              *)
(*                                                                           *)
(* A run is a number, its place in `runs`; what it says is whether it says   *)
(* anything.  A schedule in a zone the runtime cannot read is left out, and  *)
(* so is the panel's own copy of the list.                                   *)
(*****************************************************************************)
EXTENDS SchedulePlan, Functions

CONSTANTS
  Ids,         \* the schedules, numbered in the order the store lists them
  Jobs,        \* what they may be: each a function from Ids to jobs
  MaxNow,      \* bound: the last tick of the clock
  MaxRuns,     \* bound: how many runs are made
  MaxUpsets    \* bound: how many times, together, a change or a run is asked
               \* for, a program stops or a store call fails

Runners == {"core", "companion"}

\* A reminder asks no model, a task does, a call is a companion's tool.
Job ==
  [kind : {"once", "cron"}, firings : SUBSET Nat, does : {"reminder", "task", "call"},
   catchUp : {"skip", "run_once", "run_all"},
   delivery : {"silent_log", "notify", "speak_next_session"}, runOn : Runners]

ASSUME SchedulesAssumption ==
  /\ Ids \subseteq Nat
  /\ \A jobs \in Jobs :
       /\ jobs \in [Ids -> Job]
       /\ \A id \in Ids :
            /\ NoTime \notin jobs[id].firings
            /\ jobs[id].kind = "once" => Cardinality(jobs[id].firings) = 1
            /\ jobs[id].does = "call" => jobs[id].runOn = "companion"
  /\ {MaxNow, MaxRuns, MaxUpsets} \subseteq Nat

VARIABLES
  job,          \* what each schedule is
  now,
  store,        \* the table: a row of each schedule
  memory,       \* the runs written down as episodes
  runs,         \* every run made, in order
  runner,       \* what each runner is in the middle of
  edit,         \* the edit under way in the page: the rows it has read, and
                \* the ones it has yet to write
  telling,      \* the delivery pass: its phase and what it found to tell
  heard,        \* how often the person has been told of each run
  overwritten,  \* schedules one of whose rows was replaced by a writer that
                \* had not read it
  edits, faults

vars == <<job, now, store, memory, runs, runner, edit, telling, heard, overwritten,
          edits, faults>>

NoRun == 0

Absent == [status |-> "absent", next |-> NoTime, last |-> NoRun, told |-> TRUE]

Idle == [phase |-> "idle", at |-> 0, todo |-> {}, id |-> 0, left |-> {},
         onDemand |-> FALSE, run |-> NoRun, told |-> FALSE, row |-> Absent]

NoEdit == [ids |-> {}, from |-> <<>>, to |-> <<>>]

Silent == [phase |-> "idle", items |-> {}]

Init ==
  /\ job \in Jobs
  /\ now = 0
  /\ \E status \in [Ids -> {"absent", "active", "paused"}] :
       store = [id \in Ids |->
         IF status[id] = "absent" THEN Absent
         ELSE [Absent EXCEPT !.status = status[id], !.next = nextFiring(job[id].firings, 0)]]
  /\ memory = {}
  /\ runs = <<>>
  /\ runner = [r \in Runners |-> Idle]
  /\ edit = NoEdit
  /\ telling = Silent
  /\ heard = [n \in 1 .. MaxRuns |-> 0]
  /\ overwritten = {}
  /\ edits = 0
  /\ faults = 0

\* saveSchedule: the whole row, whatever it has become since `from` was read.
saveSchedule(id, from, to) ==
  /\ store' = [store EXCEPT ![id] = to]
  /\ overwritten' = IF store[id] = from THEN overwritten ELSE overwritten \union {id}

-----------------------------------------------------------------------------
(* The runners.                                                              *)

\* What is due, with its row.
DueRows(r) ==
  {[id |-> id, row |-> store[id]] :
     id \in {i \in Ids : job[i].runOn = r /\ Due(store[i], now)}}

\* The next of them: the page takes them as the store lists them, and the
\* companion the longest overdue first.
ComesFirst(r, todo, d) ==
  \A e \in todo \ {d} :
    \/ r = "companion" /\ d.row.next < e.row.next
    \/ (r = "companion" => d.row.next = e.row.next) /\ d.id < e.id

\* The tick: the rows are read once, at one time, for the whole pass.
Tick(r) ==
  /\ runner[r].phase = "idle"
  /\ DueRows(r) # {}
  /\ runner' = [runner EXCEPT ![r] =
       [Idle EXCEPT !.phase = "claim", !.at = now, !.todo = DueRows(r)]]
  /\ UNCHANGED <<job, now, store, memory, runs, edit, telling, heard, overwritten, edits, faults>>

\* Where a runner goes from here: the schedule's next firing, the pass's next
\* schedule, or back to rest.
Onward(p) ==
  CASE p.left # {} -> [p EXCEPT !.phase = "run"]
    [] p.left = {} /\ p.todo # {} ->
         [Idle EXCEPT !.phase = "claim", !.at = p.at, !.todo = p.todo]
    [] OTHER -> Idle

\* Mutant: the schedule is not moved on until it has run.
ClaimedLater(row, plan) == row

\* The row a claim leaves: the next firing, and a one-shot is completed.
Claimed(row, plan) ==
  [row EXCEPT !.next = plan.next,
              !.status = IF plan.next = NoTime THEN "completed" ELSE @]

\* A firing is claimed before it runs.  When the policy runs none of what was
\* missed, the run kept is a skipped one.
Claim(r) ==
  /\ runner[r].phase = "claim"
  /\ \E due \in runner[r].todo :
       LET plan == planSchedule(job[due.id], due.row, runner[r].at)
           p    == [runner[r] EXCEPT !.todo = @ \ {due}, !.id = due.id, !.left = plan.run]
       IN /\ ComesFirst(r, runner[r].todo, due)
          /\ saveSchedule(due.id, due.row, Claimed(due.row, plan))
          /\ IF plan.run = {} /\ plan.skipped > 0
             THEN /\ Len(runs) < MaxRuns
                  /\ runs' = Append(runs, [id |-> due.id, due |-> due.row.next,
                                           outcome |-> "skipped", words |-> FALSE,
                                           onDemand |-> FALSE])
                  /\ runner' = [runner EXCEPT
                       ![r] = [p EXCEPT !.phase = "keep", !.run = Len(runs) + 1, !.told = TRUE]]
             ELSE /\ runner' = [runner EXCEPT ![r] = Onward(p)]
                  /\ UNCHANGED runs
  /\ UNCHANGED <<job, now, memory, edit, telling, heard, edits, faults>>

\* runNow: one schedule, once, behind whatever is in progress.
RunNow(id) ==
  /\ edits + faults < MaxUpsets
  /\ edits' = edits + 1
  /\ runner["core"].phase = "idle"
  /\ store[id].status # "absent"
  /\ job[id].does # "call"
  /\ runner' = [runner EXCEPT !["core"] =
       [Idle EXCEPT !.phase = "run", !.id = id, !.left = {now}, !.onDemand = TRUE]]
  /\ UNCHANGED <<job, now, store, memory, runs, edit, telling, heard, overwritten, faults>>

\* Whether a run with something to say has been told already: written down is
\* told, shown is told, and on demand she says it in her reply.
ToldAlready(id, onDemand, words, shown) ==
  onDemand \/ job[id].delivery = "silent_log" \/ ~words \/ shown

Says(outcome) == [outcome |-> outcome, words |-> TRUE]

SaysNothing == [outcome |-> "ok", words |-> FALSE]

\* execute: a reminder is its own words, a task's model may fail or find nothing
\* worth saying, and the companion has none.  A failure is always told.
Outcomes(r, id) ==
  CASE job[id].does = "reminder" -> {Says("ok")}
    [] job[id].does = "call" -> {Says("ok"), Says("failed")}
    [] job[id].does = "task" /\ r = "core" -> {Says("ok"), Says("failed"), SaysNothing}
    [] OTHER -> {Says("failed")}

\* execute and deliver.  The companion shows nothing.
Execute(r) ==
  LET p == runner[r] IN
    /\ p.phase = "run"
    /\ Len(runs) < MaxRuns
    /\ \E said \in Outcomes(r, p.id), shown \in BOOLEAN :
         /\ shown => /\ r = "core" /\ ~p.onDemand /\ said.words
                     /\ job[p.id].delivery = "notify"
         /\ runs' = Append(runs, [id |-> p.id, due |-> Min(p.left), outcome |-> said.outcome,
                                  words |-> said.words, onDemand |-> p.onDemand])
         /\ runner' = [runner EXCEPT ![r] =
              [p EXCEPT !.phase = IF said.words THEN "append" ELSE "keep",
                        !.left = @ \ {Min(@)},
                        !.run = Len(runs) + 1,
                        !.told = ToldAlready(p.id, p.onDemand, said.words, shown)]]
         /\ heard' = [heard EXCEPT ![Len(runs) + 1] = IF shown THEN @ + 1 ELSE @]
    /\ UNCHANGED <<job, now, store, memory, edit, telling, overwritten, edits, faults>>

\* Mutant: a failure is not written down.
AppendSuccess(r) ==
  /\ runner[r].phase = "append"
  /\ memory' = IF runs[runner[r].run].outcome = "ok" THEN memory \union {runner[r].run} ELSE memory
  /\ runner' = [runner EXCEPT ![r].phase = "keep"]
  /\ UNCHANGED <<job, now, store, runs, edit, telling, heard, overwritten, edits, faults>>

\* appendEpisode: what it did is a memory before it is the schedule's last run.
AppendEpisode(r) ==
  /\ runner[r].phase = "append"
  /\ memory' = memory \union {runner[r].run}
  /\ runner' = [runner EXCEPT ![r].phase = "keep"]
  /\ UNCHANGED <<job, now, store, runs, edit, telling, heard, overwritten, edits, faults>>

\* keep reads the schedule as it is now ...
KeepReads(r) ==
  /\ runner[r].phase = "keep"
  /\ runner' = [runner EXCEPT ![r] =
       [runner[r] EXCEPT !.phase = "kept", !.row = store[runner[r].id]]]
  /\ UNCHANGED <<job, now, store, memory, runs, edit, telling, heard, overwritten, edits, faults>>

\* ... and writes it back with the run on it.  A run on demand is no firing.
KeepWrites(r) ==
  LET p == runner[r]
      failed == /\ ~p.onDemand
                /\ runs[p.run].outcome = "failed"
                /\ job[p.id].kind = "once"
                /\ p.row.status = "completed"
  IN /\ p.phase = "kept"
     /\ saveSchedule(p.id, p.row,
          [p.row EXCEPT !.status = IF failed THEN "failed" ELSE @,
                        !.last = p.run,
                        !.told = p.told])
     /\ runner' = [runner EXCEPT ![r] = Onward([p EXCEPT !.row = Absent])]
     /\ UNCHANGED <<job, now, memory, runs, edit, telling, heard, edits, faults>>

-----------------------------------------------------------------------------
(* The page's edits.  The queue lets one at a time through, so an edit that  *)
(* waits its turn is one that has not been asked for yet.                    *)

\* Where each change may start from.
From ==
  [create |-> {"absent"}, pause |-> {"active"}, resume |-> {"paused"},
   cancel |-> {"active", "paused"}]

\* A change is refused from any other status, and once the time has passed.
Refused(kind, id) ==
  \/ store[id].status \notin From[kind]
  \/ kind \in {"create", "resume"} /\ nextFiring(job[id].firings, now) = NoTime

\* What a change makes of the row it reads.
Changed(kind, id) ==
  CASE kind \in {"create", "resume"} ->
         [store[id] EXCEPT !.status = "active", !.next = nextFiring(job[id].firings, now)]
    [] kind = "pause"  -> [store[id] EXCEPT !.status = "paused"]
    [] kind = "cancel" -> [store[id] EXCEPT !.status = "cancelled", !.next = NoTime]

\* change: the person in the panel, or she with a tool.  The row is read and
\* the new one made of it; a change that is refused writes nothing.
Change(kind, id) ==
  /\ edits + faults < MaxUpsets
  /\ edits' = edits + 1
  /\ edit = NoEdit
  /\ ~Refused(kind, id)
  /\ edit' = [ids |-> {id}, from |-> Restrict(store, {id}), to |-> [i \in {id} |-> Changed(kind, i)]]
  /\ UNCHANGED <<job, now, store, memory, runs, runner, telling, heard, overwritten, faults>>

Untold(row) == row.last # NoRun /\ ~row.told

\* Mutant: the run is not marked told.
LeftUntold(row) == row

\* markDelivered (runner.ts): the schedule's last run, whichever that is.
MarkedTold(row) == IF row.last = NoRun THEN row ELSE [row EXCEPT !.told = TRUE]

\* Schedules.markDelivered: what has been told is read again, and marked.
MarkDelivered ==
  /\ telling.phase = "told"
  /\ edit = NoEdit
  /\ telling' = Silent
  /\ LET ids == {id \in {i.id : i \in telling.items} : Untold(store[id])} IN
       edit' = [ids |-> ids, from |-> Restrict(store, ids),
                to |-> [id \in ids |-> MarkedTold(store[id])]]
  /\ UNCHANGED <<job, now, store, memory, runs, runner, heard, overwritten, edits, faults>>

\* The rows of an edit are written one after the other.
EditWrites ==
  /\ \E id \in edit.ids :
       /\ saveSchedule(id, edit.from[id], edit.to[id])
       /\ edit' = IF edit.ids = {id} THEN NoEdit ELSE [edit EXCEPT !.ids = @ \ {id}]
  /\ UNCHANGED <<job, now, memory, runs, runner, telling, heard, edits, faults>>

-----------------------------------------------------------------------------
(* Telling the person.                                                       *)

\* Mutant: a failed run is not told.
PendingSuccesses ==
  {[id |-> id, run |-> store[id].last] :
     id \in {i \in Ids : Untold(store[i]) /\ runs[store[i].last].words
                         /\ runs[store[i].last].outcome = "ok"}}

\* pendingDeliveries: kept, never told, and with something to say.
pendingDeliveries ==
  {[id |-> id, run |-> store[id].last] :
     id \in {i \in Ids : Untold(store[i]) /\ runs[store[i].last].words}}

\* The delivery tick: what is pending is settled when the schedules are loaded,
\* and told after the next await.
TellTick ==
  /\ telling.phase = "idle"
  /\ edit = NoEdit
  /\ pendingDeliveries # {}
  /\ telling' = [phase |-> "found", items |-> pendingDeliveries]
  /\ UNCHANGED <<job, now, store, memory, runs, runner, edit, heard, overwritten, edits, faults>>

\* Mutant: what could not be shown is marked with what could.
TellSome(items) ==
  /\ heard' = [n \in DOMAIN heard |-> heard[n] + Cardinality({i \in items : i.run = n})]
  /\ telling' = IF items = {} THEN Silent ELSE [telling EXCEPT !.phase = "told"]

\* The person is told of these, and they are to be marked so.
Tell(items) ==
  /\ heard' = [n \in DOMAIN heard |-> heard[n] + Cardinality({i \in items : i.run = n})]
  /\ telling' = IF items = {} THEN Silent ELSE [phase |-> "told", items |-> items]

\* The person is away: each `notify` item is shown, or could not be.
TellAway ==
  /\ telling.phase = "found"
  /\ \E shown \in SUBSET {i \in telling.items : job[i.id].delivery = "notify"} : Tell(shown)
  /\ UNCHANGED <<job, now, store, memory, runs, runner, edit, overwritten, edits, faults>>

\* The person is here and she is free: she says them all, in one turn.
SpeakUp ==
  /\ telling.phase = "found"
  /\ Tell(telling.items)
  /\ UNCHANGED <<job, now, store, memory, runs, runner, edit, overwritten, edits, faults>>

\* They are typing, a voice panel or a prompt is open, or she is in a turn.
NotNow ==
  /\ telling.phase = "found"
  /\ telling' = Silent
  /\ UNCHANGED <<job, now, store, memory, runs, runner, edit, heard, overwritten, edits, faults>>

-----------------------------------------------------------------------------
(* Time, and what goes wrong.                                                *)

Advance ==
  /\ now < MaxNow
  /\ now' = now + 1
  /\ UNCHANGED <<job, store, memory, runs, runner, edit, telling, heard, overwritten, edits, faults>>

\* The companion stops, or a runner's store call fails: the pass is over.  A
\* write under way has landed or has not.
RunnerStops(r) ==
  /\ edits + faults < MaxUpsets
  /\ faults' = faults + 1
  /\ runner[r].phase # "idle"
  /\ runner' = [runner EXCEPT ![r] = Idle]
  /\ UNCHANGED <<job, now, store, memory, runs, edit, telling, heard, overwritten, edits>>

\* The page is closed, and opened again: what was in it is gone.
PageReloads ==
  /\ edits + faults < MaxUpsets
  /\ faults' = faults + 1
  /\ runner' = [runner EXCEPT !["core"] = Idle]
  /\ edit' = NoEdit
  /\ telling' = Silent
  /\ UNCHANGED <<job, now, store, memory, runs, heard, overwritten, edits>>

Runs(r) ==
  \/ Tick(r) \/ Claim(r) \/ Execute(r)
  \/ AppendEpisode(r) \/ KeepReads(r) \/ KeepWrites(r)

Tells == TellTick \/ TellAway \/ SpeakUp \/ NotNow \/ MarkDelivered

Next ==
  \/ \E r \in Runners : Runs(r) \/ RunnerStops(r)
  \/ \E id \in Ids : RunNow(id)
  \/ \E kind \in DOMAIN From, id \in Ids : Change(kind, id)
  \/ EditWrites
  \/ Tells
  \/ Advance
  \/ PageReloads

Spec == Init /\ [][Next]_vars

\* The page ticks, and what is under way in it goes on; a tick now and then
\* finds her free and the person there.
Fairness ==
  /\ WF_vars(TellTick \/ MarkDelivered)
  /\ WF_vars(EditWrites)
  /\ WF_vars(TellAway \/ SpeakUp \/ NotNow)
  /\ SF_vars(SpeakUp)

FairSpec == Spec /\ Fairness

-----------------------------------------------------------------------------
(* Properties.                                                               *)

\* Run m was made for a firing, and not on demand or to say that it was skipped.
Fired(m) == ~runs[m].onDemand /\ runs[m].outcome # "skipped"

\* No firing is run twice, though a page is closed or a runner stopped between
\* any two of its steps: it is claimed in the table before it runs.  Only a
\* writer that puts back a row from before the claim can bring it round again.
RunsOnce ==
  \A m, n \in DOMAIN runs :
    (/\ m < n
     /\ runs[m].id = runs[n].id
     /\ runs[m].due = runs[n].due
     /\ Fired(m) /\ Fired(n)) => runs[n].id \in overwritten

\* The person is not told the same thing twice, unless the page was closed (or
\* a call failed) before it could be marked, or the mark was written over.
ToldOnce ==
  \A n \in DOMAIN runs : heard[n] > 1 => faults > 0 \/ runs[n].id \in overwritten

\* Whatever a schedule says it last did, if there is anything to say, she
\* remembers: the episode is in memory before the run is on its schedule, so
\* no crash leaves a message she could not account for.
RememberedFirst ==
  \A id \in Ids :
    LET n == store[id].last IN n # NoRun => (runs[n].words <=> n \in memory)

\* The last run of a schedule waits to be told.
Waiting(id) == Untold(store[id])

\* A run kept for the person goes on waiting until they have heard it.  The only
\* other ends are a later run in its place, the mark of another run of the
\* same schedule, told while this one was being kept, and a lost update.
WaitsToBeTold ==
  [][\A id \in Ids :
       LET n == store[id].last IN
         (Waiting(id) /\ store'[id] # store[id] /\ ~Waiting(id)') =>
           \/ heard[n] > 0
           \/ store'[id].last # n
           \/ \E m \in 1 .. n - 1 : runs[m].id = id /\ heard[m] > 0
           \/ id \in overwritten']_vars

\* Everything kept for the person is told in the end, or has made way for a
\* later run, if they come back to a free moment of hers often enough.
EveryRunIsTold ==
  \A id \in Ids : Waiting(id) ~> ~Waiting(id)
=============================================================================
