---------------------------- MODULE SchedulesProofs ----------------------------
(*****************************************************************************)
(* What holds of Schedules for every set of schedules, every clock and       *)
(* however many runs, edits and upsets there are, proved with the TLA+ proof *)
(* system: a run is in memory before it is on its schedule, no firing is run *)
(* twice, and no run is told twice or dropped untold, but for the schedules  *)
(* whose row some writer replaced without having read it.                    *)
(*                                                                           *)
(* A row is copied before it is written back, by a runner and by an edit, so *)
(* what holds of the table has to hold of every copy under way.              *)
(*****************************************************************************)
EXTENDS Schedules, SequenceTheorems, FiniteSetTheorems, WellFoundedInduction, TLAPS

\* Run n was made, and is an episode exactly if it has something to say.
Remembered(n, list, mem) ==
  n \in 1 .. Len(list) /\ (list[n].words <=> n \in mem)

\* Memory holds only runs that were made.
RunsOK(list, mem) ==
  /\ \E S : list \in Seq(S)
  /\ mem \subseteq 1 .. Len(list)

\* A row of the table, or a copy of one.
RowOK(row, list, mem) ==
  /\ "last" \in DOMAIN row
  /\ row.last # NoRun => Remembered(row.last, list, mem)

\* A runner's copies of rows, and the run it is writing down or keeping.
RunnerOK(p, list, mem) ==
  /\ {"phase", "todo", "id", "run", "row", "left", "told", "at"} \subseteq DOMAIN p
  /\ \A d \in p.todo : d.id \in Ids /\ RowOK(d.row, list, mem)
  /\ p.phase \in {"run", "append", "keep", "kept"} => p.id \in Ids
  /\ p.phase = "append" => p.run \in 1 .. Len(list) /\ list[p.run].words
  /\ p.phase \in {"keep", "kept"} => Remembered(p.run, list, mem)
  /\ p.phase = "kept" => RowOK(p.row, list, mem)

EditOK(e, list, mem) ==
  \A id \in e.ids : id \in Ids /\ RowOK(e.to[id], list, mem)

TellingOK(t) == \A i \in t.items : i.id \in Ids

IInv ==
  /\ RunsOK(runs, memory)
  /\ DOMAIN store = Ids
  /\ \A id \in Ids : RowOK(store[id], runs, memory)
  /\ DOMAIN runner = Runners
  /\ \A r \in Runners : RunnerOK(runner[r], runs, memory)
  /\ EditOK(edit, runs, memory)
  /\ TellingOK(telling)

\* Runs are only added, and only a run that has something to say is written down.
Grows(list, mem, list2, mem2) ==
  /\ Len(list) \in Nat /\ Len(list2) \in Nat
  /\ Len(list) <= Len(list2)
  /\ \A n \in 1 .. Len(list) : list2[n].words = list[n].words
  /\ \A n \in 1 .. Len(list) : n \in mem2 <=> n \in mem \/ (list[n].words /\ n \in mem2)

-----------------------------------------------------------------------------
(* What a step leaves alone stays as it should be.                           *)

LEMMA RememberedKept ==
  ASSUME NEW list, NEW mem, NEW list2, NEW mem2, Grows(list, mem, list2, mem2),
         NEW n, Remembered(n, list, mem)
  PROVE  Remembered(n, list2, mem2)
BY DEF Grows, Remembered

LEMMA RowKept ==
  ASSUME NEW list, NEW mem, NEW list2, NEW mem2, Grows(list, mem, list2, mem2),
         NEW row, RowOK(row, list, mem)
  PROVE  RowOK(row, list2, mem2)
BY RememberedKept DEF RowOK

LEMMA RunnerKept ==
  ASSUME NEW list, NEW mem, NEW list2, NEW mem2, Grows(list, mem, list2, mem2),
         NEW p, RunnerOK(p, list, mem)
  PROVE  RunnerOK(p, list2, mem2)
<1>1. \A d \in p.todo : d.id \in Ids /\ RowOK(d.row, list2, mem2)
  BY RowKept DEF RunnerOK
<1>2. p.phase \in {"keep", "kept"} => Remembered(p.run, list2, mem2)
  BY RememberedKept DEF RunnerOK
<1>3. p.phase = "kept" => RowOK(p.row, list2, mem2)
  BY RowKept DEF RunnerOK
<1>4. p.phase = "append" => p.run \in 1 .. Len(list2) /\ list2[p.run].words
  BY DEF RunnerOK, Grows
<1> QED
  BY <1>1, <1>2, <1>3, <1>4 DEF RunnerOK

\* A step keeps the invariant if the rows, the runners, the edit and the telling
\* it writes are as they should be.
LEMMA StepKeeps ==
  ASSUME IInv, RunsOK(runs', memory'), Grows(runs, memory, runs', memory'),
         DOMAIN store' = Ids,
         \A id \in Ids : store'[id] = store[id] \/ RowOK(store'[id], runs', memory'),
         DOMAIN runner' = Runners,
         \A r \in Runners : runner'[r] = runner[r] \/ RunnerOK(runner'[r], runs', memory'),
         edit' = edit \/ EditOK(edit', runs', memory'),
         telling' = telling \/ TellingOK(telling')
  PROVE  IInv'
<1>1. \A id \in Ids : RowOK(store'[id], runs', memory')
  BY RowKept DEF IInv
<1>2. \A r \in Runners : RunnerOK(runner'[r], runs', memory')
  BY RunnerKept DEF IInv
<1>3. EditOK(edit', runs', memory')
  BY RowKept DEF IInv, EditOK
<1>4. TellingOK(telling')
  BY DEF IInv
<1> QED
  BY <1>1, <1>2, <1>3, <1>4 DEF IInv

\* Nothing is run and nothing written down.
LEMMA StandsStill ==
  ASSUME IInv, UNCHANGED <<runs, memory>>
  PROVE  RunsOK(runs', memory') /\ Grows(runs, memory, runs', memory')
BY DEF IInv, RunsOK, Grows

\* A row keeps its last run through every change but a run's.
LEMMA RowsChanged ==
  ASSUME NEW row, NEW list, NEW mem, RowOK(row, list, mem), NEW status, NEW next
  PROVE  /\ RowOK([row EXCEPT !.status = status], list, mem)
         /\ RowOK([row EXCEPT !.status = status, !.next = next], list, mem)
         /\ RowOK([row EXCEPT !.next = next, !.status = status], list, mem)
         /\ RowOK([row EXCEPT !.told = status], list, mem)
<1>1. ASSUME NEW r, RowOK(r, list, mem), NEW f \in {"status", "next", "told"}, NEW v
      PROVE  RowOK([r EXCEPT ![f] = v], list, mem)
  BY <1>1 DEF RowOK
<1>2. RowOK([row EXCEPT !.status = status], list, mem)
  BY <1>1
<1>3. RowOK([row EXCEPT !.next = next], list, mem)
  BY <1>1
<1>4. RowOK([row EXCEPT !.told = status], list, mem)
  BY <1>1
<1>5. [row EXCEPT !.status = status, !.next = next]
        = [[row EXCEPT !.status = status] EXCEPT !.next = next]
  BY Zenon
<1>6. [row EXCEPT !.next = next, !.status = status]
        = [[row EXCEPT !.next = next] EXCEPT !.status = status]
  BY Zenon
<1>7. RowOK([[row EXCEPT !.status = status] EXCEPT !.next = next], list, mem)
  BY <1>1, <1>2
<1>8. RowOK([[row EXCEPT !.next = next] EXCEPT !.status = status], list, mem)
  BY <1>1, <1>3
<1> QED
  BY <1>2, <1>4, <1>5, <1>6, <1>7, <1>8

\* A runner at rest has nothing to answer for.
LEMMA IdleOK ==
  ASSUME NEW list, NEW mem
  PROVE  RunnerOK(Idle, list, mem)
BY DEF Idle, RunnerOK

\* saveSchedule replaces one row.
LEMMA Saved ==
  ASSUME DOMAIN store = Ids, NEW id \in Ids, NEW from, NEW to, saveSchedule(id, from, to)
  PROVE  /\ DOMAIN store' = Ids
         /\ \A i \in Ids : store'[i] = IF i = id THEN to ELSE store[i]
BY DEF saveSchedule

\* Changing one runner.
LEMMA RunnerSet ==
  ASSUME DOMAIN runner = Runners, NEW r \in Runners, NEW p,
         runner' = [runner EXCEPT ![r] = p]
  PROVE  /\ DOMAIN runner' = Runners
         /\ \A q \in Runners : runner'[q] = IF q = r THEN p ELSE runner[q]
OBVIOUS

\* Where a runner goes from here, it has nothing more to answer for.
LEMMA OnwardOK ==
  ASSUME NEW p, NEW list, NEW mem,
         {"phase", "todo", "id", "run", "row", "left", "told", "at"} \subseteq DOMAIN p,
         \A d \in p.todo : d.id \in Ids /\ RowOK(d.row, list, mem),
         p.id \in Ids
  PROVE  RunnerOK(Onward(p), list, mem)
<1>1. CASE p.left # {}
  <2> DEFINE q == [p EXCEPT !.phase = "run"]
  <2>1. Onward(p) = q
    BY <1>1 DEF Onward
  <2>2. DOMAIN q = DOMAIN p /\ q.phase = "run" /\ q.todo = p.todo /\ q.id = p.id
    OBVIOUS
  <2> HIDE DEF q
  <2> QED
    BY <2>1, <2>2 DEF RunnerOK
<1>2. CASE p.left = {} /\ p.todo # {}
  <2> DEFINE q == [Idle EXCEPT !.phase = "claim", !.at = p.at, !.todo = p.todo]
             q1 == [Idle EXCEPT !.phase = "claim"]
             q2 == [q1 EXCEPT !.at = p.at]
  <2>1. Onward(p) = q
    BY <1>2 DEF Onward
  <2>2. q = [q2 EXCEPT !.todo = p.todo]
    BY Zenon
  <2>3. DOMAIN q1 = DOMAIN Idle /\ q1.phase = "claim"
    BY DEF Idle
  <2> HIDE DEF q1
  <2>4. DOMAIN q2 = DOMAIN Idle /\ q2.phase = "claim"
    BY <2>3 DEF Idle
  <2> HIDE DEF q2, q
  <2>5. DOMAIN q = DOMAIN Idle /\ q.phase = "claim" /\ q.todo = p.todo
    BY <2>2, <2>4 DEF Idle
  <2> QED
    BY <2>1, <2>5 DEF RunnerOK, Idle
<1>3. CASE p.left = {} /\ p.todo = {}
  <2>1. Onward(p) = Idle
    BY <1>3 DEF Onward
  <2> QED
    BY <2>1, IdleOK
<1> QED
  BY <1>1, <1>2, <1>3

\* A run is added, with or without words, and is not in memory yet.
LEMMA MadeGrows ==
  ASSUME RunsOK(runs, memory), NEW made, runs' = Append(runs, made), memory' = memory
  PROVE  /\ RunsOK(runs', memory')
         /\ Grows(runs, memory, runs', memory')
         /\ runs'[Len(runs) + 1] = made
         /\ Len(runs) + 1 \in 1 .. Len(runs')
         /\ ~made.words => Remembered(Len(runs) + 1, runs', memory')
<1>1. PICK S : runs \in Seq(S)
  BY DEF RunsOK
<1> DEFINE wider == S \union {made}
<1>2. runs \in Seq(wider) /\ made \in wider
  BY <1>1
<1> HIDE DEF wider
<1>3. /\ runs' \in Seq(wider) /\ Len(runs) \in Nat /\ Len(runs') = Len(runs) + 1
      /\ \A n \in 1 .. Len(runs) : runs'[n] = runs[n]
      /\ runs'[Len(runs) + 1] = made
  BY <1>2
<1>4. RunsOK(runs', memory')
  BY <1>3 DEF RunsOK
<1>5. Grows(runs, memory, runs', memory')
  BY <1>3 DEF Grows
<1>6. ~made.words => Remembered(Len(runs) + 1, runs', memory')
  BY <1>3 DEF RunsOK, Remembered
<1> QED
  BY <1>3, <1>4, <1>5, <1>6

-----------------------------------------------------------------------------
(* The runners' steps.                                                       *)

LEMMA TickKeeps ==
  ASSUME IInv, NEW r \in Runners, Tick(r)
  PROVE  IInv'
<1> DEFINE p == [Idle EXCEPT !.phase = "claim", !.at = now, !.todo = DueRows(r)]
           p1 == [Idle EXCEPT !.phase = "claim"]
           p2 == [p1 EXCEPT !.at = now]
<1>1. /\ runner' = [runner EXCEPT ![r] = p]
      /\ UNCHANGED <<store, memory, runs, edit, telling>>
  BY DEF Tick
<1>2. p = [p2 EXCEPT !.todo = DueRows(r)]
  BY Zenon
<1>3. DOMAIN p1 = DOMAIN Idle /\ p1.phase = "claim"
  BY DEF Idle
<1> HIDE DEF p1
<1>4. DOMAIN p2 = DOMAIN Idle /\ p2.phase = "claim"
  BY <1>3 DEF Idle
<1> HIDE DEF p2, p
<1>5. DOMAIN p = DOMAIN Idle /\ p.phase = "claim" /\ p.todo = DueRows(r)
  BY <1>2, <1>4 DEF Idle
<1>6. \A d \in DueRows(r) : d.id \in Ids /\ RowOK(d.row, runs, memory)
  BY DEF DueRows, IInv
<1>7. RunnerOK(p, runs', memory')
  BY <1>1, <1>5, <1>6 DEF RunnerOK, Idle
<1>8. /\ DOMAIN runner' = Runners
      /\ \A q \in Runners : runner'[q] = IF q = r THEN p ELSE runner[q]
  BY <1>1, RunnerSet DEF IInv
<1> QED
  BY <1>1, <1>7, <1>8, StandsStill, StepKeeps DEF IInv

LEMMA ClaimKeeps ==
  ASSUME IInv, NEW r \in Runners, Claim(r)
  PROVE  IInv'
<1>1. PICK due \in runner[r].todo :
        LET plan == planSchedule(job[due.id], due.row, runner[r].at)
            p    == [runner[r] EXCEPT !.todo = @ \ {due}, !.id = due.id, !.left = plan.run]
        IN /\ saveSchedule(due.id, due.row, Claimed(due.row, plan))
           /\ IF plan.run = {} /\ plan.skipped > 0
              THEN /\ runs' = Append(runs, [id |-> due.id, due |-> due.row.next,
                                            outcome |-> "skipped", words |-> FALSE,
                                            onDemand |-> FALSE])
                   /\ runner' = [runner EXCEPT
                        ![r] = [p EXCEPT !.phase = "keep", !.run = Len(runs) + 1,
                                         !.told = TRUE]]
              ELSE /\ runner' = [runner EXCEPT ![r] = Onward(p)]
                   /\ UNCHANGED runs
  BY DEF Claim
<1> DEFINE plan == planSchedule(job[due.id], due.row, runner[r].at)
           was  == runner[r]
           p    == [was EXCEPT !.todo = @ \ {due}, !.id = due.id, !.left = plan.run]
           made == [id |-> due.id, due |-> due.row.next, outcome |-> "skipped",
                    words |-> FALSE, onDemand |-> FALSE]
           kept == [p EXCEPT !.phase = "keep", !.run = Len(runs) + 1, !.told = TRUE]
<1>2. UNCHANGED <<memory, edit, telling>>
  BY DEF Claim
<1>3. due.id \in Ids /\ RowOK(due.row, runs, memory) /\ RunnerOK(was, runs, memory)
  BY DEF IInv, RunnerOK
<1>4. RowOK(Claimed(due.row, plan), runs, memory)
  BY <1>3, RowsChanged DEF Claimed
<1>5. /\ DOMAIN store' = Ids
      /\ \A i \in Ids : store'[i] = IF i = due.id THEN Claimed(due.row, plan) ELSE store[i]
  BY <1>1, <1>3, Saved DEF IInv
<1> DEFINE w1 == [was EXCEPT !.todo = @ \ {due}]
           w2 == [w1 EXCEPT !.id = due.id]
           k1 == [p EXCEPT !.phase = "keep"]
           k2 == [k1 EXCEPT !.run = Len(runs) + 1]
<1>6. p = [w2 EXCEPT !.left = plan.run]
  BY Zenon
<1>7. kept = [k2 EXCEPT !.told = TRUE]
  BY Zenon
<1>8. {"phase", "todo", "id", "run", "row", "left", "told", "at"} \subseteq DOMAIN was
      /\ \A d \in was.todo : d.id \in Ids /\ RowOK(d.row, runs, memory)
  BY <1>3 DEF RunnerOK
<1> HIDE DEF was, plan
<1>9. /\ DOMAIN w1 = DOMAIN was /\ w1.todo = was.todo \ {due}
  BY <1>8
<1> HIDE DEF w1
<1>10. /\ DOMAIN w2 = DOMAIN was /\ w2.todo = was.todo \ {due} /\ w2.id = due.id
  BY <1>8, <1>9
<1> HIDE DEF w2, p
<1>11. /\ DOMAIN p = DOMAIN was /\ p.todo = was.todo \ {due} /\ p.id = due.id
  BY <1>6, <1>8, <1>10
<1>12. CASE /\ runs' = Append(runs, made)
            /\ runner' = [runner EXCEPT ![r] = kept]
  <2>1. DOMAIN k1 = DOMAIN was /\ k1.todo = p.todo /\ k1.id = due.id /\ k1.phase = "keep"
    BY <1>8, <1>11
  <2> HIDE DEF k1
  <2>2. /\ DOMAIN k2 = DOMAIN was /\ k2.todo = p.todo /\ k2.id = due.id
        /\ k2.phase = "keep" /\ k2.run = Len(runs) + 1
    BY <1>8, <2>1
  <2> HIDE DEF k2, kept
  <2>3. /\ DOMAIN kept = DOMAIN was /\ kept.todo = p.todo /\ kept.id = due.id
        /\ kept.phase = "keep" /\ kept.run = Len(runs) + 1
    BY <1>7, <1>8, <2>2
  <2>4. /\ RunsOK(runs', memory') /\ Grows(runs, memory, runs', memory')
        /\ Remembered(Len(runs) + 1, runs', memory')
    <3>1. ~made.words
      OBVIOUS
    <3> HIDE DEF made
    <3> QED
      BY <1>2, <1>12, <3>1, MadeGrows DEF IInv
  <2>5. RunnerOK(kept, runs', memory')
    BY <1>3, <1>8, <1>11, <2>3, <2>4, RowKept DEF RunnerOK
  <2>6. RowOK(Claimed(due.row, plan), runs', memory')
    BY <1>4, <2>4, RowKept
  <2>7. /\ DOMAIN runner' = Runners
        /\ \A q \in Runners : runner'[q] = IF q = r THEN kept ELSE runner[q]
    BY <1>12, RunnerSet DEF IInv
  <2> QED
    BY <1>2, <1>5, <2>4, <2>5, <2>6, <2>7, StepKeeps
<1>13. CASE /\ runner' = [runner EXCEPT ![r] = Onward(p)]
            /\ UNCHANGED runs
  <2>1. RunsOK(runs', memory') /\ Grows(runs, memory, runs', memory')
    BY <1>2, <1>13, StandsStill
  <2>2. RunnerOK(Onward(p), runs, memory)
    BY <1>3, <1>8, <1>11, OnwardOK
  <2>3. /\ DOMAIN runner' = Runners
        /\ \A q \in Runners : runner'[q] = IF q = r THEN Onward(p) ELSE runner[q]
    BY <1>13, RunnerSet DEF IInv
  <2> QED
    BY <1>2, <1>4, <1>5, <1>13, <2>1, <2>2, <2>3, StepKeeps
<1> QED
  BY <1>1, <1>12, <1>13 DEF p, was, plan

LEMMA RunNowKeeps ==
  ASSUME IInv, NEW id \in Ids, RunNow(id)
  PROVE  IInv'
<1> DEFINE p == [Idle EXCEPT !.phase = "run", !.id = id, !.left = {now}, !.onDemand = TRUE]
           p1 == [Idle EXCEPT !.phase = "run"]
           p2 == [p1 EXCEPT !.id = id]
           p3 == [p2 EXCEPT !.left = {now}]
<1>1. /\ runner' = [runner EXCEPT !["core"] = p]
      /\ UNCHANGED <<store, memory, runs, edit, telling>>
  BY DEF RunNow
<1>2. p = [p3 EXCEPT !.onDemand = TRUE]
  BY Zenon
<1>3. DOMAIN p1 = DOMAIN Idle /\ p1.phase = "run" /\ p1.todo = {}
  BY DEF Idle
<1> HIDE DEF p1
<1>4. DOMAIN p2 = DOMAIN Idle /\ p2.phase = "run" /\ p2.todo = {} /\ p2.id = id
  BY <1>3 DEF Idle
<1> HIDE DEF p2
<1>5. DOMAIN p3 = DOMAIN Idle /\ p3.phase = "run" /\ p3.todo = {} /\ p3.id = id
  BY <1>4 DEF Idle
<1> HIDE DEF p3, p
<1>6. DOMAIN p = DOMAIN Idle /\ p.phase = "run" /\ p.todo = {} /\ p.id = id
  BY <1>2, <1>5 DEF Idle
<1>7. RunnerOK(p, runs', memory')
  BY <1>6 DEF RunnerOK, Idle
<1>8. /\ DOMAIN runner' = Runners
      /\ \A q \in Runners : runner'[q] = IF q = "core" THEN p ELSE runner[q]
  BY <1>1, RunnerSet DEF IInv, Runners
<1> QED
  BY <1>1, <1>7, <1>8, StandsStill, StepKeeps DEF IInv

\* A run with something to say goes to be written down before it is kept.
LEMMA ExecuteKeeps ==
  ASSUME IInv, NEW r \in Runners, Execute(r)
  PROVE  IInv'
<1> DEFINE was == runner[r]
<1>1. PICK said \in Outcomes(r, was.id), shown \in BOOLEAN :
        /\ runs' = Append(runs, [id |-> was.id, due |-> Min(was.left),
                                 outcome |-> said.outcome, words |-> said.words,
                                 onDemand |-> was.onDemand])
        /\ runner' = [runner EXCEPT ![r] =
             [was EXCEPT !.phase = IF said.words THEN "append" ELSE "keep",
                         !.left = @ \ {Min(@)},
                         !.run = Len(runs) + 1,
                         !.told = ToldAlready(was.id, was.onDemand, said.words, shown)]]
  BY DEF Execute
<1> DEFINE made == [id |-> was.id, due |-> Min(was.left), outcome |-> said.outcome,
                    words |-> said.words, onDemand |-> was.onDemand]
           phase == IF said.words THEN "append" ELSE "keep"
           told == ToldAlready(was.id, was.onDemand, said.words, shown)
           p == [was EXCEPT !.phase = phase, !.left = @ \ {Min(@)}, !.run = Len(runs) + 1,
                            !.told = told]
           p1 == [was EXCEPT !.phase = phase]
           p2 == [p1 EXCEPT !.left = @ \ {Min(@)}]
           p3 == [p2 EXCEPT !.run = Len(runs) + 1]
<1>2. UNCHANGED <<store, memory, edit, telling>> /\ was.phase = "run"
  BY DEF Execute
<1>3. RunnerOK(was, runs, memory) /\ was.id \in Ids
  BY <1>2 DEF IInv, RunnerOK
<1>4. p = [p3 EXCEPT !.told = told]
  BY Zenon
<1>5. {"phase", "todo", "id", "run", "row", "left", "told", "at"} \subseteq DOMAIN was
  BY <1>3 DEF RunnerOK
<1>6. made.words = said.words
  OBVIOUS
<1>7. phase \in {"append", "keep"} /\ (phase = "append" <=> said.words)
  OBVIOUS
<1>8. runs' = Append(runs, made) /\ runner' = [runner EXCEPT ![r] = p]
  BY <1>1
<1> HIDE DEF was, made, told, phase
<1>9. DOMAIN p1 = DOMAIN was /\ p1.phase = phase /\ p1.todo = was.todo /\ p1.id = was.id
  BY <1>5
<1> HIDE DEF p1
<1>10. DOMAIN p2 = DOMAIN was /\ p2.phase = phase /\ p2.todo = was.todo /\ p2.id = was.id
  BY <1>5, <1>9
<1> HIDE DEF p2
<1>11. /\ DOMAIN p3 = DOMAIN was /\ p3.phase = phase /\ p3.todo = was.todo
       /\ p3.id = was.id /\ p3.run = Len(runs) + 1
  BY <1>5, <1>10
<1> HIDE DEF p3, p
<1>12. /\ DOMAIN p = DOMAIN was /\ p.phase = phase /\ p.todo = was.todo
       /\ p.id = was.id /\ p.run = Len(runs) + 1
  BY <1>4, <1>5, <1>11
<1>13. /\ RunsOK(runs', memory') /\ Grows(runs, memory, runs', memory')
       /\ runs'[Len(runs) + 1] = made /\ Len(runs) + 1 \in 1 .. Len(runs')
       /\ ~made.words => Remembered(Len(runs) + 1, runs', memory')
  BY <1>2, <1>8, MadeGrows DEF IInv
<1>14. \A d \in was.todo : d.id \in Ids /\ RowOK(d.row, runs', memory')
  BY <1>3, <1>13, RowKept DEF RunnerOK
<1>15. RunnerOK(p, runs', memory')
  BY <1>3, <1>5, <1>6, <1>7, <1>12, <1>13, <1>14 DEF RunnerOK
<1>16. /\ DOMAIN runner' = Runners
       /\ \A q \in Runners : runner'[q] = IF q = r THEN p ELSE runner[q]
  BY <1>8, RunnerSet DEF IInv
<1> QED
  BY <1>2, <1>13, <1>15, <1>16, StepKeeps DEF IInv

LEMMA AppendKeeps ==
  ASSUME IInv, NEW r \in Runners, AppendEpisode(r)
  PROVE  IInv'
<1> DEFINE was == runner[r]
           p == [was EXCEPT !.phase = "keep"]
<1>1. /\ was.phase = "append" /\ RunnerOK(was, runs, memory) /\ RunsOK(runs, memory)
      /\ memory' = memory \union {was.run}
      /\ UNCHANGED <<store, runs, edit, telling>>
  BY DEF AppendEpisode, IInv
<1>2. runner' = [runner EXCEPT ![r] = p]
  BY DEF AppendEpisode
<1>3. was.run \in 1 .. Len(runs) /\ runs[was.run].words
  BY <1>1 DEF RunnerOK
<1>4. RunsOK(runs', memory') /\ Len(runs) \in Nat
  <2>1. PICK S : runs \in Seq(S)
    BY <1>1 DEF RunsOK
  <2>2. Len(runs) \in Nat /\ runs' \in Seq(S)
    BY <1>1, <2>1
  <2>3. memory' \subseteq 1 .. Len(runs')
    BY <1>1, <1>3, <2>2 DEF RunsOK
  <2> QED
    BY <2>2, <2>3 DEF RunsOK
<1>5. Grows(runs, memory, runs', memory')
  BY <1>1, <1>3, <1>4 DEF Grows
<1>6. Remembered(was.run, runs', memory')
  BY <1>1, <1>3 DEF Remembered
<1>7. {"phase", "todo", "id", "run", "row", "left", "told", "at"} \subseteq DOMAIN was
      /\ was.id \in Ids
      /\ \A d \in was.todo : d.id \in Ids /\ RowOK(d.row, runs', memory')
  BY <1>1, <1>5, RowKept DEF RunnerOK
<1> HIDE DEF was
<1>8. DOMAIN p = DOMAIN was /\ p.phase = "keep" /\ p.todo = was.todo /\ p.id = was.id
      /\ p.run = was.run
  BY <1>7
<1> HIDE DEF p
<1>9. RunnerOK(p, runs', memory')
  BY <1>6, <1>7, <1>8 DEF RunnerOK
<1>10. /\ DOMAIN runner' = Runners
       /\ \A q \in Runners : runner'[q] = IF q = r THEN p ELSE runner[q]
  BY <1>2, RunnerSet DEF IInv
<1> QED
  BY <1>1, <1>4, <1>5, <1>9, <1>10, StepKeeps DEF IInv

LEMMA KeepReadsKeeps ==
  ASSUME IInv, NEW r \in Runners, KeepReads(r)
  PROVE  IInv'
<1> DEFINE was == runner[r]
           row == store[was.id]
           p1 == [was EXCEPT !.phase = "kept"]
           p == [was EXCEPT !.phase = "kept", !.row = row]
<1>1. /\ was.phase = "keep" /\ RunnerOK(was, runs, memory)
      /\ UNCHANGED <<store, memory, runs, edit, telling>>
      /\ runner' = [runner EXCEPT ![r] = p]
  BY DEF KeepReads, IInv
<1>2. {"phase", "todo", "id", "run", "row", "left", "told", "at"} \subseteq DOMAIN was
      /\ was.id \in Ids /\ Remembered(was.run, runs, memory)
      /\ \A d \in was.todo : d.id \in Ids /\ RowOK(d.row, runs, memory)
  BY <1>1 DEF RunnerOK
<1>3. RowOK(row, runs, memory)
  BY <1>2 DEF IInv
<1>4. p = [p1 EXCEPT !.row = row]
  BY Zenon
<1> HIDE DEF was, row
<1>5. DOMAIN p1 = DOMAIN was /\ p1.phase = "kept" /\ p1.todo = was.todo /\ p1.id = was.id
      /\ p1.run = was.run
  BY <1>2
<1> HIDE DEF p1, p
<1>6. DOMAIN p = DOMAIN was /\ p.phase = "kept" /\ p.todo = was.todo /\ p.id = was.id
      /\ p.run = was.run /\ p.row = row
  BY <1>2, <1>4, <1>5
<1>7. RunnerOK(p, runs', memory')
  BY <1>1, <1>2, <1>3, <1>6 DEF RunnerOK
<1>8. /\ DOMAIN runner' = Runners
      /\ \A q \in Runners : runner'[q] = IF q = r THEN p ELSE runner[q]
  BY <1>1, RunnerSet DEF IInv
<1> QED
  BY <1>1, <1>7, <1>8, StandsStill, StepKeeps DEF IInv

LEMMA KeepWritesKeeps ==
  ASSUME IInv, NEW r \in Runners, KeepWrites(r)
  PROVE  IInv'
<1> DEFINE was == runner[r]
           failed == /\ ~was.onDemand
                     /\ runs[was.run].outcome = "failed"
                     /\ job[was.id].kind = "once"
                     /\ was.row.status = "completed"
           status == IF failed THEN "failed" ELSE was.row.status
           to1 == [was.row EXCEPT !.status = status]
           to2 == [to1 EXCEPT !.last = was.run]
           to == [was.row EXCEPT !.status = status, !.last = was.run, !.told = was.told]
           p == [was EXCEPT !.row = Absent]
<1>1. /\ was.phase = "kept" /\ RunnerOK(was, runs, memory)
      /\ saveSchedule(was.id, was.row, to)
      /\ runner' = [runner EXCEPT ![r] = Onward(p)]
      /\ UNCHANGED <<memory, runs, edit, telling>>
  BY DEF KeepWrites, IInv
<1>2. {"phase", "todo", "id", "run", "row", "left", "told", "at"} \subseteq DOMAIN was
      /\ was.id \in Ids /\ Remembered(was.run, runs, memory)
      /\ RowOK(was.row, runs, memory)
      /\ \A d \in was.todo : d.id \in Ids /\ RowOK(d.row, runs, memory)
  BY <1>1 DEF RunnerOK
<1>3. to = [to2 EXCEPT !.told = was.told]
  BY Zenon
<1> HIDE DEF was, status
<1>4. "last" \in DOMAIN was.row
  BY <1>2 DEF RowOK
<1>5. DOMAIN to1 = DOMAIN was.row
  OBVIOUS
<1> HIDE DEF to1
<1>6. DOMAIN to2 = DOMAIN was.row /\ to2.last = was.run
  BY <1>4, <1>5
<1> HIDE DEF to2, to
<1>7. "last" \in DOMAIN to /\ to.last = was.run
  BY <1>3, <1>4, <1>6
<1>8. RowOK(to, runs', memory')
  BY <1>1, <1>2, <1>7 DEF RowOK
<1>9. /\ DOMAIN store' = Ids
      /\ \A i \in Ids : store'[i] = IF i = was.id THEN to ELSE store[i]
  BY <1>1, <1>2, Saved DEF IInv
<1>10. DOMAIN p = DOMAIN was /\ p.todo = was.todo /\ p.id = was.id
  BY <1>2
<1> HIDE DEF p
<1>11. RunnerOK(Onward(p), runs', memory')
  BY <1>1, <1>2, <1>10, OnwardOK
<1>12. /\ DOMAIN runner' = Runners
       /\ \A q \in Runners : runner'[q] = IF q = r THEN Onward(p) ELSE runner[q]
  BY <1>1, RunnerSet DEF IInv
<1> QED
  BY <1>1, <1>8, <1>9, <1>11, <1>12, StandsStill, StepKeeps

\* The companion stops, or a runner's store call fails: what it held is gone.
LEMMA StopsKeeps ==
  ASSUME IInv, NEW r \in Runners, RunnerStops(r)
  PROVE  IInv'
<1>1. /\ DOMAIN runner' = Runners
      /\ \A q \in Runners : runner'[q] = IF q = r THEN Idle ELSE runner[q]
  BY RunnerSet DEF IInv, RunnerStops
<1>2. UNCHANGED <<store, memory, runs, edit, telling>>
  BY DEF RunnerStops
<1> QED
  BY <1>1, <1>2, IdleOK, StandsStill, StepKeeps DEF IInv

-----------------------------------------------------------------------------
(* The page's edits.                                                         *)

LEMMA ChangeKeeps ==
  ASSUME IInv, NEW kind \in DOMAIN From, NEW id \in Ids, Change(kind, id)
  PROVE  IInv'
<1> DEFINE e == [ids |-> {id}, from |-> Restrict(store, {id}),
                 to |-> [i \in {id} |-> Changed(kind, i)]]
<1>1. edit' = e /\ UNCHANGED <<store, memory, runs, runner, telling>>
  BY DEF Change
<1>2. e.ids = {id} /\ e.to[id] = Changed(kind, id)
  OBVIOUS
<1>3. RowOK(Changed(kind, id), runs, memory)
  <2> DEFINE row == store[id]
             next == nextFiring(job[id].firings, now)
  <2>1. RowOK(row, runs, memory)
    BY DEF IInv
  <2>2. \/ Changed(kind, id) = [row EXCEPT !.status = "active", !.next = next]
        \/ Changed(kind, id) = [row EXCEPT !.status = "paused"]
        \/ Changed(kind, id) = [row EXCEPT !.status = "cancelled", !.next = NoTime]
    BY Zenon DEF Changed, From
  <2> HIDE DEF row, next
  <2>3. /\ RowOK([row EXCEPT !.status = "active", !.next = next], runs, memory)
        /\ RowOK([row EXCEPT !.status = "paused"], runs, memory)
        /\ RowOK([row EXCEPT !.status = "cancelled", !.next = NoTime], runs, memory)
    BY <2>1, RowsChanged, Zenon
  <2> QED
    BY <2>2, <2>3, Zenon
<1> HIDE DEF e
<1>4. EditOK(edit', runs', memory')
  BY <1>1, <1>2, <1>3 DEF EditOK
<1> QED
  BY <1>1, <1>4, StandsStill, StepKeeps DEF IInv

LEMMA MarkDeliveredKeeps ==
  ASSUME IInv, MarkDelivered
  PROVE  IInv'
<1> DEFINE ids == {id \in {i.id : i \in telling.items} : Untold(store[id])}
           e == [ids |-> ids, from |-> Restrict(store, ids),
                 to |-> [id \in ids |-> MarkedTold(store[id])]]
<1>1. edit' = e /\ telling' = Silent /\ UNCHANGED <<store, memory, runs, runner>>
  BY DEF MarkDelivered
<1>2. \A id \in ids : id \in Ids
  BY DEF IInv, TellingOK
<1>3. e.ids = ids /\ \A id \in ids : e.to[id] = MarkedTold(store[id])
  OBVIOUS
<1>4. \A id \in Ids : RowOK(MarkedTold(store[id]), runs, memory)
  BY RowsChanged DEF IInv, MarkedTold
<1> HIDE DEF ids, e
<1>5. EditOK(edit', runs', memory')
  BY <1>1, <1>2, <1>3, <1>4 DEF EditOK
<1>6. TellingOK(telling')
  BY <1>1 DEF TellingOK, Silent
<1> QED
  BY <1>1, <1>5, <1>6, StandsStill, StepKeeps DEF IInv

LEMMA EditWritesKeeps ==
  ASSUME IInv, EditWrites
  PROVE  IInv'
<1>1. PICK id \in edit.ids :
        /\ saveSchedule(id, edit.from[id], edit.to[id])
        /\ edit' = IF edit.ids = {id} THEN NoEdit ELSE [edit EXCEPT !.ids = @ \ {id}]
  BY DEF EditWrites
<1>2. UNCHANGED <<memory, runs, runner, telling>>
  BY DEF EditWrites
<1>3. id \in Ids /\ RowOK(edit.to[id], runs, memory)
  BY DEF IInv, EditOK
<1>4. /\ DOMAIN store' = Ids
      /\ \A i \in Ids : store'[i] = IF i = id THEN edit.to[id] ELSE store[i]
  BY <1>1, <1>3, Saved DEF IInv
<1>5. EditOK(edit', runs', memory')
  <2>1. CASE edit.ids = {id}
    BY <1>1, <2>1 DEF EditOK, NoEdit
  <2>2. CASE edit.ids # {id}
    <3>1. edit' = [edit EXCEPT !.ids = @ \ {id}]
      BY <1>1, <2>2
    <3>2. edit'.ids \subseteq edit.ids /\ edit'.to = edit.to
      BY <3>1
    <3> QED
      BY <1>2, <3>2 DEF EditOK, IInv
  <2> QED
    BY <2>1, <2>2
<1> QED
  BY <1>2, <1>3, <1>4, <1>5, StandsStill, StepKeeps DEF IInv

-----------------------------------------------------------------------------
(* Telling the person.                                                       *)

LEMMA TellsKeeps ==
  ASSUME IInv, TellTick \/ TellAway \/ SpeakUp \/ NotNow
  PROVE  IInv'
<1>1. UNCHANGED <<store, memory, runs, runner, edit>>
  BY DEF TellTick, TellAway, SpeakUp, NotNow
<1>2. TellingOK(Silent)
  BY DEF TellingOK, Silent
<1>3. ASSUME NEW items, items \subseteq telling.items, Tell(items)
      PROVE  TellingOK(telling')
  BY <1>2, <1>3 DEF Tell, TellingOK, IInv
<1>4. TellingOK(telling')
  <2>1. CASE TellTick
    BY <2>1 DEF TellTick, TellingOK, pendingDeliveries
  <2>2. CASE TellAway
    <3>1. PICK shown \in SUBSET {i \in telling.items : job[i.id].delivery = "notify"} :
            Tell(shown)
      BY <2>2 DEF TellAway
    <3> QED
      BY <1>3, <3>1
  <2>3. CASE SpeakUp
    BY <1>3, <2>3 DEF SpeakUp
  <2>4. CASE NotNow
    BY <1>2, <2>4 DEF NotNow
  <2> QED
    BY <2>1, <2>2, <2>3, <2>4
<1> QED
  BY <1>1, <1>4, StandsStill, StepKeeps DEF IInv

LEMMA ReloadsKeeps ==
  ASSUME IInv, PageReloads
  PROVE  IInv'
<1>1. /\ DOMAIN runner' = Runners
      /\ \A q \in Runners : runner'[q] = IF q = "core" THEN Idle ELSE runner[q]
  BY RunnerSet DEF IInv, PageReloads, Runners
<1>2. edit' = NoEdit /\ telling' = Silent /\ UNCHANGED <<store, memory, runs>>
  BY DEF PageReloads
<1>3. EditOK(edit', runs', memory') /\ TellingOK(telling')
  BY <1>2 DEF EditOK, NoEdit, TellingOK, Silent
<1> QED
  BY <1>1, <1>2, <1>3, IdleOK, StandsStill, StepKeeps DEF IInv

-----------------------------------------------------------------------------

LEMMA InitOK ==
  ASSUME Init
  PROVE  IInv
<1>1. PICK status \in [Ids -> {"absent", "active", "paused"}] :
       store = [id \in Ids |->
         IF status[id] = "absent" THEN Absent
         ELSE [Absent EXCEPT !.status = status[id], !.next = nextFiring(job[id].firings, 0)]]
  BY DEF Init
<1>2. /\ memory = {} /\ runs = <<>> /\ runner = [r \in Runners |-> Idle]
      /\ edit = NoEdit /\ telling = Silent
  BY DEF Init
<1>3. RowOK(Absent, runs, memory)
  BY DEF RowOK, Absent
<1>4. DOMAIN store = Ids /\ \A id \in Ids : RowOK(store[id], runs, memory)
  BY <1>1, <1>3, RowsChanged
<1>5. RunsOK(runs, memory)
  <2>1. runs \in Seq({})
    BY <1>2
  <2> QED
    BY <1>2, <2>1 DEF RunsOK
<1>6. DOMAIN runner = Runners /\ \A r \in Runners : RunnerOK(runner[r], runs, memory)
  BY <1>2, IdleOK
<1>7. EditOK(edit, runs, memory) /\ TellingOK(telling)
  BY <1>2 DEF EditOK, NoEdit, TellingOK, Silent
<1> QED
  BY <1>4, <1>5, <1>6, <1>7 DEF IInv

LEMMA NextKeeps ==
  ASSUME IInv, [Next]_vars
  PROVE  IInv'
<1>1. ASSUME NEW r \in Runners, Runs(r) \/ RunnerStops(r)
      PROVE  IInv'
  BY <1>1, TickKeeps, ClaimKeeps, ExecuteKeeps, AppendKeeps, KeepReadsKeeps, KeepWritesKeeps,
     StopsKeeps DEF Runs
<1>2. CASE Tells
  BY <1>2, TellsKeeps, MarkDeliveredKeeps DEF Tells
<1>3. CASE Advance \/ UNCHANGED vars
  <2>1. UNCHANGED <<store, memory, runs, runner, edit, telling>>
    BY <1>3 DEF Advance, vars
  <2> QED
    BY <2>1, StandsStill, StepKeeps DEF IInv
<1> QED
  BY <1>1, <1>2, <1>3, RunNowKeeps, ChangeKeeps, EditWritesKeeps, ReloadsKeeps DEF Next

\* The table, and every copy of a row of it that is on its way, agree with
\* memory about what each schedule last did (runner.ts, schedules.ts).
THEOREM SchedulesInvariant == Spec => []IInv
<1>1. Init => IInv
  BY InitOK
<1>2. IInv /\ [Next]_vars => IInv'
  BY NextKeeps
<1> QED
  BY <1>1, <1>2, PTL DEF Spec

\* However many runners, edits, restarts and failed calls there are, a run is
\* on its schedule only once what it said is in memory, and a run that said
\* nothing never is (runner.ts).
THEOREM AlwaysRememberedFirst == Spec => []RememberedFirst
<1>1. IInv => RememberedFirst
  BY DEF IInv, RowOK, Remembered, RememberedFirst
<1> QED
  BY <1>1, SchedulesInvariant, PTL

-----------------------------------------------------------------------------
(* What is run, and what is told.                                            *)

\* A run is being written down or kept.
Doing(p) == p.phase \in {"append", "keep", "kept"}

\* A row of this schedule, and the run of it that it names.
RowTyped(row, id, list) ==
  /\ DOMAIN row = DOMAIN Absent
  /\ row.next \in Nat /\ row.last \in 0 .. Len(list) /\ row.told \in BOOLEAN
  /\ row.last # NoRun => list[row.last].id = id

\* A row a pass found due, when it was.
DueTyped(d, r, at, list, jobs) ==
  /\ d.id \in Ids /\ RowTyped(d.row, d.id, list) /\ jobs[d.id].runOn = r
  /\ d.row.status = "active" /\ d.row.next # NoTime /\ d.row.next <= at

\* A runner, and the run it is keeping: each runs its own schedules only, but
\* on demand, and then she tells of it herself.
RunnerTyped(p, r, list, clock, jobs) ==
  /\ DOMAIN p = DOMAIN Idle
  /\ p.at \in Nat /\ p.at <= clock
  /\ p.onDemand \in BOOLEAN
  /\ p.phase = "run" => p.left # {}
  /\ p.phase = "claim" => ~p.onDemand
  /\ p.left \subseteq 0 .. clock
  /\ p.left # {} /\ ~p.onDemand => p.id \in Ids /\ jobs[p.id].runOn = r
  /\ \A d \in p.todo : DueTyped(d, r, p.at, list, jobs)
  /\ p.phase = "kept" => RowTyped(p.row, p.id, list)
  /\ Doing(p) =>
       /\ p.run \in 1 .. Len(list) /\ list[p.run].id = p.id /\ p.id \in Ids
       /\ p.told \in BOOLEAN
       /\ IF p.onDemand THEN p.told ELSE jobs[p.id].runOn = r

\* An edit leaves a row its last run, and takes no mark away.
EditTyped(e, list) ==
  /\ e.ids \subseteq Ids
  /\ \A id \in e.ids :
       /\ RowTyped(e.from[id], id, list) /\ RowTyped(e.to[id], id, list)
       /\ e.to[id].last = e.from[id].last
       /\ e.from[id].told => e.to[id].told

\* What is found to tell is a run of the schedule it was found on.
TellTyped(t, list) ==
  /\ t.phase \in {"idle", "found", "told"}
  /\ \A i \in t.items : i \in [id : Ids, run : 1 .. Len(list)] /\ list[i.run].id = i.id

Typed ==
  /\ now \in Nat /\ faults \in Nat /\ job \in Jobs
  /\ Len(runs) <= MaxRuns
  /\ heard \in [1 .. MaxRuns -> Nat]
  /\ \A n \in 1 .. MaxRuns : n > Len(runs) => heard[n] = 0
  /\ \A id \in Ids : RowTyped(store[id], id, runs)
  /\ \A r \in Runners : RunnerTyped(runner[r], r, runs, now, job)
  /\ \A r, q \in Runners :
       r # q /\ Doing(runner[r]) /\ Doing(runner[q]) => runner[r].run # runner[q].run
  /\ EditTyped(edit, runs)
  /\ TellTyped(telling, runs)

\* The firings a schedule was run for, and those claimed and still to run.
Ran(id) == {runs[n].due : n \in {k \in DOMAIN runs : runs[k].id = id /\ Fired(k)}}

ToRun(id) ==
  UNION {runner[r].left : r \in {q \in Runners : runner[q].id = id /\ ~runner[q].onDemand}}

Dues(id) == Ran(id) \union ToRun(id)

\* Whatever was claimed is earlier than this.
Ahead(dues, next) == next # NoTime => \A t \in dues : t < next

\* The row of a schedule is ahead of all that was claimed of it, and so is
\* whatever an edit will make of it, if it still may write it.
OnceOK(id) ==
  /\ Dues(id) \subseteq 0 .. now
  /\ Ahead(Dues(id), store[id].next)
  /\ Ran(id) \intersect ToRun(id) = {}
  /\ id \in edit.ids =>
       \/ edit.to[id].next \in {edit.from[id].next, NoTime}
       \/ /\ edit.from[id].status \in {"absent", "paused"}
          /\ store[id].status = edit.from[id].status => Ahead(Dues(id), edit.to[id].next)

\* A run under way comes after whatever of its schedule waits or is being told.
UnderWayOK(id, p) ==
  p.id = id /\ Doing(p) =>
    /\ store[id].last # p.run
    /\ ~p.onDemand =>
         /\ Untold(store[id]) => store[id].last < p.run
         /\ \A i \in telling.items : i.id = id => i.run < p.run
    /\ heard[p.run] > 0 => p.told

\* What is being told waits, or a later run in its place.
ItemOK(id, i) ==
  i.id = id =>
    /\ Untold(store[id]) => i.run <= store[id].last
    /\ telling.phase = "told" => heard[i.run] > 0
    /\ telling.phase = "found" /\ faults = 0 => heard[i.run] = 0

\* A run the person has heard is marked told, or will be.
MarkComes(id) ==
  store[id].last # NoRun /\ heard[store[id].last] > 0 =>
    \/ store[id].told
    \/ telling.phase = "told" /\ \E i \in telling.items : i.id = id
    \/ id \in edit.ids /\ edit.to[id].told

\* Only a schedule of which something was heard is marked told by an edit.
MarkEarned(id) ==
  id \in edit.ids /\ edit.to[id].told # edit.from[id].told =>
    \E m \in 1 .. edit.from[id].last : runs[m].id = id /\ heard[m] > 0

ToldOK(id) ==
  /\ \A r \in Runners : UnderWayOK(id, runner[r])
  /\ \A i \in telling.items : ItemOK(id, i)
  /\ MarkEarned(id)
  /\ faults = 0 => MarkComes(id)

JInv ==
  /\ IInv /\ Typed
  /\ RunsOnce /\ ToldOnce
  /\ \A id \in Ids : id \notin overwritten => OnceOK(id) /\ ToldOK(id)

-----------------------------------------------------------------------------
(* What is a row, a runner or an edit stays one while runs are added.        *)

Longer(list, list2) ==
  /\ Len(list) \in Nat /\ Len(list2) \in Nat /\ Len(list) <= Len(list2)
  /\ \A n \in 1 .. Len(list) : list2[n] = list[n]

LEMMA RowStays ==
  ASSUME NEW list, NEW list2, Longer(list, list2), NEW id, NEW row, RowTyped(row, id, list)
  PROVE  RowTyped(row, id, list2)
<1>1. row.last # NoRun => row.last \in 1 .. Len(list)
  BY DEF RowTyped, Longer, NoRun
<1>2. row.last # NoRun => list2[row.last] = list[row.last]
  BY <1>1 DEF Longer
<1>3. row.last \in 0 .. Len(list2)
  BY DEF Longer, RowTyped
<1> QED
  BY <1>2, <1>3 DEF RowTyped

LEMMA DueStays ==
  ASSUME NEW list, NEW list2, Longer(list, list2), NEW d, NEW r, NEW at, NEW jobs,
         DueTyped(d, r, at, list, jobs)
  PROVE  DueTyped(d, r, at, list2, jobs)
BY RowStays DEF DueTyped

LEMMA RunnerStays ==
  ASSUME NEW list, NEW list2, Longer(list, list2), NEW clock \in Nat, NEW clock2 \in Nat,
         clock <= clock2, NEW jobs, NEW p, NEW r, RunnerTyped(p, r, list, clock, jobs)
  PROVE  RunnerTyped(p, r, list2, clock2, jobs)
<1>1. \A d \in p.todo : DueTyped(d, r, p.at, list2, jobs)
  BY DueStays DEF RunnerTyped
<1>2. p.phase = "kept" => RowTyped(p.row, p.id, list2)
  BY RowStays DEF RunnerTyped
<1>3. Doing(p) => p.run \in 1 .. Len(list2) /\ list2[p.run].id = p.id
  BY DEF RunnerTyped, Longer
<1>4. p.at <= clock2 /\ p.left \subseteq 0 .. clock2
  BY DEF RunnerTyped
<1> QED
  BY <1>1, <1>2, <1>3, <1>4 DEF RunnerTyped

LEMMA EditStays ==
  ASSUME NEW list, NEW list2, Longer(list, list2), NEW e, EditTyped(e, list)
  PROVE  EditTyped(e, list2)
BY RowStays DEF EditTyped

LEMMA TellStays ==
  ASSUME NEW list, NEW list2, Longer(list, list2), NEW t, TellTyped(t, list)
  PROVE  TellTyped(t, list2)
<1>1. ASSUME NEW i \in t.items
      PROVE  i \in [id : Ids, run : 1 .. Len(list2)] /\ list2[i.run].id = i.id
  <2>1. i \in [id : Ids, run : 1 .. Len(list)] /\ list[i.run].id = i.id
    BY <1>1 DEF TellTyped
  <2>2. i.run \in 1 .. Len(list) /\ i.id \in Ids /\ i = [id |-> i.id, run |-> i.run]
    BY <2>1
  <2>3. i.run \in 1 .. Len(list2) /\ list2[i.run] = list[i.run]
    BY <2>2 DEF Longer
  <2> QED
    BY <2>1, <2>2, <2>3
<1> QED
  BY <1>1 DEF TellTyped

\* What is written is as it should be, and the rest was.
LEMMA TypedKept ==
  ASSUME IInv, Typed, Longer(runs, runs'), now' \in Nat, now <= now', faults' \in Nat,
         job' = job, Len(runs') <= MaxRuns,
         heard' \in [1 .. MaxRuns -> Nat],
         \A n \in 1 .. MaxRuns : n > Len(runs') => heard'[n] = 0,
         \A id \in Ids : store'[id] = store[id] \/ RowTyped(store'[id], id, runs'),
         \A r \in Runners : runner'[r] = runner[r]
                              \/ RunnerTyped(runner'[r], r, runs', now', job),
         \A r, q \in Runners : r # q /\ Doing(runner'[r]) /\ Doing(runner'[q])
                                 => runner'[r].run # runner'[q].run,
         edit' = edit \/ EditTyped(edit', runs'),
         telling' = telling \/ TellTyped(telling', runs')
  PROVE  Typed'
<1>1. \A id \in Ids : RowTyped(store'[id], id, runs')
  BY RowStays DEF Typed
<1>2. \A r \in Runners : RunnerTyped(runner'[r], r, runs', now', job')
  <2>1. ASSUME NEW r \in Runners, runner'[r] = runner[r]
        PROVE  RunnerTyped(runner'[r], r, runs', now', job)
    <3>1. RunnerTyped(runner[r], r, runs, now, job) /\ now \in Nat
      BY DEF Typed
    <3> QED
      BY <2>1, <3>1, RunnerStays
  <2> QED
    BY <2>1
<1>3. EditTyped(edit', runs')
  BY EditStays DEF Typed
<1>4. TellTyped(telling', runs')
  BY TellStays DEF Typed
<1> QED
  BY <1>1, <1>2, <1>3, <1>4 DEF Typed

LEMMA SameRuns ==
  ASSUME IInv, runs' = runs
  PROVE  Longer(runs, runs') /\ Len(runs) \in Nat /\ DOMAIN runs = 1 .. Len(runs)
<1>1. PICK S : runs \in Seq(S)
  BY DEF IInv, RunsOK
<1> QED
  BY <1>1 DEF Longer

-----------------------------------------------------------------------------
(* Steps that claim nothing and tell nothing.                                *)

\* A runner goes on with what it was doing, ...
SameWork(p, q) ==
  /\ q.id = p.id /\ q.left = p.left /\ q.onDemand = p.onDemand
  /\ q.run = p.run /\ q.told = p.told
  /\ Doing(q) => Doing(p)

\* ... or has nothing it claimed to run, and nothing to keep.
Quiet(q) == ~Doing(q) /\ (q.left = {} \/ q.onDemand)

\* Of what it claimed a runner has no more to run than it had.
NoMoreLeft(p, q) ==
  \/ q.id = p.id /\ q.left = p.left /\ q.onDemand = p.onDemand
  \/ q.left = {} \/ q.onDemand

LEMMA DuesShrink ==
  ASSUME NEW id, runs' = runs, \A r \in Runners : NoMoreLeft(runner[r], runner'[r])
  PROVE  Ran(id)' = Ran(id) /\ ToRun(id)' \subseteq ToRun(id)
<1>1. Ran(id)' = Ran(id)
  BY DEF Ran, Fired
<1>2. ASSUME NEW t \in ToRun(id)'
      PROVE  t \in ToRun(id)
  <2>1. PICK r \in Runners : runner'[r].id = id /\ ~runner'[r].onDemand /\ t \in runner'[r].left
    BY <1>2 DEF ToRun
  <2>2. runner[r].id = id /\ ~runner[r].onDemand /\ t \in runner[r].left
    BY <2>1 DEF NoMoreLeft
  <2> QED
    BY <2>2 DEF ToRun
<1> QED
  BY <1>1, <1>2

\* Nothing more is claimed of this schedule, and its row is put no earlier.
LEMMA OnceKept ==
  ASSUME NEW id \in Ids, OnceOK(id), now \in Nat, now' \in Nat, now <= now',
         Dues(id)' \subseteq Dues(id), Ran(id)' \intersect ToRun(id)' = {},
         store'[id].next \in {store[id].next, NoTime},
         \/ store'[id].status = store[id].status
         \/ store'[id].status \notin {"absent", "paused"},
         id \in edit'.ids => /\ id \in edit.ids /\ edit'.from[id] = edit.from[id]
                             /\ edit'.to[id] = edit.to[id]
  PROVE  OnceOK(id)'
<1>1. Dues(id)' \subseteq 0 .. now'
  BY DEF OnceOK
<1>2. Ahead(Dues(id)', store'[id].next)
  BY DEF OnceOK, Ahead
<1>3. ASSUME id \in edit'.ids
      PROVE  \/ edit'.to[id].next \in {edit'.from[id].next, NoTime}
             \/ /\ edit'.from[id].status \in {"absent", "paused"}
                /\ store'[id].status = edit'.from[id].status => Ahead(Dues(id)', edit'.to[id].next)
  BY <1>3 DEF OnceOK, Ahead
<1> QED
  BY <1>1, <1>2, <1>3 DEF OnceOK

LEMMA Calm ==
  ASSUME JInv, IInv', Typed',
         UNCHANGED <<job, store, runs, heard, overwritten>>, now <= now',
         edit' \in {edit, NoEdit}, telling' \in {telling, Silent},
         faults' = faults \/ faults' > 0,
         edit' # edit \/ telling' # telling => faults' > 0,
         \A r \in Runners : SameWork(runner[r], runner'[r]) \/ Quiet(runner'[r])
  PROVE  JInv'
<1>1. now \in Nat /\ now' \in Nat /\ faults \in Nat /\ faults' \in Nat
  BY DEF JInv, Typed
<1>2. RunsOnce'
  BY DEF JInv, RunsOnce, Fired
<1>3. ToldOnce'
  BY <1>1 DEF JInv, ToldOnce
<1>4. ASSUME NEW id \in Ids, id \notin overwritten'
      PROVE  OnceOK(id)' /\ ToldOK(id)'
  <2>1. OnceOK(id) /\ ToldOK(id)
    BY <1>4 DEF JInv
  <2>2. id \in edit'.ids => edit' = edit
    BY DEF NoEdit
  <2>3. Ran(id)' = Ran(id) /\ ToRun(id)' \subseteq ToRun(id)
    <3>1. \A r \in Runners : NoMoreLeft(runner[r], runner'[r])
      BY DEF SameWork, Quiet, NoMoreLeft
    <3> QED
      BY <3>1, DuesShrink
  <2>4. Dues(id)' \subseteq Dues(id) /\ Ran(id)' \intersect ToRun(id)' = {}
    BY <2>1, <2>3 DEF Dues, OnceOK
  <2>5. OnceOK(id)'
    BY <1>1, <2>1, <2>2, <2>4, OnceKept
  <2>6. telling' = telling \/ telling'.items = {}
    BY DEF Silent
  <2>7. ASSUME NEW r \in Runners
        PROVE  UnderWayOK(id, runner[r])'
    <3>1. CASE Quiet(runner'[r])
      BY <3>1 DEF Quiet, UnderWayOK
    <3>2. CASE SameWork(runner[r], runner'[r])
      <4>1. UnderWayOK(id, runner[r])
        BY <2>1 DEF ToldOK
      <4> QED
        BY <2>6, <3>2, <4>1 DEF SameWork, UnderWayOK
    <3> QED
      BY <3>1, <3>2
  <2>8. \A i \in telling'.items : ItemOK(id, i)'
    BY <1>1, <2>1, <2>6 DEF ToldOK, ItemOK
  <2>9. MarkEarned(id)'
    BY <2>1, <2>2 DEF ToldOK, MarkEarned
  <2>10. faults' = 0 => MarkComes(id)'
    BY <1>1, <2>1 DEF ToldOK, MarkComes
  <2> QED
    BY <2>5, <2>7, <2>8, <2>9, <2>10 DEF ToldOK
<1> QED
  BY <1>2, <1>3, <1>4 DEF JInv

\* What a step must come to that claims nothing and tells nothing.
LEMMA CalmKeeps ==
  ASSUME JInv, [Next]_vars,
         UNCHANGED <<job, store, runs, heard, overwritten>>, now' \in Nat, now <= now',
         edit' \in {edit, NoEdit}, telling' \in {telling, Silent},
         faults' \in Nat, faults' = faults \/ faults' > 0,
         edit' # edit \/ telling' # telling => faults' > 0,
         \A r \in Runners :
           \/ runner'[r] = runner[r]
           \/ /\ RunnerTyped(runner'[r], r, runs', now', job)
              /\ SameWork(runner[r], runner'[r]) \/ Quiet(runner'[r])
  PROVE  JInv'
<1>1. IInv'
  BY NextKeeps DEF JInv
<1>2. \A r \in Runners : SameWork(runner[r], runner'[r]) \/ Quiet(runner'[r])
  BY DEF SameWork
<1>3. ASSUME NEW r \in Runners, NEW q \in Runners, r # q, Doing(runner'[r]), Doing(runner'[q])
      PROVE  runner'[r].run # runner'[q].run
  <2>1. SameWork(runner[r], runner'[r]) /\ SameWork(runner[q], runner'[q])
    BY <1>2, <1>3 DEF Quiet
  <2> QED
    BY <1>3, <2>1 DEF SameWork, JInv, Typed
<1>4. EditTyped(NoEdit, runs') /\ TellTyped(Silent, runs')
  BY DEF EditTyped, NoEdit, TellTyped, Silent
<1>5. Longer(runs, runs')
  BY SameRuns DEF JInv
<1>6. Typed'
  <2>1. /\ IInv /\ Typed /\ Len(runs') <= MaxRuns /\ heard' \in [1 .. MaxRuns -> Nat]
        /\ \A n \in 1 .. MaxRuns : n > Len(runs') => heard'[n] = 0
    BY DEF JInv, Typed
  <2> QED
    BY <1>3, <1>4, <1>5, <2>1, TypedKept
<1> QED
  BY <1>1, <1>2, <1>6, Calm

-----------------------------------------------------------------------------
(* What the runners' steps make of a runner.                                 *)

\* A pass over these.
Pass(p, at, todo) ==
  /\ DOMAIN p = DOMAIN Idle /\ p.phase = "claim" /\ p.at = at /\ p.todo = todo
  /\ p.left = {} /\ p.onDemand = FALSE

LEMMA PassMade ==
  ASSUME NEW at, NEW todo, NEW p,
         p = [Idle EXCEPT !.phase = "claim", !.at = at, !.todo = todo]
  PROVE  Pass(p, at, todo)
<1> DEFINE p1 == [Idle EXCEPT !.phase = "claim"]
           p2 == [p1 EXCEPT !.at = at]
<1>1. p = [p2 EXCEPT !.todo = todo]
  BY Zenon
<1>2. DOMAIN p1 = DOMAIN Idle /\ p1.phase = "claim" /\ p1.left = {} /\ p1.onDemand = FALSE
  BY DEF Idle
<1> HIDE DEF p1
<1>3. DOMAIN p2 = DOMAIN Idle /\ p2.phase = "claim" /\ p2.at = at
      /\ p2.left = {} /\ p2.onDemand = FALSE
  BY <1>2 DEF Idle
<1> HIDE DEF p2
<1> QED
  BY <1>1, <1>3 DEF Idle, Pass

LEMMA TickKeepsAll ==
  ASSUME JInv, NEW r \in Runners, Tick(r), Next
  PROVE  JInv'
<1> DEFINE p == [Idle EXCEPT !.phase = "claim", !.at = now, !.todo = DueRows(r)]
<1>1. /\ runner' = [runner EXCEPT ![r] = p]
      /\ UNCHANGED <<job, now, store, runs, edit, telling, heard, overwritten, faults>>
  BY DEF Tick
<1>2. DOMAIN runner = Runners /\ now \in Nat /\ faults \in Nat /\ job \in Jobs
  BY DEF JInv, IInv, Typed
<1>3. /\ DOMAIN p = DOMAIN Idle /\ p.phase = "claim" /\ p.at = now /\ p.todo = DueRows(r)
      /\ p.left = {} /\ p.onDemand = FALSE
  <2>1. p = [Idle EXCEPT !.phase = "claim", !.at = now, !.todo = DueRows(r)]
    OBVIOUS
  <2> HIDE DEF p
  <2> QED
    <3>1. Pass(p, now, DueRows(r))
      BY <2>1, PassMade
    <3> QED
      BY <3>1 DEF Pass
<1> HIDE DEF p
<1>4. ASSUME NEW d \in DueRows(r)
      PROVE  DueTyped(d, r, now, runs, job)
  <2>1. PICK id \in Ids : /\ d = [id |-> id, row |-> store[id]]
                          /\ job[id].runOn = r /\ Due(store[id], now)
    BY DEF DueRows
  <2>2. RowTyped(store[id], id, runs)
    BY DEF JInv, Typed
  <2> QED
    BY <2>1, <2>2 DEF DueTyped, Due
<1>5. RunnerTyped(p, r, runs, now, job)
  <2>1. ~Doing(p) /\ p.phase \notin {"run", "kept"} /\ ~p.onDemand
    BY <1>3 DEF Doing
  <2>2. \A d \in p.todo : DueTyped(d, r, p.at, runs, job)
    BY <1>3, <1>4
  <2>3. p.at \in Nat /\ p.at <= now
    BY <1>2, <1>3
  <2>4. p.onDemand \in BOOLEAN
    BY <1>3, Zenon
  <2> QED
    BY <1>3, <2>1, <2>2, <2>3, <2>4 DEF RunnerTyped
<1>6. Quiet(p)
  BY <1>3 DEF Quiet, Doing
<1>7. \A q \in Runners : runner'[q] = IF q = r THEN p ELSE runner[q]
  BY <1>1, <1>2, RunnerSet
<1> QED
  BY <1>1, <1>2, <1>5, <1>6, <1>7, CalmKeeps

LEMMA RunNowKeepsAll ==
  ASSUME JInv, NEW id \in Ids, RunNow(id), Next
  PROVE  JInv'
<1> DEFINE p == [Idle EXCEPT !.phase = "run", !.id = id, !.left = {now}, !.onDemand = TRUE]
           p1 == [Idle EXCEPT !.phase = "run"]
           p2 == [p1 EXCEPT !.id = id]
           p3 == [p2 EXCEPT !.left = {now}]
<1>1. /\ runner' = [runner EXCEPT !["core"] = p]
      /\ UNCHANGED <<job, now, store, runs, edit, telling, heard, overwritten, faults>>
  BY DEF RunNow
<1>2. DOMAIN runner = Runners /\ now \in Nat /\ faults \in Nat /\ "core" \in Runners
  BY DEF JInv, IInv, Typed, Runners
<1>3. p = [p3 EXCEPT !.onDemand = TRUE]
  BY Zenon
<1>4. DOMAIN p1 = DOMAIN Idle /\ p1.phase = "run" /\ p1.todo = {} /\ p1.at = 0
  BY DEF Idle
<1> HIDE DEF p1
<1>5. DOMAIN p2 = DOMAIN Idle /\ p2.phase = "run" /\ p2.todo = {} /\ p2.at = 0
  BY <1>4 DEF Idle
<1> HIDE DEF p2
<1>6. DOMAIN p3 = DOMAIN Idle /\ p3.phase = "run" /\ p3.todo = {} /\ p3.at = 0 /\ p3.left = {now}
  BY <1>5 DEF Idle
<1> HIDE DEF p3, p
<1>7. DOMAIN p = DOMAIN Idle /\ p.phase = "run" /\ p.todo = {} /\ p.at = 0 /\ p.left = {now}
      /\ p.onDemand = TRUE
  BY <1>3, <1>6 DEF Idle
<1>8. RunnerTyped(p, "core", runs, now, job)
  <2>1. ~Doing(p) /\ p.phase \notin {"claim", "kept"} /\ p.left # {} /\ p.onDemand
    BY <1>7 DEF Doing
  <2>2. p.at \in Nat /\ p.at <= now /\ p.left \subseteq 0 .. now
    BY <1>2, <1>7
  <2>3. p.onDemand \in BOOLEAN
    BY <1>7, Zenon
  <2> QED
    BY <1>7, <2>1, <2>2, <2>3 DEF RunnerTyped
<1>9. Quiet(p)
  BY <1>7 DEF Quiet, Doing
<1>10. \A q \in Runners : runner'[q] = IF q = "core" THEN p ELSE runner[q]
  BY <1>1, <1>2, RunnerSet
<1> QED
  BY <1>1, <1>2, <1>8, <1>9, <1>10, CalmKeeps

LEMMA IdleTyped ==
  ASSUME NEW r, NEW list, NEW clock \in Nat, NEW jobs
  PROVE  RunnerTyped(Idle, r, list, clock, jobs) /\ Quiet(Idle)
BY DEF RunnerTyped, Quiet, Doing, Idle

LEMMA StopsKeepsAll ==
  ASSUME JInv, NEW r \in Runners, RunnerStops(r), Next
  PROVE  JInv'
<1>1. /\ runner' = [runner EXCEPT ![r] = Idle] /\ faults' = faults + 1
      /\ UNCHANGED <<job, now, store, runs, edit, telling, heard, overwritten>>
  BY DEF RunnerStops
<1>2. DOMAIN runner = Runners /\ now \in Nat /\ faults \in Nat
  BY DEF JInv, IInv, Typed
<1>3. \A q \in Runners : runner'[q] = IF q = r THEN Idle ELSE runner[q]
  BY <1>1, <1>2, RunnerSet
<1>4. \A q \in Runners : \/ runner'[q] = runner[q]
                         \/ RunnerTyped(runner'[q], q, runs', now', job) /\ Quiet(runner'[q])
  BY <1>1, <1>2, <1>3, IdleTyped
<1> QED
  BY <1>1, <1>2, <1>4, CalmKeeps

LEMMA ReloadsKeepsAll ==
  ASSUME JInv, PageReloads, Next
  PROVE  JInv'
<1>1. /\ runner' = [runner EXCEPT !["core"] = Idle] /\ faults' = faults + 1
      /\ edit' = NoEdit /\ telling' = Silent
      /\ UNCHANGED <<job, now, store, runs, heard, overwritten>>
  BY DEF PageReloads
<1>2. DOMAIN runner = Runners /\ now \in Nat /\ faults \in Nat /\ "core" \in Runners
  BY DEF JInv, IInv, Typed, Runners
<1>3. \A q \in Runners : runner'[q] = IF q = "core" THEN Idle ELSE runner[q]
  BY <1>1, <1>2, RunnerSet
<1>4. \A q \in Runners : \/ runner'[q] = runner[q]
                         \/ RunnerTyped(runner'[q], q, runs', now', job) /\ Quiet(runner'[q])
  BY <1>1, <1>2, <1>3, IdleTyped
<1>5. faults' \in Nat /\ faults' > 0
  BY <1>1, <1>2
<1> QED
  BY <1>1, <1>2, <1>4, <1>5, CalmKeeps

LEMMA AdvanceKeepsAll ==
  ASSUME JInv, [Next]_vars, Advance \/ UNCHANGED vars
  PROVE  JInv'
<1>1. now' \in {now, now + 1}
      /\ UNCHANGED <<job, store, runs, runner, edit, telling, heard, overwritten, faults>>
  BY DEF Advance, vars
<1>2. now \in Nat /\ faults \in Nat
  BY DEF JInv, Typed
<1> QED
  BY <1>1, <1>2, CalmKeeps

\* A runner writes down, or reads the row it will keep its run in.
LEMMA StepWithin ==
  ASSUME NEW p, NEW r, NEW row, NEW q, RunnerTyped(p, r, runs, now, job), Doing(p),
         RowTyped(row, p.id, runs),
         \/ q = [p EXCEPT !.phase = "keep"]
         \/ q = [p EXCEPT !.phase = "kept", !.row = row]
  PROVE  RunnerTyped(q, r, runs, now, job) /\ SameWork(p, q)
<1>1. DOMAIN p = DOMAIN Idle
  BY DEF RunnerTyped
<1> DEFINE p1 == [p EXCEPT !.phase = "kept"]
<1>2. /\ DOMAIN q = DOMAIN p /\ q.todo = p.todo /\ q.at = p.at /\ q.id = p.id
      /\ q.left = p.left /\ q.onDemand = p.onDemand /\ q.run = p.run /\ q.told = p.told
      /\ q.phase \in {"keep", "kept"} /\ (q.phase = "kept" => q.row = row)
  <2>1. CASE q = [p EXCEPT !.phase = "keep"]
    BY <1>1, <2>1 DEF Idle
  <2>2. CASE q = [p EXCEPT !.phase = "kept", !.row = row]
    <3>1. q = [p1 EXCEPT !.row = row]
      BY <2>2, Zenon
    <3>2. /\ DOMAIN p1 = DOMAIN p /\ p1.todo = p.todo /\ p1.at = p.at /\ p1.id = p.id
          /\ p1.left = p.left /\ p1.onDemand = p.onDemand /\ p1.run = p.run
          /\ p1.told = p.told /\ p1.phase = "kept"
      BY <1>1 DEF Idle
    <3> HIDE DEF p1
    <3> QED
      BY <1>1, <3>1, <3>2 DEF Idle
  <2> QED
    BY <2>1, <2>2
<1> QED
  BY <1>1, <1>2 DEF RunnerTyped, SameWork, Doing

LEMMA WithinKeepsAll ==
  ASSUME JInv, NEW r \in Runners, AppendEpisode(r) \/ KeepReads(r), Next
  PROVE  JInv'
<1> DEFINE p == runner[r]
           q == runner'[r]
<1>1. DOMAIN runner = Runners /\ now \in Nat /\ faults \in Nat
  BY DEF JInv, IInv, Typed
<1>2. UNCHANGED <<job, now, store, runs, edit, telling, heard, overwritten, faults>>
  BY DEF AppendEpisode, KeepReads
<1>3. RunnerTyped(p, r, runs, now, job)
  BY DEF JInv, Typed
<1>4. Doing(p)
  BY DEF Doing, AppendEpisode, KeepReads
<1>5. p.id \in Ids /\ RowTyped(store[p.id], p.id, runs)
  BY <1>3, <1>4 DEF RunnerTyped, JInv, Typed
<1>6. /\ \/ q = [p EXCEPT !.phase = "keep"]
         \/ q = [p EXCEPT !.phase = "kept", !.row = store[p.id]]
      /\ \A o \in Runners : o # r => runner'[o] = runner[o]
  <2>1. CASE AppendEpisode(r)
    BY <1>1, <2>1 DEF AppendEpisode
  <2>2. CASE KeepReads(r)
    BY <1>1, <2>2 DEF KeepReads
  <2> QED
    BY <2>1, <2>2
<1>7. RunnerTyped(q, r, runs, now, job) /\ SameWork(p, q)
  <2> HIDE DEF p, q
  <2> QED
    BY <1>3, <1>4, <1>5, <1>6, StepWithin
<1> QED
  BY <1>1, <1>2, <1>6, <1>7, CalmKeeps

-----------------------------------------------------------------------------
(* What is due, and what comes after it.                                     *)

LEMMA LeastTime ==
  ASSUME NEW S, S \subseteq Nat, S # {}
  PROVE  Min(S) \in S /\ \A t \in S : Min(S) <= t
<1>1. PICK m \in S : \A t \in S : <<t, m>> \notin OpToRel(<, Nat)
  BY WFMin, NatLessThanWellFounded, Zenon
<1>2. \A t \in S : ~ (t < m)
  BY <1>1, Zenon DEF OpToRel
<1>3. \A t \in S : m <= t
  BY <1>2
<1> QED
  BY <1>3 DEF Min

LEMMA NextIsLater ==
  ASSUME NEW firings, firings \subseteq Nat, NEW after \in Nat
  PROVE  /\ nextFiring(firings, after) \in Nat
         /\ nextFiring(firings, after) # NoTime => after < nextFiring(firings, after)
<1> DEFINE later == {t \in firings : t > after}
<1>1. CASE later = {}
  BY <1>1 DEF nextFiring, NoTime
<1>2. CASE later # {}
  <2>1. later \subseteq Nat
    OBVIOUS
  <2>2. Min(later) \in later
    <3> HIDE DEF later
    <3> QED
      BY <1>2, <2>1, LeastTime
  <2>3. nextFiring(firings, after) = Min(later)
    BY <1>2 DEF nextFiring
  <2> QED
    BY <2>1, <2>2, <2>3
<1> QED
  BY <1>1, <1>2

\* What a plan runs lies between the firing that was due and now, and what it
\* leaves for later comes after now.
LEMMA PlanIsDue ==
  ASSUME NEW j, j.firings \subseteq Nat, NEW row, row.next \in Nat, NEW at \in Nat
  PROVE  /\ \A t \in planSchedule(j, row, at).run : t \in Nat /\ row.next <= t /\ t <= at
         /\ planSchedule(j, row, at).next \in Nat
         /\ planSchedule(j, row, at).next # NoTime => at < planSchedule(j, row, at).next
<1> DEFINE times  == firingsBetween(j.firings, row.next, at)
           onTime == {t \in times : at - t <= LateGrace}
           missed == times \ onTime
           caught ==
             CASE j.catchUp = "run_all" ->
                    Latest(missed, RunAllLimit - (IF onTime = {} THEN 0 ELSE 1))
               [] j.catchUp = "run_once" /\ onTime = {} -> Latest(missed, 1)
               [] OTHER -> {}
           plan   == [run     |-> caught \union Latest(onTime, 1),
                      skipped |-> Cardinality(missed \ caught),
                      next    |-> nextFiring(j.firings, at)]
<1>1. planSchedule(j, row, at) = plan
  BY DEF planSchedule
<1>2. \A S, n : Latest(S, n) \subseteq S
  BY DEF Latest
<1>3. caught \subseteq missed
  <2> HIDE DEF missed, onTime
  <2>1. \/ \E n : caught = Latest(missed, n)
        \/ caught = {}
    OBVIOUS
  <2> QED
    BY <1>2, <2>1
<1>4. missed \subseteq times /\ onTime \subseteq times
  OBVIOUS
<1>5. \A t \in times : t \in Nat /\ row.next <= t /\ t <= at
  BY DEF firingsBetween
<1> HIDE DEF times, onTime, missed, caught
<1>6. \A t \in plan.run : t \in times
  BY <1>2, <1>3, <1>4
<1>7. plan.next = nextFiring(j.firings, at)
  OBVIOUS
<1> HIDE DEF plan
<1> QED
  BY <1>1, <1>5, <1>6, <1>7, NextIsLater

\* Every job's firings are times.
LEMMA FiringsAreTimes ==
  ASSUME job \in Jobs, NEW id \in Ids
  PROVE  job[id].firings \subseteq Nat
<1>1. job \in [Ids -> Job]
  BY SchedulesAssumption
<1>2. job[id] \in Job
  BY <1>1
<1> QED
  BY <1>2 DEF Job

-----------------------------------------------------------------------------
(* Steps that claim, run and keep.                                           *)

\* A run that was made, in the list.
LEMMA Added ==
  ASSUME IInv, NEW made, runs' = Append(runs, made)
  PROVE  /\ Longer(runs, runs') /\ Len(runs) \in Nat /\ Len(runs') = Len(runs) + 1
         /\ runs'[Len(runs) + 1] = made
         /\ DOMAIN runs = 1 .. Len(runs) /\ DOMAIN runs' = 1 .. Len(runs) + 1
<1>1. PICK S : runs \in Seq(S)
  BY DEF IInv, RunsOK
<1> DEFINE wider == S \union {made}
<1>2. runs \in Seq(wider) /\ made \in wider
  BY <1>1
<1> HIDE DEF wider
<1>3. /\ Len(runs) \in Nat /\ Len(runs') = Len(runs) + 1
      /\ \A n \in 1 .. Len(runs) : runs'[n] = runs[n]
      /\ runs'[Len(runs) + 1] = made
      /\ DOMAIN runs = 1 .. Len(runs) /\ DOMAIN runs' = 1 .. Len(runs) + 1
  BY <1>2
<1> QED
  BY <1>3 DEF Longer

\* It is a firing more that was run, or it is none.
LEMMA RanMade ==
  ASSUME IInv, NEW made, runs' = Append(runs, made), NEW id
  PROVE  /\ \A n \in DOMAIN runs : runs'[n] = runs[n] /\ (Fired(n)' <=> Fired(n))
         /\ \A t \in Ran(id)' :
              \/ t \in Ran(id)
              \/ /\ made.id = id /\ ~made.onDemand /\ made.outcome # "skipped"
                 /\ t = made.due
<1>1. /\ DOMAIN runs = 1 .. Len(runs) /\ DOMAIN runs' = 1 .. Len(runs) + 1
      /\ Len(runs) \in Nat /\ runs'[Len(runs) + 1] = made
      /\ \A n \in 1 .. Len(runs) : runs'[n] = runs[n]
  BY Added DEF Longer
<1>2. \A n \in DOMAIN runs : runs'[n] = runs[n] /\ (Fired(n)' <=> Fired(n))
  BY <1>1 DEF Fired
<1>3. ASSUME NEW t \in Ran(id)', t \notin Ran(id)
      PROVE  /\ made.id = id /\ ~made.onDemand /\ made.outcome # "skipped"
             /\ t = made.due
  <2>1. PICK n \in DOMAIN runs' : runs'[n].id = id /\ Fired(n)' /\ t = runs'[n].due
    BY <1>3 DEF Ran
  <2>2. n \notin DOMAIN runs
    BY <1>2, <1>3, <2>1 DEF Ran
  <2>3. n = Len(runs) + 1
    BY <1>1, <2>1, <2>2
  <2> QED
    BY <1>1, <2>1, <2>3 DEF Fired
<1> QED
  BY <1>2, <1>3

\* Of all runners only its own has firings of a schedule to run.
LEMMA OneRunsIt ==
  ASSUME Typed, NEW id \in Ids, NEW t \in ToRun(id)
  PROVE  /\ job[id].runOn \in Runners
         /\ runner[job[id].runOn].id = id /\ ~runner[job[id].runOn].onDemand
         /\ t \in runner[job[id].runOn].left
<1>1. PICK r \in Runners : runner[r].id = id /\ ~runner[r].onDemand /\ t \in runner[r].left
  BY DEF ToRun
<1>2. job[id].runOn = r
  BY <1>1 DEF Typed, RunnerTyped
<1> QED
  BY <1>1, <1>2

\* The row of a schedule names the run it did, and says of it what it said.
LEMMA MarksKept ==
  ASSUME Typed, NEW id \in Ids, ToldOK(id), Longer(runs, runs'),
         store'[id].last = store[id].last, store'[id].told = store[id].told,
         UNCHANGED <<edit, telling, faults>>,
         \A n \in 1 .. Len(runs) : heard'[n] = heard[n],
         \A r \in Runners : UnderWayOK(id, runner[r])'
  PROVE  ToldOK(id)'
<1>1. Len(runs) \in Nat /\ \A n \in 1 .. Len(runs) : runs'[n] = runs[n]
  BY DEF Longer
<1>2. \A i \in telling'.items : ItemOK(id, i)'
  <2>1. ASSUME NEW i \in telling.items
        PROVE  ItemOK(id, i)'
    <3>1. i.run \in 1 .. Len(runs)
      BY DEF Typed, TellTyped
    <3>2. ItemOK(id, i)
      BY DEF ToldOK
    <3> QED
      BY <3>1, <3>2 DEF ItemOK, Untold
  <2> QED
    BY <2>1
<1>3. MarkEarned(id)'
  <2>1. ASSUME id \in edit.ids, edit.to[id].told # edit.from[id].told
        PROVE  \E m \in 1 .. edit.from[id].last : runs'[m].id = id /\ heard'[m] > 0
    <3>1. PICK m \in 1 .. edit.from[id].last : runs[m].id = id /\ heard[m] > 0
      BY <2>1 DEF ToldOK, MarkEarned
    <3>2. edit.from[id].last \in 0 .. Len(runs)
      BY <2>1 DEF Typed, EditTyped, RowTyped
    <3>3. m \in 1 .. Len(runs)
      BY <1>1, <3>1, <3>2
    <3> QED
      BY <1>1, <3>1, <3>3
  <2> QED
    BY <2>1 DEF MarkEarned
<1>4. faults' = 0 => MarkComes(id)'
  <2>1. store[id].last # NoRun => store[id].last \in 1 .. Len(runs)
    BY <1>1 DEF Typed, RowTyped, NoRun
  <2> QED
    BY <2>1 DEF ToldOK, MarkComes
<1> QED
  BY <1>2, <1>3, <1>4 DEF ToldOK

\* Where a runner goes from here, it has nothing to keep, and what it has left
\* to run is what it had.
Follows(q, p) ==
  /\ DOMAIN q = DOMAIN Idle
  /\ q.phase \in {"idle", "claim", "run"}
  /\ \/ q.left = {}
     \/ q.left = p.left /\ q.left # {} /\ q.id = p.id /\ q.onDemand = p.onDemand
  /\ q.phase = "run" => q.left # {}
  /\ q.phase = "claim" => ~q.onDemand
  /\ q.onDemand \in BOOLEAN
  /\ q.todo = {} \/ (q.todo = p.todo /\ q.at = p.at)
  /\ q.at \in {p.at, 0}

LEMMA OnwardFollows ==
  ASSUME NEW p, DOMAIN p = DOMAIN Idle, p.onDemand \in BOOLEAN
  PROVE  Follows(Onward(p), p)
<1>1. CASE p.left # {}
  <2> DEFINE q == [p EXCEPT !.phase = "run"]
  <2>1. Onward(p) = q
    BY <1>1 DEF Onward
  <2>2. /\ DOMAIN q = DOMAIN Idle /\ q.phase = "run" /\ q.left = p.left /\ q.id = p.id
        /\ q.onDemand = p.onDemand /\ q.todo = p.todo /\ q.at = p.at
    BY DEF Idle
  <2> HIDE DEF q
  <2> QED
    BY <1>1, <2>1, <2>2 DEF Follows
<1>2. CASE p.left = {} /\ p.todo # {}
  <2> DEFINE q == [Idle EXCEPT !.phase = "claim", !.at = p.at, !.todo = p.todo]
  <2>1. Onward(p) = q
    BY <1>2 DEF Onward
  <2>2. Pass(q, p.at, p.todo)
    BY PassMade
  <2> HIDE DEF q
  <2>3. q.onDemand \in BOOLEAN /\ ~q.onDemand
    BY <2>2, Zenon DEF Pass
  <2> QED
    BY <2>1, <2>2, <2>3 DEF Follows, Pass
<1>3. CASE p.left = {} /\ p.todo = {}
  <2>1. Onward(p) = Idle
    BY <1>3 DEF Onward
  <2> QED
    BY <2>1 DEF Follows, Idle
<1> QED
  BY <1>1, <1>2, <1>3

LEMMA FollowsTyped ==
  ASSUME NEW p, NEW q, Follows(q, p), NEW r, NEW list, NEW clock \in Nat, NEW jobs,
         p.at \in Nat, p.at <= clock, p.left \subseteq 0 .. clock,
         ~p.onDemand /\ p.left # {} => p.id \in Ids /\ jobs[p.id].runOn = r,
         \A d \in p.todo : DueTyped(d, r, p.at, list, jobs)
  PROVE  RunnerTyped(q, r, list, clock, jobs) /\ ~Doing(q)
<1>1. ~Doing(q) /\ q.phase # "kept"
  BY DEF Follows, Doing
<1>2. \A d \in q.todo : DueTyped(d, r, q.at, list, jobs)
  BY DEF Follows
<1>3. q.at \in Nat /\ q.at <= clock /\ q.left \subseteq 0 .. clock
  BY DEF Follows
<1>4. q.left # {} /\ ~q.onDemand => q.id \in Ids /\ jobs[q.id].runOn = r
  BY DEF Follows
<1> QED
  BY <1>1, <1>2, <1>3, <1>4 DEF RunnerTyped, Follows

\* The plan of a claim, and the row it writes.
PlanOf(r, due) == planSchedule(job[due.id], due.row, runner[r].at)

LEMMA ClaimedRow ==
  ASSUME NEW row, DOMAIN row = DOMAIN Absent, NEW plan
  PROVE  /\ DOMAIN Claimed(row, plan) = DOMAIN Absent
         /\ Claimed(row, plan).next = plan.next
         /\ Claimed(row, plan).last = row.last /\ Claimed(row, plan).told = row.told
         /\ Claimed(row, plan).status \in {row.status, "completed"}
<1> DEFINE status == IF plan.next = NoTime THEN "completed" ELSE row.status
           row1 == [row EXCEPT !.next = plan.next]
           row2 == [row1 EXCEPT !.status = status]
<1>1. Claimed(row, plan) = [row EXCEPT !.next = plan.next, !.status = status]
  BY DEF Claimed
<1>2. [row EXCEPT !.next = plan.next, !.status = status] = row2
  BY Zenon
<1>3. status \in {row.status, "completed"}
  OBVIOUS
<1>4. DOMAIN row1 = DOMAIN Absent /\ row1.next = plan.next /\ row1.last = row.last
      /\ row1.told = row.told
  BY DEF Absent
<1> HIDE DEF status, row1
<1>5. DOMAIN row2 = DOMAIN Absent /\ row2.next = plan.next /\ row2.last = row.last
      /\ row2.told = row.told /\ row2.status = status
  BY <1>4 DEF Absent
<1> HIDE DEF row2
<1> QED
  BY <1>1, <1>2, <1>3, <1>5

\* What a claim does: of a schedule that was due it leaves the next firing in
\* the table, and to run, or a run kept as skipped, in the runner.
ClaimsFor(r, due, q, made) ==
  /\ store' = [store EXCEPT ![due.id] = Claimed(due.row, PlanOf(r, due))]
  /\ overwritten' = IF store[due.id] = due.row THEN overwritten
                                               ELSE overwritten \union {due.id}
  /\ RunnerTyped(q, r, runs', now, job)
  /\ \A o \in Runners : runner'[o] = IF o = r THEN q ELSE runner[o]
  /\ \/ q.left = {}
     \/ q.left = PlanOf(r, due).run /\ q.id = due.id /\ ~q.onDemand
  /\ \/ runs' = runs /\ ~Doing(q)
     \/ /\ Len(runs) < MaxRuns /\ runs' = Append(runs, made)
        /\ made.outcome = "skipped"
        /\ q.run = Len(runs) + 1 /\ q.told = TRUE

LEMMA ClaimMakes ==
  ASSUME JInv, NEW r \in Runners, Claim(r)
  PROVE  /\ \E due \in runner[r].todo : \E q, made : ClaimsFor(r, due, q, made)
         /\ UNCHANGED <<job, now, edit, telling, heard, faults>>
<1> DEFINE was == runner[r]
<1>1. PICK due \in was.todo :
        LET plan == planSchedule(job[due.id], due.row, was.at)
            p    == [was EXCEPT !.todo = @ \ {due}, !.id = due.id, !.left = plan.run]
        IN /\ saveSchedule(due.id, due.row, Claimed(due.row, plan))
           /\ IF plan.run = {} /\ plan.skipped > 0
              THEN /\ Len(runs) < MaxRuns
                   /\ runs' = Append(runs, [id |-> due.id, due |-> due.row.next,
                                            outcome |-> "skipped", words |-> FALSE,
                                            onDemand |-> FALSE])
                   /\ runner' = [runner EXCEPT
                        ![r] = [p EXCEPT !.phase = "keep", !.run = Len(runs) + 1,
                                         !.told = TRUE]]
              ELSE /\ runner' = [runner EXCEPT ![r] = Onward(p)]
                   /\ UNCHANGED runs
  BY DEF Claim
<1> DEFINE plan == PlanOf(r, due)
           p    == [was EXCEPT !.todo = @ \ {due}, !.id = due.id, !.left = plan.run]
           w1   == [was EXCEPT !.todo = @ \ {due}]
           w2   == [w1 EXCEPT !.id = due.id]
           made == [id |-> due.id, due |-> due.row.next, outcome |-> "skipped",
                    words |-> FALSE, onDemand |-> FALSE]
           kept == [p EXCEPT !.phase = "keep", !.run = Len(runs) + 1, !.told = TRUE]
           k1   == [p EXCEPT !.phase = "keep"]
           k2   == [k1 EXCEPT !.run = Len(runs) + 1]
<1>2. UNCHANGED <<job, now, edit, telling, heard, faults>>
  BY DEF Claim
<1>3. /\ IInv /\ Typed /\ DOMAIN runner = Runners /\ now \in Nat /\ was.phase = "claim"
      /\ RunnerTyped(was, r, runs, now, job) /\ job \in Jobs
  BY DEF JInv, IInv, Typed, Claim
<1>4. /\ DOMAIN was = DOMAIN Idle /\ ~was.onDemand /\ was.onDemand \in BOOLEAN
      /\ was.at \in Nat /\ was.at <= now
      /\ \A d \in was.todo : DueTyped(d, r, was.at, runs, job)
  BY <1>3 DEF RunnerTyped
<1>5. /\ due.id \in Ids /\ job[due.id].runOn = r /\ due.row.next \in Nat
  BY <1>4 DEF DueTyped, RowTyped
<1>6. plan.run \subseteq 0 .. now
  <2>1. \A t \in plan.run : t \in Nat /\ due.row.next <= t /\ t <= was.at
    BY <1>3, <1>4, <1>5, PlanIsDue, FiringsAreTimes DEF PlanOf
  <2> HIDE DEF plan
  <2> QED
    BY <1>3, <1>4, <2>1
<1>7. /\ store' = [store EXCEPT ![due.id] = Claimed(due.row, plan)]
      /\ overwritten' = IF store[due.id] = due.row THEN overwritten
                                                   ELSE overwritten \union {due.id}
  BY <1>1 DEF saveSchedule, PlanOf
<1>8. \/ /\ Len(runs) < MaxRuns /\ runs' = Append(runs, made)
         /\ runner' = [runner EXCEPT ![r] = kept]
         /\ plan.run = {}
      \/ runs' = runs /\ runner' = [runner EXCEPT ![r] = Onward(p)]
  BY <1>1 DEF PlanOf
<1>9. p = [w2 EXCEPT !.left = plan.run]
  BY Zenon
<1>10. kept = [k2 EXCEPT !.told = TRUE]
  BY Zenon
<1>11. made.id = due.id /\ made.outcome = "skipped"
  OBVIOUS
<1> HIDE DEF was, plan, made
<1>12. /\ DOMAIN w1 = DOMAIN Idle /\ w1.todo = was.todo \ {due} /\ w1.at = was.at
       /\ w1.onDemand = was.onDemand
  BY <1>4 DEF Idle
<1> HIDE DEF w1
<1>13. /\ DOMAIN w2 = DOMAIN Idle /\ w2.todo = was.todo \ {due} /\ w2.at = was.at
       /\ w2.onDemand = was.onDemand /\ w2.id = due.id
  BY <1>12 DEF Idle
<1> HIDE DEF w2, p
<1>14. /\ DOMAIN p = DOMAIN Idle /\ p.todo = was.todo \ {due} /\ p.at = was.at
       /\ p.onDemand = was.onDemand /\ p.id = due.id /\ p.left = plan.run
  BY <1>9, <1>13 DEF Idle
<1>15. CASE /\ Len(runs) < MaxRuns /\ runs' = Append(runs, made)
            /\ runner' = [runner EXCEPT ![r] = kept]
            /\ plan.run = {}
  <2>1. /\ DOMAIN k1 = DOMAIN Idle /\ k1.todo = p.todo /\ k1.at = p.at
        /\ k1.onDemand = p.onDemand /\ k1.id = due.id /\ k1.left = {} /\ k1.phase = "keep"
    BY <1>14, <1>15 DEF Idle
  <2> HIDE DEF k1
  <2>2. /\ DOMAIN k2 = DOMAIN Idle /\ k2.todo = p.todo /\ k2.at = p.at
        /\ k2.onDemand = p.onDemand /\ k2.id = due.id /\ k2.left = {} /\ k2.phase = "keep"
        /\ k2.run = Len(runs) + 1
    BY <2>1 DEF Idle
  <2> HIDE DEF k2, kept
  <2>3. /\ DOMAIN kept = DOMAIN Idle /\ kept.todo = p.todo /\ kept.at = p.at
        /\ kept.onDemand = p.onDemand /\ kept.id = due.id /\ kept.left = {}
        /\ kept.phase = "keep" /\ kept.run = Len(runs) + 1 /\ kept.told = TRUE
    BY <1>10, <2>2 DEF Idle
  <2>4. /\ Longer(runs, runs') /\ Len(runs) \in Nat /\ Len(runs') = Len(runs) + 1
        /\ runs'[Len(runs) + 1] = made
    BY <1>3, <1>15, Added
  <2>5. \A d \in kept.todo : DueTyped(d, r, kept.at, runs', job)
    BY <1>4, <1>14, <2>3, <2>4, DueStays
  <2>6. kept.told \in BOOLEAN
    BY <2>3, Zenon
  <2>7. ~kept.onDemand /\ kept.onDemand \in BOOLEAN
    BY <1>4, <1>14, <2>3, Zenon
  <2>8. Doing(kept) => /\ kept.run \in 1 .. Len(runs')
                       /\ runs'[kept.run].id = kept.id /\ kept.id \in Ids
    BY <1>5, <1>11, <2>3, <2>4
  <2>9. RunnerTyped(kept, r, runs', now, job)
    BY <1>4, <1>5, <1>14, <2>3, <2>5, <2>6, <2>7, <2>8 DEF RunnerTyped
  <2>10. \A o \in Runners : runner'[o] = IF o = r THEN kept ELSE runner[o]
    BY <1>3, <1>15, RunnerSet
  <2>11. ClaimsFor(r, due, kept, made)
    BY <1>7, <1>11, <1>15, <2>3, <2>9, <2>10 DEF ClaimsFor, plan
  <2> QED
    BY <1>2, <2>11 DEF was
<1>16. CASE runs' = runs /\ runner' = [runner EXCEPT ![r] = Onward(p)]
  <2>1. Follows(Onward(p), p)
    BY <1>4, <1>14, OnwardFollows
  <2>2. \A d \in p.todo : DueTyped(d, r, p.at, runs, job)
    BY <1>4, <1>14
  <2>3. RunnerTyped(Onward(p), r, runs, now, job) /\ ~Doing(Onward(p))
    BY <1>3, <1>4, <1>5, <1>6, <1>14, <2>1, <2>2, FollowsTyped
  <2>4. \A o \in Runners : runner'[o] = IF o = r THEN Onward(p) ELSE runner[o]
    BY <1>3, <1>16, RunnerSet
  <2>5. \/ Onward(p).left = {}
        \/ Onward(p).left = plan.run /\ Onward(p).id = due.id /\ ~Onward(p).onDemand
    BY <1>4, <1>14, <2>1 DEF Follows
  <2>6. ClaimsFor(r, due, Onward(p), made)
    BY <1>7, <1>16, <2>3, <2>4, <2>5 DEF ClaimsFor, plan
  <2> QED
    BY <1>2, <2>6 DEF was
<1> QED
  BY <1>8, <1>15, <1>16

\* No firing is claimed twice: those of a claim come after all that was claimed
\* of the schedule before, and before the one it leaves in the table.
LEMMA ClaimAddsOnce ==
  ASSUME JInv, NEW r \in Runners, NEW due \in runner[r].todo, NEW q, NEW made,
         ClaimsFor(r, due, q, made), now' = now, job' = job, edit' = edit,
         NEW id \in Ids, id \notin overwritten'
  PROVE  OnceOK(id)'
<1> DEFINE at == runner[r].at
           plan == PlanOf(r, due)
<1>1. /\ IInv /\ Typed /\ now \in Nat /\ job \in Jobs
      /\ DueTyped(due, r, at, runs, job) /\ at \in Nat /\ at <= now
  BY DEF JInv, Typed, RunnerTyped
<1>2. /\ due.id \in Ids /\ job[due.id].runOn = r /\ due.row.next \in Nat
      /\ DOMAIN due.row = DOMAIN Absent /\ due.row.next # NoTime /\ due.row.next <= at
      /\ due.row.status = "active"
  BY <1>1 DEF DueTyped, RowTyped
<1>3. id \notin overwritten /\ OnceOK(id)
  BY DEF ClaimsFor, JInv
<1>4. Ran(id)' \subseteq Ran(id)
  <2>1. CASE runs' = runs
    BY <2>1 DEF Ran, Fired
  <2>2. CASE runs' = Append(runs, made) /\ made.outcome = "skipped"
    BY <1>1, <2>2, RanMade
  <2> QED
    BY <2>1, <2>2 DEF ClaimsFor
<1>5. DOMAIN store = Ids
  BY <1>1 DEF IInv
<1>6. store' = [store EXCEPT ![due.id] = Claimed(due.row, plan)]
  BY DEF ClaimsFor
<1>7. CASE id # due.id
  <2>1. ToRun(id)' \subseteq ToRun(id)
    <3>1. ASSUME NEW t \in ToRun(id)'
          PROVE  t \in ToRun(id)
      <4>1. PICK o \in Runners :
              runner'[o].id = id /\ ~runner'[o].onDemand /\ t \in runner'[o].left
        BY <3>1 DEF ToRun
      <4>2. runner'[o] = runner[o]
        BY <1>7, <4>1 DEF ClaimsFor
      <4> QED
        BY <4>1, <4>2 DEF ToRun
    <3> QED
      BY <3>1
  <2>2. Dues(id)' \subseteq Dues(id) /\ Ran(id)' \intersect ToRun(id)' = {}
    BY <1>3, <1>4, <2>1 DEF Dues, OnceOK
  <2>3. store'[id] = store[id]
    BY <1>5, <1>6, <1>7
  <2> QED
    BY <1>1, <1>3, <2>2, <2>3, OnceKept
<1>8. CASE id = due.id
  <2>1. due.row = store[id]
    BY <1>2, <1>8 DEF ClaimsFor
  <2>2. store'[id] = Claimed(due.row, plan)
    BY <1>5, <1>6, <1>8
  <2>3. store'[id].next = plan.next /\ store'[id].status \in {"active", "completed"}
    BY <1>2, <2>2, ClaimedRow
  <2>4. /\ \A t \in plan.run : t \in Nat /\ due.row.next <= t /\ t <= at
        /\ plan.next \in Nat
        /\ plan.next # NoTime => at < plan.next
    BY <1>1, <1>2, PlanIsDue, FiringsAreTimes DEF PlanOf
  <2>5. \A t \in Ran(id) : t \in 0 .. now /\ t < due.row.next
    BY <1>2, <1>3, <2>1 DEF OnceOK, Ahead, Dues
  <2>6. \A t \in ToRun(id)' : t \in plan.run
    <3>1. ASSUME NEW t \in ToRun(id)'
          PROVE  t \in plan.run
      <4>1. PICK o \in Runners :
              runner'[o].id = id /\ ~runner'[o].onDemand /\ t \in runner'[o].left
        BY <3>1 DEF ToRun
      <4>2. CASE o = r
        BY <4>1, <4>2 DEF ClaimsFor
      <4>3. CASE o # r
        <5>1. runner'[o] = runner[o]
          BY <4>3 DEF ClaimsFor
        <5>2. RunnerTyped(runner[o], o, runs, now, job)
          BY <1>1 DEF Typed
        <5>3. job[id].runOn = o
          BY <4>1, <5>1, <5>2 DEF RunnerTyped
        <5> QED
          BY <1>2, <1>8, <4>3, <5>3
      <4> QED
        BY <4>2, <4>3
    <3> QED
      BY <3>1
  <2> HIDE DEF plan, at
  <2>7. \A t \in Dues(id)' : t \in 0 .. now /\ (plan.next # NoTime => t < plan.next)
    BY <1>1, <1>2, <1>4, <2>4, <2>5, <2>6 DEF Dues
  <2>8. Ran(id)' \intersect ToRun(id)' = {}
    <3>1. ASSUME NEW t \in Ran(id)', t \in ToRun(id)'
          PROVE  FALSE
      BY <1>2, <1>4, <2>4, <2>5, <2>6, <3>1
    <3> QED
      BY <3>1
  <2>9. Dues(id)' \subseteq 0 .. now'
    BY <2>7
  <2>10. Ahead(Dues(id)', store'[id].next)
    BY <2>3, <2>7 DEF Ahead
  <2>11. id \in edit'.ids =>
           \/ edit'.to[id].next \in {edit'.from[id].next, NoTime}
           \/ /\ edit'.from[id].status \in {"absent", "paused"}
              /\ store'[id].status = edit'.from[id].status
                   => Ahead(Dues(id)', edit'.to[id].next)
    BY <1>3, <2>3 DEF OnceOK
  <2> QED
    BY <2>8, <2>9, <2>10, <2>11 DEF OnceOK
<1> QED
  BY <1>7, <1>8

LEMMA ClaimKeepsTold ==
  ASSUME JInv, NEW r \in Runners, NEW due \in runner[r].todo, NEW q, NEW made,
         ClaimsFor(r, due, q, made),
         UNCHANGED <<job, now, edit, telling, heard, faults>>,
         NEW id \in Ids, id \notin overwritten'
  PROVE  ToldOK(id)'
<1>1. /\ IInv /\ Typed /\ DueTyped(due, r, runner[r].at, runs, job)
  BY DEF JInv, Typed, RunnerTyped
<1>2. due.id \in Ids /\ DOMAIN due.row = DOMAIN Absent /\ DOMAIN store = Ids
  BY <1>1 DEF DueTyped, RowTyped, IInv
<1>3. id \notin overwritten /\ ToldOK(id)
  BY DEF ClaimsFor, JInv
<1>4. store'[id].last = store[id].last /\ store'[id].told = store[id].told
  <2>1. store' = [store EXCEPT ![due.id] = Claimed(due.row, PlanOf(r, due))]
    BY DEF ClaimsFor
  <2>2. CASE id = due.id
    <3>1. due.row = store[id]
      BY <1>2, <2>2 DEF ClaimsFor
    <3>2. store'[id] = Claimed(due.row, PlanOf(r, due))
      BY <1>2, <2>1, <2>2
    <3> QED
      BY <1>2, <3>1, <3>2, ClaimedRow
  <2>3. CASE id # due.id
    BY <1>2, <2>1, <2>3
  <2> QED
    BY <2>2, <2>3
<1>5. Longer(runs, runs') /\ Len(runs) \in Nat
  BY <1>1, Added, SameRuns DEF ClaimsFor
<1>6. /\ store[id].last \in 0 .. Len(runs)
      /\ \A i \in telling.items : i.run \in 1 .. Len(runs)
  BY <1>1 DEF Typed, RowTyped, TellTyped
<1>7. ASSUME NEW o \in Runners
      PROVE  UnderWayOK(id, runner[o])'
  <2>1. CASE o # r
    <3>1. runner'[o] = runner[o]
      BY <2>1 DEF ClaimsFor
    <3>2. UnderWayOK(id, runner[o])
      BY <1>3 DEF ToldOK
    <3> QED
      BY <1>4, <3>1, <3>2 DEF UnderWayOK, Untold
  <2>2. CASE o = r
    <3>1. runner'[o] = q
      BY <2>2 DEF ClaimsFor
    <3>2. Doing(q) => q.run = Len(runs) + 1 /\ q.told
      BY DEF ClaimsFor
    <3> QED
      BY <1>4, <1>5, <1>6, <3>1, <3>2 DEF UnderWayOK
  <2> QED
    BY <2>1, <2>2
<1> QED
  BY <1>1, <1>3, <1>4, <1>5, <1>7, MarksKept

LEMMA ClaimKeepsAll ==
  ASSUME JInv, NEW r \in Runners, Claim(r), Next
  PROVE  JInv'
<1>1. PICK due, q, made : due \in runner[r].todo /\ ClaimsFor(r, due, q, made)
  BY ClaimMakes
<1>2. UNCHANGED <<job, now, edit, telling, heard, faults>>
  BY ClaimMakes
<1>3. IInv' /\ IInv /\ Typed
  BY NextKeeps DEF JInv
<1>4. /\ now \in Nat /\ faults \in Nat /\ DOMAIN store = Ids /\ job \in Jobs
      /\ heard \in [1 .. MaxRuns -> Nat] /\ Len(runs) <= MaxRuns
      /\ \A n \in 1 .. MaxRuns : n > Len(runs) => heard[n] = 0
  BY <1>3 DEF IInv, Typed
<1>5. /\ Longer(runs, runs') /\ Len(runs) \in Nat
      /\ Len(runs') \in {Len(runs), Len(runs) + 1} /\ Len(runs') <= MaxRuns
  <2>1. CASE runs' = runs
    BY <1>3, <1>4, <2>1, SameRuns
  <2>2. CASE runs' = Append(runs, made) /\ Len(runs) < MaxRuns
    BY <1>3, <2>2, Added, SchedulesAssumption
  <2> QED
    BY <1>1, <2>1, <2>2 DEF ClaimsFor
<1>6. Typed'
  <2>1. \A i \in Ids : store'[i] = store[i] \/ RowTyped(store'[i], i, runs')
    <3> DEFINE row == Claimed(due.row, PlanOf(r, due))
    <3>1. DueTyped(due, r, runner[r].at, runs, job) /\ runner[r].at \in Nat
      BY <1>1, <1>3 DEF Typed, RunnerTyped
    <3>2. due.id \in Ids /\ RowTyped(due.row, due.id, runs)
      BY <3>1 DEF DueTyped
    <3>3. PlanOf(r, due).next \in Nat
      BY <1>4, <3>1, <3>2, PlanIsDue, FiringsAreTimes DEF PlanOf, RowTyped
    <3>4. RowTyped(row, due.id, runs)
      <4>1. /\ DOMAIN row = DOMAIN Absent /\ row.next = PlanOf(r, due).next
            /\ row.last = due.row.last /\ row.told = due.row.told
        BY <3>2, ClaimedRow DEF RowTyped
      <4> HIDE DEF row
      <4> QED
        BY <3>2, <3>3, <4>1 DEF RowTyped
    <3>5. RowTyped(row, due.id, runs')
      BY <1>5, <3>4, RowStays
    <3>6. store' = [store EXCEPT ![due.id] = row]
      BY <1>1 DEF ClaimsFor
    <3> HIDE DEF row
    <3> QED
      BY <1>4, <3>5, <3>6
  <2>2. \A o \in Runners : runner'[o] = runner[o]
                             \/ RunnerTyped(runner'[o], o, runs', now', job)
    BY <1>1, <1>2 DEF ClaimsFor
  <2>3. ASSUME NEW o \in Runners, NEW u \in Runners, o # u, Doing(runner'[o]), Doing(runner'[u])
        PROVE  runner'[o].run # runner'[u].run
    <3>1. \A v \in Runners : Doing(runner[v]) => runner[v].run \in 1 .. Len(runs)
      BY <1>3 DEF Typed, RunnerTyped
    <3>2. Doing(q) => q.run = Len(runs) + 1
      BY <1>1 DEF ClaimsFor
    <3>3. \A v \in Runners : runner'[v] = IF v = r THEN q ELSE runner[v]
      BY <1>1 DEF ClaimsFor
    <3>4. CASE o # r /\ u # r
      BY <1>3, <2>3, <3>3, <3>4 DEF Typed
    <3>5. CASE o = r \/ u = r
      BY <1>5, <2>3, <3>1, <3>2, <3>3, <3>5
    <3> QED
      BY <3>4, <3>5
  <2>4. \A n \in 1 .. MaxRuns : n > Len(runs') => heard'[n] = 0
    BY <1>2, <1>4, <1>5
  <2> QED
    BY <1>2, <1>3, <1>4, <1>5, <2>1, <2>2, <2>3, <2>4, TypedKept
<1>7. RunsOnce' /\ ToldOnce'
  <2>1. CASE runs' = runs
    BY <1>1, <1>2, <2>1 DEF JInv, RunsOnce, ToldOnce, Fired, ClaimsFor
  <2>2. CASE runs' = Append(runs, made) /\ made.outcome = "skipped" /\ Len(runs) < MaxRuns
    <3>1. \A n \in DOMAIN runs : runs'[n] = runs[n] /\ (Fired(n)' <=> Fired(n))
      BY <1>3, <2>2, RanMade
    <3>2. /\ DOMAIN runs = 1 .. Len(runs) /\ DOMAIN runs' = 1 .. Len(runs) + 1
          /\ runs'[Len(runs) + 1] = made /\ Len(runs) \in Nat
      BY <1>3, <2>2, Added
    <3>3. \A n \in DOMAIN runs' : n \in DOMAIN runs \/ n = Len(runs) + 1
      BY <3>2
    <3>5. overwritten \subseteq overwritten'
      BY <1>1 DEF ClaimsFor
    <3>6. RunsOnce'
      <4>1. ASSUME NEW m \in DOMAIN runs', NEW n \in DOMAIN runs',
                   m < n, runs'[m].id = runs'[n].id, runs'[m].due = runs'[n].due,
                   Fired(m)', Fired(n)'
            PROVE  runs'[n].id \in overwritten'
        <5>1. m \in DOMAIN runs /\ n \in DOMAIN runs
          <6>1. \A k \in DOMAIN runs' : Fired(k)' => k \in DOMAIN runs
            BY <2>2, <3>2, <3>3 DEF Fired
          <6> QED
            BY <4>1, <6>1
        <5>2. runs[n].id \in overwritten
          BY <3>1, <4>1, <5>1 DEF JInv, RunsOnce
        <5> QED
          BY <3>1, <3>5, <5>1, <5>2
      <4> QED
        BY <4>1 DEF RunsOnce
    <3>7. ToldOnce'
      <4>1. ASSUME NEW n \in DOMAIN runs', heard'[n] > 1
            PROVE  faults' > 0 \/ runs'[n].id \in overwritten'
        <5>1. CASE n \in DOMAIN runs
          BY <1>2, <3>1, <3>5, <4>1, <5>1 DEF JInv, ToldOnce
        <5>2. CASE n = Len(runs) + 1
          <6>1. n \in 1 .. MaxRuns /\ n > Len(runs)
            BY <1>5, <2>2, <5>2, SchedulesAssumption
          <6>2. heard[n] = 0
            BY <1>4, <6>1
          <6> QED
            BY <1>2, <4>1, <6>2
        <5> QED
          BY <3>3, <5>1, <5>2
      <4> QED
        BY <4>1 DEF ToldOnce
    <3> QED
      BY <3>6, <3>7
  <2> QED
    BY <1>1, <2>1, <2>2 DEF ClaimsFor
<1>8. \A id \in Ids : id \notin overwritten' => OnceOK(id)' /\ ToldOK(id)'
  BY <1>1, <1>2, ClaimAddsOnce, ClaimKeepsTold
<1> QED
  BY <1>3, <1>6, <1>7, <1>8 DEF JInv

\* What running one does: the earliest of what was claimed is run, and the
\* runner has it to keep.
RunsOne(r, q, made, shown) ==
  /\ RunnerTyped(q, r, runs', now, job)
  /\ \A o \in Runners : runner'[o] = IF o = r THEN q ELSE runner[o]
  /\ Len(runs) < MaxRuns /\ runs' = Append(runs, made)
  /\ made.id = runner[r].id /\ made.onDemand = runner[r].onDemand
  /\ made.due = Min(runner[r].left) /\ runner[r].left # {}
  /\ q.left = runner[r].left \ {Min(runner[r].left)}
  /\ q.id = runner[r].id /\ q.onDemand = runner[r].onDemand
  /\ q.run = Len(runs) + 1
  /\ shown => q.told
  /\ heard' = [heard EXCEPT ![Len(runs) + 1] = IF shown THEN @ + 1 ELSE @]

LEMMA ExecuteMakes ==
  ASSUME JInv, NEW r \in Runners, Execute(r)
  PROVE  /\ \E q, made, shown : RunsOne(r, q, made, shown)
         /\ UNCHANGED <<job, now, store, edit, telling, overwritten, faults>>
<1> DEFINE was == runner[r]
<1>1. PICK said \in Outcomes(r, was.id), shown \in BOOLEAN :
        /\ runs' = Append(runs, [id |-> was.id, due |-> Min(was.left),
                                 outcome |-> said.outcome, words |-> said.words,
                                 onDemand |-> was.onDemand])
        /\ runner' = [runner EXCEPT ![r] =
             [was EXCEPT !.phase = IF said.words THEN "append" ELSE "keep",
                         !.left = @ \ {Min(@)},
                         !.run = Len(runs) + 1,
                         !.told = ToldAlready(was.id, was.onDemand, said.words, shown)]]
        /\ heard' = [heard EXCEPT ![Len(runs) + 1] = IF shown THEN @ + 1 ELSE @]
  BY DEF Execute
<1> DEFINE made == [id |-> was.id, due |-> Min(was.left), outcome |-> said.outcome,
                    words |-> said.words, onDemand |-> was.onDemand]
           phase == IF said.words THEN "append" ELSE "keep"
           told == ToldAlready(was.id, was.onDemand, said.words, shown)
           q == [was EXCEPT !.phase = phase, !.left = @ \ {Min(@)}, !.run = Len(runs) + 1,
                            !.told = told]
           q1 == [was EXCEPT !.phase = phase]
           q2 == [q1 EXCEPT !.left = @ \ {Min(@)}]
           q3 == [q2 EXCEPT !.run = Len(runs) + 1]
<1>2. /\ UNCHANGED <<job, now, store, edit, telling, overwritten, faults>>
      /\ was.phase = "run" /\ Len(runs) < MaxRuns
  BY DEF Execute
<1>3. /\ IInv /\ DOMAIN runner = Runners /\ now \in Nat
      /\ RunnerTyped(was, r, runs, now, job) /\ was.id \in Ids
  BY <1>2 DEF JInv, IInv, Typed, RunnerOK
<1>4. /\ DOMAIN was = DOMAIN Idle /\ was.left # {} /\ was.onDemand \in BOOLEAN
      /\ was.at \in Nat /\ was.at <= now /\ was.left \subseteq 0 .. now
      /\ \A d \in was.todo : DueTyped(d, r, was.at, runs, job)
      /\ (~was.onDemand => job[was.id].runOn = r)
  BY <1>2, <1>3 DEF RunnerTyped
<1>5. told \in BOOLEAN /\ (was.onDemand => told) /\ (shown => told)
  BY Zenon DEF ToldAlready
<1>6. q = [q3 EXCEPT !.told = told]
  BY Zenon
<1>7. made.id = was.id /\ made.onDemand = was.onDemand /\ made.due = Min(was.left)
  OBVIOUS
<1>8. phase \in {"append", "keep"}
  OBVIOUS
<1>9. /\ runs' = Append(runs, made) /\ runner' = [runner EXCEPT ![r] = q]
      /\ heard' = [heard EXCEPT ![Len(runs) + 1] = IF shown THEN @ + 1 ELSE @]
  BY <1>1
<1> HIDE DEF was, made, told, phase
<1>10. /\ DOMAIN q1 = DOMAIN Idle /\ q1.phase = phase /\ q1.todo = was.todo /\ q1.at = was.at
       /\ q1.id = was.id /\ q1.onDemand = was.onDemand /\ q1.left = was.left
  BY <1>4 DEF Idle
<1> HIDE DEF q1
<1>11. /\ DOMAIN q2 = DOMAIN Idle /\ q2.phase = phase /\ q2.todo = was.todo /\ q2.at = was.at
       /\ q2.id = was.id /\ q2.onDemand = was.onDemand
       /\ q2.left = was.left \ {Min(was.left)}
  BY <1>10 DEF Idle
<1> HIDE DEF q2
<1>12. /\ DOMAIN q3 = DOMAIN Idle /\ q3.phase = phase /\ q3.todo = was.todo /\ q3.at = was.at
       /\ q3.id = was.id /\ q3.onDemand = was.onDemand
       /\ q3.left = was.left \ {Min(was.left)} /\ q3.run = Len(runs) + 1
  BY <1>11 DEF Idle
<1> HIDE DEF q3, q
<1>13. /\ DOMAIN q = DOMAIN Idle /\ q.phase = phase /\ q.todo = was.todo /\ q.at = was.at
       /\ q.id = was.id /\ q.onDemand = was.onDemand
       /\ q.left = was.left \ {Min(was.left)} /\ q.run = Len(runs) + 1 /\ q.told = told
  BY <1>6, <1>12 DEF Idle
<1>14. /\ Longer(runs, runs') /\ Len(runs) \in Nat /\ Len(runs') = Len(runs) + 1
       /\ runs'[Len(runs) + 1] = made
  BY <1>3, <1>9, Added
<1>15. RunnerTyped(q, r, runs', now, job)
  <2>1. \A d \in q.todo : DueTyped(d, r, q.at, runs', job)
    BY <1>4, <1>13, <1>14, DueStays
  <2>2. q.run \in 1 .. Len(runs') /\ runs'[q.run].id = q.id /\ q.id \in Ids
    BY <1>3, <1>7, <1>13, <1>14
  <2>3. q.told \in BOOLEAN /\ (q.onDemand => q.told) /\ q.onDemand \in BOOLEAN
    BY <1>4, <1>5, <1>13, Zenon
  <2>4. q.phase \notin {"run", "claim", "kept"}
    BY <1>8, <1>13
  <2>5. q.left \subseteq 0 .. now /\ q.at \in Nat /\ q.at <= now
    BY <1>4, <1>13
  <2>6. ~q.onDemand => job[q.id].runOn = r
    BY <1>4, <1>13
  <2> QED
    BY <1>13, <2>1, <2>2, <2>3, <2>4, <2>5, <2>6 DEF RunnerTyped
<1>16. \A o \in Runners : runner'[o] = IF o = r THEN q ELSE runner[o]
  BY <1>3, <1>9, RunnerSet
<1>17. shown => q.told
  BY <1>5, <1>13, Zenon
<1>18. RunsOne(r, q, made, shown)
  BY <1>2, <1>4, <1>7, <1>9, <1>13, <1>15, <1>16, <1>17 DEF RunsOne, was
<1> QED
  BY <1>2, <1>18

\* What was claimed is run, or is still to be run, and never both.
LEMMA ExecuteRunsOnce ==
  ASSUME JInv, NEW r \in Runners, NEW q, NEW made, NEW shown, RunsOne(r, q, made, shown),
         UNCHANGED <<job, now, store, edit>>, NEW id \in Ids, OnceOK(id)
  PROVE  OnceOK(id)'
<1> DEFINE least == Min(runner[r].left)
<1>1. IInv /\ Typed /\ now \in Nat /\ RunnerTyped(runner[r], r, runs, now, job)
  BY DEF JInv, Typed
<1>2. least \in runner[r].left
  BY <1>1, LeastTime DEF RunnerTyped, RunsOne
<1>3. \A t \in Ran(id)' : \/ t \in Ran(id)
                          \/ runner[r].id = id /\ ~runner[r].onDemand /\ t = least
  BY <1>1, RanMade DEF RunsOne
<1>4. \A t \in ToRun(id)' :
        /\ t \in ToRun(id)
        /\ runner[r].id = id /\ ~runner[r].onDemand => t # least
  <2>1. ASSUME NEW t \in ToRun(id)'
        PROVE  /\ t \in ToRun(id)
               /\ runner[r].id = id /\ ~runner[r].onDemand => t # least
    <3>1. PICK o \in Runners :
            runner'[o].id = id /\ ~runner'[o].onDemand /\ t \in runner'[o].left
      BY <2>1 DEF ToRun
    <3>2. CASE o = r
      <4>1. /\ runner'[o] = q /\ q.id = runner[r].id /\ q.onDemand = runner[r].onDemand
            /\ q.left = runner[r].left \ {least}
        BY <3>2 DEF RunsOne
      <4> QED
        BY <3>1, <4>1 DEF ToRun
    <3>3. CASE o # r
      <4>1. runner'[o] = runner[o]
        BY <3>3 DEF RunsOne
      <4>2. job[id].runOn = o
        BY <1>1, <3>1, <4>1 DEF Typed, RunnerTyped
      <4>3. ~(runner[r].id = id /\ ~runner[r].onDemand)
        BY <1>1, <1>2, <3>3, <4>2 DEF RunnerTyped
      <4> QED
        BY <3>1, <4>1, <4>3 DEF ToRun
    <3> QED
      BY <3>2, <3>3
  <2> QED
    BY <2>1
<1>5. runner[r].id = id /\ ~runner[r].onDemand => least \in ToRun(id)
  BY <1>2 DEF ToRun
<1> HIDE DEF least
<1>6. Dues(id)' \subseteq Dues(id)
  BY <1>3, <1>4, <1>5 DEF Dues
<1>7. Ran(id)' \intersect ToRun(id)' = {}
  <2>1. ASSUME NEW t \in Ran(id)', t \in ToRun(id)'
        PROVE  FALSE
    BY <1>3, <1>4, <2>1 DEF OnceOK
  <2> QED
    BY <2>1
<1> QED
  BY <1>1, <1>6, <1>7, OnceKept

LEMMA ExecuteKeepsAll ==
  ASSUME JInv, NEW r \in Runners, Execute(r), Next
  PROVE  JInv'
<1>1. PICK q, made, shown : RunsOne(r, q, made, shown)
  BY ExecuteMakes
<1>2. UNCHANGED <<job, now, store, edit, telling, overwritten, faults>>
  BY ExecuteMakes
<1>3. IInv' /\ IInv /\ Typed
  BY NextKeeps DEF JInv
<1>4. /\ now \in Nat /\ faults \in Nat
      /\ heard \in [1 .. MaxRuns -> Nat] /\ Len(runs) < MaxRuns /\ MaxRuns \in Nat
      /\ \A n \in 1 .. MaxRuns : n > Len(runs) => heard[n] = 0
  BY <1>1, <1>3, SchedulesAssumption DEF Typed, RunsOne
<1>5. /\ Longer(runs, runs') /\ Len(runs) \in Nat /\ Len(runs') = Len(runs) + 1
      /\ runs'[Len(runs) + 1] = made
      /\ DOMAIN runs = 1 .. Len(runs) /\ DOMAIN runs' = 1 .. Len(runs) + 1
  BY <1>1, <1>3, Added DEF RunsOne
<1>6. /\ heard' \in [1 .. MaxRuns -> Nat]
      /\ \A n \in 1 .. MaxRuns : n # Len(runs) + 1 => heard'[n] = heard[n]
      /\ heard'[Len(runs) + 1] = IF shown THEN 1 ELSE 0
  <2>1. Len(runs) + 1 \in 1 .. MaxRuns /\ heard[Len(runs) + 1] = 0
    BY <1>4, <1>5
  <2>2. heard' = [heard EXCEPT ![Len(runs) + 1] = IF shown THEN @ + 1 ELSE @]
    BY <1>1 DEF RunsOne
  <2> QED
    BY <1>4, <2>1, <2>2
<1>7. \A o \in Runners : runner'[o] = IF o = r THEN q ELSE runner[o]
  BY <1>1 DEF RunsOne
<1>8. q.run = Len(runs) + 1 /\ (shown => q.told)
  BY <1>1 DEF RunsOne
<1>9. Typed'
  <2>1. \A o \in Runners : runner'[o] = runner[o]
                             \/ RunnerTyped(runner'[o], o, runs', now', job)
    BY <1>1, <1>2 DEF RunsOne
  <2>2. ASSUME NEW o \in Runners, NEW u \in Runners, o # u, Doing(runner'[o]), Doing(runner'[u])
        PROVE  runner'[o].run # runner'[u].run
    <3>1. \A v \in Runners : Doing(runner[v]) => runner[v].run \in 1 .. Len(runs)
      BY <1>3 DEF Typed, RunnerTyped
    <3>2. CASE o # r /\ u # r
      BY <1>3, <1>7, <2>2, <3>2 DEF Typed
    <3>3. CASE o = r \/ u = r
      BY <1>5, <1>7, <1>8, <2>2, <3>1, <3>3
    <3> QED
      BY <3>2, <3>3
  <2>3. \A n \in 1 .. MaxRuns : n > Len(runs') => heard'[n] = 0
    <3>1. ASSUME NEW n \in 1 .. MaxRuns, n > Len(runs')
          PROVE  n > Len(runs) /\ n # Len(runs) + 1
      BY <1>4, <1>5, <3>1
    <3> QED
      BY <1>4, <1>6, <3>1
  <2>4. Len(runs') <= MaxRuns
    BY <1>4, <1>5
  <2> QED
    BY <1>2, <1>3, <1>4, <1>5, <1>6, <2>1, <2>2, <2>3, <2>4, TypedKept
<1>10. \A n \in DOMAIN runs' : n \in DOMAIN runs \/ n = Len(runs) + 1
  <2>1. Len(runs) \in Nat /\ DOMAIN runs = 1 .. Len(runs) /\ DOMAIN runs' = 1 .. Len(runs) + 1
    BY <1>5
  <2> QED
    BY <2>1
<1>11. \A n \in DOMAIN runs : runs'[n] = runs[n] /\ (Fired(n)' <=> Fired(n))
  BY <1>1, <1>3, RanMade DEF RunsOne
<1>12. RunsOnce'
  <2>1. ASSUME NEW m \in DOMAIN runs', NEW n \in DOMAIN runs',
               m < n, runs'[m].id = runs'[n].id, runs'[m].due = runs'[n].due,
               Fired(m)', Fired(n)'
        PROVE  runs'[n].id \in overwritten'
    <3>1. m \in DOMAIN runs
      BY <1>5, <1>10, <2>1
    <3>2. CASE n \in DOMAIN runs
      <4>1. runs[n].id \in overwritten
        BY <1>11, <2>1, <3>1, <3>2 DEF JInv, RunsOnce
      <4> QED
        BY <1>2, <1>11, <3>2, <4>1
    <3>3. CASE n = Len(runs) + 1
      <4> DEFINE id == runner[r].id
                 least == Min(runner[r].left)
      <4>1. runs'[n] = made
        BY <1>5, <3>3
      <4>2. made.id = id /\ made.due = least /\ ~runner[r].onDemand /\ runner[r].left # {}
        BY <1>1, <2>1, <4>1 DEF RunsOne, Fired
      <4>3. RunnerTyped(runner[r], r, runs, now, job)
        BY <1>3 DEF Typed
      <4>4. id \in Ids /\ least \in runner[r].left
        BY <1>4, <4>2, <4>3, LeastTime DEF RunnerTyped
      <4>5. least \in ToRun(id)
        BY <4>2, <4>4 DEF ToRun
      <4>6. least \in Ran(id)
        BY <1>11, <2>1, <3>1, <4>1, <4>2 DEF Ran
      <4>7. id \notin overwritten => OnceOK(id)
        BY <4>4 DEF JInv
      <4>8. id \in overwritten
        BY <4>5, <4>6, <4>7 DEF OnceOK
      <4> QED
        BY <1>2, <4>1, <4>2, <4>8
    <3> QED
      BY <1>10, <3>2, <3>3
  <2> QED
    BY <2>1 DEF RunsOnce
<1>13. ToldOnce'
  <2>1. ASSUME NEW n \in DOMAIN runs', heard'[n] > 1
        PROVE  faults' > 0 \/ runs'[n].id \in overwritten'
    <3>1. n \in DOMAIN runs
      BY <1>6, <1>10, <2>1
    <3>2. heard'[n] = heard[n]
      BY <1>4, <1>5, <1>6, <3>1
    <3> QED
      BY <1>2, <1>11, <2>1, <3>1, <3>2 DEF JInv, ToldOnce
  <2> QED
    BY <2>1 DEF ToldOnce
<1>14. ASSUME NEW id \in Ids, id \notin overwritten'
       PROVE  OnceOK(id)' /\ ToldOK(id)'
  <2>1. OnceOK(id) /\ ToldOK(id)
    BY <1>2, <1>14 DEF JInv
  <2>2. OnceOK(id)'
    BY <1>1, <1>2, <2>1, ExecuteRunsOnce
  <2>3. /\ store[id].last \in 0 .. Len(runs)
        /\ \A i \in telling.items : i.run \in 1 .. Len(runs)
    BY <1>3 DEF Typed, RowTyped, TellTyped
  <2>4. \A n \in 1 .. Len(runs) : heard'[n] = heard[n]
    BY <1>4, <1>5, <1>6
  <2>5. ASSUME NEW o \in Runners
        PROVE  UnderWayOK(id, runner[o])'
    <3>1. CASE o # r
      <4>1. runner'[o] = runner[o] /\ UnderWayOK(id, runner[o])
        BY <1>7, <2>1, <3>1 DEF ToldOK
      <4>2. Doing(runner[o]) => runner[o].run \in 1 .. Len(runs)
        BY <1>3 DEF Typed, RunnerTyped
      <4> QED
        BY <1>2, <2>4, <4>1, <4>2 DEF UnderWayOK, Untold
    <3>2. CASE o = r
      <4>1. runner'[o] = q
        BY <1>7, <3>2
      <4> QED
        BY <1>2, <1>5, <1>6, <1>8, <2>3, <4>1 DEF UnderWayOK
    <3> QED
      BY <3>1, <3>2
  <2>6. ToldOK(id)'
    BY <1>2, <1>3, <1>5, <2>1, <2>4, <2>5, MarksKept
  <2> QED
    BY <2>2, <2>6
<1> QED
  BY <1>3, <1>9, <1>12, <1>13, <1>14 DEF JInv

\* What keeping a run does: the row that was read gets the run and its mark.
KeepsRun(r, q, to) ==
  /\ Doing(runner[r]) /\ RowTyped(to, runner[r].id, runs)
  /\ store' = [store EXCEPT ![runner[r].id] = to]
  /\ overwritten' = IF store[runner[r].id] = runner[r].row
                    THEN overwritten ELSE overwritten \union {runner[r].id}
  /\ to.next = runner[r].row.next /\ to.status \in {runner[r].row.status, "failed"}
  /\ to.last = runner[r].run /\ to.told = runner[r].told
  /\ RunnerTyped(q, r, runs, now, job) /\ ~Doing(q) /\ NoMoreLeft(runner[r], q)
  /\ \A o \in Runners : runner'[o] = IF o = r THEN q ELSE runner[o]

LEMMA KeepMakes ==
  ASSUME JInv, NEW r \in Runners, KeepWrites(r)
  PROVE  /\ \E q, to : KeepsRun(r, q, to)
         /\ UNCHANGED <<job, now, runs, edit, telling, heard, faults>>
<1> DEFINE was == runner[r]
           failed == /\ ~was.onDemand
                     /\ runs[was.run].outcome = "failed"
                     /\ job[was.id].kind = "once"
                     /\ was.row.status = "completed"
           status == IF failed THEN "failed" ELSE was.row.status
           to1 == [was.row EXCEPT !.status = status]
           to2 == [to1 EXCEPT !.last = was.run]
           to == [was.row EXCEPT !.status = status, !.last = was.run, !.told = was.told]
           p == [was EXCEPT !.row = Absent]
<1>1. /\ UNCHANGED <<job, now, runs, edit, telling, heard, faults>>
      /\ was.phase = "kept"
      /\ saveSchedule(was.id, was.row, to)
      /\ runner' = [runner EXCEPT ![r] = Onward(p)]
  BY DEF KeepWrites
<1>2. /\ IInv /\ DOMAIN runner = Runners /\ now \in Nat
      /\ RunnerTyped(was, r, runs, now, job)
  BY DEF JInv, IInv, Typed
<1>3. Doing(was)
  BY <1>1 DEF Doing
<1>4. /\ DOMAIN was = DOMAIN Idle /\ was.onDemand \in BOOLEAN
      /\ was.at \in Nat /\ was.at <= now /\ was.left \subseteq 0 .. now
      /\ \A d \in was.todo : DueTyped(d, r, was.at, runs, job)
      /\ (was.left # {} /\ ~was.onDemand => was.id \in Ids /\ job[was.id].runOn = r)
  BY <1>2 DEF RunnerTyped
<1>5. /\ was.run \in 1 .. Len(runs) /\ runs[was.run].id = was.id /\ was.told \in BOOLEAN
      /\ RowTyped(was.row, was.id, runs)
  BY <1>1, <1>2, <1>3 DEF RunnerTyped
<1>6. to = [to2 EXCEPT !.told = was.told]
  BY Zenon
<1>7. status \in {was.row.status, "failed"}
  OBVIOUS
<1>8. /\ store' = [store EXCEPT ![was.id] = to]
      /\ overwritten' = IF store[was.id] = was.row THEN overwritten
                                                   ELSE overwritten \union {was.id}
  BY <1>1 DEF saveSchedule
<1> HIDE DEF was, status
<1>9. DOMAIN was.row = DOMAIN Absent
  BY <1>5 DEF RowTyped
<1>10. DOMAIN to1 = DOMAIN Absent /\ to1.status = status /\ to1.next = was.row.next
  BY <1>9 DEF Absent
<1> HIDE DEF to1
<1>11. /\ DOMAIN to2 = DOMAIN Absent /\ to2.status = status /\ to2.next = was.row.next
       /\ to2.last = was.run
  BY <1>10 DEF Absent
<1> HIDE DEF to2, to
<1>12. /\ DOMAIN to = DOMAIN Absent /\ to.status = status /\ to.next = was.row.next
       /\ to.last = was.run /\ to.told = was.told
  BY <1>6, <1>11 DEF Absent
<1>13. RowTyped(to, was.id, runs)
  <2>1. to.last \in 0 .. Len(runs)
    BY <1>5, <1>12
  <2> QED
    BY <1>5, <1>12, <2>1 DEF RowTyped
<1>14. /\ DOMAIN p = DOMAIN Idle /\ p.todo = was.todo /\ p.at = was.at /\ p.id = was.id
       /\ p.onDemand = was.onDemand /\ p.left = was.left
  BY <1>4 DEF Idle
<1> HIDE DEF p
<1>15. Follows(Onward(p), p)
  BY <1>4, <1>14, OnwardFollows
<1>16. RunnerTyped(Onward(p), r, runs, now, job) /\ ~Doing(Onward(p))
  <2>1. \A d \in p.todo : DueTyped(d, r, p.at, runs, job)
    BY <1>4, <1>14
  <2>2. p.at \in Nat /\ p.at <= now /\ p.left \subseteq 0 .. now
    BY <1>4, <1>14
  <2>3. ~p.onDemand /\ p.left # {} => p.id \in Ids /\ job[p.id].runOn = r
    BY <1>4, <1>14
  <2> QED
    BY <1>2, <1>15, <2>1, <2>2, <2>3, FollowsTyped
<1>17. NoMoreLeft(was, Onward(p))
  BY <1>14, <1>15 DEF Follows, NoMoreLeft
<1>18. \A o \in Runners : runner'[o] = IF o = r THEN Onward(p) ELSE runner[o]
  BY <1>1, <1>2, RunnerSet
<1>19. KeepsRun(r, Onward(p), to)
  BY <1>3, <1>7, <1>8, <1>12, <1>13, <1>16, <1>17, <1>18 DEF KeepsRun, was
<1> QED
  BY <1>1, <1>19

\* A run that is kept is a later one than what waits, or is told already.
LEMMA KeepKeepsTold ==
  ASSUME JInv, NEW r \in Runners, NEW q, NEW to, KeepsRun(r, q, to),
         UNCHANGED <<job, now, runs, edit, telling, heard, faults>>,
         NEW id \in Ids, id \notin overwritten'
  PROVE  ToldOK(id)'
<1>1. IInv /\ Typed /\ DOMAIN store = Ids /\ Len(runs) \in Nat
  BY SameRuns DEF JInv, IInv
<1>2. id \notin overwritten /\ ToldOK(id)
  BY DEF KeepsRun, JInv
<1> DEFINE was == runner[r]
<1>3. \A o \in Runners : o # r => runner'[o] = runner[o]
  BY DEF KeepsRun
<1>4. ~Doing(runner'[r])
  BY DEF KeepsRun
<1>5. \A o \in Runners : UnderWayOK(id, runner[o])
  BY <1>2 DEF ToldOK
<1>6. store' = [store EXCEPT ![was.id] = to]
  BY DEF KeepsRun
<1>7. CASE id # was.id
  <2>1. store'[id] = store[id]
    BY <1>1, <1>6, <1>7
  <2>2. ASSUME NEW o \in Runners
        PROVE  UnderWayOK(id, runner[o])'
    <3>1. CASE o = r
      BY <1>4, <3>1 DEF UnderWayOK
    <3>2. CASE o # r
      BY <1>3, <1>5, <2>1, <3>2 DEF UnderWayOK
    <3> QED
      BY <3>1, <3>2
  <2>3. Longer(runs, runs')
    BY <1>1, SameRuns
  <2> QED
    BY <1>1, <1>2, <2>1, <2>2, <2>3, MarksKept
<1>8. CASE id = was.id
  <2>1. /\ store'[id] = to /\ to.last = was.run /\ to.told = was.told
        /\ Doing(was)
    BY <1>1, <1>6, <1>8 DEF KeepsRun
  <2>2. /\ was.told \in BOOLEAN /\ (was.onDemand => was.told)
        /\ (~was.onDemand => job[id].runOn = r)
    BY <1>1, <1>8, <2>1 DEF Typed, RunnerTyped
  <2>3. UnderWayOK(id, was)
    BY <1>5
  <2>4. ASSUME NEW o \in Runners
        PROVE  UnderWayOK(id, runner[o])'
    <3>1. CASE o = r
      BY <1>4, <3>1 DEF UnderWayOK
    <3>2. CASE o # r
      <4> SUFFICES ASSUME runner[o].id = id, Doing(runner[o])
                   PROVE  UnderWayOK(id, runner[o])'
        BY <1>3, <3>2 DEF UnderWayOK
      <4>1. was.run # runner[o].run
        BY <1>1, <2>1, <3>2 DEF Typed
      <4>2. ~runner[o].onDemand => ~Untold(store'[id])
        <5>1. ~runner[o].onDemand => job[id].runOn = o
          BY <1>1 DEF Typed, RunnerTyped
        <5> QED
          BY <2>1, <2>2, <3>2, <5>1 DEF Untold
      <4> QED
        BY <1>3, <1>5, <2>1, <3>2, <4>1, <4>2 DEF UnderWayOK
    <3> QED
      BY <3>1, <3>2
  <2>5. ASSUME NEW i \in telling'.items
        PROVE  ItemOK(id, i)'
    <3>1. ItemOK(id, i) /\ i.run \in 1 .. Len(runs)
      BY <1>1, <1>2 DEF ToldOK, Typed, TellTyped
    <3>2. i.id = id /\ Untold(store'[id]) => i.run <= was.run
      <4>1. was.run \in 1 .. Len(runs)
        BY <1>1, <2>1 DEF Typed, RunnerTyped
      <4> QED
        BY <1>8, <2>1, <2>2, <2>3, <3>1, <4>1 DEF UnderWayOK, Untold
    <3> QED
      BY <2>1, <3>1, <3>2 DEF ItemOK, Untold
  <2>6. MarkEarned(id)'
    BY <1>2 DEF ToldOK, MarkEarned
  <2>7. MarkComes(id)'
    BY <1>8, <2>1, <2>3 DEF MarkComes, UnderWayOK
  <2> QED
    BY <2>4, <2>5, <2>6, <2>7 DEF ToldOK
<1> QED
  BY <1>7, <1>8

LEMMA KeepKeepsAll ==
  ASSUME JInv, NEW r \in Runners, KeepWrites(r), Next
  PROVE  JInv'
<1>1. PICK q, to : KeepsRun(r, q, to)
  BY KeepMakes
<1>2. UNCHANGED <<job, now, runs, edit, telling, heard, faults>>
  BY KeepMakes
<1>3. IInv' /\ IInv /\ Typed
  BY NextKeeps DEF JInv
<1>4. /\ now \in Nat /\ faults \in Nat /\ DOMAIN store = Ids /\ Longer(runs, runs')
      /\ heard \in [1 .. MaxRuns -> Nat] /\ Len(runs) <= MaxRuns
      /\ \A n \in 1 .. MaxRuns : n > Len(runs) => heard[n] = 0
  BY <1>2, <1>3, SameRuns DEF IInv, Typed
<1> DEFINE was == runner[r]
<1>5. /\ was.id \in Ids /\ RowTyped(to, was.id, runs')
      /\ store' = [store EXCEPT ![was.id] = to]
  BY <1>1, <1>2, <1>3 DEF KeepsRun, Typed, RunnerTyped
<1>6. \A o \in Runners : runner'[o] = IF o = r THEN q ELSE runner[o]
  BY <1>1 DEF KeepsRun
<1>7. ~Doing(q) /\ RunnerTyped(q, r, runs', now', job) /\ NoMoreLeft(runner[r], q)
  BY <1>1, <1>2 DEF KeepsRun
<1>8. Typed'
  <2>1. \A i \in Ids : store'[i] = store[i] \/ RowTyped(store'[i], i, runs')
    BY <1>4, <1>5
  <2>2. \A o \in Runners : runner'[o] = runner[o]
                             \/ RunnerTyped(runner'[o], o, runs', now', job)
    BY <1>6, <1>7
  <2>3. ASSUME NEW o \in Runners, NEW u \in Runners, o # u, Doing(runner'[o]), Doing(runner'[u])
        PROVE  runner'[o].run # runner'[u].run
    BY <1>3, <1>6, <1>7, <2>3 DEF Typed
  <2> QED
    BY <1>2, <1>3, <1>4, <2>1, <2>2, <2>3, TypedKept
<1>9. RunsOnce' /\ ToldOnce'
  <2>1. overwritten \subseteq overwritten'
    BY <1>1 DEF KeepsRun
  <2> QED
    BY <1>2, <2>1 DEF JInv, RunsOnce, ToldOnce, Fired
<1>10. ASSUME NEW id \in Ids, id \notin overwritten'
       PROVE  OnceOK(id)' /\ ToldOK(id)'
  <2>1. id \notin overwritten /\ OnceOK(id)
    BY <1>1, <1>10 DEF KeepsRun, JInv
  <2>2. \A o \in Runners : NoMoreLeft(runner[o], runner'[o])
    BY <1>6, <1>7 DEF NoMoreLeft
  <2>3. Ran(id)' = Ran(id) /\ ToRun(id)' \subseteq ToRun(id)
    BY <1>2, <2>2, DuesShrink
  <2>4. Dues(id)' \subseteq Dues(id) /\ Ran(id)' \intersect ToRun(id)' = {}
    BY <2>1, <2>3 DEF Dues, OnceOK
  <2>5. /\ store'[id].next = store[id].next
        /\ store'[id].status \in {store[id].status, "failed"}
    <3>1. CASE id # was.id
      BY <1>4, <1>5, <3>1
    <3>2. CASE id = was.id
      <4>1. was.row = store[id]
        BY <1>1, <1>10, <3>2 DEF KeepsRun
      <4>2. store'[id] = to
        BY <1>4, <1>5, <3>2
      <4> QED
        BY <1>1, <4>1, <4>2 DEF KeepsRun
    <3> QED
      BY <3>1, <3>2
  <2>6. OnceOK(id)'
    BY <1>2, <1>4, <2>1, <2>4, <2>5, OnceKept
  <2>7. ToldOK(id)'
    BY <1>1, <1>2, <1>10, KeepKeepsTold
  <2> QED
    BY <2>6, <2>7
<1> QED
  BY <1>3, <1>8, <1>9, <1>10 DEF JInv

-----------------------------------------------------------------------------
(* Edits, and telling.                                                       *)

LEMMA SameDues ==
  ASSUME NEW id, UNCHANGED <<runs, runner>>
  PROVE  Dues(id)' = Dues(id) /\ Ran(id)' = Ran(id) /\ ToRun(id)' = ToRun(id)
BY DEF Dues, Ran, ToRun, Fired

\* An edit begins with the rows as they are.
EditBegins(ids) ==
  /\ edit = NoEdit /\ edit'.ids = ids /\ ids \subseteq Ids
  /\ \A id \in ids :
       /\ edit'.from[id] = store[id]
       /\ RowTyped(edit'.to[id], id, runs) /\ edit'.to[id].last = store[id].last
       /\ \/ edit'.to[id].next \in {store[id].next, NoTime}
          \/ store[id].status \in {"absent", "paused"} /\ now < edit'.to[id].next
       /\ \/ edit'.to[id].told = store[id].told
          \/ /\ Untold(store[id]) /\ edit'.to[id].told
             /\ telling.phase = "told" /\ \E i \in telling.items : i.id = id

LEMMA BeginsKeepsAll ==
  ASSUME JInv, Next, NEW ids, EditBegins(ids),
         UNCHANGED <<job, now, store, runs, runner, heard, overwritten, faults>>,
         \/ telling' = telling
         \/ /\ telling' = Silent /\ telling.phase = "told"
            /\ \A i \in telling.items :
                 Untold(store[i.id]) => i.id \in ids /\ edit'.to[i.id].told
  PROVE  JInv'
<1>1. IInv' /\ IInv /\ Typed
  BY NextKeeps DEF JInv
<1>2. /\ now \in Nat /\ faults \in Nat /\ Longer(runs, runs') /\ Len(runs) \in Nat
      /\ heard \in [1 .. MaxRuns -> Nat] /\ Len(runs) <= MaxRuns
      /\ \A n \in 1 .. MaxRuns : n > Len(runs) => heard[n] = 0
      /\ \A id \in Ids : RowTyped(store[id], id, runs)
  BY <1>1, SameRuns DEF Typed
<1>3. EditTyped(edit', runs')
  BY <1>2 DEF EditBegins, EditTyped, Untold
<1>4. telling' = telling \/ TellTyped(telling', runs')
  BY DEF TellTyped, Silent
<1>5. Typed'
  <2>1. \A r, q \in Runners :
          r # q /\ Doing(runner'[r]) /\ Doing(runner'[q]) => runner'[r].run # runner'[q].run
    BY <1>1 DEF Typed
  <2> QED
    BY <1>1, <1>2, <1>3, <1>4, <2>1, TypedKept
<1>6. RunsOnce' /\ ToldOnce'
  BY DEF JInv, RunsOnce, ToldOnce, Fired
<1>7. ASSUME NEW id \in Ids, id \notin overwritten'
      PROVE  OnceOK(id)' /\ ToldOK(id)'
  <2>1. OnceOK(id) /\ ToldOK(id)
    BY <1>7 DEF JInv
  <2>2. OnceOK(id)'
    <3>1. Dues(id)' = Dues(id) /\ Ran(id)' = Ran(id) /\ ToRun(id)' = ToRun(id)
      BY SameDues
    <3>2. ASSUME id \in edit'.ids, edit'.to[id].next \notin {store[id].next, NoTime}
          PROVE  Ahead(Dues(id), edit'.to[id].next)
      <4>1. now < edit'.to[id].next /\ edit'.to[id].next \in Nat
        BY <3>2 DEF EditBegins, RowTyped
      <4> QED
        BY <1>2, <2>1, <4>1 DEF OnceOK, Ahead
    <3>3. id \in edit'.ids =>
            \/ edit'.to[id].next \in {edit'.from[id].next, NoTime}
            \/ /\ edit'.from[id].status \in {"absent", "paused"}
               /\ store'[id].status = edit'.from[id].status
                    => Ahead(Dues(id)', edit'.to[id].next)
      BY <3>1, <3>2 DEF EditBegins
    <3> QED
      BY <2>1, <3>1, <3>3 DEF OnceOK
  <2>3. telling' = telling \/ telling'.items = {}
    BY DEF Silent
  <2>4. \A r \in Runners : UnderWayOK(id, runner[r])'
    BY <2>1, <2>3 DEF ToldOK, UnderWayOK
  <2>5. \A i \in telling'.items : ItemOK(id, i)'
    BY <2>1, <2>3 DEF ToldOK, ItemOK
  <2>6. MarkEarned(id)'
    <3>1. ASSUME id \in edit'.ids, edit'.to[id].told # edit'.from[id].told
          PROVE  \E m \in 1 .. edit'.from[id].last : runs[m].id = id /\ heard[m] > 0
      <4>1. edit'.from[id] = store[id] /\ Untold(store[id]) /\ telling.phase = "told"
        BY <3>1 DEF EditBegins
      <4>2. PICK i \in telling.items : i.id = id
        BY <3>1 DEF EditBegins
      <4>3. i.run <= store[id].last /\ heard[i.run] > 0
        BY <2>1, <4>1, <4>2 DEF ToldOK, ItemOK
      <4>4. i.run \in 1 .. Len(runs) /\ runs[i.run].id = id
        BY <1>1, <4>2 DEF Typed, TellTyped
      <4>5. i.run \in 1 .. store[id].last
        BY <1>2, <4>3, <4>4 DEF RowTyped
      <4> QED
        BY <4>1, <4>3, <4>4, <4>5
    <3> QED
      BY <3>1 DEF MarkEarned
  <2>7. faults' = 0 => MarkComes(id)'
    <3> SUFFICES ASSUME faults = 0, store[id].last # NoRun, heard[store[id].last] > 0,
                        ~store[id].told
                 PROVE  \/ telling'.phase = "told" /\ \E i \in telling'.items : i.id = id
                        \/ id \in edit'.ids /\ edit'.to[id].told
      BY DEF MarkComes
    <3>1. id \notin edit.ids
      BY DEF EditBegins, NoEdit
    <3>2. telling.phase = "told" /\ \E i \in telling.items : i.id = id
      BY <2>1, <3>1 DEF ToldOK, MarkComes
    <3> QED
      BY <3>2 DEF Untold, EditBegins
  <2> QED
    BY <2>2, <2>4, <2>5, <2>6, <2>7 DEF ToldOK
<1> QED
  BY <1>1, <1>5, <1>6, <1>7 DEF JInv

\* What a change may make of a row: it has its last run still.
Revised(to, row, id, next, told) ==
  RowTyped(to, id, runs) /\ to.next = next /\ to.last = row.last /\ to.told = told

LEMMA RowFields ==
  ASSUME NEW row, NEW id, RowTyped(row, id, runs), NEW status, NEW next \in Nat
  PROVE  /\ Revised([row EXCEPT !.status = status, !.next = next], row, id, next, row.told)
         /\ Revised([row EXCEPT !.status = status], row, id, row.next, row.told)
         /\ Revised([row EXCEPT !.told = TRUE], row, id, row.next, TRUE)
<1> DEFINE a == [row EXCEPT !.status = status]
           b == [a EXCEPT !.next = next]
           c == [row EXCEPT !.told = TRUE]
<1>1. [row EXCEPT !.status = status, !.next = next] = b
  BY Zenon
<1>2. DOMAIN row = DOMAIN Absent
  BY DEF RowTyped
<1>3. DOMAIN a = DOMAIN Absent /\ a.next = row.next /\ a.last = row.last /\ a.told = row.told
  BY <1>2 DEF Absent
<1>4. DOMAIN c = DOMAIN Absent /\ c.next = row.next /\ c.last = row.last /\ c.told = TRUE
  BY <1>2 DEF Absent
<1> HIDE DEF a, c
<1>5. DOMAIN b = DOMAIN Absent /\ b.next = next /\ b.last = row.last /\ b.told = row.told
  BY <1>3 DEF Absent
<1> HIDE DEF b
<1>6. c.told \in BOOLEAN
  BY <1>4, Zenon
<1>7. RowTyped(a, id, runs) /\ RowTyped(b, id, runs) /\ RowTyped(c, id, runs)
  BY <1>3, <1>4, <1>5, <1>6 DEF RowTyped
<1>8. /\ Revised(b, row, id, next, row.told) /\ Revised(a, row, id, row.next, row.told)
      /\ Revised(c, row, id, row.next, TRUE)
  BY <1>3, <1>4, <1>5, <1>7 DEF Revised
<1> QED
  BY <1>1, <1>8 DEF a, c

LEMMA ChangeKeepsAll ==
  ASSUME JInv, NEW kind \in DOMAIN From, NEW id \in Ids, Change(kind, id), Next
  PROVE  JInv'
<1> DEFINE e == [ids |-> {id}, from |-> Restrict(store, {id}),
                 to |-> [i \in {id} |-> Changed(kind, i)]]
<1>1. /\ edit = NoEdit /\ edit' = e /\ ~Refused(kind, id)
      /\ UNCHANGED <<job, now, store, runs, runner, telling, heard, overwritten, faults>>
  BY DEF Change
<1>2. DOMAIN store = Ids /\ RowTyped(store[id], id, runs) /\ now \in Nat /\ job \in Jobs
  BY DEF JInv, IInv, Typed
<1>3. e.ids = {id} /\ e.from[id] = store[id] /\ e.to[id] = Changed(kind, id)
  BY <1>2 DEF Restrict
<1> HIDE DEF e
<1> DEFINE row == store[id]
           next == nextFiring(job[id].firings, now)
<1>4. next \in Nat /\ (next # NoTime => now < next)
  BY <1>2, NextIsLater, FiringsAreTimes
<1>5. /\ store[id].status \in From[kind]
      /\ kind \in {"create", "resume"} => next # NoTime
  BY <1>1 DEF Refused
<1>6. kind \in {"create", "resume", "pause", "cancel"}
  BY DEF From
<1>7. \/ /\ kind \in {"create", "resume"}
         /\ Changed(kind, id) = [row EXCEPT !.status = "active", !.next = next]
      \/ Changed(kind, id) = [row EXCEPT !.status = "paused"]
      \/ Changed(kind, id) = [row EXCEPT !.status = "cancelled", !.next = NoTime]
  BY <1>6, Zenon DEF Changed
<1>8. kind \in {"create", "resume"} => row.status \in {"absent", "paused"}
  BY <1>5 DEF From
<1> DEFINE to == Changed(kind, id)
<1>9. NoTime \in Nat
  BY DEF NoTime
<1> HIDE DEF next, row
<1>10. /\ RowTyped(to, id, runs) /\ to.last = row.last /\ to.told = row.told
       /\ \/ to.next \in {row.next, NoTime}
          \/ kind \in {"create", "resume"} /\ to.next = next
  <2>0. RowTyped(row, id, runs)
    BY <1>2 DEF row
  <2> HIDE DEF to
  <2>1. CASE /\ kind \in {"create", "resume"}
             /\ to = [row EXCEPT !.status = "active", !.next = next]
    <3>1. Revised([row EXCEPT !.status = "active", !.next = next], row, id, next, row.told)
      BY <1>4, <2>0, RowFields
    <3> QED
      BY <2>1, <3>1 DEF Revised
  <2>2. CASE to = [row EXCEPT !.status = "paused"]
    <3>1. Revised([row EXCEPT !.status = "paused"], row, id, row.next, row.told)
      BY <1>4, <2>0, RowFields
    <3> QED
      BY <2>2, <3>1 DEF Revised
  <2>3. CASE to = [row EXCEPT !.status = "cancelled", !.next = NoTime]
    <3>1. Revised([row EXCEPT !.status = "cancelled", !.next = NoTime], row, id, NoTime,
                  row.told)
      BY <1>9, <2>0, RowFields
    <3> QED
      BY <2>3, <3>1 DEF Revised
  <2> QED
    BY <1>7, <2>1, <2>2, <2>3 DEF to
<1> HIDE DEF to
<1>11. \/ to.next \in {store[id].next, NoTime}
       \/ store[id].status \in {"absent", "paused"} /\ now < to.next
  BY <1>4, <1>5, <1>8, <1>10 DEF row
<1>12. EditBegins({id})
  BY <1>1, <1>3, <1>10, <1>11 DEF EditBegins, to, row
<1> QED
  BY <1>1, <1>12, BeginsKeepsAll

LEMMA MarkDeliveredKeepsAll ==
  ASSUME JInv, MarkDelivered, Next
  PROVE  JInv'
<1> DEFINE ids == {id \in {i.id : i \in telling.items} : Untold(store[id])}
           e == [ids |-> ids, from |-> Restrict(store, ids),
                 to |-> [id \in ids |-> MarkedTold(store[id])]]
<1>1. /\ edit = NoEdit /\ edit' = e /\ telling' = Silent /\ telling.phase = "told"
      /\ UNCHANGED <<job, now, store, runs, runner, heard, overwritten, faults>>
  BY DEF MarkDelivered
<1>2. DOMAIN store = Ids /\ \A id \in Ids : RowTyped(store[id], id, runs)
  BY DEF JInv, IInv, Typed
<1>3. /\ ids \subseteq Ids
      /\ \A id \in ids : Untold(store[id]) /\ \E i \in telling.items : i.id = id
  BY DEF JInv, IInv, TellingOK
<1>4. \A i \in telling.items : Untold(store[i.id]) => i.id \in ids
  OBVIOUS
<1> HIDE DEF ids
<1>5. /\ e.ids = ids
      /\ \A id \in ids : e.from[id] = store[id] /\ e.to[id] = MarkedTold(store[id])
  BY <1>2, <1>3 DEF Restrict
<1> HIDE DEF e
<1>6. ASSUME NEW id \in ids
      PROVE  /\ RowTyped(MarkedTold(store[id]), id, runs)
             /\ MarkedTold(store[id]).last = store[id].last
             /\ MarkedTold(store[id]).next = store[id].next
             /\ MarkedTold(store[id]).told
  <2> DEFINE row == store[id]
  <2>1. MarkedTold(row) = [row EXCEPT !.told = TRUE]
    BY <1>3 DEF MarkedTold, Untold
  <2>2. RowTyped(row, id, runs)
    BY <1>2, <1>3
  <2> HIDE DEF row
  <2>3. Revised([row EXCEPT !.told = TRUE], row, id, row.next, TRUE)
    <3>1. 0 \in Nat
      OBVIOUS
    <3> QED
      BY <2>2, <3>1, RowFields
  <2> QED
    BY <2>1, <2>3 DEF row, Revised
<1>7. EditBegins(ids)
  BY <1>1, <1>3, <1>5, <1>6 DEF EditBegins
<1>8. \A i \in telling.items : Untold(store[i.id]) => i.id \in ids /\ edit'.to[i.id].told
  BY <1>1, <1>4, <1>5, <1>6
<1> QED
  BY <1>1, <1>7, <1>8, BeginsKeepsAll

\* What a write of an edit does: one row is what the edit made of it, and is no
\* more to be written.
WritesRow(i) ==
  /\ i \in edit.ids
  /\ store' = [store EXCEPT ![i] = edit.to[i]]
  /\ overwritten' = IF store[i] = edit.from[i] THEN overwritten
                                               ELSE overwritten \union {i}
  /\ edit'.ids = edit.ids \ {i}
  /\ edit'.ids # {} => edit'.from = edit.from /\ edit'.to = edit.to

LEMMA EditWritesMakes ==
  ASSUME JInv, EditWrites
  PROVE  /\ \E i : WritesRow(i)
         /\ UNCHANGED <<job, now, runs, runner, telling, heard, faults>>
<1>1. PICK i \in edit.ids :
        /\ saveSchedule(i, edit.from[i], edit.to[i])
        /\ edit' = IF edit.ids = {i} THEN NoEdit ELSE [edit EXCEPT !.ids = @ \ {i}]
  BY DEF EditWrites
<1>2. /\ edit'.ids = edit.ids \ {i}
      /\ edit'.ids # {} => edit'.from = edit.from /\ edit'.to = edit.to
  <2>1. CASE edit.ids = {i}
    BY <1>1, <2>1 DEF NoEdit
  <2>2. CASE edit.ids # {i}
    <3>1. edit' = [edit EXCEPT !.ids = @ \ {i}]
      BY <1>1, <2>2
    <3>2. edit'.from = edit.from /\ edit'.to = edit.to
      BY <3>1
    <3>3. edit'.ids = edit.ids \ {i}
      BY <3>1 DEF JInv, IInv
    <3> QED
      BY <3>2, <3>3
  <2> QED
    BY <2>1, <2>2
<1>3. WritesRow(i)
  BY <1>1, <1>2 DEF WritesRow, saveSchedule
<1> QED
  BY <1>3 DEF EditWrites

LEMMA EditWritesKeepsAll ==
  ASSUME JInv, EditWrites, Next
  PROVE  JInv'
<1>1. PICK i : WritesRow(i)
  BY EditWritesMakes
<1>2. UNCHANGED <<job, now, runs, runner, telling, heard, faults>>
  BY EditWritesMakes
<1>3. IInv' /\ IInv /\ Typed
  BY NextKeeps DEF JInv
<1>4. /\ now \in Nat /\ faults \in Nat /\ DOMAIN store = Ids /\ Longer(runs, runs')
      /\ heard \in [1 .. MaxRuns -> Nat] /\ Len(runs) <= MaxRuns
      /\ \A n \in 1 .. MaxRuns : n > Len(runs) => heard[n] = 0
  BY <1>2, <1>3, SameRuns DEF IInv, Typed
<1>5. /\ edit'.ids \subseteq edit.ids /\ i \notin edit'.ids /\ i \in edit.ids
      /\ \A id \in edit'.ids : edit'.from[id] = edit.from[id] /\ edit'.to[id] = edit.to[id]
      /\ \A id \in edit.ids : id # i => id \in edit'.ids
  BY <1>1 DEF WritesRow
<1>6. EditTyped(edit, runs) /\ i \in Ids
  BY <1>1, <1>3 DEF Typed, EditTyped, WritesRow
<1>7. \A id \in Ids : store'[id] = IF id = i THEN edit.to[i] ELSE store[id]
  BY <1>1, <1>4 DEF WritesRow
<1>8. Typed'
  <2>1. EditTyped(edit', runs')
    BY <1>2, <1>5, <1>6 DEF EditTyped
  <2>2. \A id \in Ids : store'[id] = store[id] \/ RowTyped(store'[id], id, runs')
    <3>1. RowTyped(edit.to[i], i, runs)
      BY <1>5, <1>6 DEF EditTyped
    <3> QED
      BY <1>2, <1>7, <3>1
  <2>3. \A r, q \in Runners :
          r # q /\ Doing(runner'[r]) /\ Doing(runner'[q]) => runner'[r].run # runner'[q].run
    BY <1>2, <1>3 DEF Typed
  <2> QED
    BY <1>2, <1>3, <1>4, <2>1, <2>2, <2>3, TypedKept
<1>9. RunsOnce' /\ ToldOnce'
  <2>1. overwritten \subseteq overwritten'
    BY <1>1 DEF WritesRow
  <2> QED
    BY <1>2, <2>1 DEF JInv, RunsOnce, ToldOnce, Fired
<1>10. ASSUME NEW id \in Ids, id \notin overwritten'
       PROVE  OnceOK(id)' /\ ToldOK(id)'
  <2>1. OnceOK(id) /\ ToldOK(id)
    BY <1>1, <1>10 DEF WritesRow, JInv
  <2>2. id = i => edit.from[id] = store[id]
    BY <1>1, <1>10 DEF WritesRow
  <2>3. Dues(id)' = Dues(id) /\ Ran(id)' = Ran(id) /\ ToRun(id)' = ToRun(id)
    BY <1>2, SameDues
  <2>4. OnceOK(id)'
    <3>1. CASE id # i
      BY <1>2, <1>4, <1>5, <1>7, <2>1, <2>3, <3>1, OnceKept DEF OnceOK
    <3>2. CASE id = i
      <4>1. Ahead(Dues(id), edit.to[id].next)
        BY <1>5, <2>1, <2>2, <3>2 DEF OnceOK, Ahead
      <4> QED
        BY <1>2, <1>5, <1>7, <2>1, <2>3, <3>2, <4>1 DEF OnceOK
    <3> QED
      BY <3>1, <3>2
  <2>5. /\ store'[id].last = store[id].last
        /\ store[id].told => store'[id].told
        /\ id = i => store'[id].told = edit.to[id].told
    BY <1>5, <1>6, <1>7, <2>2 DEF EditTyped
  <2>6. \A r \in Runners : UnderWayOK(id, runner[r])'
    BY <1>2, <2>1, <2>5 DEF ToldOK, UnderWayOK, Untold
  <2>7. \A j \in telling'.items : ItemOK(id, j)'
    BY <1>2, <2>1, <2>5 DEF ToldOK, ItemOK, Untold
  <2>8. MarkEarned(id)'
    BY <1>2, <1>5, <2>1 DEF ToldOK, MarkEarned
  <2>9. faults' = 0 => MarkComes(id)'
    BY <1>2, <1>5, <2>1, <2>5 DEF ToldOK, MarkComes
  <2> QED
    BY <2>4, <2>6, <2>7, <2>8, <2>9 DEF ToldOK
<1> QED
  BY <1>3, <1>8, <1>9, <1>10 DEF JInv

\* What is told changes neither the table nor who is at work on it.
LEMMA TellsOnce ==
  ASSUME JInv, UNCHANGED <<store, runs, runner, edit, now, overwritten>>
  PROVE  /\ RunsOnce'
         /\ \A id \in Ids : id \notin overwritten' => OnceOK(id)'
<1>1. RunsOnce'
  BY DEF JInv, RunsOnce, Fired
<1>2. ASSUME NEW id \in Ids, id \notin overwritten'
      PROVE  OnceOK(id)'
  <2>1. OnceOK(id)
    BY <1>2 DEF JInv
  <2>2. Dues(id)' = Dues(id) /\ Ran(id)' = Ran(id) /\ ToRun(id)' = ToRun(id)
    BY SameDues
  <2> QED
    BY <2>1, <2>2 DEF OnceOK
<1> QED
  BY <1>1, <1>2

LEMMA TellsTyped ==
  ASSUME IInv, Typed, UNCHANGED <<job, now, store, runs, runner, edit, faults>>,
         heard' \in [1 .. MaxRuns -> Nat],
         \A n \in 1 .. MaxRuns : n > Len(runs) => heard'[n] = 0,
         telling' = telling \/ TellTyped(telling', runs)
  PROVE  Typed'
<1>1. /\ now \in Nat /\ faults \in Nat /\ Len(runs) <= MaxRuns /\ Longer(runs, runs')
  BY SameRuns DEF Typed
<1>2. \A r, q \in Runners :
        r # q /\ Doing(runner'[r]) /\ Doing(runner'[q]) => runner'[r].run # runner'[q].run
  BY DEF Typed
<1> QED
  BY <1>1, <1>2, TypedKept

\* What is found waits, and has not been told of.
LEMMA TellTickKeepsAll ==
  ASSUME JInv, TellTick \/ NotNow, Next
  PROVE  JInv'
<1>1. UNCHANGED <<job, now, store, runs, runner, edit, heard, overwritten, faults>>
  BY DEF TellTick, NotNow
<1>2. IInv' /\ IInv /\ Typed
  BY NextKeeps DEF JInv
<1>3. /\ heard \in [1 .. MaxRuns -> Nat] /\ Len(runs) \in Nat
      /\ \A n \in 1 .. MaxRuns : n > Len(runs) => heard[n] = 0
      /\ \A id \in Ids : RowTyped(store[id], id, runs)
  BY <1>1, <1>2, SameRuns DEF Typed
<1>4. \/ telling' = Silent
      \/ /\ telling' = [phase |-> "found", items |-> pendingDeliveries]
         /\ edit = NoEdit
  BY DEF TellTick, NotNow
<1>5. telling.phase # "told"
  BY DEF TellTick, NotNow
<1>6. /\ telling'.phase \in {"idle", "found"}
      /\ \A i \in telling'.items :
           /\ i.id \in Ids /\ i.run = store[i.id].last /\ Untold(store[i.id])
           /\ i = [id |-> i.id, run |-> i.run] /\ edit = NoEdit
  <2>1. CASE telling' = Silent
    BY <2>1 DEF Silent
  <2>2. CASE telling' = [phase |-> "found", items |-> pendingDeliveries] /\ edit = NoEdit
    BY <2>2 DEF pendingDeliveries
  <2> QED
    BY <1>4, <2>1, <2>2
<1>7. Typed'
  <2>1. ASSUME NEW i \in telling'.items
        PROVE  i \in [id : Ids, run : 1 .. Len(runs)] /\ runs[i.run].id = i.id
    <3>1. i.run \in 1 .. Len(runs) /\ runs[i.run].id = i.id /\ i.id \in Ids
      BY <1>3, <1>6, <2>1 DEF RowTyped, Untold, NoRun
    <3> QED
      BY <1>6, <2>1, <3>1
  <2>2. TellTyped(telling', runs)
    BY <1>6, <2>1 DEF TellTyped
  <2> QED
    BY <1>1, <1>2, <1>3, <2>2, TellsTyped
<1>8. ToldOnce'
  BY <1>1 DEF JInv, ToldOnce
<1>9. ASSUME NEW id \in Ids, id \notin overwritten'
      PROVE  ToldOK(id)'
  <2>1. ToldOK(id)
    BY <1>1, <1>9 DEF JInv
  <2>2. \A r \in Runners : UnderWayOK(id, runner[r])'
    BY <1>1, <1>6, <2>1 DEF ToldOK, UnderWayOK
  <2>3. \A i \in telling'.items : ItemOK(id, i)'
    <3>1. ASSUME NEW i \in telling'.items, i.id = id, faults = 0
          PROVE  heard[i.run] = 0
      <4>1. i.run = store[id].last /\ Untold(store[id]) /\ id \notin edit.ids
        BY <1>6, <3>1 DEF NoEdit
      <4>2. i.run \in 1 .. MaxRuns
        BY <1>2, <1>3, <4>1, SchedulesAssumption DEF RowTyped, Typed, Untold, NoRun
      <4> QED
        BY <1>3, <1>5, <2>1, <3>1, <4>1, <4>2 DEF ToldOK, MarkComes, Untold
    <3>2. \A i \in telling'.items : i.id = id => i.run <= store[id].last
      BY <1>3, <1>6 DEF RowTyped
    <3> QED
      BY <1>1, <1>6, <3>1, <3>2 DEF ItemOK
  <2>4. MarkEarned(id)'
    BY <1>1, <2>1 DEF ToldOK, MarkEarned
  <2>5. faults' = 0 => MarkComes(id)'
    BY <1>1, <1>5, <2>1 DEF ToldOK, MarkComes
  <2> QED
    BY <2>2, <2>3, <2>4, <2>5 DEF ToldOK
<1> QED
  BY <1>1, <1>2, <1>7, <1>8, <1>9, TellsOnce DEF JInv

\* A run is told at most once in one go.
LEMMA HeardOfOne ==
  ASSUME NEW items, \A i \in items : i = [id |-> i.id, run |-> i.run],
         \A i, j \in items : i.run = j.run => i.id = j.id, NEW n
  PROVE  \/ Cardinality({i \in items : i.run = n}) = 0 /\ \A i \in items : i.run # n
         \/ Cardinality({i \in items : i.run = n}) = 1 /\ \E i \in items : i.run = n
<1> DEFINE S == {i \in items : i.run = n}
<1>1. CASE S = {}
  <2>1. Cardinality(S) = 0
    BY <1>1, FS_EmptySet
  <2> QED
    BY <1>1, <2>1
<1>2. CASE S # {}
  <2>1. PICK i \in S : TRUE
    BY <1>2
  <2>2. \A j \in S : j = i
    <3>1. ASSUME NEW j \in S
          PROVE  j = i
      <4>1. j.run = i.run /\ j.id = i.id
        BY <2>1
      <4>2. j = [id |-> j.id, run |-> j.run] /\ i = [id |-> i.id, run |-> i.run]
        BY <2>1
      <4> QED
        BY <4>1, <4>2, Zenon
    <3> QED
      BY <3>1
  <2>3. S = {i}
    BY <2>1, <2>2
  <2>4. Cardinality(S) = 1
    BY <2>3, FS_Singleton
  <2> QED
    BY <2>1, <2>4
<1> QED
  BY <1>1, <1>2

\* Telling: of these the person has heard once more, and no runner is keeping
\* one of them but to be told.
LEMMA TellKeepsAll ==
  ASSUME JInv, TellAway \/ SpeakUp, Next
  PROVE  JInv'
<1>1. PICK items \in SUBSET telling.items : Tell(items)
  <2>1. CASE TellAway
    <3>1. PICK shown \in SUBSET {i \in telling.items : job[i.id].delivery = "notify"} :
            Tell(shown)
      BY <2>1 DEF TellAway
    <3> QED
      BY <3>1
  <2>2. CASE SpeakUp
    BY <2>2 DEF SpeakUp
  <2> QED
    BY <2>1, <2>2
<1>2. /\ UNCHANGED <<job, now, store, runs, runner, edit, overwritten, faults>>
      /\ telling.phase = "found"
  BY DEF TellAway, SpeakUp
<1>3. IInv' /\ IInv /\ Typed
  BY NextKeeps DEF JInv
<1>4. /\ heard \in [1 .. MaxRuns -> Nat] /\ Len(runs) \in Nat /\ Len(runs) <= MaxRuns
      /\ \A n \in 1 .. MaxRuns : n > Len(runs) => heard[n] = 0
      /\ \A id \in Ids : RowTyped(store[id], id, runs)
      /\ DOMAIN runs = 1 .. Len(runs) /\ MaxRuns \in Nat
  BY <1>2, <1>3, SameRuns, SchedulesAssumption DEF Typed
<1>5. \A i \in telling.items :
        /\ i = [id |-> i.id, run |-> i.run] /\ i.id \in Ids
        /\ i.run \in 1 .. Len(runs) /\ runs[i.run].id = i.id
  BY <1>3 DEF Typed, TellTyped
<1> DEFINE more(n) == Cardinality({i \in items : i.run = n})
<1>6. \A n : \/ more(n) = 0 /\ \A i \in items : i.run # n
             \/ more(n) = 1 /\ \E i \in items : i.run = n
  <2>1. \A i \in items : i = [id |-> i.id, run |-> i.run]
    BY <1>5
  <2>2. \A i, j \in items : i.run = j.run => i.id = j.id
    BY <1>5
  <2> QED
    BY <2>1, <2>2, HeardOfOne
                                 <1>7. heard' = [n \in DOMAIN heard |-> heard[n] + more(n)]
                                 BY <1>1 DEF Tell
<1> HIDE DEF more
<1>8. /\ heard' \in [1 .. MaxRuns -> Nat]
      /\ \A n \in 1 .. MaxRuns : /\ heard'[n] = heard[n] + more(n)
                               /\ more(n) \in {0, 1}
                               /\ (more(n) = 1 <=> \E i \in items : i.run = n)
  <2>1. \A n \in 1 .. MaxRuns : more(n) \in {0, 1} /\ (more(n) = 1 <=> \E i \in items : i.run = n)
    BY <1>6
  <2>2. \A n \in 1 .. MaxRuns : heard[n] + more(n) \in Nat
    BY <1>4, <2>1
  <2> QED
    BY <1>4, <1>7, <2>1, <2>2
<1>9. \/ items = {} /\ telling' = Silent
      \/ items # {} /\ telling' = [phase |-> "told", items |-> items]
  BY <1>1 DEF Tell
<1>10. /\ telling'.phase \in {"idle", "told"} /\ telling'.items = items
       /\ items # {} => telling'.phase = "told"
  <2>1. CASE items = {} /\ telling' = Silent
    BY <2>1 DEF Silent
  <2>2. CASE items # {} /\ telling' = [phase |-> "told", items |-> items]
    BY <2>2
  <2> QED
    BY <1>9, <2>1, <2>2
<1>11. \A i \in items : i \in telling.items
  BY <1>1
<1>12. Typed'
  <2>1. \A n \in 1 .. MaxRuns : n > Len(runs) => heard'[n] = 0
    <3>1. ASSUME NEW n \in 1 .. MaxRuns, n > Len(runs)
          PROVE  heard'[n] = 0
      <4>1. more(n) # 1
        BY <1>4, <1>5, <1>8, <1>11, <3>1
      <4> QED
        BY <1>4, <1>8, <3>1, <4>1
    <3> QED
      BY <3>1
  <2>2. TellTyped(telling', runs)
    <3>1. TellTyped(telling, runs)
      BY <1>3 DEF Typed
    <3> QED
      BY <1>10, <1>11, <3>1 DEF TellTyped
  <2> QED
    BY <1>2, <1>3, <1>8, <2>1, <2>2, TellsTyped
<1>13. ASSUME NEW i \in items, i.id \notin overwritten, faults = 0
       PROVE  heard[i.run] = 0
  <2>1. ToldOK(i.id)
    BY <1>5, <1>11, <1>13 DEF JInv
  <2> QED
    BY <1>2, <1>11, <1>13, <2>1 DEF ToldOK, ItemOK
<1>14. ToldOnce'
  <2>1. ASSUME NEW n \in DOMAIN runs, heard'[n] > 1
        PROVE  faults > 0 \/ runs[n].id \in overwritten
    <3>1. n \in 1 .. MaxRuns
      BY <1>4
    <3>2. faults \in Nat
      BY <1>3 DEF Typed
    <3>3. CASE more(n) = 0
      BY <1>4, <1>8, <2>1, <3>1, <3>3 DEF JInv, ToldOnce
    <3>4. CASE more(n) = 1
      <4>1. PICK i \in items : i.run = n
        BY <1>8, <3>1, <3>4
      <4>2. runs[n].id = i.id
        BY <1>5, <1>11, <4>1
      <4>3. heard[n] # 0
        BY <1>4, <1>8, <2>1, <3>1, <3>4
      <4> QED
        BY <1>13, <3>2, <4>1, <4>2, <4>3
    <3> QED
      BY <1>8, <3>1, <3>3, <3>4
  <2> QED
    BY <1>2, <2>1 DEF ToldOnce
<1>15. ASSUME NEW id \in Ids, id \notin overwritten'
       PROVE  ToldOK(id)'
  <2>1. ToldOK(id) /\ id \notin overwritten
    BY <1>2, <1>15 DEF JInv
  <2>2. \A n \in 1 .. MaxRuns : heard[n] > 0 => heard'[n] > 0
    BY <1>4, <1>8
  <2>3. ASSUME NEW r \in Runners
        PROVE  UnderWayOK(id, runner[r])'
    <3> SUFFICES ASSUME runner[r].id = id, Doing(runner[r]), heard'[runner[r].run] > 0
                 PROVE  runner[r].told
      BY <1>2, <1>10, <1>11, <2>1 DEF ToldOK, UnderWayOK
    <3>1. /\ runner[r].run \in 1 .. Len(runs) /\ runs[runner[r].run].id = id
          /\ (runner[r].onDemand => runner[r].told)
      BY <1>3 DEF Typed, RunnerTyped
    <3>2. runner[r].run \in 1 .. MaxRuns
      BY <1>4, <3>1
    <3>3. UnderWayOK(id, runner[r])
      BY <2>1 DEF ToldOK
    <3>4. CASE heard[runner[r].run] > 0
      BY <3>3, <3>4 DEF UnderWayOK
    <3>5. CASE ~ (heard[runner[r].run] > 0)
      <4>1. more(runner[r].run) = 1
        BY <1>4, <1>8, <3>2, <3>5
      <4>2. PICK i \in items : i.run = runner[r].run
        BY <1>8, <3>2, <4>1
      <4>3. i.id = id /\ i \in telling.items /\ i.run \in Nat
        BY <1>5, <1>11, <3>1, <4>2
      <4>4. ~ (i.run < runner[r].run)
        BY <4>2, <4>3
      <4>5. runner[r].onDemand
        BY <3>3, <4>3, <4>4 DEF UnderWayOK
      <4> QED
        BY <3>1, <4>5
    <3> QED
      BY <3>4, <3>5
  <2>4. \A i \in telling'.items : ItemOK(id, i)'
    <3>1. ASSUME NEW i \in items
          PROVE  ItemOK(id, i)'
      <4>1. i.run \in 1 .. MaxRuns
        BY <1>4, <1>5, <1>11
      <4>2. heard'[i.run] > 0
        <5>1. more(i.run) = 1 /\ heard[i.run] \in Nat
          BY <1>4, <1>8, <4>1
        <5> QED
          BY <1>8, <4>1, <5>1
      <4>3. ItemOK(id, i)
        BY <1>11, <2>1 DEF ToldOK
      <4> QED
        BY <1>2, <1>10, <4>2, <4>3 DEF ItemOK
    <3> QED
      BY <1>10, <3>1
  <2>5. MarkEarned(id)'
    <3>1. ASSUME id \in edit.ids, edit.to[id].told # edit.from[id].told
          PROVE  \E m \in 1 .. edit.from[id].last : runs[m].id = id /\ heard'[m] > 0
      <4>1. PICK m \in 1 .. edit.from[id].last : runs[m].id = id /\ heard[m] > 0
        BY <2>1, <3>1 DEF ToldOK, MarkEarned
      <4>2. edit.from[id].last \in 0 .. Len(runs)
        BY <1>3, <3>1 DEF Typed, EditTyped, RowTyped
      <4>3. m \in 1 .. MaxRuns
        BY <1>4, <4>1, <4>2
      <4> QED
        BY <2>2, <4>1, <4>3
    <3> QED
      BY <1>2, <3>1 DEF MarkEarned
  <2>6. faults' = 0 => MarkComes(id)'
    <3> DEFINE n == store[id].last
    <3> SUFFICES ASSUME faults = 0, n # NoRun, heard'[n] > 0, ~store[id].told
                 PROVE  \/ telling'.phase = "told" /\ \E i \in telling'.items : i.id = id
                        \/ id \in edit.ids /\ edit.to[id].told
      BY <1>2 DEF MarkComes
    <3>1. n \in 1 .. Len(runs) /\ runs[n].id = id
      BY <1>4 DEF RowTyped, NoRun
    <3>2. n \in 1 .. MaxRuns
      BY <1>4, <3>1
    <3>3. CASE heard[n] > 0
      BY <1>2, <2>1, <3>3 DEF ToldOK, MarkComes
    <3>4. CASE ~ (heard[n] > 0)
      <4>1. more(n) = 1
        BY <1>4, <1>8, <3>2, <3>4
      <4>2. PICK i \in items : i.run = n
        BY <1>8, <3>2, <4>1
      <4>3. i.id = id
        BY <1>5, <1>11, <3>1, <4>2
      <4> QED
        BY <1>10, <4>2, <4>3
    <3> QED
      BY <3>3, <3>4
  <2> QED
    BY <2>3, <2>4, <2>5, <2>6 DEF ToldOK
<1> QED
  BY <1>2, <1>3, <1>12, <1>14, <1>15, TellsOnce DEF JInv

-----------------------------------------------------------------------------

LEMMA InitKeepsAll ==
  ASSUME Init
  PROVE  JInv
<1>1. PICK status \in [Ids -> {"absent", "active", "paused"}] :
       store = [id \in Ids |->
         IF status[id] = "absent" THEN Absent
         ELSE [Absent EXCEPT !.status = status[id], !.next = nextFiring(job[id].firings, 0)]]
  BY DEF Init
<1>2. /\ now = 0 /\ runs = <<>> /\ runner = [r \in Runners |-> Idle] /\ job \in Jobs
      /\ edit = NoEdit /\ telling = Silent /\ heard = [n \in 1 .. MaxRuns |-> 0]
      /\ faults = 0
  BY DEF Init
<1>3. Len(runs) = 0 /\ DOMAIN runs = {}
  BY <1>2
<1>4. \A id \in Ids : RowTyped(Absent, id, runs) /\ Absent.last = NoRun
  BY <1>3 DEF RowTyped, Absent, NoTime, NoRun
<1>5. ASSUME NEW id \in Ids
      PROVE  RowTyped(store[id], id, runs) /\ store[id].last = NoRun
  <2> DEFINE next == nextFiring(job[id].firings, 0)
             row == [Absent EXCEPT !.status = status[id], !.next = next]
  <2>1. next \in Nat
    BY <1>2, NextIsLater, FiringsAreTimes
  <2>2. store[id] = Absent \/ store[id] = row
    BY <1>1
  <2> HIDE DEF next
  <2>3. Revised(row, Absent, id, next, Absent.told)
    BY <1>4, <2>1, RowFields
  <2> HIDE DEF row
  <2> QED
    BY <1>4, <2>2, <2>3 DEF Revised
<1>6. \A r \in Runners : runner[r] = Idle
  BY <1>2
<1>7. ~Doing(Idle) /\ Idle.left = {}
  BY DEF Doing, Idle
<1>8. Typed
  <2>1. \A r \in Runners : RunnerTyped(runner[r], r, runs, now, job)
    BY <1>2, <1>6, IdleTyped
  <2>2. EditTyped(edit, runs) /\ TellTyped(telling, runs)
    BY <1>2 DEF EditTyped, NoEdit, TellTyped, Silent
  <2>3. Len(runs) <= MaxRuns
    BY <1>3, SchedulesAssumption
  <2> QED
    BY <1>2, <1>5, <1>6, <1>7, <2>1, <2>2, <2>3 DEF Typed
<1>9. RunsOnce /\ ToldOnce
  BY <1>3 DEF RunsOnce, ToldOnce
<1>10. ASSUME NEW id \in Ids
       PROVE  OnceOK(id) /\ ToldOK(id)
  <2>1. Dues(id) = {} /\ Ran(id) = {}
    BY <1>3, <1>6, <1>7 DEF Dues, Ran, ToRun
  <2>2. edit.ids = {} /\ telling.items = {}
    BY <1>2 DEF NoEdit, Silent
  <2>3. OnceOK(id)
    BY <2>1, <2>2 DEF OnceOK, Ahead
  <2>4. ToldOK(id)
    BY <1>5, <1>6, <1>7, <2>2 DEF ToldOK, UnderWayOK, MarkEarned, MarkComes
  <2> QED
    BY <2>3, <2>4
<1> QED
  BY <1>8, <1>9, <1>10, InitOK DEF JInv

LEMMA NextKeepsAll ==
  ASSUME JInv, [Next]_vars
  PROVE  JInv'
<1>1. CASE UNCHANGED vars
  BY <1>1, AdvanceKeepsAll
<1>2. CASE Next
  <2>1. ASSUME NEW r \in Runners, Runs(r) \/ RunnerStops(r)
        PROVE  JInv'
    BY <1>2, <2>1, TickKeepsAll, ClaimKeepsAll, ExecuteKeepsAll, WithinKeepsAll, KeepKeepsAll,
       StopsKeepsAll DEF Runs
  <2>2. CASE Tells
    BY <1>2, <2>2, TellTickKeepsAll, TellKeepsAll, MarkDeliveredKeepsAll DEF Tells
  <2>3. CASE Advance
    BY <1>2, <2>3, AdvanceKeepsAll
  <2> QED
    BY <1>2, <2>1, <2>2, <2>3, RunNowKeepsAll, ChangeKeepsAll, EditWritesKeepsAll,
       ReloadsKeepsAll DEF Next
<1> QED
  BY <1>1, <1>2

\* Whatever was claimed of a schedule is earlier than its row, so long as no
\* writer put back a row it had not read; and what the person has heard of it
\* is marked, or will be.
THEOREM RunsInvariant == Spec => []JInv
<1>1. Init => JInv
  BY InitKeepsAll
<1>2. JInv /\ [Next]_vars => JInv'
  BY NextKeepsAll
<1> QED
  BY <1>1, <1>2, PTL DEF Spec

\* A firing is claimed in the table before it runs, so whatever stops in between
\* (a page closed, a runner stopped, a call that failed), it is never run twice,
\* unless the schedule's row was overwritten (runner.ts, runner.rs).
THEOREM AlwaysRunsOnce == Spec => []RunsOnce
<1>1. JInv => RunsOnce
  BY DEF JInv
<1> QED
  BY <1>1, RunsInvariant, PTL

\* However edits, runs and deliveries overlap, the person is not told of a run
\* twice, unless something failed or the row was overwritten (deliveries.ts).
THEOREM AlwaysToldOnce == Spec => []ToldOnce
<1>1. JInv => ToldOnce
  BY DEF JInv
<1> QED
  BY <1>1, RunsInvariant, PTL

\* WaitsToBeTold, of one schedule.
Waits(id) ==
  (Waiting(id) /\ store'[id] # store[id] /\ ~Waiting(id)') =>
    \/ heard[store[id].last] > 0
    \/ store'[id].last # store[id].last
    \/ \E m \in 1 .. store[id].last - 1 : runs[m].id = id /\ heard[m] > 0
    \/ id \in overwritten'

LEMMA RowWaits ==
  ASSUME NEW id \in Ids,
         store'[id].last = store[id].last, store'[id].told = store[id].told
  PROVE  Waits(id)
BY DEF Waits, Waiting, Untold

LEMMA StepWaits ==
  ASSUME JInv, [Next]_vars, NEW id \in Ids
  PROVE  Waits(id)
<1>1. CASE UNCHANGED store
  BY <1>1, RowWaits
<1>2. CASE id \in overwritten'
  BY <1>2 DEF Waits
<1>3. ASSUME NEW r \in Runners, Claim(r), id \notin overwritten'
      PROVE  Waits(id)
  <2>1. PICK due, q, made : due \in runner[r].todo /\ ClaimsFor(r, due, q, made)
    BY <1>3, ClaimMakes
  <2>2. DOMAIN store = Ids /\ DueTyped(due, r, runner[r].at, runs, job)
    BY <2>1 DEF JInv, IInv, Typed, RunnerTyped
  <2>3. due.id \in Ids /\ DOMAIN due.row = DOMAIN Absent
    BY <2>2 DEF DueTyped, RowTyped
  <2>4. store' = [store EXCEPT ![due.id] = Claimed(due.row, PlanOf(r, due))]
    BY <2>1 DEF ClaimsFor
  <2>5. CASE id = due.id
    <3>1. due.row = store[id]
      BY <1>3, <2>1, <2>5 DEF ClaimsFor
    <3>2. store'[id] = Claimed(due.row, PlanOf(r, due))
      BY <2>2, <2>4, <2>5
    <3> QED
      BY <2>3, <3>1, <3>2, ClaimedRow, RowWaits
  <2>6. CASE id # due.id
    BY <2>2, <2>4, <2>6, RowWaits
  <2> QED
    BY <2>5, <2>6
<1>4. ASSUME NEW r \in Runners, KeepWrites(r), id \notin overwritten'
      PROVE  Waits(id)
  <2>1. PICK q, to : KeepsRun(r, q, to)
    BY <1>4, KeepMakes
  <2>2. DOMAIN store = Ids
    BY DEF JInv, IInv
  <2>3. store' = [store EXCEPT ![runner[r].id] = to] /\ to.last = runner[r].run
        /\ Doing(runner[r])
    BY <2>1 DEF KeepsRun
  <2>4. CASE id = runner[r].id
    <3>1. store'[id].last = runner[r].run
      BY <2>2, <2>3, <2>4
    <3>2. id \notin overwritten
      BY <1>4, <2>1 DEF KeepsRun
    <3>3. store[id].last # runner[r].run
      BY <2>3, <2>4, <3>2 DEF JInv, ToldOK, UnderWayOK
    <3> QED
      BY <3>1, <3>3 DEF Waits
  <2>5. CASE id # runner[r].id
    BY <2>2, <2>3, <2>5, RowWaits
  <2> QED
    BY <2>4, <2>5
<1>5. ASSUME EditWrites, id \notin overwritten'
      PROVE  Waits(id)
  <2>1. PICK i : WritesRow(i)
    BY <1>5, EditWritesMakes
  <2>2. DOMAIN store = Ids /\ EditTyped(edit, runs) /\ RowTyped(store[id], id, runs)
        /\ Len(runs) \in Nat
    BY SameRuns DEF JInv, IInv, Typed, RunsOK
  <2>3. i \in edit.ids /\ store' = [store EXCEPT ![i] = edit.to[i]]
    BY <2>1 DEF WritesRow
  <2>4. CASE id = i
    <3>1. edit.from[id] = store[id] /\ store'[id] = edit.to[id]
      BY <1>5, <2>1, <2>2, <2>3, <2>4 DEF WritesRow
    <3>2. edit.to[id].last = store[id].last
      BY <2>2, <2>3, <2>4, <3>1 DEF EditTyped
    <3>3. CASE edit.to[id].told = store[id].told
      BY <3>1, <3>2, <3>3, RowWaits
    <3>4. CASE edit.to[id].told # store[id].told
      <4>1. id \notin overwritten
        BY <1>5, <2>1 DEF WritesRow
      <4>2. PICK m \in 1 .. store[id].last : runs[m].id = id /\ heard[m] > 0
        BY <2>3, <2>4, <3>1, <3>4, <4>1 DEF JInv, ToldOK, MarkEarned
      <4>3. m = store[id].last \/ m \in 1 .. store[id].last - 1
        BY <2>2 DEF RowTyped
      <4> QED
        BY <4>2, <4>3 DEF Waits
    <3> QED
      BY <3>3, <3>4
  <2>5. CASE id # i
    BY <2>2, <2>3, <2>5, RowWaits
  <2> QED
    BY <2>4, <2>5
<1>6. \/ UNCHANGED store
      \/ \E r \in Runners : Claim(r) \/ KeepWrites(r)
      \/ EditWrites
  BY DEF Next, Runs, Tells, vars, Tick, RunNow, Execute, AppendEpisode, KeepReads, RunnerStops,
     Change, MarkDelivered, TellTick, TellAway, SpeakUp, NotNow, Advance, PageReloads
<1> QED
  BY <1>1, <1>2, <1>3, <1>4, <1>5, <1>6

\* A run kept for the person waits until they have heard it, or a later one is in
\* its place, unless another run's mark or a lost update ends it (schedules.ts,
\* runner.ts, deliveries.ts).
THEOREM AlwaysWaitsToBeTold == Spec => WaitsToBeTold
<1>1. ASSUME JInv, [Next]_vars
      PROVE  [\A id \in Ids :
                LET n == store[id].last IN
                  (Waiting(id) /\ store'[id] # store[id] /\ ~Waiting(id)') =>
                    \/ heard[n] > 0
                    \/ store'[id].last # n
                    \/ \E m \in 1 .. n - 1 : runs[m].id = id /\ heard[m] > 0
                    \/ id \in overwritten']_vars
  BY <1>1, StepWaits DEF Waits
<1> QED
  BY <1>1, RunsInvariant, PTL DEF Spec, WaitsToBeTold
=============================================================================
