----------------------------- MODULE SchedulePlan ------------------------------
(*****************************************************************************)
(* planSchedule (packages/core/src/scheduler/plan.ts) and its twin in the    *)
(* companion (companion/crates/server/src/schedules/plan.rs): what to do     *)
(* about a schedule now.                                                     *)
(*                                                                           *)
(* A trigger is the set of its firing times; a `once` trigger has one.  Times*)
(* are ticks from 1, and 0 stands for the code's null.  The cap of a thousand*)
(* firings looked at (`more`) is far above any horizon here.                 *)
(*****************************************************************************)
EXTENDS Integers, Sequences, FiniteSets, FiniteSetsExt

CONSTANTS
  LateGrace,    \* LATE_GRACE_MS in ticks: later than this, a firing was missed
  RunAllLimit   \* RUN_ALL_LIMIT: run_all catches up at most this many

ASSUME PlanAssumption ==
  /\ LateGrace \in Nat
  /\ RunAllLimit \in Nat \ {0, 1}

NoTime == 0

\* The first firing strictly after `after`.
nextFiring(firings, after) ==
  LET later == {t \in firings : t > after} IN
    IF later = {} THEN NoTime ELSE Min(later)

\* Every firing from `from` to `to`, both included.
firingsBetween(firings, from, to) == {t \in firings : from <= t /\ t <= to}

\* The latest n of these times.
Latest(times, n) == {t \in times : Cardinality({u \in times : t < u}) < n}

Due(row, now) == row.status = "active" /\ row.next # NoTime /\ row.next <= now

\* What a due schedule runs now, which is oldest first, and how many of its
\* missed firings it passes over.
planSchedule(job, row, now) ==
  LET times  == firingsBetween(job.firings, row.next, now)
      onTime == {t \in times : now - t <= LateGrace}
      missed == times \ onTime
      caught ==
        CASE job.catchUp = "run_all" ->
               Latest(missed, RunAllLimit - (IF onTime = {} THEN 0 ELSE 1))
          [] job.catchUp = "run_once" /\ onTime = {} -> Latest(missed, 1)
          [] OTHER -> {}
  IN [run     |-> caught \union Latest(onTime, 1),
      skipped |-> Cardinality(missed \ caught),
      next    |-> nextFiring(job.firings, now)]
=============================================================================
