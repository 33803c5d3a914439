------------------------------ MODULE MCSchedules ------------------------------
(*****************************************************************************)
(* A reminder that comes twice and one that comes once, run by the page and  *)
(* the companion; or a task that may fail, and a tool called twice.          *)
(*****************************************************************************)
EXTENDS Schedules

MCIds == 1 .. 2

MCJobs ==
 { << [kind |-> "cron", firings |-> {1, 3}, does |-> "reminder", catchUp |-> "run_all",
       delivery |-> "speak_next_session", runOn |-> "core"],
      [kind |-> "once", firings |-> {1}, does |-> "reminder", catchUp |-> "skip",
       delivery |-> "notify", runOn |-> "companion"] >>,
   << [kind |-> "once", firings |-> {1}, does |-> "task", catchUp |-> "run_once",
       delivery |-> "notify", runOn |-> "core"],
      [kind |-> "cron", firings |-> {1, 2}, does |-> "call", catchUp |-> "run_all",
       delivery |-> "silent_log", runOn |-> "companion"] >> }
=============================================================================
