-------------------------- MODULE ConversationMachine --------------------------
(*****************************************************************************)
(* ConversationMachine (packages/core/src/conversation/machine.ts): the      *)
(* state every part of the app agrees on, its idle timer, and the way out of *)
(* `interrupted`, which is the output port's fade or, without a port, a      *)
(* timer.                                                                    *)
(*                                                                           *)
(* fadeOutMs is positive, as everywhere it is set.  A cleared timer never    *)
(* fires; a fade cannot be cleared, so it may end long after the machine     *)
(* has left the state that asked for it.  A call is an operator from the     *)
(* machine before to the machine after, so that an owner may make several;   *)
(* the timers and the fade are actions.                                      *)
(*****************************************************************************)
EXTENDS Conversation, Naturals

VARIABLES
  options,   \* what the machine was built with; never changes
  machine    \* current; entry; whether idleHandle and teardownHandle are set;
             \* the entries whose fade has not ended yet

Options == [port : BOOLEAN, scheduler : BOOLEAN, idleTimeout : BOOLEAN]

NewMachine == [current |-> "idle", entry |-> 0, idleTimer |-> FALSE, teardownTimer |-> FALSE,
               fades |-> {}]

\* resetIdleTimer() leaves a fresh timer exactly when there is one to set.
HasIdleTimer == options.scheduler /\ options.idleTimeout

\* Mutant: only the timer of the state being entered is looked at.
KeepsIdleTimer(m, next) == IF next = "listening" THEN HasIdleTimer ELSE m.idleTimer

\* onEnter's clearTimers, and resetIdleTimer for `listening`.
IdleTimerIn(m, next) == next = "listening" /\ HasIdleTimer

\* Mutant: a machine with a scheduler counts on its teardown timer alone.
AsksPortOnlyWithoutScheduler(m, next) ==
  IF next = "interrupted" /\ options.port /\ ~options.scheduler
  THEN m.fades \union {m.entry + 1} ELSE m.fades

\* startTeardownTimer asks the port for the fade ...
FadesIn(m, next) ==
  IF next = "interrupted" /\ options.port THEN m.fades \union {m.entry + 1} ELSE m.fades

\* ... or a timer stands in for it.
TeardownTimerIn(next) == next = "interrupted" /\ ~options.port /\ options.scheduler

\* setState and onEnter.
Entered(m, next) ==
  [current |-> next, entry |-> m.entry + 1, idleTimer |-> IdleTimerIn(m, next),
   teardownTimer |-> TeardownTimerIn(next), fades |-> FadesIn(m, next)]

\* What start(), end() and dispatch() all do.  An event that changes nothing
\* still puts the idle timer off.
transitionByTrigger(m, trigger) ==
  LET next == transition(m.current, trigger) IN
    IF next # m.current THEN Entered(m, next) ELSE m

\* The idle timer fires: end('idle').
IdleTimerFires ==
  /\ machine.idleTimer
  /\ machine' = transitionByTrigger(machine, "session.ended")

\* The teardown timer fires.
TeardownTimerFires ==
  /\ machine.teardownTimer
  /\ machine' = IF machine.current = "interrupted" THEN Entered(machine, "listening")
                ELSE [machine EXCEPT !.teardownTimer = FALSE]

\* Mutant: any fade that ends while the machine is interrupted will do.
AnyFade(e) == machine.current = "interrupted"

\* `back`'s test that the machine is still in the entry that asked for the fade.
IsMyEntry(e) == machine.entry = e /\ machine.current = "interrupted"

\* The port's fade resolves, or fails: `back` either way.
FadeEnds(e) ==
  /\ e \in machine.fades
  /\ LET ended == [machine EXCEPT !.fades = @ \ {e}] IN
       machine' = IF IsMyEntry(e) THEN Entered(ended, "listening") ELSE ended
=============================================================================
