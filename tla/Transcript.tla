------------------------------- MODULE Transcript -------------------------------
(*****************************************************************************)
(* reduceTranscript (packages/core/src/transcript/transcript.ts): the lines  *)
(* that the panel shows and the history is made of, as a function of what is *)
(* on the bus.                                                               *)
(*                                                                           *)
(* A line's words are abstracted to whose they are.  A user's line carries   *)
(* the number of what was asked, hers the number of the answer that settled  *)
(* it in `id`, and in `of` those whose tokens are in it.  Latencies,         *)
(* citations, notices and tool lines are left out.                           *)
(*****************************************************************************)
EXTENDS Naturals, SequencesExt

emptyTranscript == [lines |-> <<>>, open |-> 0]

UserLine(ask) == [kind |-> "user", id |-> ask, of |-> {}, status |-> "complete"]

HerLine(id, of, status) == [kind |-> "assistant", id |-> id, of |-> of, status |-> status]

appended(t, line) == [t EXCEPT !.lines = Append(@, line)]

\* Settled, removed or given up: no line is open.
closed(t) == [t EXCEPT !.open = 0]

openStatus(t) == IF t.open = 0 THEN "none" ELSE t.lines[t.open].status

\* assistant.token, of answer n: the streaming line grows, or there is one.
onToken(t, n) ==
  IF openStatus(t) = "streaming"
  THEN [t EXCEPT !.lines[t.open].of = @ \union {n}]
  ELSE [appended(t, HerLine(0, {n}, "streaming")) EXCEPT !.open = Len(t.lines) + 1]

onInterrupted(t) ==
  IF t.open = 0 THEN t ELSE [t EXCEPT !.lines[t.open].status = "interrupted"]

\* assistant.message: the open line is settled, or one is made that is.  A
\* message without words takes the line away.
onMessage(t, id, words, status) ==
  LET of == IF t.open = 0 THEN {id} ELSE t.lines[t.open].of IN
    CASE ~words /\ t.open = 0 -> t
      [] ~words /\ t.open # 0 -> closed([t EXCEPT !.lines = RemoveAt(@, t.open)])
      [] words /\ t.open # 0  -> closed([t EXCEPT !.lines[t.open] = HerLine(id, of, status)])
      [] OTHER                -> appended(t, HerLine(id, of, status))

\* Mutant: the line is taken away and stays the open one.
DropsAndStaysOpen(t, to) ==
  IF to \in {"listening", "idle"} /\ openStatus(t) = "streaming"
  THEN [t EXCEPT !.lines = RemoveAt(@, t.open), !.open = IF Len(t.lines) = t.open THEN 0 ELSE @]
  ELSE t

\* state.changed: a line that nobody settled was given up.
onStateChanged(t, to) ==
  IF to \in {"listening", "idle"} /\ openStatus(t) = "streaming"
  THEN closed([t EXCEPT !.lines = RemoveAt(@, t.open)])
  ELSE t
=============================================================================
