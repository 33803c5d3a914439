----------------------------- MODULE Conversation -----------------------------
(*****************************************************************************)
(* The conversation's states and the table that moves between them           *)
(* (packages/core/src/conversation/transition.ts), as operators that         *)
(* ConversationMachine and VoiceSession share.                               *)
(*****************************************************************************)

ConversationStates == {"idle", "listening", "thinking", "speaking", "interrupted"}

\* The events the table has a row for.
ConversationTriggers ==
  {"session.started", "session.ended", "user.speech.started", "user.turn.ended",
   "user.turn.resumed", "user.message", "assistant.opening",
   "assistant.audio.started", "assistant.message", "assistant.interrupted", "error"}

Move(from, trigger, to) == [from |-> from, trigger |-> trigger, to |-> to]

transitionTable ==
  {Move("idle", "session.started", "listening"),
   Move("idle", "user.speech.started", "listening"),
   Move("idle", "user.message", "thinking"),
   Move("idle", "assistant.opening", "thinking"),
   Move("listening", "user.turn.ended", "thinking"),
   Move("listening", "user.message", "thinking"),
   Move("listening", "assistant.opening", "thinking"),
   Move("thinking", "assistant.audio.started", "speaking"),
   Move("thinking", "user.speech.started", "listening"),
   Move("thinking", "user.turn.resumed", "listening"),
   Move("thinking", "assistant.message", "listening"),
   Move("thinking", "error", "listening"),
   Move("speaking", "assistant.message", "listening"),
   Move("speaking", "assistant.interrupted", "interrupted"),
   Move("interrupted", "user.turn.ended", "thinking")}
  \cup {Move(from, "session.ended", "idle") : from \in ConversationStates \ {"idle"}}

\* Where an event takes the machine: where the table says, or nowhere.
transition(state, trigger) ==
  IF \E m \in transitionTable : m.from = state /\ m.trigger = trigger
  THEN (CHOOSE m \in transitionTable : m.from = state /\ m.trigger = trigger).to
  ELSE state
=============================================================================
