-------------------------- MODULE VoiceSessionProofs ---------------------------
(*****************************************************************************)
(* What holds of VoiceSession for every choice of its windows, frame gaps    *)
(* and bounds, proved with the TLA+ proof system: what the conversation does *)
(* with its one voice, and that nothing a turn said is taken back.           *)
(*                                                                           *)
(* While nothing else has moved the machine, a session is in one of seven    *)
(* situations (Calm), each with what the answer it waits for has come to, and*)
(* a handler takes it from one to another, however the calls it is made of   *)
(* are ordered.  Once something has, several answers may be under way; then  *)
(* they are all astray (Wild), and what is left of the situations is what    *)
(* they share (Loose).                                                       *)
(*****************************************************************************)
EXTENDS VoiceSession, SequenceTheorems, TLAPS

Statuses == {"none", "working", "audible", "complete", "interrupted", "abandoned", "failed"}

Living == {"working", "audible"}

AnswerType ==
  [turn : Nat, confirmedAt : Nat, confirmed : BOOLEAN,
   text : {"asked", "words", "nothing"}, held : Seq(Kinds), published : Seq(Kinds),
   spoke : BOOLEAN, heard : BOOLEAN]

SessionType ==
  [state : ConversationStates, gate : [kind : GateKinds, voiced : Nat, silent : Nat],
   gain : {"unity", "ducked"}, pending : Nat, reply : Nat, answers : Seq(AnswerType),
   standing : [1 .. MaxAnswers -> Statuses], released : SUBSET Nat, told : SUBSET Nat,
   disposed : BOOLEAN, astray : SUBSET Nat]

SessionTyped(s) ==
  /\ s \in SessionType
  /\ Len(s.answers) <= MaxAnswers
  /\ s.pending \in {None, Len(s.answers)}
  /\ s.reply \in 0 .. Len(s.answers)
  /\ s.astray \subseteq 1 .. Len(s.answers)

-----------------------------------------------------------------------------
(* The situations.                                                           *)

\* Nothing is under way.  The machine may be as an earlier call left it.
Resting(s) ==
  /\ s.pending = None /\ s.reply = None /\ s.told = {}
  /\ s.state \in {"listening", "interrupted"} \/ (s.state = "thinking" /\ Len(s.answers) = 0)

Recognising(s) ==
  /\ s.pending # None /\ s.reply = None /\ s.told = {}
  /\ s.state = "thinking"
  /\ s.answers[s.pending].text = "asked"

\* The answer being made is nobody's to hear yet.
Making(s) ==
  /\ s.pending # None /\ s.reply = s.pending /\ s.told = {}
  /\ s.state = "thinking"
  /\ s.standing[s.reply] = "working"

Speaking(s) ==
  /\ s.pending # None /\ s.reply = s.pending /\ s.told = {}
  /\ s.state = "speaking"
  /\ s.standing[s.reply] = "audible"

\* It is over by itself, and the session is yet to hear of it.
RanOut(s) ==
  /\ s.pending # None /\ s.reply = s.pending /\ s.told = {s.reply}
  /\ s.state = IF s.answers[s.reply].heard THEN "speaking" ELSE "thinking"
  /\ s.standing[s.reply] \in {"complete", "failed"}

\* The user talked over it.
Cut(s) ==
  /\ s.pending # None /\ s.reply = s.pending /\ s.told = {s.reply}
  /\ s.state = "interrupted"
  /\ s.standing[s.reply] = "interrupted"

\* The user went on before any of it was heard.
GivenUp(s) ==
  /\ s.pending = None /\ s.reply # None /\ s.told = {s.reply}
  /\ s.state = "listening"
  /\ s.standing[s.reply] = "abandoned"
  /\ ~s.answers[s.reply].heard

HungUp(s) == s.disposed /\ s.pending = None /\ s.reply = None

\* The answer under way is the session's own.
Calm(s) ==
  /\ \A r \in 1 .. MaxAnswers : s.standing[r] \in Living => r = s.reply
  /\ \/ Resting(s) \/ Recognising(s) \/ Making(s) \/ Speaking(s)
     \/ RanOut(s) \/ Cut(s) \/ GivenUp(s)

\* Somebody is heard, or the session is yet to hear that she was.
Voiced(s, r) ==
  /\ s.answers[r].heard
  /\ s.standing[r] # "interrupted"
  /\ s.standing[r] \in Living \/ r \in s.told

\* The session's reply is under way, and so is the answer it waits for; the
\* machine's state is owed to some answer, and none is made that may be retracted
\* but the one waited for.
Loose(s) ==
  /\ s.state # "idle"
  /\ s.reply # None => s.reply \in s.told \/ s.standing[s.reply] \in Living
  /\ s.pending # None => s.answers[s.pending].text = "asked" \/ s.pending = s.reply
  /\ s.told \subseteq 1 .. Len(s.answers)
  /\ \A r \in s.told : s.standing[r] \in {"complete", "interrupted", "abandoned", "failed"}
  /\ s.state = "speaking" => \E r \in 1 .. Len(s.answers) : Voiced(s, r)
  /\ s.state = "thinking" =>
       \/ Len(s.answers) = 0
       \/ /\ s.pending # None
          /\ s.standing[s.pending] \in {"none", "working", "complete", "failed"}
  /\ \A r \in 1 .. Len(s.answers) :
       s.standing[r] \in Living => r = s.pending \/ s.answers[r].confirmed

\* Whatever is under way is astray.
Wild(s) ==
  /\ Loose(s)
  /\ \A a \in 1 .. Len(s.answers) :
       s.standing[a] \in Living \/ a \in s.told \/ a = s.pending => a \in s.astray

\* The gate watches while she is said to speak, and has the gain.
GateOK(s) ==
  /\ (s.gate.kind # "disarmed") = (s.state = "speaking")
  /\ ducked(s.gate) => s.gain = "ducked"
  /\ s.gain = "ducked" => ducked(s.gate) \/ s.astray # {}

\* What is held is on its way to the bus, and what is published of an answer
\* that is not confirmed is its message at most.
AnswerOK(a, standing, released, stray) ==
  /\ a.text = "asked" => standing = "none"
  /\ standing = "none" => ~a.spoke
  /\ standing \in {"none", "working", "abandoned"} => ~a.heard
  /\ standing = "audible" => a.heard
  /\ a.confirmed <=> released
  /\ a.confirmed => a.held = <<>>
  /\ ~a.confirmed => ~a.heard /\ Range(a.published) \subseteq {"message"}
  /\ standing \in Living => "transcript" \in Range(a.held) \cup Range(a.published)
  /\ standing \in Living /\ a.spoke =>
       stray \/ "words" \in Range(a.held) \cup Range(a.published)
  /\ a.heard => "transcript" \in Range(a.published)
  /\ a.heard => stray \/ "words" \in Range(a.published)

AnswersOK(s) ==
  /\ \A r \in 1 .. MaxAnswers :
       /\ s.standing[r] \in Living => r = s.reply \/ r \in s.astray
       /\ r > Len(s.answers) => s.standing[r] = "none"
  /\ s.released \subseteq 1 .. Len(s.answers)
  /\ \A a \in 1 .. Len(s.answers) :
       AnswerOK(s.answers[a], s.standing[a], a \in s.released, a \in s.astray)

InCall(s) == ~s.disposed /\ GateOK(s) /\ (Calm(s) \/ Wild(s))

SessionOK(s) ==
  /\ SessionTyped(s)
  /\ AnswersOK(s)
  /\ HungUp(s) \/ InCall(s)

-----------------------------------------------------------------------------
(* The session and the detector.                                             *)

DetectorOK ==
  /\ clock \in Nat /\ turn \in Nat /\ finalAt \in Nat
  /\ phase \in Turns!Phases
  /\ phase = "provisional" => clock < finalAt

\* TakenBack, of a session and a detector within a handler.
Taken(s, last, now, a) ==
  \/ now = "talking" /\ s.answers[a].turn = last
  \/ \E b \in 1 .. Len(s.answers) : a < b /\ s.answers[a].turn = s.answers[b].turn

\* An answer that was confirmed is of a turn that is over for good, and the end
\* that one waits for is the detector's.
AnswerInTurn(s, last, now, final, a) ==
  /\ s.answers[a].turn <= last
  /\ s.answers[a].confirmed => s.answers[a].turn < last \/ now = "quiet"
  /\ Taken(s, last, now, a) => a # s.pending /\ ~s.answers[a].confirmed
  /\ (a = s.pending /\ ~s.answers[a].confirmed /\ s.answers[a].turn = last
        /\ now = "provisional") => s.answers[a].confirmedAt = final

\* While the machine thinks, it thinks about the last turn there was, or about
\* one of an earlier call.
ThinksOfLast(s, last, now) ==
  ~s.disposed /\ s.state = "thinking" =>
    IF s.pending = None THEN now = "quiet"
    ELSE s.answers[s.pending].turn = last /\ now # "talking"

TurnsOK(s, last, now, final) ==
  /\ \A a \in 1 .. Len(s.answers) : AnswerInTurn(s, last, now, final, a)
  /\ ThinksOfLast(s, last, now)

\* The answer waited for is confirmed, or its end is the one that is not final.
Waits(s, last, now, final) ==
  s.pending # None /\ ~s.answers[s.pending].confirmed =>
    /\ s.answers[s.pending].turn = last
    /\ now = "provisional" /\ s.answers[s.pending].confirmedAt = final

IInv ==
  /\ SessionOK(session)
  /\ DetectorOK
  /\ TurnsOK(session, turn, phase, finalAt)
  /\ Waits(session, turn, phase, finalAt)

-----------------------------------------------------------------------------
(* The table.                                                                *)

LEMMA TableMoves ==
  ASSUME NEW state, NEW trigger, NEW to,
         Move(state, trigger, to) \in transitionTable,
         \A m \in transitionTable : m.from = state /\ m.trigger = trigger => m.to = to
  PROVE  transition(state, trigger) = to
<1>1. Move(state, trigger, to).from = state /\ Move(state, trigger, to).trigger = trigger
  BY DEF Move
<1> QED
  BY <1>1 DEF transition

LEMMA TableStays ==
  ASSUME NEW state, NEW trigger,
         \A m \in transitionTable : ~(m.from = state /\ m.trigger = trigger)
  PROVE  transition(state, trigger) = state
BY DEF transition

\* The states of a conversation that was started.
Awake == {"listening", "thinking", "speaking", "interrupted"}

\* Where a call's dispatches take the machine.
LEMMA SessionMoves ==
  ASSUME NEW state \in Awake
  PROVE  /\ transition(state, "user.speech.started") =
              IF state = "thinking" THEN "listening" ELSE state
         /\ transition(state, "user.turn.ended") =
              IF state \in {"listening", "interrupted"} THEN "thinking" ELSE state
         /\ transition(state, "user.turn.resumed") =
              IF state = "thinking" THEN "listening" ELSE state
         /\ transition(state, "assistant.audio.started") =
              IF state = "thinking" THEN "speaking" ELSE state
         /\ transition(state, "assistant.interrupted") =
              IF state = "speaking" THEN "interrupted" ELSE state
         /\ transition(state, "assistant.message") =
              IF state \in {"thinking", "speaking"} THEN "listening" ELSE state
         /\ transition(state, "error") = IF state = "thinking" THEN "listening" ELSE state
<1> DEFINE Row(m, from, to) == m.from = from /\ m.to = to
<1>1. \A m \in transitionTable :
        /\ m.trigger = "user.speech.started" =>
             Row(m, "idle", "listening") \/ Row(m, "thinking", "listening")
        /\ m.trigger = "user.turn.ended" =>
             Row(m, "listening", "thinking") \/ Row(m, "interrupted", "thinking")
        /\ m.trigger = "user.turn.resumed" => Row(m, "thinking", "listening")
        /\ m.trigger = "assistant.audio.started" => Row(m, "thinking", "speaking")
        /\ m.trigger = "assistant.interrupted" => Row(m, "speaking", "interrupted")
        /\ m.trigger = "assistant.message" =>
             Row(m, "thinking", "listening") \/ Row(m, "speaking", "listening")
        /\ m.trigger = "error" => Row(m, "thinking", "listening")
  BY DEF transitionTable, Move
<1>2. /\ Move("thinking", "user.speech.started", "listening") \in transitionTable
      /\ Move("listening", "user.turn.ended", "thinking") \in transitionTable
      /\ Move("interrupted", "user.turn.ended", "thinking") \in transitionTable
      /\ Move("thinking", "user.turn.resumed", "listening") \in transitionTable
      /\ Move("thinking", "assistant.audio.started", "speaking") \in transitionTable
      /\ Move("speaking", "assistant.interrupted", "interrupted") \in transitionTable
      /\ Move("thinking", "assistant.message", "listening") \in transitionTable
      /\ Move("speaking", "assistant.message", "listening") \in transitionTable
      /\ Move("thinking", "error", "listening") \in transitionTable
  BY DEF transitionTable
<1>3. \A trigger \in {"user.speech.started", "user.turn.resumed", "error"} :
        transition(state, trigger) = IF state = "thinking" THEN "listening" ELSE state
  <2> SUFFICES ASSUME NEW trigger \in {"user.speech.started", "user.turn.resumed", "error"}
               PROVE  transition(state, trigger) =
                        IF state = "thinking" THEN "listening" ELSE state
    OBVIOUS
  <2>1. CASE state = "thinking"
    <3>1. transition("thinking", trigger) = "listening"
      BY <1>1, <1>2, TableMoves
    <3> QED
      BY <2>1, <3>1
  <2>2. CASE state # "thinking"
    <3>1. \A m \in transitionTable : ~(m.from = state /\ m.trigger = trigger)
      BY <1>1, <2>2 DEF Awake
    <3> QED
      BY <2>2, <3>1, TableStays
  <2> QED
    BY <2>1, <2>2
<1>4. transition(state, "user.turn.ended") =
        IF state \in {"listening", "interrupted"} THEN "thinking" ELSE state
  <2>1. CASE state \in {"listening", "interrupted"}
    <3>1. /\ transition("listening", "user.turn.ended") = "thinking"
          /\ transition("interrupted", "user.turn.ended") = "thinking"
      BY <1>1, <1>2, TableMoves
    <3> QED
      BY <2>1, <3>1
  <2>2. CASE state \notin {"listening", "interrupted"}
    <3>1. \A m \in transitionTable : ~(m.from = state /\ m.trigger = "user.turn.ended")
      BY <1>1, <2>2 DEF Awake
    <3> QED
      BY <2>2, <3>1, TableStays
  <2> QED
    BY <2>1, <2>2
<1>5. transition(state, "assistant.audio.started") =
        IF state = "thinking" THEN "speaking" ELSE state
  <2>1. CASE state = "thinking"
    <3>1. transition("thinking", "assistant.audio.started") = "speaking"
      BY <1>1, <1>2, TableMoves
    <3> QED
      BY <2>1, <3>1
  <2>2. CASE state # "thinking"
    <3>1. \A m \in transitionTable : ~(m.from = state /\ m.trigger = "assistant.audio.started")
      BY <1>1, <2>2
    <3> QED
      BY <2>2, <3>1, TableStays
  <2> QED
    BY <2>1, <2>2
<1>6. transition(state, "assistant.interrupted") =
        IF state = "speaking" THEN "interrupted" ELSE state
  <2>1. CASE state = "speaking"
    <3>1. transition("speaking", "assistant.interrupted") = "interrupted"
      BY <1>1, <1>2, TableMoves
    <3> QED
      BY <2>1, <3>1
  <2>2. CASE state # "speaking"
    <3>1. \A m \in transitionTable : ~(m.from = state /\ m.trigger = "assistant.interrupted")
      BY <1>1, <2>2
    <3> QED
      BY <2>2, <3>1, TableStays
  <2> QED
    BY <2>1, <2>2
<1>7. transition(state, "assistant.message") =
        IF state \in {"thinking", "speaking"} THEN "listening" ELSE state
  <2>1. CASE state \in {"thinking", "speaking"}
    <3>1. /\ transition("thinking", "assistant.message") = "listening"
          /\ transition("speaking", "assistant.message") = "listening"
      BY <1>1, <1>2, TableMoves
    <3> QED
      BY <2>1, <3>1
  <2>2. CASE state \notin {"thinking", "speaking"}
    <3>1. \A m \in transitionTable : ~(m.from = state /\ m.trigger = "assistant.message")
      BY <1>1, <2>2
    <3> QED
      BY <2>2, <3>1, TableStays
  <2> QED
    BY <2>1, <2>2
<1> QED
  BY <1>3, <1>4, <1>5, <1>6, <1>7

\* An event takes the machine from a state to a state.
LEMMA MovesBetweenStates ==
  ASSUME NEW state \in ConversationStates, NEW trigger
  PROVE  transition(state, trigger) \in ConversationStates
<1>1. \A m \in transitionTable : m.to \in ConversationStates
  BY DEF transitionTable, Move, ConversationStates
<1> QED
  BY <1>1 DEF transition

-----------------------------------------------------------------------------
(* The calls.                                                                *)

GateType == [kind : GateKinds, voiced : Nat, silent : Nat]

\* What a frame makes of the gate.
LEMMA GateStep ==
  ASSUME NEW gate \in GateType, NEW level
  PROVE  LET told == push(gate, level) IN
           /\ told.gate \in GateType
           /\ gate.kind = "disarmed" => told = Told(gate, "none")
           /\ told.action = "none" => told.gate.kind = gate.kind
           /\ told.action = "duck" => ducked(told.gate)
           /\ told.action = "unduck" => told.gate.kind = "listening"
           /\ told.action = "commit" => told.gate.kind = "committed"
           /\ told.action \in {"none", "duck", "unduck", "commit"}
<1>1. /\ firstFrame.gate \in GateType
      /\ \/ firstFrame.action = "duck" /\ ducked(firstFrame.gate)
         \/ firstFrame.action = "commit" /\ firstFrame.gate.kind = "committed"
  BY DEF firstFrame, Told, Gate, committedGate, ducked, GateType, GateKinds
<1>2. ASSUME gate.kind = "ducked"
      PROVE  /\ voicedFrame(gate).gate \in GateType
             /\ \/ voicedFrame(gate).action = "none" /\ voicedFrame(gate).gate.kind = "ducked"
                \/ voicedFrame(gate).action = "commit"
                     /\ voicedFrame(gate).gate.kind = "committed"
  BY DEF voicedFrame, Told, Gate, committedGate, GateType, GateKinds
<1>3. ASSUME gate.kind = "ducked"
      PROVE  /\ silentFrame(gate).gate \in GateType
             /\ \/ silentFrame(gate).action = "none" /\ silentFrame(gate).gate.kind = "ducked"
                \/ silentFrame(gate).action = "unduck"
                     /\ silentFrame(gate).gate.kind = "listening"
  BY <1>3 DEF silentFrame, Told, Gate, listeningGate, GateType, GateKinds
<1>4. /\ Told(gate, "none").gate = gate /\ Told(gate, "none").action = "none"
  BY DEF Told
<1>5. CASE gate.kind = "listening" /\ level = "high"
  BY <1>1, <1>5 DEF push
<1>6. CASE gate.kind = "ducked" /\ level # "low"
  BY <1>2, <1>6 DEF push
<1>7. CASE gate.kind = "ducked" /\ level = "low"
  BY <1>3, <1>7 DEF push
<1>8. CASE ~(gate.kind = "listening" /\ level = "high") /\ gate.kind # "ducked"
  BY <1>4, <1>8 DEF push
<1> QED
  BY <1>5, <1>6, <1>7, <1>8

\* Nothing but the machine and what follows it has changed.
SameButMachine(s, t) ==
  /\ t.pending = s.pending /\ t.reply = s.reply /\ t.answers = s.answers
  /\ t.standing = s.standing /\ t.released = s.released /\ t.told = s.told
  /\ t.disposed = s.disposed /\ t.astray = s.astray

\* A dispatch moves the machine by the table, and the gate follows it.
LEMMA DispatchIs ==
  ASSUME NEW s \in SessionType, NEW trigger
  PROVE  LET t == Dispatch(s, trigger) IN
           /\ t \in SessionType
           /\ SameButMachine(s, t)
           /\ t.state = transition(s.state, trigger)
           /\ ~s.disposed /\ GateOK(s) => GateOK(t)
<1> DEFINE to == transition(s.state, trigger)
           t == Dispatch(s, trigger)
<1>1. to \in ConversationStates
  BY MovesBetweenStates DEF SessionType
<1> HIDE DEF to
<1>2. CASE to = s.state \/ s.disposed
  <2>1. t = [s EXCEPT !.state = to]
    BY <1>2 DEF Dispatch, to
  <2> QED
    BY <1>1, <1>2, <2>1 DEF SessionType, SameButMachine, GateOK, to
<1>3. CASE to # s.state /\ to = "speaking" /\ ~s.disposed
  <2>1. t = [s EXCEPT !.state = to, !.gate = arm(s.gate)]
    BY <1>3 DEF Dispatch, to
  <2>2. arm(s.gate) \in GateType
    BY DEF arm, listeningGate, Gate, GateKinds, GateType, SessionType
  <2>3. t \in SessionType /\ SameButMachine(s, t) /\ t.state = to
    BY <1>1, <2>1, <2>2 DEF SessionType, SameButMachine, GateType
  <2>4. t.gain = s.gain /\ t.gate = arm(s.gate)
    BY <2>1 DEF SessionType
  <2>5. GateOK(s) => GateOK(t)
    BY <1>3, <2>3, <2>4 DEF GateOK, SameButMachine, arm, listeningGate, Gate, ducked
  <2> QED
    BY <2>3, <2>5 DEF to
<1>4. CASE to # s.state /\ s.state = "speaking" /\ ~s.disposed
  <2> DEFINE gain == IF disarm(s.gate).action = "unduck" THEN "unity" ELSE s.gain
  <2>1. t = [s EXCEPT !.state = to, !.gate = disarmedGate, !.gain = gain]
    BY <1>4 DEF Dispatch, LeavesSpeaking, disarm, Told, to
  <2>2. gain = IF ducked(s.gate) THEN "unity" ELSE s.gain
    BY DEF disarm, Told
  <2>3. disarmedGate \in GateType /\ disarmedGate.kind = "disarmed"
    BY DEF disarmedGate, Gate, GateKinds, GateType
  <2> HIDE DEF gain
  <2>4. t \in SessionType /\ SameButMachine(s, t) /\ t.state = to
    BY <1>1, <2>1, <2>2, <2>3 DEF SessionType, SameButMachine, GateType
  <2>5. t.gain = gain /\ t.gate = disarmedGate
    BY <2>1 DEF SessionType
  <2>6. GateOK(s) => GateOK(t)
    BY <1>4, <2>2, <2>3, <2>4, <2>5 DEF GateOK, SameButMachine, ducked
  <2> QED
    BY <2>4, <2>6 DEF to
<1>5. CASE to # s.state /\ to # "speaking" /\ s.state # "speaking" /\ ~s.disposed
  <2>1. t = [s EXCEPT !.state = to]
    BY <1>5 DEF Dispatch, to
  <2> QED
    BY <1>1, <1>5, <2>1 DEF SessionType, SameButMachine, GateOK, to
<1> QED
  BY <1>2, <1>3, <1>4, <1>5

\* What is asked of the replies is one reply's to do, but that the frame which cuts
\* an answer may be the one that confirms a turn.
Drives(s, t) ==
  \/ t.standing = s.standing /\ t.released = s.released
  \/ \E r \in 1 .. MaxAnswers :
       t.standing = s.standing /\ t.released = s.released \cup {r}
  \/ \E r \in 1 .. MaxAnswers : \E to :
       /\ t.standing = [s.standing EXCEPT ![r] = to]
       /\ \/ s.standing[r] = "working" /\ to = "abandoned"
          \/ s.standing[r] = "audible" /\ to = "interrupted"
       /\ t.released = s.released
            \/ \E q \in 1 .. MaxAnswers : t.released = s.released \cup {q}
  \/ \E r \in 1 .. MaxAnswers : \E to :
       /\ t.released = s.released
       /\ t.standing = [s.standing EXCEPT ![r] = to]
       /\ \/ s.standing[r] = "none" /\ to = "working"
          \/ s.standing[r] = "working" /\ r \in s.released /\ to = "audible"
          \/ s.standing[r] \in Living /\ to \in {"complete", "failed"}

\* reply.interrupt does nothing to an answer that is over.
LEMMA InterruptIs ==
  ASSUME NEW s \in SessionType, NEW r \in 1 .. MaxAnswers
  PROVE  LET t == InterruptReply(s, r) IN
           /\ s.standing[r] \notin Living => t = s
           /\ s.standing[r] \in Living =>
                /\ t \in SessionType
                /\ t.standing = [s.standing EXCEPT ![r] =
                     IF s.standing[r] = "working" THEN "abandoned" ELSE "interrupted"]
                /\ t.told = s.told \cup {r}
                /\ t.gain = IF s.standing[r] = "audible" THEN "unity" ELSE s.gain
                /\ t.state = s.state /\ t.gate = s.gate /\ t.pending = s.pending
                /\ t.reply = s.reply /\ t.answers = s.answers
                /\ t.released = s.released /\ t.disposed = s.disposed
                /\ t.astray = s.astray
<1> DEFINE t == InterruptReply(s, r)
           to == IF s.standing[r] = "working" THEN "abandoned" ELSE "interrupted"
           standing == [s.standing EXCEPT ![r] = to]
           gain == IF s.standing[r] = "audible" THEN "unity" ELSE s.gain
<1>1. Spoken!Live = Living
  BY DEF Spoken!Live, Living
<1>2. CASE s.standing[r] \notin Living
  BY <1>1, <1>2 DEF InterruptReply
<1>3. CASE s.standing[r] \in Living
  <2>1. Spoken!Interrupted(s.standing[r]) = to
    BY <1>3 DEF Spoken!Interrupted, Living
  <2>2. t = [s EXCEPT !.standing = standing, !.told = s.told \cup {r}, !.gain = gain]
    BY <1>1, <1>3, <2>1 DEF InterruptReply
  <2>3. standing \in [1 .. MaxAnswers -> Statuses] /\ gain \in {"unity", "ducked"}
        /\ s.told \cup {r} \in SUBSET Nat
    BY DEF SessionType, Statuses
  <2> HIDE DEF standing, gain
  <2>4. t \in SessionType
    BY <2>2, <2>3 DEF SessionType
  <2>5. /\ t.standing = standing /\ t.told = s.told \cup {r} /\ t.gain = gain
        /\ t.state = s.state /\ t.gate = s.gate /\ t.pending = s.pending
        /\ t.reply = s.reply /\ t.answers = s.answers
        /\ t.released = s.released /\ t.disposed = s.disposed /\ t.astray = s.astray
    BY <2>2 DEF SessionType
  <2> QED
    BY <1>3, <2>4, <2>5 DEF standing, gain
<1> QED
  BY <1>2, <1>3

\* What may become of an answer but that it is begun or heard.
Ends(was, is) ==
  \/ is = was
  \/ was \in Living /\ is \in {"complete", "interrupted", "failed"}
  \/ was = "working" /\ is = "abandoned"

\* The answers do not change, nor what has become of them but for those settled.
LEMMA AnswersKept ==
  ASSUME NEW s, NEW t, AnswersOK(s), Len(s.answers) \in Nat, Len(s.answers) <= MaxAnswers,
         t.answers = s.answers, t.released = s.released, t.astray = s.astray,
         \A r \in 1 .. MaxAnswers :
           /\ Ends(s.standing[r], t.standing[r])
           /\ t.standing[r] \in Living => r = t.reply \/ r \in s.astray
  PROVE  AnswersOK(t)
<1>1. ASSUME NEW a \in 1 .. Len(s.answers)
      PROVE  AnswerOK(t.answers[a], t.standing[a], a \in t.released, a \in t.astray)
  <2>1. AnswerOK(s.answers[a], s.standing[a], a \in s.released, a \in s.astray)
    BY DEF AnswersOK
  <2>2. a \in 1 .. MaxAnswers
    BY SessionAssumption
  <2>3. CASE t.standing[a] = s.standing[a]
    BY <2>1, <2>3
  <2>4. CASE t.standing[a] # s.standing[a]
    <3>1. /\ s.standing[a] \in Living
          /\ t.standing[a] \notin {"none", "working", "audible"} /\ t.standing[a] \notin Living
          /\ t.standing[a] = "abandoned" => s.standing[a] = "working"
      BY <2>2, <2>4 DEF Ends, Living
    <3>2. s.answers[a].text # "asked"
      BY <2>1, <3>1 DEF AnswerOK, Living
    <3> QED
      BY <2>1, <3>1, <3>2 DEF AnswerOK
  <2> QED
    BY <2>3, <2>4
<1>2. ASSUME NEW r \in 1 .. MaxAnswers, r > Len(s.answers)
      PROVE  t.standing[r] = "none"
  BY <1>2 DEF AnswersOK, Ends, Living
<1> QED
  BY <1>1, <1>2 DEF AnswersOK

\* A dispatch keeps the answers, and the typing.
LEMMA DispatchKeeps ==
  ASSUME NEW s, NEW trigger, SessionTyped(s), AnswersOK(s)
  PROVE  LET t == Dispatch(s, trigger) IN
           /\ SessionTyped(t) /\ AnswersOK(t) /\ SameButMachine(s, t)
           /\ t.state = transition(s.state, trigger)
           /\ ~s.disposed /\ GateOK(s) => GateOK(t)
<1> DEFINE t == Dispatch(s, trigger)
<1>1. /\ t \in SessionType /\ SameButMachine(s, t)
      /\ t.state = transition(s.state, trigger)
      /\ ~s.disposed /\ GateOK(s) => GateOK(t)
  BY DispatchIs DEF SessionTyped
<1>2. SessionTyped(t) /\ AnswersOK(t)
  BY <1>1 DEF SessionTyped, AnswersOK, SameButMachine
<1> QED
  BY <1>1, <1>2

-----------------------------------------------------------------------------
(* The situations.                                                           *)

LEMMA AnswersAreTyped ==
  ASSUME NEW s, SessionTyped(s)
  PROVE  /\ Len(s.answers) \in Nat /\ Len(s.answers) <= MaxAnswers
         /\ s.pending # None => s.pending \in 1 .. Len(s.answers)
         /\ s.reply # None => s.reply \in 1 .. Len(s.answers)
         /\ \A a \in 1 .. Len(s.answers) :
              /\ a \in 1 .. MaxAnswers /\ a # None
              /\ s.answers[a] \in AnswerType
              /\ s.answers[a].turn \in Nat /\ s.answers[a].confirmedAt \in Nat
<1>1. s.answers \in Seq(AnswerType)
  BY DEF SessionTyped, SessionType
<1>2. Len(s.answers) \in Nat /\ \A a \in 1 .. Len(s.answers) : s.answers[a] \in AnswerType
  BY <1>1
<1> QED
  BY <1>2, SessionAssumption DEF SessionTyped, None, AnswerType

\* What the seven situations have in common.
LEMMA CalmIsLoose ==
  ASSUME NEW s, SessionTyped(s), AnswersOK(s), Calm(s)
  PROVE  Loose(s)
<1>1. /\ Len(s.answers) \in Nat /\ Len(s.answers) <= MaxAnswers
      /\ s.pending # None => s.pending \in 1 .. Len(s.answers)
      /\ s.reply # None => s.reply \in 1 .. Len(s.answers)
      /\ \A a \in 1 .. Len(s.answers) : a \in 1 .. MaxAnswers /\ a # None
  BY AnswersAreTyped
<1>2. \A r \in 1 .. Len(s.answers) : s.standing[r] \in Living => r = s.reply
  BY <1>1 DEF Calm
<1>3. \A a \in 1 .. Len(s.answers) :
        AnswerOK(s.answers[a], s.standing[a], a \in s.released, a \in s.astray)
  BY DEF AnswersOK
<1>4. CASE Resting(s)
  BY <1>1, <1>2, <1>4 DEF Resting, Loose
<1>5. CASE Recognising(s)
  <2>1. s.standing[s.pending] = "none"
    BY <1>1, <1>3, <1>5 DEF Recognising, AnswerOK
  <2> QED
    BY <1>1, <1>2, <1>5, <2>1 DEF Recognising, Loose
<1>6. CASE Making(s)
  BY <1>1, <1>2, <1>6 DEF Making, Loose, Living
<1>7. CASE Speaking(s)
  <2>1. s.answers[s.reply].heard
    BY <1>1, <1>3, <1>7 DEF Speaking, AnswerOK
  <2>2. Voiced(s, s.reply) /\ s.reply \in 1 .. Len(s.answers)
    BY <1>1, <1>7, <2>1 DEF Speaking, Voiced, Living
  <2> QED
    BY <1>1, <1>2, <1>7, <2>2 DEF Speaking, Loose, Living
<1>8. CASE RanOut(s)
  <2>1. s.state = "speaking" => \E r \in 1 .. Len(s.answers) : Voiced(s, r)
    BY <1>1, <1>8 DEF RanOut, Voiced
  <2> QED
    BY <1>1, <1>2, <1>8, <2>1 DEF RanOut, Loose, Living
<1>9. CASE Cut(s)
  BY <1>1, <1>2, <1>9 DEF Cut, Loose, Living
<1>10. CASE GivenUp(s)
  BY <1>1, <1>2, <1>10 DEF GivenUp, Loose, Living
<1> QED
  BY <1>4, <1>5, <1>6, <1>7, <1>8, <1>9, <1>10 DEF Calm

\* A call that is not over, whatever else has moved the machine.
LEMMA LooseOf ==
  ASSUME NEW s, SessionOK(s), ~s.disposed
  PROVE  /\ SessionTyped(s) /\ AnswersOK(s) /\ GateOK(s) /\ Loose(s)
         /\ s.state \in Awake /\ s \in SessionType
         /\ Calm(s) \/ Wild(s)
<1>1. SessionTyped(s) /\ AnswersOK(s) /\ GateOK(s) /\ (Calm(s) \/ Wild(s))
  BY DEF SessionOK, InCall, HungUp
<1>2. Loose(s)
  BY <1>1, CalmIsLoose DEF Wild
<1> QED
  BY <1>1, <1>2 DEF Loose, Awake, SessionTyped, SessionType, ConversationStates

\* Nothing has changed that the situations tell apart.
SameSituation(s, t) ==
  /\ t.state = s.state /\ t.pending = s.pending /\ t.reply = s.reply
  /\ t.told = s.told /\ t.standing = s.standing /\ t.astray = s.astray
  /\ t.disposed = s.disposed
  /\ Len(t.answers) = Len(s.answers)
  /\ \A a \in 1 .. Len(s.answers) :
       /\ t.answers[a].heard = s.answers[a].heard
       /\ s.answers[a].confirmed => t.answers[a].confirmed
  /\ s.pending # None => t.answers[s.pending].text = s.answers[s.pending].text

LEMMA SituationsKept ==
  ASSUME NEW s, NEW t, SessionTyped(s), SameSituation(s, t)
  PROVE  /\ Calm(s) => Calm(t)
         /\ Wild(s) => Wild(t)
         /\ HungUp(s) => HungUp(t)
<1>1. /\ s.pending # None => s.pending \in 1 .. Len(s.answers)
      /\ s.reply # None => s.reply \in 1 .. Len(s.answers)
  BY AnswersAreTyped
<1>2. ASSUME Calm(s) PROVE Calm(t)
  <2>1. \A r \in 1 .. MaxAnswers : t.standing[r] \in Living => r = t.reply
    BY <1>2 DEF Calm, SameSituation
  <2>2. /\ Resting(s) => Resting(t)
        /\ Recognising(s) => Recognising(t)
        /\ Making(s) => Making(t)
        /\ Speaking(s) => Speaking(t)
    BY DEF SameSituation, Resting, Recognising, Making, Speaking
  <2>3. /\ RanOut(s) => RanOut(t)
        /\ Cut(s) => Cut(t)
        /\ GivenUp(s) => GivenUp(t)
    BY <1>1 DEF SameSituation, RanOut, Cut, GivenUp
  <2> QED
    BY <1>2, <2>1, <2>2, <2>3 DEF Calm
<1>3. ASSUME Loose(s) PROVE Loose(t)
  <2>1. \A r \in 1 .. Len(s.answers) : Voiced(s, r) => Voiced(t, r)
    BY DEF SameSituation, Voiced
  <2> QED
    BY <1>1, <1>3, <2>1 DEF SameSituation, Loose
<1>4. ASSUME Wild(s) PROVE Wild(t)
  BY <1>3, <1>4 DEF SameSituation, Wild
<1> QED
  BY <1>2, <1>4 DEF SameSituation, HungUp

LEMMA StaysOK ==
  ASSUME NEW s, NEW t, SessionOK(s), SameSituation(s, t), SessionTyped(t), AnswersOK(t),
         ~s.disposed => GateOK(t)
  PROVE  SessionOK(t)
<1>1. /\ Calm(s) => Calm(t)
      /\ Wild(s) => Wild(t)
      /\ HungUp(s) => HungUp(t)
  BY SituationsKept DEF SessionOK
<1>2. t.disposed = s.disposed
  BY DEF SameSituation
<1> QED
  BY <1>1, <1>2 DEF SessionOK, InCall, HungUp

-----------------------------------------------------------------------------
(* The turn's handlers.                                                      *)

\* Before a frame or the judge's answer, nothing waits to be told.
LEMMA NothingToTell ==
  ASSUME NEW s, SessionOK(s), ~s.disposed, s.told = {}
  PROVE  /\ s.reply # None => s.standing[s.reply] \in Living
         /\ Calm(s) => Resting(s) \/ Recognising(s) \/ Making(s) \/ Speaking(s)
<1>1. Loose(s)
  BY LooseOf
<1> QED
  BY <1>1 DEF Loose, Calm, RanOut, Cut, GivenUp

\* abandon(), of an answer nothing was heard of.
LEMMA AbandonIs ==
  ASSUME NEW s, SessionOK(s), ~s.disposed, s.told = {},
         s.pending # None => s.standing[s.pending] # "audible"
  PROVE  LET t == Abandon(s) IN
           /\ SessionTyped(t) /\ AnswersOK(t) /\ GateOK(t)
           /\ t.state = s.state /\ t.pending = None /\ t.reply = s.reply
           /\ t.answers = s.answers /\ t.released = s.released
           /\ t.astray = s.astray /\ t.disposed = s.disposed
           /\ \/ /\ s.pending # None => s.standing[s.pending] \notin Living
                 /\ t.standing = s.standing /\ t.told = {}
              \/ /\ s.pending # None /\ s.pending = s.reply /\ s.pending \in 1 .. MaxAnswers
                 /\ s.standing[s.pending] = "working" /\ t.told = {s.pending}
                 /\ t.standing = [s.standing EXCEPT ![s.pending] = "abandoned"]
<1> DEFINE dropped == [s EXCEPT !.pending = None]
           t == Abandon(s)
<1>1. /\ SessionTyped(s) /\ AnswersOK(s) /\ GateOK(s) /\ Loose(s) /\ s \in SessionType
  BY LooseOf
<1>2. /\ Len(s.answers) \in Nat /\ Len(s.answers) <= MaxAnswers
      /\ s.pending # None => s.pending \in 1 .. Len(s.answers) /\ s.pending \in 1 .. MaxAnswers
  BY <1>1, AnswersAreTyped
<1>3. /\ dropped \in SessionType
      /\ dropped.pending = None /\ dropped.standing = s.standing /\ dropped.told = s.told
      /\ dropped.gain = s.gain /\ dropped.state = s.state /\ dropped.gate = s.gate
      /\ dropped.reply = s.reply /\ dropped.answers = s.answers
      /\ dropped.released = s.released /\ dropped.disposed = s.disposed
      /\ dropped.astray = s.astray
  BY <1>1 DEF SessionType, None
<1>4. t = IF s.pending # None THEN InterruptReply(dropped, s.pending) ELSE dropped
  BY DEF Abandon
<1> HIDE DEF dropped, t
<1>5. SessionTyped(dropped) /\ AnswersOK(dropped) /\ GateOK(dropped)
  BY <1>1, <1>3 DEF SessionTyped, AnswersOK, GateOK
<1>6. CASE s.pending # None /\ s.standing[s.pending] \in Living
  <2>1. s.standing[s.pending] = "working" /\ s.pending = s.reply
    <3>1. AnswerOK(s.answers[s.pending], s.standing[s.pending],
                   s.pending \in s.released, s.pending \in s.astray)
      BY <1>1, <1>2, <1>6 DEF AnswersOK
    <3>2. s.answers[s.pending].text # "asked"
      BY <1>6, <3>1 DEF AnswerOK, Living
    <3> QED
      BY <1>1, <1>6, <3>2 DEF Loose, Living
  <2>2. /\ t \in SessionType
        /\ t.standing = [s.standing EXCEPT ![s.pending] = "abandoned"]
        /\ t.told = {s.pending} /\ t.gain = s.gain
        /\ t.state = s.state /\ t.gate = s.gate /\ t.pending = None
        /\ t.reply = s.reply /\ t.answers = s.answers
        /\ t.released = s.released /\ t.disposed = s.disposed /\ t.astray = s.astray
    <3>1. t = InterruptReply(dropped, s.pending) /\ s.pending \in 1 .. MaxAnswers
      BY <1>2, <1>4, <1>6
    <3>2. dropped.standing[s.pending] = "working" /\ "working" \in Living
      BY <1>3, <2>1 DEF Living
    <3> QED
      BY <1>3, <3>1, <3>2, InterruptIs
  <2>3. \A r \in 1 .. MaxAnswers :
          t.standing[r] = IF r = s.pending THEN "abandoned" ELSE s.standing[r]
    BY <1>1, <1>2, <1>6, <2>2 DEF SessionType
  <2>4. AnswersOK(t)
    <3>1. \A r \in 1 .. MaxAnswers :
            /\ Ends(s.standing[r], t.standing[r])
            /\ t.standing[r] \in Living => r = t.reply \/ r \in s.astray
      BY <1>1, <2>1, <2>2, <2>3 DEF Ends, Living, AnswersOK
    <3> QED
      BY <1>1, <1>2, <2>2, <3>1, AnswersKept
  <2>5. SessionTyped(t) /\ GateOK(t)
    BY <1>1, <2>2 DEF SessionTyped, GateOK
  <2> QED
    BY <1>2, <1>6, <2>1, <2>2, <2>4, <2>5 DEF t
<1>7. CASE ~(s.pending # None /\ s.standing[s.pending] \in Living)
  <2>1. t = dropped
    <3>1. CASE s.pending = None
      BY <1>4, <3>1
    <3>2. CASE s.pending # None
      <4>1. t = InterruptReply(dropped, s.pending) /\ s.pending \in 1 .. MaxAnswers
        BY <1>2, <1>4, <3>2
      <4>2. dropped.standing[s.pending] \notin Living
        BY <1>3, <1>7, <3>2
      <4> QED
        BY <1>3, <4>1, <4>2, InterruptIs
    <3> QED
      BY <3>1, <3>2
  <2> QED
    BY <1>3, <1>5, <1>7, <2>1 DEF t
<1> QED
  BY <1>6, <1>7

\* What giving up leaves of a session, but that the machine no longer thinks.
GivenUpFrom(s, t) ==
  /\ SessionOK(t) /\ ~t.disposed
  /\ t.state = (IF s.state = "thinking" THEN "listening" ELSE s.state)
  /\ t.pending = None /\ t.reply = s.reply
  /\ t.answers = s.answers /\ t.released = s.released
  /\ \/ t.standing = s.standing /\ t.told = {}
     \/ /\ s.reply \in 1 .. MaxAnswers /\ s.reply # None
        /\ s.standing[s.reply] = "working"
        /\ t.standing = [s.standing EXCEPT ![s.reply] = "abandoned"]

\* The user goes on, or speaks again, before anything of the answer was heard.
LEMMA GivesUp ==
  ASSUME NEW s, NEW trigger \in {"user.speech.started", "user.turn.resumed"},
         SessionOK(s), ~s.disposed, s.told = {},
         s.pending # None => s.standing[s.pending] # "audible"
  PROVE  GivenUpFrom(s, Dispatch(Abandon(s), trigger))
<1>1. PICK u : u = Abandon(s)
  OBVIOUS
<1>2. PICK t : t = Dispatch(u, trigger)
  OBVIOUS
<1>3. /\ SessionTyped(s) /\ AnswersOK(s) /\ Loose(s) /\ s.state \in Awake
      /\ Calm(s) \/ Wild(s)
      /\ Calm(s) => Resting(s) \/ Recognising(s) \/ Making(s) \/ Speaking(s)
      /\ s.reply # None => s.standing[s.reply] \in Living /\ s.reply \in 1 .. MaxAnswers
      /\ s \in SessionType
  BY LooseOf, NothingToTell, AnswersAreTyped
<1>4. /\ SessionTyped(u) /\ AnswersOK(u) /\ GateOK(u)
      /\ u.state = s.state /\ u.pending = None /\ u.reply = s.reply
      /\ u.answers = s.answers /\ u.released = s.released
      /\ u.astray = s.astray /\ u.disposed = s.disposed
      /\ \/ /\ s.pending # None => s.standing[s.pending] \notin Living
            /\ u.standing = s.standing /\ u.told = {}
         \/ /\ s.pending # None /\ s.pending = s.reply /\ s.pending \in 1 .. MaxAnswers
            /\ s.standing[s.pending] = "working" /\ u.told = {s.pending}
            /\ u.standing = [s.standing EXCEPT ![s.pending] = "abandoned"]
  BY <1>1, AbandonIs
<1>5. /\ SessionTyped(t) /\ AnswersOK(t) /\ GateOK(t) /\ SameButMachine(u, t)
      /\ t.state = IF s.state = "thinking" THEN "listening" ELSE s.state
  BY <1>2, <1>3, <1>4, DispatchKeeps, SessionMoves
<1>6. CASE /\ s.pending # None => s.standing[s.pending] \notin Living
           /\ t.standing = s.standing /\ t.told = {}
  <2>1. ASSUME Calm(s) PROVE Calm(t)
    <3>1. ~Making(s) /\ ~Speaking(s)
      BY <1>6 DEF Making, Speaking, Living
    <3>2. Resting(s) \/ Recognising(s)
      BY <1>3, <2>1, <3>1
    <3>3. Resting(t)
      BY <1>4, <1>5, <1>6, <3>2 DEF Resting, Recognising, SameButMachine
    <3>4. \A r \in 1 .. MaxAnswers : t.standing[r] \in Living => r = t.reply
      BY <1>4, <1>5, <1>6, <2>1 DEF Calm, SameButMachine
    <3> QED
      BY <3>3, <3>4 DEF Calm
  <2>2. ASSUME Wild(s) PROVE Wild(t)
    <3>1. /\ t.answers = s.answers /\ t.pending = None /\ t.reply = s.reply
          /\ t.astray = s.astray
      BY <1>4, <1>5 DEF SameButMachine
    <3>2. \A r \in 1 .. Len(s.answers) : Voiced(s, r) => Voiced(t, r)
      BY <1>6, <3>1 DEF Voiced
    <3>3. t.state \in {"listening", "speaking", "interrupted"}
          /\ (t.state = "speaking" => s.state = "speaking")
      BY <1>3, <1>5 DEF Awake
    <3>4. Loose(t)
      BY <1>3, <1>6, <3>1, <3>2, <3>3 DEF Loose
    <3>5. \A a \in 1 .. Len(s.answers) : a # None
      BY <1>3, AnswersAreTyped
    <3> QED
      BY <1>6, <2>2, <3>1, <3>4, <3>5 DEF Wild
  <2>3. SessionOK(t) /\ ~t.disposed
    BY <1>3, <1>4, <1>5, <2>1, <2>2 DEF SessionOK, InCall, SameButMachine
  <2> QED
    BY <1>1, <1>2, <1>4, <1>5, <1>6, <2>3 DEF GivenUpFrom, SameButMachine
<1>7. CASE /\ s.pending # None /\ s.pending = s.reply /\ s.pending \in 1 .. MaxAnswers
           /\ s.standing[s.pending] = "working" /\ t.told = {s.pending}
           /\ t.standing = [s.standing EXCEPT ![s.pending] = "abandoned"]
  <2>1. \A r \in 1 .. MaxAnswers :
          t.standing[r] = IF r = s.pending THEN "abandoned" ELSE s.standing[r]
    BY <1>3, <1>7 DEF SessionType
  <2>2. /\ t.answers = s.answers /\ t.pending = None /\ t.reply = s.reply
        /\ t.astray = s.astray
    BY <1>4, <1>5 DEF SameButMachine
  <2>3. s.pending \in 1 .. Len(s.answers) /\ Len(s.answers) <= MaxAnswers
        /\ \A r \in 1 .. Len(s.answers) : r \in 1 .. MaxAnswers /\ r # None
    BY <1>3, <1>7, AnswersAreTyped
  <2>4. ~s.answers[s.pending].heard
    <3>1. AnswerOK(s.answers[s.pending], s.standing[s.pending],
                   s.pending \in s.released, s.pending \in s.astray)
      BY <1>3, <2>3 DEF AnswersOK
    <3> QED
      BY <1>7, <3>1 DEF AnswerOK
  <2>5. ASSUME Calm(s) PROVE Calm(t)
    <3>1. Making(s)
      BY <1>3, <1>7, <2>5 DEF Resting, Recognising, Speaking
    <3>2. GivenUp(t)
      BY <1>5, <1>7, <2>1, <2>2, <2>4, <3>1 DEF Making, GivenUp
    <3>3. \A r \in 1 .. MaxAnswers : t.standing[r] \in Living => r = t.reply
      BY <2>1, <2>2, <2>5 DEF Calm, Living
    <3> QED
      BY <3>2, <3>3 DEF Calm
  <2>6. ASSUME Wild(s) PROVE Wild(t)
    <3>1. \A r \in 1 .. Len(s.answers) : Voiced(s, r) => Voiced(t, r)
      BY <2>1, <2>2, <2>3, <2>4, <1>7, s.told = {} DEF Voiced
    <3>2. t.state \in {"listening", "speaking", "interrupted"}
          /\ (t.state = "speaking" => s.state = "speaking")
      BY <1>3, <1>5 DEF Awake
    <3>3. \A r \in 1 .. Len(s.answers) :
            /\ t.standing[r] \in Living => s.standing[r] \in Living /\ r # s.pending
            /\ r \in t.told => r = s.pending
      BY <1>7, <2>1, <2>3 DEF Living
    <3>4. Loose(t)
      BY <1>3, <1>7, <2>1, <2>2, <2>3, <3>1, <3>2, <3>3 DEF Loose
    <3> QED
      BY <2>2, <2>3, <2>6, <3>3, <3>4 DEF Wild
  <2>7. SessionOK(t) /\ ~t.disposed
    BY <1>3, <1>4, <1>5, <2>5, <2>6 DEF SessionOK, InCall, SameButMachine
  <2> QED
    BY <1>1, <1>2, <1>4, <1>5, <1>7, <2>7 DEF GivenUpFrom, SameButMachine
<1> QED
  BY <1>4, <1>5, <1>6, <1>7 DEF SameButMachine

LEMMA SpeechStarts ==
  ASSUME NEW s, NEW event, SessionOK(s), ~s.disposed, s.told = {},
         event.type = "speech-start"
  PROVE  LET t == OnTurn(s, event) IN
           /\ t.state # "thinking"
           /\ t = s \/ GivenUpFrom(s, t)
<1> DEFINE t == OnTurn(s, event)
<1>1. SessionTyped(s) /\ Loose(s) /\ s.state \in Awake /\ s \in SessionType
  BY LooseOf
<1>2. CASE s.state = "thinking"
  <2>1. t = Dispatch(Abandon(s), "user.speech.started")
    BY <1>2 DEF OnTurn
  <2>2. s.pending # None => s.standing[s.pending] # "audible"
    BY <1>1, <1>2, AnswersAreTyped DEF Loose
  <2>3. GivenUpFrom(s, t)
    BY <2>1, <2>2, GivesUp
  <2> QED
    BY <1>2, <2>3 DEF GivenUpFrom
<1>3. CASE s.state # "thinking"
  <2>1. t = Dispatch(s, "user.speech.started")
    BY <1>3 DEF OnTurn
  <2>2. t = [s EXCEPT !.state = s.state]
    BY <1>1, <1>3, <2>1, SessionMoves DEF Dispatch
  <2>3. t = s
    BY <1>1, <2>2 DEF SessionType
  <2> QED
    BY <1>3, <2>3
<1> QED
  BY <1>2, <1>3

LEMMA TurnIsResumed ==
  ASSUME NEW s, NEW event, SessionOK(s), ~s.disposed, s.told = {},
         event.type = "turn-resumed",
         s.pending # None /\ s.answers[s.pending].turn = event.turn =>
           s.standing[s.pending] # "audible"
  PROVE  LET t == OnTurn(s, event) IN
           \/ t = s /\ ~(s.pending # None /\ s.answers[s.pending].turn = event.turn)
           \/ GivenUpFrom(s, t)
<1> DEFINE t == OnTurn(s, event)
<1>1. CASE s.pending # None /\ s.answers[s.pending].turn = event.turn
  <2>1. t = Dispatch(Abandon(s), "user.turn.resumed")
    BY <1>1 DEF OnTurn
  <2> QED
    BY <1>1, <2>1, GivesUp
<1>2. CASE ~(s.pending # None /\ s.answers[s.pending].turn = event.turn)
  BY <1>2 DEF OnTurn
<1> QED
  BY <1>1, <1>2

\* An answer that is asked for is astray when another still is.
AnswerIs(s, t, id, at) ==
  /\ t.state = "thinking" /\ t.pending = Len(s.answers) + 1 /\ t.reply = s.reply
  /\ t.answers = Append(s.answers, NewAnswer(id, at))
  /\ t.standing = s.standing /\ t.released = s.released /\ t.told = s.told
  /\ t.disposed = s.disposed /\ t \in SessionType
  /\ (\E a \in s.astray : s.standing[a] \in Living) =>
       t.astray = s.astray \cup {Len(s.answers) + 1}
  /\ ~(\E a \in s.astray : s.standing[a] \in Living) => t.astray = s.astray
  /\ GateOK(t)

LEMMA AnswerAsked ==
  ASSUME NEW s, NEW id \in Nat, NEW at \in Nat, SessionOK(s), ~s.disposed,
         s.state \in {"listening", "interrupted"}, Len(s.answers) < MaxAnswers
  PROVE  AnswerIs(s, Answer(Dispatch(s, "user.turn.ended"), id, at), id, at)
<1>1. PICK u : u = Dispatch(s, "user.turn.ended")
  OBVIOUS
<1>2. PICK t : t = Answer(u, id, at)
  OBVIOUS
<1>3. /\ SessionTyped(u) /\ GateOK(u) /\ SameButMachine(s, u) /\ u.state = "thinking"
      /\ u \in SessionType
  BY <1>1, LooseOf, DispatchKeeps, SessionMoves DEF SessionTyped
<1> DEFINE new == Len(s.answers) + 1
           answers == Append(s.answers, NewAnswer(id, at))
           astray == IF \E a \in s.astray : s.standing[a] \in Spoken!Live
                     THEN s.astray \cup {new} ELSE s.astray
<1>4. t = [u EXCEPT !.answers = answers, !.pending = new, !.astray = astray]
  BY <1>2, <1>3 DEF Answer, SameButMachine
<1>5. NewAnswer(id, at) \in AnswerType /\ s.answers \in Seq(AnswerType) /\ s.astray \subseteq Nat
  <2>1. s \in SessionType
    BY LooseOf
  <2> QED
    BY <2>1 DEF NewAnswer, AnswerType, SessionType
<1>6. answers \in Seq(AnswerType) /\ new \in Nat
  BY <1>5, AppendProperties
<1>7. astray \in SUBSET Nat
  BY <1>5, <1>6
<1>8. /\ (\E a \in s.astray : s.standing[a] \in Living) => astray = s.astray \cup {new}
      /\ ~(\E a \in s.astray : s.standing[a] \in Living) => astray = s.astray
  BY DEF Spoken!Live, Living
<1> HIDE DEF new, answers, astray
<1>9. /\ t \in SessionType /\ t.answers = answers /\ t.pending = new /\ t.astray = astray
      /\ t.state = u.state /\ t.gate = u.gate /\ t.gain = u.gain /\ t.reply = u.reply
      /\ t.standing = u.standing /\ t.released = u.released /\ t.told = u.told
      /\ t.disposed = u.disposed
  BY <1>3, <1>4, <1>6, <1>7 DEF SessionType
<1>10. GateOK(t)
  <2>1. u.astray # {} => t.astray # {}
    BY <1>3, <1>8, <1>9 DEF SameButMachine
  <2> QED
    BY <1>3, <1>9, <2>1 DEF GateOK
<1> QED
  BY <1>1, <1>2, <1>3, <1>8, <1>9, <1>10 DEF AnswerIs, SameButMachine, new, answers

LEMMA TurnIsAsked ==
  ASSUME NEW s, NEW t, NEW id \in Nat, NEW at \in Nat, SessionOK(s), ~s.disposed, s.told = {},
         s.state \in {"listening", "interrupted"}, Len(s.answers) < MaxAnswers,
         s.pending # None => s.answers[s.pending].confirmed,
         AnswerIs(s, t, id, at)
  PROVE  SessionOK(t)
<1> DEFINE new == Len(s.answers) + 1
           asked == NewAnswer(id, at)
<1>1. /\ SessionTyped(s) /\ AnswersOK(s) /\ Loose(s) /\ s \in SessionType
      /\ Calm(s) \/ Wild(s)
      /\ Calm(s) => Resting(s) \/ Recognising(s) \/ Making(s) \/ Speaking(s)
      /\ s.reply # None => s.standing[s.reply] \in Living /\ s.reply \in 1 .. Len(s.answers)
      /\ Len(s.answers) \in Nat
  BY LooseOf, NothingToTell, AnswersAreTyped
<1>2. /\ asked.text = "asked" /\ ~asked.spoke /\ ~asked.heard /\ ~asked.confirmed
      /\ asked.held = <<>> /\ asked.published = <<>>
      /\ asked \in AnswerType
  BY DEF NewAnswer, AnswerType
<1> HIDE DEF asked
<1>3. /\ Len(t.answers) = new /\ t.answers[new] = asked
      /\ \A a \in 1 .. Len(s.answers) : t.answers[a] = s.answers[a]
      /\ new \in 1 .. MaxAnswers /\ new # None
  BY <1>1, <1>2, AppendProperties, SessionAssumption DEF AnswerIs, SessionType, asked, None
<1>4. /\ t.state = "thinking" /\ t.pending = new /\ t.reply = s.reply
      /\ t.standing = s.standing /\ t.released = s.released /\ t.told = {} /\ ~t.disposed
      /\ s.astray \subseteq t.astray /\ t.astray \subseteq s.astray \cup {new}
      /\ t \in SessionType
  BY DEF AnswerIs
<1> HIDE DEF new
<1>5. s.standing[new] = "none" /\ new \notin s.released /\ new \notin s.astray
  BY <1>1, <1>3 DEF AnswersOK, SessionTyped, new
<1>6. SessionTyped(t)
  BY <1>1, <1>3, <1>4 DEF SessionTyped, new, None
<1>7. AnswersOK(t)
  <2>1. \A r \in 1 .. MaxAnswers :
          /\ t.standing[r] \in Living => r = t.reply \/ r \in t.astray
          /\ r > Len(t.answers) => t.standing[r] = "none"
    BY <1>1, <1>3, <1>4 DEF AnswersOK, new
  <2>2. t.released \subseteq 1 .. Len(t.answers)
    BY <1>1, <1>3, <1>4 DEF AnswersOK, new
  <2>3. ASSUME NEW a \in 1 .. Len(s.answers)
        PROVE  AnswerOK(t.answers[a], t.standing[a], a \in t.released, a \in t.astray)
    <3>1. (a \in t.astray) = (a \in s.astray)
      BY <1>1, <1>4 DEF new
    <3>2. AnswerOK(s.answers[a], s.standing[a], a \in s.released, a \in s.astray)
      BY <1>1 DEF AnswersOK
    <3> QED
      BY <1>3, <1>4, <3>1, <3>2 DEF AnswerOK
  <2>4. AnswerOK(t.answers[new], t.standing[new], new \in t.released, new \in t.astray)
    <3>1. Range(<<>>) = {}
      BY DEF Range
    <3> QED
      BY <1>2, <1>3, <1>4, <1>5, <3>1 DEF AnswerOK, Living
  <2> QED
    BY <1>1, <1>3, <2>1, <2>2, <2>3, <2>4 DEF AnswersOK, new
<1>8. CASE \E a \in s.astray : s.standing[a] \in Living
  <2>1. PICK a \in s.astray : s.standing[a] \in Living
    BY <1>8
  <2>2. a \in 1 .. Len(s.answers) /\ a \in 1 .. MaxAnswers
    BY <1>1, AnswersAreTyped DEF SessionTyped
  <2>3. ~Calm(s)
    <3>1. ASSUME Calm(s) PROVE FALSE
      <4>1. a = s.reply /\ s.reply # None
        BY <2>1, <2>2, <3>1 DEF Calm, None
      <4> QED
        BY <1>1, <3>1, <4>1 DEF Resting, Recognising, Making, Speaking
    <3> QED
      BY <3>1
  <2>4. Wild(s) /\ new \in t.astray
    BY <1>1, <1>8, <2>3 DEF AnswerIs, new
  <2>5. Loose(t)
    <3>1. \A r \in 1 .. Len(s.answers) :
            t.standing[r] \in Living => t.answers[r].confirmed
      BY <1>1, <1>3, <1>4 DEF Loose, None
    <3>2. t.standing[new] = "none" /\ t.answers[new].text = "asked"
      BY <1>2, <1>3, <1>4, <1>5
    <3>3. \A r \in 1 .. Len(t.answers) : r \in 1 .. Len(s.answers) \/ r = new
      BY <1>1, <1>3 DEF new
    <3>4. /\ t.state # "idle"
          /\ t.reply # None => t.standing[t.reply] \in Living
          /\ t.told \subseteq 1 .. Len(t.answers)
      BY <1>1, <1>4
    <3> QED
      BY <1>3, <1>4, <3>1, <3>2, <3>3, <3>4 DEF Loose
  <2>6. \A r \in 1 .. Len(t.answers) :
          t.standing[r] \in Living \/ r \in t.told \/ r = t.pending => r \in t.astray
    <3>1. \A r \in 1 .. Len(s.answers) : s.standing[r] \in Living => r \in s.astray
      BY <2>4 DEF Wild
    <3>2. \A r \in 1 .. Len(t.answers) : r \in 1 .. Len(s.answers) \/ r = new
      BY <1>1, <1>3 DEF new
    <3> QED
      BY <1>4, <2>4, <3>1, <3>2
  <2> QED
    BY <1>4, <1>6, <1>7, <2>5, <2>6 DEF SessionOK, InCall, Wild, AnswerIs
<1>9. CASE ~(\E a \in s.astray : s.standing[a] \in Living)
  <2>1. s.reply = None
    <3>1. CASE Calm(s)
      BY <1>1, <3>1 DEF Resting, Recognising, Making, Speaking
    <3>2. CASE Wild(s)
      BY <1>1, <1>9, <3>2 DEF Wild
    <3> QED
      BY <1>1, <3>1, <3>2
  <2>2. \A r \in 1 .. MaxAnswers : t.standing[r] \notin Living
    BY <1>1, <1>4, <1>9, <2>1 DEF AnswersOK, None
  <2>3. Recognising(t)
    BY <1>2, <1>3, <1>4, <2>1 DEF Recognising
  <2> QED
    BY <1>4, <1>6, <1>7, <2>2, <2>3 DEF SessionOK, InCall, Calm, AnswerIs
<1> QED
  BY <1>8, <1>9

LEMMA TurnIsEnded ==
  ASSUME NEW s, NEW event, SessionOK(s), ~s.disposed, s.told = {},
         event.type = "turn-end", event.turn \in Nat, event.at \in Nat,
         s.state # "thinking", Len(s.answers) < MaxAnswers,
         s.pending # None => s.answers[s.pending].confirmed
  PROVE  LET t == OnTurn(s, event) IN
           /\ SessionOK(t)
           /\ \/ t = s /\ s.state = "speaking"
              \/ AnswerIs(s, t, event.turn, event.at)
<1> DEFINE t == OnTurn(s, event)
<1>1. t = TurnEnds(s, event)
  BY DEF OnTurn
<1>2. CASE s.state = "speaking"
  BY <1>1, <1>2 DEF TurnEnds
<1>3. CASE s.state # "speaking"
  <2>1. t = Answer(Dispatch(s, "user.turn.ended"), event.turn, event.at)
    BY <1>1, <1>3 DEF TurnEnds
  <2>2. s.state \in {"listening", "interrupted"}
    BY <1>3, LooseOf DEF Awake
  <2>3. AnswerIs(s, t, event.turn, event.at)
    BY <2>1, <2>2, AnswerAsked
  <2> HIDE DEF t
  <2>4. SessionOK(t)
    BY <2>2, <2>3, TurnIsAsked
  <2> QED
    BY <2>3, <2>4 DEF t
<1> QED
  BY <1>2, <1>3

LEMMA ConfirmedIs ==
  ASSUME NEW was \in AnswerType
  PROVE  LET is == Confirmed(was) IN
           /\ is \in AnswerType /\ is.confirmed /\ is.held = <<>>
           /\ Range(is.published) = Range(was.published) \cup Range(was.held)
           /\ is.turn = was.turn /\ is.confirmedAt = was.confirmedAt /\ is.text = was.text
           /\ is.spoke = was.spoke /\ is.heard = was.heard
<1> DEFINE is == Confirmed(was)
           published == was.published \o was.held
<1>1. was.published \in Seq(Kinds) /\ was.held \in Seq(Kinds)
  BY DEF AnswerType
<1>2. /\ published \in Seq(Kinds) /\ Range(published) = Range(was.published) \cup Range(was.held)
  BY <1>1, ConcatProperties, RangeConcatenation
<1>3. is = [was EXCEPT !.confirmed = TRUE, !.published = published, !.held = <<>>]
  BY DEF Confirmed
<1>4. <<>> \in Seq(Kinds)
  OBVIOUS
<1> HIDE DEF published, is
<1>5. /\ is.confirmed /\ is.held = <<>> /\ is.published = published
      /\ is.turn = was.turn /\ is.confirmedAt = was.confirmedAt /\ is.text = was.text
      /\ is.spoke = was.spoke /\ is.heard = was.heard
  BY <1>3 DEF AnswerType
<1>6. is \in AnswerType
  BY <1>2, <1>3, <1>4 DEF AnswerType
<1> QED
  BY <1>2, <1>5, <1>6 DEF is

\* What is confirmed is the answer waited for, made or yet to be made.
LEMMA ConfirmIs ==
  ASSUME NEW s, NEW at \in Nat, SessionOK(s), ~s.disposed
  PROVE  LET t == Confirm(s, at) IN
           /\ SessionOK(t) /\ SameSituation(s, t)
           /\ \A a \in 1 .. Len(s.answers) :
                /\ t.answers[a].turn = s.answers[a].turn
                /\ t.answers[a].confirmedAt = s.answers[a].confirmedAt
                /\ t.answers[a].confirmed =>
                     s.answers[a].confirmed \/ (a = s.pending /\ at >= s.answers[a].confirmedAt)
           /\ s.pending # None =>
                t.answers[s.pending].confirmed \/ at < t.answers[s.pending].confirmedAt
           /\ \/ t = s
              \/ /\ s.pending # None /\ s.pending \in 1 .. MaxAnswers
                 /\ t.released = s.released \cup {s.pending}
<1> DEFINE p == s.pending
           was == s.answers[p]
           is == Confirmed(was)
           answers == [s.answers EXCEPT ![p] = is]
           t == Confirm(s, at)
<1>1. /\ SessionTyped(s) /\ AnswersOK(s) /\ GateOK(s) /\ s \in SessionType
      /\ Len(s.answers) \in Nat /\ Len(s.answers) <= MaxAnswers
      /\ p # None => p \in 1 .. Len(s.answers) /\ p \in 1 .. MaxAnswers
      /\ p # None => was \in AnswerType /\ was.confirmedAt \in Nat
  BY LooseOf, AnswersAreTyped
<1>2. CASE p = None \/ was.confirmed \/ at < was.confirmedAt
  <2>1. t = s
    BY <1>2 DEF Confirm
  <2>2. SameSituation(s, s)
    BY DEF SameSituation
  <2> QED
    BY <1>2, <2>1, <2>2
<1>3. CASE ~(p = None \/ was.confirmed \/ at < was.confirmedAt)
  <2>1. /\ p \in 1 .. Len(s.answers) /\ was \in AnswerType /\ p \in 1 .. MaxAnswers
        /\ p # None /\ s.answers \in Seq(AnswerType)
    BY <1>1, <1>3 DEF SessionType
  <2>2. at >= was.confirmedAt
    <3>1. was.confirmedAt \in Nat
      BY <1>1, <2>1
    <3> HIDE DEF was
    <3> QED
      BY <1>3, <3>1
  <2>3. t = [s EXCEPT !.answers = answers, !.released = s.released \cup {p}]
    BY <1>3 DEF Confirm
  <2>4. /\ is \in AnswerType /\ is.confirmed /\ is.held = <<>>
        /\ Range(is.published) = Range(was.published) \cup Range(was.held)
        /\ is.turn = was.turn /\ is.confirmedAt = was.confirmedAt /\ is.text = was.text
        /\ is.spoke = was.spoke /\ is.heard = was.heard
    BY <2>1, ConfirmedIs
  <2> HIDE DEF is
  <2>5. /\ answers \in Seq(AnswerType) /\ Len(answers) = Len(s.answers)
        /\ \A a \in 1 .. Len(s.answers) : answers[a] = IF a = p THEN is ELSE s.answers[a]
    BY <2>1, <2>4, ExceptSeq
  <2> HIDE DEF answers, t
  <2>6. /\ t \in SessionType /\ t.answers = answers /\ t.released = s.released \cup {p}
        /\ t.state = s.state /\ t.gate = s.gate /\ t.gain = s.gain
        /\ t.pending = s.pending /\ t.reply = s.reply /\ t.standing = s.standing
        /\ t.told = s.told /\ t.disposed = s.disposed /\ t.astray = s.astray
    BY <1>1, <2>1, <2>3, <2>5 DEF SessionType
  <2>7. SessionTyped(t)
    BY <1>1, <2>5, <2>6 DEF SessionTyped
  <2>8. AnswerOK(was, s.standing[p], p \in s.released, p \in s.astray)
    BY <1>1, <2>1 DEF AnswersOK
  <2>9. AnswerOK(is, s.standing[p], TRUE, p \in s.astray)
    <3>1. ~was.heard
      BY <1>3, <2>8 DEF AnswerOK
    <3> QED
      BY <2>4, <2>8, <3>1 DEF AnswerOK
  <2>10. AnswersOK(t)
    <3>1. ASSUME NEW a \in 1 .. Len(s.answers)
          PROVE  AnswerOK(t.answers[a], t.standing[a], a \in t.released, a \in t.astray)
      <4>1. AnswerOK(s.answers[a], s.standing[a], a \in s.released, a \in s.astray)
        BY <1>1 DEF AnswersOK
      <4>2. CASE a = p
        BY <2>5, <2>6, <2>9, <4>2 DEF AnswerOK
      <4>3. CASE a # p
        BY <2>5, <2>6, <4>1, <4>3 DEF AnswerOK
      <4> QED
        BY <4>2, <4>3
    <3> QED
      BY <1>1, <2>1, <2>5, <2>6, <3>1 DEF AnswersOK
  <2>11. SameSituation(s, t)
    BY <2>1, <2>4, <2>5, <2>6 DEF SameSituation
  <2>12. GateOK(t)
    BY <1>1, <2>6 DEF GateOK
  <2>13. SessionOK(t)
    BY <2>7, <2>10, <2>11, <2>12, StaysOK
  <2> QED
    BY <2>1, <2>2, <2>4, <2>5, <2>6, <2>11, <2>13 DEF t
<1> QED
  BY <1>2, <1>3

\* What a frame's loudness may make of a session: nothing, or it cuts the reply.
CutFrom(s, t) ==
  /\ SessionOK(t) /\ ~t.disposed
  /\ t.answers = s.answers /\ t.pending = s.pending /\ t.released = s.released
  /\ t.state = s.state \/ t.state # "thinking"
  /\ \/ t.standing = s.standing
     \/ /\ s.reply \in 1 .. MaxAnswers
        /\ \E to : /\ t.standing = [s.standing EXCEPT ![s.reply] = to]
                   /\ \/ s.standing[s.reply] = "working" /\ to = "abandoned"
                      \/ s.standing[s.reply] = "audible" /\ to = "interrupted"

\* The gate's own step, before what it asks for.
LEMMA OnlyTheGate ==
  ASSUME NEW s, NEW t, SessionOK(s), ~s.disposed, t \in SessionType, GateOK(t),
         t.answers = s.answers, t.released = s.released, t.astray = s.astray,
         t.state = s.state, t.pending = s.pending, t.reply = s.reply,
         t.standing = s.standing, t.told = s.told, t.disposed = s.disposed
  PROVE  SessionOK(t) /\ CutFrom(s, t)
<1>1. SessionTyped(s) /\ AnswersOK(s)
  BY LooseOf
<1>2. SessionTyped(t) /\ AnswersOK(t) /\ SameSituation(s, t)
  BY <1>1 DEF SessionTyped, AnswersOK, SameSituation
<1>3. SessionOK(t)
  BY <1>2, StaysOK
<1> QED
  BY <1>3 DEF CutFrom

\* Talking over her.
LEMMA CommitIs ==
  ASSUME NEW s, SessionTyped(s), AnswersOK(s), Calm(s) \/ Wild(s), ~s.disposed,
         s.state = "speaking", s.gate.kind = "committed",
         s.reply \in 1 .. Len(s.answers), s.standing[s.reply] \in Living
  PROVE  CutFrom(s, Commit(s))
<1>1. PICK r : r = s.reply
  OBVIOUS
<1>2. PICK cut : cut = InterruptReply(s, r)
  OBVIOUS
<1>3. /\ SessionTyped(s) /\ AnswersOK(s) /\ Loose(s) /\ s \in SessionType
      /\ Calm(s) \/ Wild(s)
      /\ Len(s.answers) \in Nat /\ Len(s.answers) <= MaxAnswers
      /\ \A a \in 1 .. Len(s.answers) : a \in 1 .. MaxAnswers /\ a # None
  BY CalmIsLoose, AnswersAreTyped DEF Wild, SessionTyped
<1>4. r \in 1 .. MaxAnswers /\ r \in 1 .. Len(s.answers) /\ r # None
  BY <1>1, <1>3
<1>5. /\ cut \in SessionType
      /\ cut.standing = [s.standing EXCEPT ![r] =
           IF s.standing[r] = "working" THEN "abandoned" ELSE "interrupted"]
      /\ cut.told = s.told \cup {r}
      /\ cut.gain = IF s.standing[r] = "audible" THEN "unity" ELSE s.gain
      /\ cut.state = s.state /\ cut.gate = s.gate /\ cut.pending = s.pending
      /\ cut.reply = r /\ cut.answers = s.answers
      /\ cut.released = s.released /\ cut.disposed = s.disposed
      /\ cut.astray = s.astray
  BY <1>1, <1>2, <1>3, <1>4, InterruptIs
<1>6. \A q \in 1 .. MaxAnswers :
        cut.standing[q] = IF q = r
          THEN (IF s.standing[r] = "working" THEN "abandoned" ELSE "interrupted")
          ELSE s.standing[q]
  BY <1>3, <1>4, <1>5 DEF SessionType
<1>7. AnswersOK(cut)
  <2>1. \A q \in 1 .. MaxAnswers :
          /\ Ends(s.standing[q], cut.standing[q])
          /\ cut.standing[q] \in Living => q = cut.reply \/ q \in s.astray
    BY <1>1, <1>3, <1>4, <1>5, <1>6 DEF AnswersOK, Ends, Living
  <2> QED
    BY <1>3, <1>5, <2>1, AnswersKept
<1>8. SessionTyped(cut)
  BY <1>1, <1>3, <1>5 DEF SessionTyped
<1>9. AnswerOK(s.answers[r], s.standing[r], r \in s.released, r \in s.astray)
  BY <1>3, <1>4 DEF AnswersOK
\* Of what was under way, all but the reply is as it was.
<1>10. ASSUME Wild(s)
       PROVE  /\ \A q \in 1 .. Len(s.answers) :
                   /\ cut.standing[q] \in Living => s.standing[q] \in Living
                   /\ (cut.standing[q] \in Living \/ q \in cut.told \/ q = cut.pending)
                        => q \in s.astray
              /\ \A q \in cut.told :
                   cut.standing[q] \in {"complete", "interrupted", "abandoned", "failed"}
              /\ cut.told \subseteq 1 .. Len(s.answers)
              /\ \A q \in 1 .. Len(s.answers) :
                   cut.standing[q] \in Living => q = s.pending \/ s.answers[q].confirmed
              /\ r \in s.astray
  <2>1. \A q \in 1 .. Len(s.answers) : cut.standing[q] \in Living => s.standing[q] \in Living
    BY <1>1, <1>3, <1>4, <1>6
  <2>2. r \in s.astray
    BY <1>1, <1>4, <1>10 DEF Wild
  <2>3. \A q \in cut.told :
          cut.standing[q] \in {"complete", "interrupted", "abandoned", "failed"}
    BY <1>3, <1>4, <1>5, <1>6 DEF Loose
  <2>4. cut.told \subseteq 1 .. Len(s.answers)
    BY <1>3, <1>4, <1>5 DEF Loose
  <2>5. \A q \in 1 .. Len(s.answers) :
          cut.standing[q] \in Living => q = s.pending \/ s.answers[q].confirmed
    BY <1>3, <2>1 DEF Loose
  <2> QED
    BY <1>5, <1>10, <2>1, <2>2, <2>3, <2>4, <2>5 DEF Wild
<1>11. CASE s.standing[r] = "audible"
  <2>1. PICK t : t = Dispatch(cut, "assistant.interrupted")
    OBVIOUS
  <2>2. /\ SessionTyped(t) /\ AnswersOK(t) /\ GateOK(t) /\ SameButMachine(cut, t)
        /\ t.state = "interrupted"
    <3>1. GateOK(cut)
      BY <1>5, <1>11 DEF GateOK, ducked
    <3> QED
      BY <1>5, <1>7, <1>8, <2>1, <3>1, DispatchKeeps, SessionMoves DEF Awake
  <2>3. Commit(s) = t
    BY <1>1, <1>2, <1>4, <1>6, <1>11, <2>1 DEF Commit
  <2>4. ASSUME Calm(s) PROVE Calm(t)
    <3>1. Speaking(s)
      BY <1>1, <1>11, <2>4 DEF Calm, Resting, Recognising, Making, RanOut, Cut, GivenUp
    <3>2. Cut(t)
      BY <1>1, <1>4, <1>5, <1>6, <1>11, <2>2, <3>1 DEF Speaking, Cut, SameButMachine
    <3>3. \A q \in 1 .. MaxAnswers : t.standing[q] \in Living => q = t.reply
      BY <1>1, <1>5, <1>6, <2>2, <2>4 DEF Calm, Living, SameButMachine
    <3> QED
      BY <3>2, <3>3 DEF Calm
  <2>5. ASSUME Wild(s) PROVE Wild(t)
    <3>1. /\ t.answers = s.answers /\ t.pending = s.pending /\ t.reply = r
          /\ t.standing = cut.standing /\ t.told = s.told \cup {r}
      BY <1>5, <2>2 DEF SameButMachine
    <3>2. s.pending # None => s.answers[s.pending].text = "asked" \/ s.pending = r
      BY <1>1, <1>3 DEF Loose
    <3>3. Loose(t)
      BY <1>5, <1>10, <2>2, <2>5, <3>1, <3>2 DEF Loose
    <3> QED
      BY <1>5, <1>10, <2>2, <2>5, <3>1, <3>3 DEF Wild, SameButMachine
  <2>6. SessionOK(t) /\ ~t.disposed
    BY <1>3, <1>5, <2>2, <2>4, <2>5 DEF SessionOK, InCall, SameButMachine
  <2> QED
    BY <1>1, <1>4, <1>5, <1>11, <2>2, <2>3, <2>6 DEF CutFrom, SameButMachine
<1>12. CASE s.standing[r] = "working"
  <2>1. Commit(s) = cut
    <3>1. s.reply # None /\ cut.standing[s.reply] = "abandoned" /\ cut = InterruptReply(s, s.reply)
      BY <1>1, <1>2, <1>4, <1>6, <1>12
    <3> QED
      BY <3>1 DEF Commit
  <2>2. Wild(s)
    <3>1. ~Calm(s)
      BY <1>1, <1>12 DEF Calm, Resting, Recognising, Making, Speaking, RanOut, Cut, GivenUp
    <3> QED
      BY <1>3, <3>1
  <2>3. \A q \in 1 .. Len(s.answers) : Voiced(s, q) => Voiced(cut, q)
    <3>1. ~s.answers[r].heard
      BY <1>9, <1>12 DEF AnswerOK
    <3> QED
      BY <1>3, <1>4, <1>5, <1>6, <3>1 DEF Voiced
  <2>4. Loose(cut)
    <3>1. s.pending # None => s.answers[s.pending].text = "asked" \/ s.pending = r
      BY <1>1, <1>3 DEF Loose
    <3>2. \E q \in 1 .. Len(s.answers) : Voiced(cut, q)
      BY <1>3, <2>3 DEF Loose
    <3> QED
      BY <1>5, <1>10, <2>2, <3>1, <3>2 DEF Loose
  <2>5. Wild(cut) /\ GateOK(cut)
    BY <1>5, <1>10, <2>2, <2>4 DEF Wild, GateOK, ducked
  <2>6. SessionOK(cut) /\ ~cut.disposed
    BY <1>5, <1>7, <1>8, <2>5 DEF SessionOK, InCall
  <2> QED
    BY <1>1, <1>4, <1>5, <1>12, <2>1, <2>6 DEF CutFrom
<1> QED
  BY <1>1, <1>11, <1>12 DEF Living

\* The gate hears nothing while nobody is said to speak.
LEMMA GateHearsIs ==
  ASSUME NEW s, NEW level, SessionOK(s), ~s.disposed,
         s.reply # None => s.standing[s.reply] \in {"working", "audible", "abandoned"}
  PROVE  CutFrom(s, GateHears(s, level))
<1> DEFINE told == push(s.gate, level)
           heard == [s EXCEPT !.gate = told.gate]
           t == GateHears(s, level)
<1>1. /\ SessionTyped(s) /\ AnswersOK(s) /\ GateOK(s) /\ Loose(s) /\ s \in SessionType
      /\ Calm(s) \/ Wild(s)
      /\ s.reply # None => s.reply \in 1 .. Len(s.answers) /\ s.reply \in 1 .. MaxAnswers
  BY LooseOf, AnswersAreTyped
<1>2. s.gate \in GateType
  BY <1>1 DEF SessionType, GateType
<1>3. /\ told.gate \in GateType
      /\ s.gate.kind = "disarmed" => told.gate = s.gate /\ told.action = "none"
      /\ told.action = "none" => told.gate.kind = s.gate.kind
      /\ told.action = "duck" => ducked(told.gate)
      /\ told.action = "unduck" => told.gate.kind = "listening"
      /\ told.action = "commit" => told.gate.kind = "committed"
      /\ told.action \in {"none", "duck", "unduck", "commit"}
  BY <1>2, GateStep DEF Told
<1>4. t = CASE told.action = "duck" -> [heard EXCEPT !.gain = "ducked"]
            [] told.action = "unduck" -> [heard EXCEPT !.gain = "unity"]
            [] told.action = "commit" -> Commit(heard)
            [] OTHER -> heard
  BY DEF GateHears
<1> HIDE DEF told, t
<1>5. /\ heard \in SessionType /\ heard.gate = told.gate /\ heard.gain = s.gain
      /\ heard.state = s.state /\ heard.pending = s.pending /\ heard.reply = s.reply
      /\ heard.answers = s.answers /\ heard.standing = s.standing
      /\ heard.released = s.released /\ heard.told = s.told /\ heard.disposed = s.disposed
      /\ heard.astray = s.astray
  BY <1>1, <1>3 DEF SessionType, GateType
<1>6. CASE s.gate.kind = "disarmed"
  <2>1. t = [s EXCEPT !.gate = s.gate]
    BY <1>3, <1>4, <1>6
  <2>2. t = s
    BY <1>1, <2>1 DEF SessionType
  <2> QED
    BY <2>2 DEF CutFrom, t
<1>7. CASE s.gate.kind # "disarmed"
  <2>1. s.state = "speaking"
    BY <1>1, <1>7 DEF GateOK
  <2>2. CASE told.action \in {"none", "duck", "unduck"}
    <3> DEFINE gain == CASE told.action = "duck" -> "ducked"
                         [] told.action = "unduck" -> "unity"
                         [] OTHER -> s.gain
    <3>1. gain \in {"unity", "ducked"}
      BY <1>1 DEF SessionType
    <3>2. /\ told.gate.kind # "disarmed"
          /\ ducked(told.gate) => gain = "ducked"
          /\ gain = "ducked" => ducked(told.gate) \/ s.astray # {}
      BY <1>1, <1>3, <1>7, <2>2 DEF GateOK, ducked
    <3>3. t = [heard EXCEPT !.gain = gain]
      BY <1>4, <1>5, <2>2 DEF SessionType
    <3> HIDE DEF heard, gain
    <3>4. /\ t \in SessionType /\ t.gate = told.gate /\ t.gain = gain
          /\ t.state = s.state /\ t.pending = s.pending /\ t.reply = s.reply
          /\ t.answers = s.answers /\ t.standing = s.standing
          /\ t.released = s.released /\ t.told = s.told /\ t.disposed = s.disposed
          /\ t.astray = s.astray
      BY <1>5, <3>1, <3>3 DEF SessionType
    <3>5. GateOK(t)
      BY <2>1, <3>2, <3>4 DEF GateOK
    <3> QED
      BY <3>4, <3>5, OnlyTheGate DEF t
  <2>3. CASE told.action = "commit"
    <3>1. t = Commit(heard) /\ heard.gate.kind = "committed"
      BY <1>3, <1>4, <1>5, <2>3
    <3>2. s.astray = {} => Calm(s)
      <4>1. ASSUME Wild(s), s.astray = {} PROVE FALSE
        BY <1>1, <2>1, <4>1 DEF Wild, Loose, Voiced
      <4> QED
        BY <1>1, <4>1
    <3>3. Calm(s) => s.reply # None /\ s.standing[s.reply] = "audible"
      BY <2>1 DEF Calm, Resting, Recognising, Making, Speaking, RanOut, Cut, GivenUp
    <3>4. CASE s.reply # None /\ s.standing[s.reply] \in Living
      <4>1. PICK h : h = heard
        OBVIOUS
      <4>2. SessionTyped(h) /\ AnswersOK(h) /\ SameSituation(s, h)
        BY <1>1, <1>5, <4>1 DEF SessionTyped, AnswersOK, SameSituation
      <4>3. Calm(h) \/ Wild(h)
        BY <1>1, <4>2, SituationsKept
      <4> HIDE DEF heard
      <4>4. CutFrom(h, Commit(h))
        BY <1>1, <1>5, <2>1, <3>1, <3>4, <4>1, <4>2, <4>3, CommitIs
      <4> QED
        BY <1>5, <3>1, <4>1, <4>4 DEF CutFrom, t
    <3>5. CASE ~(s.reply # None /\ s.standing[s.reply] \in Living)
      <4>1. Wild(s) /\ s.astray # {}
        BY <1>1, <3>2, <3>3, <3>5 DEF Living
      <4>2. t = heard
        <5>1. CASE s.reply = None
          BY <1>5, <3>1, <5>1 DEF Commit
        <5>2. CASE s.reply # None
          <6>1. PICK h : h = heard
            OBVIOUS
          <6> HIDE DEF heard
          <6>2. InterruptReply(h, s.reply) = h /\ h.standing[s.reply] # "interrupted"
            BY <1>1, <1>5, <3>5, <5>2, <6>1, InterruptIs
          <6>3. h.reply = s.reply /\ s.reply # None
            BY <1>5, <5>2, <6>1
          <6>4. Commit(h) = h
            BY <6>2, <6>3 DEF Commit
          <6> QED
            BY <3>1, <6>1, <6>4
        <5> QED
          BY <5>1, <5>2
      <4>3. GateOK(heard)
        BY <1>5, <2>1, <3>1, <4>1 DEF GateOK, ducked
      <4> HIDE DEF heard
      <4> QED
        BY <1>5, <4>2, <4>3, OnlyTheGate DEF t
    <3> QED
      BY <3>4, <3>5
  <2> QED
    BY <1>3, <2>2, <2>3
<1> QED
  BY <1>6, <1>7

-----------------------------------------------------------------------------
(* The turns the answers are of.                                             *)

\* The answers are of the same turns, and as many of them confirmed.
SameTurns(s, t) ==
  /\ Len(t.answers) = Len(s.answers)
  /\ \A a \in 1 .. Len(s.answers) :
       /\ t.answers[a].turn = s.answers[a].turn
       /\ t.answers[a].confirmedAt = s.answers[a].confirmedAt
       /\ t.answers[a].confirmed = s.answers[a].confirmed

\* The answer waited for is confirmed, or will be by this frame, or its end is
\* the one that is not final.
Due(s, last, now, final, at) ==
  s.pending # None /\ ~s.answers[s.pending].confirmed =>
    IF now = "provisional"
    THEN s.answers[s.pending].turn = last /\ s.answers[s.pending].confirmedAt = final
    ELSE at >= s.answers[s.pending].confirmedAt

\* A step that leaves the detector and the turns alone.
LEMMA QuietTurns ==
  ASSUME NEW s, NEW t, NEW last, NEW now, NEW final, SessionTyped(s),
         TurnsOK(s, last, now, final), Waits(s, last, now, final), SameTurns(s, t),
         t.pending \in {s.pending, None},
         ~t.disposed /\ t.state = "thinking" =>
           ~s.disposed /\ s.state = "thinking" /\ t.pending = s.pending
  PROVE  TurnsOK(t, last, now, final) /\ Waits(t, last, now, final)
<1>1. ASSUME NEW a \in 1 .. Len(s.answers)
      PROVE  AnswerInTurn(t, last, now, final, a)
  <2>1. AnswerInTurn(s, last, now, final, a)
    BY DEF TurnsOK
  <2>2. Taken(t, last, now, a) => Taken(s, last, now, a)
    BY DEF Taken, SameTurns
  <2> QED
    BY <2>1, <2>2, AnswersAreTyped DEF AnswerInTurn, SameTurns, None
<1>2. ThinksOfLast(t, last, now)
  BY AnswersAreTyped DEF TurnsOK, ThinksOfLast, SameTurns
<1>3. Waits(t, last, now, final)
  BY AnswersAreTyped DEF Waits, SameTurns
<1> QED
  BY <1>1, <1>2, <1>3 DEF TurnsOK, SameTurns

\* A new turn opens: no answer is of it.
LEMMA TurnsAtStart ==
  ASSUME NEW s, NEW t, NEW last \in Nat, NEW now, NEW final \in Nat, NEW after, NEW at \in Nat,
         SessionTyped(s), TurnsOK(s, last, now, final), Waits(s, last, now, final),
         now = "provisional" => at >= final, t.answers = s.answers,
         t.pending \in {s.pending, None}, t.state # "thinking"
  PROVE  TurnsOK(t, last + 1, "talking", after) /\ Due(t, last + 1, "talking", after, at)
<1>1. ASSUME NEW a \in 1 .. Len(s.answers)
      PROVE  AnswerInTurn(t, last + 1, "talking", after, a)
  <2>1. AnswerInTurn(s, last, now, final, a) /\ s.answers[a].turn \in Nat
    BY AnswersAreTyped DEF TurnsOK
  <2>2. s.answers[a].turn <= last
    BY <2>1 DEF AnswerInTurn
  <2>3. Taken(t, last + 1, "talking", a) => Taken(s, last, now, a)
    BY <2>1, <2>2 DEF Taken
  <2> QED
    BY <2>1, <2>2, <2>3, AnswersAreTyped DEF AnswerInTurn, None
<1>2. Due(t, last + 1, "talking", after, at)
  BY DEF Waits, Due
<1> QED
  BY <1>1, <1>2 DEF TurnsOK, ThinksOfLast

\* A turn is taken back: its answer is not awaited any more, and was not confirmed.
LEMMA TurnsAtResume ==
  ASSUME NEW s, NEW t, NEW last \in Nat, NEW final, NEW after, NEW at,
         SessionTyped(s), TurnsOK(s, last, "provisional", final),
         Waits(s, last, "provisional", final), t.answers = s.answers,
         t.pending = None \/ (t.pending = s.pending /\ s.answers[s.pending].turn # last),
         t.state # "thinking"
  PROVE  TurnsOK(t, last, "talking", after) /\ Due(t, last, "talking", after, at)
<1>1. ASSUME NEW a \in 1 .. Len(s.answers)
      PROVE  AnswerInTurn(t, last, "talking", after, a)
  <2>1. AnswerInTurn(s, last, "provisional", final, a) /\ s.answers[a].turn \in Nat /\ a # None
    BY AnswersAreTyped DEF TurnsOK
  <2>2. s.answers[a].turn <= last /\ (s.answers[a].confirmed => s.answers[a].turn < last)
    BY <2>1 DEF AnswerInTurn
  <2>3. CASE s.answers[a].turn = last
    BY <2>1, <2>2, <2>3 DEF AnswerInTurn
  <2>4. CASE s.answers[a].turn # last
    <3>1. Taken(t, last, "talking", a) => Taken(s, last, "provisional", a)
      BY <2>4 DEF Taken
    <3> QED
      BY <2>1, <2>2, <3>1 DEF AnswerInTurn
  <2> QED
    BY <2>3, <2>4
<1>2. Due(t, last, "talking", after, at)
  BY DEF Waits, Due
<1> QED
  BY <1>1, <1>2 DEF TurnsOK, ThinksOfLast

\* A turn ends under her voice, and is not answered.
LEMMA TurnsAtEnd ==
  ASSUME NEW s, NEW last \in Nat, NEW final, NEW now \in {"quiet", "provisional"}, NEW after,
         NEW at, SessionTyped(s), TurnsOK(s, last, "talking", final), s.state # "thinking",
         s.pending # None => s.answers[s.pending].confirmed
  PROVE  TurnsOK(s, last, now, after) /\ Due(s, last, now, after, at)
<1>1. ASSUME NEW a \in 1 .. Len(s.answers)
      PROVE  AnswerInTurn(s, last, now, after, a)
  <2>1. AnswerInTurn(s, last, "talking", final, a) /\ s.answers[a].turn \in Nat
    BY AnswersAreTyped DEF TurnsOK
  <2>2. Taken(s, last, now, a) => Taken(s, last, "talking", a)
    BY DEF Taken
  <2> QED
    BY <2>1, <2>2, AnswersAreTyped DEF AnswerInTurn, None
<1> QED
  BY <1>1 DEF TurnsOK, ThinksOfLast, Due

\* A turn ends and is answered: every earlier answer to it is taken back for good.
LEMMA TurnsAtAnswer ==
  ASSUME NEW s, NEW t, NEW last \in Nat, NEW final, NEW now \in {"quiet", "provisional"},
         NEW after, NEW end \in Nat, NEW at \in Nat,
         SessionTyped(s), TurnsOK(s, last, "talking", final),
         now = "provisional" => end = after, now = "quiet" => end = at,
         AnswerIs(s, t, last, end)
  PROVE  TurnsOK(t, last, now, after) /\ Due(t, last, now, after, at)
<1> DEFINE id == Len(s.answers) + 1
           new == NewAnswer(last, end)
<1>1. s.answers \in Seq(AnswerType) /\ new \in AnswerType
  BY DEF SessionTyped, SessionType, NewAnswer, AnswerType
<1>2. /\ new.turn = last /\ new.confirmedAt = end /\ ~new.confirmed
  BY DEF NewAnswer
<1> HIDE DEF new
<1>3. /\ Len(s.answers) \in Nat /\ Len(t.answers) = id /\ t.answers[id] = new
      /\ \A a \in 1 .. Len(s.answers) : t.answers[a] = s.answers[a]
      /\ t.pending = id
  BY <1>1, AppendProperties DEF new, AnswerIs
<1>4. ASSUME NEW a \in 1 .. Len(s.answers)
      PROVE  AnswerInTurn(t, last, now, after, a)
  <2>1. AnswerInTurn(s, last, "talking", final, a) /\ s.answers[a].turn \in Nat
    BY AnswersAreTyped DEF TurnsOK
  <2>2. Taken(t, last, now, a) => Taken(s, last, "talking", a)
    <3>1. ASSUME NEW b \in 1 .. id, a < b, t.answers[a].turn = t.answers[b].turn
          PROVE  Taken(s, last, "talking", a)
      <4>1. CASE b = id
        BY <1>2, <1>3, <3>1, <4>1 DEF Taken
      <4>2. CASE b # id
        BY <1>3, <3>1, <4>2 DEF Taken
      <4> QED
        BY <4>1, <4>2
    <3>2. now # "talking"
      OBVIOUS
    <3> QED
      BY <1>3, <3>1, <3>2 DEF Taken
  <2> QED
    BY <1>3, <2>1, <2>2 DEF AnswerInTurn
<1>5. AnswerInTurn(t, last, now, after, id)
  BY <1>2, <1>3 DEF AnswerInTurn, Taken
<1>6. ThinksOfLast(t, last, now)
  BY <1>2, <1>3 DEF ThinksOfLast, None
<1>7. Due(t, last, now, after, at)
  BY <1>2, <1>3 DEF Due
<1> QED
  BY <1>3, <1>4, <1>5, <1>6, <1>7 DEF TurnsOK

\* A frame that opens and closes nothing may make an end final.
LEMMA TurnsAtPass ==
  ASSUME NEW s, NEW last \in Nat, NEW now, NEW final \in Nat, NEW after, NEW finalAfter,
         NEW at \in Nat, SessionTyped(s), TurnsOK(s, last, now, final),
         Waits(s, last, now, final),
         \/ after = now /\ finalAfter = final
         \/ now = "provisional" /\ after = "quiet" /\ at >= final
  PROVE  TurnsOK(s, last, after, finalAfter) /\ Due(s, last, after, finalAfter, at)
<1>1. TurnsOK(s, last, after, finalAfter)
  BY DEF TurnsOK, AnswerInTurn, Taken, ThinksOfLast
<1>2. Due(s, last, after, finalAfter, at)
  BY DEF Waits, Due
<1> QED
  BY <1>1, <1>2

\* A turn is confirmed only once its end is final, and then is.
LEMMA TurnsAtConfirm ==
  ASSUME NEW s, NEW t, NEW last \in Nat, NEW now \in Turns!Phases, NEW final \in Nat,
         NEW at \in Nat,
         SessionTyped(s), TurnsOK(s, last, now, final), Due(s, last, now, final, at),
         now = "provisional" => at < final,
         Len(t.answers) = Len(s.answers), t.pending = s.pending, t.state = s.state, ~s.disposed,
         s.pending # None =>
           t.answers[s.pending].confirmed \/ at < t.answers[s.pending].confirmedAt,
         \A a \in 1 .. Len(s.answers) :
           /\ t.answers[a].turn = s.answers[a].turn
           /\ t.answers[a].confirmedAt = s.answers[a].confirmedAt
           /\ s.answers[a].confirmed => t.answers[a].confirmed
           /\ t.answers[a].confirmed =>
                s.answers[a].confirmed \/ (a = s.pending /\ at >= s.answers[a].confirmedAt)
  PROVE  TurnsOK(t, last, now, final) /\ Waits(t, last, now, final)
<1>1. ASSUME NEW a \in 1 .. Len(s.answers)
      PROVE  AnswerInTurn(t, last, now, final, a)
  <2>1. AnswerInTurn(s, last, now, final, a)
        /\ s.answers[a].turn \in Nat /\ s.answers[a].confirmedAt \in Nat
    BY AnswersAreTyped DEF TurnsOK
  <2>2. Taken(t, last, now, a) => Taken(s, last, now, a)
    BY DEF Taken
  <2>3. Taken(s, last, now, a) => a # s.pending /\ ~s.answers[a].confirmed
    BY <2>1 DEF AnswerInTurn
  <2>4. ASSUME t.answers[a].confirmed, s.answers[a].turn = last
        PROVE  now = "quiet"
    <3>1. now # "talking" \/ ~(a = s.pending)
      BY <2>3, <2>4 DEF Taken
    <3>2. now # "provisional" \/ s.answers[a].confirmed
      BY <2>1, <2>4 DEF AnswerInTurn
    <3> QED
      BY <2>1, <2>4, <3>1, <3>2 DEF AnswerInTurn, Turns!Phases
  <2>5. ASSUME a = t.pending, ~t.answers[a].confirmed, t.answers[a].turn = last,
               now = "provisional"
        PROVE  t.answers[a].confirmedAt = final
    BY <2>1, <2>5 DEF AnswerInTurn
  <2>6. t.answers[a].turn <= last
    BY <2>1 DEF AnswerInTurn
  <2> QED
    BY <2>1, <2>2, <2>3, <2>4, <2>5, <2>6 DEF AnswerInTurn
<1>2. ThinksOfLast(t, last, now)
  BY AnswersAreTyped DEF TurnsOK, ThinksOfLast
<1>3. Waits(t, last, now, final)
  <2> SUFFICES ASSUME t.pending # None, ~t.answers[t.pending].confirmed
               PROVE  /\ t.answers[t.pending].turn = last
                      /\ now = "provisional" /\ t.answers[t.pending].confirmedAt = final
    BY DEF Waits
  <2>1. PICK a \in 1 .. Len(s.answers) : a = s.pending
    BY AnswersAreTyped
  <2>2. /\ t.answers[a].turn = s.answers[a].turn
        /\ t.answers[a].confirmedAt = s.answers[a].confirmedAt
        /\ s.answers[a].confirmedAt \in Nat /\ ~s.answers[a].confirmed
        /\ at < s.answers[a].confirmedAt
    BY <2>1, AnswersAreTyped
  <2>3. IF now = "provisional"
        THEN s.answers[a].turn = last /\ s.answers[a].confirmedAt = final
        ELSE at >= s.answers[a].confirmedAt
    BY <2>1, <2>2 DEF Due
  <2> QED
    BY <2>1, <2>2, <2>3
<1> QED
  BY <1>1, <1>2, <1>3 DEF TurnsOK

-----------------------------------------------------------------------------
(* The detector's handlers.                                                  *)

\* What the detector does when it hears a frame, or the judge.
DetectorMoves ==
  \/ /\ phase # "talking" /\ phase' = "talking" /\ turn' = turn + 1 /\ finalAt' = 0
     /\ said'.type = "speech-start"
     /\ phase = "provisional" => clock' >= finalAt
  \/ /\ phase = "provisional" /\ phase' = "talking" /\ turn' = turn /\ finalAt' = 0
     /\ said'.type = "turn-resumed" /\ said'.turn = turn
  \/ /\ turn' = turn /\ said'.type = "none"
     /\ \/ phase' = phase /\ finalAt' = finalAt
        \/ phase = "provisional" /\ phase' = "quiet" /\ finalAt' = 0 /\ clock' >= finalAt
  \/ /\ phase = "talking" /\ phase' \in {"quiet", "provisional"} /\ turn' = turn
     /\ said'.type = "turn-end" /\ said'.turn = turn /\ said'.at \in Nat
     /\ phase' = "provisional" => finalAt' = said'.at
     /\ phase' = "quiet" => said'.at = clock'
     /\ finalAt' \in Nat

LEMMA DetectorFrame ==
  ASSUME DetectorOK, NEW level, NEW at \in Nat, Turns!Frame(level, at)
  PROVE  DetectorMoves /\ DetectorOK' /\ clock' = at
<1>1. clock' = at
  BY DEF Turns!Frame
<1>2. CASE Turns!Start(at)
  BY <1>1, <1>2 DEF DetectorMoves, DetectorOK, Turns!Start, Turns!Boundary, Turns!Phases
<1>3. CASE Turns!Resume(at)
  BY <1>1, <1>3 DEF DetectorMoves, DetectorOK, Turns!Resume, Turns!Boundary, Turns!Phases
<1>4. CASE Turns!Pass(at)
  BY <1>1, <1>4
     DEF DetectorMoves, DetectorOK, Turns!Pass, Turns!NoEvent, Turns!Boundary, Turns!Phases
<1>5. CASE Turns!EndByHangover(at)
  BY <1>1, <1>5 DEF DetectorMoves, DetectorOK, Turns!EndByHangover, Turns!Boundary, Turns!Phases
<1> QED
  BY <1>2, <1>3, <1>4, <1>5 DEF Turns!Frame

LEMMA DetectorJudged ==
  ASSUME DetectorOK, Turns!EndByModel
  PROVE  /\ DetectorMoves /\ DetectorOK' /\ phase' = "provisional"
         /\ said'.type = "turn-end" /\ clock' = clock /\ clock < finalAt'
<1>1. PICK at \in (clock + 1) .. (clock + Hangover) :
        finalAt' = at /\ said' = Turns!Boundary("turn-end", turn, at)
  BY DEF Turns!EndByModel
<1>2. /\ phase = "talking" /\ phase' = "provisional" /\ turn' = turn /\ clock' = clock
  BY DEF Turns!EndByModel
<1>3. at \in Nat /\ clock < at
  BY <1>1, SessionAssumption DEF DetectorOK
<1> QED
  BY <1>1, <1>2, <1>3 DEF DetectorMoves, DetectorOK, Turns!Boundary, Turns!Phases

\* What the session makes of it, before the rest of the frame.
LEMMA EventIsHeard ==
  ASSUME IInv, ~session.disposed, session.told = {}, DetectorMoves, RoomForAnswer, clock' \in Nat
  PROVE  LET t == OnTurn(session, said') IN
           /\ SessionOK(t) /\ ~t.disposed /\ TurnsOK(t, turn', phase', finalAt')
           /\ Due(t, turn', phase', finalAt', clock')
           /\ t.released = session.released
           /\ \/ t.standing = session.standing /\ t.told = {}
              \/ /\ t.pending = None /\ t.reply # None /\ t.reply \in 1 .. MaxAnswers
                 /\ session.standing[t.reply] = "working"
                 /\ t.standing = [session.standing EXCEPT ![t.reply] = "abandoned"]
<1> DEFINE t == OnTurn(session, said')
           at == clock'
<1>1. /\ SessionOK(session) /\ SessionTyped(session) /\ AnswersOK(session) /\ Loose(session)
      /\ TurnsOK(session, turn, phase, finalAt) /\ turn \in Nat /\ finalAt \in Nat
      /\ Waits(session, turn, phase, finalAt) /\ at \in Nat
  BY LooseOf DEF IInv, DetectorOK
<1> HIDE DEF at
<1>2. phase = "talking" =>
        /\ session.state # "thinking"
        /\ session.pending # None => session.answers[session.pending].confirmed
  BY <1>1 DEF TurnsOK, ThinksOfLast, Waits
<1>3. phase = "provisional" /\ session.state = "thinking" =>
        session.pending # None /\ session.answers[session.pending].turn = turn
  BY <1>1 DEF TurnsOK, ThinksOfLast
<1>4. CASE phase # "talking" /\ phase' = "talking" /\ turn' = turn + 1 /\ finalAt' = 0
           /\ said'.type = "speech-start" /\ (phase = "provisional" => clock' >= finalAt)
  <2>1. t.state # "thinking" /\ (t = session \/ GivenUpFrom(session, t))
    BY <1>1, <1>4, SpeechStarts
  <2>2. /\ t.answers = session.answers /\ t.pending \in {session.pending, None}
        /\ phase = "provisional" => at >= finalAt
    BY <1>4, <2>1 DEF GivenUpFrom, at
  <2> HIDE DEF t
  <2>3. TurnsOK(t, turn + 1, "talking", 0) /\ Due(t, turn + 1, "talking", 0, at)
    BY <1>1, <2>1, <2>2, TurnsAtStart
  <2> QED
    BY <1>1, <1>4, <2>1, <2>3 DEF t, at, GivenUpFrom
<1>5. CASE phase = "provisional" /\ phase' = "talking" /\ turn' = turn /\ finalAt' = 0
           /\ said'.type = "turn-resumed" /\ said'.turn = turn
  <2>1. ASSUME session.pending # None, session.answers[session.pending].turn = turn
        PROVE  session.standing[session.pending] # "audible"
    <3>1. session.pending \in 1 .. Len(session.answers)
      BY <1>1, <2>1, AnswersAreTyped
    <3>2. AnswerInTurn(session, turn, phase, finalAt, session.pending)
      BY <1>1, <3>1 DEF TurnsOK
    <3>3. ~session.answers[session.pending].confirmed
      BY <1>1, <1>5, <2>1, <3>2 DEF AnswerInTurn
    <3>4. AnswerOK(session.answers[session.pending], session.standing[session.pending],
                   session.pending \in session.released, session.pending \in session.astray)
      BY <1>1, <3>1 DEF AnswersOK
    <3> QED
      BY <3>3, <3>4 DEF AnswerOK
  <2>2. \/ t = session /\ ~(session.pending # None
                              /\ session.answers[session.pending].turn = turn)
        \/ GivenUpFrom(session, t)
    BY <1>1, <1>5, <2>1, TurnIsResumed
  <2>3. /\ t.answers = session.answers /\ t.state # "thinking"
        /\ t.pending = None \/ (t.pending = session.pending
                                  /\ session.answers[session.pending].turn # turn)
    BY <1>3, <1>5, <2>2 DEF GivenUpFrom
  <2> HIDE DEF t
  <2>4. TurnsOK(t, turn, "talking", 0) /\ Due(t, turn, "talking", 0, at)
    <3>1. TurnsOK(session, turn, "provisional", finalAt)
          /\ Waits(session, turn, "provisional", finalAt)
      BY <1>1, <1>5
    <3> QED
      BY <1>1, <2>3, <3>1, TurnsAtResume
  <2> QED
    BY <1>1, <1>5, <2>2, <2>4 DEF t, at, GivenUpFrom
<1>6. CASE /\ turn' = turn /\ said'.type = "none"
           /\ \/ phase' = phase /\ finalAt' = finalAt
              \/ phase = "provisional" /\ phase' = "quiet" /\ finalAt' = 0 /\ clock' >= finalAt
  <2>1. t = session
    BY <1>6 DEF OnTurn
  <2>2. TurnsOK(session, turn, phase', finalAt') /\ Due(session, turn, phase', finalAt', at)
    <3> DEFINE now == phase'
               after == finalAt'
    <3>1. \/ now = phase /\ after = finalAt
          \/ phase = "provisional" /\ now = "quiet" /\ at >= finalAt
      BY <1>6 DEF at
    <3> HIDE DEF now, after
    <3>2. TurnsOK(session, turn, now, after) /\ Due(session, turn, now, after, at)
      BY <1>1, <3>1, TurnsAtPass
    <3> QED
      BY <3>2 DEF now, after
  <2> QED
    BY <1>1, <1>6, <2>1, <2>2 DEF at
<1>7. CASE /\ phase = "talking" /\ phase' \in {"quiet", "provisional"} /\ turn' = turn
           /\ said'.type = "turn-end" /\ said'.turn = turn /\ said'.at \in Nat
           /\ phase' = "provisional" => finalAt' = said'.at
           /\ phase' = "quiet" => said'.at = clock'
  <2>1. /\ session.state # "thinking" /\ Len(session.answers) < MaxAnswers
        /\ session.pending # None => session.answers[session.pending].confirmed
    BY <1>2, <1>7 DEF RoomForAnswer
  <2>2. /\ SessionOK(t)
        /\ \/ t = session /\ session.state = "speaking"
           \/ AnswerIs(session, t, turn, said'.at)
    BY <1>1, <1>7, <2>1, TurnIsEnded
  <2> HIDE DEF t
  <2>3. TurnsOK(session, turn, "talking", finalAt)
    BY <1>1, <1>7
  <2> DEFINE due == said'.at
             now == phase'
             after == finalAt'
  <2>4. /\ due \in Nat /\ now \in {"quiet", "provisional"}
        /\ now = "provisional" => due = after
        /\ now = "quiet" => due = at
    BY <1>7 DEF at
  <2> HIDE DEF due, now, after
  <2>6. TurnsOK(t, turn, now, after) /\ Due(t, turn, now, after, at)
    <3>1. CASE t = session
      <4>1. TurnsOK(session, turn, now, after) /\ Due(session, turn, now, after, at)
        BY <1>1, <2>1, <2>3, <2>4, TurnsAtEnd
      <4> QED
        BY <3>1, <4>1
    <3>2. CASE AnswerIs(session, t, turn, due)
      BY <1>1, <2>3, <2>4, <3>2, TurnsAtAnswer
    <3> QED
      BY <2>2, <3>1, <3>2 DEF due
  <2>7. TurnsOK(t, turn, phase', finalAt') /\ Due(t, turn, phase', finalAt', at)
    BY <2>6 DEF now, after
  <2> QED
    BY <1>7, <2>2, <2>7 DEF t, at, AnswerIs
<1> QED
  BY <1>4, <1>5, <1>6, <1>7 DEF DetectorMoves

LEMMA FrameIs ==
  ASSUME IInv, NEW level, NEW at \in Nat, Frame(level, at)
  PROVE  IInv' /\ Drives(session, session')
<1> DEFINE heard == OnTurn(session, said')
           confirmed == Confirm(heard, at)
           t == session'
<1>1. /\ ~session.disposed /\ session.told = {} /\ SessionOK(session)
      /\ Turns!Frame(level, at) /\ RoomForAnswer
      /\ t = GateHears(confirmed, level)
  BY DEF Frame, Running, Idle, IInv
<1>2. DetectorMoves /\ DetectorOK' /\ clock' = at
  BY <1>1, DetectorFrame DEF IInv
<1>3. /\ SessionOK(heard) /\ ~heard.disposed /\ TurnsOK(heard, turn', phase', finalAt')
      /\ Due(heard, turn', phase', finalAt', at)
      /\ heard.released = session.released
      /\ \/ heard.standing = session.standing /\ heard.told = {}
         \/ /\ heard.pending = None /\ heard.reply # None /\ heard.reply \in 1 .. MaxAnswers
            /\ session.standing[heard.reply] = "working"
            /\ heard.standing = [session.standing EXCEPT ![heard.reply] = "abandoned"]
  BY <1>1, <1>2, EventIsHeard
<1> HIDE DEF heard
<1>4. /\ SessionOK(confirmed) /\ SameSituation(heard, confirmed)
      /\ \A a \in 1 .. Len(heard.answers) :
           /\ confirmed.answers[a].turn = heard.answers[a].turn
           /\ confirmed.answers[a].confirmedAt = heard.answers[a].confirmedAt
           /\ confirmed.answers[a].confirmed =>
                heard.answers[a].confirmed
                  \/ (a = heard.pending /\ at >= heard.answers[a].confirmedAt)
      /\ heard.pending # None =>
           confirmed.answers[heard.pending].confirmed
             \/ at < confirmed.answers[heard.pending].confirmedAt
      /\ \/ confirmed = heard
         \/ /\ heard.pending # None /\ heard.pending \in 1 .. MaxAnswers
            /\ confirmed.released = heard.released \cup {heard.pending}
  BY <1>3, ConfirmIs
<1> HIDE DEF confirmed
<1>5. /\ confirmed.standing = heard.standing /\ confirmed.reply = heard.reply
      /\ ~confirmed.disposed
  BY <1>3, <1>4 DEF SameSituation
<1> DEFINE last == turn'
           now == phase'
           final == finalAt'
<1>6. TurnsOK(confirmed, last, now, final) /\ Waits(confirmed, last, now, final)
  <2>1. /\ last \in Nat /\ now \in Turns!Phases /\ final \in Nat
        /\ now = "provisional" => at < final
    BY <1>2 DEF DetectorOK
  <2>2. TurnsOK(heard, last, now, final) /\ Due(heard, last, now, final, at)
    BY <1>3
  <2>3. /\ SessionTyped(heard) /\ Len(confirmed.answers) = Len(heard.answers)
        /\ confirmed.pending = heard.pending /\ confirmed.state = heard.state
        /\ \A a \in 1 .. Len(heard.answers) :
             heard.answers[a].confirmed => confirmed.answers[a].confirmed
    BY <1>3, <1>4, LooseOf DEF SameSituation
  <2> HIDE DEF last, now, final
  <2> QED
    BY <1>3, <1>4, <2>1, <2>2, <2>3, TurnsAtConfirm
<1>7. CutFrom(confirmed, t)
  <2>1. heard.reply # None => heard.standing[heard.reply] \in {"working", "audible", "abandoned"}
    <3>1. CASE heard.standing = session.standing /\ heard.told = {}
      BY <1>3, <3>1, NothingToTell DEF Living
    <3>2. CASE /\ heard.reply # None /\ heard.reply \in 1 .. MaxAnswers
               /\ heard.standing = [session.standing EXCEPT ![heard.reply] = "abandoned"]
      <4>1. session.standing \in [1 .. MaxAnswers -> Statuses]
        BY <1>1, LooseOf DEF SessionType
      <4> QED
        BY <3>2, <4>1
    <3> QED
      BY <1>3, <3>1, <3>2
  <2> QED
    BY <1>1, <1>4, <1>5, <2>1, GateHearsIs
<1> HIDE DEF t
<1>8. TurnsOK(t, last, now, final) /\ Waits(t, last, now, final)
  <2>1. SessionTyped(confirmed) /\ SameTurns(confirmed, t) /\ t.pending = confirmed.pending
    BY <1>4, <1>5, <1>7, LooseOf DEF CutFrom, SameTurns
  <2>2. t.state = "thinking" => confirmed.state = "thinking"
    BY <1>7 DEF CutFrom
  <2> HIDE DEF last, now, final
  <2> QED
    BY <1>5, <1>6, <2>1, <2>2, QuietTurns
<1>9. Drives(session, t)
  <2>1. session.standing \in [1 .. MaxAnswers -> Statuses]
    BY <1>1, LooseOf DEF SessionType
  <2>2. CASE heard.standing = session.standing
    <3>1. \/ t.released = session.released
          \/ \E q \in 1 .. MaxAnswers : t.released = session.released \cup {q}
      BY <1>3, <1>4, <1>7 DEF CutFrom
    <3>2. CASE t.standing = session.standing
      BY <3>1, <3>2 DEF Drives
    <3>3. CASE t.standing # session.standing
      <4>1. PICK r \in 1 .. MaxAnswers : \E to :
              /\ t.standing = [session.standing EXCEPT ![r] = to]
              /\ \/ session.standing[r] = "working" /\ to = "abandoned"
                 \/ session.standing[r] = "audible" /\ to = "interrupted"
        BY <1>5, <1>7, <2>2, <3>3 DEF CutFrom
      <4> QED
        BY <3>1, <4>1 DEF Drives
    <3> QED
      BY <3>2, <3>3
  <2>3. CASE /\ heard.pending = None /\ heard.reply # None /\ heard.reply \in 1 .. MaxAnswers
             /\ session.standing[heard.reply] = "working"
             /\ heard.standing = [session.standing EXCEPT ![heard.reply] = "abandoned"]
    <3>1. confirmed.standing[confirmed.reply] = "abandoned"
      BY <1>5, <2>1, <2>3
    <3>2. t.standing = heard.standing
      BY <1>5, <1>7, <3>1 DEF CutFrom
    <3>3. t.released = session.released
      BY <1>3, <1>4, <1>7, <2>3 DEF CutFrom
    <3> QED
      BY <2>3, <3>2, <3>3 DEF Drives
  <2> QED
    BY <1>3, <2>2, <2>3
<1> QED
  BY <1>2, <1>7, <1>8, <1>9 DEF IInv, CutFrom, t, last, now, final

LEMMA JudgeEndsIs ==
  ASSUME IInv, JudgeEnds
  PROVE  IInv' /\ Drives(session, session')
<1> DEFINE t == session'
           last == turn'
           now == phase'
           final == finalAt'
<1>1. /\ ~session.disposed /\ session.told = {} /\ Turns!EndByModel /\ RoomForAnswer
      /\ t = OnTurn(session, said')
  BY DEF JudgeEnds, Running, Idle
<1>2. /\ DetectorMoves /\ DetectorOK' /\ now = "provisional" /\ said'.type = "turn-end"
      /\ clock' = clock /\ clock < final /\ clock \in Nat /\ final \in Nat
  BY <1>1, DetectorJudged DEF IInv, DetectorOK
<1>3. /\ SessionOK(t) /\ ~t.disposed /\ TurnsOK(t, last, now, final)
      /\ Due(t, last, now, final, clock)
      /\ t.released = session.released
      /\ \/ t.standing = session.standing /\ t.told = {}
         \/ /\ t.pending = None /\ t.reply # None /\ t.reply \in 1 .. MaxAnswers
            /\ session.standing[t.reply] = "working"
            /\ t.standing = [session.standing EXCEPT ![t.reply] = "abandoned"]
  BY <1>1, <1>2, EventIsHeard
<1>4. Waits(t, last, now, final)
  BY <1>2, <1>3 DEF Due, Waits
<1> QED
  BY <1>2, <1>3, <1>4 DEF IInv, Drives

-----------------------------------------------------------------------------
(* The other handlers.                                                       *)

\* What a handler that is not the detector's leaves as it was.
QuietStep(s, t) ==
  /\ SessionOK(t) /\ Drives(s, t) /\ SameTurns(s, t)
  /\ t.pending \in {s.pending, None}
  /\ ~t.disposed /\ t.state = "thinking" =>
       ~s.disposed /\ s.state = "thinking" /\ t.pending = s.pending

PutAnswer(s, a, new) == [s EXCEPT !.answers = [s.answers EXCEPT ![a] = new]]

LEMMA PutAnswerIs ==
  ASSUME NEW s \in SessionType, NEW a \in 1 .. Len(s.answers), NEW new \in AnswerType
  PROVE  LET t == PutAnswer(s, a, new) IN
           /\ t \in SessionType /\ Len(t.answers) = Len(s.answers)
           /\ \A b \in 1 .. Len(s.answers) :
                t.answers[b] = IF b = a THEN new ELSE s.answers[b]
           /\ t.state = s.state /\ t.gate = s.gate /\ t.gain = s.gain
           /\ t.pending = s.pending /\ t.reply = s.reply /\ t.standing = s.standing
           /\ t.released = s.released /\ t.told = s.told /\ t.disposed = s.disposed
           /\ t.astray = s.astray
<1> DEFINE answers == [s.answers EXCEPT ![a] = new]
           t == PutAnswer(s, a, new)
<1>1. s.answers \in Seq(AnswerType)
  BY DEF SessionType
<1>2. /\ answers \in Seq(AnswerType) /\ Len(answers) = Len(s.answers)
      /\ \A b \in 1 .. Len(s.answers) : answers[b] = IF b = a THEN new ELSE s.answers[b]
  BY <1>1, ExceptSeq
<1>3. t = [s EXCEPT !.answers = answers]
  BY DEF PutAnswer
<1> HIDE DEF answers, t
<1>4. /\ t \in SessionType /\ t.answers = answers
      /\ t.state = s.state /\ t.gate = s.gate /\ t.gain = s.gain
      /\ t.pending = s.pending /\ t.reply = s.reply /\ t.standing = s.standing
      /\ t.released = s.released /\ t.told = s.told /\ t.disposed = s.disposed
      /\ t.astray = s.astray
  BY <1>2, <1>3 DEF SessionType
<1> QED
  BY <1>2, <1>4 DEF t

\* One answer, and what became of it, has changed.
LEMMA OneAnswerChanges ==
  ASSUME NEW s, NEW t, NEW a \in 1 .. Len(s.answers),
         Len(s.answers) \in Nat, Len(s.answers) <= MaxAnswers, AnswersOK(s),
         Len(t.answers) = Len(s.answers), t.released = s.released, t.astray = s.astray,
         \A b \in 1 .. Len(s.answers) : b # a => t.answers[b] = s.answers[b],
         \A r \in 1 .. MaxAnswers : r # a => t.standing[r] = s.standing[r],
         AnswerOK(t.answers[a], t.standing[a], a \in s.released, a \in s.astray),
         \A r \in 1 .. MaxAnswers :
           t.standing[r] \in Living => r = t.reply \/ r \in s.astray
  PROVE  AnswersOK(t)
<1>1. ASSUME NEW b \in 1 .. Len(t.answers)
      PROVE  AnswerOK(t.answers[b], t.standing[b], b \in t.released, b \in t.astray)
  <2>1. b \in 1 .. Len(s.answers) /\ b \in 1 .. MaxAnswers
    BY SessionAssumption
  <2>2. AnswerOK(s.answers[b], s.standing[b], b \in s.released, b \in s.astray)
    BY <2>1 DEF AnswersOK
  <2>3. CASE b = a
    BY <2>3
  <2>4. CASE b # a
    BY <2>1, <2>2, <2>4
  <2> QED
    BY <2>3, <2>4
<1>2. ASSUME NEW r \in 1 .. MaxAnswers, r > Len(t.answers)
      PROVE  t.standing[r] = "none"
  BY <1>2 DEF AnswersOK
<1> QED
  BY <1>1, <1>2 DEF AnswersOK

LEMMA RangeOfAppend ==
  ASSUME NEW kind \in Kinds, NEW seq \in Seq(Kinds)
  PROVE  /\ Append(seq, kind) \in Seq(Kinds)
         /\ Range(Append(seq, kind)) = Range(seq) \cup {kind}
<1>1. /\ Append(seq, kind) \in Seq(Kinds) /\ Len(Append(seq, kind)) = Len(seq) + 1
      /\ Len(seq) \in Nat
      /\ \A i \in 1 .. Len(seq) : Append(seq, kind)[i] = seq[i]
      /\ Append(seq, kind)[Len(seq) + 1] = kind
  BY AppendProperties
<1>2. /\ Range(seq) = {seq[i] : i \in 1 .. Len(seq)}
      /\ Range(Append(seq, kind)) = {Append(seq, kind)[i] : i \in 1 .. Len(seq) + 1}
  BY <1>1, RangeEquality
<1> QED
  BY <1>1, <1>2

PublishedTo(s, a, kind) ==
  IF s.pending = a /\ ~s.answers[a].confirmed
  THEN [s.answers[a] EXCEPT !.held = Append(s.answers[a].held, kind)]
  ELSE [s.answers[a] EXCEPT !.published = Append(s.answers[a].published, kind)]

\* What is published of an answer that waits for its turn is held.
WithPublished(was, is, kind, waits) ==
  /\ is \in AnswerType
  /\ is.turn = was.turn /\ is.confirmedAt = was.confirmedAt
  /\ is.confirmed = was.confirmed /\ is.text = was.text
  /\ is.spoke = was.spoke /\ is.heard = was.heard
  /\ waits => Range(is.held) = Range(was.held) \cup {kind} /\ is.published = was.published
  /\ ~waits => Range(is.published) = Range(was.published) \cup {kind} /\ is.held = was.held

LEMMA PublishIs ==
  ASSUME NEW s, NEW a, NEW kind \in Kinds, SessionTyped(s), a \in 1 .. Len(s.answers)
  PROVE  /\ Publish(s, a, kind) = PutAnswer(s, a, PublishedTo(s, a, kind))
         /\ WithPublished(s.answers[a], PublishedTo(s, a, kind), kind,
                          s.pending = a /\ ~s.answers[a].confirmed)
<1> DEFINE was == s.answers[a]
           held == Append(was.held, kind)
           published == Append(was.published, kind)
<1>1. was \in AnswerType /\ s.answers \in Seq(AnswerType)
  BY DEF SessionTyped, SessionType
<1>2. was.held \in Seq(Kinds) /\ was.published \in Seq(Kinds)
  BY <1>1 DEF AnswerType
<1>3. \A seq \in Seq(Kinds) :
        /\ Append(seq, kind) \in Seq(Kinds)
        /\ Range(Append(seq, kind)) = Range(seq) \cup {kind}
  BY RangeOfAppend
<1>4. CASE s.pending = a /\ ~was.confirmed
  <2>1. Publish(s, a, kind) = PutAnswer(s, a, [was EXCEPT !.held = held])
    BY <1>4 DEF Publish, PutAnswer
  <2>2. PublishedTo(s, a, kind) = [was EXCEPT !.held = held]
    BY <1>4 DEF PublishedTo
  <2>3. held \in Seq(Kinds) /\ Range(held) = Range(was.held) \cup {kind}
    BY <1>2, <1>3
  <2> HIDE DEF held, was
  <2> QED
    BY <1>1, <1>4, <2>1, <2>2, <2>3 DEF AnswerType, was, WithPublished
<1>5. CASE ~(s.pending = a /\ ~was.confirmed)
  <2>1. Publish(s, a, kind) = PutAnswer(s, a, [was EXCEPT !.published = published])
    BY <1>5 DEF Publish, PutAnswer
  <2>2. PublishedTo(s, a, kind) = [was EXCEPT !.published = published]
    BY <1>5 DEF PublishedTo
  <2>3. published \in Seq(Kinds) /\ Range(published) = Range(was.published) \cup {kind}
    BY <1>2, <1>3
  <2> HIDE DEF published, was
  <2> QED
    BY <1>1, <1>5, <2>1, <2>2, <2>3 DEF AnswerType, was, WithPublished
<1> QED
  BY <1>4, <1>5

LEMMA TranscribedIs ==
  ASSUME SessionOK(session), NEW a \in 1 .. Len(session.answers),
         NEW text \in {"words", "nothing"}, Transcribed(a, text)
  PROVE  QuietStep(session, session')
<1> DEFINE was == session.answers[a]
           is == [was EXCEPT !.text = text]
           s == PutAnswer(session, a, is)
<1>1. /\ a \in 1 .. MaxAnswers /\ a # None /\ Len(session.answers) \in Nat
      /\ Len(session.answers) <= MaxAnswers /\ session \in SessionType
      /\ SessionTyped(session) /\ AnswersOK(session) /\ session.told = {}
      /\ \A b \in 1 .. Len(session.answers) : b \in 1 .. MaxAnswers /\ b # None
  BY AnswersAreTyped DEF SessionOK, SessionTyped, Transcribed, Idle
<1>2. was \in AnswerType /\ was.text = "asked"
  BY <1>1 DEF SessionType, Transcribed
<1>3. /\ AnswerOK(was, session.standing[a], a \in session.released, a \in session.astray)
      /\ session.standing[a] = "none"
  BY <1>1, <1>2 DEF AnswersOK, AnswerOK
<1>4. session' = IF ~StillPending(s, a) THEN s
                 ELSE IF text = "nothing" THEN NotRecognised(s)
                 ELSE StartReply(Publish(s, a, "transcript"), a)
  BY DEF Transcribed, PutAnswer
<1>5. /\ is \in AnswerType
      /\ is.turn = was.turn /\ is.confirmedAt = was.confirmedAt
      /\ is.confirmed = was.confirmed /\ is.text = text /\ is.held = was.held
      /\ is.spoke = was.spoke /\ is.heard = was.heard /\ is.published = was.published
  <2> HIDE DEF was
  <2> QED
    BY <1>2 DEF AnswerType
<1> HIDE DEF is
<1>6. /\ s \in SessionType /\ Len(s.answers) = Len(session.answers)
      /\ \A b \in 1 .. Len(session.answers) :
           s.answers[b] = IF b = a THEN is ELSE session.answers[b]
      /\ s.state = session.state /\ s.gate = session.gate /\ s.gain = session.gain
      /\ s.pending = session.pending /\ s.reply = session.reply
      /\ s.standing = session.standing /\ s.released = session.released
      /\ s.told = session.told /\ s.disposed = session.disposed
      /\ s.astray = session.astray
  BY <1>1, <1>5, PutAnswerIs
<1> HIDE DEF s
<1>7. SameTurns(session, s)
  BY <1>5, <1>6 DEF SameTurns
<1>8. AnswerOK(s.answers[a], s.standing[a], a \in session.released, a \in session.astray)
  <2>1. AnswerOK(is, "none", a \in session.released, a \in session.astray)
    BY <1>3, <1>5 DEF AnswerOK
  <2> QED
    BY <1>3, <1>6, <2>1
<1>9. AnswersOK(s)
  <2>1. \A r \in 1 .. MaxAnswers :
          s.standing[r] \in Living => r = s.reply \/ r \in session.astray
    BY <1>1, <1>6 DEF AnswersOK
  <2> QED
    BY <1>1, <1>6, <1>8, <2>1, OneAnswerChanges
<1>10. SessionTyped(s) /\ (GateOK(session) => GateOK(s))
  BY <1>1, <1>6 DEF SessionTyped, GateOK
<1>11. CASE session.pending # a
  <2>1. session' = s
    BY <1>4, <1>6, <1>11 DEF StillPending
  <2>2. SameSituation(session, s)
    <3>1. session.pending # None => s.answers[session.pending] = session.answers[session.pending]
      BY <1>1, <1>6, <1>11, AnswersAreTyped
    <3> QED
      BY <1>5, <1>6, <3>1 DEF SameSituation
  <2>3. SessionOK(s)
    BY <1>9, <1>10, <2>2, LooseOf, StaysOK
  <2> QED
    BY <1>6, <1>7, <2>1, <2>3 DEF QuietStep, Drives
<1>12. CASE session.pending = a
  <2>1. /\ ~session.disposed /\ GateOK(session) /\ Loose(session)
        /\ Calm(session) \/ (Wild(session) /\ session.state \in Awake)
        /\ Calm(session) => Recognising(session)
        /\ session.reply # None => session.standing[session.reply] \in Living
    <3>1. ~session.disposed
      BY <1>1, <1>12 DEF SessionOK, HungUp, InCall
    <3> QED
      BY <1>1, <1>3, <1>12, <3>1, LooseOf, NothingToTell DEF Resting, Making, Speaking
  <2>2. \A r \in 1 .. MaxAnswers : session.standing[r] \in Living => r \in session.astray
    <3>1. CASE Calm(session)
      <4>1. session.reply = None
        BY <2>1, <3>1 DEF Recognising
      <4>2. \A r \in 1 .. MaxAnswers : r # None
        BY DEF None
      <4> QED
        BY <3>1, <4>1, <4>2 DEF Calm
    <3>2. CASE Wild(session)
      BY <1>1, <3>2 DEF Wild, AnswersOK, Living
    <3> QED
      BY <2>1, <3>1, <3>2
  <2>3. CASE text = "nothing"
    <3>1. PICK u : u = [s EXCEPT !.pending = None]
      OBVIOUS
    <3>2. PICK t : t = Dispatch(u, "error")
      OBVIOUS
    <3>3. session' = t
      BY <1>4, <1>6, <1>12, <2>3, <3>1, <3>2 DEF StillPending, NotRecognised
    <3>4. /\ u \in SessionType /\ u.pending = None
          /\ u.state = s.state /\ u.gate = s.gate /\ u.gain = s.gain
          /\ u.reply = s.reply /\ u.answers = s.answers /\ u.standing = s.standing
          /\ u.released = s.released /\ u.told = s.told /\ u.disposed = s.disposed
          /\ u.astray = s.astray
      BY <1>6, <3>1 DEF SessionType, None
    <3>5. SessionTyped(u) /\ AnswersOK(u) /\ GateOK(u)
      BY <1>9, <1>10, <2>1, <3>4 DEF SessionTyped, AnswersOK, GateOK
    <3>6. /\ SessionTyped(t) /\ AnswersOK(t) /\ GateOK(t) /\ SameButMachine(u, t)
          /\ t.state = IF session.state = "thinking" THEN "listening" ELSE session.state
      <4>1. u.state = session.state /\ ~u.disposed
        BY <1>6, <2>1, <3>4
      <4>2. u.state \in Awake
        <5>1. CASE Calm(session)
          BY <2>1, <4>1, <5>1 DEF Recognising, Awake
        <5> QED
          BY <2>1, <4>1, <5>1
      <4>3. /\ SessionTyped(t) /\ AnswersOK(t) /\ GateOK(t) /\ SameButMachine(u, t)
            /\ t.state = transition(u.state, "error")
        BY <3>2, <3>5, <4>1, DispatchKeeps
      <4>4. transition(u.state, "error") =
              IF u.state = "thinking" THEN "listening" ELSE u.state
        BY <4>2, SessionMoves
      <4> QED
        BY <4>1, <4>3, <4>4
    <3>7. /\ t.pending = None /\ t.reply = session.reply /\ t.told = {}
          /\ t.answers = s.answers /\ t.standing = session.standing
          /\ t.released = session.released /\ t.astray = session.astray /\ ~t.disposed
      BY <1>1, <1>6, <2>1, <3>4, <3>6 DEF SameButMachine
    <3>8. ASSUME Calm(session) PROVE Calm(t)
      BY <2>1, <3>6, <3>7, <3>8 DEF Calm, Recognising, Resting
    <3>9. ASSUME Wild(session) PROVE Wild(t)
      <4>1. \A r \in 1 .. Len(session.answers) :
              /\ Voiced(session, r) => Voiced(t, r)
              /\ t.standing[r] \in Living => r # a /\ t.answers[r] = session.answers[r]
        BY <1>1, <1>3, <1>5, <1>6, <3>7 DEF Voiced, Living
      <4>2. t.state \in {"listening", "speaking", "interrupted"}
            /\ (t.state = "speaking" => session.state = "speaking")
        <5>1. CASE Calm(session)
          BY <2>1, <3>6, <5>1 DEF Recognising
        <5>2. CASE session.state \in Awake
          BY <3>6, <5>2 DEF Awake
        <5> QED
          BY <2>1, <5>1, <5>2
      <4>3. Loose(t)
        BY <1>6, <1>12, <2>1, <3>7, <4>1, <4>2 DEF Loose
      <4> QED
        BY <1>1, <1>6, <3>7, <3>9, <4>3 DEF Wild
    <3>10. SessionOK(t)
      BY <2>1, <3>6, <3>7, <3>8, <3>9 DEF SessionOK, InCall
    <3>11. SameTurns(session, t) /\ Drives(session, t) /\ t.state # "thinking"
      BY <1>7, <3>6, <3>7 DEF SameTurns, Drives
    <3> QED
      BY <3>3, <3>7, <3>10, <3>11 DEF QuietStep
  <2>4. CASE text = "words"
    <3> DEFINE out == PublishedTo(s, a, "transcript")
               u == PutAnswer(s, a, out)
               standing == [session.standing EXCEPT ![a] = "working"]
    <3>1. /\ Publish(s, a, "transcript") = u
          /\ WithPublished(s.answers[a], out, "transcript", ~s.answers[a].confirmed)
      <4>1. "transcript" \in Kinds
        BY DEF Kinds
      <4>2. /\ Publish(s, a, "transcript") = u
            /\ WithPublished(s.answers[a], out, "transcript",
                             s.pending = a /\ ~s.answers[a].confirmed)
        BY <1>6, <1>10, <4>1, PublishIs
      <4> HIDE DEF out, u
      <4> QED
        BY <1>6, <1>12, <4>2 DEF WithPublished
    <3> HIDE DEF out
    <3>2. AnswerOK(out, "working", a \in session.released, a \in session.astray)
      <4>1. s.answers[a].text = "words" /\ s.standing[a] = "none"
        BY <1>3, <1>5, <1>6, <2>4
      <4> QED
        BY <1>8, <3>1, <4>1 DEF AnswerOK, Living, WithPublished
    <3>3. /\ u \in SessionType /\ Len(u.answers) = Len(s.answers)
          /\ \A b \in 1 .. Len(s.answers) : u.answers[b] = IF b = a THEN out ELSE s.answers[b]
          /\ u.state = s.state /\ u.gate = s.gate /\ u.gain = s.gain
          /\ u.pending = s.pending /\ u.reply = s.reply /\ u.standing = s.standing
          /\ u.released = s.released /\ u.told = s.told /\ u.disposed = s.disposed
          /\ u.astray = s.astray
      BY <1>6, <3>1, PutAnswerIs DEF WithPublished
    <3> HIDE DEF u
    <3>4. PICK t : t = [u EXCEPT !.standing = standing, !.reply = a]
      OBVIOUS
    <3>5. session' = t
      BY <1>4, <1>6, <1>12, <2>4, <3>1, <3>3, <3>4 DEF StillPending, StartReply
    <3>6. /\ standing \in [1 .. MaxAnswers -> Statuses]
          /\ \A r \in 1 .. MaxAnswers :
               standing[r] = IF r = a THEN "working" ELSE session.standing[r]
      BY <1>1 DEF SessionType, Statuses
    <3> HIDE DEF standing
    <3>7. /\ t \in SessionType /\ t.answers = u.answers /\ t.standing = standing
          /\ t.state = session.state /\ t.gate = session.gate /\ t.gain = session.gain
          /\ t.pending = a /\ t.reply = a /\ t.released = session.released
          /\ t.told = {} /\ ~t.disposed /\ t.astray = session.astray
      BY <1>1, <1>6, <1>12, <2>1, <3>3, <3>4, <3>6 DEF SessionType
    <3>8. AnswersOK(t)
      <4>1. \A r \in 1 .. MaxAnswers :
              t.standing[r] \in Living => r = t.reply \/ r \in s.astray
        BY <1>6, <2>2, <3>6, <3>7
      <4>2. AnswerOK(t.answers[a], t.standing[a], a \in s.released, a \in s.astray)
        BY <1>1, <1>6, <3>2, <3>3, <3>6, <3>7
      <4>3. /\ Len(t.answers) = Len(s.answers) /\ t.released = s.released
            /\ t.astray = s.astray
            /\ \A b \in 1 .. Len(s.answers) : b # a => t.answers[b] = s.answers[b]
            /\ \A r \in 1 .. MaxAnswers : r # a => t.standing[r] = s.standing[r]
        BY <1>6, <3>3, <3>6, <3>7
      <4>4. /\ a \in 1 .. Len(s.answers) /\ Len(s.answers) \in Nat
            /\ Len(s.answers) <= MaxAnswers
        BY <1>1, <1>6
      <4> QED
        BY <1>9, <4>1, <4>2, <4>3, <4>4, OneAnswerChanges
    <3>9. SessionTyped(t) /\ GateOK(t)
      <4>1. Len(t.answers) = Len(session.answers)
        BY <1>6, <3>3, <3>7
      <4>2. SessionTyped(t)
        BY <1>1, <1>12, <3>7, <4>1 DEF SessionTyped
      <4>3. GateOK(t)
        BY <2>1, <3>7 DEF GateOK
      <4> QED
        BY <4>2, <4>3
    <3>10. ASSUME Calm(session) PROVE Calm(t)
      <4>1. Making(t)
        BY <1>1, <2>1, <3>6, <3>7, <3>10 DEF Recognising, Making
      <4>2. \A r \in 1 .. MaxAnswers : t.standing[r] \in Living => r = t.reply
        BY <2>1, <3>6, <3>7, <3>10 DEF Calm, Recognising, None
      <4> QED
        BY <4>1, <4>2 DEF Calm
    <3>11. ASSUME Wild(session) PROVE Wild(t)
      <4>1. ~session.answers[a].heard
        BY <1>3 DEF AnswerOK
      <4>2. \A r \in 1 .. Len(session.answers) :
              /\ r # a => t.answers[r] = session.answers[r]
              /\ t.standing[r] = IF r = a THEN "working" ELSE session.standing[r]
        BY <1>1, <1>6, <3>3, <3>6, <3>7
      <4>3. \A r \in 1 .. Len(session.answers) : Voiced(session, r) => Voiced(t, r)
        BY <1>1, <3>7, <4>1, <4>2 DEF Voiced
      <4>4. Len(t.answers) = Len(session.answers)
        BY <1>6, <3>3, <3>7
      <4>5. \A r \in 1 .. Len(session.answers) :
              t.standing[r] \in Living => r = a \/ t.answers[r].confirmed
        BY <1>12, <2>1, <4>2 DEF Loose
      <4>6. t.standing[a] = "working" /\ "working" \in Living
        BY <4>2 DEF Living
      <4>7. Loose(t)
        BY <1>1, <2>1, <3>7, <4>3, <4>4, <4>5, <4>6 DEF Loose
      <4> QED
        BY <1>1, <1>12, <2>2, <3>7, <3>11, <4>2, <4>4, <4>7 DEF Wild
    <3>12. SessionOK(t)
      BY <2>1, <3>7, <3>8, <3>9, <3>10, <3>11 DEF SessionOK, InCall
    <3>13. SameTurns(session, t)
      <4>1. SameTurns(s, t)
        BY <3>1, <3>3, <3>7, <1>6 DEF SameTurns, WithPublished
      <4> QED
        BY <1>7, <4>1 DEF SameTurns
    <3>14. Drives(session, t)
      BY <1>1, <1>3, <3>7 DEF Drives, standing
    <3> QED
      BY <1>12, <2>1, <3>5, <3>7, <3>12, <3>13, <3>14 DEF QuietStep
  <2> QED
    BY <2>3, <2>4
<1> QED
  BY <1>11, <1>12


\* What is kept of an answer changes, and nothing that the situations tell apart.
LEMMA AnswerIsPut ==
  ASSUME SessionOK(session), NEW r \in 1 .. Len(session.answers), NEW is \in AnswerType,
         is.turn = session.answers[r].turn,
         is.confirmedAt = session.answers[r].confirmedAt,
         is.confirmed = session.answers[r].confirmed, is.text = session.answers[r].text,
         is.heard = session.answers[r].heard,
         AnswerOK(is, session.standing[r], r \in session.released, r \in session.astray)
  PROVE  QuietStep(session, PutAnswer(session, r, is))
<1>1. PICK t : t = PutAnswer(session, r, is)
  OBVIOUS
<1>2. /\ Len(session.answers) \in Nat /\ Len(session.answers) <= MaxAnswers
      /\ session \in SessionType /\ SessionTyped(session) /\ AnswersOK(session)
      /\ session.pending # None => session.pending \in 1 .. Len(session.answers)
  BY AnswersAreTyped DEF SessionOK, SessionTyped
<1>3. /\ t \in SessionType /\ Len(t.answers) = Len(session.answers)
      /\ \A b \in 1 .. Len(session.answers) :
           t.answers[b] = IF b = r THEN is ELSE session.answers[b]
      /\ t.state = session.state /\ t.gate = session.gate /\ t.gain = session.gain
      /\ t.pending = session.pending /\ t.reply = session.reply
      /\ t.standing = session.standing /\ t.released = session.released
      /\ t.told = session.told /\ t.disposed = session.disposed
      /\ t.astray = session.astray
  BY <1>1, <1>2, PutAnswerIs
<1>4. AnswersOK(t)
  <2>1. AnswerOK(t.answers[r], t.standing[r], r \in session.released, r \in session.astray)
    BY <1>3
  <2>2. \A q \in 1 .. MaxAnswers :
          t.standing[q] \in Living => q = t.reply \/ q \in session.astray
    BY <1>2, <1>3 DEF AnswersOK
  <2> QED
    BY <1>2, <1>3, <2>1, <2>2, OneAnswerChanges
<1>5. SessionTyped(t) /\ (GateOK(session) => GateOK(t))
  BY <1>2, <1>3 DEF SessionTyped, GateOK
<1>6. SameSituation(session, t) /\ SameTurns(session, t)
  BY <1>2, <1>3 DEF SameSituation, SameTurns
<1>7. SessionOK(t)
  BY <1>4, <1>5, <1>6, LooseOf, StaysOK
<1> QED
  BY <1>1, <1>3, <1>6, <1>7 DEF QuietStep, Drives

LEMMA ReplySpeaksIs ==
  ASSUME SessionOK(session), NEW r \in 1 .. Len(session.answers), ReplySpeaks(r)
  PROVE  QuietStep(session, session')
<1> DEFINE was == session.answers[r]
           spoken == [was EXCEPT !.spoke = TRUE]
           s == PutAnswer(session, r, spoken)
           is == PublishedTo(s, r, "words")
<1>1. /\ r \in 1 .. MaxAnswers /\ r # None
      /\ session \in SessionType /\ SessionTyped(session) /\ AnswersOK(session)
      /\ session.standing[r] = "working" /\ was \in AnswerType
  BY AnswersAreTyped DEF SessionOK, SessionTyped, ReplySpeaks
<1>2. /\ AnswerOK(was, "working", r \in session.released, r \in session.astray)
      /\ r = session.reply \/ r \in session.astray
  BY <1>1 DEF AnswersOK, Living
<1>3. session' = IF s.reply = r THEN Publish(s, r, "words") ELSE s
  BY DEF ReplySpeaks, PutAnswer
<1>4. /\ spoken \in AnswerType
      /\ spoken.turn = was.turn /\ spoken.confirmedAt = was.confirmedAt
      /\ spoken.confirmed = was.confirmed /\ spoken.text = was.text
      /\ spoken.held = was.held /\ spoken.spoke = TRUE /\ spoken.heard = was.heard
      /\ spoken.published = was.published
  <2> HIDE DEF was
  <2> QED
    BY <1>1 DEF AnswerType
<1> HIDE DEF spoken
<1>5. /\ s \in SessionType /\ Len(s.answers) = Len(session.answers)
      /\ s.answers[r] = spoken
      /\ s.pending = session.pending /\ s.reply = session.reply
      /\ s.astray = session.astray
  BY <1>1, <1>4, PutAnswerIs
<1>6. CASE session.reply # r
  <2>1. session' = PutAnswer(session, r, spoken)
    <3> HIDE DEF s
    <3>1. session' = s
      BY <1>3, <1>5, <1>6
    <3> QED
      BY <3>1 DEF s
  <2>2. AnswerOK(spoken, "working", r \in session.released, r \in session.astray)
    BY <1>2, <1>4, <1>6 DEF AnswerOK, Living
  <2>3. AnswerOK(spoken, session.standing[r], r \in session.released, r \in session.astray)
    BY <1>1, <2>2
  <2> QED
    BY <1>4, <2>1, <2>3, AnswerIsPut
<1>7. CASE session.reply = r
  <2>1. ~session.disposed /\ (r = session.pending \/ was.confirmed)
    <3>1. ~session.disposed
      BY <1>1, <1>7 DEF SessionOK, HungUp, InCall
    <3> QED
      BY <1>1, <3>1, LooseOf DEF Loose, Living
  <2>2. /\ Publish(s, r, "words") = PutAnswer(s, r, is)
        /\ WithPublished(spoken, is, "words", s.pending = r /\ ~spoken.confirmed)
    <3>1. "words" \in Kinds
      BY DEF Kinds
    <3>2. SessionTyped(s) /\ r \in 1 .. Len(s.answers)
      BY <1>1, <1>5 DEF SessionTyped
    <3> HIDE DEF s
    <3> QED
      BY <1>5, <3>1, <3>2, PublishIs
  <2>3. PutAnswer(s, r, is) = PutAnswer(session, r, is)
    <3> HIDE DEF is
    <3> QED
      BY <1>1 DEF PutAnswer, SessionType
  <2>4. session' = PutAnswer(session, r, is)
    <3> HIDE DEF s, is
    <3> QED
      BY <1>3, <1>5, <1>7, <2>2, <2>3
  <2>5. WithPublished(spoken, is, "words", session.pending = r /\ ~spoken.confirmed)
    BY <1>5, <2>2
  <2> HIDE DEF is, s, was
  <2>6. AnswerOK(is, "working", r \in session.released, r \in session.astray)
    BY <1>2, <1>4, <2>1, <2>5 DEF AnswerOK, Living, WithPublished
  <2>7. AnswerOK(is, session.standing[r], r \in session.released, r \in session.astray)
    BY <1>1, <2>6
  <2>8. /\ is \in AnswerType /\ is.turn = was.turn /\ is.confirmedAt = was.confirmedAt
        /\ is.confirmed = was.confirmed /\ is.text = was.text /\ is.heard = was.heard
    BY <1>4, <2>5 DEF WithPublished
  <2> QED
    BY <2>4, <2>7, <2>8, AnswerIsPut DEF was
<1> QED
  BY <1>6, <1>7

LEMMA ReplyIsHeardIs ==
  ASSUME SessionOK(session), NEW r \in 1 .. Len(session.answers), ReplyIsHeard(r)
  PROVE  QuietStep(session, session')
<1> DEFINE was == session.answers[r]
           is == [was EXCEPT !.heard = TRUE]
           u == PutAnswer(session, r, is)
           standing == [session.standing EXCEPT ![r] = "audible"]
           s == [u EXCEPT !.standing = standing]
<1>1. /\ r \in 1 .. MaxAnswers /\ r # None /\ Len(session.answers) \in Nat
      /\ Len(session.answers) <= MaxAnswers /\ session \in SessionType
      /\ SessionTyped(session) /\ AnswersOK(session) /\ session.told = {}
      /\ session.standing[r] = "working" /\ was.spoke /\ r \in session.released
      /\ was \in AnswerType
  BY AnswersAreTyped DEF SessionOK, SessionTyped, ReplyIsHeard, HoldIsOver, Idle
<1>2. /\ AnswerOK(was, "working", TRUE, r \in session.astray)
      /\ r = session.reply \/ r \in session.astray
  BY <1>1 DEF AnswersOK, AnswerOK, Living
<1>3. /\ is \in AnswerType
      /\ is.turn = was.turn /\ is.confirmedAt = was.confirmedAt
      /\ is.confirmed = was.confirmed /\ is.text = was.text
      /\ is.held = was.held /\ is.spoke = was.spoke /\ is.heard = TRUE
      /\ is.published = was.published
  <2> HIDE DEF was
  <2> QED
    BY <1>1 DEF AnswerType
<1>4. s = [session EXCEPT !.standing[r] = "audible", !.answers[r].heard = TRUE]
  BY <1>1 DEF PutAnswer, SessionType
<1>5. session' = IF s.reply = r THEN Dispatch(s, "assistant.audio.started") ELSE s
  <2> DEFINE v == [session EXCEPT !.standing[r] = "audible", !.answers[r].heard = TRUE]
  <2>1. session' = IF v.reply = r THEN Dispatch(v, "assistant.audio.started") ELSE v
    BY DEF ReplyIsHeard
  <2>2. s = v
    BY <1>4
  <2> HIDE DEF s, v
  <2> QED
    BY <2>1, <2>2
<1> HIDE DEF is
<1>6. /\ u \in SessionType /\ Len(u.answers) = Len(session.answers)
      /\ \A b \in 1 .. Len(session.answers) :
           u.answers[b] = IF b = r THEN is ELSE session.answers[b]
      /\ u.state = session.state /\ u.gate = session.gate /\ u.gain = session.gain
      /\ u.pending = session.pending /\ u.reply = session.reply
      /\ u.standing = session.standing /\ u.released = session.released
      /\ u.told = session.told /\ u.disposed = session.disposed
      /\ u.astray = session.astray
  BY <1>1, <1>3, PutAnswerIs
<1>7. /\ standing \in [1 .. MaxAnswers -> Statuses]
      /\ \A q \in 1 .. MaxAnswers :
           standing[q] = IF q = r THEN "audible" ELSE session.standing[q]
  BY <1>1 DEF SessionType, Statuses
<1> HIDE DEF u, standing
<1>8. /\ s \in SessionType /\ s.answers = u.answers /\ s.standing = standing
      /\ s.state = u.state /\ s.gate = u.gate /\ s.gain = u.gain
      /\ s.pending = u.pending /\ s.reply = u.reply
      /\ s.released = u.released /\ s.told = u.told /\ s.disposed = u.disposed
      /\ s.astray = u.astray
  BY <1>6, <1>7 DEF SessionType
<1> HIDE DEF s, was
<1>9. AnswerOK(is, "audible", TRUE, r \in session.astray)
  <2>1. Range(<<>>) = {}
    BY DEF Range
  <2>2. was.spoke
    BY <1>1 DEF was
  <2> QED
    BY <1>2, <1>3, <2>1, <2>2 DEF AnswerOK, Living
<1>10. AnswersOK(s)
  <2>1. AnswerOK(s.answers[r], s.standing[r], r \in session.released, r \in session.astray)
    BY <1>1, <1>6, <1>7, <1>8, <1>9 DEF AnswerOK
  <2>2. \A q \in 1 .. MaxAnswers :
          s.standing[q] \in Living => q = s.reply \/ q \in session.astray
    <3>1. \A q \in 1 .. MaxAnswers :
            session.standing[q] \in Living => q = session.reply \/ q \in session.astray
      BY <1>1 DEF AnswersOK
    <3>2. \A q \in 1 .. MaxAnswers : q # r => s.standing[q] = session.standing[q]
      BY <1>7, <1>8
    <3>3. s.reply = session.reply
      BY <1>6, <1>8
    <3> QED
      BY <1>2, <3>1, <3>2, <3>3
  <2>3. /\ Len(s.answers) = Len(session.answers) /\ s.released = session.released
        /\ s.astray = session.astray
        /\ \A b \in 1 .. Len(session.answers) : b # r => s.answers[b] = session.answers[b]
        /\ \A q \in 1 .. MaxAnswers : q # r => s.standing[q] = session.standing[q]
    BY <1>6, <1>7, <1>8
  <2> QED
    BY <1>1, <2>1, <2>2, <2>3, OneAnswerChanges
<1>11. SessionTyped(s) /\ (GateOK(session) => GateOK(s))
  BY <1>1, <1>6, <1>8 DEF SessionTyped, GateOK
<1>12. PICK t : t = session'
  OBVIOUS
\* Whether the session still listens to it or not.
<1>13. /\ SessionTyped(t) /\ AnswersOK(t) /\ SameButMachine(s, t)
       /\ ~s.disposed /\ GateOK(s) => GateOK(t)
       /\ session.reply # r => t.state = session.state
       /\ session.reply = r /\ session.state \in Awake =>
            t.state = IF session.state = "thinking" THEN "speaking" ELSE session.state
  <2>1. CASE session.reply # r
    <3>1. t = s
      BY <1>5, <1>6, <1>8, <1>12, <2>1
    <3> QED
      BY <1>6, <1>8, <1>10, <1>11, <2>1, <3>1 DEF SameButMachine
  <2>2. CASE session.reply = r
    <3>1. t = Dispatch(s, "assistant.audio.started")
      BY <1>5, <1>6, <1>8, <1>12, <2>2
    <3>2. /\ SessionTyped(t) /\ AnswersOK(t) /\ SameButMachine(s, t)
          /\ t.state = transition(s.state, "assistant.audio.started")
          /\ ~s.disposed /\ GateOK(s) => GateOK(t)
      BY <1>10, <1>11, <3>1, DispatchKeeps
    <3>3. session.state \in Awake =>
            t.state = IF session.state = "thinking" THEN "speaking" ELSE session.state
      BY <1>6, <1>8, <3>2, SessionMoves
    <3> QED
      BY <2>2, <3>2, <3>3
  <2> QED
    BY <2>1, <2>2
<1>14. /\ t.pending = session.pending /\ t.reply = session.reply /\ t.told = {}
       /\ t.released = session.released /\ t.astray = session.astray
       /\ t.disposed = session.disposed /\ Len(t.answers) = Len(session.answers)
       /\ \A b \in 1 .. Len(session.answers) :
            /\ b # r => t.answers[b] = session.answers[b]
            /\ t.answers[b].turn = session.answers[b].turn
            /\ t.answers[b].confirmedAt = session.answers[b].confirmedAt
            /\ t.answers[b].confirmed = session.answers[b].confirmed
            /\ t.answers[b].text = session.answers[b].text
            /\ session.answers[b].heard => t.answers[b].heard
       /\ t.answers[r].heard
       /\ t.standing = standing
  BY <1>1, <1>3, <1>6, <1>8, <1>13 DEF SameButMachine, was
<1>15. SameTurns(session, t)
  BY <1>14 DEF SameTurns
<1>16. Drives(session, t)
  BY <1>1, <1>14 DEF Drives, standing
<1>17. CASE session.disposed
  <2>1. HungUp(session)
    BY <1>17 DEF SessionOK, InCall
  <2>2. HungUp(t) /\ t.disposed
    BY <1>14, <1>17, <2>1 DEF HungUp
  <2> QED
    BY <1>12, <1>13, <1>14, <1>15, <1>16, <2>2 DEF QuietStep, SessionOK
<1>18. CASE ~session.disposed
  <2>1. /\ GateOK(t) /\ Loose(session) /\ session.state \in Awake
        /\ Calm(session) \/ Wild(session)
    BY <1>6, <1>8, <1>11, <1>13, <1>18, LooseOf
  <2>2. t.state = (IF session.reply = r /\ session.state = "thinking" THEN "speaking"
                   ELSE session.state)
    BY <1>13, <2>1
  <2>3. ASSUME Calm(session) PROVE Calm(t)
    <3>1. \A q \in 1 .. MaxAnswers : session.standing[q] \in Living => q = session.reply
      BY <2>3 DEF Calm
    <3>2. session.reply = r
      BY <1>1, <3>1 DEF Living
    <3>3. Making(session)
      BY <1>1, <1>18, <2>3, <3>2, NothingToTell DEF Resting, Recognising, Speaking, None
    <3>4. Speaking(t)
      BY <1>1, <1>7, <1>14, <2>2, <3>2, <3>3 DEF Making, Speaking
    <3>5. \A q \in 1 .. MaxAnswers : t.standing[q] \in Living => q = t.reply
      BY <1>7, <1>14, <3>1, <3>2
    <3> QED
      BY <3>4, <3>5 DEF Calm
  <2>4. ASSUME Wild(session) PROVE Wild(t)
    <3>1. \A q \in 1 .. Len(session.answers) :
            t.standing[q] = IF q = r THEN "audible" ELSE session.standing[q]
      BY <1>1, <1>7, <1>14, SessionAssumption
    <3>2. Voiced(t, r) /\ \A q \in 1 .. Len(session.answers) : Voiced(session, q) => Voiced(t, q)
      BY <1>1, <1>14, <3>1 DEF Voiced, Living
    <3>3. t.state = "speaking" => \E q \in 1 .. Len(t.answers) : Voiced(t, q)
      BY <1>14, <2>1, <2>2, <3>2 DEF Loose
    <3>4. /\ t.reply # None => t.standing[t.reply] \in Living
          /\ t.pending # None => t.pending \in 1 .. Len(session.answers)
      <4>1. session.reply # None =>
              /\ session.standing[session.reply] \in Living
              /\ session.reply \in 1 .. Len(session.answers)
        BY <1>1, <2>1, AnswersAreTyped DEF Loose
      <4> QED
        BY <1>1, <1>14, <3>1, <4>1, AnswersAreTyped DEF Living
    <3>5. t.state = "thinking" =>
            t.pending # None /\ t.standing[t.pending] \in {"none", "working", "complete", "failed"}
      <4> SUFFICES ASSUME t.state = "thinking"
                   PROVE  t.pending # None
                          /\ t.standing[t.pending] \in {"none", "working", "complete", "failed"}
        OBVIOUS
      <4>1. session.state = "thinking" /\ session.reply # r /\ Len(session.answers) # 0
        BY <2>2
      <4>2. /\ session.pending # None
            /\ session.standing[session.pending] \in {"none", "working", "complete", "failed"}
            /\ session.answers[session.pending].text = "asked" \/ session.pending = session.reply
        BY <2>1, <4>1 DEF Loose
      <4>3. was.text # "asked"
        BY <1>2 DEF AnswerOK
      <4>4. session.pending # r
        BY <4>1, <4>2, <4>3 DEF was
      <4> QED
        BY <1>14, <3>1, <3>4, <4>2, <4>4
    <3>6. was.confirmed
      BY <1>2 DEF AnswerOK
    <3>7. \A q \in 1 .. Len(t.answers) :
            t.standing[q] \in Living => q = t.pending \/ t.answers[q].confirmed
      BY <1>14, <2>1, <3>1, <3>6 DEF Loose, was
    <3>8. t.pending # None => t.answers[t.pending].text = "asked" \/ t.pending = t.reply
      BY <1>14, <2>1, <3>4 DEF Loose
    <3>9. t.state # "idle"
      BY <2>1, <2>2 DEF Loose
    <3>10. Loose(t)
      BY <1>14, <3>3, <3>4, <3>5, <3>7, <3>8, <3>9 DEF Loose
    <3>11. r \in session.astray
      BY <1>1, <2>4 DEF Wild, Living
    <3> QED
      BY <1>14, <2>4, <3>1, <3>10, <3>11 DEF Wild
  <2>5. SessionOK(t)
    BY <1>13, <1>14, <1>18, <2>1, <2>3, <2>4 DEF SessionOK, InCall
  <2> QED
    BY <1>12, <1>14, <1>15, <1>16, <1>18, <2>2, <2>5 DEF QuietStep
<1> QED
  BY <1>17, <1>18

LEMMA ReplySettlesIs ==
  ASSUME SessionOK(session), NEW r \in 1 .. Len(session.answers),
         NEW outcome \in {"complete", "failed"}, ReplySettles(r, outcome)
  PROVE  QuietStep(session, session')
<1> DEFINE standing == [session.standing EXCEPT ![r] = outcome]
<1>1. /\ r \in 1 .. MaxAnswers /\ r # None /\ Len(session.answers) \in Nat
      /\ Len(session.answers) <= MaxAnswers /\ session \in SessionType
      /\ SessionTyped(session) /\ AnswersOK(session) /\ session.told = {}
      /\ session.standing[r] \in Living
  BY AnswersAreTyped DEF SessionOK, SessionTyped, ReplySettles, Spoken!Live, Living, Idle
<1>2. PICK t : t = session'
  OBVIOUS
<1>3. t = [session EXCEPT !.standing = standing, !.told = session.told \cup {r}]
  BY <1>2 DEF ReplySettles
<1>4. /\ standing \in [1 .. MaxAnswers -> Statuses]
      /\ \A q \in 1 .. MaxAnswers :
           standing[q] = IF q = r THEN outcome ELSE session.standing[q]
  BY <1>1 DEF SessionType, Statuses
<1> HIDE DEF standing
<1>5. /\ t \in SessionType /\ t.answers = session.answers /\ t.standing = standing
      /\ t.state = session.state /\ t.gate = session.gate /\ t.gain = session.gain
      /\ t.pending = session.pending /\ t.reply = session.reply
      /\ t.released = session.released /\ t.told = {r} /\ t.disposed = session.disposed
      /\ t.astray = session.astray
  <2>1. t = [session EXCEPT !.standing = standing, !.told = {r}] /\ {r} \in SUBSET Nat
    BY <1>1, <1>3
  <2> QED
    BY <1>1, <1>4, <2>1 DEF SessionType
<1>6. AnswersOK(t)
  <2>1. \A q \in 1 .. MaxAnswers :
          /\ Ends(session.standing[q], t.standing[q])
          /\ t.standing[q] \in Living => q = t.reply \/ q \in session.astray
    BY <1>1, <1>4, <1>5 DEF AnswersOK, Living, Ends
  <2> QED
    BY <1>1, <1>5, <2>1, AnswersKept
<1>7. SessionTyped(t) /\ (GateOK(session) => GateOK(t))
  BY <1>1, <1>5 DEF SessionTyped, GateOK
<1>8. Drives(session, t) /\ SameTurns(session, t)
  BY <1>1, <1>5 DEF Drives, SameTurns, standing
<1>9. HungUp(session) => HungUp(t)
  BY <1>5 DEF HungUp
<1>10. ASSUME ~session.disposed PROVE GateOK(session) /\ (Calm(t) \/ Wild(t))
  <2>1. GateOK(session) /\ Loose(session) /\ (Calm(session) \/ Wild(session))
    BY <1>10, LooseOf
  <2>2. CASE Calm(session)
    <3>1. \A q \in 1 .. MaxAnswers : session.standing[q] \in Living => q = session.reply
      BY <2>2 DEF Calm
    <3>2. Making(session) \/ Speaking(session)
      BY <1>1, <1>10, <2>2, <3>1, NothingToTell DEF Resting, Recognising, None
    <3>3. AnswerOK(session.answers[r], session.standing[r], r \in session.released,
                   r \in session.astray)
      BY <1>1 DEF AnswersOK
    <3>4. t.state = IF t.answers[r].heard THEN "speaking" ELSE "thinking"
      BY <1>1, <1>5, <3>1, <3>2, <3>3 DEF Making, Speaking, AnswerOK
    <3>5. RanOut(t)
      BY <1>1, <1>4, <1>5, <3>1, <3>2, <3>4 DEF RanOut, Making, Speaking
    <3>6. \A q \in 1 .. MaxAnswers : t.standing[q] \in Living => q = t.reply
      BY <1>4, <1>5, <3>1 DEF Living
    <3> QED
      BY <2>1, <3>5, <3>6 DEF Calm
  <2>3. CASE Wild(session)
    <3>1. \A q \in 1 .. Len(session.answers) :
            /\ t.standing[q] = IF q = r THEN outcome ELSE session.standing[q]
            /\ t.standing[q] \in Living => session.standing[q] \in Living
      BY <1>1, <1>4, <1>5, SessionAssumption
    <3>2. \A q \in 1 .. Len(session.answers) : Voiced(session, q) => Voiced(t, q)
      BY <1>1, <1>5, <3>1 DEF Voiced
    <3>3. t.reply # None => t.reply \in t.told \/ t.standing[t.reply] \in Living
      BY <1>1, <1>5, <2>1, <3>1, AnswersAreTyped DEF Loose
    <3>4. t.state = "thinking" =>
            t.pending # None /\ t.standing[t.pending] \in {"none", "working", "complete", "failed"}
      <4>1. t.state = "thinking" =>
              /\ session.pending # None /\ session.pending \in 1 .. Len(session.answers)
              /\ session.standing[session.pending] \in {"none", "working", "complete", "failed"}
        BY <1>1, <1>5, <2>1, AnswersAreTyped DEF Loose
      <4> QED
        BY <1>5, <3>1, <4>1
    <3>5. Loose(t)
      BY <1>1, <1>5, <2>1, <3>1, <3>2, <3>3, <3>4 DEF Loose
    <3> QED
      BY <1>1, <1>5, <2>1, <2>3, <3>1, <3>5 DEF Wild
  <2> QED
    BY <2>1, <2>2, <2>3
<1>11. SessionOK(t)
  BY <1>5, <1>6, <1>7, <1>9, <1>10 DEF SessionOK, InCall
<1> QED
  BY <1>2, <1>5, <1>8, <1>11 DEF QuietStep

\* Of the answers only what is published has changed.
AnswersStand(s, t) ==
  /\ Len(t.answers) = Len(s.answers)
  /\ \A a \in 1 .. Len(s.answers) :
       /\ t.answers[a].turn = s.answers[a].turn
       /\ t.answers[a].confirmedAt = s.answers[a].confirmedAt
       /\ t.answers[a].confirmed = s.answers[a].confirmed
       /\ t.answers[a].text = s.answers[a].text
       /\ t.answers[a].heard = s.answers[a].heard
  /\ t.pending = s.pending /\ t.reply = s.reply /\ t.standing = s.standing
  /\ t.released = s.released /\ t.told = s.told /\ t.disposed = s.disposed
  /\ t.astray = s.astray

\* The message is on the bus, and the machine hears of it.
LEMMA SaysIs ==
  ASSUME NEW s, NEW r, SessionTyped(s), AnswersOK(s), r \in 1 .. Len(s.answers)
  PROVE  LET t == Says(s, r) IN
           /\ SessionTyped(t) /\ AnswersOK(t) /\ AnswersStand(s, t)
           /\ ~s.disposed /\ GateOK(s) => GateOK(t)
           /\ t.state = transition(s.state, "assistant.message")
<1> DEFINE was == s.answers[r]
           published == Append(was.published, "message")
           is == [was EXCEPT !.published = published]
           u == PutAnswer(s, r, is)
           t == Says(s, r)
<1>1. /\ r \in 1 .. MaxAnswers /\ Len(s.answers) \in Nat /\ Len(s.answers) <= MaxAnswers
      /\ s \in SessionType /\ was \in AnswerType
  BY AnswersAreTyped, SessionAssumption DEF SessionTyped, SessionType
<1>2. t = Dispatch(u, "assistant.message")
  BY DEF Says, PutAnswer
<1>3. /\ published \in Seq(Kinds) /\ Range(published) = Range(was.published) \cup {"message"}
  <2>1. was.published \in Seq(Kinds) /\ "message" \in Kinds
    BY <1>1 DEF AnswerType, Kinds
  <2> QED
    BY <2>1, RangeOfAppend
<1>4. AnswerOK(was, s.standing[r], r \in s.released, r \in s.astray)
  BY DEF AnswersOK
<1> HIDE DEF was, published
<1>5. /\ is \in AnswerType
      /\ is.turn = was.turn /\ is.confirmedAt = was.confirmedAt
      /\ is.confirmed = was.confirmed /\ is.text = was.text
      /\ is.held = was.held /\ is.spoke = was.spoke /\ is.heard = was.heard
      /\ Range(is.published) = Range(was.published) \cup {"message"}
  BY <1>1, <1>3 DEF AnswerType
<1> HIDE DEF is
<1>6. AnswerOK(is, s.standing[r], r \in s.released, r \in s.astray)
  BY <1>4, <1>5 DEF AnswerOK
<1>7. /\ u \in SessionType /\ Len(u.answers) = Len(s.answers)
      /\ \A b \in 1 .. Len(s.answers) : u.answers[b] = IF b = r THEN is ELSE s.answers[b]
      /\ u.state = s.state /\ u.gate = s.gate /\ u.gain = s.gain
      /\ u.pending = s.pending /\ u.reply = s.reply /\ u.standing = s.standing
      /\ u.released = s.released /\ u.told = s.told /\ u.disposed = s.disposed
      /\ u.astray = s.astray
  BY <1>1, <1>5, PutAnswerIs
<1> HIDE DEF u, t
<1>8. AnswersOK(u)
  <2>1. AnswerOK(u.answers[r], u.standing[r], r \in s.released, r \in s.astray)
    BY <1>6, <1>7
  <2>2. \A q \in 1 .. MaxAnswers : u.standing[q] \in Living => q = u.reply \/ q \in s.astray
    BY <1>7 DEF AnswersOK
  <2> QED
    BY <1>1, <1>7, <2>1, <2>2, OneAnswerChanges
<1>9. SessionTyped(u) /\ (GateOK(s) => GateOK(u))
  BY <1>7 DEF SessionTyped, GateOK
<1>10. /\ SessionTyped(t) /\ AnswersOK(t) /\ SameButMachine(u, t)
       /\ t.state = transition(u.state, "assistant.message")
       /\ ~u.disposed /\ GateOK(u) => GateOK(t)
  BY <1>2, <1>8, <1>9, DispatchKeeps
<1>11. AnswersStand(s, t)
  BY <1>5, <1>7, <1>10 DEF AnswersStand, SameButMachine, was
<1> QED
  BY <1>7, <1>9, <1>10, <1>11 DEF t

\* What a settled reply's end is told as, whichever it was.
SettledAs(s, e, r, outcome) ==
  CASE outcome \in {"complete", "interrupted"} -> Says(s, r)
    [] outcome = "abandoned" -> s
    [] outcome = "failed" /\ s.answers[r].heard -> Says(e, r)
    [] OTHER -> e

LEMMA SettledAsIs ==
  ASSUME NEW s, NEW r, NEW outcome, SessionTyped(s), AnswersOK(s), r \in 1 .. Len(s.answers)
  PROVE  LET t == SettledAs(s, Dispatch(s, "error"), r, outcome) IN
           /\ SessionTyped(t) /\ AnswersOK(t) /\ AnswersStand(s, t)
           /\ ~s.disposed /\ GateOK(s) => GateOK(t)
           /\ s.state \in Awake =>
                t.state =
                  IF outcome \in {"complete", "interrupted"}
                       \/ (outcome = "failed" /\ s.answers[r].heard)
                  THEN IF s.state \in {"thinking", "speaking"} THEN "listening" ELSE s.state
                  ELSE IF outcome = "abandoned" THEN s.state
                  ELSE IF s.state = "thinking" THEN "listening" ELSE s.state
<1>1. PICK e : e = Dispatch(s, "error")
  OBVIOUS
<1>2. PICK t : t = SettledAs(s, e, r, outcome)
  OBVIOUS
<1>3. /\ SessionTyped(e) /\ AnswersOK(e) /\ SameButMachine(s, e)
      /\ e.state = transition(s.state, "error")
      /\ ~s.disposed /\ GateOK(s) => GateOK(e)
  BY <1>1, DispatchKeeps
<1>4. s.state \in Awake =>
        e.state = (IF s.state = "thinking" THEN "listening" ELSE s.state) /\ e.state \in Awake
  BY <1>3, SessionMoves DEF Awake
<1>5. AnswersStand(s, s) /\ AnswersStand(s, e) /\ e.answers = s.answers
  BY <1>3 DEF AnswersStand, SameButMachine
<1>6. CASE outcome \in {"complete", "interrupted"}
  <2>1. t = Says(s, r)
    BY <1>2, <1>6 DEF SettledAs
  <2>2. /\ SessionTyped(t) /\ AnswersOK(t) /\ AnswersStand(s, t)
        /\ ~s.disposed /\ GateOK(s) => GateOK(t)
        /\ t.state = transition(s.state, "assistant.message")
    BY <2>1, SaysIs
  <2>3. s.state \in Awake =>
          t.state = IF s.state \in {"thinking", "speaking"} THEN "listening" ELSE s.state
    BY <2>2, SessionMoves
  <2> QED
    BY <1>1, <1>2, <1>6, <2>2, <2>3
<1>7. CASE outcome = "abandoned"
  <2>1. t = s
    BY <1>2, <1>7 DEF SettledAs
  <2> QED
    BY <1>1, <1>2, <1>5, <1>7, <2>1
<1>8. CASE outcome = "failed" /\ s.answers[r].heard
  <2>1. t = Says(e, r)
    BY <1>2, <1>8 DEF SettledAs
  <2>2. r \in 1 .. Len(e.answers)
    BY <1>5
  <2>3. /\ SessionTyped(t) /\ AnswersOK(t) /\ AnswersStand(e, t)
        /\ ~e.disposed /\ GateOK(e) => GateOK(t)
        /\ t.state = transition(e.state, "assistant.message")
    BY <1>3, <2>1, <2>2, SaysIs
  <2>4. s.state \in Awake =>
          t.state = IF s.state \in {"thinking", "speaking"} THEN "listening" ELSE s.state
    BY <1>4, <2>3, SessionMoves
  <2>5. AnswersStand(s, t) /\ e.disposed = s.disposed
    BY <1>5, <2>3 DEF AnswersStand
  <2> QED
    BY <1>1, <1>2, <1>3, <1>8, <2>3, <2>4, <2>5
<1>9. CASE /\ outcome \notin {"complete", "interrupted", "abandoned"}
           /\ ~(outcome = "failed" /\ s.answers[r].heard)
  <2>1. t = e
    BY <1>2, <1>9 DEF SettledAs
  <2> QED
    BY <1>1, <1>2, <1>3, <1>4, <1>5, <1>9, <2>1
<1> QED
  BY <1>6, <1>7, <1>8, <1>9

LEMMA SettledIs ==
  ASSUME SessionOK(session), NEW r \in 1 .. Len(session.answers), Settled(r)
  PROVE  QuietStep(session, session')
<1> DEFINE reply == IF session.reply = r THEN None ELSE session.reply
           pending == IF session.pending = r THEN None ELSE session.pending
           outcome == session.standing[r]
<1>1. /\ r \in 1 .. MaxAnswers /\ r # None /\ Len(session.answers) \in Nat
      /\ Len(session.answers) <= MaxAnswers /\ session \in SessionType
      /\ SessionTyped(session) /\ AnswersOK(session) /\ r \in session.told
  BY AnswersAreTyped DEF SessionOK, SessionTyped, Settled
<1>2. PICK t : t = session'
  OBVIOUS
<1>3. PICK s : s = [session EXCEPT !.told = session.told \ {r}, !.reply = reply,
                                   !.pending = pending]
  OBVIOUS
<1>4. t = SettledAs(s, Dispatch(s, "error"), r, outcome)
  BY <1>2, <1>3 DEF Settled, SettledAs
<1>5. /\ s \in SessionType /\ s.answers = session.answers /\ s.standing = session.standing
      /\ s.state = session.state /\ s.gate = session.gate /\ s.gain = session.gain
      /\ s.pending = pending /\ s.reply = reply
      /\ s.released = session.released /\ s.told = session.told \ {r}
      /\ s.disposed = session.disposed /\ s.astray = session.astray
  <2>1. reply \in Nat /\ pending \in Nat /\ session.told \ {r} \in SUBSET Nat
    BY <1>1 DEF SessionType, None
  <2> HIDE DEF reply, pending
  <2> QED
    BY <1>1, <1>3, <2>1 DEF SessionType
<1>6. /\ \A q \in 1 .. MaxAnswers :
           session.standing[q] \in Living => q = session.reply \/ q \in session.astray
      /\ session.disposed => session.reply = None
      /\ session.standing[r] \in Living => session.disposed
  <2>1. session.disposed => session.reply = None
    BY DEF SessionOK, HungUp, InCall
  <2>2. ASSUME ~session.disposed PROVE session.standing[r] \notin Living
    <3>1. session.standing[r] \in {"complete", "interrupted", "abandoned", "failed"}
      BY <1>1, <2>2, LooseOf DEF Loose
    <3> QED
      BY <3>1 DEF Living
  <2> QED
    BY <1>1, <2>1, <2>2 DEF AnswersOK
<1>7. SessionTyped(s) /\ AnswersOK(s) /\ (GateOK(session) => GateOK(s))
  <2>1. SessionTyped(s)
    BY <1>1, <1>5 DEF SessionTyped, None
  <2>2. \A q \in 1 .. MaxAnswers : s.standing[q] \in Living => q = s.reply \/ q \in s.astray
    BY <1>1, <1>5, <1>6
  <2>3. AnswersOK(s)
    BY <1>1, <1>5, <2>2 DEF AnswersOK
  <2> QED
    BY <1>5, <2>1, <2>3 DEF GateOK
<1>8. /\ SessionTyped(t) /\ AnswersOK(t) /\ AnswersStand(s, t)
      /\ ~s.disposed /\ GateOK(s) => GateOK(t)
      /\ s.state \in Awake =>
           t.state =
             IF outcome \in {"complete", "interrupted"}
                  \/ (outcome = "failed" /\ s.answers[r].heard)
             THEN IF s.state \in {"thinking", "speaking"} THEN "listening" ELSE s.state
             ELSE IF outcome = "abandoned" THEN s.state
             ELSE IF s.state = "thinking" THEN "listening" ELSE s.state
  <2>1. r \in 1 .. Len(s.answers)
    BY <1>5
  <2> QED
    BY <1>4, <1>7, <2>1, SettledAsIs
<1>9. /\ t.pending = pending /\ t.reply = reply /\ t.standing = session.standing
      /\ t.released = session.released /\ t.told = session.told \ {r}
      /\ t.disposed = session.disposed /\ t.astray = session.astray
      /\ Len(t.answers) = Len(session.answers)
      /\ \A a \in 1 .. Len(session.answers) :
           /\ t.answers[a].turn = session.answers[a].turn
           /\ t.answers[a].confirmedAt = session.answers[a].confirmedAt
           /\ t.answers[a].confirmed = session.answers[a].confirmed
           /\ t.answers[a].text = session.answers[a].text
           /\ t.answers[a].heard = session.answers[a].heard
  BY <1>5, <1>8 DEF AnswersStand
<1>10. SameTurns(session, t) /\ Drives(session, t)
  BY <1>9 DEF SameTurns, Drives
<1>11. CASE session.disposed
  <2>1. HungUp(session)
    BY <1>11 DEF SessionOK, InCall
  <2>2. HungUp(t)
    BY <1>1, <1>9, <1>11, <2>1 DEF HungUp
  <2> QED
    BY <1>2, <1>8, <1>9, <1>10, <1>11, <2>1, <2>2 DEF QuietStep, SessionOK, HungUp
<1>12. CASE ~session.disposed
  <2>1. /\ GateOK(session) /\ Loose(session) /\ session.state \in Awake
        /\ Calm(session) \/ Wild(session)
    BY <1>12, LooseOf
  <2>2. /\ GateOK(t)
        /\ outcome \in {"complete", "interrupted", "abandoned", "failed"}
        /\ outcome \notin Living
    BY <1>1, <1>5, <1>7, <1>8, <1>12, <2>1 DEF Loose, Living
  <2>3. /\ t.state \in Awake
        /\ outcome = "abandoned" => t.state = session.state
        /\ t.state = "thinking" => session.state = "thinking" /\ outcome = "abandoned"
        /\ t.state = "speaking" =>
             /\ session.state = "speaking"
             /\ outcome = "abandoned" \/ (outcome = "failed" /\ ~session.answers[r].heard)
        /\ outcome \in {"complete", "interrupted", "failed"} => t.state # "thinking"
    BY <1>5, <1>8, <2>1, <2>2 DEF Awake
  <2>4. AnswerOK(session.answers[r], outcome, r \in session.released, r \in session.astray)
    BY <1>1 DEF AnswersOK
  <2>5. ASSUME Calm(session) PROVE Calm(t) /\ t.state # "thinking"
    <3>1. \A q \in 1 .. MaxAnswers : session.standing[q] \in Living => q = session.reply
      BY <2>5 DEF Calm
    <3>2. /\ session.reply = r /\ session.told = {r}
          /\ RanOut(session) \/ Cut(session) \/ GivenUp(session)
      BY <1>1, <2>5 DEF Calm, Resting, Recognising, Making, Speaking, RanOut, Cut, GivenUp
    <3>3. pending = None /\ reply = None
      BY <3>2 DEF RanOut, Cut, GivenUp
    <3>4. t.state \in {"listening", "interrupted"}
      <4>1. CASE RanOut(session)
        BY <1>5, <1>8, <2>1, <3>2, <4>1 DEF RanOut
      <4>2. CASE Cut(session)
        BY <1>5, <1>8, <2>1, <3>2, <4>2 DEF Cut
      <4>3. CASE GivenUp(session)
        BY <1>5, <1>8, <2>1, <3>2, <4>3 DEF GivenUp
      <4> QED
        BY <3>2, <4>1, <4>2, <4>3
    <3>5. Resting(t)
      BY <1>9, <3>2, <3>3, <3>4 DEF Resting
    <3>6. \A q \in 1 .. MaxAnswers : t.standing[q] \in Living => q = t.reply
      BY <1>9, <2>2, <3>1, <3>2
    <3> QED
      BY <3>4, <3>5, <3>6 DEF Calm
  <2>6. ASSUME Wild(session)
        PROVE  Wild(t) /\ (t.state = "thinking" => t.pending = session.pending)
    <3>1. t.state = "speaking" => \E q \in 1 .. Len(t.answers) : Voiced(t, q)
      <4> SUFFICES ASSUME t.state = "speaking"
                   PROVE  \E q \in 1 .. Len(t.answers) : Voiced(t, q)
        OBVIOUS
      <4>1. session.state = "speaking" /\ ~session.answers[r].heard
        BY <2>3, <2>4 DEF AnswerOK
      <4>2. PICK q \in 1 .. Len(session.answers) : Voiced(session, q)
        BY <2>1, <4>1 DEF Loose
      <4>3. q # r
        BY <4>1, <4>2 DEF Voiced
      <4> QED
        BY <1>9, <4>2, <4>3 DEF Voiced
    <3>2. t.state = "thinking" =>
            /\ t.pending = session.pending /\ t.pending # None
            /\ t.standing[t.pending] \in {"none", "working", "complete", "failed"}
      BY <1>1, <1>9, <2>1, <2>3 DEF Loose
    <3>3. t.reply # None => t.reply \in t.told \/ t.standing[t.reply] \in Living
      BY <1>9, <2>1 DEF Loose
    <3>4. t.pending # None =>
            /\ t.pending = session.pending /\ t.pending # r
            /\ t.answers[t.pending].text = "asked" \/ t.pending = t.reply
      <4>1. session.pending # None =>
              session.answers[session.pending].text = "asked" \/ session.pending = session.reply
        BY <2>1 DEF Loose
      <4>2. session.pending # None => session.pending \in 1 .. Len(session.answers)
        BY <1>1, AnswersAreTyped
      <4> QED
        BY <1>9, <4>1, <4>2
    <3>5. \A q \in 1 .. Len(t.answers) :
            t.standing[q] \in Living => q = t.pending \/ t.answers[q].confirmed
      BY <1>9, <2>1, <2>2 DEF Loose
    <3>6. /\ t.state # "idle" /\ t.told \subseteq 1 .. Len(t.answers)
          /\ \A q \in t.told :
               t.standing[q] \in {"complete", "interrupted", "abandoned", "failed"}
      BY <1>9, <2>1, <2>3 DEF Loose, Awake
    <3>7. Loose(t)
      BY <3>1, <3>2, <3>3, <3>4, <3>5, <3>6 DEF Loose
    <3>8. \A a \in 1 .. Len(t.answers) :
            t.standing[a] \in Living \/ a \in t.told \/ a = t.pending => a \in t.astray
      BY <1>1, <1>9, <2>6 DEF Wild, None
    <3> QED
      BY <3>2, <3>7, <3>8 DEF Wild
  <2>7. SessionOK(t)
    BY <1>8, <1>9, <1>12, <2>1, <2>2, <2>5, <2>6 DEF SessionOK, InCall
  <2>8. t.state = "thinking" => session.state = "thinking" /\ t.pending = session.pending
    BY <2>1, <2>3, <2>5, <2>6
  <2> QED
    BY <1>2, <1>9, <1>10, <1>12, <2>7, <2>8 DEF QuietStep
<1> QED
  BY <1>11, <1>12

LEMMA FadeEndsIs ==
  ASSUME SessionOK(session), FadeEnds
  PROVE  QuietStep(session, session')
<1>1. /\ SessionTyped(session) /\ AnswersOK(session) /\ session \in SessionType
      /\ session.told = {} /\ session.state = "interrupted"
  BY DEF SessionOK, SessionTyped, FadeEnds, Idle
<1>2. PICK t : t = session'
  OBVIOUS
<1>3. t = [session EXCEPT !.state = "listening"]
  BY <1>2 DEF FadeEnds
<1>4. /\ t \in SessionType /\ t.answers = session.answers /\ t.standing = session.standing
      /\ t.state = "listening" /\ t.gate = session.gate /\ t.gain = session.gain
      /\ t.pending = session.pending /\ t.reply = session.reply
      /\ t.released = session.released /\ t.told = session.told
      /\ t.disposed = session.disposed /\ t.astray = session.astray
  BY <1>1, <1>3 DEF SessionType, ConversationStates
<1>5. SessionTyped(t) /\ AnswersOK(t) /\ (GateOK(session) => GateOK(t))
  BY <1>1, <1>4 DEF SessionTyped, AnswersOK, GateOK
<1>6. HungUp(session) => HungUp(t)
  BY <1>4 DEF HungUp
<1>7. ASSUME ~session.disposed, Calm(session) PROVE Calm(t)
  <2>1. Resting(session)
    BY <1>1, <1>7, NothingToTell DEF Recognising, Making, Speaking
  <2>2. Resting(t)
    BY <1>4, <2>1 DEF Resting
  <2> QED
    BY <1>4, <1>7, <2>2 DEF Calm
<1>8. ASSUME Wild(session) PROVE Wild(t)
  BY <1>4, <1>8 DEF Wild, Loose
<1>9. SessionOK(t)
  BY <1>4, <1>5, <1>6, <1>7, <1>8 DEF SessionOK, InCall, HungUp
<1> QED
  BY <1>2, <1>4, <1>9 DEF QuietStep, Drives, SameTurns

LEMMA DisposeIs ==
  ASSUME SessionOK(session), Dispose
  PROVE  QuietStep(session, session')
<1> DEFINE r == session.reply
<1>1. /\ SessionTyped(session) /\ AnswersOK(session) /\ session \in SessionType
      /\ session.told = {} /\ ~session.disposed
      /\ Len(session.answers) \in Nat /\ Len(session.answers) <= MaxAnswers
      /\ r # None => r \in 1 .. MaxAnswers
  BY AnswersAreTyped, SessionAssumption
     DEF SessionOK, SessionTyped, Dispose, Running, Idle, None
<1>2. PICK u : u = [session EXCEPT !.disposed = TRUE]
  OBVIOUS
<1>3. PICK cut : cut = IF u.reply = None THEN u ELSE InterruptReply(u, u.reply)
  OBVIOUS
<1>4. PICK t : t = session'
  OBVIOUS
<1>5. t = [cut EXCEPT !.pending = None, !.reply = None]
  BY <1>2, <1>3, <1>4 DEF Dispose, Disposed
<1>6. /\ u \in SessionType /\ u.answers = session.answers /\ u.standing = session.standing
      /\ u.reply = r /\ u.released = session.released /\ u.disposed
      /\ u.astray = session.astray
  BY <1>1, <1>2 DEF SessionType
<1>7. \A q \in 1 .. MaxAnswers :
        session.standing[q] \in Living => q = r \/ q \in session.astray
  BY <1>1 DEF AnswersOK
<1>8. /\ cut \in SessionType /\ cut.answers = session.answers
      /\ cut.released = session.released /\ cut.disposed /\ cut.astray = session.astray
      /\ \A q \in 1 .. MaxAnswers :
           /\ Ends(session.standing[q], cut.standing[q])
           /\ cut.standing[q] \in Living => q \in session.astray
      /\ Drives(session, cut)
  <2>1. CASE r = None \/ session.standing[r] \notin Living
    <3>1. cut = u
      <4>1. CASE r = None
        BY <1>3, <1>6, <4>1
      <4>2. CASE r # None
        <5>1. cut = InterruptReply(u, r) /\ u.standing[r] \notin Living /\ r \in 1 .. MaxAnswers
          BY <1>1, <1>3, <1>6, <2>1, <4>2
        <5> HIDE DEF r
        <5> QED
          BY <1>6, <5>1, InterruptIs
      <4> QED
        BY <4>1, <4>2
    <3>2. \A q \in 1 .. MaxAnswers : session.standing[q] \in Living => q \in session.astray
      BY <1>7, <2>1 DEF None
    <3> QED
      BY <1>6, <3>1, <3>2 DEF Drives, Ends
  <2>2. CASE r # None /\ session.standing[r] \in Living
    <3>1. /\ cut \in SessionType
          /\ cut.standing = [session.standing EXCEPT ![r] =
               IF session.standing[r] = "working" THEN "abandoned" ELSE "interrupted"]
          /\ cut.answers = session.answers /\ cut.released = session.released
          /\ cut.disposed /\ cut.astray = session.astray
      <4>1. cut = InterruptReply(u, r) /\ u.standing[r] \in Living /\ r \in 1 .. MaxAnswers
        BY <1>1, <1>3, <1>6, <2>2
      <4> HIDE DEF r
      <4>2. /\ cut \in SessionType
            /\ cut.standing = [u.standing EXCEPT ![r] =
                 IF u.standing[r] = "working" THEN "abandoned" ELSE "interrupted"]
            /\ cut.answers = u.answers /\ cut.released = u.released
            /\ cut.disposed = u.disposed /\ cut.astray = u.astray
        BY <1>6, <4>1, InterruptIs
      <4> QED
        BY <1>6, <4>2
    <3>2. \A q \in 1 .. MaxAnswers :
            cut.standing[q] = IF q # r THEN session.standing[q]
                              ELSE IF session.standing[r] = "working" THEN "abandoned"
                              ELSE "interrupted"
      BY <1>1, <3>1 DEF SessionType
    <3>3. Drives(session, cut)
      BY <1>1, <2>2, <3>1 DEF Drives, Living
    <3>4. \A q \in 1 .. MaxAnswers :
            /\ Ends(session.standing[q], cut.standing[q])
            /\ cut.standing[q] \in Living => q \in session.astray
      BY <1>7, <2>2, <3>2 DEF Ends, Living
    <3> QED
      BY <3>1, <3>3, <3>4
  <2> QED
    BY <2>1, <2>2
<1>9. /\ t \in SessionType /\ t.answers = session.answers /\ t.standing = cut.standing
      /\ t.pending = None /\ t.reply = None
      /\ t.released = session.released /\ t.disposed /\ t.astray = session.astray
  BY <1>5, <1>8 DEF SessionType, None
<1>10. AnswersOK(t)
  BY <1>1, <1>8, <1>9, AnswersKept
<1>11. SessionTyped(t) /\ HungUp(t)
  BY <1>1, <1>9 DEF SessionTyped, HungUp, None
<1>12. Drives(session, t)
  <2>1. t.standing = cut.standing /\ t.released = cut.released
    BY <1>8, <1>9
  <2>2. Drives(session, cut)
    BY <1>8
  <2> QED
    BY <2>1, <2>2 DEF Drives
<1> QED
  BY <1>4, <1>9, <1>10, <1>11, <1>12 DEF QuietStep, SessionOK, SameTurns

\* Something else moves the machine: whatever is under way is astray from then on.
LEMMA IntrudesIs ==
  ASSUME SessionOK(session), NEW trigger \in {"error", "assistant.message"}, Intrudes(trigger)
  PROVE  QuietStep(session, session')
<1> DEFINE left == {session.pending, session.reply} \ {None}
<1>1. /\ SessionTyped(session) /\ AnswersOK(session) /\ session \in SessionType
      /\ session.told = {} /\ ~session.disposed
      /\ Len(session.answers) \in Nat
      /\ left \subseteq 1 .. Len(session.answers)
  BY AnswersAreTyped DEF SessionOK, SessionTyped, Intrudes, Running, Idle
<1>2. /\ GateOK(session) /\ Loose(session) /\ session.state \in Awake
  BY <1>1, LooseOf
<1>3. PICK t : t = session'
  OBVIOUS
<1>4. PICK u : u = [session EXCEPT !.astray = session.astray \cup left]
  OBVIOUS
<1>5. t = Dispatch(u, trigger) /\ transition(session.state, trigger) # session.state
  BY <1>3, <1>4 DEF Intrudes
<1> HIDE DEF left
<1>6. /\ u \in SessionType /\ u.answers = session.answers /\ u.standing = session.standing
      /\ u.state = session.state /\ u.gate = session.gate /\ u.gain = session.gain
      /\ u.pending = session.pending /\ u.reply = session.reply
      /\ u.released = session.released /\ u.told = {} /\ ~u.disposed
      /\ u.astray = session.astray \cup left
  <2>1. session.astray \cup left \in SUBSET Nat
    <3>1. session.astray \subseteq Nat
      BY <1>1 DEF SessionType
    <3>2. left \subseteq Nat
      BY <1>1
    <3> QED
      BY <3>1, <3>2
  <2> QED
    BY <1>1, <1>4, <2>1 DEF SessionType
<1>7. SessionTyped(u) /\ GateOK(u)
  BY <1>1, <1>2, <1>6 DEF SessionTyped, GateOK
<1>8. AnswersOK(u)
  <2>1. ASSUME NEW a \in 1 .. Len(session.answers)
        PROVE  AnswerOK(u.answers[a], u.standing[a], a \in u.released, a \in u.astray)
    <3>1. AnswerOK(session.answers[a], session.standing[a], a \in session.released,
                   a \in session.astray)
      BY <1>1 DEF AnswersOK
    <3>2. a \in session.astray => a \in u.astray
      BY <1>6
    <3> QED
      BY <1>6, <3>1, <3>2 DEF AnswerOK
  <2> QED
    BY <1>1, <1>6, <2>1 DEF AnswersOK
<1>9. /\ SessionTyped(t) /\ AnswersOK(t) /\ SameButMachine(u, t) /\ GateOK(t)
      /\ t.state = transition(session.state, trigger)
  BY <1>5, <1>6, <1>7, <1>8, DispatchKeeps
<1>10. t.state = "listening"
  BY <1>2, <1>5, <1>9, SessionMoves
<1>11. /\ t.answers = session.answers /\ t.standing = session.standing
       /\ t.pending = session.pending /\ t.reply = session.reply
       /\ t.released = session.released /\ t.told = {} /\ ~t.disposed
       /\ t.astray = session.astray \cup left
  BY <1>6, <1>9 DEF SameButMachine
<1>12. Wild(t)
  <2>1. Loose(t)
    BY <1>1, <1>2, <1>10, <1>11 DEF Loose
  <2>2. ASSUME NEW a \in 1 .. Len(t.answers), t.standing[a] \in Living \/ a = t.pending
        PROVE  a \in t.astray
    <3>1. a \in 1 .. MaxAnswers /\ a # None
      BY <1>1, <1>11, AnswersAreTyped
    <3>2. a = session.reply \/ a \in session.astray \/ a = session.pending
      BY <1>1, <1>11, <2>2, <3>1 DEF AnswersOK
    <3> QED
      BY <1>11, <3>1, <3>2 DEF left
  <2> QED
    BY <1>11, <2>1, <2>2 DEF Wild
<1>13. SessionOK(t)
  BY <1>9, <1>11, <1>12 DEF SessionOK, InCall
<1> QED
  BY <1>3, <1>10, <1>11, <1>13 DEF QuietStep, Drives, SameTurns

\* A handler that is not the detector's keeps the invariant.
LEMMA QuietIs ==
  ASSUME IInv, QuietStep(session, session'), Turns!NoBoundary
  PROVE  IInv' /\ Drives(session, session')
<1>1. /\ clock' = clock /\ turn' = turn /\ phase' = phase /\ finalAt' = finalAt
  BY DEF Turns!NoBoundary
<1>2. DetectorOK'
  BY <1>1 DEF IInv, DetectorOK
<1>3. /\ SessionTyped(session) /\ TurnsOK(session, turn, phase, finalAt)
      /\ Waits(session, turn, phase, finalAt)
  BY DEF IInv, SessionOK
<1>4. TurnsOK(session', turn, phase, finalAt) /\ Waits(session', turn, phase, finalAt)
  <2>1. PICK t : t = session'
    OBVIOUS
  <2>2. /\ SameTurns(session, t) /\ t.pending \in {session.pending, None}
        /\ ~t.disposed /\ t.state = "thinking" =>
             ~session.disposed /\ session.state = "thinking" /\ t.pending = session.pending
    BY <2>1 DEF QuietStep
  <2>3. TurnsOK(t, turn, phase, finalAt) /\ Waits(t, turn, phase, finalAt)
    BY <1>3, <2>2, QuietTurns
  <2> QED
    BY <2>1, <2>3
<1> QED
  BY <1>1, <1>2, <1>4 DEF IInv, QuietStep

-----------------------------------------------------------------------------
(* The theorems.                                                             *)

LEMMA InitIs == Init => IInv
<1> SUFFICES ASSUME Init PROVE IInv
  OBVIOUS
<1>1. /\ clock = 0 /\ turn = 0 /\ phase = "quiet" /\ finalAt = 0
  BY DEF Init, Turns!Init
<1>2. PICK state \in {"listening", "thinking", "interrupted"} : session = NewSession(state)
  BY DEF Init
<1>3. disarmedGate \in GateType /\ disarmedGate.kind = "disarmed"
  BY DEF disarmedGate, Gate, GateKinds, GateType
<1> HIDE DEF disarmedGate
<1>4. /\ session \in SessionType /\ Len(session.answers) = 0
      /\ session.state = state /\ session.gate = disarmedGate /\ session.gain = "unity"
      /\ session.pending = None /\ session.reply = None /\ session.released = {}
      /\ session.told = {} /\ ~session.disposed /\ session.astray = {}
      /\ \A r \in 1 .. MaxAnswers : session.standing[r] = "none"
  BY <1>2, <1>3 DEF NewSession, SessionType, GateType, ConversationStates, Statuses, None
<1>5. SessionTyped(session)
  BY <1>4, SessionAssumption DEF SessionTyped, None
<1>6. AnswersOK(session)
  BY <1>4 DEF AnswersOK, Living
<1>7. Calm(session) /\ GateOK(session)
  BY <1>2, <1>3, <1>4 DEF Calm, Resting, GateOK, ducked, Living
<1>8. /\ DetectorOK /\ TurnsOK(session, turn, phase, finalAt)
      /\ Waits(session, turn, phase, finalAt)
  BY <1>1, <1>4 DEF DetectorOK, Turns!Phases, TurnsOK, ThinksOfLast, Waits
<1> QED
  BY <1>4, <1>5, <1>6, <1>7, <1>8 DEF IInv, SessionOK, InCall

\* An answer is one the session has had.
LEMMA AnswerNumbers ==
  ASSUME SessionOK(session)
  PROVE  DOMAIN session.answers = 1 .. Len(session.answers)
BY DEF SessionOK, SessionTyped, SessionType

\* Every step keeps the invariant, and asks one thing of the replies at most.
LEMMA StepIs == IInv /\ [Next]_vars => IInv' /\ Drives(session, session')
<1> SUFFICES ASSUME IInv, [Next]_vars PROVE IInv' /\ Drives(session, session')
  OBVIOUS
<1>1. /\ SessionOK(session) /\ DOMAIN session.answers = 1 .. Len(session.answers)
      /\ clock \in Nat
  BY AnswerNumbers DEF IInv, DetectorOK
<1>2. ASSUME NEW level \in Turns!Levels, NEW gap \in Gaps, Frame(level, clock + gap)
      PROVE  IInv' /\ Drives(session, session')
  <2>1. clock + gap \in Nat
    BY <1>1, SessionAssumption
  <2> QED
    BY <1>2, <2>1, FrameIs
<1>3. CASE JudgeEnds
  BY <1>3, JudgeEndsIs
<1>4. ASSUME NEW a \in 1 .. Len(session.answers), NEW text \in {"words", "nothing"},
             Transcribed(a, text)
      PROVE  IInv' /\ Drives(session, session')
  <2>1. QuietStep(session, session') /\ Turns!NoBoundary
    BY <1>1, <1>4, TranscribedIs DEF Transcribed
  <2> QED
    BY <2>1, QuietIs DEF QuietStep
<1>5. ASSUME NEW a \in 1 .. Len(session.answers), ReplySpeaks(a)
      PROVE  IInv' /\ Drives(session, session')
  <2>1. QuietStep(session, session') /\ Turns!NoBoundary
    BY <1>1, <1>5, ReplySpeaksIs DEF ReplySpeaks
  <2> QED
    BY <2>1, QuietIs DEF QuietStep
<1>6. ASSUME NEW a \in 1 .. Len(session.answers), ReplyIsHeard(a)
      PROVE  IInv' /\ Drives(session, session')
  <2>1. QuietStep(session, session') /\ Turns!NoBoundary
    BY <1>1, <1>6, ReplyIsHeardIs DEF ReplyIsHeard
  <2> QED
    BY <2>1, QuietIs DEF QuietStep
<1>7. ASSUME NEW a \in 1 .. Len(session.answers), NEW outcome \in {"complete", "failed"},
             ReplySettles(a, outcome)
      PROVE  IInv' /\ Drives(session, session')
  <2>1. QuietStep(session, session') /\ Turns!NoBoundary
    BY <1>1, <1>7, ReplySettlesIs DEF ReplySettles
  <2> QED
    BY <2>1, QuietIs DEF QuietStep
<1>8. ASSUME NEW a \in 1 .. Len(session.answers), Settled(a)
      PROVE  IInv' /\ Drives(session, session')
  <2>1. QuietStep(session, session') /\ Turns!NoBoundary
    BY <1>1, <1>8, SettledIs DEF Settled
  <2> QED
    BY <2>1, QuietIs DEF QuietStep
<1>9. CASE FadeEnds
  <2>1. QuietStep(session, session') /\ Turns!NoBoundary
    BY <1>1, <1>9, FadeEndsIs DEF FadeEnds
  <2> QED
    BY <2>1, QuietIs DEF QuietStep
<1>10. CASE Dispose
  <2>1. QuietStep(session, session') /\ Turns!NoBoundary
    BY <1>1, <1>10, DisposeIs DEF Dispose
  <2> QED
    BY <2>1, QuietIs DEF QuietStep
<1>11. ASSUME NEW trigger \in {"error", "assistant.message"}, Intrudes(trigger)
       PROVE  IInv' /\ Drives(session, session')
  <2>1. QuietStep(session, session') /\ Turns!NoBoundary
    BY <1>1, <1>11, IntrudesIs DEF Intrudes
  <2> QED
    BY <2>1, QuietIs DEF QuietStep
<1>12. CASE UNCHANGED vars
  BY <1>12 DEF vars, boundaryVars, IInv, DetectorOK, Drives
<1> QED
  BY <1>1, <1>2, <1>3, <1>4, <1>5, <1>6, <1>7, <1>8, <1>9, <1>10, <1>11, <1>12
     DEF Next, AnyFrame

\* In every state of a call the session is in one of its situations or, once
\* something else has moved the machine, has only answers under way that it was
\* moved away from; with the answers, the gate and the detector's turns that go
\* with either.
THEOREM SessionInvariant == Spec => []IInv
<1>1. Init => IInv
  BY InitIs
<1>2. IInv /\ [Next]_vars => IInv'
  BY StepIs
<1> QED
  BY <1>1, <1>2, PTL DEF Spec

\* What was held of a turn is on the bus only once the turn is final: whatever the
\* windows, a turn that was taken back was not heard, and none of its words are
\* on the bus (session.ts push, confirm, abandon).
THEOREM NeverTakesBack == Spec => []NothingTakenBack
<1>1. IInv => NothingTakenBack
  <2> SUFFICES ASSUME IInv, NEW a \in DOMAIN session.answers, TakenBack(a)
               PROVE  /\ ~session.answers[a].heard
                      /\ Bus(a) \cap {"transcript", "words"} = {}
    BY DEF NothingTakenBack
  <2>1. /\ DOMAIN session.answers = 1 .. Len(session.answers)
        /\ AnswerOK(session.answers[a], session.standing[a], a \in session.released,
                    a \in session.astray)
        /\ AnswerInTurn(session, turn, phase, finalAt, a)
    BY AnswerNumbers DEF IInv, SessionOK, AnswersOK, TurnsOK
  <2>2. Taken(session, turn, phase, a)
    BY <2>1 DEF TakenBack, Taken
  <2>3. ~session.answers[a].confirmed
    BY <2>1, <2>2 DEF AnswerInTurn
  <2> QED
    BY <2>1, <2>3 DEF AnswerOK, Bus
<1> QED
  BY <1>1, SessionInvariant, PTL

\* However many turns were ended and retracted, an answer being made or played is
\* the session's own, or one that something else moved the machine away from, or
\* that was begun beside such a one (startReply, settled, abandon).
THEOREM HasOneVoice == Spec => []OneVoice
<1>1. IInv => OneVoice
  <2> SUFFICES ASSUME IInv, NEW r \in DOMAIN session.answers,
                      session.standing[r] \in Spoken!Live
               PROVE  r = session.reply \/ r \in session.astray
    BY DEF OneVoice
  <2>1. r \in 1 .. Len(session.answers) /\ SessionTyped(session) /\ AnswersOK(session)
    BY AnswerNumbers DEF IInv, SessionOK
  <2>2. r \in 1 .. MaxAnswers /\ session.standing[r] \in Living
    BY <2>1, AnswersAreTyped DEF Spoken!Live, Living
  <2> QED
    BY <2>1, <2>2 DEF AnswersOK
<1> QED
  BY <1>1, SessionInvariant, PTL

\* After dispose an answer is still being made or played only where something else
\* had moved the machine away from it, or from one it was begun beside; none begins.
THEOREM HangsUpForGood == Spec => []SilentAfterHangUp
<1>1. IInv => SilentAfterHangUp
  <2> SUFFICES ASSUME IInv, session.disposed, NEW r \in DOMAIN session.answers,
                      session.standing[r] \in Spoken!Live
               PROVE  r \in session.astray
    BY DEF SilentAfterHangUp
  <2>1. /\ r \in 1 .. Len(session.answers) /\ SessionTyped(session) /\ AnswersOK(session)
        /\ session.reply = None
    BY AnswerNumbers DEF IInv, SessionOK, HungUp, InCall
  <2>2. r \in 1 .. MaxAnswers /\ r # None /\ session.standing[r] \in Living
    BY <2>1, AnswersAreTyped DEF Spoken!Live, Living
  <2> QED
    BY <2>1, <2>2 DEF AnswersOK
<1> QED
  BY <1>1, SessionInvariant, PTL

\* The machine's state is owed to an answer: it is said to speak only while
\* somebody is heard or that has yet to be told, and thinks while something is on
\* its way that will move it on; with nothing astray under way, she is not heard
\* unsaid either (the state listener, settled, transcribe).
THEOREM EarnsItsState == Spec => []StateIsEarned
<1>1. IInv => StateIsEarned
  <2> SUFFICES ASSUME IInv, ~session.disposed PROVE StateIsEarned
    BY DEF StateIsEarned
  <2>1. /\ Calm(session) \/ Wild(session)
        /\ Loose(session) /\ AnswersOK(session) /\ SessionTyped(session)
    BY LooseOf DEF IInv
  <2>2. /\ session.pending # None => session.pending \in 1 .. Len(session.answers)
        /\ session.reply # None => session.reply \in 1 .. Len(session.answers)
        /\ DOMAIN session.answers = 1 .. Len(session.answers)
        /\ session.answers \in Seq(AnswerType)
    BY <2>1, AnswersAreTyped, AnswerNumbers DEF IInv, SessionTyped, SessionType
  <2>3. Spoken!Live = Living
    BY DEF Spoken!Live, Living
  <2>4. session.state = "speaking" =>
          \E r \in DOMAIN session.answers :
            /\ session.answers[r].heard /\ InFlight(session, r)
            /\ session.standing[r] # "interrupted"
    BY <2>1, <2>2, <2>3 DEF Loose, Voiced, InFlight
  <2>5. ~Strayed(session) =>
          (session.state = "speaking") =
            (session.reply # None /\ session.answers[session.reply].heard
               /\ session.standing[session.reply] # "interrupted")
    <3>1. CASE Calm(session)
      <4>1. session.reply # None =>
              AnswerOK(session.answers[session.reply], session.standing[session.reply],
                       session.reply \in session.released, session.reply \in session.astray)
        BY <2>1, <2>2 DEF AnswersOK
      <4>2. CASE Resting(session) \/ Recognising(session)
        BY <4>2 DEF Resting, Recognising
      <4>3. CASE Making(session) \/ Speaking(session)
        BY <4>1, <4>3 DEF Making, Speaking, AnswerOK
      <4>4. CASE RanOut(session) \/ Cut(session) \/ GivenUp(session)
        BY <4>4 DEF RanOut, Cut, GivenUp
      <4> QED
        BY <3>1, <4>2, <4>3, <4>4 DEF Calm
    <3>2. ASSUME Wild(session), ~Strayed(session)
          PROVE  session.state # "speaking" /\ session.reply = None
      <4>1. \A a \in 1 .. Len(session.answers) :
              session.standing[a] \notin Living /\ a \notin session.told
        BY <2>3, <3>2 DEF Wild, Strayed, InFlight
      <4> QED
        BY <2>1, <2>2, <4>1 DEF Loose, Voiced
    <3> QED
      BY <2>1, <3>1, <3>2
  <2>6. session.state = "thinking" /\ ~FoundThinking =>
          /\ session.pending # None
          /\ \/ session.answers[session.pending].text = "asked"
             \/ session.standing[session.pending] = "working"
             \/ session.pending \in session.told
    <3> SUFFICES ASSUME session.state = "thinking", ~FoundThinking
                 PROVE  /\ session.pending # None
                        /\ \/ session.answers[session.pending].text = "asked"
                           \/ session.standing[session.pending] = "working"
                           \/ session.pending \in session.told
      OBVIOUS
    <3>1. Len(session.answers) # 0
      BY <2>2 DEF FoundThinking
    <3>2. /\ session.pending # None
          /\ session.standing[session.pending] \in {"none", "working", "complete", "failed"}
          /\ session.answers[session.pending].text = "asked" \/ session.pending = session.reply
      BY <2>1, <3>1 DEF Loose
    <3>3. session.reply # None =>
            session.reply \in session.told \/ session.standing[session.reply] \in Living
      BY <2>1 DEF Loose
    <3> QED
      BY <3>2, <3>3 DEF Living
  <2> QED
    BY <2>4, <2>5, <2>6 DEF StateIsEarned
<1> QED
  BY <1>1, SessionInvariant, PTL

\* No end, cut or failure of an answer leaves the voice down in a call nothing else
\* meddles with, and in none does the gate listen to nobody (the state listener,
\* interrupt's fade).
THEOREM GivesTheGainBack == Spec => []GainFollowsGate
<1>1. IInv => GainFollowsGate
  BY DEF IInv, SessionOK, HungUp, InCall, GainFollowsGate, GateOK
<1> QED
  BY <1>1, SessionInvariant, PTL

\* By the time she is heard, what the user said is on the bus, and what she says
\* unless something else had moved the machine (confirm publishes what was held
\* before it releases the hold).
THEOREM PublishesFirst == Spec => []WordsBeforeVoice
<1>1. IInv => WordsBeforeVoice
  <2> SUFFICES ASSUME IInv, NEW a \in DOMAIN session.answers, session.answers[a].heard
               PROVE  /\ "transcript" \in Bus(a)
                      /\ "words" \in Bus(a) \/ a \in session.astray
    BY DEF WordsBeforeVoice
  <2>1. AnswerOK(session.answers[a], session.standing[a], a \in session.released,
                 a \in session.astray)
    BY AnswerNumbers DEF IInv, SessionOK, AnswersOK
  <2> QED
    BY <2>1 DEF AnswerOK, Bus
<1> QED
  BY <1>1, SessionInvariant, PTL

\* The session implements the owner SpokenReply expects: of any reply it asks, in
\* a step, one thing that reply can do then.
THEOREM DrivesSpokenReply == Spec => DrivesReplies
<1>1. Init => Spoken!Init
  BY DEF Init, NewSession, Spoken!Init
<1>2. IInv /\ [Next]_vars => [Spoken!Next]_(Spoken!replyVars)
  <2> SUFFICES ASSUME Drives(session, session') PROVE [Spoken!Next]_(Spoken!replyVars)
    BY StepIs
  <2>1. CASE session'.standing = session.standing /\ session'.released = session.released
    BY <2>1 DEF Spoken!replyVars
  <2>2. CASE \E r \in 1 .. MaxAnswers :
               /\ session'.standing = session.standing
               /\ session'.released = session.released \cup {r}
    BY <2>2 DEF Spoken!Next, Spoken!Release
  <2>3. ASSUME NEW r \in 1 .. MaxAnswers, NEW to,
               session'.standing = [session.standing EXCEPT ![r] = to],
               \/ session.standing[r] = "working" /\ to = "abandoned"
               \/ session.standing[r] = "audible" /\ to = "interrupted",
               session'.released = session.released
                 \/ \E q \in 1 .. MaxAnswers : session'.released = session.released \cup {q}
        PROVE  Spoken!Next
    <3>1. Spoken!Interrupt(r)
      BY <2>3 DEF Spoken!Interrupt, Spoken!Interrupted, Spoken!Live
    <3> QED
      BY <3>1 DEF Spoken!Next
  <2>4. ASSUME NEW r \in 1 .. MaxAnswers, NEW to,
               session'.released = session.released,
               session'.standing = [session.standing EXCEPT ![r] = to],
               \/ session.standing[r] = "none" /\ to = "working"
               \/ session.standing[r] = "working" /\ r \in session.released /\ to = "audible"
               \/ session.standing[r] \in Living /\ to \in {"complete", "failed"}
        PROVE  Spoken!Next
    <3>1. CASE session.standing[r] = "none" /\ to = "working"
      BY <2>4, <3>1 DEF Spoken!Next, Spoken!Begin
    <3>2. CASE session.standing[r] = "working" /\ r \in session.released /\ to = "audible"
      BY <2>4, <3>2 DEF Spoken!Next, Spoken!AudioStarts
    <3>3. CASE session.standing[r] \in Living /\ to \in {"complete", "failed"}
      <4>1. Spoken!Settle(r, to) /\ to \in Spoken!Outcomes
        BY <2>4, <3>3 DEF Spoken!Settle, Spoken!Outcomes, Spoken!Live, Living
      <4> QED
        BY <4>1 DEF Spoken!Next
    <3> QED
      BY <2>4, <3>1, <3>2, <3>3
  <2> QED
    BY <2>1, <2>2, <2>3, <2>4 DEF Drives
<1> QED
  BY <1>1, <1>2, SessionInvariant, PTL DEF Spec, DrivesReplies, Spoken!Spec
=============================================================================
