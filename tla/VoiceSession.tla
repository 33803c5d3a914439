----------------------------- MODULE VoiceSession ------------------------------
(*****************************************************************************)
(* VoiceSession (packages/core/src/voice/session.ts): microphone frames in,  *)
(* the character's voice out, and every step on the machine's event bus.  It *)
(* decides which of the pieces' outputs count.                               *)
(*                                                                           *)
(* The pieces are what they promise: the detector is TurnBoundaries, a Reply *)
(* is SpokenReply, the gate is BargeInGate, the machine its transition table *)
(* and its teardown timer.  `session` is what a call reads and writes, so    *)
(* that a handler is the composition of the calls it makes: every operator   *)
(* on `s` takes the session before a call to the session after it.           *)
(*                                                                           *)
(* An answer is a turn's end being answered (PendingTurn): its number is its *)
(* reply's too, and its fields outlive `pending` as the object does in the   *)
(* closures that hold it.  Words are left out; an answer's are what of it is *)
(* on the bus.  There are no clips, so no backchannel, and nobody types.     *)
(*                                                                           *)
(* The machine is the page's.  A call finds it as an earlier one left it, and*)
(* while the call runs the page's notices, and what an earlier call left     *)
(* unsettled, reach the machine and not the session.                         *)
(*****************************************************************************)
EXTENDS Sequences, Functions, Conversation, BargeInGate

CONSTANTS
  Hangover,    \* hangoverMs in ticks of the frames' clock
  Gaps,        \* how far apart two frames may be, in ticks
  MaxNow,      \* bound: the last time a frame is pushed or a turn is final
  MaxAnswers   \* bound: how many turn ends are answered

ASSUME SessionAssumption ==
  /\ Hangover \in Nat
  /\ Gaps \subseteq Nat \ {0}
  /\ MaxNow \in Nat
  /\ MaxAnswers \in Nat

VARIABLES
  clock, turn, phase, finalAt, said,   \* the detector
  session

boundaryVars == <<clock, turn, phase, finalAt, said>>

vars == <<boundaryVars, session>>

Turns == INSTANCE TurnBoundaries WITH Window <- Hangover

Spoken ==
  INSTANCE SpokenReply WITH
    Replies <- 1 .. MaxAnswers,
    standing <- session.standing,
    released <- session.released

None == 0

\* `text` is where the transcription stands; `held` and `published` are what of
\* the answer waits for the turn to be confirmed, and what is on the bus.
NewAnswer(id, at) ==
  [turn |-> id, confirmedAt |-> at, confirmed |-> FALSE, text |-> "asked",
   held |-> <<>>, published |-> <<>>, spoke |-> FALSE, heard |-> FALSE]

NewSession(state) ==
  [state |-> state, gate |-> disarmedGate, gain |-> "unity",
   pending |-> None, reply |-> None, answers |-> <<>>,
   standing |-> [r \in 1 .. MaxAnswers |-> "none"], released |-> {},
   told |-> {}, disposed |-> FALSE, astray |-> {}]

\* `state` is the machine's, which ChatPage started once and every call of the
\* page uses: hanging up while a turn is thought about, or a fade still runs,
\* leaves it there.  `told` are the replies whose `done` has resolved and whose
\* `settled` has not run.  `astray`, a history variable, are the answers that
\* were under way when something else moved the machine, and those begun while
\* such an answer was still live.
Init ==
  /\ Turns!Init
  /\ \E state \in {"listening", "thinking", "interrupted"} : session = NewSession(state)

-----------------------------------------------------------------------------
(* The calls a handler is made of.                                           *)

\* Mutant: the gain is not given back when the answer ends under a duck.
DuckOutlives(s, to) == [s EXCEPT !.state = to, !.gate = disarmedGate]

\* The session's listener, as the machine leaves `speaking`.
LeavesSpeaking(s, to) ==
  [s EXCEPT !.state = to,
            !.gate = disarm(s.gate).gate,
            !.gain = IF disarm(s.gate).action = "unduck" THEN "unity" ELSE @]

\* machine.dispatch, and the listener on state.changed until dispose detaches it.
Dispatch(s, trigger) ==
  LET to == transition(s.state, trigger) IN
    CASE to = s.state \/ s.disposed -> [s EXCEPT !.state = to]
      [] to # s.state /\ to = "speaking" /\ ~s.disposed ->
           [s EXCEPT !.state = to, !.gate = arm(@)]
      [] to # s.state /\ s.state = "speaking" /\ ~s.disposed -> LeavesSpeaking(s, to)
      [] OTHER -> [s EXCEPT !.state = to]

\* reply.interrupt(fadeMs).  Audible audio is faded, which restores the gain.
InterruptReply(s, r) ==
  IF s.standing[r] \notin Spoken!Live THEN s
  ELSE [s EXCEPT !.standing[r] = Spoken!Interrupted(@),
                 !.told = @ \cup {r},
                 !.gain = IF s.standing[r] = "audible" THEN "unity" ELSE @]

\* abandon()
Abandon(s) ==
  LET dropped == [s EXCEPT !.pending = None] IN
    IF s.pending # None THEN InterruptReply(dropped, s.pending) ELSE dropped

\* publish(pending, event)
Publish(s, a, kind) ==
  IF s.pending = a /\ ~s.answers[a].confirmed
  THEN [s EXCEPT !.answers[a].held = Append(@, kind)]
  ELSE [s EXCEPT !.answers[a].published = Append(@, kind)]

\* answer(turnId, confirmedAt, recognition), to its first await.
Answer(s, id, at) ==
  LET new == Len(s.answers) + 1 IN
    [s EXCEPT !.answers = Append(@, NewAnswer(id, at)), !.pending = new,
              !.astray = IF \E a \in @ : s.standing[a] \in Spoken!Live
                         THEN @ \cup {new} ELSE @]

\* onTurn's turn-end: while she is audible, nothing.
TurnEnds(s, event) ==
  IF s.state = "speaking" THEN s
  ELSE Answer(Dispatch(s, "user.turn.ended"), event.turn, event.at)

\* onTurn(event)
OnTurn(s, event) ==
  CASE event.type = "speech-start" ->
         Dispatch(IF s.state = "thinking" THEN Abandon(s) ELSE s, "user.speech.started")
    [] event.type = "turn-end" -> TurnEnds(s, event)
    [] event.type = "turn-resumed" /\ s.pending # None /\ s.answers[s.pending].turn = event.turn ->
         Dispatch(Abandon(s), "user.turn.resumed")
    [] OTHER -> s

\* Mutant: any frame after the end confirms the turn.
ConfirmAtOnce(s, at) ==
  IF s.pending = None \/ s.answers[s.pending].confirmed THEN s
  ELSE [s EXCEPT !.answers[s.pending].confirmed = TRUE,
                 !.answers[s.pending].published = @ \o s.answers[s.pending].held,
                 !.answers[s.pending].held = <<>>,
                 !.released = @ \cup {s.pending}]

\* Mutant: the hold is released and what was held is dropped.
ConfirmDropsHeld(s, at) ==
  IF s.pending = None \/ s.answers[s.pending].confirmed
     \/ at < s.answers[s.pending].confirmedAt THEN s
  ELSE [s EXCEPT !.answers[s.pending].confirmed = TRUE,
                 !.answers[s.pending].held = <<>>,
                 !.released = @ \cup {s.pending}]

\* confirm(pending): what was held is out, in order, before the audio may play.
Confirmed(answer) ==
  [answer EXCEPT !.confirmed = TRUE, !.published = @ \o answer.held, !.held = <<>>]

\* push's check, and the answer it is about.
Confirm(s, at) ==
  IF s.pending = None \/ s.answers[s.pending].confirmed
     \/ at < s.answers[s.pending].confirmedAt THEN s
  ELSE [s EXCEPT !.answers[s.pending] = Confirmed(@), !.released = @ \cup {s.pending}]

\* Mutant: the answer is cut and the machine is not told.
CommitQuietly(s) == IF s.reply = None THEN s ELSE InterruptReply(s, s.reply)

\* commit()
Commit(s) ==
  LET cut == InterruptReply(s, s.reply) IN
    CASE s.reply = None -> s
      [] s.reply # None /\ cut.standing[s.reply] = "interrupted" ->
           Dispatch(cut, "assistant.interrupted")
      [] OTHER -> cut

\* push's last call: the gate hears the frame.
GateHears(s, level) ==
  LET told == push(s.gate, level)
      heard == [s EXCEPT !.gate = told.gate]
  IN  CASE told.action = "duck" -> [heard EXCEPT !.gain = "ducked"]
        [] told.action = "unduck" -> [heard EXCEPT !.gain = "unity"]
        [] told.action = "commit" -> Commit(heard)
        [] OTHER -> heard

-----------------------------------------------------------------------------
(* The handlers.  A reply's `settled` is a microtask: it runs before the     *)
(* next frame, answer, timer or message does.                                *)

Idle == session.told = {}

Running == Idle /\ ~session.disposed

RoomForAnswer == said'.type = "turn-end" => Len(session.answers) < MaxAnswers

\* push(frame), from the VAD.
Frame(level, at) ==
  /\ Running
  /\ at <= MaxNow
  /\ Turns!Frame(level, at)
  /\ RoomForAnswer
  /\ session' = GateHears(Confirm(OnTurn(session, said'), at), level)

\* The judge ends the turn, between two frames.
JudgeEnds ==
  /\ Running
  /\ Turns!EndByModel
  /\ finalAt' <= MaxNow /\ RoomForAnswer
  /\ session' = OnTurn(session, said')

\* Mutant: an answer nobody waits for any more is used.
TakesLateText(s, a) == TRUE

\* `this.pending === pending`
StillPending(s, a) == s.pending = a

\* Mutant: nothing recognised leaves the machine where it was.
SaysNothing(s) == [s EXCEPT !.pending = None]

\* Nothing was recognised, or recognising it failed.
NotRecognised(s) == Dispatch([s EXCEPT !.pending = None], "error")

\* startReply: the Reply is constructed, and is the session's.
StartReply(s, a) == [s EXCEPT !.standing[a] = "working", !.reply = a]

\* transcribe(recognition) settles.
Transcribed(a, text) ==
  /\ Idle
  /\ session.answers[a].text = "asked"
  /\ LET s == [session EXCEPT !.answers[a].text = text] IN
       session' = IF ~StillPending(s, a) THEN s
                  ELSE IF text = "nothing" THEN NotRecognised(s)
                  ELSE StartReply(Publish(s, a, "transcript"), a)
  /\ Turns!NoBoundary

\* onReply: a reply this.reply has moved on from is not heard.
ReplySpeaks(r) ==
  /\ Idle
  /\ session.standing[r] = "working" /\ ~session.answers[r].spoke
  /\ LET s == [session EXCEPT !.answers[r].spoke = TRUE] IN
       session' = IF s.reply = r THEN Publish(s, r, "words") ELSE s
  /\ Turns!NoBoundary

\* Mutant: audio plays as soon as there is some.
NoHold(r) == TRUE

\* `options.hold` has resolved.
HoldIsOver(r) == r \in session.released

\* The first of its audio reaches the speakers (audio-started).
ReplyIsHeard(r) ==
  /\ Idle
  /\ session.standing[r] = "working" /\ session.answers[r].spoke
  /\ HoldIsOver(r)
  /\ LET s == [session EXCEPT !.standing[r] = "audible", !.answers[r].heard = TRUE] IN
       session' = IF s.reply = r THEN Dispatch(s, "assistant.audio.started") ELSE s
  /\ Turns!NoBoundary

\* The reply runs out: everything played, or generating it failed.
ReplySettles(r, outcome) ==
  /\ Idle
  /\ session.standing[r] \in Spoken!Live
  /\ outcome = "complete" => session.answers[r].spoke
  /\ session' = [session EXCEPT !.standing[r] = outcome, !.told = @ \cup {r}]
  /\ Turns!NoBoundary

\* settled's last steps: the message, and what it tells the machine.
Says(s, r) ==
  Dispatch([s EXCEPT !.answers[r].published = Append(@, "message")], "assistant.message")

\* settled(reply, id, outcome)
Settled(r) ==
  LET s == [session EXCEPT !.told = @ \ {r},
                           !.reply = IF @ = r THEN None ELSE @,
                           !.pending = IF @ = r THEN None ELSE @]
      outcome == session.standing[r]
  IN  /\ r \in session.told
      /\ session' = CASE outcome \in {"complete", "interrupted"} -> Says(s, r)
                      [] outcome = "abandoned" -> s
                      [] outcome = "failed" /\ s.answers[r].heard ->
                           Says(Dispatch(s, "error"), r)
                      [] OTHER -> Dispatch(s, "error")
      /\ Turns!NoBoundary

\* The machine's teardown timer.
FadeEnds ==
  /\ Idle
  /\ session.state = "interrupted"
  /\ session' = [session EXCEPT !.state = "listening"]
  /\ Turns!NoBoundary

\* Mutant: a turn still being transcribed is left to its own devices.
DisposedReplyOnly(s) ==
  LET cut == IF s.reply = None THEN s ELSE InterruptReply(s, s.reply) IN
    [cut EXCEPT !.reply = None]

\* dispose(), its listeners already detached.
Disposed(s) ==
  LET cut == IF s.reply = None THEN s ELSE InterruptReply(s, s.reply) IN
    [cut EXCEPT !.pending = None, !.reply = None]

\* The call ends: no frame, and no answer of the judge, comes after.
Dispose ==
  /\ Running
  /\ session' = Disposed([session EXCEPT !.disposed = TRUE])
  /\ Turns!NoBoundary

\* Something else moves the machine while the call runs: a notice of the page's
\* (error), or an answer an earlier call left unsettled, failing (error) or over
\* (assistant.message).  The session's listener hears of it as the machine leaves
\* `speaking`; of what is under way it is not told.
Intrudes(trigger) ==
  /\ Running
  /\ transition(session.state, trigger) # session.state
  /\ LET left == {session.pending, session.reply} \ {None} IN
       session' = Dispatch([session EXCEPT !.astray = @ \cup left], trigger)
  /\ Turns!NoBoundary

AnyFrame == \E level \in Turns!Levels, gap \in Gaps : Frame(level, clock + gap)

Next ==
  \/ AnyFrame
  \/ JudgeEnds
  \/ \E a \in DOMAIN session.answers :
       \/ \E text \in {"words", "nothing"} : Transcribed(a, text)
       \/ ReplySpeaks(a) \/ ReplyIsHeard(a)
       \/ \E outcome \in {"complete", "failed"} : ReplySettles(a, outcome)
       \/ Settled(a)
  \/ FadeEnds
  \/ \E trigger \in {"error", "assistant.message"} : Intrudes(trigger)
  \/ Dispose

\* The microphone keeps delivering frames, the recogniser answers, timers fire,
\* and a reply whose hold was released settles (Reply's EveryAnswerSettles).
Fairness ==
  /\ WF_vars(AnyFrame)
  /\ WF_vars(FadeEnds)
  /\ \A a \in 1 .. MaxAnswers :
       /\ WF_vars(/\ a \in DOMAIN session.answers
                  /\ \E text \in {"words", "nothing"} : Transcribed(a, text))
       /\ WF_vars(/\ a \in session.released
                  /\ \E outcome \in {"complete", "failed"} : ReplySettles(a, outcome))
       /\ WF_vars(a \in DOMAIN session.answers /\ Settled(a))

Spec == Init /\ [][Next]_vars

FairSpec == Spec /\ Fairness

-----------------------------------------------------------------------------
(* Properties.                                                               *)

Kinds == {"transcript", "words", "message"}

Bus(a) == Range(session.answers[a].published)

\* The end this answer was started for was taken back: the turn is still being
\* spoken, or was ended again later.
TakenBack(a) ==
  \/ phase = "talking" /\ session.answers[a].turn = turn
  \/ \E b \in DOMAIN session.answers :
       a < b /\ session.answers[a].turn = session.answers[b].turn

\* A turn that was taken back was never heard, and none of its words reached the
\* bus, neither before it was taken back nor after (session.ts "nothing a
\* transcript or memory reads is ever taken back").  The answer's message is not
\* one of the held events, and can come of a turn that is then taken back.
NothingTakenBack ==
  \A a \in DOMAIN session.answers : TakenBack(a) =>
    /\ ~session.answers[a].heard
    /\ Bus(a) \cap {"transcript", "words"} = {}

\* transcript.ts "A record of what was said": once a turn was answered and its
\* end is final, what was recognised is on the bus.
AnsweredTurnIsTranscribed ==
  \A a \in DOMAIN session.answers :
    (/\ session.standing[a] \in {"complete", "failed"} /\ a \notin session.told
     /\ session.answers[a].confirmedAt <= clock
     /\ ~TakenBack(a)) => "transcript" \in Bus(a)

\* Something may still come of answer a.
InFlight(s, a) == s.standing[a] \in Spoken!Live \/ a \in s.told \/ a = s.pending

\* Of what is under way, something the machine was moved away from.
Strayed(s) == \E a \in s.astray : InFlight(s, a)

\* She has one voice: an answer still being made or played is the one the next
\* barge-in, retraction or hang-up will stop, unless something else moved the
\* machine meanwhile (startReply "A previous answer still fading out has already
\* settled").
OneVoice ==
  \A r \in DOMAIN session.answers :
    session.standing[r] \in Spoken!Live => r = session.reply \/ r \in session.astray

\* A call that was hung up says nothing more, however late the recogniser or the
\* model comes back (dispose), but for answers that something else had moved the
\* machine away from.
SilentAfterHangUp ==
  session.disposed =>
    \A r \in DOMAIN session.answers :
      session.standing[r] \in Spoken!Live => r \in session.astray

\* The machine as it was found, thinking of something an earlier call dropped.
FoundThinking == session.state = "thinking" /\ session.answers = <<>>

\* The machine says `speaking` exactly while she can be heard or her end has yet
\* to be told, and `thinking` only while something is on its way that will move
\* it: no order of events leaves the conversation deaf.  Where something else had
\* moved the machine she may be heard unsaid, but is never said to speak unheard.
StateIsEarned ==
  ~session.disposed =>
    /\ (session.state = "speaking") =>
         \E r \in DOMAIN session.answers :
           /\ session.answers[r].heard /\ InFlight(session, r)
           /\ session.standing[r] # "interrupted"
    /\ ~Strayed(session) =>
         (session.state = "speaking") =
           (session.reply # None /\ session.answers[session.reply].heard
              /\ session.standing[session.reply] # "interrupted")
    /\ (session.state = "thinking" /\ ~FoundThinking) =>
         /\ session.pending # None
         /\ \/ session.answers[session.pending].text = "asked"
            \/ session.standing[session.pending] = "working"
            \/ session.pending \in session.told

\* The gate watches exactly while she is said to speak, and whatever it has down
\* is down.  In a call nothing else meddles with, the voice is down only while the
\* gate has it down: no end, cut or failure leaves it there.
GainFollowsGate ==
  ~session.disposed =>
    /\ (session.gate.kind # "disarmed") = (session.state = "speaking")
    /\ ducked(session.gate) => session.gain = "ducked"
    /\ (session.gain = "ducked" /\ session.astray = {}) => ducked(session.gate)

\* She is heard only after the user's words are on the bus, and her own unless
\* something else had moved the machine: what was held is published before the
\* hold is released (confirm).
WordsBeforeVoice ==
  \A a \in DOMAIN session.answers : session.answers[a].heard =>
    /\ "transcript" \in Bus(a)
    /\ "words" \in Bus(a) \/ a \in session.astray

\* Every step asks of a reply only what SpokenReply lets its owner ask.
DrivesReplies == Spoken!Spec

\* Whatever she was doing, the conversation gets back to hearing the user; only a
\* machine found thinking waits for them to speak.
BackToListening ==
  (session.state # "listening" /\ ~FoundThinking)
    ~> (session.state = "listening" \/ session.disposed)
=============================================================================
