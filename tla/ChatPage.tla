-------------------------------- MODULE ChatPage ---------------------------------
(*****************************************************************************)
(* The typed conversation: ChatSession (packages/core/src/chat/session.ts)   *)
(* on the page's machine and transcript, with what else reaches them there   *)
(* (apps/web/src/chat/ChatPage.tsx): the switch that gives her a voice, her  *)
(* own initiative, the page's notices, and a call that takes the             *)
(* conversation over and gives it back.                                      *)
(*                                                                           *)
(* Delivery on the bus is synchronous, so a method is the composition of its *)
(* dispatches: operators from the page before to the page after.  An answer's*)
(* stream is not: what it delivers after the answer was stopped is late.  A  *)
(* spoken answer's reply is what its owner is promised of it: it is heard,   *)
(* and then complete or failed.  During a call the page has no text box, and *)
(* the call's session dispatches whatever it likes.                          *)
(*****************************************************************************)
EXTENDS ConversationMachine, Transcript, FiniteSets

CONSTANTS
  Machines,     \* the ways the machine may be built
  MaxAnswers,   \* bound: how many answers are asked for
  MaxOutside    \* bound: how many events come from a call, or from the page

ASSUME ChatAssumption ==
  /\ Machines \subseteq Options
  /\ {MaxAnswers, MaxOutside} \subseteq Nat

VARIABLES
  transcript,
  answers,    \* every answer asked for: whether it is spoken, whether words of
              \* it were shown and heard, whether its stream may still deliver,
              \* how many messages it got, and after which of the user's lines
  streaming,  \* the answer streaming now, 0 for none
  voice,      \* answers are spoken
  disposed,
  call,       \* a call has the conversation
  left,       \* a call was hung up before its answer was heard, and still thinks
  outside

vars == <<options, machine, transcript, answers, streaming, voice, disposed, call, left, outside>>

None == 0

Init ==
  /\ options \in Machines
  /\ machine = Entered(NewMachine, "listening")
  /\ transcript = emptyTranscript
  /\ answers = <<>>
  /\ streaming = None
  /\ voice = FALSE
  /\ disposed = FALSE
  /\ call = FALSE
  /\ left = FALSE
  /\ outside = 0

-----------------------------------------------------------------------------
(* The page, from one dispatch to the next.                                  *)

Page == [machine |-> machine, transcript |-> transcript, answers |-> answers,
         streaming |-> streaming]

Quiet(m) == m.current \in {"idle", "listening"}

Becomes(p) ==
  /\ machine' = p.machine
  /\ transcript' = p.transcript
  /\ answers' = p.answers
  /\ streaming' = p.streaming
  /\ left' = (left /\ ~Quiet(p.machine))

\* The machine goes from one state to another, and the bus carries it.
Moved(p, m) ==
  [p EXCEPT !.machine = m,
            !.transcript = IF m.current = p.machine.current THEN @
                           ELSE onStateChanged(@, m.current)]

\* dispatch: the transcript takes the event in, and then the machine.
dispatch(p, trigger, t) ==
  Moved([p EXCEPT !.transcript = t], transitionByTrigger(p.machine, trigger))

\* assistant.message, of answer n.
Message(p, n, status) ==
  dispatch([p EXCEPT !.answers[n].messages = @ + 1], "assistant.message",
           onMessage(p.transcript, n, p.answers[n].shown, status))

Interrupted(p) == dispatch(p, "assistant.interrupted", onInterrupted(p.transcript))

\* Mutant: an answer without words yet is stopped without a message.
StopsSilently(p) ==
  LET cut == [p EXCEPT !.streaming = None] IN
    IF p.streaming = None THEN p
    ELSE IF p.answers[p.streaming].shown
         THEN Message(Interrupted(cut), p.streaming, "interrupted")
         ELSE cut

\* stop: the answer is cut where it is, and settles.
stop(p) ==
  LET cut == [p EXCEPT !.streaming = None] IN
    IF p.streaming = None THEN p
    ELSE IF p.answers[p.streaming].shown
         THEN Message(Interrupted(cut), p.streaming, "interrupted")
         ELSE Message(cut, p.streaming, "interrupted")

\* The user's lines so far.
Asked(t) == Cardinality({i \in DOMAIN t.lines : t.lines[i].kind = "user"})

\* answer: a new one streams.
answer(p) ==
  [p EXCEPT !.answers = Append(@, [spoken |-> voice, shown |-> FALSE, heard |-> FALSE,
                                   live |-> TRUE, messages |-> 0, ask |-> Asked(p.transcript)]),
            !.streaming = Len(p.answers) + 1]

-----------------------------------------------------------------------------
(* What is asked of the session.                                             *)

\* What others do is bounded.
Outside ==
  /\ outside < MaxOutside
  /\ outside' = outside + 1

MayAsk == ~disposed /\ ~call /\ Len(answers) < MaxAnswers

\* What sending does: it stops the answer first.
Sent(p) ==
  LET q == stop(p) IN
    answer(dispatch(q, "user.message",
                    appended(q.transcript, UserLine(Asked(q.transcript) + 1))))

\* send: the person writes.
send ==
  /\ MayAsk
  /\ Becomes(Sent(Page))
  /\ UNCHANGED <<options, voice, disposed, call, outside>>

Opening(p) == answer(dispatch(p, "assistant.opening", p.transcript))

\* The history holds no message: what is still streaming is not one.
NothingSaid == \A i \in DOMAIN transcript.lines : transcript.lines[i].status = "streaming"

\* open: she speaks first, before anything has been said.
open ==
  /\ MayAsk
  /\ streaming = None
  /\ NothingSaid
  /\ Becomes(Opening(Page))
  /\ UNCHANGED <<options, voice, disposed, call, outside>>

\* speakUp: her initiative, or something to tell, in a quiet moment.
speakUp ==
  /\ MayAsk
  /\ streaming = None
  /\ Quiet(machine)
  /\ Becomes(Opening(Page))
  /\ UNCHANGED <<options, voice, disposed, call, outside>>

\* The Stop button, or the page is left.
Stop ==
  /\ streaming # None
  /\ Becomes(stop(Page))
  /\ UNCHANGED <<options, voice, disposed, call, outside>>

\* setVoice: an answer in flight is stopped, as its sink is about to go.
setVoice ==
  /\ Len(answers) < MaxAnswers
  /\ voice' = ~voice
  /\ Becomes(stop(Page))
  /\ UNCHANGED <<options, disposed, call, outside>>

dispose ==
  /\ ~disposed
  /\ disposed' = TRUE
  /\ Outside
  /\ Becomes(stop(Page))
  /\ UNCHANGED <<options, voice, call>>

-----------------------------------------------------------------------------
(* What the answers' streams deliver.                                        *)

\* Mutant: whatever a stream delivers is taken for the answer streaming now.
AnyAnswer(n) == answers[n].messages < 2

\* The test every delivery begins with: this answer is still the one.
IsStreaming(n) == streaming = n

\* A chunk, or a reply's token.
Token(n) ==
  /\ answers[n].live
  /\ IsStreaming(n)
  /\ LET p == [Page EXCEPT !.answers[n].shown = TRUE] IN
       Becomes(dispatch(p, "assistant.token", onToken(p.transcript, n)))
  /\ UNCHANGED <<options, voice, disposed, call, outside>>

\* A sentence of a spoken answer begins to be heard.
AudioStarts(n) ==
  /\ answers[n].live
  /\ answers[n].spoken
  /\ answers[n].shown
  /\ IsStreaming(n)
  /\ LET p == [Page EXCEPT !.answers[n].heard = TRUE] IN
       Becomes(dispatch(p, "assistant.audio.started", p.transcript))
  /\ UNCHANGED <<options, voice, disposed, call, outside>>

Over(p, n) == [p EXCEPT !.streaming = None, !.answers[n].live = FALSE]

\* The stream ends, or the reply has played, or had nothing to play: a message.
\* A text answer without words is a failure, a spoken one may be tags alone.
\* Words held back until the end are a Token before it.
Completes(n) ==
  /\ answers[n].live
  /\ IsStreaming(n)
  /\ answers[n].shown \/ answers[n].spoken
  /\ Becomes(Message(Over(Page, n), n, "complete"))
  /\ UNCHANGED <<options, voice, disposed, call, outside>>

\* An error, and a message of the words that were shown before it.
Failed(p, n) ==
  LET q == dispatch(p, "error", p.transcript) IN
    IF p.answers[n].shown THEN Message(q, n, "interrupted") ELSE q

Fails(n) ==
  /\ answers[n].live
  /\ IsStreaming(n)
  /\ Becomes(Failed(Over(Page, n), n))
  /\ UNCHANGED <<options, voice, disposed, call, outside>>

\* A stopped answer's stream notices: nothing happens.
ComesLate(n) ==
  /\ answers[n].live
  /\ ~IsStreaming(n)
  /\ answers' = [answers EXCEPT ![n].live = FALSE]
  /\ UNCHANGED <<options, machine, transcript, streaming, voice, disposed, call, left, outside>>

-----------------------------------------------------------------------------
(* The timers, and what others do to the conversation.                       *)

\* A timer or a fade of the machine's; the bus carries where it goes.
MachineMoves ==
  /\ IdleTimerFires \/ TeardownTimerFires \/ \E e \in machine.fades : FadeEnds(e)
  /\ transcript' = Moved(Page, machine').transcript
  /\ left' = (left /\ ~Quiet(machine'))
  /\ UNCHANGED <<options, answers, streaming, voice, disposed, call, outside>>

\* The page reports that a store, a server or a tool of hers is not there.
PageNotice ==
  /\ Outside
  /\ Becomes(dispatch(Page, "error", transcript))
  /\ UNCHANGED <<options, voice, disposed, call>>

\* A call begins: what streams is stopped.
CallStarts ==
  /\ ~call
  /\ call' = TRUE
  /\ Becomes(stop(Page))
  /\ UNCHANGED <<options, voice, disposed, outside>>

\* What a call's session dispatches, in the states it does: a turn, its words
\* and the answer's first, her voice, and the answer cut or over.
CallDispatches ==
  /\ call
  /\ Outside
  /\ LET t == transcript
         current == machine.current
     IN \/ /\ current \in {"listening", "interrupted"}
           /\ Becomes(dispatch(Page, "user.turn.ended", t))
        \/ /\ current = "thinking"
           /\ \/ \E trigger \in {"user.turn.resumed", "assistant.audio.started"} :
                   Becomes(dispatch(Page, trigger, t))
              \/ Becomes(dispatch(Page, "assistant.token",
                       onToken(appended(t, UserLine(Asked(t) + 1)), None)))
        \/ /\ current = "speaking"
           /\ Becomes(Interrupted(Page))
        \/ /\ current \notin {"idle", "listening"}
           /\ \E words \in BOOLEAN :
                Becomes(dispatch(Page, "assistant.message", onMessage(t, None, words, "complete")))
  /\ UNCHANGED <<options, voice, disposed, call>>

\* The call is hung up.  An answer that is heard still settles as it was cut; a
\* turn that is recognised or thought about leaves the machine as it stands.
CallEnds ==
  /\ call
  /\ call' = FALSE
  /\ IF machine.current = "speaking"
     THEN Becomes(dispatch(Page, "assistant.message",
                           onMessage(transcript, None, TRUE, "interrupted")))
     ELSE /\ left' = (machine.current = "thinking")
          /\ UNCHANGED <<machine, transcript, answers, streaming>>
  /\ UNCHANGED <<options, voice, disposed, outside>>

Next ==
  \/ send \/ open \/ speakUp \/ Stop \/ setVoice \/ dispose
  \/ \E n \in DOMAIN answers :
       Token(n) \/ AudioStarts(n) \/ Completes(n) \/ Fails(n) \/ ComesLate(n)
  \/ MachineMoves
  \/ PageNotice \/ CallStarts \/ CallDispatches \/ CallEnds

Spec == Init /\ [][Next]_vars

\* Timers fire and the output finishes its fades.
Fairness == WF_vars(MachineMoves)

FairSpec == Spec /\ Fairness

-----------------------------------------------------------------------------
(* Properties.                                                               *)

\* No timer outlives the state it was set for, and none is missing in it: the
\* idle timer runs exactly while listening, so it cannot end a conversation in
\* the middle of an answer, and never has to be waited for in vain (onEnter,
\* resetIdleTimer, startTeardownTimer).
TimersMatchState ==
  /\ machine.idleTimer = (HasIdleTimer /\ machine.current = "listening")
  /\ machine.teardownTimer =
       (options.scheduler /\ ~options.port /\ machine.current = "interrupted")

\* An interruption lasts as long as its own fade: the machine goes back to
\* listening once that fade has ended, not when one an earlier interruption
\* asked for ends late (`entry`).
FadeIsHeardOut ==
  [][(options.port /\ machine.current = "interrupted" /\ machine'.current = "listening")
       => machine.entry \notin machine'.fades]_vars

\* A machine with an output port or a scheduler never sticks in `interrupted`.
InterruptionEnds ==
  (machine.current = "interrupted" /\ (options.port \/ options.scheduler))
    ~> machine.current # "interrupted"

\* Answer n is over: nothing more is to come of it.
Ended(n) == n \in DOMAIN answers /\ n # streaming

LinesOf(n) == {i \in DOMAIN transcript.lines :
                 transcript.lines[i].kind = "assistant" /\ transcript.lines[i].id = n}

\* However answers were asked for, stopped, replaced or failed, and whatever
\* their streams delivered late: each gets one message at most, and the record
\* has exactly one line for each that showed a word, and none for the others.
OneLineEach ==
  \A n \in DOMAIN answers :
    /\ answers[n].messages <= 1
    /\ Ended(n) => Cardinality(LinesOf(n)) = IF answers[n].shown THEN 1 ELSE 0

\* A line of hers has her words of one answer, which come after what was asked,
\* and once it is settled no late delivery opens it again.  A line that a call
\* left open, hung up before its answer was heard, is the exception: the next
\* answer goes on in it.
WordsInTheirPlace ==
  \A i \in DOMAIN transcript.lines :
    LET line == transcript.lines[i] IN
      line.kind = "assistant" /\ None \notin line.of =>
        IF line.status = "streaming" THEN line.of = {streaming}
        ELSE /\ line.of = {line.id}
             /\ Cardinality({k \in 1 .. i : transcript.lines[k].kind = "user"})
                  >= answers[line.id].ask

\* When an answer is over, however it ended, she is not left thinking or
\* speaking, where no initiative, delivery or rest of hers could begin: unless a
\* call left her thinking, and nothing has come of that yet.
NotLeftThinking ==
  (streaming = None /\ ~call /\ ~left) => machine.current \notin {"thinking", "speaking"}
=============================================================================
