---------------------------- MODULE ChatPageProofs -----------------------------
(*****************************************************************************)
(* What holds of ChatPage for every machine it may be built with and however *)
(* many answers and events there are, proved with the TLA+ proof system.     *)
(* A page is followed from one dispatch to the next, so most of the argument *)
(* is about the operators: what each dispatch does to the machine and to the *)
(* answer that streams, and then what it does to the lines of the record,    *)
(* which the machine's part does not depend on.                              *)
(*****************************************************************************)
EXTENDS ChatPage, SequenceTheorems, FunctionTheorems, FiniteSetTheorems, TLAPS

MachineType ==
  [current : ConversationStates, entry : Nat, idleTimer : BOOLEAN,
   teardownTimer : BOOLEAN, fades : SUBSET Nat]

\* A list of answers.  What is counted in them is left open.
AnswerList(list) ==
  /\ \E S : list \in Seq(S)
  /\ \A n \in 1 .. Len(list) : "shown" \in DOMAIN list[n]

\* The machine's timers are those of the state it is in.
Timed(m) ==
  /\ m.idleTimer = (HasIdleTimer /\ m.current = "listening")
  /\ m.teardownTimer =
       (options.scheduler /\ ~options.port /\ m.current = "interrupted")

\* A page between two dispatches.
PageOK(p) ==
  /\ p = [machine |-> p.machine, transcript |-> p.transcript, answers |-> p.answers,
          streaming |-> p.streaming]
  /\ p.machine \in MachineType
  /\ Timed(p.machine)
  /\ AnswerList(p.answers)
  /\ p.streaming \in 0 .. Len(p.answers)

\* She is only heard in an answer that streams and has shown words, or in a call.
SpeaksInAnswer(p) ==
  p.machine.current = "speaking" =>
    p.streaming # None /\ p.answers[p.streaming].shown

Busy(m) == m.current \in {"thinking", "speaking"}

-----------------------------------------------------------------------------
(* The table.                                                                *)

\* Every move is between states.
LEMMA MoveTypes ==
  \A m \in transitionTable : m.to \in ConversationStates /\ m.from \in ConversationStates
BY DEF transitionTable, Move, ConversationStates

\* An event takes the machine from a state to a state.
LEMMA TransitionType ==
  ASSUME NEW s \in ConversationStates, NEW trigger
  PROVE  transition(s, trigger) \in ConversationStates
BY MoveTypes DEF transition

\* What an answer's message does to the machine.
LEMMA OnMessageMoves ==
  ASSUME NEW s \in ConversationStates
  PROVE  transition(s, "assistant.message") =
           IF s \in {"thinking", "speaking"} THEN "listening" ELSE s
<1>1. \A m \in transitionTable : m.trigger = "assistant.message" =>
        m.from \in {"thinking", "speaking"} /\ m.to = "listening"
  BY DEF transitionTable, Move, ConversationStates
<1>2. \A from \in {"thinking", "speaking"} :
        Move(from, "assistant.message", "listening") \in transitionTable
  BY DEF transitionTable
<1>3. \A from \in {"thinking", "speaking"} :
        LET m == Move(from, "assistant.message", "listening")
        IN  m.from = from /\ m.trigger = "assistant.message"
  BY DEF Move
<1> QED
  BY <1>1, <1>2, <1>3 DEF transition

\* What an error does.
LEMMA OnErrorMoves ==
  ASSUME NEW s \in ConversationStates
  PROVE  transition(s, "error") = IF s = "thinking" THEN "listening" ELSE s
<1>1. \A m \in transitionTable : m.trigger = "error" =>
        m.from = "thinking" /\ m.to = "listening"
  BY DEF transitionTable, Move, ConversationStates
<1>2. Move("thinking", "error", "listening") \in transitionTable
  BY DEF transitionTable
<1>3. LET m == Move("thinking", "error", "listening")
      IN  m.from = "thinking" /\ m.trigger = "error"
  BY DEF Move
<1> QED
  BY <1>1, <1>2, <1>3 DEF transition

\* What a cut does.
LEMMA OnInterruptedMoves ==
  ASSUME NEW s \in ConversationStates
  PROVE  transition(s, "assistant.interrupted") =
           IF s = "speaking" THEN "interrupted" ELSE s
<1>1. \A m \in transitionTable : m.trigger = "assistant.interrupted" =>
        m.from = "speaking" /\ m.to = "interrupted"
  BY DEF transitionTable, Move, ConversationStates
<1>2. Move("speaking", "assistant.interrupted", "interrupted") \in transitionTable
  BY DEF transitionTable
<1>3. LET m == Move("speaking", "assistant.interrupted", "interrupted")
      IN  m.from = "speaking" /\ m.trigger = "assistant.interrupted"
  BY DEF Move
<1> QED
  BY <1>1, <1>2, <1>3 DEF transition

\* Only her voice takes the machine to speaking.
LEMMA OnlyVoiceSpeaks ==
  ASSUME NEW s \in ConversationStates, NEW trigger,
         trigger # "assistant.audio.started",
         transition(s, trigger) = "speaking"
  PROVE  s = "speaking"
<1>1. \A m \in transitionTable : m.to = "speaking" => m.trigger = "assistant.audio.started"
  BY DEF transitionTable, Move, ConversationStates
<1> QED
  BY <1>1 DEF transition

\* The end of a session is idle.
LEMMA OnSessionEnded ==
  ASSUME NEW s \in ConversationStates
  PROVE  transition(s, "session.ended") = "idle"
<1>1. \A m \in transitionTable : m.trigger = "session.ended" =>
        m.from # "idle" /\ m.to = "idle"
  BY DEF transitionTable, Move, ConversationStates
<1>2. s # "idle" => Move(s, "session.ended", "idle") \in transitionTable
  BY DEF transitionTable
<1>3. LET m == Move(s, "session.ended", "idle")
      IN  m.from = s /\ m.trigger = "session.ended"
  BY DEF Move
<1> QED
  BY <1>1, <1>2, <1>3 DEF transition

-----------------------------------------------------------------------------
(* The machine.                                                              *)

\* Entering a state sets that state's timers and clears the others.
LEMMA EnteredTimed ==
  ASSUME NEW m \in MachineType, NEW next \in ConversationStates,
         options \in Options
  PROVE  LET e == Entered(m, next) IN
           e \in MachineType /\ Timed(e) /\ e.current = next
BY DEF Entered, MachineType, Timed, IdleTimerIn, TeardownTimerIn, FadesIn, HasIdleTimer,
       Options, ConversationStates

\* So does any event, or it leaves the machine as it is.
LEMMA TriggerTimed ==
  ASSUME NEW m \in MachineType, Timed(m), NEW trigger, options \in Options
  PROVE  LET e == transitionByTrigger(m, trigger) IN
           e \in MachineType /\ Timed(e) /\ e.current = transition(m.current, trigger)
<1>1. m.current \in ConversationStates
  BY DEF MachineType
<1> QED
  BY <1>1, TransitionType, EnteredTimed DEF transitionByTrigger

-----------------------------------------------------------------------------
(* The page.                                                                 *)

\* A dispatch moves the machine by the table and leaves the answers alone.
LEMMA DispatchMoves ==
  ASSUME NEW p, PageOK(p), NEW trigger, NEW t, options \in Options
  PROVE  LET q == dispatch(p, trigger, t) IN
           /\ PageOK(q)
           /\ q.machine.current = transition(p.machine.current, trigger)
           /\ q.answers = p.answers
           /\ q.streaming = p.streaming
<1> DEFINE e == transitionByTrigger(p.machine, trigger)
           q == dispatch(p, trigger, t)
<1>1. e \in MachineType /\ Timed(e) /\ e.current = transition(p.machine.current, trigger)
  BY TriggerTimed DEF PageOK
<1> DEFINE r == [machine |-> p.machine, transcript |-> t, answers |-> p.answers,
                 streaming |-> p.streaming]
<1>2. [p EXCEPT !.transcript = t] = r
  BY DEF PageOK
<1>3. q = Moved(r, e)
  BY <1>2 DEF dispatch
<1>4. Moved(r, e) = [machine |-> e, transcript |-> Moved(r, e).transcript,
                     answers |-> p.answers, streaming |-> p.streaming]
  <2> DEFINE u == IF e.current = r.machine.current THEN r.transcript
                  ELSE onStateChanged(r.transcript, e.current)
  <2>1. Moved(r, e) = [[r EXCEPT !.machine = e] EXCEPT !.transcript = u]
    BY Zenon DEF Moved
  <2> HIDE DEF u, e
  <2>2. [r EXCEPT !.machine = e]
          = [machine |-> e, transcript |-> t, answers |-> p.answers,
             streaming |-> p.streaming]
    OBVIOUS
  <2>3. [[machine |-> e, transcript |-> t, answers |-> p.answers,
          streaming |-> p.streaming] EXCEPT !.transcript = u]
          = [machine |-> e, transcript |-> u, answers |-> p.answers,
             streaming |-> p.streaming]
    OBVIOUS
  <2> QED
    BY <2>1, <2>2, <2>3
<1> QED
  BY <1>1, <1>3, <1>4 DEF PageOK

\* A page whose answers and streaming answer are others is still a page.
LEMMA PageWith ==
  ASSUME NEW p, PageOK(p), NEW list, AnswerList(list), NEW s \in 0 .. Len(list)
  PROVE  PageOK([machine |-> p.machine, transcript |-> p.transcript, answers |-> list,
                 streaming |-> s])
BY DEF PageOK

\* Changing the streaming answer.
LEMMA StreamingSet ==
  ASSUME NEW p, PageOK(p), NEW s \in 0 .. Len(p.answers)
  PROVE  LET q == [p EXCEPT !.streaming = s] IN
           /\ PageOK(q)
           /\ q.machine = p.machine /\ q.answers = p.answers /\ q.streaming = s
<1>1. [p EXCEPT !.streaming = s] = [machine |-> p.machine, transcript |-> p.transcript,
                                    answers |-> p.answers, streaming |-> s]
  BY DEF PageOK
<1> QED
  BY <1>1, PageWith DEF PageOK

\* Changing one answer of a list.
LEMMA ListExcept ==
  ASSUME NEW list, AnswerList(list), NEW n \in 1 .. Len(list), NEW one, "shown" \in DOMAIN one
  PROVE  LET changed == [list EXCEPT ![n] = one] IN
           /\ AnswerList(changed)
           /\ Len(changed) = Len(list)
           /\ \A k \in 1 .. Len(list) : changed[k] = IF k = n THEN one ELSE list[k]
<1>1. PICK S : list \in Seq(S)
  BY DEF AnswerList
<1> DEFINE wider == S \union {one}
           changed == [list EXCEPT ![n] = one]
<1>2. list \in Seq(wider) /\ one \in wider
  BY <1>1
<1> HIDE DEF wider
<1>3. /\ changed \in Seq(wider)
      /\ Len(changed) = Len(list)
      /\ \A k \in 1 .. Len(list) : changed[k] = IF k = n THEN one ELSE list[k]
  BY <1>2, ExceptSeq
<1> HIDE DEF changed
<1>4. \A k \in 1 .. Len(changed) : "shown" \in DOMAIN changed[k]
  BY <1>3 DEF AnswerList
<1>5. AnswerList(changed)
  BY <1>3, <1>4 DEF AnswerList
<1> QED
  BY <1>3, <1>5 DEF changed

\* Adding one to a list.
LEMMA ListAppend ==
  ASSUME NEW list, AnswerList(list), NEW one, "shown" \in DOMAIN one
  PROVE  LET longer == Append(list, one) IN
           /\ AnswerList(longer)
           /\ Len(longer) = Len(list) + 1
           /\ Len(list) \in Nat
<1>1. PICK S : list \in Seq(S)
  BY DEF AnswerList
<1> DEFINE wider == S \union {one}
           longer == Append(list, one)
<1>2. list \in Seq(wider) /\ one \in wider
  BY <1>1
<1> HIDE DEF wider
<1>3. /\ longer \in Seq(wider)
      /\ Len(longer) = Len(list) + 1 /\ Len(list) \in Nat
      /\ \A k \in 1 .. Len(list) : longer[k] = list[k]
      /\ longer[Len(list) + 1] = one
  BY <1>2
<1> HIDE DEF longer
<1>4. \A k \in 1 .. Len(longer) : "shown" \in DOMAIN longer[k]
  BY <1>3 DEF AnswerList
<1>5. AnswerList(longer)
  BY <1>3, <1>4 DEF AnswerList
<1> QED
  BY <1>3, <1>5 DEF longer

\* Changing one answer of a page.
LEMMA AnswersSet ==
  ASSUME NEW p, PageOK(p), NEW n \in 1 .. Len(p.answers), NEW one, "shown" \in DOMAIN one
  PROVE  LET q == [p EXCEPT !.answers = [@ EXCEPT ![n] = one]] IN
           /\ PageOK(q)
           /\ q.machine = p.machine /\ q.streaming = p.streaming
           /\ Len(q.answers) = Len(p.answers)
           /\ \A k \in 1 .. Len(p.answers) : q.answers[k] = IF k = n THEN one ELSE p.answers[k]
<1> DEFINE list == [p.answers EXCEPT ![n] = one]
<1>1. [p EXCEPT !.answers = [@ EXCEPT ![n] = one]]
        = [machine |-> p.machine, transcript |-> p.transcript, answers |-> list,
           streaming |-> p.streaming]
  BY DEF PageOK
<1>2. /\ AnswerList(list)
      /\ Len(list) = Len(p.answers)
      /\ \A k \in 1 .. Len(p.answers) : list[k] = IF k = n THEN one ELSE p.answers[k]
  BY ListExcept DEF PageOK
<1> HIDE DEF list
<1>3. PageOK([machine |-> p.machine, transcript |-> p.transcript, answers |-> list,
              streaming |-> p.streaming])
  BY <1>2, PageWith DEF PageOK
<1> QED
  BY <1>1, <1>2, <1>3

\* A message settles the machine.
LEMMA MessageSettles ==
  ASSUME NEW p, PageOK(p), NEW n \in 1 .. Len(p.answers), NEW status, options \in Options
  PROVE  LET q == Message(p, n, status) IN
           /\ PageOK(q)
           /\ q.machine.current = IF Busy(p.machine) THEN "listening" ELSE p.machine.current
           /\ q.streaming = p.streaming
           /\ Len(q.answers) = Len(p.answers)
<1> DEFINE one == [p.answers[n] EXCEPT !.messages = @ + 1]
           r == [p EXCEPT !.answers = [@ EXCEPT ![n] = one]]
           t == onMessage(p.transcript, n, p.answers[n].shown, status)
<1>1. "shown" \in DOMAIN one
  BY DEF PageOK, AnswerList
<1>2. Message(p, n, status) = dispatch(r, "assistant.message", t)
  BY DEF Message
<1> HIDE DEF one, t
<1>3. /\ PageOK(r) /\ r.machine = p.machine /\ r.streaming = p.streaming
      /\ Len(r.answers) = Len(p.answers)
  BY <1>1, AnswersSet
<1> HIDE DEF r
<1>4. p.machine.current \in ConversationStates
  BY DEF PageOK, MachineType
<1>5. transition(p.machine.current, "assistant.message")
        = IF Busy(p.machine) THEN "listening" ELSE p.machine.current
  BY <1>4, OnMessageMoves DEF Busy
<1> QED
  BY <1>2, <1>3, <1>5, DispatchMoves

\* Stopping ends the answer that streams, and what the machine did with it.
LEMMA StopSettles ==
  ASSUME NEW p, PageOK(p), options \in Options
  PROVE  LET q == stop(p) IN
           /\ PageOK(q)
           /\ q.streaming = None
           /\ p.streaming = None => q = p
           /\ p.streaming # None => ~Busy(q.machine)
<1>1. CASE p.streaming = None
  BY <1>1 DEF stop
<1>2. CASE p.streaming # None
  <2> DEFINE n == p.streaming
             cut == [p EXCEPT !.streaming = None]
  <2>1. n \in 1 .. Len(p.answers)
    BY <1>2 DEF PageOK, None
  <2>2. None \in 0 .. Len(p.answers)
    BY <2>1 DEF None
  <2>3. PageOK(cut) /\ cut.machine = p.machine /\ cut.answers = p.answers
        /\ cut.streaming = None
    BY <2>2, StreamingSet
  <2>4. stop(p) = IF p.answers[n].shown THEN Message(Interrupted(cut), n, "interrupted")
                  ELSE Message(cut, n, "interrupted")
    BY <1>2 DEF stop
  <2> HIDE DEF cut, n
  <2>5. PageOK(Interrupted(cut)) /\ Interrupted(cut).answers = p.answers
        /\ Interrupted(cut).streaming = None
    BY <2>3, DispatchMoves DEF Interrupted
  <2>6. ~Busy(Message(cut, n, "interrupted").machine)
        /\ PageOK(Message(cut, n, "interrupted"))
        /\ Message(cut, n, "interrupted").streaming = None
    BY <2>1, <2>3, MessageSettles DEF Busy
  <2>7. ~Busy(Message(Interrupted(cut), n, "interrupted").machine)
        /\ PageOK(Message(Interrupted(cut), n, "interrupted"))
        /\ Message(Interrupted(cut), n, "interrupted").streaming = None
    BY <2>1, <2>5, MessageSettles DEF Busy
  <2> QED
    BY <1>2, <2>4, <2>6, <2>7
<1> QED
  BY <1>1, <1>2

\* A new answer streams.
LEMMA AnswerStreams ==
  ASSUME NEW p, PageOK(p)
  PROVE  LET q == answer(p) IN
           PageOK(q) /\ q.machine = p.machine /\ q.streaming # None
<1> DEFINE one == [spoken |-> voice, shown |-> FALSE, heard |-> FALSE, live |-> TRUE,
                   messages |-> 0, ask |-> Asked(p.transcript)]
           list == Append(p.answers, one)
           s == Len(p.answers) + 1
           r == [machine |-> p.machine, transcript |-> p.transcript, answers |-> list,
                 streaming |-> p.streaming]
<1>1. "shown" \in DOMAIN one
  OBVIOUS
<1>2. answer(p) = [[p EXCEPT !.answers = list] EXCEPT !.streaming = s]
  BY Zenon DEF answer
<1> HIDE DEF one
<1>3. AnswerList(list) /\ Len(list) = s /\ Len(p.answers) \in Nat
  BY <1>1, ListAppend DEF PageOK
<1> HIDE DEF list, s
<1>4. [p EXCEPT !.answers = list] = r
  BY DEF PageOK
<1>5. [r EXCEPT !.streaming = s] = [machine |-> p.machine, transcript |-> p.transcript,
                                    answers |-> list, streaming |-> s]
  OBVIOUS
<1>6. s \in 0 .. Len(list) /\ s # None
  BY <1>3 DEF s, None
<1>7. PageOK([machine |-> p.machine, transcript |-> p.transcript, answers |-> list,
              streaming |-> s])
  BY <1>3, <1>6, PageWith
<1> QED
  BY <1>2, <1>4, <1>5, <1>6, <1>7

-----------------------------------------------------------------------------
(* The inductive invariant.  That she is not left thinking holds of the      *)
(* answers' own ends only because a message settles both thinking and        *)
(* speaking, and an error alone leaves no speaking behind: an answer that is *)
(* heard has shown words, so its failure is followed by a message.           *)

IInv ==
  /\ options \in Options
  /\ PageOK(Page)
  /\ NotLeftThinking
  /\ call => streaming = None
  /\ ~call => SpeaksInAnswer(Page)

\* What the invariant asks of the page an operation leaves.
Settles(p) ==
  /\ PageOK(p)
  /\ p.streaming = None /\ ~call' => (left /\ ~Quiet(p.machine)) \/ ~Busy(p.machine)
  /\ call' => p.streaming = None
  /\ ~call' => SpeaksInAnswer(p)

\* The invariant of the next state is that of the page it has become.
LEMMA BecomesSettled ==
  ASSUME NEW p, options \in Options, UNCHANGED options, Becomes(p), Settles(p)
  PROVE  IInv'
<1>1. machine' = p.machine /\ answers' = p.answers /\ streaming' = p.streaming
      /\ left' = (left /\ ~Quiet(p.machine))
  BY DEF Becomes
<1>2. PageOK(Page)'
  BY <1>1 DEF Settles, PageOK, Timed, HasIdleTimer, Page
<1>3. NotLeftThinking'
  BY <1>1 DEF Settles, NotLeftThinking, Busy
<1>4. call' => (streaming = None)'
  BY <1>1 DEF Settles
<1>5. ~call' => SpeaksInAnswer(Page)'
  BY <1>1 DEF Settles, SpeaksInAnswer, Page
<1> QED
  BY <1>2, <1>3, <1>4, <1>5 DEF IInv

\* What is asked of her leaves a new answer streaming, and nobody speaking.
LEMMA AsksSettle ==
  ASSUME NEW p, PageOK(p), p.machine.current # "speaking", NEW trigger,
         trigger # "assistant.audio.started", NEW t, options \in Options
  PROVE  LET q == answer(dispatch(p, trigger, t)) IN
           PageOK(q) /\ q.streaming # None /\ q.machine.current # "speaking"
<1> DEFINE r == dispatch(p, trigger, t)
<1>1. PageOK(r) /\ r.machine.current = transition(p.machine.current, trigger)
  BY DispatchMoves
<1>2. p.machine.current \in ConversationStates
  BY DEF PageOK, MachineType
<1>3. r.machine.current # "speaking"
  BY <1>1, <1>2, OnlyVoiceSpeaks
<1> HIDE DEF r
<1>4. PageOK(answer(r)) /\ answer(r).machine = r.machine /\ answer(r).streaming # None
  BY <1>1, AnswerStreams
<1> QED
  BY <1>3, <1>4 DEF r

\* An answer that is over has left the stream.
LEMMA OverLeaves ==
  ASSUME NEW p, PageOK(p), NEW n \in 1 .. Len(p.answers)
  PROVE  LET q == Over(p, n) IN
           /\ PageOK(q)
           /\ q.machine = p.machine /\ q.streaming = None
           /\ Len(q.answers) = Len(p.answers)
<1> DEFINE one == [p.answers[n] EXCEPT !.live = FALSE]
           list == [p.answers EXCEPT ![n] = one]
           cut == [p EXCEPT !.streaming = None]
<1>1. "shown" \in DOMAIN one
  BY DEF PageOK, AnswerList
<1>2. None \in 0 .. Len(p.answers)
  BY DEF None
<1>3. PageOK(cut) /\ cut.machine = p.machine /\ cut.answers = p.answers
      /\ cut.streaming = None
  BY <1>2, StreamingSet
<1>4. Over(p, n) = [cut EXCEPT !.answers[n].live = FALSE]
  BY DEF Over
<1>5. [cut EXCEPT !.answers[n].live = FALSE]
        = [cut EXCEPT !.answers =
             [cut.answers EXCEPT ![n] = [cut.answers[n] EXCEPT !.live = FALSE]]]
  OBVIOUS
<1>6. Over(p, n) = [cut EXCEPT !.answers = [@ EXCEPT ![n] = one]]
  BY <1>3, <1>4, <1>5
<1> HIDE DEF one, list, cut
<1> QED
  BY <1>1, <1>3, <1>6, AnswersSet

\* Stopping settles the page, whether or not anything streamed.
LEMMA StopKeeps ==
  ASSUME IInv, call' \/ call' = call
  PROVE  Settles(stop(Page))
<1>1. PageOK(stop(Page)) /\ stop(Page).streaming = None
      /\ (streaming = None => stop(Page) = Page)
      /\ (streaming # None => ~Busy(stop(Page).machine))
  <2>1. PageOK(Page) /\ options \in Options /\ Page.streaming = streaming
    BY DEF IInv, Page
  <2> QED
    BY <2>1, StopSettles
<1>2. CASE streaming = None
  BY <1>1, <1>2 DEF Settles, IInv, NotLeftThinking, SpeaksInAnswer, Page, Busy, Quiet
<1>3. CASE streaming # None
  BY <1>1, <1>3 DEF Settles, SpeaksInAnswer, Busy
<1> QED
  BY <1>2, <1>3

\* Nobody speaks once what streamed is stopped, outside a call.
LEMMA StoppedIsSilent ==
  ASSUME IInv, ~call
  PROVE  PageOK(stop(Page)) /\ stop(Page).machine.current # "speaking"
<1>1. PageOK(Page) /\ options \in Options /\ Page.streaming = streaming
  BY DEF IInv, Page
<1>2. CASE streaming = None
  BY <1>1, <1>2, StopSettles DEF IInv, SpeaksInAnswer
<1>3. CASE streaming # None
  BY <1>1, <1>3, StopSettles DEF Busy
<1> QED
  BY <1>2, <1>3

-----------------------------------------------------------------------------
(* One lemma for each group of actions.                                      *)

\* A message of hers or the person's asks for an answer.
LEMMA AsksKeep ==
  ASSUME IInv, send \/ open \/ speakUp
  PROVE  IInv'
<1> USE DEF MayAsk
<1>1. options \in Options /\ PageOK(Page) /\ Page.streaming = streaming
      /\ Page.machine = machine
  BY DEF IInv, Page
<1>2. CASE send
  <2> DEFINE q == stop(Page)
             t == appended(q.transcript, UserLine(Asked(q.transcript) + 1))
             r == answer(dispatch(q, "user.message", t))
  <2>1. PageOK(q) /\ q.machine.current # "speaking"
    BY <1>2, StoppedIsSilent DEF send
  <2> HIDE DEF q, t
  <2>2. PageOK(r) /\ r.streaming # None /\ r.machine.current # "speaking"
    BY <1>1, <2>1, AsksSettle
  <2>3. Sent(Page) = r
    BY DEF Sent, q, t
  <2> HIDE DEF r
  <2>4. Settles(r)
    BY <1>2, <2>2 DEF Settles, SpeaksInAnswer, send
  <2> QED
    BY <1>1, <1>2, <2>3, <2>4, BecomesSettled DEF send
<1>3. CASE open \/ speakUp
  <2> DEFINE r == answer(dispatch(Page, "assistant.opening", Page.transcript))
  <2>1. ~call /\ streaming = None /\ Becomes(r) /\ UNCHANGED <<options, call>>
    BY <1>3 DEF open, speakUp, Opening
  <2>2. Page.machine.current # "speaking"
    BY <1>1, <2>1 DEF IInv, SpeaksInAnswer
  <2>3. PageOK(r) /\ r.streaming # None /\ r.machine.current # "speaking"
    BY <1>1, <2>2, AsksSettle
  <2> HIDE DEF r
  <2>4. Settles(r)
    BY <2>1, <2>3 DEF Settles, SpeaksInAnswer
  <2> QED
    BY <1>1, <2>1, <2>4, BecomesSettled
<1> QED
  BY <1>2, <1>3

\* What streams is stopped.
LEMMA StopsKeep ==
  ASSUME IInv, Stop \/ setVoice \/ dispose \/ CallStarts
  PROVE  IInv'
<1>1. Becomes(stop(Page)) /\ UNCHANGED options /\ (call' \/ call' = call)
  BY DEF Stop, setVoice, dispose, CallStarts
<1>2. Settles(stop(Page)) /\ options \in Options
  BY <1>1, StopKeeps DEF IInv
<1> QED
  BY <1>1, <1>2, BecomesSettled

\* A stream delivers words, or her voice, and goes on.
LEMMA DeliveriesKeep ==
  ASSUME IInv, NEW n \in DOMAIN answers, Token(n) \/ AudioStarts(n)
  PROVE  IInv'
<1>1. options \in Options /\ PageOK(Page) /\ Page.answers = answers
      /\ Page.streaming = streaming /\ Page.machine = machine
  BY DEF IInv, Page
<1>2. n \in 1 .. Len(answers) /\ streaming = n /\ n # None
  BY <1>1 DEF Token, AudioStarts, IsStreaming, PageOK, AnswerList, None
<1>3. ~call /\ UNCHANGED <<options, call>>
  BY <1>2 DEF IInv, Token, AudioStarts
<1>4. ASSUME NEW one, "shown" \in DOMAIN one, one.shown = TRUE, NEW trigger, NEW t,
             Becomes(dispatch([Page EXCEPT !.answers = [@ EXCEPT ![n] = one]], trigger, t))
      PROVE  IInv'
  <2> DEFINE p == [Page EXCEPT !.answers = [@ EXCEPT ![n] = one]]
             q == dispatch(p, trigger, t)
  <2>1. PageOK(p) /\ p.streaming = n /\ p.answers[n] = one
    BY <1>1, <1>2, <1>4, AnswersSet
  <2> HIDE DEF p
  <2>2. PageOK(q) /\ q.streaming = n /\ q.answers[n] = one
    BY <1>1, <2>1, DispatchMoves
  <2>3. Becomes(q)
    BY <1>4 DEF p
  <2> HIDE DEF q
  <2>4. Settles(q)
    BY <1>2, <1>3, <1>4, <2>2 DEF Settles, SpeaksInAnswer
  <2> QED
    BY <1>1, <1>3, <2>3, <2>4, BecomesSettled
<1>5. CASE Token(n)
  <2> DEFINE one == [answers[n] EXCEPT !.shown = TRUE]
             p == [Page EXCEPT !.answers = [@ EXCEPT ![n] = one]]
  <2>1. "shown" \in DOMAIN one /\ one.shown = TRUE
    BY <1>1, <1>2 DEF PageOK, AnswerList
  <2>2. [Page EXCEPT !.answers[n].shown = TRUE] = p
    BY <1>1
  <2>3. Becomes(dispatch(p, "assistant.token", onToken(p.transcript, n)))
    BY <1>5, <2>2 DEF Token
  <2> HIDE DEF one
  <2> QED
    BY <1>4, <2>1, <2>3
<1>6. CASE AudioStarts(n)
  <2> DEFINE one == [answers[n] EXCEPT !.heard = TRUE]
             p == [Page EXCEPT !.answers = [@ EXCEPT ![n] = one]]
  <2>1. "shown" \in DOMAIN one /\ one.shown
    BY <1>1, <1>2, <1>6 DEF PageOK, AnswerList, AudioStarts
  <2>2. [Page EXCEPT !.answers[n].heard = TRUE] = p
    BY <1>1
  <2>3. Becomes(dispatch(p, "assistant.audio.started", p.transcript))
    BY <1>6, <2>2 DEF AudioStarts
  <2> HIDE DEF one
  <2> QED
    BY <1>4, <2>1, <2>3
<1> QED
  BY <1>5, <1>6

\* A stream ends well, or badly: either way the machine has settled.
LEMMA EndsKeep ==
  ASSUME IInv, NEW n \in DOMAIN answers, Completes(n) \/ Fails(n)
  PROVE  IInv'
<1> DEFINE over == Over(Page, n)
<1>1. options \in Options /\ PageOK(Page) /\ Page.answers = answers
      /\ Page.streaming = streaming /\ Page.machine = machine
  BY DEF IInv, Page
<1>2. n \in 1 .. Len(answers) /\ streaming = n /\ n # None
  BY <1>1 DEF Completes, Fails, IsStreaming, PageOK, AnswerList, None
<1>3. ~call /\ UNCHANGED <<options, call>>
  BY <1>2 DEF IInv, Completes, Fails
<1>4. /\ PageOK(over) /\ over.machine = machine /\ over.streaming = None
      /\ Len(over.answers) = Len(answers)
  BY <1>1, <1>2, OverLeaves
<1>5. over.answers[n].shown = answers[n].shown
  <2> DEFINE one == [answers[n] EXCEPT !.live = FALSE]
             list == [answers EXCEPT ![n] = one]
  <2>1. over.answers = list
    <3>1. over = [[Page EXCEPT !.streaming = None] EXCEPT !.answers[n].live = FALSE]
      BY DEF Over
    <3> QED
      BY <3>1 DEF Page
  <2>2. "shown" \in DOMAIN answers[n]
    BY <1>1, <1>2 DEF PageOK, AnswerList
  <2>3. n \in DOMAIN answers
    OBVIOUS
  <2> QED
    BY <2>1, <2>2, <2>3
<1> HIDE DEF over
<1>6. ASSUME NEW q, PageOK(q), q.streaming = None, ~Busy(q.machine), Becomes(q)
      PROVE  IInv'
  <2>1. Settles(q)
    BY <1>3, <1>6 DEF Settles, SpeaksInAnswer, Busy
  <2> QED
    BY <1>1, <1>3, <1>6, <2>1, BecomesSettled
<1>7. CASE Completes(n)
  <2> DEFINE q == Message(over, n, "complete")
  <2>1. PageOK(q) /\ q.streaming = None /\ ~Busy(q.machine)
    BY <1>1, <1>2, <1>4, MessageSettles DEF Busy
  <2>2. Becomes(q)
    BY <1>7 DEF Completes, over
  <2> HIDE DEF q
  <2> QED
    BY <1>6, <2>1, <2>2
<1>8. CASE Fails(n)
  <2> DEFINE e == dispatch(over, "error", over.transcript)
             q == Message(e, n, "interrupted")
  <2>1. /\ PageOK(e) /\ e.streaming = None /\ e.answers = over.answers
        /\ e.machine.current = transition(machine.current, "error")
    BY <1>1, <1>4, DispatchMoves
  <2>2. machine.current \in ConversationStates
    BY <1>1 DEF PageOK, MachineType
  <2>3. ~answers[n].shown => ~Busy(e.machine)
    BY <1>1, <1>2, <1>3, <2>1, <2>2, OnErrorMoves DEF Busy, IInv, SpeaksInAnswer
  <2> HIDE DEF e
  <2>4. PageOK(q) /\ q.streaming = None /\ ~Busy(q.machine)
    BY <1>1, <1>2, <1>4, <2>1, MessageSettles DEF Busy
  <2>5. Becomes(IF answers[n].shown THEN q ELSE e)
    BY <1>5, <1>8 DEF Fails, Failed, over, e
  <2> HIDE DEF q
  <2> QED
    BY <1>6, <2>1, <2>3, <2>4, <2>5
<1> QED
  BY <1>7, <1>8

\* A stopped answer's stream notices.
LEMMA LateKeeps ==
  ASSUME IInv, NEW n \in DOMAIN answers, ComesLate(n)
  PROVE  IInv'
<1> DEFINE one == [answers[n] EXCEPT !.live = FALSE]
<1>1. PageOK(Page) /\ AnswerList(answers) /\ streaming \in 0 .. Len(answers)
  BY DEF IInv, Page, PageOK
<1>2. n \in 1 .. Len(answers)
  BY <1>1 DEF AnswerList
<1>3. "shown" \in DOMAIN one
  BY <1>1, <1>2 DEF AnswerList
<1>4. /\ answers' = [answers EXCEPT ![n] = one] /\ streaming # n
      /\ UNCHANGED <<options, machine, streaming, call, left>>
  BY DEF ComesLate, IsStreaming
<1> HIDE DEF one
<1> DEFINE list == [answers EXCEPT ![n] = one]
<1>5. /\ AnswerList(list) /\ Len(list) = Len(answers)
      /\ \A k \in 1 .. Len(answers) : list[k] = IF k = n THEN one ELSE answers[k]
  BY <1>1, <1>2, <1>3, ListExcept
<1>6. answers' = list
  BY <1>4
<1> HIDE DEF list
<1>7. PageOK(Page)'
  BY <1>1, <1>4, <1>5, <1>6 DEF PageOK, Page, Timed, HasIdleTimer
<1>8. ~call' => SpeaksInAnswer(Page)'
  BY <1>1, <1>4, <1>5, <1>6 DEF IInv, SpeaksInAnswer, Page, None
<1> QED
  BY <1>4, <1>7, <1>8 DEF IInv, NotLeftThinking

\* A timer or a fade takes the machine to where nobody thinks or speaks, or
\* leaves it where it is.
LEMMA MachineMovesKeep ==
  ASSUME IInv, MachineMoves
  PROVE  IInv'
<1>1. /\ options \in Options /\ machine \in MachineType /\ Timed(machine)
      /\ AnswerList(answers) /\ streaming \in 0 .. Len(answers)
      /\ machine.current \in ConversationStates
  BY DEF IInv, Page, PageOK, MachineType
<1>2. /\ machine' \in MachineType
      /\ Timed(machine')
      /\ ~Busy(machine') \/ machine'.current = machine.current
  <2>1. CASE IdleTimerFires
    <3>1. transition(machine.current, "session.ended") = "idle"
      BY <1>1, OnSessionEnded
    <3> QED
      BY <1>1, <2>1, <3>1, TriggerTimed DEF IdleTimerFires, Busy
  <2>2. CASE TeardownTimerFires
    <3>1. machine.current = "interrupted"
      BY <1>1, <2>2 DEF TeardownTimerFires, Timed
    <3>2. machine' = Entered(machine, "listening")
      BY <2>2, <3>1 DEF TeardownTimerFires
    <3> QED
      BY <1>1, <3>2, EnteredTimed DEF Busy, ConversationStates
  <2>3. ASSUME NEW e \in machine.fades, FadeEnds(e)
        PROVE  /\ machine' \in MachineType /\ Timed(machine')
               /\ ~Busy(machine') \/ machine'.current = machine.current
    <3> DEFINE ended == [machine EXCEPT !.fades = @ \ {e}]
    <3>1. ended \in MachineType /\ Timed(ended) /\ ended.current = machine.current
      BY <1>1 DEF MachineType, Timed, HasIdleTimer
    <3>2. machine' = Entered(ended, "listening") \/ machine' = ended
      BY <2>3 DEF FadeEnds
    <3> HIDE DEF ended
    <3> QED
      BY <1>1, <3>1, <3>2, EnteredTimed DEF Busy, ConversationStates
  <2> QED
    BY <2>1, <2>2, <2>3 DEF MachineMoves
<1>3. /\ UNCHANGED <<options, answers, streaming, call>>
      /\ left' = (left /\ ~Quiet(machine'))
  BY DEF MachineMoves
<1>4. PageOK(Page)'
  BY <1>1, <1>2, <1>3 DEF PageOK, Page, Timed, HasIdleTimer
<1>5. NotLeftThinking'
  BY <1>2, <1>3 DEF IInv, NotLeftThinking, Busy, Quiet
<1>6. ~call' => SpeaksInAnswer(Page)'
  BY <1>2, <1>3 DEF IInv, SpeaksInAnswer, Page, Busy
<1> QED
  BY <1>1, <1>3, <1>4, <1>5, <1>6 DEF IInv

\* An error on the page moves a machine that thinks, and no other.
LEMMA NoticeKeeps ==
  ASSUME IInv, PageNotice
  PROVE  IInv'
<1> DEFINE q == dispatch(Page, "error", transcript)
<1>1. /\ options \in Options /\ PageOK(Page) /\ Page.machine = machine
      /\ Page.streaming = streaming /\ Page.answers = answers
      /\ machine.current \in ConversationStates
  BY DEF IInv, Page, PageOK, MachineType
<1>2. /\ PageOK(q) /\ q.streaming = streaming /\ q.answers = answers
      /\ q.machine.current = IF machine.current = "thinking" THEN "listening"
                             ELSE machine.current
  BY <1>1, DispatchMoves, OnErrorMoves
<1>3. Becomes(q) /\ UNCHANGED <<options, call>>
  BY DEF PageNotice
<1> HIDE DEF q
<1>4. Settles(q)
  BY <1>1, <1>2, <1>3 DEF Settles, IInv, NotLeftThinking, SpeaksInAnswer, Busy, Quiet
<1> QED
  BY <1>1, <1>3, <1>4, BecomesSettled

\* During a call nothing of the page streams, whatever the call dispatches.
LEMMA CallKeeps ==
  ASSUME IInv, CallDispatches
  PROVE  IInv'
<1>1. options \in Options /\ PageOK(Page) /\ Page.streaming = streaming /\ streaming = None
      /\ call /\ UNCHANGED <<options, call>>
  BY DEF IInv, Page, CallDispatches
<1>2. PICK trigger, t : Becomes(dispatch(Page, trigger, t))
  BY Zenon DEF CallDispatches, Interrupted
<1> DEFINE q == dispatch(Page, trigger, t)
<1>3. PageOK(q) /\ q.streaming = None
  BY <1>1, DispatchMoves
<1>4. Becomes(q)
  BY <1>2
<1> HIDE DEF q
<1>5. Settles(q)
  BY <1>1, <1>3 DEF Settles
<1> QED
  BY <1>1, <1>4, <1>5, BecomesSettled

\* The call is hung up.
LEMMA HangUpKeeps ==
  ASSUME IInv, CallEnds
  PROVE  IInv'
<1>1. /\ options \in Options /\ PageOK(Page) /\ Page.machine = machine
      /\ Page.streaming = streaming /\ streaming = None
      /\ machine.current \in ConversationStates
      /\ ~call' /\ UNCHANGED options
  BY DEF IInv, Page, PageOK, MachineType, CallEnds
<1>2. CASE machine.current = "speaking"
  <2> DEFINE q == dispatch(Page, "assistant.message",
                           onMessage(transcript, None, TRUE, "interrupted"))
  <2>1. PageOK(q) /\ q.streaming = None /\ q.machine.current = "listening"
    BY <1>1, <1>2, DispatchMoves, OnMessageMoves
  <2>2. Becomes(q)
    BY <1>2 DEF CallEnds
  <2> HIDE DEF q
  <2>3. Settles(q)
    BY <1>1, <2>1 DEF Settles, SpeaksInAnswer, Busy
  <2> QED
    BY <1>1, <2>2, <2>3, BecomesSettled
<1>3. CASE machine.current # "speaking"
  <2>1. /\ UNCHANGED <<options, machine, answers, streaming>>
        /\ left' = (machine.current = "thinking")
    BY <1>3 DEF CallEnds
  <2>2. PageOK(Page)'
    BY <1>1, <2>1 DEF PageOK, Page, Timed, HasIdleTimer
  <2> QED
    BY <1>1, <1>3, <2>1, <2>2 DEF IInv, NotLeftThinking, SpeaksInAnswer, Page
<1> QED
  BY <1>2, <1>3

-----------------------------------------------------------------------------
(* The record: what the transcript's lines hold of the answers.  A line is   *)
(* the open one, of which tokens may be added, or it is settled; an answer   *)
(* that streams has words in no line but the open one.                       *)

Line == [kind : {"user", "assistant"}, id : Nat, of : SUBSET Nat,
         status : {"complete", "interrupted", "streaming"}]

Answer == [spoken : BOOLEAN, shown : BOOLEAN, heard : BOOLEAN, live : BOOLEAN,
           messages : Nat, ask : Nat]

IsHers(line) == line.kind = "assistant"

\* The user's lines up to line i, and how many they are.
UsersUpTo(lines, i) == {k \in 1 .. i : lines[k].kind = "user"}

Before(lines, i) == Cardinality(UsersUpTo(lines, i))

\* A line of hers that no token reaches any more.
SettledOK(lines, i, list) ==
  IsHers(lines[i]) =>
    /\ lines[i].status # "streaming"
    /\ lines[i].id \in 0 .. Len(list)
    /\ None \notin lines[i].of =>
         /\ lines[i].of = {lines[i].id}
         /\ Before(lines, i) >= list[lines[i].id].ask

\* The open line has words of answer n alone, or a call left it.
OpenOK(t, list, n) ==
  t.open # 0 =>
    /\ IsHers(t.lines[t.open])
    /\ t.lines[t.open].id = None
    /\ None \notin t.lines[t.open].of =>
         /\ n # None
         /\ t.lines[t.open].of = {n}
         /\ list[n].shown
         /\ Before(t.lines, t.open) >= list[n].ask

IsLineOf(line, n) == IsHers(line) /\ line.id = n

IsRecord(t) == t = [lines |-> t.lines, open |-> t.open]

\* Every answer but n, which is not over, has its line if it showed a word.
RecordOK(t, list, n) ==
  /\ IsRecord(t)
  /\ t.lines \in Seq(Line)
  /\ t.open \in 0 .. Len(t.lines)
  /\ list \in Seq(Answer)
  /\ n \in 0 .. Len(list)
  /\ \A i \in 1 .. Len(t.lines) : i # t.open => SettledOK(t.lines, i, list)
  /\ OpenOK(t, list, n)
  /\ \A i, j \in 1 .. Len(t.lines) :
       IsHers(t.lines[i]) /\ t.lines[i].id # None /\ IsLineOf(t.lines[j], t.lines[i].id) => i = j
  /\ \A k \in 1 .. Len(list) :
       /\ list[k].ask <= Before(t.lines, Len(t.lines))
       /\ list[k].messages <= IF k = n THEN 0 ELSE 1
       /\ (\E i \in 1 .. Len(t.lines) : IsLineOf(t.lines[i], k)) <=> k # n /\ list[k].shown

\* Between two handlers, an open line that no call left is streaming.
Streams(t) ==
  t.open # 0 /\ None \notin t.lines[t.open].of => t.lines[t.open].status = "streaming"

\* What holds of the record, beside IInv, between two handlers.
TInv == RecordOK(transcript, answers, streaming) /\ Streams(transcript) /\ voice \in BOOLEAN

-----------------------------------------------------------------------------
(* Lists of lines.                                                           *)

LEMMA CountsUsers ==
  ASSUME NEW lines, NEW i \in Nat
  PROVE  IsFiniteSet(UsersUpTo(lines, i)) /\ Before(lines, i) \in Nat
<1>1. UsersUpTo(lines, i) \in SUBSET (1 .. i) /\ IsFiniteSet(1 .. i)
  BY FS_Interval DEF UsersUpTo
<1>2. IsFiniteSet(UsersUpTo(lines, i))
  BY <1>1, FS_Subset
<1> QED
  BY <1>2, FS_CardinalityType DEF Before

\* Further down there are no fewer.
LEMMA CountsGrow ==
  ASSUME NEW lines, NEW j \in Nat, NEW i \in 0 .. j
  PROVE  Before(lines, i) <= Before(lines, j)
<1>1. UsersUpTo(lines, i) \in SUBSET UsersUpTo(lines, j)
  BY DEF UsersUpTo
<1> QED
  BY <1>1, CountsUsers, FS_Subset DEF Before

\* Only whose the lines are counts.
LEMMA SameCount ==
  ASSUME NEW a, NEW b, NEW i \in Nat, \A k \in 1 .. i : a[k].kind = b[k].kind
  PROVE  Before(a, i) = Before(b, i)
<1>1. UsersUpTo(a, i) = UsersUpTo(b, i)
  BY DEF UsersUpTo
<1> QED
  BY <1>1 DEF Before

\* A line added.
LEMMA LineAdded ==
  ASSUME NEW lines \in Seq(Line), NEW line \in Line
  PROVE  LET more == Append(lines, line) IN
           /\ more \in Seq(Line) /\ Len(lines) \in Nat /\ Len(more) = Len(lines) + 1
           /\ \A k \in 1 .. Len(lines) : more[k] = lines[k]
           /\ more[Len(lines) + 1] = line
           /\ \A i \in 0 .. Len(lines) : Before(more, i) = Before(lines, i)
           /\ Before(lines, Len(lines)) <= Before(more, Len(lines) + 1)
<1> DEFINE more == Append(lines, line)
<1>1. /\ more \in Seq(Line) /\ Len(lines) \in Nat /\ Len(more) = Len(lines) + 1
      /\ \A k \in 1 .. Len(lines) : more[k] = lines[k]
      /\ more[Len(lines) + 1] = line
  OBVIOUS
<1> HIDE DEF more
<1>2. \A i \in 0 .. Len(lines) : Before(more, i) = Before(lines, i)
  BY <1>1, SameCount
<1>3. Before(more, Len(lines)) <= Before(more, Len(lines) + 1)
  BY <1>1, CountsGrow
<1> QED
  BY <1>1, <1>2, <1>3 DEF more

\* A line of hers replaced by another.
LEMMA LineChanged ==
  ASSUME NEW lines \in Seq(Line), NEW o \in 1 .. Len(lines), NEW line \in Line,
         IsHers(line), IsHers(lines[o])
  PROVE  LET other == [lines EXCEPT ![o] = line] IN
           /\ other \in Seq(Line) /\ Len(lines) \in Nat /\ Len(other) = Len(lines)
           /\ \A k \in 1 .. Len(lines) : other[k] = IF k = o THEN line ELSE lines[k]
           /\ \A i \in 0 .. Len(lines) : Before(other, i) = Before(lines, i)
<1> DEFINE other == [lines EXCEPT ![o] = line]
<1>1. /\ other \in Seq(Line) /\ Len(lines) \in Nat /\ Len(other) = Len(lines)
      /\ \A k \in 1 .. Len(lines) : other[k] = IF k = o THEN line ELSE lines[k]
  BY ExceptSeq
<1> HIDE DEF other
<1>2. \A i \in 0 .. Len(lines) : Before(other, i) = Before(lines, i)
  BY <1>1, SameCount DEF IsHers
<1> QED
  BY <1>1, <1>2 DEF other

\* A line of hers taken away: those behind it move up, with as many of the
\* user's before them.
LEMMA LineRemoved ==
  ASSUME NEW lines \in Seq(Line), NEW o \in 1 .. Len(lines), IsHers(lines[o])
  PROVE  LET fewer == RemoveAt(lines, o) IN
           /\ fewer \in Seq(Line) /\ Len(lines) \in Nat /\ Len(fewer) = Len(lines) - 1
           /\ \A k \in 1 .. Len(lines) - 1 : fewer[k] = IF k < o THEN lines[k] ELSE lines[k + 1]
           /\ \A i \in 0 .. o - 1 : Before(fewer, i) = Before(lines, i)
           /\ \A i \in o .. Len(lines) : Before(fewer, i - 1) = Before(lines, i)
<1> DEFINE head == SubSeq(lines, 1, o - 1)
           tail == SubSeq(lines, o + 1, Len(lines))
           fewer == RemoveAt(lines, o)
<1>1. /\ head \in Seq(Line) /\ Len(head) = o - 1 /\ o \in Nat /\ Len(lines) \in Nat
      /\ \A k \in 1 .. o - 1 : head[k] = lines[k]
  OBVIOUS
<1>2. /\ tail \in Seq(Line) /\ Len(tail) = Len(lines) - o
      /\ \A k \in 1 .. Len(lines) - o : tail[k] = lines[k + o]
  OBVIOUS
<1>3. fewer = head \o tail
  BY DEF RemoveAt
<1> HIDE DEF head, tail
<1>4. /\ fewer \in Seq(Line) /\ Len(fewer) = Len(lines) - 1
      /\ \A k \in 1 .. Len(lines) - 1 : fewer[k] = IF k < o THEN lines[k] ELSE lines[k + 1]
  <2>1. fewer \in Seq(Line) /\ Len(fewer) = Len(head) + Len(tail)
    BY <1>1, <1>2, <1>3, ConcatProperties
  <2>2. \A k \in 1 .. Len(head) + Len(tail) :
          fewer[k] = IF k <= Len(head) THEN head[k] ELSE tail[k - Len(head)]
    BY <1>1, <1>2, <1>3
  <2>3. ASSUME NEW k \in 1 .. Len(lines) - 1, k >= o
        PROVE  fewer[k] = lines[k + 1]
    <3>1. k \in 1 .. Len(head) + Len(tail) /\ ~(k <= Len(head))
          /\ k - (o - 1) \in 1 .. Len(lines) - o
      BY <1>1, <1>2, <2>3
    <3>2. fewer[k] = tail[k - Len(head)]
      BY <2>2, <3>1
    <3>3. k - Len(head) = k - (o - 1)
      BY <1>1
    <3>4. tail[k - (o - 1)] = lines[k - (o - 1) + o]
      BY <1>2, <3>1
    <3>5. k - (o - 1) + o = k + 1
      BY <1>1
    <3> QED
      BY <3>2, <3>3, <3>4, <3>5
  <2> QED
    BY <1>1, <1>2, <2>1, <2>2, <2>3
<1> HIDE DEF fewer
<1>5. \A i \in 0 .. o - 1 : Before(fewer, i) = Before(lines, i)
  BY <1>1, <1>4, SameCount
<1>6. ASSUME NEW i \in o .. Len(lines)
      PROVE  Before(fewer, i - 1) = Before(lines, i)
  <2> DEFINE F == [k \in UsersUpTo(fewer, i - 1) |-> IF k < o THEN k ELSE k + 1]
             S == UsersUpTo(fewer, i - 1)
             T == UsersUpTo(lines, i)
  <2>1. F \in [S -> T]
    BY <1>1, <1>4 DEF UsersUpTo, IsHers
  <2>2. \A a, b \in S : F[a] = F[b] => a = b
    BY <1>1 DEF UsersUpTo
  <2>3. \A u \in T : \E k \in S : F[k] = u
    <3>1. SUFFICES ASSUME NEW u \in T
                   PROVE  \E k \in S : F[k] = u
      OBVIOUS
    <3>2. u \in 1 .. i /\ u # o /\ lines[u].kind = "user"
      BY DEF UsersUpTo, IsHers
    <3> DEFINE k == IF u < o THEN u ELSE u - 1
    <3>3. k \in 1 .. i - 1 /\ fewer[k] = lines[u]
      BY <1>1, <1>4, <3>2
    <3>4. k \in S
      BY <3>2, <3>3 DEF UsersUpTo
    <3>5. F[k] = u
      BY <3>2, <3>4
    <3> QED
      BY <3>4, <3>5
  <2> HIDE DEF F, S, T
  <2>4. F \in Bijection(S, T)
    BY <2>1, <2>2, <2>3, Fun_IsBij
  <2>5. ExistsBijection(S, T)
    BY <2>4, Fun_ExistsBij
  <2>6. IsFiniteSet(S)
    BY <1>1, CountsUsers DEF S
  <2> QED
    BY <2>5, <2>6, FS_Bijection DEF S, T, Before
<1> QED
  BY <1>1, <1>4, <1>5, <1>6 DEF fewer

-----------------------------------------------------------------------------
(* The record, from one event to the next.                                   *)

LEMMA RecordSet ==
  ASSUME NEW t, IsRecord(t), NEW lines, NEW which
  PROVE  /\ [t EXCEPT !.lines = lines] = [lines |-> lines, open |-> t.open]
         /\ [t EXCEPT !.open = which] = [lines |-> t.lines, open |-> which]
<1> DEFINE a == t.lines
           b == t.open
<1>1. t = [lines |-> a, open |-> b]
  BY DEF IsRecord
<1> HIDE DEF a, b
<1>2. /\ [t EXCEPT !.lines = lines] = [lines |-> lines, open |-> b]
      /\ [t EXCEPT !.open = which] = [lines |-> a, open |-> which]
  BY <1>1
<1> QED
  BY <1>2 DEF a, b

LEMMA RecordAppended ==
  ASSUME NEW t, IsRecord(t), NEW line
  PROVE  appended(t, line) = [lines |-> Append(t.lines, line), open |-> t.open]
BY RecordSet, Zenon DEF appended

LEMMA RecordClosed ==
  ASSUME NEW t, IsRecord(t), NEW lines
  PROVE  closed([t EXCEPT !.lines = lines]) = [lines |-> lines, open |-> 0]
<1>1. [t EXCEPT !.lines = lines] = [lines |-> lines, open |-> t.open]
  BY RecordSet
<1>2. [[lines |-> lines, open |-> t.open] EXCEPT !.open = 0] = [lines |-> lines, open |-> 0]
  OBVIOUS
<1> QED
  BY <1>1, <1>2 DEF closed

\* What was asked stays asked.
LEMMA AsksStayBefore ==
  ASSUME NEW t, NEW list, NEW n, RecordOK(t, list, n), NEW more, Len(more) \in Nat,
         Before(t.lines, Len(t.lines)) <= Before(more, Len(more))
  PROVE  \A k \in 1 .. Len(list) : list[k].ask <= Before(more, Len(more))
<1>1. SUFFICES ASSUME NEW k \in 1 .. Len(list)
               PROVE  list[k].ask <= Before(more, Len(more))
  OBVIOUS
<1>2. list[k] \in Answer /\ list[k].ask <= Before(t.lines, Len(t.lines))
  BY DEF RecordOK
<1>3. list[k].ask \in Nat
  BY <1>2 DEF Answer
<1>4. Before(t.lines, Len(t.lines)) \in Nat /\ Before(more, Len(more)) \in Nat
  BY CountsUsers DEF RecordOK
<1> QED
  BY <1>2, <1>3, <1>4

\* An open line is taken away: nobody else's line is touched.
LEMMA OpenRemoved ==
  ASSUME NEW t, NEW list, NEW n, RecordOK(t, list, n), t.open # 0
  PROVE  RecordOK(closed([t EXCEPT !.lines = RemoveAt(@, t.open)]), list, n)
         /\ closed([t EXCEPT !.lines = RemoveAt(@, t.open)]).open = 0
<1> DEFINE o == t.open
           lines == t.lines
           fewer == RemoveAt(lines, o)
           u == [lines |-> fewer, open |-> 0]
<1>1. closed([t EXCEPT !.lines = RemoveAt(@, t.open)]) = u
  BY RecordClosed DEF RecordOK
<1>2. o \in 1 .. Len(lines) /\ lines \in Seq(Line) /\ IsHers(lines[o]) /\ lines[o].id = None
  BY DEF RecordOK, OpenOK
<1>3. /\ fewer \in Seq(Line) /\ Len(lines) \in Nat /\ Len(fewer) = Len(lines) - 1
      /\ \A k \in 1 .. Len(lines) - 1 : fewer[k] = IF k < o THEN lines[k] ELSE lines[k + 1]
      /\ \A i \in 0 .. o - 1 : Before(fewer, i) = Before(lines, i)
      /\ \A i \in o .. Len(lines) : Before(fewer, i - 1) = Before(lines, i)
  BY <1>2, LineRemoved
<1> HIDE DEF fewer
<1> DEFINE Old(k) == IF k < o THEN k ELSE k + 1
<1>4. \A k \in 1 .. Len(fewer) :
        /\ Old(k) \in 1 .. Len(lines) /\ Old(k) # o
        /\ fewer[k] = lines[Old(k)]
        /\ Before(fewer, k) = Before(lines, Old(k))
  <2>1. SUFFICES ASSUME NEW k \in 1 .. Len(fewer)
                 PROVE  /\ Old(k) \in 1 .. Len(lines) /\ Old(k) # o
                        /\ fewer[k] = lines[Old(k)]
                        /\ Before(fewer, k) = Before(lines, Old(k))
    OBVIOUS
  <2>2. CASE k < o
    BY <1>2, <1>3, <2>2
  <2>3. CASE ~(k < o)
    <3>1. k + 1 \in o .. Len(lines) /\ k = (k + 1) - 1
      BY <1>2, <1>3, <2>3
    <3> QED
      BY <1>2, <1>3, <2>3, <3>1
  <2> QED
    BY <2>2, <2>3
<1>5. \A i, j \in 1 .. Len(fewer) : Old(i) = Old(j) => i = j
  BY <1>2, <1>3
<1>6. Before(fewer, Len(fewer)) = Before(lines, Len(lines))
  BY <1>2, <1>3
<1>7. \A m : m # None => ((\E i \in 1 .. Len(fewer) : IsLineOf(fewer[i], m))
                            <=> \E i \in 1 .. Len(lines) : IsLineOf(lines[i], m))
  <2>1. ASSUME NEW m, m # None, NEW i \in 1 .. Len(lines), IsLineOf(lines[i], m)
        PROVE  \E k \in 1 .. Len(fewer) : IsLineOf(fewer[k], m)
    <3>1. i # o
      BY <1>2, <2>1 DEF IsLineOf
    <3> DEFINE k == IF i < o THEN i ELSE i - 1
    <3>2. k \in 1 .. Len(fewer) /\ Old(k) = i
      BY <1>2, <1>3, <3>1
    <3> QED
      BY <1>4, <2>1, <3>2
  <2> QED
    BY <1>4, <2>1
<1> HIDE DEF Old
<1>8. \A i \in 1 .. Len(fewer) : SettledOK(fewer, i, list)
  BY <1>4 DEF RecordOK, SettledOK
<1>9. \A i, j \in 1 .. Len(fewer) :
        IsHers(fewer[i]) /\ fewer[i].id # None /\ IsLineOf(fewer[j], fewer[i].id) => i = j
  BY <1>4, <1>5 DEF RecordOK
<1>10. \A k \in 1 .. Len(list) :
         /\ list[k].ask <= Before(fewer, Len(fewer))
         /\ list[k].messages <= IF k = n THEN 0 ELSE 1
         /\ (\E i \in 1 .. Len(fewer) : IsLineOf(fewer[i], k)) <=> k # n /\ list[k].shown
  <2>1. SUFFICES ASSUME NEW k \in 1 .. Len(list)
                 PROVE  /\ list[k].ask <= Before(fewer, Len(fewer))
                        /\ list[k].messages <= IF k = n THEN 0 ELSE 1
                        /\ (\E i \in 1 .. Len(fewer) : IsLineOf(fewer[i], k))
                             <=> k # n /\ list[k].shown
    OBVIOUS
  <2>2. /\ list[k].ask <= Before(lines, Len(lines))
        /\ list[k].messages <= IF k = n THEN 0 ELSE 1
        /\ (\E i \in 1 .. Len(lines) : IsLineOf(lines[i], k)) <=> k # n /\ list[k].shown
    BY DEF RecordOK
  <2>3. k # None
    BY DEF None
  <2>4. (\E i \in 1 .. Len(fewer) : IsLineOf(fewer[i], k))
          <=> \E i \in 1 .. Len(lines) : IsLineOf(lines[i], k)
    BY <1>7, <2>3
  <2> QED
    BY <1>6, <2>2, <2>4
<1>11. u.lines = fewer /\ u.open = 0 /\ IsRecord(u)
  BY DEF IsRecord
<1> HIDE DEF u
<1>12. RecordOK(u, list, n)
  <2>1. u.open \in 0 .. Len(fewer) /\ OpenOK(u, list, n)
    BY <1>3, <1>11 DEF OpenOK
  <2>2. list \in Seq(Answer) /\ n \in 0 .. Len(list)
    BY DEF RecordOK
  <2> QED
    BY <1>3, <1>8, <1>9, <1>10, <1>11, <2>1, <2>2 DEF RecordOK
<1> QED
  BY <1>1, <1>11, <1>12

\* state.changed.
LEMMA StateChangeRecords ==
  ASSUME NEW t, NEW list, NEW n, RecordOK(t, list, n), NEW to
  PROVE  /\ RecordOK(onStateChanged(t, to), list, n)
         /\ Streams(t) => Streams(onStateChanged(t, to))
<1>1. CASE to \in {"listening", "idle"} /\ openStatus(t) = "streaming"
  <2>1. t.open # 0
    BY <1>1 DEF openStatus
  <2> QED
    BY <1>1, <2>1, OpenRemoved DEF onStateChanged, Streams
<1>2. CASE ~(to \in {"listening", "idle"} /\ openStatus(t) = "streaming")
  BY <1>2 DEF onStateChanged
<1> QED
  BY <1>1, <1>2

\* The person writes, or is heard.
LEMMA UserRecords ==
  ASSUME NEW t, NEW list, NEW n, RecordOK(t, list, n), NEW ask \in Nat
  PROVE  /\ RecordOK(appended(t, UserLine(ask)), list, n)
         /\ Streams(t) => Streams(appended(t, UserLine(ask)))
<1> DEFINE lines == t.lines
           line == UserLine(ask)
           more == Append(lines, line)
           u == [lines |-> more, open |-> t.open]
<1>1. appended(t, UserLine(ask)) = u
  BY RecordAppended DEF RecordOK
<1>2. line \in Line /\ ~IsHers(line)
  BY DEF UserLine, Line, IsHers
<1> HIDE DEF line
<1>3. /\ more \in Seq(Line) /\ Len(lines) \in Nat /\ Len(more) = Len(lines) + 1
      /\ \A k \in 1 .. Len(lines) : more[k] = lines[k]
      /\ more[Len(lines) + 1] = line
      /\ \A i \in 0 .. Len(lines) : Before(more, i) = Before(lines, i)
      /\ Before(lines, Len(lines)) <= Before(more, Len(lines) + 1)
  BY <1>2, LineAdded DEF RecordOK
<1> HIDE DEF more
<1>4. u.lines = more /\ u.open = t.open /\ IsRecord(u)
  BY DEF IsRecord
<1> HIDE DEF u
<1>5. \A i \in 1 .. Len(more) : IsHers(more[i]) => i \in 1 .. Len(lines)
  BY <1>2, <1>3
<1>6. \A i \in 1 .. Len(more) : i # t.open => SettledOK(more, i, list)
  BY <1>3, <1>5 DEF RecordOK, SettledOK
<1>7. OpenOK(u, list, n) /\ t.open \in 0 .. Len(more)
  BY <1>3, <1>4 DEF RecordOK, OpenOK
<1>8. \A i, j \in 1 .. Len(more) :
        IsHers(more[i]) /\ more[i].id # None /\ IsLineOf(more[j], more[i].id) => i = j
  BY <1>3, <1>5 DEF RecordOK, IsLineOf
<1>9. \A k \in 1 .. Len(list) :
         /\ list[k].ask <= Before(more, Len(more))
         /\ list[k].messages <= IF k = n THEN 0 ELSE 1
         /\ (\E i \in 1 .. Len(more) : IsLineOf(more[i], k)) <=> k # n /\ list[k].shown
  <2>1. \A k \in 1 .. Len(list) : list[k].ask <= Before(more, Len(more))
    BY <1>3, AsksStayBefore
  <2>2. \A k : (\E i \in 1 .. Len(more) : IsLineOf(more[i], k))
                 <=> \E i \in 1 .. Len(lines) : IsLineOf(lines[i], k)
    BY <1>3, <1>5 DEF IsLineOf
  <2> QED
    BY <2>1, <2>2 DEF RecordOK
<1>10. RecordOK(u, list, n)
  BY <1>3, <1>4, <1>6, <1>7, <1>8, <1>9 DEF RecordOK
<1>11. Streams(t) => Streams(u)
  BY <1>3, <1>4 DEF Streams, RecordOK
<1> QED
  BY <1>1, <1>10, <1>11

\* A line of hers is added as the open one.
LEMMA OpenAdded ==
  ASSUME NEW t, NEW list, NEW n, RecordOK(t, list, n), NEW m,
         m = None \/ (m = n /\ list[n].shown),
         t.open # 0 => t.lines[t.open].status # "streaming" /\ None \in t.lines[t.open].of
  PROVE  LET u == [lines |-> Append(t.lines, HerLine(0, {m}, "streaming")),
                   open |-> Len(t.lines) + 1] IN
           RecordOK(u, list, n) /\ Streams(u)
<1> DEFINE lines == t.lines
           line == HerLine(0, {m}, "streaming")
           more == Append(lines, line)
           u == [lines |-> more, open |-> Len(lines) + 1]
<1>1. m \in 0 .. Len(list) /\ Len(list) \in Nat /\ n \in 0 .. Len(list)
  BY DEF RecordOK, None
<1>2. /\ line \in Line /\ IsHers(line) /\ line.id = None /\ line.of = {m}
      /\ line.status = "streaming"
  BY <1>1 DEF HerLine, Line, IsHers, None
<1> HIDE DEF line
<1>3. /\ more \in Seq(Line) /\ Len(lines) \in Nat /\ Len(more) = Len(lines) + 1
      /\ \A k \in 1 .. Len(lines) : more[k] = lines[k]
      /\ more[Len(lines) + 1] = line
      /\ \A i \in 0 .. Len(lines) : Before(more, i) = Before(lines, i)
      /\ Before(lines, Len(lines)) <= Before(more, Len(lines) + 1)
  BY <1>2, LineAdded DEF RecordOK
<1> HIDE DEF more
<1>4. u.lines = more /\ u.open = Len(lines) + 1 /\ IsRecord(u)
  BY DEF IsRecord
<1> HIDE DEF u
<1>5. \A k \in 1 .. Len(list) : list[k].ask <= Before(more, Len(more))
  BY <1>3, AsksStayBefore DEF RecordOK
<1>6. \A i \in 1 .. Len(more) : i # u.open => SettledOK(more, i, list)
  <2>1. SUFFICES ASSUME NEW i \in 1 .. Len(lines)
                 PROVE  SettledOK(more, i, list)
    BY <1>3, <1>4
  <2>2. CASE i = t.open
    <3>1. /\ IsHers(lines[i]) /\ lines[i].id = None /\ lines[i].status # "streaming"
          /\ None \in lines[i].of
      BY <2>2 DEF RecordOK, OpenOK
    <3> QED
      BY <1>1, <1>3, <3>1 DEF SettledOK, None
  <2>3. CASE i # t.open
    BY <1>3, <2>3 DEF RecordOK, SettledOK
  <2> QED
    BY <2>2, <2>3
<1>7. u.open \in 0 .. Len(more) /\ OpenOK(u, list, n)
  <2>1. None \notin {m} => m # None /\ m = n /\ list[n].shown
    OBVIOUS
  <2>2. m # None => list[m].ask <= Before(more, Len(more))
    BY <1>1, <1>5 DEF None
  <2>3. m # None => Before(more, Len(more)) >= list[m].ask
    <3>1. m # None => list[m] \in Answer
      BY <1>1 DEF RecordOK, None
    <3>2. Before(more, Len(more)) \in Nat
      BY <1>3, CountsUsers
    <3> QED
      BY <2>2, <3>1, <3>2 DEF Answer
  <2> QED
    BY <1>2, <1>3, <1>4, <2>1, <2>3 DEF OpenOK
<1>8. \A i, j \in 1 .. Len(more) :
        IsHers(more[i]) /\ more[i].id # None /\ IsLineOf(more[j], more[i].id) => i = j
  <2>1. SUFFICES ASSUME NEW i \in 1 .. Len(more), NEW j \in 1 .. Len(more), IsHers(more[i]),
                        more[i].id # None, IsLineOf(more[j], more[i].id)
                 PROVE  i = j
    OBVIOUS
  <2>2. i \in 1 .. Len(lines) /\ j \in 1 .. Len(lines)
    BY <1>2, <1>3, <2>1 DEF IsLineOf
  <2> QED
    BY <1>3, <2>1, <2>2 DEF RecordOK
<1>9. \A k \in 1 .. Len(list) :
         /\ list[k].ask <= Before(more, Len(more))
         /\ list[k].messages <= IF k = n THEN 0 ELSE 1
         /\ (\E i \in 1 .. Len(more) : IsLineOf(more[i], k)) <=> k # n /\ list[k].shown
  <2>1. \A k : k # None => ((\E i \in 1 .. Len(more) : IsLineOf(more[i], k))
                               <=> \E i \in 1 .. Len(lines) : IsLineOf(lines[i], k))
    BY <1>2, <1>3 DEF IsLineOf
  <2>2. \A k \in 1 .. Len(list) : k # None
    BY DEF None
  <2> QED
    BY <1>5, <2>1, <2>2 DEF RecordOK
<1>10. RecordOK(u, list, n)
  BY <1>1, <1>3, <1>4, <1>6, <1>7, <1>8, <1>9 DEF RecordOK
<1>11. Streams(u)
  BY <1>2, <1>3, <1>4 DEF Streams
<1> QED
  BY <1>10, <1>11 DEF u, more, line

\* The open line is another: of whom it is in it may grow, or it may be cut.
LEMMA OpenChanged ==
  ASSUME NEW t, NEW list, NEW n, RecordOK(t, list, n), t.open # 0, NEW line \in Line,
         IsHers(line), line.id = None,
         \/ line.of = t.lines[t.open].of
         \/ None \in line.of
         \/ line.of = t.lines[t.open].of \union {n} /\ None \notin t.lines[t.open].of
  PROVE  LET u == [lines |-> [t.lines EXCEPT ![t.open] = line], open |-> t.open] IN
           RecordOK(u, list, n) /\ u.open = t.open /\ u.lines[t.open] = line
<1> DEFINE lines == t.lines
           o == t.open
           other == [lines EXCEPT ![o] = line]
           u == [lines |-> other, open |-> o]
<1>1. lines \in Seq(Line) /\ o \in 1 .. Len(lines) /\ IsHers(lines[o]) /\ lines[o].id = None
  BY DEF RecordOK, OpenOK
<1>2. /\ other \in Seq(Line) /\ Len(lines) \in Nat /\ Len(other) = Len(lines)
      /\ \A k \in 1 .. Len(lines) : other[k] = IF k = o THEN line ELSE lines[k]
      /\ \A i \in 0 .. Len(lines) : Before(other, i) = Before(lines, i)
  BY <1>1, LineChanged
<1> HIDE DEF other
<1>3. u.lines = other /\ u.open = o /\ IsRecord(u)
  BY DEF IsRecord
<1> HIDE DEF u
<1>4. \A i \in 1 .. Len(other) : i # o => SettledOK(other, i, list)
  BY <1>2 DEF RecordOK, SettledOK
<1>5. OpenOK(u, list, n)
  BY <1>1, <1>2, <1>3 DEF RecordOK, OpenOK
<1>6. \A i, j \in 1 .. Len(other) :
        IsHers(other[i]) /\ other[i].id # None /\ IsLineOf(other[j], other[i].id) => i = j
  BY <1>1, <1>2 DEF RecordOK, IsLineOf
<1>7. \A k \in 1 .. Len(list) :
         /\ list[k].ask <= Before(other, Len(other))
         /\ list[k].messages <= IF k = n THEN 0 ELSE 1
         /\ (\E i \in 1 .. Len(other) : IsLineOf(other[i], k)) <=> k # n /\ list[k].shown
  <2>1. \A k : k # None => ((\E i \in 1 .. Len(other) : IsLineOf(other[i], k))
                               <=> \E i \in 1 .. Len(lines) : IsLineOf(lines[i], k))
    BY <1>1, <1>2 DEF IsLineOf
  <2>2. \A k \in 1 .. Len(list) : k # None
    BY DEF None
  <2>3. Before(other, Len(other)) = Before(lines, Len(lines))
    BY <1>2
  <2> QED
    BY <2>1, <2>2, <2>3 DEF RecordOK
<1>8. RecordOK(u, list, n)
  <2>1. list \in Seq(Answer) /\ n \in 0 .. Len(list) /\ o \in 0 .. Len(other)
    BY <1>1, <1>2 DEF RecordOK
  <2> QED
    BY <1>2, <1>3, <1>4, <1>5, <1>6, <1>7, <2>1 DEF RecordOK
<1> QED
  BY <1>1, <1>2, <1>3, <1>8 DEF u, other

\* A token: the open line goes on, or there is one.
LEMMA TokenRecords ==
  ASSUME NEW t, NEW list, NEW n, RecordOK(t, list, n), Streams(t), NEW m,
         m = None \/ (m = n /\ list[n].shown)
  PROVE  RecordOK(onToken(t, m), list, n) /\ Streams(onToken(t, m))
<1>1. IsRecord(t) /\ t.lines \in Seq(Line) /\ t.open \in 0 .. Len(t.lines) /\ Len(t.lines) \in Nat
  BY DEF RecordOK
<1>2. CASE openStatus(t) = "streaming"
  <2> DEFINE o == t.open
             old == t.lines[o]
             line == [old EXCEPT !.of = @ \union {m}]
             lines == [t.lines EXCEPT ![o] = line]
             u == [lines |-> lines, open |-> o]
  <2>1. o # 0 /\ old.status = "streaming"
    BY <1>2 DEF openStatus
  <2>2. o \in 1 .. Len(t.lines) /\ old \in Line /\ IsHers(old) /\ old.id = None
    BY <1>1, <2>1 DEF RecordOK, OpenOK
  <2>3. m \in Nat
    BY DEF RecordOK, None
  <2>4. /\ line \in Line /\ IsHers(line) /\ line.id = None /\ line.of = old.of \union {m}
        /\ line.status = "streaming"
    BY <2>1, <2>2, <2>3 DEF Line, IsHers
  <2>5. onToken(t, m) = [t EXCEPT !.lines = lines]
    BY <1>2 DEF onToken
  <2>6. onToken(t, m) = u
    BY <1>1, <2>5, RecordSet, Zenon
  <2> HIDE DEF line, old
  <2>7. \/ None \in line.of
        \/ line.of = old.of \union {n} /\ None \notin old.of
    BY <2>4
  <2>8. RecordOK(u, list, n) /\ u.open = o /\ u.lines[o] = line
    BY <2>1, <2>4, <2>7, OpenChanged DEF old
  <2> HIDE DEF u
  <2>9. Streams(u)
    BY <2>4, <2>8 DEF Streams
  <2> QED
    BY <2>6, <2>8, <2>9
<1>3. CASE openStatus(t) # "streaming"
  <2> DEFINE line == HerLine(0, {m}, "streaming")
             u == [lines |-> Append(t.lines, line), open |-> Len(t.lines) + 1]
  <2>1. onToken(t, m) = [appended(t, line) EXCEPT !.open = Len(t.lines) + 1]
    BY <1>3 DEF onToken
  <2>2. appended(t, line) = [lines |-> Append(t.lines, line), open |-> t.open]
    BY <1>1, RecordAppended
  <2> HIDE DEF line
  <2> DEFINE a == Append(t.lines, line)
             b == t.open
             c == Len(t.lines) + 1
  <2>3. onToken(t, m) = u
    <3>1. appended(t, line) = [lines |-> a, open |-> b]
      BY <2>2
    <3> HIDE DEF a, b, c
    <3>2. [[lines |-> a, open |-> b] EXCEPT !.open = c] = [lines |-> a, open |-> c]
      OBVIOUS
    <3>3. onToken(t, m) = [[lines |-> a, open |-> b] EXCEPT !.open = c]
      BY <2>1, <3>1 DEF c
    <3> QED
      BY <3>2, <3>3 DEF a, c
  <2>4. t.open # 0 => t.lines[t.open].status # "streaming" /\ None \in t.lines[t.open].of
    BY <1>3 DEF openStatus, Streams
  <2> QED
    BY <2>3, <2>4, OpenAdded DEF line
<1> QED
  BY <1>2, <1>3

\* A cut: the open line goes no further.
LEMMA CutRecords ==
  ASSUME NEW t, NEW list, NEW n, RecordOK(t, list, n)
  PROVE  /\ RecordOK(onInterrupted(t), list, n)
         /\ n = None => Streams(onInterrupted(t))
<1>1. CASE t.open = 0
  BY <1>1 DEF onInterrupted, Streams
<1>2. CASE t.open # 0
  <2> DEFINE o == t.open
             old == t.lines[o]
             line == [old EXCEPT !.status = "interrupted"]
             lines == [t.lines EXCEPT ![o] = line]
             u == [lines |-> lines, open |-> o]
  <2>1. o \in 1 .. Len(t.lines) /\ old \in Line /\ IsHers(old) /\ old.id = None
    BY <1>2 DEF RecordOK, OpenOK
  <2>2. line \in Line /\ IsHers(line) /\ line.id = None /\ line.of = old.of
    BY <2>1 DEF Line, IsHers
  <2>3. onInterrupted(t) = [t EXCEPT !.lines = lines]
    BY <1>2 DEF onInterrupted
  <2>4. onInterrupted(t) = u
    BY <2>3, RecordSet, Zenon DEF RecordOK
  <2> HIDE DEF line, old
  <2>5. RecordOK(u, list, n) /\ u.open = o /\ u.lines[o] = line
    BY <1>2, <2>2, OpenChanged DEF old
  <2> HIDE DEF u
  <2>6. n = None => Streams(u)
    BY <2>5 DEF RecordOK, OpenOK, Streams
  <2> QED
    BY <2>4, <2>5, <2>6
<1> QED
  BY <1>1, <1>2

\* The answers as they are once n has its message.
Told(list, list2) ==
  /\ list2 \in Seq(Answer) /\ Len(list2) = Len(list)
  /\ \A k \in 1 .. Len(list) :
       list2[k].ask = list[k].ask /\ list2[k].shown = list[k].shown /\ list2[k].messages <= 1

\* The answers as they are have a message each at most.
LEMMA ToldAsIs ==
  ASSUME NEW t, NEW list, NEW n, RecordOK(t, list, n)
  PROVE  Told(list, list)
<1>1. \A k \in 1 .. Len(list) :
        list[k].messages \in Nat /\ list[k].messages <= IF k = n THEN 0 ELSE 1
  <2>1. SUFFICES ASSUME NEW k \in 1 .. Len(list)
                 PROVE  list[k].messages \in Nat
                        /\ list[k].messages <= IF k = n THEN 0 ELSE 1
    OBVIOUS
  <2>2. list[k] \in Answer /\ list[k].messages <= IF k = n THEN 0 ELSE 1
    BY DEF RecordOK
  <2> QED
    BY <2>2 DEF Answer
<1>2. list \in Seq(Answer)
  BY DEF RecordOK
<1> QED
  BY <1>1, <1>2 DEF Told

\* An answer that showed no word is over, and has no line.
LEMMA WordlessRecords ==
  ASSUME NEW t, NEW list, NEW n, RecordOK(t, list, n), NEW list2, Told(list, list2),
         n = None \/ ~list[n].shown
  PROVE  RecordOK(t, list2, None) /\ (t.open # 0 => None \in t.lines[t.open].of)
<1>1. t.open # 0 => None \in t.lines[t.open].of
  BY DEF RecordOK, OpenOK
<1>2. Len(list) \in Nat /\ None \in 0 .. Len(list2) /\ list2 \in Seq(Answer)
  BY DEF RecordOK, Told, None
<1>3. OpenOK(t, list2, None)
  BY <1>1 DEF RecordOK, OpenOK
<1>4. \A i \in 1 .. Len(t.lines) : i # t.open => SettledOK(t.lines, i, list2)
  <2>1. SUFFICES ASSUME NEW i \in 1 .. Len(t.lines), SettledOK(t.lines, i, list)
                 PROVE  SettledOK(t.lines, i, list2)
    BY DEF RecordOK
  <2>2. t.lines[i].id \in 0 .. Len(list) /\ None \notin t.lines[i].of
          /\ t.lines[i].of = {t.lines[i].id} => t.lines[i].id \in 1 .. Len(list)
    BY <1>2 DEF None
  <2> QED
    BY <2>1, <2>2 DEF SettledOK, Told
<1>5. \A k \in 1 .. Len(list2) :
         /\ list2[k].ask <= Before(t.lines, Len(t.lines))
         /\ list2[k].messages <= IF k = None THEN 0 ELSE 1
         /\ (\E i \in 1 .. Len(t.lines) : IsLineOf(t.lines[i], k))
              <=> k # None /\ list2[k].shown
  <2>1. \A k \in 1 .. Len(list) : k # None
    BY DEF None
  <2> QED
    BY <2>1 DEF RecordOK, Told
<1> QED
  BY <1>1, <1>2, <1>3, <1>4, <1>5 DEF RecordOK

\* What is settled stays settled while the lines and the answers change elsewhere.
LEMMA SettledStays ==
  ASSUME NEW lines, NEW more, NEW list, NEW list2, Told(list, list2), Len(list) \in Nat,
         NEW i, more[i] = lines[i], Before(more, i) = Before(lines, i),
         SettledOK(lines, i, list)
  PROVE  SettledOK(more, i, list2)
<1>1. lines[i].id \in 0 .. Len(list) /\ None \notin lines[i].of
        /\ lines[i].of = {lines[i].id} => lines[i].id \in 1 .. Len(list)
  BY DEF None
<1> QED
  BY <1>1 DEF SettledOK, Told

\* The open line is settled as answer n's.
LEMMA OpenSettles ==
  ASSUME NEW t, NEW list, NEW n, RecordOK(t, list, n), t.open # 0,
         NEW list2, Told(list, list2), n = None \/ list[n].shown,
         NEW status \in {"complete", "interrupted"}
  PROVE  RecordOK([lines |-> [t.lines EXCEPT ![t.open] =
                               HerLine(n, t.lines[t.open].of, status)], open |-> 0], list2, None)
<1> DEFINE lines == t.lines
           o == t.open
           line == HerLine(n, lines[o].of, status)
           other == [lines EXCEPT ![o] = line]
           u == [lines |-> other, open |-> 0]
<1>1. lines \in Seq(Line) /\ o \in 1 .. Len(lines) /\ IsHers(lines[o]) /\ lines[o].id = None
      /\ lines[o] \in Line
  BY DEF RecordOK, OpenOK
<1>2. Len(list) \in Nat /\ n \in 0 .. Len(list)
  BY DEF RecordOK
<1>3. /\ line \in Line /\ IsHers(line) /\ line.id = n /\ line.of = lines[o].of
      /\ line.status # "streaming"
  BY <1>1, <1>2 DEF HerLine, Line, IsHers
<1> HIDE DEF line
<1>4. /\ other \in Seq(Line) /\ Len(lines) \in Nat /\ Len(other) = Len(lines)
      /\ \A k \in 1 .. Len(lines) : other[k] = IF k = o THEN line ELSE lines[k]
      /\ \A i \in 0 .. Len(lines) : Before(other, i) = Before(lines, i)
  BY <1>1, <1>3, LineChanged
<1> HIDE DEF other
<1>5. u.lines = other /\ u.open = 0 /\ IsRecord(u)
  BY DEF IsRecord
<1> HIDE DEF u
<1>6. SettledOK(other, o, list2)
  <2>1. None \notin line.of =>
          n \in 1 .. Len(list) /\ line.of = {n} /\ Before(lines, o) >= list[n].ask
    BY <1>1, <1>2, <1>3 DEF RecordOK, OpenOK, None
  <2> QED
    BY <1>1, <1>2, <1>3, <1>4, <2>1 DEF SettledOK, Told
<1>7. \A i \in 1 .. Len(other) : SettledOK(other, i, list2)
  <2>1. SUFFICES ASSUME NEW i \in 1 .. Len(lines), i # o
                 PROVE  SettledOK(other, i, list2)
    BY <1>4, <1>6
  <2>2. SettledOK(lines, i, list) /\ other[i] = lines[i] /\ Before(other, i) = Before(lines, i)
    BY <1>4, <2>1 DEF RecordOK
  <2> QED
    BY <1>2, <2>2, SettledStays
<1>8. \A i \in 1 .. Len(lines) : n # None => ~IsLineOf(lines[i], n)
  BY <1>2 DEF RecordOK, None
<1>9. \A i, j \in 1 .. Len(other) :
        IsHers(other[i]) /\ other[i].id # None /\ IsLineOf(other[j], other[i].id) => i = j
  <2>1. SUFFICES ASSUME NEW i \in 1 .. Len(lines), NEW j \in 1 .. Len(lines), IsHers(other[i]),
                        other[i].id # None, IsLineOf(other[j], other[i].id)
                 PROVE  i = j
    BY <1>4
  <2>2. CASE i = o
    BY <1>3, <1>4, <1>8, <2>1, <2>2 DEF IsLineOf
  <2>3. CASE j = o
    BY <1>3, <1>4, <1>8, <2>1, <2>3 DEF IsLineOf
  <2>4. CASE i # o /\ j # o
    BY <1>4, <2>1, <2>4 DEF RecordOK
  <2> QED
    BY <2>2, <2>3, <2>4
<1>10. \A k \in 1 .. Len(list2) :
         /\ list2[k].ask <= Before(other, Len(other))
         /\ list2[k].messages <= IF k = None THEN 0 ELSE 1
         /\ (\E i \in 1 .. Len(other) : IsLineOf(other[i], k)) <=> k # None /\ list2[k].shown
  <2>1. SUFFICES ASSUME NEW k \in 1 .. Len(list)
                 PROVE  /\ list2[k].ask <= Before(other, Len(other))
                        /\ list2[k].messages <= IF k = None THEN 0 ELSE 1
                        /\ (\E i \in 1 .. Len(other) : IsLineOf(other[i], k))
                             <=> k # None /\ list2[k].shown
    BY DEF Told
  <2>2. k # None
    BY DEF None
  <2>3. list2[k].ask <= Before(other, Len(other)) /\ list2[k].messages <= 1
    BY <1>4 DEF RecordOK, Told
  <2>4. CASE k = n
    <3>1. IsLineOf(other[o], k) /\ o \in 1 .. Len(other)
      BY <1>1, <1>3, <1>4, <2>4 DEF IsLineOf
    <3> QED
      BY <2>2, <2>3, <2>4, <3>1 DEF Told
  <2>5. CASE k # n
    <3>1. (\E i \in 1 .. Len(other) : IsLineOf(other[i], k))
            <=> \E i \in 1 .. Len(lines) : IsLineOf(lines[i], k)
      BY <1>1, <1>3, <1>4, <2>2, <2>5 DEF IsLineOf
    <3> QED
      BY <2>2, <2>3, <2>5, <3>1 DEF RecordOK, Told
  <2> QED
    BY <2>4, <2>5
<1>11. RecordOK(u, list2, None)
  <2>1. u.open \in 0 .. Len(other) /\ OpenOK(u, list2, None) /\ None \in 0 .. Len(list2)
    BY <1>2, <1>4, <1>5 DEF OpenOK, None, Told
  <2>2. list2 \in Seq(Answer)
    BY DEF Told
  <2> QED
    BY <1>4, <1>5, <1>7, <1>9, <1>10, <2>1, <2>2 DEF RecordOK
<1> QED
  BY <1>11 DEF u, other, line

\* Answer n's message is a line of its own.
LEMMA LineSettles ==
  ASSUME NEW t, NEW list, NEW n, RecordOK(t, list, n), t.open = 0,
         NEW list2, Told(list, list2), n = None \/ list[n].shown,
         NEW status \in {"complete", "interrupted"}
  PROVE  RecordOK([lines |-> Append(t.lines, HerLine(n, {n}, status)), open |-> 0],
                  list2, None)
<1> DEFINE lines == t.lines
           line == HerLine(n, {n}, status)
           more == Append(lines, line)
           u == [lines |-> more, open |-> 0]
<1>1. Len(list) \in Nat /\ n \in 0 .. Len(list)
  BY DEF RecordOK
<1>2. /\ line \in Line /\ IsHers(line) /\ line.id = n /\ line.of = {n}
      /\ line.status # "streaming"
  BY <1>1 DEF HerLine, Line, IsHers
<1> HIDE DEF line
<1>3. /\ more \in Seq(Line) /\ Len(lines) \in Nat /\ Len(more) = Len(lines) + 1
      /\ \A k \in 1 .. Len(lines) : more[k] = lines[k]
      /\ more[Len(lines) + 1] = line
      /\ \A i \in 0 .. Len(lines) : Before(more, i) = Before(lines, i)
      /\ Before(lines, Len(lines)) <= Before(more, Len(lines) + 1)
  BY <1>2, LineAdded DEF RecordOK
<1> HIDE DEF more
<1>4. u.lines = more /\ u.open = 0 /\ IsRecord(u)
  BY DEF IsRecord
<1> HIDE DEF u
<1>5. \A k \in 1 .. Len(list) : list[k].ask <= Before(more, Len(more))
  BY <1>3, AsksStayBefore
<1>6. SettledOK(more, Len(more), list2)
  <2>1. None \notin {n} => n \in 1 .. Len(list)
    BY <1>1 DEF None
  <2>2. n \in 1 .. Len(list) => list[n].ask \in Nat
    <3>1. n \in 1 .. Len(list) => list[n] \in Answer
      BY DEF RecordOK
    <3> QED
      BY <3>1 DEF Answer
  <2>3. Before(more, Len(more)) \in Nat
    BY <1>3, CountsUsers
  <2>4. n \in 1 .. Len(list) => Before(more, Len(more)) >= list[n].ask
    BY <1>5, <2>2, <2>3
  <2> QED
    BY <1>1, <1>2, <1>3, <2>1, <2>4 DEF SettledOK, Told
<1>7. \A i \in 1 .. Len(more) : SettledOK(more, i, list2)
  <2>1. SUFFICES ASSUME NEW i \in 1 .. Len(lines)
                 PROVE  SettledOK(more, i, list2)
    BY <1>3, <1>6
  <2>2. SettledOK(lines, i, list) /\ more[i] = lines[i] /\ Before(more, i) = Before(lines, i)
    BY <1>3 DEF RecordOK
  <2> QED
    BY <1>1, <2>2, SettledStays
<1>8. \A i \in 1 .. Len(lines) : n # None => ~IsLineOf(lines[i], n)
  BY <1>1 DEF RecordOK, None
<1>9. \A i, j \in 1 .. Len(more) :
        IsHers(more[i]) /\ more[i].id # None /\ IsLineOf(more[j], more[i].id) => i = j
  <2>1. SUFFICES ASSUME NEW i \in 1 .. Len(more), NEW j \in 1 .. Len(more), IsHers(more[i]),
                        more[i].id # None, IsLineOf(more[j], more[i].id)
                 PROVE  i = j
    OBVIOUS
  <2>2. CASE i = Len(more)
    BY <1>2, <1>3, <1>8, <2>1, <2>2 DEF IsLineOf
  <2>3. CASE j = Len(more)
    BY <1>2, <1>3, <1>8, <2>1, <2>3 DEF IsLineOf
  <2>4. CASE i # Len(more) /\ j # Len(more)
    <3>1. i \in 1 .. Len(lines) /\ j \in 1 .. Len(lines)
      BY <1>3, <2>4
    <3>2. more[i] = lines[i] /\ more[j] = lines[j]
      BY <1>3, <3>1
    <3> QED
      BY <2>1, <3>1, <3>2 DEF RecordOK
  <2> QED
    BY <2>2, <2>3, <2>4
<1>10. \A k \in 1 .. Len(list2) :
         /\ list2[k].ask <= Before(more, Len(more))
         /\ list2[k].messages <= IF k = None THEN 0 ELSE 1
         /\ (\E i \in 1 .. Len(more) : IsLineOf(more[i], k)) <=> k # None /\ list2[k].shown
  <2>1. SUFFICES ASSUME NEW k \in 1 .. Len(list)
                 PROVE  /\ list2[k].ask <= Before(more, Len(more))
                        /\ list2[k].messages <= IF k = None THEN 0 ELSE 1
                        /\ (\E i \in 1 .. Len(more) : IsLineOf(more[i], k))
                             <=> k # None /\ list2[k].shown
    BY DEF Told
  <2>2. k # None
    BY DEF None
  <2>3. list2[k].ask <= Before(more, Len(more)) /\ list2[k].messages <= 1
    BY <1>5 DEF Told
  <2>4. CASE k = n
    <3>1. IsLineOf(more[Len(more)], k) /\ Len(more) \in 1 .. Len(more)
      BY <1>2, <1>3, <2>4 DEF IsLineOf
    <3> QED
      BY <2>2, <2>3, <2>4, <3>1 DEF Told
  <2>5. CASE k # n
    <3>1. (\E i \in 1 .. Len(more) : IsLineOf(more[i], k))
            <=> \E i \in 1 .. Len(lines) : IsLineOf(lines[i], k)
      <4>1. ~IsLineOf(more[Len(lines) + 1], k)
        BY <1>2, <1>3, <2>5 DEF IsLineOf
      <4>2. \A i \in 1 .. Len(more) : i = Len(lines) + 1 \/ i \in 1 .. Len(lines)
        BY <1>3
      <4>3. \A i \in 1 .. Len(lines) : i \in 1 .. Len(more) /\ more[i] = lines[i]
        BY <1>3
      <4> QED
        BY <4>1, <4>2, <4>3
    <3> QED
      BY <2>2, <2>3, <2>5, <3>1 DEF RecordOK, Told
  <2> QED
    BY <2>4, <2>5
<1>11. RecordOK(u, list2, None)
  <2>1. u.open \in 0 .. Len(more) /\ OpenOK(u, list2, None) /\ None \in 0 .. Len(list2)
    BY <1>1, <1>3, <1>4 DEF OpenOK, None, Told
  <2>2. list2 \in Seq(Answer)
    BY DEF Told
  <2> QED
    BY <1>3, <1>4, <1>7, <1>9, <1>10, <2>1, <2>2 DEF RecordOK
<1> QED
  BY <1>11 DEF u, more, line

\* A message settles the record.
LEMMA MessageRecords ==
  ASSUME NEW t, NEW list, NEW n, RecordOK(t, list, n), NEW list2, Told(list, list2),
         NEW words \in BOOLEAN, n = None \/ words = list[n].shown,
         NEW status \in {"complete", "interrupted"}
  PROVE  RecordOK(onMessage(t, n, words, status), list2, None)
         /\ Streams(onMessage(t, n, words, status))
<1>1. IsRecord(t)
  BY DEF RecordOK
<1>2. CASE ~words /\ t.open = 0
  <2>1. onMessage(t, n, words, status) = t
    BY <1>2 DEF onMessage
  <2>2. RecordOK(t, list2, None)
    BY <1>2, WordlessRecords
  <2> QED
    BY <1>2, <2>1, <2>2 DEF Streams
<1>3. CASE ~words /\ t.open # 0
  <2> DEFINE u == closed([t EXCEPT !.lines = RemoveAt(@, t.open)])
  <2>1. onMessage(t, n, words, status) = u
    BY <1>3 DEF onMessage
  <2>2. RecordOK(u, list, n) /\ u.open = 0
    BY <1>3, OpenRemoved
  <2> HIDE DEF u
  <2>3. RecordOK(u, list2, None)
    BY <1>3, <2>2, WordlessRecords
  <2> QED
    BY <2>1, <2>2, <2>3 DEF Streams
<1>4. CASE words /\ t.open # 0
  <2> DEFINE line == HerLine(n, t.lines[t.open].of, status)
             other == [t.lines EXCEPT ![t.open] = line]
             u == [lines |-> other, open |-> 0]
  <2>1. onMessage(t, n, words, status) = closed([t EXCEPT !.lines = other])
    BY <1>4 DEF onMessage
  <2>2. RecordOK(u, list2, None)
    BY <1>4, OpenSettles
  <2> HIDE DEF other
  <2>3. closed([t EXCEPT !.lines = other]) = u
    BY <1>1, RecordClosed
  <2>4. u.open = 0
    OBVIOUS
  <2> HIDE DEF u
  <2> QED
    BY <2>1, <2>2, <2>3, <2>4 DEF Streams
<1>5. CASE words /\ t.open = 0
  <2> DEFINE line == HerLine(n, {n}, status)
             more == Append(t.lines, line)
             u == [lines |-> more, open |-> 0]
  <2>1. onMessage(t, n, words, status) = appended(t, line)
    BY <1>5 DEF onMessage
  <2>2. RecordOK(u, list2, None)
    BY <1>5, LineSettles
  <2> HIDE DEF line
  <2>3. appended(t, line) = u
    BY <1>1, <1>5, RecordAppended
  <2>4. u.open = 0
    OBVIOUS
  <2> HIDE DEF u
  <2> QED
    BY <2>1, <2>2, <2>3, <2>4 DEF Streams
<1> QED
  BY <1>2, <1>3, <1>4, <1>5

\* The answers may change in what the record does not hold, and the one that
\* streams may have shown words.
LEMMA AnswersRecord ==
  ASSUME NEW t, NEW list, NEW n, RecordOK(t, list, n), NEW list2 \in Seq(Answer),
         Len(list2) = Len(list),
         \A k \in 1 .. Len(list) :
           /\ list2[k].ask = list[k].ask /\ list2[k].messages = list[k].messages
           /\ k # n => list2[k].shown = list[k].shown
           /\ list[k].shown => list2[k].shown
  PROVE  RecordOK(t, list2, n)
<1>1. Len(list) \in Nat /\ n \in 0 .. Len(list2)
  BY DEF RecordOK
<1>2. \A i \in 1 .. Len(t.lines) : i # t.open => SettledOK(t.lines, i, list2)
  <2>1. SUFFICES ASSUME NEW i \in 1 .. Len(t.lines), SettledOK(t.lines, i, list)
                 PROVE  SettledOK(t.lines, i, list2)
    BY DEF RecordOK
  <2>2. t.lines[i].id \in 0 .. Len(list) /\ None \notin t.lines[i].of
          /\ t.lines[i].of = {t.lines[i].id} => t.lines[i].id \in 1 .. Len(list)
    BY <1>1 DEF None
  <2> QED
    BY <2>1, <2>2 DEF SettledOK
<1>3. OpenOK(t, list2, n)
  <2>1. n # None => n \in 1 .. Len(list)
    BY <1>1 DEF None
  <2> QED
    BY <2>1 DEF RecordOK, OpenOK
<1>4. \A k \in 1 .. Len(list2) :
        /\ list2[k].ask <= Before(t.lines, Len(t.lines))
        /\ list2[k].messages <= IF k = n THEN 0 ELSE 1
        /\ (\E i \in 1 .. Len(t.lines) : IsLineOf(t.lines[i], k)) <=> k # n /\ list2[k].shown
  BY DEF RecordOK
<1> QED
  BY <1>1, <1>2, <1>3, <1>4 DEF RecordOK

\* A new answer has no line.
LEMMA AnswerRecords ==
  ASSUME NEW t, NEW list, RecordOK(t, list, None), NEW one \in Answer,
         ~one.shown, one.messages = 0, one.ask <= Before(t.lines, Len(t.lines))
  PROVE  RecordOK(t, Append(list, one), Len(list) + 1)
<1> DEFINE list2 == Append(list, one)
           n == Len(list) + 1
<1>1. /\ list2 \in Seq(Answer) /\ Len(list2) = n /\ Len(list) \in Nat
      /\ \A k \in 1 .. Len(list) : list2[k] = list[k]
      /\ list2[n] = one
  BY DEF RecordOK
<1> HIDE DEF list2
<1>2. \A i \in 1 .. Len(t.lines) : i # t.open => SettledOK(t.lines, i, list2)
  <2>1. SUFFICES ASSUME NEW i \in 1 .. Len(t.lines), SettledOK(t.lines, i, list)
                 PROVE  SettledOK(t.lines, i, list2)
    BY DEF RecordOK
  <2>2. t.lines[i].id \in 0 .. Len(list) /\ None \notin t.lines[i].of
          /\ t.lines[i].of = {t.lines[i].id} => t.lines[i].id \in 1 .. Len(list)
    BY <1>1 DEF None
  <2>3. t.lines[i].id \in 0 .. Len(list) => t.lines[i].id \in 0 .. Len(list2)
    BY <1>1
  <2> QED
    BY <1>1, <2>1, <2>2, <2>3 DEF SettledOK
<1>3. OpenOK(t, list2, n)
  BY DEF RecordOK, OpenOK
<1>4. \A i \in 1 .. Len(t.lines) : ~IsLineOf(t.lines[i], n)
  <2>1. SUFFICES ASSUME NEW i \in 1 .. Len(t.lines), IsHers(t.lines[i]), t.lines[i].id = n
                 PROVE  FALSE
    BY DEF IsLineOf
  <2>2. CASE i = t.open
    BY <1>1, <2>1, <2>2 DEF RecordOK, OpenOK, None
  <2>3. CASE i # t.open
    BY <1>1, <2>1, <2>3 DEF RecordOK, SettledOK
  <2> QED
    BY <2>2, <2>3
<1>5. \A k \in 1 .. Len(list2) :
        /\ list2[k].ask <= Before(t.lines, Len(t.lines))
        /\ list2[k].messages <= IF k = n THEN 0 ELSE 1
        /\ (\E i \in 1 .. Len(t.lines) : IsLineOf(t.lines[i], k)) <=> k # n /\ list2[k].shown
  <2>1. SUFFICES ASSUME NEW k \in 1 .. Len(list2)
                 PROVE  /\ list2[k].ask <= Before(t.lines, Len(t.lines))
                        /\ list2[k].messages <= IF k = n THEN 0 ELSE 1
                        /\ (\E i \in 1 .. Len(t.lines) : IsLineOf(t.lines[i], k))
                             <=> k # n /\ list2[k].shown
    OBVIOUS
  <2>2. CASE k = n
    BY <1>1, <1>4, <2>2
  <2>3. CASE k # n
    <3>1. k \in 1 .. Len(list) /\ k # None
      BY <1>1, <2>3 DEF None
    <3> QED
      BY <1>1, <2>3, <3>1 DEF RecordOK
  <2> QED
    BY <2>2, <2>3
<1>6. n \in 0 .. Len(list2)
  BY <1>1
<1> QED
  BY <1>1, <1>2, <1>3, <1>5, <1>6 DEF RecordOK, list2

-----------------------------------------------------------------------------
(* The record of a page.                                                     *)

Recorded(p) == RecordOK(p.transcript, p.answers, p.streaming) /\ Streams(p.transcript)

\* What the page has become is its record.
LEMMA BecomesRecorded ==
  ASSUME NEW p, Becomes(p), Recorded(p), voice' \in BOOLEAN
  PROVE  TInv'
<1>1. transcript' = p.transcript /\ answers' = p.answers /\ streaming' = p.streaming
  BY DEF Becomes
<1> QED
  BY <1>1 DEF Recorded, TInv

\* The bus carries where the machine goes.
LEMMA MovedRecords ==
  ASSUME NEW p, PageOK(p), NEW m, NEW list, NEW n, RecordOK(p.transcript, list, n)
  PROVE  LET u == Moved(p, m).transcript IN
           RecordOK(u, list, n) /\ (Streams(p.transcript) => Streams(u))
<1> DEFINE u == IF m.current = p.machine.current THEN p.transcript
                ELSE onStateChanged(p.transcript, m.current)
           a == p.transcript
           b == p.answers
           c == p.streaming
           d == p.machine
<1>1. Moved(p, m) = [[p EXCEPT !.machine = m] EXCEPT !.transcript = u]
  BY Zenon DEF Moved
<1>2. RecordOK(u, list, n) /\ (Streams(p.transcript) => Streams(u))
  BY StateChangeRecords
<1>3. p = [machine |-> d, transcript |-> a, answers |-> b, streaming |-> c]
  BY DEF PageOK
<1> HIDE DEF u, a, b, c, d
<1>4. [p EXCEPT !.machine = m] = [machine |-> m, transcript |-> a, answers |-> b, streaming |-> c]
  BY <1>3
<1>5. [[machine |-> m, transcript |-> a, answers |-> b, streaming |-> c] EXCEPT !.transcript = u]
        = [machine |-> m, transcript |-> u, answers |-> b, streaming |-> c]
  OBVIOUS
<1>6. Moved(p, m).transcript = u
  BY <1>1, <1>4, <1>5
<1> QED
  BY <1>2, <1>6

\* A dispatch takes the event in, and carries where the machine goes.
LEMMA DispatchRecords ==
  ASSUME NEW p, PageOK(p), NEW trigger, NEW t, NEW list, NEW n, RecordOK(t, list, n)
  PROVE  LET u == dispatch(p, trigger, t).transcript IN
           RecordOK(u, list, n) /\ (Streams(t) => Streams(u))
<1> DEFINE r == [machine |-> p.machine, transcript |-> t, answers |-> p.answers,
                 streaming |-> p.streaming]
           e == transitionByTrigger(p.machine, trigger)
<1>1. [p EXCEPT !.transcript = t] = r
  BY DEF PageOK
<1>2. dispatch(p, trigger, t) = Moved(r, e)
  BY <1>1 DEF dispatch
<1>3. PageOK(r) /\ r.transcript = t
  BY DEF PageOK
<1> HIDE DEF r, e
<1> QED
  BY <1>2, <1>3, MovedRecords

\* A page keeps its record when an event is dispatched that its answers have no
\* part in.
LEMMA DispatchRecorded ==
  ASSUME NEW p, PageOK(p), options \in Options, NEW trigger, NEW t,
         RecordOK(t, p.answers, p.streaming), Streams(t)
  PROVE  Recorded(dispatch(p, trigger, t))
<1> DEFINE q == dispatch(p, trigger, t)
<1>1. q.answers = p.answers /\ q.streaming = p.streaming
  BY DispatchMoves
<1>2. RecordOK(q.transcript, p.answers, p.streaming) /\ Streams(q.transcript)
  BY DispatchRecords
<1> HIDE DEF q
<1>3. Recorded(q)
  BY <1>1, <1>2 DEF Recorded
<1> QED
  BY <1>3 DEF q

\* Answer n gets its message.
LEMMA MessageRecorded ==
  ASSUME NEW p, PageOK(p), options \in Options, NEW n \in 1 .. Len(p.answers),
         p.streaming = None, RecordOK(p.transcript, p.answers, n),
         NEW status \in {"complete", "interrupted"}
  PROVE  Recorded(Message(p, n, status))
<1> DEFINE list == p.answers
           one == [list[n] EXCEPT !.messages = @ + 1]
           list2 == [list EXCEPT ![n] = one]
           r == [p EXCEPT !.answers = [@ EXCEPT ![n] = one]]
           t == onMessage(p.transcript, n, list[n].shown, status)
<1>1. /\ list \in Seq(Answer) /\ list[n] \in Answer /\ Len(list) \in Nat
      /\ \A k \in 1 .. Len(list) : list[k].messages <= IF k = n THEN 0 ELSE 1
  BY DEF RecordOK
<1>2. /\ one \in Answer /\ one.ask = list[n].ask /\ one.shown = list[n].shown
      /\ one.messages <= 1 /\ "shown" \in DOMAIN one /\ list[n].shown \in BOOLEAN
  <2> DEFINE old == list[n]
  <2>1. old \in Answer /\ old.messages <= 0
    BY <1>1
  <2> HIDE DEF old
  <2>2. old.messages = 0 /\ old.shown \in BOOLEAN
    BY <2>1 DEF Answer
  <2>3. /\ [old EXCEPT !.messages = @ + 1] \in Answer
        /\ [old EXCEPT !.messages = @ + 1].ask = old.ask
        /\ [old EXCEPT !.messages = @ + 1].shown = old.shown
        /\ [old EXCEPT !.messages = @ + 1].messages = old.messages + 1
        /\ "shown" \in DOMAIN [old EXCEPT !.messages = @ + 1]
    BY <2>1, <2>2 DEF Answer
  <2> QED
    BY <2>2, <2>3 DEF old
<1>3. Message(p, n, status) = dispatch(r, "assistant.message", t)
  BY DEF Message
<1>4. r.answers = list2
  BY DEF PageOK
<1> HIDE DEF one
<1>5. /\ list2 \in Seq(Answer) /\ Len(list2) = Len(list)
      /\ \A k \in 1 .. Len(list) : list2[k] = IF k = n THEN one ELSE list[k]
  BY <1>1, <1>2, ExceptSeq
<1> HIDE DEF list2
<1>6. PageOK(r) /\ r.streaming = None
  BY <1>2, AnswersSet
<1> HIDE DEF r
<1>7. Told(list, list2)
  BY <1>1, <1>2, <1>5 DEF Told
<1>8. RecordOK(t, list2, None) /\ Streams(t)
  BY <1>2, <1>7, MessageRecords
<1> HIDE DEF t
<1> QED
  BY <1>3, <1>4, <1>6, <1>8, DispatchRecorded

\* What streams is stopped: its words are cut, and it has its message.
LEMMA StopRecorded ==
  ASSUME NEW p, PageOK(p), Recorded(p), options \in Options
  PROVE  Recorded(stop(p))
<1>1. CASE p.streaming = None
  BY <1>1 DEF stop
<1>2. CASE p.streaming # None
  <2> DEFINE n == p.streaming
             cut == [p EXCEPT !.streaming = None]
             i == Interrupted(cut)
  <2>1. n \in 1 .. Len(p.answers)
    BY <1>2 DEF PageOK, None
  <2>2. PageOK(cut) /\ cut.answers = p.answers /\ cut.streaming = None
    BY <2>1, StreamingSet DEF None
  <2>3. cut.transcript = p.transcript
    BY DEF PageOK
  <2>4. stop(p) = IF p.answers[n].shown THEN Message(i, n, "interrupted")
                  ELSE Message(cut, n, "interrupted")
    BY <1>2 DEF stop
  <2>5. RecordOK(p.transcript, p.answers, n)
    BY DEF Recorded
  <2> HIDE DEF n, cut
  <2>6. RecordOK(onInterrupted(cut.transcript), p.answers, n)
    BY <2>3, <2>5, CutRecords
  <2>7. i = dispatch(cut, "assistant.interrupted", onInterrupted(cut.transcript))
    BY DEF Interrupted
  <2> HIDE DEF i
  <2>8. PageOK(i) /\ i.answers = p.answers /\ i.streaming = None
        /\ RecordOK(i.transcript, p.answers, n)
    BY <2>2, <2>6, <2>7, DispatchMoves, DispatchRecords
  <2>9. Recorded(Message(i, n, "interrupted"))
    BY <2>1, <2>8, MessageRecorded
  <2>10. Recorded(Message(cut, n, "interrupted"))
    BY <2>1, <2>2, <2>3, <2>5, MessageRecorded
  <2> QED
    BY <2>4, <2>9, <2>10
<1> QED
  BY <1>1, <1>2

\* What the user has asked.
LEMMA AskedCounts ==
  ASSUME NEW t, NEW list, NEW n, RecordOK(t, list, n)
  PROVE  Asked(t) = Before(t.lines, Len(t.lines)) /\ Asked(t) \in Nat
<1>1. t.lines \in Seq(Line)
  BY DEF RecordOK
<1>2. DOMAIN t.lines = 1 .. Len(t.lines) /\ Len(t.lines) \in Nat
  BY <1>1
<1>3. {i \in DOMAIN t.lines : t.lines[i].kind = "user"} = UsersUpTo(t.lines, Len(t.lines))
  BY <1>2 DEF UsersUpTo
<1> QED
  BY <1>2, <1>3, CountsUsers DEF Asked, Before

\* A new answer streams.
LEMMA AnswerRecorded ==
  ASSUME NEW p, PageOK(p), Recorded(p), p.streaming = None, voice \in BOOLEAN
  PROVE  Recorded(answer(p))
<1> DEFINE one == [spoken |-> voice, shown |-> FALSE, heard |-> FALSE, live |-> TRUE,
                   messages |-> 0, ask |-> Asked(p.transcript)]
           list == Append(p.answers, one)
           s == Len(p.answers) + 1
           t == p.transcript
           m == p.machine
           b == p.streaming
<1>1. RecordOK(t, p.answers, None) /\ Streams(t)
  BY DEF Recorded
<1>2. Asked(t) = Before(t.lines, Len(t.lines)) /\ Asked(t) \in Nat
  BY <1>1, AskedCounts
<1>3. one \in Answer /\ ~one.shown /\ one.messages = 0 /\ one.ask = Before(t.lines, Len(t.lines))
  BY <1>2 DEF Answer
<1>4. answer(p) = [[p EXCEPT !.answers = list] EXCEPT !.streaming = s]
  BY Zenon DEF answer
<1>5. p = [machine |-> m, transcript |-> t, answers |-> p.answers, streaming |-> b]
  BY DEF PageOK
<1> HIDE DEF one
<1>6. one.ask <= Before(t.lines, Len(t.lines))
  BY <1>2, <1>3
<1>7. RecordOK(t, list, s)
  BY <1>1, <1>3, <1>6, AnswerRecords
<1> HIDE DEF list, s, t, m, b
<1>8. [p EXCEPT !.answers = list] = [machine |-> m, transcript |-> t, answers |-> list,
                                     streaming |-> b]
  BY <1>5
<1>9. [[machine |-> m, transcript |-> t, answers |-> list, streaming |-> b]
          EXCEPT !.streaming = s]
         = [machine |-> m, transcript |-> t, answers |-> list, streaming |-> s]
  OBVIOUS
<1>10. answer(p).transcript = t /\ answer(p).answers = list /\ answer(p).streaming = s
  BY <1>4, <1>8, <1>9
<1> QED
  BY <1>1, <1>7, <1>10 DEF Recorded

-----------------------------------------------------------------------------
(* The record, one lemma for each group of actions.                          *)

\* The page the invariants speak of.
LEMMA PageRecorded ==
  ASSUME IInv, TInv
  PROVE  /\ PageOK(Page) /\ Recorded(Page) /\ options \in Options /\ voice \in BOOLEAN
         /\ Page.transcript = transcript /\ Page.answers = answers
         /\ Page.streaming = streaming /\ Page.machine = machine
         /\ RecordOK(transcript, answers, streaming) /\ Streams(transcript)
<1>1. /\ Page.transcript = transcript /\ Page.answers = answers
      /\ Page.streaming = streaming /\ Page.machine = machine
  BY DEF Page
<1> QED
  BY <1>1 DEF IInv, TInv, Recorded

\* A message of hers or the person's asks for an answer.
LEMMA AsksRecord ==
  ASSUME IInv, TInv, send \/ open \/ speakUp
  PROVE  TInv'
<1>1. /\ PageOK(Page) /\ Recorded(Page) /\ options \in Options /\ voice \in BOOLEAN
      /\ Page.transcript = transcript /\ Page.answers = answers
      /\ Page.streaming = streaming
  BY PageRecorded
<1>2. CASE send
  <2> DEFINE q == stop(Page)
             ask == Asked(q.transcript) + 1
             t == appended(q.transcript, UserLine(ask))
             r == dispatch(q, "user.message", t)
  <2>1. PageOK(q) /\ q.streaming = None /\ Recorded(q)
    BY <1>1, StopSettles, StopRecorded
  <2>2. Becomes(answer(r)) /\ voice' = voice
    BY <1>2 DEF send, Sent
  <2> HIDE DEF q
  <2>3. ask \in Nat
    BY <2>1, AskedCounts DEF Recorded
  <2> HIDE DEF ask
  <2>4. RecordOK(t, q.answers, q.streaming) /\ Streams(t)
    BY <2>1, <2>3, UserRecords DEF Recorded
  <2> HIDE DEF t
  <2>5. PageOK(r) /\ r.streaming = None /\ Recorded(r)
    BY <1>1, <2>1, <2>4, DispatchMoves, DispatchRecorded
  <2> HIDE DEF r
  <2>6. Recorded(answer(r))
    BY <1>1, <2>5, AnswerRecorded
  <2> QED
    BY <1>1, <2>2, <2>6, BecomesRecorded
<1>3. CASE open \/ speakUp
  <2> DEFINE r == dispatch(Page, "assistant.opening", transcript)
  <2>1. streaming = None /\ Becomes(answer(r)) /\ voice' = voice
    BY <1>1, <1>3 DEF open, speakUp, Opening
  <2>2. PageOK(r) /\ r.streaming = None
    BY <1>1, <2>1, DispatchMoves
  <2>3. Recorded(r)
    BY <1>1, DispatchRecorded DEF Recorded
  <2> HIDE DEF r
  <2>4. Recorded(answer(r))
    BY <1>1, <2>2, <2>3, AnswerRecorded
  <2> QED
    BY <1>1, <2>1, <2>4, BecomesRecorded
<1> QED
  BY <1>2, <1>3

\* What streams is stopped.
LEMMA StopsRecord ==
  ASSUME IInv, TInv, Stop \/ setVoice \/ dispose \/ CallStarts
  PROVE  TInv'
<1>1. Becomes(stop(Page)) /\ (voice' = voice \/ voice' = ~voice)
  BY DEF Stop, setVoice, dispose, CallStarts
<1>2. PageOK(Page) /\ Recorded(Page) /\ options \in Options /\ voice \in BOOLEAN
  BY PageRecorded
<1>3. Recorded(stop(Page))
  BY <1>2, StopRecorded
<1> QED
  BY <1>1, <1>2, <1>3, BecomesRecorded

\* The answers with another in the place of the one that streams.
LEMMA StreamingChanged ==
  ASSUME IInv, TInv, NEW n, n = streaming, n \in 1 .. Len(answers), NEW one \in Answer,
         one.ask = answers[n].ask, one.messages = answers[n].messages,
         answers[n].shown => one.shown
  PROVE  LET p == [Page EXCEPT !.answers = [@ EXCEPT ![n] = one]] IN
           /\ PageOK(p) /\ p.streaming = n /\ p.transcript = transcript
           /\ RecordOK(transcript, p.answers, n) /\ p.answers[n] = one
<1> DEFINE list2 == [answers EXCEPT ![n] = one]
           p == [Page EXCEPT !.answers = [@ EXCEPT ![n] = one]]
<1>1. /\ PageOK(Page) /\ Page.answers = answers /\ Page.streaming = streaming
      /\ RecordOK(transcript, answers, streaming)
  BY PageRecorded
<1>2. p.answers = list2 /\ p.transcript = transcript
  BY DEF Page
<1>3. /\ list2 \in Seq(Answer) /\ Len(list2) = Len(answers)
      /\ \A k \in 1 .. Len(answers) : list2[k] = IF k = n THEN one ELSE answers[k]
  BY <1>1, ExceptSeq DEF RecordOK
<1>4. PageOK(p) /\ p.streaming = n
  <2>1. "shown" \in DOMAIN one
    BY DEF Answer
  <2> QED
    BY <1>1, <2>1, AnswersSet
<1> HIDE DEF list2
<1>5. RecordOK(transcript, list2, n)
  BY <1>1, <1>3, AnswersRecord
<1> QED
  BY <1>2, <1>3, <1>4, <1>5

\* The answer that streams.
LEMMA StreamingOne ==
  ASSUME IInv, TInv, NEW n \in DOMAIN answers, IsStreaming(n)
  PROVE  n = streaming /\ n \in 1 .. Len(answers) /\ answers[n] \in Answer
BY PageRecorded DEF IsStreaming, RecordOK

\* A stream delivers words, or her voice, and goes on.
LEMMA DeliveriesRecord ==
  ASSUME IInv, TInv, NEW n \in DOMAIN answers, Token(n) \/ AudioStarts(n)
  PROVE  TInv'
<1>1. /\ PageOK(Page) /\ options \in Options /\ voice \in BOOLEAN /\ Page.answers = answers
      /\ Streams(transcript)
  BY PageRecorded
<1>2. n = streaming /\ n \in 1 .. Len(answers) /\ answers[n] \in Answer
  BY StreamingOne DEF Token, AudioStarts
<1> DEFINE old == answers[n]
<1>3. CASE Token(n)
  <2> DEFINE one == [old EXCEPT !.shown = TRUE]
             p == [Page EXCEPT !.answers = [@ EXCEPT ![n] = one]]
             t == onToken(transcript, n)
  <2>1. [Page EXCEPT !.answers[n].shown = TRUE] = p
    BY <1>1
  <2>2. one \in Answer /\ one.ask = old.ask /\ one.messages = old.messages /\ one.shown
    BY <1>2 DEF Answer
  <2> HIDE DEF one
  <2>3. /\ PageOK(p) /\ p.streaming = n /\ p.transcript = transcript
        /\ RecordOK(transcript, p.answers, n) /\ p.answers[n] = one
    BY <1>2, <2>2, StreamingChanged
  <2>4. Becomes(dispatch(p, "assistant.token", t)) /\ voice' = voice
    BY <1>3, <2>1, <2>3 DEF Token
  <2> HIDE DEF p
  <2>5. RecordOK(t, p.answers, n) /\ Streams(t)
    BY <1>1, <2>2, <2>3, TokenRecords
  <2> HIDE DEF t
  <2>6. Recorded(dispatch(p, "assistant.token", t))
    BY <1>1, <2>3, <2>5, DispatchRecorded
  <2> QED
    BY <1>1, <2>4, <2>6, BecomesRecorded
<1>4. CASE AudioStarts(n)
  <2> DEFINE one == [old EXCEPT !.heard = TRUE]
             p == [Page EXCEPT !.answers = [@ EXCEPT ![n] = one]]
  <2>1. [Page EXCEPT !.answers[n].heard = TRUE] = p
    BY <1>1
  <2>2. one \in Answer /\ one.ask = old.ask /\ one.messages = old.messages
        /\ one.shown = old.shown
    BY <1>2 DEF Answer
  <2> HIDE DEF one
  <2>3. /\ PageOK(p) /\ p.streaming = n /\ p.transcript = transcript
        /\ RecordOK(transcript, p.answers, n)
    BY <1>2, <2>2, StreamingChanged
  <2>4. Becomes(dispatch(p, "assistant.audio.started", transcript)) /\ voice' = voice
    BY <1>4, <2>1, <2>3 DEF AudioStarts
  <2> HIDE DEF p
  <2>5. Recorded(dispatch(p, "assistant.audio.started", transcript))
    BY <1>1, <2>3, DispatchRecorded
  <2> QED
    BY <1>1, <2>4, <2>5, BecomesRecorded
<1> QED
  BY <1>3, <1>4

\* A stream ends well, or badly.
LEMMA EndsRecord ==
  ASSUME IInv, TInv, NEW n \in DOMAIN answers, Completes(n) \/ Fails(n)
  PROVE  TInv'
<1> DEFINE one == [answers[n] EXCEPT !.live = FALSE]
           p == [Page EXCEPT !.answers = [@ EXCEPT ![n] = one]]
           list == [answers EXCEPT ![n] = one]
           over == Over(Page, n)
<1>1. /\ PageOK(Page) /\ options \in Options /\ voice \in BOOLEAN /\ Page.answers = answers
      /\ Streams(transcript) /\ RecordOK(transcript, answers, streaming)
  BY PageRecorded
<1>2. n = streaming /\ n \in 1 .. Len(answers) /\ answers[n] \in Answer
  BY StreamingOne DEF Completes, Fails
<1>3. one \in Answer /\ one.ask = answers[n].ask /\ one.messages = answers[n].messages
      /\ one.shown = answers[n].shown
  BY <1>2 DEF Answer
<1>4. over.answers = list /\ over.transcript = transcript
  <2>1. over = [[Page EXCEPT !.streaming = None] EXCEPT !.answers[n].live = FALSE]
    BY DEF Over
  <2> QED
    BY <2>1 DEF Page
<1>5. PageOK(over) /\ over.streaming = None
  BY <1>1, <1>2, OverLeaves
<1>6. voice' = voice
  BY DEF Completes, Fails
<1> HIDE DEF one, over
<1>7. RecordOK(transcript, list, n) /\ list[n] = one /\ Len(list) = Len(answers)
  <2>1. /\ list \in Seq(Answer) /\ Len(list) = Len(answers)
        /\ \A k \in 1 .. Len(answers) : list[k] = IF k = n THEN one ELSE answers[k]
    BY <1>1, <1>2, <1>3, ExceptSeq DEF RecordOK
  <2> HIDE DEF list
  <2>2. RecordOK(transcript, list, n)
    BY <1>1, <1>2, <1>3, <2>1, AnswersRecord
  <2> QED
    BY <1>2, <2>1, <2>2
<1> HIDE DEF list
<1>8. CASE Completes(n)
  <2>1. Becomes(Message(over, n, "complete"))
    BY <1>8 DEF Completes, over
  <2>2. Recorded(Message(over, n, "complete"))
    BY <1>1, <1>2, <1>4, <1>5, <1>7, MessageRecorded
  <2> QED
    BY <1>1, <1>6, <2>1, <2>2, BecomesRecorded
<1>9. CASE Fails(n)
  <2> DEFINE e == dispatch(over, "error", transcript)
             q == Message(e, n, "interrupted")
  <2>1. PageOK(e) /\ e.streaming = None /\ e.answers = list
        /\ RecordOK(e.transcript, list, n) /\ Streams(e.transcript)
    BY <1>1, <1>4, <1>5, <1>7, DispatchMoves, DispatchRecords
  <2>2. Becomes(IF list[n].shown THEN q ELSE e)
    BY <1>4, <1>9 DEF Fails, Failed, over
  <2> HIDE DEF e
  <2>3. Recorded(q)
    BY <1>1, <1>2, <1>7, <2>1, MessageRecorded
  <2>4. ~list[n].shown => Recorded(e)
    <3>1. Told(list, list)
      BY <2>1, ToldAsIs
    <3>2. ~list[n].shown => RecordOK(e.transcript, list, None)
      BY <2>1, <3>1, WordlessRecords
    <3> QED
      BY <2>1, <3>2 DEF Recorded
  <2> QED
    BY <1>1, <1>6, <2>2, <2>3, <2>4, BecomesRecorded
<1> QED
  BY <1>8, <1>9

\* A stopped answer's stream notices.
LEMMA LateRecord ==
  ASSUME IInv, TInv, NEW n \in DOMAIN answers, ComesLate(n)
  PROVE  TInv'
<1> DEFINE one == [answers[n] EXCEPT !.live = FALSE]
           list == [answers EXCEPT ![n] = one]
<1>1. /\ Streams(transcript) /\ RecordOK(transcript, answers, streaming) /\ voice \in BOOLEAN
  BY PageRecorded
<1>2. n \in 1 .. Len(answers) /\ answers[n] \in Answer
  BY <1>1 DEF RecordOK
<1>3. one \in Answer /\ one.ask = answers[n].ask /\ one.messages = answers[n].messages
      /\ one.shown = answers[n].shown
  BY <1>2 DEF Answer
<1>4. answers' = list /\ UNCHANGED <<transcript, streaming, voice>>
  BY DEF ComesLate
<1> HIDE DEF one
<1>5. /\ list \in Seq(Answer) /\ Len(list) = Len(answers)
      /\ \A k \in 1 .. Len(answers) : list[k] = IF k = n THEN one ELSE answers[k]
  BY <1>1, <1>2, <1>3, ExceptSeq DEF RecordOK
<1> HIDE DEF list
<1>6. RecordOK(transcript, list, streaming)
  BY <1>1, <1>3, <1>5, AnswersRecord
<1> QED
  BY <1>1, <1>4, <1>6 DEF TInv

\* A timer or a fade, or a notice on the page.
LEMMA MachineRecords ==
  ASSUME IInv, TInv, MachineMoves \/ PageNotice
  PROVE  TInv'
<1>1. /\ PageOK(Page) /\ options \in Options /\ voice \in BOOLEAN
      /\ Page.transcript = transcript /\ Page.answers = answers
      /\ Page.streaming = streaming
      /\ Streams(transcript) /\ RecordOK(transcript, answers, streaming)
  BY PageRecorded
<1>2. CASE MachineMoves
  <2> DEFINE m == machine'
             u == Moved(Page, m).transcript
  <2>1. transcript' = u /\ UNCHANGED <<answers, streaming, voice>>
    BY <1>2 DEF MachineMoves
  <2> HIDE DEF m
  <2>2. RecordOK(u, answers, streaming) /\ Streams(u)
    BY <1>1, MovedRecords
  <2> HIDE DEF u
  <2> QED
    BY <1>1, <2>1, <2>2 DEF TInv
<1>3. CASE PageNotice
  <2>1. Becomes(dispatch(Page, "error", transcript)) /\ voice' = voice
    BY <1>3 DEF PageNotice
  <2>2. Recorded(dispatch(Page, "error", transcript))
    BY <1>1, DispatchRecorded
  <2> QED
    BY <1>1, <2>1, <2>2, BecomesRecorded
<1> QED
  BY <1>2, <1>3

\* During a call no answer of the page streams: what the call says is nobody's.
LEMMA CallRecords ==
  ASSUME IInv, TInv, CallDispatches \/ CallEnds
  PROVE  TInv'
<1>1. /\ PageOK(Page) /\ options \in Options /\ voice \in BOOLEAN
      /\ Page.transcript = transcript /\ Page.answers = answers
      /\ Page.streaming = streaming
      /\ Streams(transcript) /\ RecordOK(transcript, answers, streaming)
  BY PageRecorded
<1>2. call /\ streaming = None /\ voice' = voice
  BY DEF CallDispatches, CallEnds, IInv
<1>3. ASSUME NEW trigger, NEW t, RecordOK(t, answers, None), Streams(t),
             Becomes(dispatch(Page, trigger, t))
      PROVE  TInv'
  <2>1. Recorded(dispatch(Page, trigger, t))
    BY <1>1, <1>2, <1>3, DispatchRecorded
  <2> QED
    BY <1>1, <1>2, <1>3, <2>1, BecomesRecorded
<1>4. Told(answers, answers)
  BY <1>1, ToldAsIs
<1>5. ASSUME NEW words \in BOOLEAN, NEW status \in {"complete", "interrupted"}
      PROVE  RecordOK(onMessage(transcript, None, words, status), answers, None)
             /\ Streams(onMessage(transcript, None, words, status))
  BY <1>1, <1>2, <1>4, MessageRecords
<1>6. CASE CallDispatches
  <2> DEFINE asked == appended(transcript, UserLine(Asked(transcript) + 1))
  <2>1. RecordOK(onToken(asked, None), answers, None) /\ Streams(onToken(asked, None))
    <3>1. Asked(transcript) + 1 \in Nat
      BY <1>1, AskedCounts
    <3>2. RecordOK(asked, answers, None) /\ Streams(asked)
      BY <1>1, <1>2, <3>1, UserRecords
    <3> HIDE DEF asked
    <3> QED
      BY <3>2, TokenRecords
  <2>2. RecordOK(onInterrupted(transcript), answers, None) /\ Streams(onInterrupted(transcript))
    BY <1>1, <1>2, CutRecords
  <2>3. \/ \E trigger : Becomes(dispatch(Page, trigger, transcript))
        \/ Becomes(dispatch(Page, "assistant.token", onToken(asked, None)))
        \/ Becomes(Interrupted(Page))
        \/ \E words \in BOOLEAN :
             Becomes(dispatch(Page, "assistant.message",
                              onMessage(transcript, None, words, "complete")))
    BY <1>6, Zenon DEF CallDispatches
  <2>4. Interrupted(Page) = dispatch(Page, "assistant.interrupted", onInterrupted(transcript))
    BY <1>1 DEF Interrupted
  <2> HIDE DEF asked
  <2>5. CASE \E trigger : Becomes(dispatch(Page, trigger, transcript))
    BY <1>1, <1>2, <1>3, <2>5
  <2>6. CASE Becomes(dispatch(Page, "assistant.token", onToken(asked, None)))
    BY <1>3, <2>1, <2>6
  <2>7. CASE Becomes(Interrupted(Page))
    BY <1>3, <2>2, <2>4, <2>7
  <2>8. CASE \E words \in BOOLEAN :
               Becomes(dispatch(Page, "assistant.message",
                                onMessage(transcript, None, words, "complete")))
    BY <1>3, <1>5, <2>8
  <2> QED
    BY <2>3, <2>5, <2>6, <2>7, <2>8
<1>7. CASE CallEnds
  <2>1. CASE machine.current = "speaking"
    <3>1. Becomes(dispatch(Page, "assistant.message",
                           onMessage(transcript, None, TRUE, "interrupted")))
      BY <1>7, <2>1 DEF CallEnds
    <3> QED
      BY <1>3, <1>5, <3>1
  <2>2. CASE machine.current # "speaking"
    <3>1. UNCHANGED <<transcript, answers, streaming>>
      BY <1>7, <2>2 DEF CallEnds
    <3> QED
      BY <1>1, <1>2, <3>1 DEF TInv
  <2> QED
    BY <2>1, <2>2
<1> QED
  BY <1>6, <1>7

-----------------------------------------------------------------------------
(* The way out of an interruption.                                           *)

\* Only a turn, or the end of the session, is an event that ends one.
LEMMA OnlyTurnsGoOn ==
  ASSUME NEW trigger, trigger \notin {"user.turn.ended", "session.ended"}
  PROVE  transition("interrupted", trigger) = "interrupted"
<1>1. \A m \in transitionTable :
        m.from = "interrupted" => m.trigger \in {"user.turn.ended", "session.ended"}
  BY DEF transitionTable, Move
<1> QED
  BY <1>1 DEF transition

\* An event takes nobody from an interruption straight to listening.
LEMMA NoEventGoesBack ==
  ASSUME NEW trigger
  PROVE  transition("interrupted", trigger) # "listening"
<1>1. \A m \in transitionTable : m.from = "interrupted" => m.to # "listening"
  BY DEF transitionTable, Move, ConversationStates
<1> QED
  BY <1>1 DEF transition

StaysCut(p, q) ==
  p.machine.current = "interrupted" => q.machine.current = "interrupted"

\* Stopping an answer, and asking for one, leave an interruption to its fade.
LEMMA StopStaysCut ==
  ASSUME NEW p, PageOK(p), options \in Options
  PROVE  StaysCut(p, stop(p))
<1>1. CASE p.streaming = None
  BY <1>1 DEF stop, StaysCut
<1>2. CASE p.streaming # None
  <2> DEFINE n == p.streaming
             cut == [p EXCEPT !.streaming = None]
             i == Interrupted(cut)
  <2>1. n \in 1 .. Len(p.answers)
    BY <1>2 DEF PageOK, None
  <2>2. PageOK(cut) /\ cut.machine = p.machine /\ cut.answers = p.answers
    BY <2>1, StreamingSet DEF None
  <2>3. stop(p) = IF p.answers[n].shown THEN Message(i, n, "interrupted")
                  ELSE Message(cut, n, "interrupted")
    BY <1>2 DEF stop
  <2> HIDE DEF n, cut
  <2>4. PageOK(i) /\ i.answers = p.answers /\ StaysCut(p, i)
    BY <2>2, DispatchMoves, OnlyTurnsGoOn DEF Interrupted, StaysCut
  <2> HIDE DEF i
  <2>5. StaysCut(p, Message(i, n, "interrupted"))
    BY <2>1, <2>4, MessageSettles DEF Busy, StaysCut
  <2>6. StaysCut(p, Message(cut, n, "interrupted"))
    BY <2>1, <2>2, MessageSettles DEF Busy, StaysCut
  <2> QED
    BY <2>3, <2>5, <2>6
<1> QED
  BY <1>1, <1>2

\* No handler takes an interruption back to listening.
LEMMA HandlersStayCut ==
  ASSUME IInv, machine.current = "interrupted", Next, ~MachineMoves
  PROVE  machine'.current # "listening"
<1>1. /\ options \in Options /\ PageOK(Page) /\ Page.machine = machine
      /\ Page.answers = answers /\ Page.streaming = streaming
      /\ Page.transcript = transcript
  BY DEF IInv, Page
<1>2. ASSUME NEW q, Becomes(q), q.machine.current # "listening"
      PROVE  machine'.current # "listening"
  BY <1>2 DEF Becomes
<1>3. ASSUME NEW trigger, NEW t, Becomes(dispatch(Page, trigger, t))
      PROVE  machine'.current # "listening"
  BY <1>1, <1>2, <1>3, DispatchMoves, NoEventGoesBack
<1>4. CASE send
  <2> DEFINE q == stop(Page)
             t == appended(q.transcript, UserLine(Asked(q.transcript) + 1))
             r == dispatch(q, "user.message", t)
  <2>1. PageOK(q) /\ q.machine.current = "interrupted"
    BY <1>1, StopSettles, StopStaysCut DEF StaysCut
  <2>2. Becomes(answer(r))
    BY <1>4 DEF send, Sent
  <2> HIDE DEF q, t
  <2>3. PageOK(r) /\ r.machine.current = "interrupted"
    BY <1>1, <2>1, DispatchMoves, OnlyTurnsGoOn
  <2> HIDE DEF r
  <2>4. answer(r).machine = r.machine
    BY <2>3, AnswerStreams
  <2> QED
    BY <1>2, <2>2, <2>3, <2>4
<1>5. CASE open \/ speakUp
  <2> DEFINE r == dispatch(Page, "assistant.opening", transcript)
  <2>1. Becomes(answer(r))
    BY <1>1, <1>5 DEF open, speakUp, Opening
  <2>2. PageOK(r) /\ r.machine.current = "interrupted"
    BY <1>1, DispatchMoves, OnlyTurnsGoOn
  <2> HIDE DEF r
  <2>3. answer(r).machine = r.machine
    BY <2>2, AnswerStreams
  <2> QED
    BY <1>2, <2>1, <2>2, <2>3
<1>6. CASE Stop \/ setVoice \/ dispose \/ CallStarts
  <2>1. Becomes(stop(Page))
    BY <1>6 DEF Stop, setVoice, dispose, CallStarts
  <2>2. stop(Page).machine.current = "interrupted"
    BY <1>1, StopStaysCut DEF StaysCut
  <2> QED
    BY <1>2, <2>1, <2>2
<1>7. ASSUME NEW n \in DOMAIN answers, Token(n) \/ AudioStarts(n)
      PROVE  machine'.current # "listening"
  <2>1. n \in 1 .. Len(answers)
    BY <1>1 DEF PageOK, AnswerList
  <2>2. ASSUME NEW one, "shown" \in DOMAIN one, NEW trigger, NEW t,
               Becomes(dispatch([Page EXCEPT !.answers = [@ EXCEPT ![n] = one]], trigger, t))
        PROVE  machine'.current # "listening"
    <3> DEFINE p == [Page EXCEPT !.answers = [@ EXCEPT ![n] = one]]
    <3>1. PageOK(p) /\ p.machine = machine
      BY <1>1, <2>1, <2>2, AnswersSet
    <3>2. Becomes(dispatch(p, trigger, t))
      BY <2>2
    <3> HIDE DEF p
    <3>3. dispatch(p, trigger, t).machine.current # "listening"
      BY <1>1, <3>1, DispatchMoves, NoEventGoesBack
    <3> QED
      BY <1>2, <3>2, <3>3
  <2>3. CASE Token(n)
    <3> DEFINE one == [answers[n] EXCEPT !.shown = TRUE]
               p == [Page EXCEPT !.answers = [@ EXCEPT ![n] = one]]
    <3>1. "shown" \in DOMAIN one
      BY <1>1, <2>1 DEF PageOK, AnswerList
    <3>2. [Page EXCEPT !.answers[n].shown = TRUE] = p
      BY <1>1
    <3>3. Becomes(dispatch(p, "assistant.token", onToken(p.transcript, n)))
      BY <2>3, <3>2 DEF Token
    <3> HIDE DEF one
    <3> QED
      BY <2>2, <3>1, <3>3
  <2>4. CASE AudioStarts(n)
    <3> DEFINE one == [answers[n] EXCEPT !.heard = TRUE]
               p == [Page EXCEPT !.answers = [@ EXCEPT ![n] = one]]
    <3>1. "shown" \in DOMAIN one
      BY <1>1, <2>1 DEF PageOK, AnswerList
    <3>2. [Page EXCEPT !.answers[n].heard = TRUE] = p
      BY <1>1
    <3>3. Becomes(dispatch(p, "assistant.audio.started", p.transcript))
      BY <2>4, <3>2 DEF AudioStarts
    <3> HIDE DEF one
    <3> QED
      BY <2>2, <3>1, <3>3
  <2> QED
    BY <1>7, <2>3, <2>4
<1>8. ASSUME NEW n \in DOMAIN answers, Completes(n) \/ Fails(n)
      PROVE  machine'.current # "listening"
  <2> DEFINE over == Over(Page, n)
             e == dispatch(over, "error", over.transcript)
  <2>1. n \in 1 .. Len(answers)
    BY <1>1 DEF PageOK, AnswerList
  <2>2. PageOK(over) /\ over.machine = machine /\ Len(over.answers) = Len(answers)
    BY <1>1, <2>1, OverLeaves
  <2>3. Becomes(Message(over, n, "complete"))
        \/ Becomes(Message(e, n, "interrupted")) \/ Becomes(e)
    BY <1>8 DEF Completes, Fails, Failed
  <2> HIDE DEF over
  <2>4. PageOK(e) /\ e.machine.current = "interrupted" /\ e.answers = over.answers
    BY <1>1, <2>2, DispatchMoves, OnlyTurnsGoOn
  <2> HIDE DEF e
  <2>5. Message(over, n, "complete").machine.current = "interrupted"
    BY <1>1, <2>1, <2>2, MessageSettles DEF Busy
  <2>6. Message(e, n, "interrupted").machine.current = "interrupted"
    BY <1>1, <2>1, <2>2, <2>4, MessageSettles DEF Busy
  <2> QED
    BY <1>2, <2>3, <2>4, <2>5, <2>6
<1>9. ASSUME NEW n \in DOMAIN answers, ComesLate(n)
      PROVE  machine'.current # "listening"
  BY <1>9 DEF ComesLate
<1>10. CASE PageNotice
  BY <1>3, <1>10 DEF PageNotice
<1>11. CASE CallDispatches
  <2>1. PICK trigger, t : Becomes(dispatch(Page, trigger, t))
    BY <1>11, Zenon DEF CallDispatches, Interrupted
  <2> QED
    BY <1>3, <2>1
<1>12. CASE CallEnds
  BY <1>12 DEF CallEnds
<1> QED
  BY <1>4, <1>5, <1>6, <1>7, <1>8, <1>9, <1>10, <1>11, <1>12 DEF Next

\* A timer of a machine with a port has no part in it: only its own fade has.
LEMMA FadeEndsIt ==
  ASSUME IInv, options.port, machine.current = "interrupted", MachineMoves,
         machine'.current = "listening"
  PROVE  machine.entry \notin machine'.fades
<1>1. /\ machine \in MachineType /\ Timed(machine) /\ options \in Options
  BY DEF IInv, PageOK, Page
<1>2. ~machine.idleTimer /\ ~machine.teardownTimer
  BY <1>1 DEF Timed
<1>3. PICK e \in machine.fades : FadeEnds(e)
  BY <1>2 DEF MachineMoves, IdleTimerFires, TeardownTimerFires
<1> DEFINE ended == [machine EXCEPT !.fades = @ \ {e}]
<1>4. ended.current = machine.current /\ ended.fades = machine.fades \ {e}
  BY <1>1 DEF MachineType
<1>5. machine' = IF IsMyEntry(e) THEN Entered(ended, "listening") ELSE ended
  BY <1>3 DEF FadeEnds
<1> HIDE DEF ended
<1>6. IsMyEntry(e)
  BY <1>4, <1>5
<1>7. machine'.fades = machine.fades \ {e}
  BY <1>4, <1>5, <1>6 DEF Entered, FadesIn
<1> QED
  BY <1>6, <1>7 DEF IsMyEntry

-----------------------------------------------------------------------------
(* The theorems.                                                             *)

LEMMA InitInvariant ==
  ASSUME Init
  PROVE  IInv
<1>1. options \in Options
  BY ChatAssumption DEF Init
<1>2. NewMachine \in MachineType /\ "listening" \in ConversationStates
  BY DEF NewMachine, MachineType, ConversationStates
<1>3. machine \in MachineType /\ Timed(machine) /\ machine.current = "listening"
  BY <1>1, <1>2, EnteredTimed DEF Init
<1>4. AnswerList(answers) /\ Len(answers) = 0 /\ streaming = 0 /\ ~call
  BY DEF Init, AnswerList, None
<1> QED
  BY <1>1, <1>3, <1>4 DEF IInv, PageOK, Page, NotLeftThinking, SpeaksInAnswer, None

LEMMA StepInvariant ==
  ASSUME IInv, [Next]_vars
  PROVE  IInv'
<1>1. CASE send \/ open \/ speakUp
  BY <1>1, AsksKeep
<1>2. CASE Stop \/ setVoice \/ dispose \/ CallStarts
  BY <1>2, StopsKeep
<1>3. ASSUME NEW n \in DOMAIN answers, Token(n) \/ AudioStarts(n)
      PROVE  IInv'
  BY <1>3, DeliveriesKeep
<1>4. ASSUME NEW n \in DOMAIN answers, Completes(n) \/ Fails(n)
      PROVE  IInv'
  BY <1>4, EndsKeep
<1>5. ASSUME NEW n \in DOMAIN answers, ComesLate(n)
      PROVE  IInv'
  BY <1>5, LateKeeps
<1>6. CASE MachineMoves
  BY <1>6, MachineMovesKeep
<1>7. CASE PageNotice
  BY <1>7, NoticeKeeps
<1>8. CASE CallDispatches
  BY <1>8, CallKeeps
<1>9. CASE CallEnds
  BY <1>9, HangUpKeeps
<1>10. CASE UNCHANGED vars
  BY <1>10 DEF vars, IInv, PageOK, Page, NotLeftThinking, SpeaksInAnswer, Timed, HasIdleTimer
<1> QED
  BY <1>1, <1>2, <1>3, <1>4, <1>5, <1>6, <1>7, <1>8, <1>9, <1>10 DEF Next

LEMMA InitRecord ==
  ASSUME Init
  PROVE  TInv
<1>1. transcript = [lines |-> <<>>, open |-> 0] /\ answers = <<>> /\ streaming = 0
      /\ voice \in BOOLEAN
  BY DEF Init, emptyTranscript, None
<1>2. transcript.lines = <<>> /\ transcript.open = 0 /\ IsRecord(transcript)
  BY <1>1 DEF IsRecord
<1> QED
  BY <1>1, <1>2 DEF TInv, RecordOK, Streams, OpenOK

LEMMA StepRecord ==
  ASSUME IInv, TInv, [Next]_vars
  PROVE  TInv'
<1>1. CASE send \/ open \/ speakUp
  BY <1>1, AsksRecord
<1>2. CASE Stop \/ setVoice \/ dispose \/ CallStarts
  BY <1>2, StopsRecord
<1>3. ASSUME NEW n \in DOMAIN answers, Token(n) \/ AudioStarts(n)
      PROVE  TInv'
  BY <1>3, DeliveriesRecord
<1>4. ASSUME NEW n \in DOMAIN answers, Completes(n) \/ Fails(n)
      PROVE  TInv'
  BY <1>4, EndsRecord
<1>5. ASSUME NEW n \in DOMAIN answers, ComesLate(n)
      PROVE  TInv'
  BY <1>5, LateRecord
<1>6. CASE MachineMoves \/ PageNotice
  BY <1>6, MachineRecords
<1>7. CASE CallDispatches \/ CallEnds
  BY <1>7, CallRecords
<1>8. CASE UNCHANGED vars
  BY <1>8 DEF vars, TInv
<1> QED
  BY <1>1, <1>2, <1>3, <1>4, <1>5, <1>6, <1>7, <1>8 DEF Next

\* The inductive invariant holds in every reachable state, for every machine the
\* page may build, and however many answers and events from outside there are.
THEOREM PageInvariant == Spec => []IInv
<1>1. Init => IInv
  BY InitInvariant
<1>2. IInv /\ [Next]_vars => IInv'
  BY StepInvariant
<1> QED
  BY <1>1, <1>2, PTL DEF Spec

\* The idle timer runs exactly while listening, and the teardown timer exactly
\* while interrupted without an output port (onEnter, startTeardownTimer).
THEOREM TimersAlwaysMatch == Spec => []TimersMatchState
<1>1. IInv => TimersMatchState
  BY DEF IInv, PageOK, Page, Timed, TimersMatchState
<1> QED
  BY <1>1, PageInvariant, PTL

\* However an answer ends, she is not left thinking or speaking (settled, stop,
\* and the messages and errors they dispatch).
THEOREM NeverLeftThinking == Spec => []NotLeftThinking
<1>1. IInv => NotLeftThinking
  BY DEF IInv
<1> QED
  BY <1>1, PageInvariant, PTL

\* The record's invariant holds with the page's, for every machine, and however
\* many answers are asked for, stopped, replaced or failed, and calls are made
\* (reduceTranscript, and the messages that stop and settled dispatch).
THEOREM RecordInvariant == Spec => [](IInv /\ TInv)
<1>1. Init => IInv /\ TInv
  BY InitInvariant, InitRecord
<1>2. IInv /\ TInv /\ [Next]_vars => IInv' /\ TInv'
  BY StepInvariant, StepRecord
<1> QED
  BY <1>1, <1>2, PTL DEF Spec

\* However answers end, and whatever their streams deliver late, each gets one
\* message at most and has one line if it showed a word, and none if it did not.
THEOREM AlwaysOneLineEach == Spec => []OneLineEach
<1>1. TInv => OneLineEach
  <2>1. SUFFICES ASSUME TInv, NEW n \in DOMAIN answers
                 PROVE  /\ answers[n].messages <= 1
                        /\ Ended(n) => Cardinality(LinesOf(n)) =
                                         IF answers[n].shown THEN 1 ELSE 0
    BY DEF OneLineEach
  <2>2. RecordOK(transcript, answers, streaming)
    BY <2>1 DEF TInv
  <2>3. n \in 1 .. Len(answers) /\ DOMAIN transcript.lines = 1 .. Len(transcript.lines)
    BY <2>2 DEF RecordOK
  <2>4. answers[n] \in Answer /\ n # None
    BY <2>2, <2>3 DEF RecordOK, None
  <2>5. answers[n].messages <= 1
    BY <2>2, <2>3, <2>4 DEF RecordOK, Answer
  <2>6. LinesOf(n) = {i \in 1 .. Len(transcript.lines) : IsLineOf(transcript.lines[i], n)}
    BY <2>3 DEF LinesOf, IsLineOf, IsHers
  <2>7. CASE Ended(n) /\ answers[n].shown
    <3>1. PICK i \in 1 .. Len(transcript.lines) : IsLineOf(transcript.lines[i], n)
      BY <2>2, <2>3, <2>7 DEF RecordOK, Ended
    <3>2. \A j \in 1 .. Len(transcript.lines) : IsLineOf(transcript.lines[j], n) => i = j
      BY <2>2, <2>4, <3>1 DEF RecordOK, IsLineOf
    <3>3. LinesOf(n) = {i}
      BY <2>6, <3>1, <3>2
    <3> QED
      BY <2>5, <2>7, <3>3, FS_Singleton
  <2>8. CASE ~answers[n].shown
    <3>1. LinesOf(n) = {}
      BY <2>2, <2>3, <2>6, <2>8 DEF RecordOK
    <3> QED
      BY <2>5, <2>8, <3>1, FS_EmptySet
  <2> QED
    BY <2>5, <2>7, <2>8
<1> QED
  BY <1>1, RecordInvariant, PTL

\* A line of hers has the words of one answer, which come after what was asked,
\* and is never opened again once it is settled, unless a call left it open.
THEOREM AlwaysWordsInTheirPlace == Spec => []WordsInTheirPlace
<1>1. TInv => WordsInTheirPlace
  <2>1. SUFFICES ASSUME TInv, NEW i \in DOMAIN transcript.lines, IsHers(transcript.lines[i]),
                        None \notin transcript.lines[i].of
                 PROVE  LET line == transcript.lines[i] IN
                          IF line.status = "streaming" THEN line.of = {streaming}
                          ELSE /\ line.of = {line.id}
                               /\ Before(transcript.lines, i) >= answers[line.id].ask
    BY DEF WordsInTheirPlace, IsHers, Before, UsersUpTo
  <2>2. RecordOK(transcript, answers, streaming) /\ Streams(transcript)
    BY <2>1 DEF TInv
  <2>3. i \in 1 .. Len(transcript.lines)
    BY <2>2 DEF RecordOK
  <2>4. CASE i = transcript.open
    BY <2>1, <2>2, <2>3, <2>4 DEF RecordOK, OpenOK, Streams
  <2>5. CASE i # transcript.open
    BY <2>1, <2>2, <2>3, <2>5 DEF RecordOK, SettledOK
  <2> QED
    BY <2>4, <2>5
<1> QED
  BY <1>1, RecordInvariant, PTL

\* An interruption lasts as long as its own fade: neither an event nor a timer,
\* nor the late end of an earlier fade, takes a machine with a port from it back
\* to listening (startTeardownTimer, `entry`).
THEOREM FadeAlwaysHeardOut == Spec => FadeIsHeardOut
<1>1. IInv /\ [Next]_vars =>
        [(options.port /\ machine.current = "interrupted" /\ machine'.current = "listening")
           => machine.entry \notin machine'.fades]_vars
  BY HandlersStayCut, FadeEndsIt
<1> QED
  BY <1>1, PageInvariant, PTL DEF Spec, FadeIsHeardOut
=============================================================================
