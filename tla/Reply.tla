-------------------------------- MODULE Reply ---------------------------------
(*****************************************************************************)
(* Spoken answers (packages/core/src/reply/reply.ts) playing into one sink.  *)
(* A reply streams text from the model, cuts it into sentences, synthesises  *)
(* them one after another, waits for its hold, and queues the audio; it      *)
(* settles when the last frame has played, or at once when interrupted.      *)
(* Replies follow one another: their owner (VoiceSession, ChatSession)       *)
(* starts the next once the one before has settled, which is before its      *)
(* fade is over.                                                             *)
(*                                                                           *)
(* Text, samples and positions inside a sentence are left out: what a reply  *)
(* says was heard is the set of its segments in the spoken prefix.           *)
(*****************************************************************************)
EXTENDS Playback, Functions

CONSTANTS
  Replies,          \* 1 .. how many answers the conversation gives
  MaxSentences,     \* bound: sentences in all the answers together
  MaxInFlight,      \* bound: gain orders are given while fewer messages than
                    \* this are on their way to the audio thread
  NextWaitsForFade  \* whether an answer's first audio comes after the fade of
                    \* the answer before it.  The code does not wait: it relies
                    \* on a 100 ms fade against a first-audio path of 553 ms
                    \* (ADR-25, docs/DECISIONS.md)

ASSUME ReplyAssumption ==
  /\ Replies \subseteq Nat
  /\ MaxSentences \in Nat
  /\ MaxInFlight \in Nat
  /\ NextWaitsForFade \in BOOLEAN

VARIABLES
  reply,     \* per reply: the Reply object
  released,  \* the replies whose `hold` has resolved
  wanted     \* the gain the owner's barge-in gate last asked for

vars == <<reply, released, wanted, rendered, playing, fadingOut, toAudio, toMain,
          queue, headRead, fade, gain>>

Outcomes == {"complete", "interrupted", "abandoned", "failed"}

\* `state` is "none" before the constructor, "live" until `outcome` is set, and
\* the outcome's status after.  `chain` is where the synthesis promise chain
\* stands on sentence `spoken` + 1.  `heard` is the outcome's spoken prefix.
NewReply ==
  [state |-> "none", streaming |-> TRUE, failure |-> FALSE, chunks |-> 0,
   spoken |-> 0, chain |-> "idle", queued |-> <<>>, started |-> {},
   ended |-> {}, heard |-> {}]

Init ==
  /\ SinkInit
  /\ reply = [r \in Replies |-> NewReply]
  /\ released = {}
  /\ wanted = "unity"

-----------------------------------------------------------------------------

Live(r) == reply[r].state = "live"

Segments(r) == {reply[r].queued[i] : i \in DOMAIN reply[r].queued}

\* Mutant: an answer is over once its audio is queued.
QueuedIsEnough(r) == TRUE

EverythingEnded(r) == Segments(r) \subseteq reply[r].ended

\* `run` has nothing left to await: the stream, the synthesis chain and the
\* playback are done.  What follows runs in the same turn of the event loop.
RanOut(r) ==
  /\ Live(r)
  /\ ~reply[r].streaming
  /\ reply[r].spoken = reply[r].chunks
  /\ EverythingEnded(r)

\* heardAt(fadeMs), as the segments the spoken prefix takes in: up to the one at
\* the sink's position if it is this reply's, otherwise up to the last one known
\* to have started.  Empty is `heard === null`.
HeardBy(r) ==
  LET mine == Segments(r)
      last == IF Position \in mine THEN {Position} ELSE reply[r].started
  IN  {id \in mine : \E l \in last : id <= l}

\* The constructor: subscribes to the sink and starts the model.  The owner has
\* left `speaking` by then, and a duck with it.
Begin(r) ==
  /\ reply[r].state = "none"
  /\ wanted = "unity"
  /\ \A q \in Replies : q < r => reply[q].state \in Outcomes
  /\ reply' = [reply EXCEPT ![r].state = "live"]
  /\ UNCHANGED <<released, wanted, sinkVars>>

\* The owner resolves the hold: the turn is confirmed.
Release(r) ==
  /\ reply[r].state # "none"
  /\ r \notin released
  /\ released' = released \cup {r}
  /\ UNCHANGED <<reply, wanted, sinkVars>>

\* The model's text completes a sentence: schedule(chunk).
Chunk(r) ==
  /\ Live(r)
  /\ reply[r].streaming /\ ~reply[r].failure
  /\ FoldFunction(+, 0, [q \in Replies |-> reply[q].chunks]) < MaxSentences
  /\ reply' = [reply EXCEPT ![r].chunks = @ + 1]
  /\ UNCHANGED <<released, wanted, sinkVars>>

\* The stream ends; or its next part finds a synthesis failure and breaks off.
\* A stream that threw, finished with an error or said nothing is a failure.
StreamEnds(r, failing) ==
  /\ Live(r)
  /\ reply[r].streaming
  /\ reply' = [reply EXCEPT
       ![r].streaming = FALSE,
       ![r].failure = @ \/ failing \/ reply[r].chunks = 0]
  /\ UNCHANGED <<released, wanted, sinkVars>>

\* The synthesis chain reaches its next sentence: speak(chunk), or nothing once
\* the reply has failed.
Synthesise(r) ==
  /\ Live(r)
  /\ reply[r].chain = "idle" /\ reply[r].spoken < reply[r].chunks
  /\ reply' = IF reply[r].failure
              THEN [reply EXCEPT ![r].spoken = @ + 1]
              ELSE [reply EXCEPT ![r].chain = "synthesising"]
  /\ UNCHANGED <<released, wanted, sinkVars>>

\* The sentence is synthesised and waits for the hold; a voice that returned no
\* audio leaves nothing to wait with.
Synthesised(r, hasAudio) ==
  /\ Live(r)
  /\ reply[r].chain = "synthesising"
  /\ reply' = IF hasAudio
              THEN [reply EXCEPT ![r].chain = "holding"]
              ELSE [reply EXCEPT ![r].chain = "idle", ![r].spoken = @ + 1]
  /\ UNCHANGED <<released, wanted, sinkVars>>

\* The voice threw.
SynthesisFails(r) ==
  /\ Live(r)
  /\ reply[r].chain = "synthesising"
  /\ reply' = [reply EXCEPT ![r].chain = "idle", ![r].spoken = @ + 1, ![r].failure = TRUE]
  /\ UNCHANGED <<released, wanted, sinkVars>>

\* Mutant: synthesised audio is queued without waiting for the hold.
NoHold(r) == TRUE

\* The audio may go to the sink.  An aborted reply is not live: speak returns.
HoldIsOver(r) ==
  /\ r \in released
  /\ NextWaitsForFade => ~fadingOut

Enqueue(r) ==
  /\ Live(r)
  /\ reply[r].chain = "holding"
  /\ HoldIsOver(r)
  /\ reply' = [reply EXCEPT
       ![r].queued = Append(@, NextId), ![r].chain = "idle", ![r].spoken = @ + 1]
  /\ SinkEnqueue
  /\ UNCHANGED <<released, wanted>>

\* finish(), when the answer ran out by itself.
Finish(r) ==
  /\ RanOut(r)
  /\ reply' = [reply EXCEPT
       ![r].state = IF reply[r].failure THEN "failed" ELSE "complete",
       ![r].heard = IF reply[r].failure THEN HeardBy(r) ELSE Segments(r)]
  /\ UNCHANGED <<released, wanted, sinkVars>>

\* Mutant: the sink is not asked to drop what was queued.
InterruptKeepsQueue(r) == UNCHANGED sinkVars

\* interrupt() touches the sink only if this reply queued anything.
InterruptSink(r) ==
  IF reply[r].queued # <<>> THEN SinkFadeOut ELSE UNCHANGED sinkVars

\* interrupt(fadeMs): the one call that stops the model, the synthesis in flight
\* and the queued audio.  The gate that asked for it has committed, and leaves
\* the gain to the fade.
Interrupt(r) ==
  /\ Live(r) /\ ~RanOut(r)
  /\ reply' = [reply EXCEPT
       ![r].state = IF HeardBy(r) = {} THEN "abandoned" ELSE "interrupted",
       ![r].heard = HeardBy(r)]
  /\ InterruptSink(r)
  /\ wanted' = "unity"
  /\ UNCHANGED released

\* Mutant: the end of a segment is not noticed.
PlaybackStartedOnly(r, m) ==
  [reply[r] EXCEPT !.started = IF m.type = "faded" THEN @ ELSE @ \cup {m.arg}]

\* onPlayback: one event of the sink, for the reply it belongs to.  An `ended`
\* marks its sentence started too.
PlaybackHeard(r, m) ==
  IF m.type = "faded" \/ ~Live(r) \/ m.arg \notin Segments(r) THEN reply[r]
  ELSE [reply[r] EXCEPT
          !.started = @ \cup {m.arg},
          !.ended = IF m.type = "ended" THEN @ \cup {m.arg} ELSE @]

\* The replies' part of what the sink emits: every reply still subscribed hears.
RepliesHear(m) ==
  /\ reply' = [r \in Replies |-> PlaybackHeard(r, m)]
  /\ UNCHANGED <<released, wanted>>

\* The main thread takes the audio thread's next message: the sink first, then
\* its listeners.
MainReceives ==
  /\ toMain # <<>>
  /\ SinkHears(Head(toMain))
  /\ RepliesHear(Head(toMain))

\* The barge-in gate turns the voice down while a reply is audible, and up again
\* when the user stops or the reply does (VoiceSession's push and its listener).
Duck(r) ==
  /\ Live(r) /\ ~RanOut(r) /\ reply[r].started # {}
  /\ wanted = "unity" /\ Len(toAudio) < MaxInFlight
  /\ wanted' = "ducked"
  /\ SinkGain("ducked")
  /\ UNCHANGED <<reply, released>>

Unduck ==
  /\ wanted = "ducked" /\ Len(toAudio) < MaxInFlight
  /\ wanted' = "unity"
  /\ SinkGain("unity")
  /\ UNCHANGED <<reply, released>>

Audio(step) == step /\ UNCHANGED <<reply, released, wanted>>

\* The model and the voice of one reply: what `run` and its chain await.
Progress(r) ==
  \/ \E failing \in BOOLEAN : StreamEnds(r, failing)
  \/ Synthesise(r)
  \/ \E hasAudio \in BOOLEAN : Synthesised(r, hasAudio)
  \/ SynthesisFails(r)
  \/ Enqueue(r)
  \/ Finish(r)

Next ==
  \/ \E r \in Replies :
       Begin(r) \/ Release(r) \/ Chunk(r) \/ Progress(r) \/ Interrupt(r) \/ Duck(r)
  \/ Unduck
  \/ MainReceives
  \/ Audio(AudioReceives) \/ Audio(RenderStarts) \/ Audio(RenderEnds)
  \/ Audio(FadeCompletes)

\* Both threads keep taking their messages, the audio thread keeps rendering and
\* ramps reach their end, and providers settle every promise: the stream ends
\* and each synthesis returns or throws.  Nobody is obliged to release a hold.
Fairness ==
  /\ WF_vars(MainReceives)
  /\ WF_vars(Audio(AudioReceives))
  /\ WF_vars(Audio(RenderStarts) \/ Audio(RenderEnds))
  /\ WF_vars(Audio(FadeCompletes))
  /\ \A r \in Replies : WF_vars(Progress(r))

Spec == Init /\ [][Next]_vars

FairSpec == Spec /\ Fairness

-----------------------------------------------------------------------------
(* Properties.                                                               *)

Settled(r) == reply[r].state \in Outcomes

\* Nothing she never said is remembered as said: the segments a settled answer
\* counts as heard were rendered, all the way through if it says `complete`.
NothingImagined ==
  \A r \in Replies : Settled(r) =>
    /\ \A id \in reply[r].heard : rendered[id] # "none"
    /\ reply[r].state = "complete" => \A id \in Segments(r) : rendered[id] = "whole"

\* ReplyOutcome's "Every sentence was generated and played to its end"
\* (reply.ts:64): a complete answer's segments were rendered whole.
CompleteWasPlayed ==
  \A r \in Replies : reply[r].state = "complete" =>
    \A id \in Segments(r) : rendered[id] = "whole"

CountOf(channel, type) == Cardinality({i \in DOMAIN channel : channel[i].type = type})

\* The main thread waits for exactly the fade there is: a pending fadeOut promise
\* is one fade asked for, running or reported, so it always settles and no fade
\* runs that nobody is waiting for.
FadeIsAccountedFor ==
  CountOf(toAudio, "fade") + CountOf(toMain, "faded") + (IF fade # "none" THEN 1 ELSE 0)
    = (IF fadingOut THEN 1 ELSE 0)

Pending(r) ==
  Segments(r) \cap ({queue[i] : i \in DOMAIN queue}
    \cup {toAudio[i].arg : i \in {j \in DOMAIN toAudio : toAudio[j].type = "enqueue"}})

\* An answer that was stopped does not play on: while any of its audio is still
\* queued, or on its way to the queue, a fade that will drop it is running or on
\* its way too (interrupt, fadeOut).
InterruptIsObeyed ==
  \A r \in Replies :
    (reply[r].state \in {"interrupted", "abandoned"} /\ Pending(r) # {})
      => fade # "none" \/ CountOf(toAudio, "fade") > 0

\* Every answer whose turn is confirmed settles: no order of the stream, the
\* synthesis, the hold and the playback leaves `done` pending for ever.
EveryAnswerSettles ==
  \A r \in Replies : (Live(r) /\ r \in released) ~> Settled(r)

Spoken ==
  INSTANCE SpokenReply WITH
    standing <- [r \in Replies |->
      IF ~Live(r) THEN reply[r].state
      ELSE IF reply[r].started # {} THEN "audible" ELSE "working"]

\* A Reply keeps SpokenReply's promise to the session that started it.
KeepsSpokenReply == Spoken!Spec
=============================================================================
