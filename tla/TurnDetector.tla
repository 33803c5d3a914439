----------------------------- MODULE TurnDetector -----------------------------
(*****************************************************************************)
(* TurnDetector<R> of packages/core/src/turn/detector.ts: VAD frames in,     *)
(* turn events out.  A pause of candidateMs offers the utterance so far to   *)
(* the judge; a confident answer ends the turn provisionally, hangoverMs of  *)
(* silence ends it for good, and speech inside the hangover takes a          *)
(* provisional end back.  The judge answers whenever it likes, or never.     *)
(*                                                                           *)
(* A frame of audio is its capture number; times are ticks of the frames'    *)
(* clock.  Audio statistics, utterance timestamps and probabilities are left *)
(* out.  `superseded` stands for the candidate's cancellation too: the code  *)
(* sets the state and aborts in the same statements, always together.        *)
(*****************************************************************************)
EXTENDS Naturals, Sequences

CONSTANTS
  CandidateAfter,  \* candidateMs, in ticks
  Hangover,        \* hangoverMs, in ticks
  Preroll,         \* prerollMs, in frames
  Gaps,            \* how far apart two frames may be, in ticks
  MaxNow           \* bound: the last time a frame is pushed

\* The constructor's RangeError (a candidate at or after the hangover would
\* never be offered), and a clock that moves.
ASSUME DetectorAssumption ==
  /\ CandidateAfter \in Nat
  /\ Hangover \in Nat
  /\ CandidateAfter < Hangover
  /\ Preroll \in Nat
  /\ Gaps \subseteq Nat \ {0}
  /\ MaxNow \in Nat

VARIABLES
  now,           \* `at` of the last frame pushed
  captured,      \* how many frames have been pushed: the last frame's number
  speaking,
  turnId,
  preroll,       \* preroll.frames
  utterance,     \* every frame of the turn so far
  lastSpeechAt,
  candidate,     \* the live candidate's id, or None
  cands,         \* every candidate offered, by id: candidateId is its length
  provisional,   \* the turn the judge ended, while speech could retract it
  out            \* the events emitted by the last call, in order

vars == <<now, captured, speaking, turnId, preroll, utterance, lastSpeechAt,
          candidate, cands, provisional, out>>

None == 0

NotProvisional == [candidate |-> None, frames |-> <<>>]

CandidateStates == {"open", "superseded", "won", "hangover"}

EventTypes == {"speech-start", "candidate", "judged", "speech-end", "turn-end",
               "turn-resumed", "late", "judge-error"}

Levels == {"low", "mid", "high"}

\* One event; `at` is confirmedAt of a turn-end, and the event's own `at` otherwise.
Event(type, id, at) == [type |-> type, turn |-> id, at |-> at]

Init ==
  /\ now = 0
  /\ captured = 0
  /\ speaking = FALSE
  /\ turnId = 0
  /\ preroll = <<>>
  /\ utterance = <<>>
  /\ lastSpeechAt = 0
  /\ candidate = None
  /\ cands = <<>>
  /\ provisional = NotProvisional
  /\ out = <<>>

-----------------------------------------------------------------------------
(* The helpers of a frame.  `frame` is the new frame's number.               *)

frame == captured + 1

IsProvisional == provisional.candidate # None

\* Mutant: the ring is never trimmed.
KeepPrerollWhole(kept) == kept

\* keepPreroll: the fewest of the last frames that still cover the pre-roll.
KeepPreroll(kept) ==
  LET excess == IF Len(kept) > Preroll /\ Len(kept) > 1 THEN 2 ELSE 1
  IN  SubSeq(kept, excess, Len(kept))

\* Mutant: the window closes one tick late.
RetractableAtTheEdge(at) ==
  IsProvisional /\ at - cands[provisional.candidate].speechEndAt <= Hangover

\* Whether a frame at `at` is still inside the pause the judge ended the turn in.
RetractableAt(at) ==
  IsProvisional /\ at - cands[provisional.candidate].speechEndAt < Hangover

\* The candidate offerCandidate builds on the frames heard so far.
Offered(frames) ==
  [turn |-> turnId, audio |-> frames, speechEndAt |-> lastSpeechAt,
   state |-> "open", judging |-> TRUE]

\* Mutant: resuming forgets the frame that resumed it.
ResumedWithoutFrame == provisional.frames

\* Mutant: resuming starts over from the pre-roll, as a new turn would.
ResumedFromPreroll == KeepPreroll(Append(preroll, frame))

\* The utterance a resumed turn goes on with.
Resumed == Append(provisional.frames, frame)

\* Mutant: the candidate is let go without being marked.
SupersededUnmarked(list, c) == list

Superseded(list, c) == [list EXCEPT ![c].state = "superseded"]

\* endTurn's two events: when speech stopped, and when the end is final.
TurnEnd(id, speechEndAt, confirmedAt) ==
  <<Event("speech-end", id, speechEndAt), Event("turn-end", id, confirmedAt)>>

-----------------------------------------------------------------------------
(* push(frame): one action per way through it.  The shared part is the       *)
(* frame's arrival.                                                          *)

FrameAt(at) ==
  /\ at <= MaxNow
  /\ now' = at
  /\ captured' = frame

\* Speech inside the backstop's window: resumeTurn.
ResumeTurn(level, at) ==
  /\ ~speaking
  /\ RetractableAt(at)
  /\ level = "high"
  /\ FrameAt(at)
  /\ speaking' = TRUE
  /\ utterance' = Resumed
  /\ lastSpeechAt' = at
  /\ cands' = Superseded(cands, provisional.candidate)
  /\ provisional' = NotProvisional
  /\ preroll' = <<>>
  /\ out' = <<Event("turn-resumed", cands[provisional.candidate].turn, at)>>
  /\ UNCHANGED <<turnId, candidate>>

\* Speech with nothing to resume: startSpeech, on the pre-roll that now holds
\* this frame.
StartSpeech(level, at) ==
  /\ ~speaking
  /\ ~RetractableAt(at)
  /\ level = "high"
  /\ FrameAt(at)
  /\ provisional' = NotProvisional
  /\ speaking' = TRUE
  /\ turnId' = turnId + 1
  /\ lastSpeechAt' = at
  /\ utterance' = KeepPreroll(Append(preroll, frame))
  /\ preroll' = <<>>
  /\ out' = <<Event("speech-start", turnId + 1, at)>>
  /\ UNCHANGED <<candidate, cands>>

\* No speech and no turn: the frame goes to the pre-roll, and to the turn that
\* may still be resumed until its window closes.
StayQuiet(level, at) ==
  /\ ~speaking
  /\ level # "high"
  /\ FrameAt(at)
  /\ provisional' = IF RetractableAt(at)
                    THEN [provisional EXCEPT !.frames = Append(@, frame)]
                    ELSE NotProvisional
  /\ preroll' = KeepPreroll(Append(preroll, frame))
  /\ out' = <<>>
  /\ UNCHANGED <<speaking, turnId, utterance, lastSpeechAt, candidate, cands>>

\* Speech goes on; a candidate offered in the pause is about words that are no
\* longer the end of anything.
KeepTalking(level, at) ==
  /\ speaking
  /\ level \in {"mid", "high"}
  /\ FrameAt(at)
  /\ utterance' = Append(utterance, frame)
  /\ lastSpeechAt' = at
  /\ cands' = IF candidate # None THEN Superseded(cands, candidate) ELSE cands
  /\ candidate' = None
  /\ out' = <<>>
  /\ UNCHANGED <<speaking, turnId, preroll, provisional>>

\* A pause frame short of the hangover: one candidate per pause.
Pause(level, at) ==
  LET offering == candidate = None /\ at - lastSpeechAt >= CandidateAfter
  IN  /\ speaking
      /\ level = "low"
      /\ at - lastSpeechAt < Hangover
      /\ FrameAt(at)
      /\ utterance' = Append(utterance, frame)
      /\ cands' = IF offering THEN Append(cands, Offered(utterance')) ELSE cands
      /\ candidate' = IF offering THEN Len(cands) + 1 ELSE candidate
      /\ out' = IF offering THEN <<Event("candidate", turnId, at)>> ELSE <<>>
      /\ UNCHANGED <<speaking, turnId, preroll, lastSpeechAt, provisional>>

\* endTurn('hangover'): if one frame jumped the whole pause the candidate is
\* offered first, in the same call.
HangoverEnd(level, at) ==
  LET heard == Append(utterance, frame)
      offered == IF candidate = None THEN Append(cands, Offered(heard)) ELSE cands
      ended == IF candidate = None THEN Len(cands) + 1 ELSE candidate
  IN  /\ speaking
      /\ level = "low"
      /\ at - lastSpeechAt >= Hangover
      /\ FrameAt(at)
      /\ cands' = [offered EXCEPT ![ended].state = "hangover"]
      /\ speaking' = FALSE
      /\ utterance' = <<>>
      /\ candidate' = None
      /\ preroll' = <<>>
      /\ out' = (IF candidate = None THEN <<Event("candidate", turnId, at)>> ELSE <<>>)
                  \o TurnEnd(turnId, offered[ended].speechEndAt, at)
      /\ UNCHANGED <<turnId, lastSpeechAt, provisional>>

Push(level, at) ==
  \/ ResumeTurn(level, at)
  \/ StartSpeech(level, at)
  \/ StayQuiet(level, at)
  \/ KeepTalking(level, at)
  \/ Pause(level, at)
  \/ HangoverEnd(level, at)

-----------------------------------------------------------------------------
(* The judge's promise settles: at any time after it was asked, for any      *)
(* candidate, and at most once.                                              *)

Answered(c) == [cands EXCEPT ![c].judging = FALSE]

\* Mutant: any answer but a late one may end the turn.
LiveUnlessLate(c) == cands[c].state # "hangover"

\* onAnswer's test that the answer is about the pause the user is in now.
Live(c) == cands[c].state = "open" /\ candidate = c

\* onAnswer at or over the threshold for the live candidate: endTurn('model').
\* The turn ends with the frames that were offered, and stays provisional.
ModelEnd(c) ==
  /\ cands[c].judging
  /\ Live(c)
  /\ cands' = [Answered(c) EXCEPT ![c].state = "won"]
  /\ provisional' = [candidate |-> c, frames |-> utterance]
  /\ speaking' = FALSE
  /\ utterance' = <<>>
  /\ candidate' = None
  /\ preroll' = <<>>
  /\ out' = <<Event("judged", cands[c].turn, now)>>
              \o TurnEnd(turnId, cands[c].speechEndAt, cands[c].speechEndAt + Hangover)
  /\ UNCHANGED <<now, captured, turnId, lastSpeechAt>>

\* onAnswer that ends nothing: under the threshold, late, or about a window
\* that speech has reopened.
IdleAnswer(c) ==
  /\ cands[c].judging
  /\ cands' = Answered(c)
  /\ out' = CASE cands[c].state = "hangover" -> <<Event("late", cands[c].turn, now)>>
              [] cands[c].state = "open" -> <<Event("judged", cands[c].turn, now)>>
              [] OTHER -> <<>>
  /\ UNCHANGED <<now, captured, speaking, turnId, preroll, utterance,
                 lastSpeechAt, candidate, provisional>>

\* onJudgeError: a rejection, or an answer that is not a probability.
JudgeError(c) ==
  /\ cands[c].judging
  /\ cands' = Answered(c)
  /\ out' = IF cands[c].state = "superseded" THEN <<>>
            ELSE <<Event("judge-error", cands[c].turn, now)>>
  /\ UNCHANGED <<now, captured, speaking, turnId, preroll, utterance,
                 lastSpeechAt, candidate, provisional>>

\* reset(): the microphone or the session stopped.
Reset ==
  /\ cands' = IF candidate # None THEN Superseded(cands, candidate) ELSE cands
  /\ provisional' = NotProvisional
  /\ speaking' = FALSE
  /\ utterance' = <<>>
  /\ candidate' = None
  /\ preroll' = <<>>
  /\ out' = <<>>
  /\ UNCHANGED <<now, captured, turnId, lastSpeechAt>>

Next ==
  \/ \E level \in Levels, gap \in Gaps : Push(level, now + gap)
  \/ \E c \in DOMAIN cands : ModelEnd(c) \/ IdleAnswer(c) \/ JudgeError(c)
  \/ Reset

Spec == Init /\ [][Next]_vars

-----------------------------------------------------------------------------
(* Properties.                                                               *)

Candidates ==
  [turn : Nat, audio : Seq(Nat), speechEndAt : Nat, state : CandidateStates,
   judging : BOOLEAN]

\* Every variable holds a value of its type, and the pre-roll ring never keeps
\* more frames than cover prerollMs (keepPreroll).
TypeOK ==
  /\ now \in Nat /\ captured \in Nat /\ turnId \in Nat /\ lastSpeechAt \in Nat
  /\ speaking \in BOOLEAN
  /\ preroll \in Seq(Nat) /\ utterance \in Seq(Nat)
  /\ Len(preroll) <= IF Preroll = 0 THEN 1 ELSE Preroll
  /\ cands \in Seq(Candidates)
  /\ candidate \in 0 .. Len(cands)
  /\ provisional \in [candidate : 0 .. Len(cands), frames : Seq(Nat)]
  /\ out \in Seq([type : EventTypes, turn : Nat, at : Nat])

\* `frames` is the last Len(frames) frames captured: none missing, none twice.
RunsToNow(frames) ==
  /\ Len(frames) <= captured
  /\ \A i \in DOMAIN frames : frames[i] = captured - Len(frames) + i

StartsWith(frames, head) ==
  /\ Len(head) <= Len(frames)
  /\ \A i \in DOMAIN head : frames[i] = head[i]

\* The buffer a turn in progress, or one that may be resumed, would go on with.
TurnFrames == IF speaking THEN utterance ELSE provisional.frames

TurnIsOpen == speaking \/ IsProvisional

\* A turn's audio is gapless up to the frame just heard, through pauses, an end
\* that was taken back and the pre-roll (push, resumeTurn, keepPreroll): the
\* words before a retracted end are never lost to the recogniser.
NoFrameLost ==
  /\ TurnIsOpen => RunsToNow(TurnFrames)
  /\ RunsToNow(preroll)

\* Each candidate of a turn hears everything the turn's earlier candidates
\* heard (resumeTurn: "covers the whole utterance rather than its tail").
TurnNeverShrinks ==
  \A c, d \in DOMAIN cands :
    (c < d /\ cands[c].turn = cands[d].turn) => StartsWith(cands[d].audio, cands[c].audio)

\* Only a judgement about the user's last words can end the turn: the live
\* candidate and the provisional one both date from the last speech heard, and
\* whatever the order answers come in, no other candidate is still open.
EndsWhereSpeechEnded ==
  /\ candidate # None => cands[candidate].speechEndAt = lastSpeechAt
  /\ IsProvisional => cands[provisional.candidate].speechEndAt = lastSpeechAt
  /\ \A c \in DOMAIN cands : cands[c].state = "open" <=> c = candidate

\* The hangover backstops every frame: neither a turn nor the right to retract
\* one outlives hangoverMs of silence (push).
BackstopHolds == TurnIsOpen => now - lastSpeechAt < Hangover

\* The event of `out` that opens, ends or reopens a turn: the last one.
LastBoundary ==
  IF out # <<>> /\ out[Len(out)].type \in {"speech-start", "turn-end", "turn-resumed"}
  THEN out[Len(out)]
  ELSE Event("none", 0, 0)

Boundaries ==
  INSTANCE TurnBoundaries WITH
    Window <- Hangover,
    clock <- now,
    turn <- turnId,
    phase <- IF speaking THEN "talking"
             ELSE IF IsProvisional THEN "provisional" ELSE "quiet",
    finalAt <- IF IsProvisional
               THEN cands[provisional.candidate].speechEndAt + Hangover ELSE 0,
    said <- LastBoundary

\* The detector keeps TurnBoundaries' promise: one turn at a time, one end per
\* turn unless the same turn is resumed, and no retraction at or after the
\* confirmedAt its turn-end announced (ADR-25), however late the judge answers.
KeepsBoundaries == Boundaries!Spec
=============================================================================
