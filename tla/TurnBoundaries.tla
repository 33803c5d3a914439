---------------------------- MODULE TurnBoundaries ----------------------------
(*****************************************************************************)
(* What TurnDetector (packages/core/src/turn/detector.ts) promises whoever   *)
(* subscribes to it, with frames, audio and candidates left out: turns are   *)
(* numbered and open one at a time, each ends once, and an end the judge     *)
(* made may be taken back, by turn-resumed for the same turn, only by a      *)
(* frame that arrives before the moment the turn-end itself announced        *)
(* (confirmedAt).  A hangover end is final (ADR-25).                         *)
(* TurnDetector is shown to implement this module; VoiceSession is built on  *)
(* it.                                                                       *)
(*****************************************************************************)
EXTENDS Naturals

CONSTANTS
  Window    \* the longest a judge's end stays open to retraction (hangoverMs)

VARIABLES
  clock,    \* `at` of the last frame
  turn,     \* the last turn opened (turnId)
  phase,    \* "quiet", "talking" or "provisional"
  finalAt,  \* confirmedAt of the end that may still be retracted, or 0
  said      \* the boundary event of the last step, or NoEvent

boundaryVars == <<clock, turn, phase, finalAt, said>>

Phases == {"quiet", "talking", "provisional"}

BoundaryTypes == {"none", "speech-start", "turn-end", "turn-resumed"}

Boundary(type, id, at) == [type |-> type, turn |-> id, at |-> at]

NoEvent == Boundary("none", 0, 0)

Boundaries == [type : BoundaryTypes, turn : Nat, at : Nat]

\* Silero's probability for a frame against the two thresholds: "low" is under
\* speechOff, "high" is at least speechOn, "mid" is between them.
Levels == {"low", "mid", "high"}

Init ==
  /\ clock = 0
  /\ turn = 0
  /\ phase = "quiet"
  /\ finalAt = 0
  /\ said = NoEvent

\* A new turn opens.  A turn that may still be retracted is resumed instead.
Start(at) ==
  /\ phase # "talking"
  /\ phase = "provisional" => at >= finalAt
  /\ phase' = "talking"
  /\ turn' = turn + 1
  /\ finalAt' = 0
  /\ said' = Boundary("speech-start", turn + 1, at)

\* Speech came back before the judge's end was final: the same turn goes on.
Resume(at) ==
  /\ phase = "provisional"
  /\ at < finalAt
  /\ phase' = "talking"
  /\ finalAt' = 0
  /\ said' = Boundary("turn-resumed", turn, at)
  /\ UNCHANGED turn

\* A frame that opens and closes nothing.  It may carry the clock past finalAt.
Pass(at) ==
  /\ IF phase = "provisional" /\ at >= finalAt
     THEN phase' = "quiet" /\ finalAt' = 0
     ELSE UNCHANGED <<phase, finalAt>>
  /\ said' = NoEvent
  /\ UNCHANGED turn

\* The backstop: final at once, confirmedAt is the frame's own time.
EndByHangover(at) ==
  /\ phase = "talking"
  /\ phase' = "quiet"
  /\ finalAt' = 0
  /\ said' = Boundary("turn-end", turn, at)
  /\ UNCHANGED turn

\* One frame of audio at time `at`: a turn opens or resumes only on speech, and
\* the backstop only closes one on silence.
Frame(level, at) ==
  /\ at > clock
  /\ clock' = at
  /\ \/ level = "high" /\ Start(at)
     \/ level = "high" /\ Resume(at)
     \/ (phase = "talking" \/ level # "high") /\ Pass(at)
     \/ level = "low" /\ EndByHangover(at)

\* The judge's answer, between two frames: the turn is over, not yet for good.
EndByModel ==
  /\ phase = "talking"
  /\ phase' = "provisional"
  /\ \E at \in (clock + 1) .. (clock + Window) :
       /\ finalAt' = at
       /\ said' = Boundary("turn-end", turn, at)
  /\ UNCHANGED <<clock, turn>>

\* reset(): the utterance is dropped and no event says so.
Drop ==
  /\ phase' = "quiet"
  /\ finalAt' = 0
  /\ said' = NoEvent
  /\ UNCHANGED <<clock, turn>>

\* An answer that ends nothing.
NoBoundary ==
  /\ said' = NoEvent
  /\ UNCHANGED <<clock, turn, phase, finalAt>>

Next ==
  \/ \E level \in Levels : clock' \in Nat /\ Frame(level, clock')
  \/ EndByModel
  \/ Drop
  \/ NoBoundary

Spec == Init /\ [][Next]_boundaryVars
=============================================================================
