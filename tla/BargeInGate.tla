------------------------------ MODULE BargeInGate ------------------------------
(*****************************************************************************)
(* BargeInGate (packages/core/src/reply/barge-in.ts): when the user talking  *)
(* over the character becomes an interruption.  The voice is ducked on the   *)
(* first frame of speech, cut once enough speech has been heard, and let go  *)
(* if the user falls silent first.                                           *)
(*                                                                           *)
(* A gate is a record and its methods are operators on it.  Every frame      *)
(* covers the same audio (512 samples), so durations count frames.           *)
(*****************************************************************************)
EXTENDS Naturals

CONSTANTS
  BargeInFrames,  \* bargeInMs
  ReleaseFrames   \* releaseMs

\* The constructor's RangeErrors.
ASSUME GateAssumption ==
  /\ BargeInFrames \in Nat
  /\ ReleaseFrames \in Nat \ {0}

GateKinds == {"disarmed", "listening", "ducked", "committed"}

Gate(kind, voiced, silent) == [kind |-> kind, voiced |-> voiced, silent |-> silent]

disarmedGate == Gate("disarmed", 0, 0)

listeningGate == Gate("listening", 0, 0)

committedGate == Gate("committed", 0, 0)

ducked(gate) == gate.kind = "ducked"

\* The character is audible.
arm(gate) == IF gate.kind = "disarmed" THEN listeningGate ELSE gate

\* A gate, and what it tells its owner to do: "none", "duck", "unduck" or "commit".
Told(gate, action) == [gate |-> gate, action |-> action]

\* Mutant: the voice is left ducked for whatever plays next.
disarmSilently(gate) == Told(disarmedGate, "none")

\* The character stopped: a voice left ducked is let go.
disarm(gate) == Told(disarmedGate, IF ducked(gate) THEN "unduck" ELSE "none")

\* Mutant: the silences between words add up.
voicedFrameKeepsSilence(gate) ==
  IF gate.voiced + 1 >= BargeInFrames THEN Told(committedGate, "commit")
  ELSE Told([gate EXCEPT !.voiced = @ + 1], "none")

\* Speech goes on while ducked.
voicedFrame(gate) ==
  IF gate.voiced + 1 >= BargeInFrames THEN Told(committedGate, "commit")
  ELSE Told(Gate("ducked", gate.voiced + 1, 0), "none")

\* A frame of silence while ducked.
silentFrame(gate) ==
  IF gate.silent + 1 >= ReleaseFrames THEN Told(listeningGate, "unduck")
  ELSE Told([gate EXCEPT !.silent = @ + 1], "none")

\* The first frame of speech.
firstFrame ==
  IF BargeInFrames <= 1 THEN Told(committedGate, "commit")
  ELSE Told(Gate("ducked", 1, 0), "duck")

\* push(probability, durationMs): "high" is at least speechOn, "low" is under
\* speechOff, the two thresholds being the detector's.
push(gate, level) ==
  CASE gate.kind = "listening" /\ level = "high" -> firstFrame
    [] gate.kind = "ducked" /\ level # "low" -> voicedFrame(gate)
    [] gate.kind = "ducked" /\ level = "low" -> silentFrame(gate)
    [] OTHER -> Told(gate, "none")
=============================================================================
