----------------------------- MODULE BargeInWatch ------------------------------
(*****************************************************************************)
(* A BargeInGate through one answer after another: armed when the character  *)
(* becomes audible, fed frames, disarmed when she stops.  The frames heard   *)
(* since it was armed are kept, so that what the gate did can be compared    *)
(* with what those frames call for.                                          *)
(*****************************************************************************)
EXTENDS BargeInGate, Sequences, FiniteSets

CONSTANTS
  MaxHeard   \* bound: frames pushed while one answer is audible

ASSUME WatchAssumption == MaxHeard \in Nat

VARIABLES
  gate,
  heard,  \* the levels of the frames since the gate was armed
  voice   \* the sink's gain, as the gate's owner sets it: "unity" or "ducked"

vars == <<gate, heard, voice>>

Levels == {"low", "mid", "high"}

Init ==
  /\ gate = disarmedGate
  /\ heard = <<>>
  /\ voice = "unity"

\* The owner does what the gate tells it: a commit leaves the gain to the fade,
\* which restores it.
Obey(told) ==
  /\ gate' = told.gate
  /\ voice' = CASE told.action = "duck" -> "ducked"
                [] told.action = "none" -> voice
                [] OTHER -> "unity"

Arm ==
  /\ gate.kind = "disarmed"
  /\ gate' = arm(gate)
  /\ heard' = <<>>
  /\ UNCHANGED voice

Disarm ==
  /\ Obey(disarm(gate))
  /\ heard' = <<>>

Push(level) ==
  /\ gate.kind # "disarmed"
  /\ Len(heard) < MaxHeard
  /\ Obey(push(gate, level))
  /\ heard' = Append(heard, level)

Next ==
  \/ Arm
  \/ Disarm
  \/ \E level \in Levels : Push(level)

Spec == Init /\ [][Next]_vars

-----------------------------------------------------------------------------
(* What the frames call for, read off the whole of them.                     *)

\* Frames i + 1 .. n hold a silence long enough to let the voice go.
FallsSilent(i, n) ==
  \E j \in i .. n :
    /\ j + ReleaseFrames <= n
    /\ \A k \in (j + 1) .. (j + ReleaseFrames) : heard[k] = "low"

\* The user has been talking from frame i to frame n.
TalksFrom(i, n) == heard[i] = "high" /\ ~FallsSilent(i, n)

SpeechIn(i, n) == Cardinality({k \in i .. n : heard[k] # "low"})

\* By some frame the user had kept talking for as long as an interruption takes.
Sustained ==
  \E n \in DOMAIN heard : \E i \in 1 .. n :
    TalksFrom(i, n) /\ SpeechIn(i, n) >= BargeInFrames

Talking == \E i \in DOMAIN heard : TalksFrom(i, Len(heard))

\* The answer is cut exactly when the user has talked, without a long enough
\* silence, for long enough: never for a cough, and never too late (barge-in.ts
\* "commit once bargeInMs of speech has been heard").
CutsWhenTalkedOver == gate.kind # "disarmed" => (gate.kind = "committed") = Sustained

\* The voice is turned down exactly while someone talks over it and has not cut
\* it: no silence, cut or end of the answer leaves it down.
DuckedWhileTalking ==
  (voice = "ducked") = (gate.kind # "disarmed" /\ Talking /\ ~Sustained)
=============================================================================
