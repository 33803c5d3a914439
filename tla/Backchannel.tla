----------------------------- MODULE Backchannel ------------------------------
(*****************************************************************************)
(* BackchannelScheduler (packages/core/src/backchannel/scheduler.ts): the    *)
(* "yeah" she says into a pause of the user's turn.  A clip is a segment of  *)
(* the sink the answers go to, and it turns down the one gain the barge-in   *)
(* gate turns down too.                                                      *)
(*                                                                           *)
(* The conversation is `listening` only while no answer is being made or     *)
(* played, and the gate has let go of the gain as it left `speaking`.        *)
(* Times are left out: how long the turn has been spoken and how long ago    *)
(* the last clip was is left open.  So is which clip it is.                  *)
(*****************************************************************************)
EXTENDS Reply

CONSTANTS
  Overlap,   \* options.overlap: what a clip does when the user speaks into it
  MaxClips   \* bound: clips played

ASSUME BackchannelAssumption ==
  /\ Overlap \in {"duck", "cut"}
  /\ MaxClips \in Nat

VARIABLES
  clip,    \* scheduler.playing
  clips    \* how many were played

clipVars == <<clip, clips>>

NoClip == [id |-> 0, overlapped |-> FALSE]

ClipInit ==
  /\ Init
  /\ clip = NoClip
  /\ clips = 0

Replying(step) == step /\ UNCHANGED clipVars

Listening == wanted = "unity" /\ \A r \in Replies : ~Live(r)

\* consider(...): the pause was judged unfinished, and nothing is playing.
Consider ==
  /\ Listening
  /\ clip = NoClip
  /\ clips < MaxClips
  /\ clip' = [NoClip EXCEPT !.id = NextId]
  /\ clips' = clips + 1
  /\ SinkEnqueue
  /\ UNCHANGED <<reply, released, wanted>>

\* push(frame): the user speaks into the clip.  An answer not yet audible would
\* have been abandoned on the same frame, just before; one that is audible has
\* started right behind the clip, whose end is still to be reported.
SpokenOver ==
  /\ \A r \in Replies : Live(r) => reply[r].started # {}
  /\ clip # NoClip /\ ~clip.overlapped
  /\ Len(toAudio) < MaxInFlight
  /\ clip' = [clip EXCEPT !.overlapped = TRUE]
  /\ IF Overlap = "duck" THEN SinkGain("ducked") ELSE SinkFadeOut
  /\ UNCHANGED <<reply, released, wanted, clips>>

\* Mutant: a clip that is over keeps the gain it took.
GivesNothingBack(c) == <<>>

\* finished(playing): the gain a duck took is given back.
GivesBack(c) ==
  IF c.overlapped /\ Overlap = "duck" THEN <<Message("gain", "unity")>> ELSE <<>>

\* The clip's end, whoever ended it; and the fade that was to cut it.
IsOver(m) ==
  /\ clip # NoClip
  /\ \/ m.type = "ended" /\ m.arg = clip.id
     \/ m.type = "faded" /\ clip.overlapped /\ Overlap = "cut"

\* The main thread takes the audio thread's next message: the sink first, then
\* the replies and the scheduler, which the order between them is all one to.
Receives ==
  /\ toMain # <<>>
  /\ LET m == Head(toMain) IN
       /\ SinkHearsAndPosts(m, IF IsOver(m) THEN GivesBack(clip) ELSE <<>>)
       /\ RepliesHear(m)
       /\ clip' = IF IsOver(m) THEN NoClip ELSE clip
  /\ UNCHANGED clips

\* dispose(), as the call is hung up: the clip plays on, at the gain of an answer.
DisposeScheduler ==
  /\ clip # NoClip
  /\ Len(toAudio) < MaxInFlight
  /\ clip' = NoClip
  /\ toAudio' = toAudio \o GivesBack(clip)
  /\ UNCHANGED <<reply, released, wanted, toMain, clips>>
  /\ UNCHANGED mainVars
  /\ UNCHANGED audioVars

ClipNext ==
  \/ \E r \in Replies :
       \/ Replying(Begin(r)) \/ Replying(Release(r)) \/ Replying(Chunk(r))
       \/ Replying(Progress(r)) \/ Replying(Interrupt(r)) \/ Replying(Duck(r))
  \/ Replying(Unduck)
  \/ Replying(Audio(AudioReceives)) \/ Replying(Audio(RenderStarts))
  \/ Replying(Audio(RenderEnds)) \/ Replying(Audio(FadeCompletes))
  \/ Receives
  \/ Consider \/ SpokenOver \/ DisposeScheduler

ClipSpec == ClipInit /\ [][ClipNext]_<<vars, clipVars>>

-----------------------------------------------------------------------------
(* Properties.                                                               *)

\* Something is on its way that will change the gain.
Settling ==
  \/ CountOf(toAudio, "gain") + CountOf(toAudio, "fade") > 0
  \/ fade # "none"
  \/ \E i \in DOMAIN toMain : toMain[i] = Message("ended", clip.id)

\* Once every order has arrived, the voice is down only while the gate has it
\* down or the user speaks into a clip that still plays: a duck outlives neither
\* its answer nor its clip, whatever fades and orders crossed on the way.  Until
\* a clip is played the gate's duck is obeyed too; afterwards a clip's end may
\* undo it, when the answer behind the clip is talked over before that end is
\* reported (process() posts a quantum's `started` first).
GainHasAReason ==
  \/ Settling
  \/ /\ gain = "ducked" => wanted = "ducked" \/ (clip.overlapped /\ Overlap = "duck")
     /\ wanted = "ducked" /\ clips = 0 => gain = "ducked"
=============================================================================
