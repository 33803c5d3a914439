------------------------------- MODULE Playback -------------------------------
(*****************************************************************************)
(* The output side of a conversation: BrowserAudioOutput on the main thread, *)
(* PlaybackRenderer on the audio thread (packages/providers/src/audio), and  *)
(* the message port between them.  Ports keep order and lose nothing, but a  *)
(* message takes time, so each side acts on what the other was.              *)
(*                                                                           *)
(* A segment is its id; its samples are abstracted to whether rendering has  *)
(* begun and ended.  Gain is unity or ducked, and a fade is a ramp of        *)
(* unknown length.                                                           *)
(*****************************************************************************)
EXTENDS Naturals, Sequences, FiniteSets

VARIABLES
  rendered,  \* how much of each segment was ever audible: "none", "partly" or
             \* "whole"; nextId - 1 long
  playing,   \* main: segments with startedAt set and not ended
  fadingOut, \* main: a fadeOut promise is pending
  toAudio,   \* main -> audio thread
  toMain,    \* audio thread -> main
  queue,     \* audio: renderer.queue, ids
  headRead,  \* audio: the head of the queue has been read from (read > 0)
  fade,      \* audio: "none", "ramping", or "silent" once the gain is zero
  gain       \* audio: the target the gain ramps to when no fade runs, "unity"
             \* or "ducked"

sinkVars == <<rendered, playing, fadingOut, toAudio, toMain, queue, headRead,
              fade, gain>>

mainVars == <<rendered, playing, fadingOut>>
audioVars == <<queue, headRead, fade, gain>>

Message(type, arg) == [type |-> type, arg |-> arg]

SinkInit ==
  /\ rendered = <<>>
  /\ playing = {}
  /\ fadingOut = FALSE
  /\ toAudio = <<>>
  /\ toMain = <<>>
  /\ queue = <<>>
  /\ headRead = FALSE
  /\ fade = "none"
  /\ gain = "unity"

-----------------------------------------------------------------------------
(* The sink's methods, for the handlers that call them.                      *)

NextId == Len(rendered) + 1

\* enqueue(segment): the new segment's id is NextId.
SinkEnqueue ==
  /\ rendered' = Append(rendered, "none")
  /\ toAudio' = Append(toAudio, Message("enqueue", NextId))
  /\ UNCHANGED <<playing, fadingOut, toMain>>
  /\ UNCHANGED audioVars

\* duck() and unduck().
SinkGain(target) ==
  /\ toAudio' = Append(toAudio, Message("gain", target))
  /\ UNCHANGED <<toMain>>
  /\ UNCHANGED mainVars
  /\ UNCHANGED audioVars

\* Mutant: every call asks the audio thread for a fade of its own.
SinkFadeOutAgain ==
  /\ fadingOut' = TRUE
  /\ toAudio' = Append(toAudio, Message("fade", 0))
  /\ UNCHANGED <<rendered, playing, toMain>>
  /\ UNCHANGED audioVars

\* fadeOut(ms): a second call while one is pending shares its promise and posts
\* nothing.
SinkFadeOut ==
  /\ fadingOut' = TRUE
  /\ toAudio' = IF fadingOut THEN toAudio ELSE Append(toAudio, Message("fade", 0))
  /\ UNCHANGED <<rendered, playing, toMain>>
  /\ UNCHANGED audioVars

\* position(): the segment that started last and has not ended, or 0.
Position == IF playing = {} THEN 0 ELSE CHOOSE id \in playing : \A p \in playing : p <= id

-----------------------------------------------------------------------------
(* The audio thread.                                                         *)

\* renderer.fade: nothing queued, nothing to fade, so the gain is zero at once.
FadeRequested ==
  IF fade # "none" THEN fade
  ELSE IF queue = <<>> THEN "silent" ELSE "ramping"

\* renderer.setGain: ignored while a fade runs.
GainRequested(target) == IF fade = "none" THEN target ELSE gain

\* The processor's port listener takes the next message.
AudioReceives ==
  /\ toAudio # <<>>
  /\ toAudio' = Tail(toAudio)
  /\ LET m == Head(toAudio) IN
       CASE m.type = "enqueue" ->
              queue' = Append(queue, m.arg) /\ UNCHANGED <<headRead, fade, gain>>
         [] m.type = "gain" ->
              gain' = GainRequested(m.arg) /\ UNCHANGED <<queue, headRead, fade>>
         [] m.type = "fade" ->
              fade' = FadeRequested /\ UNCHANGED <<queue, headRead, gain>>
  /\ UNCHANGED <<toMain>>
  /\ UNCHANGED mainVars

\* A render quantum in which the head's first frame is written.
RenderStarts ==
  /\ queue # <<>> /\ ~headRead
  /\ fade # "silent"
  /\ headRead' = TRUE
  /\ rendered' = [rendered EXCEPT ![Head(queue)] = "partly"]
  /\ toMain' = Append(toMain, Message("started", Head(queue)))
  /\ UNCHANGED <<playing, fadingOut, toAudio, queue, fade, gain>>

\* A quantum in which the head's last frame is written.  With another segment
\* behind it that one starts in the same quantum, and process() posts every
\* `started` of a quantum before its `ended`s.
RenderEnds ==
  /\ queue # <<>> /\ headRead
  /\ fade # "silent"
  /\ queue' = Tail(queue)
  /\ headRead' = (Tail(queue) # <<>>)
  /\ IF Tail(queue) = <<>>
     THEN /\ rendered' = [rendered EXCEPT ![Head(queue)] = "whole"]
          /\ toMain' = Append(toMain, Message("ended", Head(queue)))
     ELSE /\ rendered' = [rendered EXCEPT ![Head(queue)] = "whole", ![queue[2]] = "partly"]
          /\ toMain' = toMain \o <<Message("started", queue[2]), Message("ended", Head(queue))>>
  /\ UNCHANGED <<playing, fadingOut, toAudio, fade, gain>>

\* Mutant: the gain is left where the duck put it.
FadeLeavesGain == UNCHANGED gain

\* The gain the renderer restores for whatever is queued next.
FadeRestoresGain == gain' = "unity"

\* The quantum in which the fade reaches silence: everything queued is dropped
\* and reported ended.  A head that was never read is read once, at zero gain.
FadeCompletes ==
  /\ fade # "none"
  /\ fade' = "none"
  /\ FadeRestoresGain
  /\ queue' = <<>>
  /\ headRead' = FALSE
  /\ toMain' = toMain
       \o (IF queue # <<>> /\ ~headRead THEN <<Message("started", Head(queue))>> ELSE <<>>)
       \o [i \in DOMAIN queue |-> Message("ended", queue[i])]
       \o <<Message("faded", 0)>>
  /\ UNCHANGED toAudio
  /\ UNCHANGED mainVars

-----------------------------------------------------------------------------
(* onMessage on the main thread: the sink's own part.  What it emits to its  *)
(* listeners is theirs to act on, with orders of their own perhaps.          *)

SinkHearsAndPosts(m, posts) ==
  /\ playing' = CASE m.type = "started" -> playing \cup {m.arg}
                  [] m.type = "ended" -> playing \ {m.arg}
                  [] OTHER -> playing
  /\ fadingOut' = (fadingOut /\ m.type # "faded")
  /\ toMain' = Tail(toMain)
  /\ toAudio' = toAudio \o posts
  /\ UNCHANGED rendered
  /\ UNCHANGED audioVars

SinkHears(m) == SinkHearsAndPosts(m, <<>>)

=============================================================================
