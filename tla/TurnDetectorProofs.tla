-------------------------- MODULE TurnDetectorProofs ---------------------------
(*****************************************************************************)
(* What holds of TurnDetector for every choice of its windows, frame gaps    *)
(* and bounds, proved with the TLA+ proof system.  The inductive invariant   *)
(* is its type, where speech ended, the backstop, and which of speaking,     *)
(* candidate and provisional may be set together.  From it: the detector     *)
(* implements TurnBoundaries; and, with what the ring and the turn hold, a   *)
(* turn's audio is every frame up to the one just heard, and all that any of *)
(* its candidates was judged on.                                             *)
(*****************************************************************************)
EXTENDS TurnDetector, SequenceTheorems, TLAPS

\* At most one of a live candidate's turn and a provisional end is open, and
\* both are about the turn the detector is in.
OneOpenTurn ==
  /\ candidate # None => speaking /\ cands[candidate].turn = turnId
  /\ IsProvisional => ~speaking /\ cands[provisional.candidate].turn = turnId
  /\ lastSpeechAt <= now

IInv == TypeOK /\ EndsWhereSpeechEnded /\ BackstopHolds /\ OneOpenTurn

-----------------------------------------------------------------------------
(* The operators.                                                            *)

\* keepPreroll keeps a sequence of frames within the ring's bound, whatever one
\* frame is added to it.
LEMMA KeepPrerollBounded ==
  ASSUME NEW kept \in Seq(Nat), NEW f \in Nat,
         Len(kept) <= IF Preroll = 0 THEN 1 ELSE Preroll
  PROVE  /\ KeepPreroll(Append(kept, f)) \in Seq(Nat)
         /\ Len(KeepPreroll(Append(kept, f))) <= IF Preroll = 0 THEN 1 ELSE Preroll
<1> DEFINE longer == Append(kept, f)
<1>1. longer \in Seq(Nat) /\ Len(longer) = Len(kept) + 1
  OBVIOUS
<1>2. Preroll \in Nat
  BY DetectorAssumption
<1>3. CASE Len(longer) > Preroll /\ Len(longer) > 1
  <2>1. KeepPreroll(longer) = SubSeq(longer, 2, Len(longer))
    BY <1>3 DEF KeepPreroll
  <2>2. SubSeq(longer, 2, Len(longer)) \in Seq(Nat)
        /\ Len(SubSeq(longer, 2, Len(longer))) = Len(kept)
    BY <1>1, <1>3
  <2> QED
    BY <2>1, <2>2
<1>4. CASE ~(Len(longer) > Preroll /\ Len(longer) > 1)
  <2>1. KeepPreroll(longer) = SubSeq(longer, 1, Len(longer))
    BY <1>4 DEF KeepPreroll
  <2>2. SubSeq(longer, 1, Len(longer)) \in Seq(Nat)
        /\ Len(SubSeq(longer, 1, Len(longer))) = Len(kept) + 1
    BY <1>1
  <2> QED
    BY <2>1, <2>2, <1>1, <1>2, <1>4
<1> QED
  BY <1>3, <1>4

\* Marking a candidate changes its state and nothing else of the list.
LEMMA MarkedCandidate ==
  ASSUME NEW list \in Seq(Candidates), NEW c \in DOMAIN list,
         NEW state \in CandidateStates
  PROVE  LET marked == [list EXCEPT ![c].state = state] IN
           /\ marked \in Seq(Candidates)
           /\ Len(marked) = Len(list)
           /\ \A d \in DOMAIN list :
                /\ marked[d].turn = list[d].turn
                /\ marked[d].speechEndAt = list[d].speechEndAt
                /\ marked[d].state = IF d = c THEN state ELSE list[d].state
<1> DEFINE one == [list[c] EXCEPT !.state = state]
           marked == [list EXCEPT ![c] = one]
<1>1. c \in 1 .. Len(list) /\ list[c] \in Candidates
  OBVIOUS
<1>2. /\ one \in Candidates
      /\ one.turn = list[c].turn /\ one.speechEndAt = list[c].speechEndAt
      /\ one.state = state
  BY <1>1 DEF Candidates
<1>3. /\ marked \in Seq(Candidates)
      /\ Len(marked) = Len(list)
      /\ \A d \in 1 .. Len(list) : marked[d] = IF d = c THEN one ELSE list[d]
  BY <1>1, <1>2, ExceptSeq
<1>4. DOMAIN list = 1 .. Len(list)
  OBVIOUS
<1>5. ASSUME NEW d \in DOMAIN list
      PROVE  /\ marked[d].turn = list[d].turn
             /\ marked[d].speechEndAt = list[d].speechEndAt
             /\ marked[d].state = IF d = c THEN state ELSE list[d].state
  <2>1. marked[d] = IF d = c THEN one ELSE list[d]
    BY <1>3, <1>4
  <2> HIDE DEF marked, one
  <2> QED
    BY <1>2, <2>1
<1> QED
  BY <1>3, <1>5

\* An answer of the judge is taken off the list and changes nothing else of it.
LEMMA AnsweredCandidate ==
  ASSUME TypeOK, NEW c \in DOMAIN cands
  PROVE  /\ Answered(c) \in Seq(Candidates)
         /\ Len(Answered(c)) = Len(cands)
         /\ \A d \in DOMAIN cands :
              /\ Answered(c)[d].turn = cands[d].turn
              /\ Answered(c)[d].speechEndAt = cands[d].speechEndAt
              /\ Answered(c)[d].state = cands[d].state
<1> DEFINE one == [cands[c] EXCEPT !.judging = FALSE]
           answered == [cands EXCEPT ![c] = one]
<1>1. /\ c \in 1 .. Len(cands) /\ cands[c] \in Candidates
      /\ DOMAIN cands = 1 .. Len(cands) /\ cands \in Seq(Candidates)
  BY DEF TypeOK
<1>2. /\ one \in Candidates
      /\ one.turn = cands[c].turn /\ one.speechEndAt = cands[c].speechEndAt
      /\ one.state = cands[c].state
  BY <1>1 DEF Candidates
<1>3. /\ answered \in Seq(Candidates)
      /\ Len(answered) = Len(cands)
      /\ \A d \in 1 .. Len(cands) : answered[d] = IF d = c THEN one ELSE cands[d]
  BY <1>1, <1>2, ExceptSeq
<1>4. ASSUME NEW d \in DOMAIN cands
      PROVE  /\ answered[d].turn = cands[d].turn
             /\ answered[d].speechEndAt = cands[d].speechEndAt
             /\ answered[d].state = cands[d].state
  <2>1. answered[d] = IF d = c THEN one ELSE cands[d]
    BY <1>1, <1>3
  <2> HIDE DEF answered, one
  <2> QED
    BY <1>2, <2>1
<1>5. Answered(c) = answered
  BY DEF Answered
<1> QED
  BY <1>3, <1>4, <1>5

\* A candidate offered now is appended to the candidates, with the last speech
\* heard as its end.
LEMMA OfferedCandidate ==
  ASSUME TypeOK, NEW frames \in Seq(Nat)
  PROVE  LET longer == Append(cands, Offered(frames)) IN
           /\ longer \in Seq(Candidates)
           /\ Len(longer) = Len(cands) + 1
           /\ \A d \in DOMAIN cands : longer[d] = cands[d]
           /\ longer[Len(cands) + 1].turn = turnId
           /\ longer[Len(cands) + 1].speechEndAt = lastSpeechAt
           /\ longer[Len(cands) + 1].state = "open"
<1>1. Offered(frames) \in Candidates /\ cands \in Seq(Candidates)
  BY DEF TypeOK, Offered, Candidates, CandidateStates
<1>2. /\ Offered(frames).turn = turnId
      /\ Offered(frames).speechEndAt = lastSpeechAt
      /\ Offered(frames).state = "open"
  BY DEF Offered
<1> DEFINE longer == Append(cands, Offered(frames))
<1>3. /\ longer \in Seq(Candidates)
      /\ Len(longer) = Len(cands) + 1
      /\ \A d \in 1 .. Len(cands) : longer[d] = cands[d]
      /\ longer[Len(cands) + 1] = Offered(frames)
  BY <1>1, AppendProperties
<1> QED
  BY <1>1, <1>2, <1>3

-----------------------------------------------------------------------------
(* One lemma per way through a call.                                         *)

\* Speech that takes a provisional end back (resume) reopens that turn, so its end
\* is nobody's any more and its silence starts again from this frame.
LEMMA ResumeTurnKeeps ==
  ASSUME IInv, NEW level \in Levels, NEW at \in Nat, at > now, ResumeTurn(level, at)
  PROVE  IInv'
<1> DEFINE c == provisional.candidate
<1>1. /\ c \in DOMAIN cands /\ candidate = None /\ cands \in Seq(Candidates)
      /\ Hangover \in Nat /\ Hangover > 0 /\ Preroll \in Nat
      /\ provisional.frames \in Seq(Nat)
  BY DetectorAssumption
     DEF IInv, TypeOK, OneOpenTurn, ResumeTurn, RetractableAt, IsProvisional, None
<1>2. /\ cands' = Superseded(cands, c)
      /\ "superseded" \in CandidateStates
  BY DEF ResumeTurn, CandidateStates
<1>3. /\ cands' \in Seq(Candidates) /\ Len(cands') = Len(cands)
      /\ \A d \in DOMAIN cands :
           /\ cands'[d].turn = cands[d].turn
           /\ cands'[d].speechEndAt = cands[d].speechEndAt
           /\ cands'[d].state = IF d = c THEN "superseded" ELSE cands[d].state
  BY <1>1, <1>2, MarkedCandidate DEF Superseded
<1>4. TypeOK'
  <2>1. cands[c].turn \in Nat
    <3> HIDE DEF c
    <3>1. cands[c] \in Candidates
      BY <1>1
    <3> QED
      BY <3>1 DEF Candidates
  <2>2. out' \in Seq([type : EventTypes, turn : Nat, at : Nat])
    BY <2>1 DEF ResumeTurn, Event, EventTypes
  <2>3. utterance' \in Seq(Nat) /\ preroll' = <<>>
    BY <1>1 DEF ResumeTurn, Resumed, frame, IInv, TypeOK
  <2> QED
    BY <1>1, <1>3, <2>2, <2>3
       DEF IInv, TypeOK, ResumeTurn, FrameAt, frame, NotProvisional, None
<1>5. EndsWhereSpeechEnded'
  BY <1>1, <1>3
     DEF IInv, EndsWhereSpeechEnded, ResumeTurn, IsProvisional, NotProvisional, None
<1>6. BackstopHolds' /\ OneOpenTurn'
  BY <1>1
     DEF IInv, BackstopHolds, OneOpenTurn, ResumeTurn, FrameAt, IsProvisional,
         NotProvisional, None
<1> QED
  BY <1>4, <1>5, <1>6 DEF IInv

\* Speech that opens a turn of its own (startSpeech) starts it with its silence at
\* zero, and no candidate of an earlier turn is left open.
LEMMA StartSpeechKeeps ==
  ASSUME IInv, NEW level \in Levels, NEW at \in Nat, at > now, StartSpeech(level, at)
  PROVE  IInv'
<1>1. /\ candidate = None /\ frame \in Nat /\ Hangover \in Nat /\ Hangover > 0
      /\ Preroll \in Nat
  BY DetectorAssumption DEF IInv, TypeOK, OneOpenTurn, StartSpeech, frame
<1>2. TypeOK'
  <2>1. utterance' \in Seq(Nat)
    BY <1>1, KeepPrerollBounded DEF StartSpeech, IInv, TypeOK
  <2>2. out' \in Seq([type : EventTypes, turn : Nat, at : Nat])
    BY DEF StartSpeech, Event, EventTypes, IInv, TypeOK
  <2> QED
    BY <1>1, <2>1, <2>2 DEF IInv, TypeOK, StartSpeech, FrameAt, frame, NotProvisional, None
<1>3. EndsWhereSpeechEnded'
  BY <1>1 DEF IInv, EndsWhereSpeechEnded, StartSpeech, IsProvisional, NotProvisional, None
<1>4. BackstopHolds' /\ OneOpenTurn'
  BY <1>1
     DEF IInv, BackstopHolds, OneOpenTurn, StartSpeech, FrameAt, IsProvisional,
         NotProvisional, None
<1> QED
  BY <1>2, <1>3, <1>4 DEF IInv

\* A silent frame outside a turn drops a provisional end the silence has outlived
\* (pushSilence) before anything can still take it back.
LEMMA StayQuietKeeps ==
  ASSUME IInv, NEW level \in Levels, NEW at \in Nat, at > now, StayQuiet(level, at)
  PROVE  IInv'
<1>1. candidate = None /\ frame \in Nat
  BY DEF IInv, TypeOK, OneOpenTurn, StayQuiet, frame
<1>2. /\ provisional' \in [candidate : 0 .. Len(cands), frames : Seq(Nat)]
      /\ \/ provisional'.candidate = provisional.candidate /\ RetractableAt(at)
         \/ provisional' = NotProvisional
  <2>1. CASE RetractableAt(at)
    <3>1. provisional' = [provisional EXCEPT !.frames = Append(@, frame)]
      BY <2>1 DEF StayQuiet
    <3>2. /\ provisional \in [candidate : 0 .. Len(cands), frames : Seq(Nat)]
      BY DEF IInv, TypeOK
    <3>3. Append(provisional.frames, frame) \in Seq(Nat)
      BY <1>1, <3>2
    <3> QED
      BY <2>1, <3>1, <3>2, <3>3
  <2>2. CASE ~RetractableAt(at)
    BY <2>2 DEF StayQuiet, NotProvisional, None, IInv, TypeOK
  <2> QED
    BY <2>1, <2>2
<1>3. TypeOK'
  <2>1. /\ preroll' \in Seq(Nat)
        /\ Len(preroll') <= IF Preroll = 0 THEN 1 ELSE Preroll
    BY <1>1, KeepPrerollBounded DEF StayQuiet, IInv, TypeOK
  <2>2. /\ now' = at /\ captured' = captured + 1 /\ out' = <<>>
        /\ UNCHANGED <<speaking, turnId, utterance, lastSpeechAt, candidate, cands>>
    BY DEF StayQuiet, FrameAt, frame
  <2> QED
    BY <1>2, <2>1, <2>2 DEF IInv, TypeOK
<1>4. EndsWhereSpeechEnded'
  BY <1>1, <1>2
     DEF IInv, EndsWhereSpeechEnded, StayQuiet, IsProvisional, NotProvisional, None
<1>5. BackstopHolds'
  BY <1>2
     DEF IInv, EndsWhereSpeechEnded, BackstopHolds, StayQuiet, FrameAt, RetractableAt,
         TurnIsOpen, IsProvisional, NotProvisional, None
<1>6. OneOpenTurn'
  BY <1>1, <1>2
     DEF IInv, TypeOK, OneOpenTurn, StayQuiet, FrameAt, IsProvisional, NotProvisional, None
<1> QED
  BY <1>3, <1>4, <1>5, <1>6 DEF IInv

\* The list of candidates with `c`, if there is one, superseded.
LEMMA SupersededIfAny ==
  ASSUME IInv
  PROVE  LET list == IF candidate # None THEN Superseded(cands, candidate) ELSE cands IN
           /\ list \in Seq(Candidates) /\ Len(list) = Len(cands)
           /\ \A d \in DOMAIN cands :
                /\ list[d].turn = cands[d].turn
                /\ list[d].speechEndAt = cands[d].speechEndAt
                /\ list[d].state # "open"
<1>1. /\ cands \in Seq(Candidates) /\ candidate \in 0 .. Len(cands)
      /\ \A d \in DOMAIN cands : cands[d].state = "open" <=> d = candidate
  BY DEF IInv, TypeOK, EndsWhereSpeechEnded
<1>2. CASE candidate = None
  BY <1>1, <1>2 DEF None
<1>3. CASE candidate # None
  <2>1. candidate \in DOMAIN cands /\ "superseded" \in CandidateStates
    BY <1>1, <1>3 DEF None, CandidateStates
  <2> DEFINE marked == [cands EXCEPT ![candidate].state = "superseded"]
  <2>2. /\ marked \in Seq(Candidates) /\ Len(marked) = Len(cands)
        /\ \A d \in DOMAIN cands :
             /\ marked[d].turn = cands[d].turn
             /\ marked[d].speechEndAt = cands[d].speechEndAt
             /\ marked[d].state = IF d = candidate THEN "superseded" ELSE cands[d].state
    BY <1>1, <2>1, MarkedCandidate
  <2>3. Superseded(cands, candidate) = marked
    BY DEF Superseded
  <2> HIDE DEF marked
  <2> QED
    BY <1>1, <1>3, <2>2, <2>3
<1> QED
  BY <1>2, <1>3

\* Speech inside a turn (continueSpeech) supersedes the pause it interrupts, so no
\* judgement about that pause can end the turn.
LEMMA KeepTalkingKeeps ==
  ASSUME IInv, NEW level \in Levels, NEW at \in Nat, at > now, KeepTalking(level, at)
  PROVE  IInv'
<1>1. /\ provisional.candidate = None /\ frame \in Nat /\ Hangover \in Nat /\ Hangover > 0
  BY DetectorAssumption DEF IInv, TypeOK, OneOpenTurn, KeepTalking, frame, IsProvisional
<1>2. /\ cands' = IF candidate # None THEN Superseded(cands, candidate) ELSE cands
      /\ candidate' = None
  BY DEF KeepTalking
<1>3. /\ cands' \in Seq(Candidates) /\ Len(cands') = Len(cands)
      /\ \A d \in DOMAIN cands : cands'[d].state # "open"
  BY <1>2, SupersededIfAny
<1>4. /\ now' = at /\ captured' = captured + 1 /\ lastSpeechAt' = at /\ out' = <<>>
      /\ utterance' = Append(utterance, frame)
      /\ UNCHANGED <<speaking, turnId, preroll, provisional>>
  BY DEF KeepTalking, FrameAt, frame
<1>5. TypeOK'
  BY <1>1, <1>2, <1>3, <1>4 DEF IInv, TypeOK, None
<1>6. EndsWhereSpeechEnded'
  BY <1>1, <1>2, <1>3, <1>4 DEF IInv, TypeOK, EndsWhereSpeechEnded, IsProvisional, None
<1>7. BackstopHolds' /\ OneOpenTurn'
  BY <1>1, <1>2, <1>4
     DEF BackstopHolds, OneOpenTurn, IsProvisional, TurnIsOpen, None
<1> QED
  BY <1>5, <1>6, <1>7 DEF IInv

\* A pause inside a turn offers at most one candidate, about the last speech heard,
\* while the silence is short of hangoverMs.
LEMMA PauseKeeps ==
  ASSUME IInv, NEW level \in Levels, NEW at \in Nat, at > now, Pause(level, at)
  PROVE  IInv'
<1>1. /\ provisional.candidate = None /\ frame \in Nat
      /\ cands \in Seq(Candidates) /\ utterance \in Seq(Nat)
      /\ speaking /\ turnId \in Nat
  BY DEF IInv, TypeOK, OneOpenTurn, Pause, frame, IsProvisional
<1>2. /\ now' = at /\ captured' = captured + 1 /\ at - lastSpeechAt < Hangover
      /\ utterance' = Append(utterance, frame) /\ utterance' \in Seq(Nat)
      /\ UNCHANGED <<speaking, turnId, preroll, lastSpeechAt, provisional>>
  BY <1>1 DEF Pause, FrameAt, frame
<1>3. CASE candidate = None /\ at - lastSpeechAt >= CandidateAfter
  <2>1. /\ cands' = Append(cands, Offered(utterance'))
        /\ candidate' = Len(cands) + 1
        /\ out' = <<Event("candidate", turnId, at)>>
    BY <1>3 DEF Pause
  <2>2. /\ cands' \in Seq(Candidates) /\ Len(cands') = Len(cands) + 1
        /\ \A d \in DOMAIN cands : cands'[d] = cands[d]
        /\ cands'[Len(cands) + 1].turn = turnId
        /\ cands'[Len(cands) + 1].speechEndAt = lastSpeechAt
        /\ cands'[Len(cands) + 1].state = "open"
    BY <1>2, <2>1, OfferedCandidate DEF IInv
  <2>3. out' \in Seq([type : EventTypes, turn : Nat, at : Nat])
    BY <1>1, <2>1 DEF Event, EventTypes
  <2>4. TypeOK'
    BY <1>1, <1>2, <2>1, <2>2, <2>3 DEF IInv, TypeOK, None
  <2>5. EndsWhereSpeechEnded'
    BY <1>1, <1>2, <1>3, <2>1, <2>2
       DEF IInv, TypeOK, EndsWhereSpeechEnded, IsProvisional, None
  <2>6. BackstopHolds' /\ OneOpenTurn'
    BY <1>1, <1>2, <2>1, <2>2
       DEF IInv, TypeOK, BackstopHolds, OneOpenTurn, IsProvisional, TurnIsOpen, None
  <2> QED
    BY <2>4, <2>5, <2>6 DEF IInv
<1>4. CASE ~(candidate = None /\ at - lastSpeechAt >= CandidateAfter)
  <2>1. UNCHANGED <<cands, candidate>> /\ out' = <<>>
    BY <1>4 DEF Pause
  <2>2. TypeOK'
    BY <1>2, <2>1 DEF IInv, TypeOK
  <2>3. EndsWhereSpeechEnded'
    BY <1>2, <2>1 DEF IInv, EndsWhereSpeechEnded, IsProvisional
  <2>4. BackstopHolds' /\ OneOpenTurn'
    BY <1>1, <1>2, <2>1
       DEF IInv, TypeOK, BackstopHolds, OneOpenTurn, IsProvisional, TurnIsOpen
  <2> QED
    BY <2>2, <2>3, <2>4 DEF IInv
<1> QED
  BY <1>3, <1>4

\* Silence of hangoverMs ends the turn (endTurn by the backstop), and leaves an end
\* that may be taken back only while that silence allows.
LEMMA HangoverEndKeeps ==
  ASSUME IInv, NEW level \in Levels, NEW at \in Nat, at > now, HangoverEnd(level, at)
  PROVE  IInv'
<1> DEFINE heard == Append(utterance, frame)
           offered == IF candidate = None THEN Append(cands, Offered(heard)) ELSE cands
           ended == IF candidate = None THEN Len(cands) + 1 ELSE candidate
<1>1. /\ provisional.candidate = None /\ heard \in Seq(Nat)
      /\ cands \in Seq(Candidates) /\ candidate \in 0 .. Len(cands) /\ turnId \in Nat
      /\ \A d \in DOMAIN cands : cands[d].state = "open" <=> d = candidate
  BY DEF IInv, TypeOK, OneOpenTurn, EndsWhereSpeechEnded, HangoverEnd, frame, IsProvisional
<1>2. /\ offered \in Seq(Candidates) /\ Len(cands) <= Len(offered)
      /\ ended \in DOMAIN offered
      /\ \A d \in DOMAIN offered : offered[d].state = "open" => d = ended
  <2>1. CASE candidate = None
    <3>1. offered = Append(cands, Offered(heard)) /\ ended = Len(cands) + 1
      BY <2>1
    <3>2. /\ offered \in Seq(Candidates) /\ Len(offered) = Len(cands) + 1
          /\ \A d \in DOMAIN cands : offered[d] = cands[d]
      BY <1>1, <3>1, OfferedCandidate DEF IInv
    <3> HIDE DEF offered, ended, heard
    <3> QED
      BY <1>1, <2>1, <3>1, <3>2 DEF None
  <2>2. CASE candidate # None
    BY <1>1, <2>2 DEF None
  <2> QED
    BY <2>1, <2>2
<1>3. /\ cands' = [offered EXCEPT ![ended].state = "hangover"]
      /\ "hangover" \in CandidateStates
  BY DEF HangoverEnd, CandidateStates
<1>4. /\ now' = at /\ captured' = captured + 1 /\ speaking' = FALSE
      /\ utterance' = <<>> /\ candidate' = None /\ preroll' = <<>>
      /\ UNCHANGED <<turnId, lastSpeechAt, provisional>>
  BY DEF HangoverEnd, FrameAt, frame
<1> HIDE DEF offered, ended, heard
<1>5. /\ cands' \in Seq(Candidates) /\ Len(cands') = Len(offered)
      /\ \A d \in DOMAIN offered : cands'[d].state # "open"
  BY <1>2, <1>3, MarkedCandidate
<1>6. out' \in Seq([type : EventTypes, turn : Nat, at : Nat])
  <2> DEFINE Events == [type : EventTypes, turn : Nat, at : Nat]
             before == IF candidate = None THEN <<Event("candidate", turnId, at)>> ELSE <<>>
             stopped == offered[ended].speechEndAt
  <2>1. stopped \in Nat
    <3>1. offered[ended] \in Candidates
      BY <1>2
    <3> QED
      BY <3>1 DEF Candidates
  <2>2. out' = before \o TurnEnd(turnId, stopped, at)
    BY DEF HangoverEnd, offered, ended, heard
  <2> HIDE DEF stopped
  <2>3. /\ Event("candidate", turnId, at) \in Events
        /\ Event("speech-end", turnId, stopped) \in Events
        /\ Event("turn-end", turnId, at) \in Events
    BY <1>1, <2>1 DEF Event, EventTypes
  <2> HIDE DEF Events
  <2>4. before \in Seq(Events) /\ TurnEnd(turnId, stopped, at) \in Seq(Events)
    BY <2>3 DEF TurnEnd
  <2> HIDE DEF before
  <2>5. out' \in Seq(Events)
    BY <2>4, <2>2
  <2> QED
    BY <2>5 DEF Events
<1>7. TypeOK'
  <2>1. /\ provisional \in [candidate : 0 .. Len(cands), frames : Seq(Nat)]
        /\ Len(cands) \in Nat /\ Len(cands') \in Nat /\ Len(cands) <= Len(cands')
    BY <1>1, <1>2, <1>5 DEF IInv, TypeOK
  <2>2. provisional' \in [candidate : 0 .. Len(cands'), frames : Seq(Nat)]
    BY <1>4, <2>1
  <2>3. preroll' \in Seq(Nat) /\ Len(preroll') <= IF Preroll = 0 THEN 1 ELSE Preroll
    BY DetectorAssumption, <1>4
  <2>4. candidate' \in 0 .. Len(cands') /\ utterance' \in Seq(Nat)
    BY <1>4, <2>1 DEF None
  <2>5. now' \in Nat /\ captured' \in Nat /\ turnId' \in Nat /\ lastSpeechAt' \in Nat
    BY <1>4 DEF IInv, TypeOK
  <2>6. speaking' \in BOOLEAN
    BY <1>4
  <2> QED
    BY <1>5, <1>6, <2>2, <2>3, <2>4, <2>5, <2>6 DEF TypeOK
<1>8. EndsWhereSpeechEnded'
  <2>1. DOMAIN cands' = DOMAIN offered /\ None \notin DOMAIN cands'
    BY <1>2, <1>5 DEF None
  <2> QED
    BY <1>1, <1>4, <1>5, <2>1 DEF IInv, EndsWhereSpeechEnded, IsProvisional, None
<1>9. BackstopHolds' /\ OneOpenTurn'
  BY <1>1, <1>4
     DEF IInv, TypeOK, BackstopHolds, OneOpenTurn, IsProvisional, TurnIsOpen, None
<1> QED
  BY <1>7, <1>8, <1>9 DEF IInv

\* The judge's "finished" about the open candidate (onAnswer) ends the turn with the
\* last words it was asked about.
LEMMA ModelEndKeeps ==
  ASSUME IInv, NEW c \in DOMAIN cands, ModelEnd(c)
  PROVE  IInv'
<1> DEFINE answered == Answered(c)
           Events == [type : EventTypes, turn : Nat, at : Nat]
<1>1. /\ cands \in Seq(Candidates) /\ Len(cands) \in Nat
      /\ c \in 1 .. Len(cands) /\ cands[c] \in Candidates
      /\ candidate = c /\ c # None /\ speaking
      /\ cands[c].speechEndAt = lastSpeechAt /\ cands[c].turn = turnId
      /\ now - lastSpeechAt < Hangover
      /\ \A d \in DOMAIN cands : cands[d].state = "open" <=> d = c
  <2>1. candidate = c
    BY DEF ModelEnd, Live
  <2>2. /\ cands \in Seq(Candidates) /\ Len(cands) \in Nat
        /\ c \in 1 .. Len(cands) /\ cands[c] \in Candidates /\ c # None
    BY DEF IInv, TypeOK, None
  <2>3. speaking /\ cands[c].turn = turnId
    BY <2>1, <2>2 DEF IInv, OneOpenTurn
  <2>4. /\ cands[c].speechEndAt = lastSpeechAt
        /\ \A d \in DOMAIN cands : cands[d].state = "open" <=> d = c
    BY <2>1, <2>2 DEF IInv, EndsWhereSpeechEnded
  <2>5. now - lastSpeechAt < Hangover
    BY <2>3 DEF IInv, BackstopHolds, TurnIsOpen
  <2> QED
    BY <2>1, <2>2, <2>3, <2>4, <2>5
<1>2. /\ answered \in Seq(Candidates) /\ Len(answered) = Len(cands)
      /\ \A d \in DOMAIN cands :
           /\ answered[d].turn = cands[d].turn
           /\ answered[d].speechEndAt = cands[d].speechEndAt
           /\ answered[d].state = cands[d].state
  BY AnsweredCandidate DEF IInv
<1>3. /\ cands' = [answered EXCEPT ![c].state = "won"]
      /\ "won" \in CandidateStates /\ DOMAIN answered = DOMAIN cands
  BY <1>1, <1>2 DEF ModelEnd, CandidateStates
<1> HIDE DEF answered
<1>4. /\ cands' \in Seq(Candidates) /\ Len(cands') = Len(cands)
      /\ \A d \in DOMAIN cands :
           /\ cands'[d].turn = cands[d].turn
           /\ cands'[d].speechEndAt = cands[d].speechEndAt
           /\ cands'[d].state = IF d = c THEN "won" ELSE cands[d].state
  BY <1>2, <1>3, MarkedCandidate
<1>5. /\ provisional' = [candidate |-> c, frames |-> utterance]
      /\ utterance' = <<>> /\ candidate' = None /\ preroll' = <<>>
      /\ UNCHANGED <<now, captured, turnId, lastSpeechAt>>
  BY DEF ModelEnd
<1>6. speaking' = FALSE
  BY DEF ModelEnd
<1>7. out' \in Seq(Events)
  <2>1. cands[c].speechEndAt \in Nat /\ cands[c].speechEndAt + Hangover \in Nat
    BY DetectorAssumption, <1>1 DEF Candidates
  <2>2. /\ Event("judged", cands[c].turn, now) \in Events
        /\ Event("speech-end", turnId, cands[c].speechEndAt) \in Events
        /\ Event("turn-end", turnId, cands[c].speechEndAt + Hangover) \in Events
    BY <1>1, <2>1 DEF Event, EventTypes, IInv, TypeOK
  <2> HIDE DEF Events
  <2>3. /\ <<Event("judged", cands[c].turn, now)>> \in Seq(Events)
        /\ TurnEnd(turnId, cands[c].speechEndAt, cands[c].speechEndAt + Hangover)
             \in Seq(Events)
    BY <2>2 DEF TurnEnd
  <2> QED
    BY <2>3 DEF ModelEnd
<1>8. TypeOK'
  <2>1. provisional' \in [candidate : 0 .. Len(cands'), frames : Seq(Nat)]
    BY <1>1, <1>4, <1>5 DEF IInv, TypeOK
  <2>2. preroll' \in Seq(Nat) /\ Len(preroll') <= IF Preroll = 0 THEN 1 ELSE Preroll
    BY DetectorAssumption, <1>5
  <2>3. candidate' \in 0 .. Len(cands') /\ utterance' \in Seq(Nat)
    BY <1>1, <1>4, <1>5 DEF None
  <2>4. now' \in Nat /\ captured' \in Nat /\ turnId' \in Nat /\ lastSpeechAt' \in Nat
    BY <1>5 DEF IInv, TypeOK
  <2>5. speaking' \in BOOLEAN
    BY <1>6
  <2> QED
    BY <1>4, <1>7, <2>1, <2>2, <2>3, <2>4, <2>5 DEF TypeOK
<1>9. EndsWhereSpeechEnded'
  BY <1>1, <1>4, <1>5 DEF EndsWhereSpeechEnded, IsProvisional, None
<1>10. BackstopHolds'
  BY <1>1, <1>5 DEF BackstopHolds
<1>11. OneOpenTurn'
  BY <1>1, <1>4, <1>5, <1>6 DEF IInv, OneOpenTurn, IsProvisional, None
<1> QED
  BY <1>8, <1>9, <1>10, <1>11 DEF IInv

\* What an answer that ends nothing leaves: everything but the list's `judging`.
LEMMA IgnoredAnswerKeeps ==
  ASSUME IInv, NEW c \in DOMAIN cands, cands' = Answered(c),
         out' \in Seq([type : EventTypes, turn : Nat, at : Nat]),
         UNCHANGED <<now, captured, speaking, turnId, preroll, utterance, lastSpeechAt,
                     candidate, provisional>>
  PROVE  IInv'
<1>1. /\ cands' \in Seq(Candidates) /\ Len(cands') = Len(cands)
      /\ \A d \in DOMAIN cands :
           /\ cands'[d].turn = cands[d].turn
           /\ cands'[d].speechEndAt = cands[d].speechEndAt
           /\ cands'[d].state = cands[d].state
  BY AnsweredCandidate DEF IInv
<1>2. DOMAIN cands' = DOMAIN cands /\ DOMAIN cands = 1 .. Len(cands)
  BY <1>1 DEF IInv, TypeOK
<1>3. /\ candidate \in 0 .. Len(cands) /\ provisional.candidate \in 0 .. Len(cands)
  BY DEF IInv, TypeOK
<1>4. TypeOK'
  BY <1>1 DEF IInv, TypeOK
<1>5. /\ candidate # None => candidate \in DOMAIN cands
      /\ IsProvisional => provisional.candidate \in DOMAIN cands
      /\ IsProvisional' = IsProvisional
  BY <1>2, <1>3 DEF IsProvisional, None
<1>6. EndsWhereSpeechEnded'
  <2>1. candidate' # None => cands'[candidate'].speechEndAt = lastSpeechAt'
    BY <1>1, <1>5 DEF IInv, EndsWhereSpeechEnded
  <2>2. IsProvisional' => cands'[provisional.candidate].speechEndAt = lastSpeechAt'
    BY <1>1, <1>5 DEF IInv, EndsWhereSpeechEnded
  <2>3. \A d \in DOMAIN cands' : cands'[d].state = "open" <=> d = candidate'
    BY <1>1, <1>2 DEF IInv, EndsWhereSpeechEnded
  <2> QED
    BY <2>1, <2>2, <2>3 DEF EndsWhereSpeechEnded
<1>7. BackstopHolds'
  BY DEF IInv, BackstopHolds, TurnIsOpen, IsProvisional
<1>8. OneOpenTurn'
  <2>1. candidate' # None => speaking' /\ cands'[candidate'].turn = turnId'
    BY <1>1, <1>5 DEF IInv, OneOpenTurn
  <2>2. IsProvisional' => ~speaking' /\ cands'[provisional.candidate].turn = turnId'
    BY <1>1, <1>5 DEF IInv, OneOpenTurn
  <2> QED
    BY <2>1, <2>2 DEF IInv, OneOpenTurn
<1> QED
  BY <1>4, <1>6, <1>7, <1>8 DEF IInv

\* One event about a candidate, or none, is a list of events.
LEMMA OneEventTyped ==
  ASSUME TypeOK, NEW c \in DOMAIN cands, NEW type \in EventTypes
  PROVE  <<Event(type, cands[c].turn, now)>> \in Seq([type : EventTypes, turn : Nat, at : Nat])
<1>1. cands[c] \in Candidates /\ now \in Nat
  BY DEF TypeOK
<1>2. Event(type, cands[c].turn, now) \in [type : EventTypes, turn : Nat, at : Nat]
  BY <1>1 DEF Candidates, Event
<1> QED
  BY <1>2

\* An answer about a superseded, ended or reset candidate, or one below the
\* threshold, moves no boundary.
LEMMA IdleAnswerKeeps ==
  ASSUME IInv, NEW c \in DOMAIN cands, IdleAnswer(c)
  PROVE  IInv'
<1> DEFINE Events == [type : EventTypes, turn : Nat, at : Nat]
<1>1. "late" \in EventTypes /\ "judged" \in EventTypes
  BY DEF EventTypes
<1>2. out' \in Seq(Events)
  <2>1. /\ <<Event("late", cands[c].turn, now)>> \in Seq(Events)
        /\ <<Event("judged", cands[c].turn, now)>> \in Seq(Events)
    BY <1>1, OneEventTyped DEF IInv
  <2> HIDE DEF Events
  <2>2. \/ out' = <<Event("late", cands[c].turn, now)>>
        \/ out' = <<Event("judged", cands[c].turn, now)>>
        \/ out' = <<>>
    BY DEF IdleAnswer
  <2>3. <<>> \in Seq(Events)
    OBVIOUS
  <2> QED
    BY <2>1, <2>2, <2>3, Zenon
<1> QED
  BY <1>2, IgnoredAnswerKeeps DEF IdleAnswer

\* A judge that fails leaves the turn to the silence backstop, and moves no boundary.
LEMMA JudgeErrorKeeps ==
  ASSUME IInv, NEW c \in DOMAIN cands, JudgeError(c)
  PROVE  IInv'
<1> DEFINE Events == [type : EventTypes, turn : Nat, at : Nat]
<1>1. "judge-error" \in EventTypes
  BY DEF EventTypes
<1>2. out' \in Seq(Events)
  <2>1. <<Event("judge-error", cands[c].turn, now)>> \in Seq(Events)
    BY <1>1, OneEventTyped DEF IInv
  <2> HIDE DEF Events
  <2>2. out' = <<>> \/ out' = <<Event("judge-error", cands[c].turn, now)>>
    BY DEF JudgeError
  <2>3. <<>> \in Seq(Events)
    OBVIOUS
  <2> QED
    BY <2>1, <2>2, <2>3, Zenon
<1> QED
  BY <1>2, IgnoredAnswerKeeps DEF JudgeError

\* reset() leaves no turn open, nothing to resume and no candidate of value.
LEMMA ResetKeeps ==
  ASSUME IInv, Reset
  PROVE  IInv'
<1>1. /\ cands' = IF candidate # None THEN Superseded(cands, candidate) ELSE cands
      /\ provisional' = NotProvisional /\ candidate' = None
      /\ utterance' = <<>> /\ preroll' = <<>> /\ out' = <<>>
      /\ UNCHANGED <<now, captured, turnId, lastSpeechAt>>
  BY DEF Reset
<1>2. speaking' = FALSE
  BY DEF Reset
<1>3. /\ cands' \in Seq(Candidates) /\ Len(cands') = Len(cands)
      /\ \A d \in DOMAIN cands : cands'[d].state # "open"
  BY <1>1, SupersededIfAny
<1>4. TypeOK'
  <2>1. speaking' \in BOOLEAN
    BY <1>2
  <2> QED
    BY DetectorAssumption, <1>1, <1>3, <2>1 DEF IInv, TypeOK, NotProvisional, None
<1>5. EndsWhereSpeechEnded'
  BY <1>1, <1>3 DEF IInv, TypeOK, EndsWhereSpeechEnded, IsProvisional, NotProvisional, None
<1>6. BackstopHolds' /\ OneOpenTurn'
  BY <1>1, <1>2
     DEF IInv, BackstopHolds, OneOpenTurn, TurnIsOpen, IsProvisional, NotProvisional, None
<1> QED
  BY <1>4, <1>5, <1>6 DEF IInv

-----------------------------------------------------------------------------
(* The theorems.                                                             *)

\* A new detector satisfies the invariant: no turn, no candidate, nothing provisional.
LEMMA InitIInv ==
  ASSUME Init
  PROVE  IInv
<1>1. TypeOK
  <2>1. provisional \in [candidate : 0 .. Len(cands), frames : Seq(Nat)]
    BY DEF Init, NotProvisional, None
  <2>2. preroll \in Seq(Nat) /\ Len(preroll) <= IF Preroll = 0 THEN 1 ELSE Preroll
    BY DetectorAssumption DEF Init
  <2>3. speaking \in BOOLEAN
    BY DEF Init
  <2>4. /\ cands \in Seq(Candidates) /\ candidate \in 0 .. Len(cands)
        /\ out \in Seq([type : EventTypes, turn : Nat, at : Nat])
        /\ utterance \in Seq(Nat)
        /\ now \in Nat /\ captured \in Nat /\ turnId \in Nat /\ lastSpeechAt \in Nat
    BY DEF Init, None
  <2> QED
    BY <2>1, <2>2, <2>3, <2>4 DEF TypeOK
<1>2. EndsWhereSpeechEnded /\ BackstopHolds /\ OneOpenTurn
  BY DEF Init, EndsWhereSpeechEnded, BackstopHolds, OneOpenTurn, TurnIsOpen, IsProvisional,
         NotProvisional, None
<1> QED
  BY <1>1, <1>2 DEF IInv

\* Every call, and every answer of the judge, keeps the invariant.
LEMMA NextKeepsIInv ==
  ASSUME IInv, [Next]_vars
  PROVE  IInv'
<1>1. ASSUME NEW level \in Levels, NEW gap \in Gaps, Push(level, now + gap)
      PROVE  IInv'
  <2>1. now + gap \in Nat /\ now + gap > now
    BY DetectorAssumption DEF IInv, TypeOK
  <2>2. CASE ResumeTurn(level, now + gap)
    BY <2>1, <2>2, ResumeTurnKeeps
  <2>3. CASE StartSpeech(level, now + gap)
    BY <2>1, <2>3, StartSpeechKeeps
  <2>4. CASE StayQuiet(level, now + gap)
    BY <2>1, <2>4, StayQuietKeeps
  <2>5. CASE KeepTalking(level, now + gap)
    BY <2>1, <2>5, KeepTalkingKeeps
  <2>6. CASE Pause(level, now + gap)
    BY <2>1, <2>6, PauseKeeps
  <2>7. CASE HangoverEnd(level, now + gap)
    BY <2>1, <2>7, HangoverEndKeeps
  <2> QED
    BY <1>1, <2>2, <2>3, <2>4, <2>5, <2>6, <2>7 DEF Push
<1>2. ASSUME NEW c \in DOMAIN cands, ModelEnd(c) \/ IdleAnswer(c) \/ JudgeError(c)
      PROVE  IInv'
  BY <1>2, ModelEndKeeps, IdleAnswerKeeps, JudgeErrorKeeps
<1>3. CASE Reset
  BY <1>3, ResetKeeps
<1>4. CASE UNCHANGED vars
  BY <1>4
     DEF vars, IInv, TypeOK, EndsWhereSpeechEnded, BackstopHolds, OneOpenTurn, TurnIsOpen,
         IsProvisional
<1> QED
  BY <1>1, <1>2, <1>3, <1>4 DEF Next

\* Whatever the windows, the spacing of the frames and the judge's answers, the
\* detector keeps its types, ends a turn only with its last speech, lets nothing
\* outlive hangoverMs of silence, and never has a turn open and one provisional at once.
THEOREM InvariantHolds == Spec => []IInv
<1>1. Init => IInv
  BY InitIInv
<1>2. IInv /\ [Next]_vars => IInv'
  BY NextKeepsIInv
<1> QED
  BY <1>1, <1>2, PTL DEF Spec

\* TurnDetector's variables keep their types, and the pre-roll its bound,
\* whatever the windows and however the frames are spaced.
THEOREM TypeCorrect == Spec => []TypeOK
<1>1. IInv => TypeOK
  BY DEF IInv
<1> QED
  BY <1>1, InvariantHolds, PTL

\* Only a judgement about the user's last words can end a turn (onAnswer): no
\* answer, however late, finds another candidate open.
THEOREM EndsWithLastSpeech == Spec => []EndsWhereSpeechEnded
<1>1. IInv => EndsWhereSpeechEnded
  BY DEF IInv
<1> QED
  BY <1>1, InvariantHolds, PTL

\* Neither a turn nor the right to take its end back outlives hangoverMs of
\* silence (push, ADR-21 and ADR-25).
THEOREM BackstopAlwaysHolds == Spec => []BackstopHolds
<1>1. IInv => BackstopHolds
  BY DEF IInv
<1> QED
  BY <1>1, InvariantHolds, PTL

-----------------------------------------------------------------------------
(* The detector implements TurnBoundaries.                                   *)

\* A call that ends a turn says so last, whatever it said before.
LEMMA EndIsSaidLast ==
  ASSUME NEW id, NEW stopped, NEW at, NEW Events, NEW before \in Seq(Events),
         Event("speech-end", id, stopped) \in Events, Event("turn-end", id, at) \in Events,
         NEW list, list = before \o TurnEnd(id, stopped, at)
  PROVE  list # <<>> /\ list[Len(list)] = Event("turn-end", id, at)
<1> DEFINE e == Event("turn-end", id, at)
           s == Event("speech-end", id, stopped)
<1>1. list = before \o <<s, e>> /\ s \in Events /\ e \in Events
  BY DEF TurnEnd
<1>2. Len(list) = Len(before) + 2 /\ list[Len(list)] = e
  <2> HIDE DEF s, e
  <2>1. <<s, e>> \in Seq(Events) /\ Len(<<s, e>>) = 2 /\ <<s, e>>[2] = e
    BY <1>1
  <2> QED
    BY <1>1, <2>1
<1> QED
  BY <1>2

\* A new detector maps to a boundary history with no turn and no event.
LEMMA InitIsBoundaryInit ==
  ASSUME Init
  PROVE  Boundaries!Init
<1>1. LastBoundary = Event("none", 0, 0)
  BY DEF Init, LastBoundary
<1> QED
  BY <1>1 DEF Init, Boundaries!Init, Boundaries!NoEvent, Boundaries!Boundary, Event,
              IsProvisional, NotProvisional, None

\* resume() is the boundaries' taking back of the end just announced, before its
\* confirmedAt.
LEMMA ResumeTurnIsResume ==
  ASSUME IInv, NEW level \in Levels, NEW at \in Nat, at > now, ResumeTurn(level, at)
  PROVE  Boundaries!Frame(level, at)
<1> DEFINE c == provisional.candidate
<1>1. /\ c \in DOMAIN cands /\ cands[c].turn = turnId /\ cands[c] \in Candidates
      /\ ~speaking /\ IsProvisional /\ level = "high"
      /\ Hangover \in Nat /\ at - cands[c].speechEndAt < Hangover
  BY DetectorAssumption
     DEF IInv, TypeOK, OneOpenTurn, ResumeTurn, RetractableAt, IsProvisional, None
<1>2. cands[c].speechEndAt \in Nat
  <2> HIDE DEF c
  <2> QED
    BY <1>1 DEF Candidates
<1>3. /\ now' = at /\ turnId' = turnId /\ speaking' = TRUE /\ ~IsProvisional'
      /\ out' = <<Event("turn-resumed", turnId, at)>>
  BY <1>1 DEF ResumeTurn, FrameAt, IsProvisional, NotProvisional, None
<1>4. LastBoundary' = Event("turn-resumed", turnId, at)
  BY <1>3 DEF LastBoundary, Event
<1>5. Boundaries!Resume(at)
  BY <1>1, <1>2, <1>3, <1>4 DEF Boundaries!Resume, Boundaries!Boundary, Event
<1> QED
  BY <1>1, <1>3, <1>5 DEF Boundaries!Frame

\* startSpeech() is the boundaries' start of a turn with a fresh identity.
LEMMA StartSpeechIsStart ==
  ASSUME IInv, NEW level \in Levels, NEW at \in Nat, at > now, StartSpeech(level, at)
  PROVE  Boundaries!Frame(level, at)
<1>1. IsProvisional => at >= cands[provisional.candidate].speechEndAt + Hangover
  <2> DEFINE c == provisional.candidate
  <2>1. ASSUME IsProvisional
        PROVE  cands[c] \in Candidates /\ ~(at - cands[c].speechEndAt < Hangover)
    BY <2>1 DEF IInv, TypeOK, StartSpeech, RetractableAt, IsProvisional, None
  <2> HIDE DEF c
  <2>2. ASSUME IsProvisional
        PROVE  at >= cands[c].speechEndAt + Hangover
    BY <2>1, <2>2, DetectorAssumption DEF Candidates
  <2> QED
    BY <2>2 DEF c
<1>2. /\ now' = at /\ turnId' = turnId + 1 /\ ~speaking /\ speaking' = TRUE
      /\ ~IsProvisional' /\ level = "high"
      /\ out' = <<Event("speech-start", turnId + 1, at)>>
  BY DEF StartSpeech, FrameAt, IsProvisional, NotProvisional, None
<1>3. LastBoundary' = Event("speech-start", turnId + 1, at)
  BY <1>2 DEF LastBoundary, Event
<1>4. Boundaries!Start(at)
  BY <1>1, <1>2, <1>3 DEF Boundaries!Start, Boundaries!Boundary, Event
<1> QED
  BY <1>2, <1>4 DEF Boundaries!Frame

\* A silent frame outside a turn moves no boundary, or lets a provisional end become
\* final once it can no longer be taken back.
LEMMA StayQuietIsPass ==
  ASSUME IInv, NEW level \in Levels, NEW at \in Nat, at > now, StayQuiet(level, at)
  PROVE  Boundaries!Frame(level, at)
<1> DEFINE c == provisional.candidate
<1>1. /\ now' = at /\ ~speaking /\ speaking' = FALSE /\ level # "high"
      /\ turnId' = turnId /\ cands' = cands /\ out' = <<>>
  BY DEF StayQuiet, FrameAt
<1>2. LastBoundary' = Event("none", 0, 0)
  BY <1>1 DEF LastBoundary
<1>3. CASE RetractableAt(at)
  <2>1. provisional'.candidate = c /\ IsProvisional /\ cands[c] \in Candidates
        /\ at - cands[c].speechEndAt < Hangover
    BY <1>3 DEF StayQuiet, RetractableAt, IsProvisional, IInv, TypeOK, None
  <2>2. IsProvisional'
    BY <2>1 DEF IsProvisional
  <2> HIDE DEF c
  <2>3. ~(at >= cands[c].speechEndAt + Hangover)
    BY <2>1, DetectorAssumption DEF Candidates
  <2>4. cands'[provisional'.candidate].speechEndAt = cands[c].speechEndAt
    BY <1>1, <2>1
  <2>5. Boundaries!Pass(at)
    BY <1>1, <1>2, <2>1, <2>2, <2>3, <2>4
       DEF Boundaries!Pass, Boundaries!NoEvent, Boundaries!Boundary, Event, c
  <2> QED
    BY <1>1, <2>5 DEF Boundaries!Frame
<1>4. CASE ~RetractableAt(at)
  <2>1. ~IsProvisional'
    BY <1>4 DEF StayQuiet, IsProvisional, NotProvisional, None
  <2>2. IsProvisional => cands[c] \in Candidates /\ ~(at - cands[c].speechEndAt < Hangover)
    BY <1>4 DEF IInv, TypeOK, RetractableAt, IsProvisional, None
  <2> HIDE DEF c
  <2>3. IsProvisional => at >= cands[c].speechEndAt + Hangover
    BY <2>2, DetectorAssumption DEF Candidates
  <2>4. Boundaries!Pass(at)
    BY <1>1, <1>2, <2>1, <2>3
       DEF Boundaries!Pass, Boundaries!NoEvent, Boundaries!Boundary, Event, c
  <2> QED
    BY <1>1, <2>4 DEF Boundaries!Frame
<1> QED
  BY <1>3, <1>4

\* A frame inside a turn that does not end it announces no boundary.
LEMMA SpeakingFrameIsPass ==
  ASSUME IInv, NEW level \in Levels, NEW at \in Nat, at > now,
         KeepTalking(level, at) \/ Pause(level, at)
  PROVE  Boundaries!Frame(level, at)
<1>1. /\ now' = at /\ speaking /\ speaking' = speaking /\ turnId' = turnId
      /\ provisional' = provisional /\ ~IsProvisional
      /\ out' = <<>> \/ out' = <<Event("candidate", turnId, at)>>
  BY DEF KeepTalking, Pause, FrameAt, IInv, OneOpenTurn
<1>2. ~IsProvisional'
  BY <1>1 DEF IsProvisional
<1>3. LastBoundary' = Event("none", 0, 0)
  BY <1>1 DEF LastBoundary, Event
<1>4. Boundaries!Pass(at)
  BY <1>1, <1>2, <1>3 DEF Boundaries!Pass, Boundaries!NoEvent, Boundaries!Boundary, Event
<1> QED
  BY <1>1, <1>4 DEF Boundaries!Frame

\* An end by silence is announced with a confirmedAt hangoverMs after the last speech.
LEMMA HangoverEndIsEnd ==
  ASSUME IInv, NEW level \in Levels, NEW at \in Nat, at > now, HangoverEnd(level, at)
  PROVE  Boundaries!Frame(level, at)
<1> DEFINE heard == Append(utterance, frame)
           offered == IF candidate = None THEN Append(cands, Offered(heard)) ELSE cands
           ended == IF candidate = None THEN Len(cands) + 1 ELSE candidate
           stopped == offered[ended].speechEndAt
           before == IF candidate = None THEN <<Event("candidate", turnId, at)>> ELSE <<>>
           Events == {Event("candidate", turnId, at), Event("speech-end", turnId, stopped),
                      Event("turn-end", turnId, at)}
<1>1. /\ now' = at /\ speaking /\ speaking' = FALSE /\ turnId' = turnId /\ turnId \in Nat
      /\ provisional' = provisional /\ ~IsProvisional /\ level = "low"
      /\ out' = before \o TurnEnd(turnId, stopped, at)
  BY DEF HangoverEnd, FrameAt, IInv, TypeOK, OneOpenTurn
<1>2. ~IsProvisional'
  BY <1>1 DEF IsProvisional
<1> HIDE DEF offered, ended, heard, stopped
<1>3. /\ Event("candidate", turnId, at) \in Events
      /\ Event("speech-end", turnId, stopped) \in Events
      /\ Event("turn-end", turnId, at) \in Events
  OBVIOUS
<1> HIDE DEF Events
<1>4. before \in Seq(Events)
  BY <1>3
<1> HIDE DEF before
<1>5. LastBoundary' = Event("turn-end", turnId, at)
  <2>1. out' # <<>> /\ out'[Len(out')] = Event("turn-end", turnId, at)
    BY <1>1, <1>3, <1>4, EndIsSaidLast
  <2> QED
    BY <2>1 DEF LastBoundary, Event
<1>6. Boundaries!EndByHangover(at)
  BY <1>1, <1>2, <1>5 DEF Boundaries!EndByHangover, Boundaries!Boundary, Event
<1> QED
  BY <1>1, <1>6 DEF Boundaries!Frame

\* An end by the judge is announced with a confirmedAt still to come: its answer
\* arrived while the silence was short of hangoverMs.
LEMMA ModelEndIsEnd ==
  ASSUME IInv, IInv', NEW c \in DOMAIN cands, ModelEnd(c)
  PROVE  Boundaries!EndByModel
<1> DEFINE stopped == cands[c].speechEndAt
           at == stopped + Hangover
           Events == {Event("judged", cands[c].turn, now),
                      Event("speech-end", turnId, stopped), Event("turn-end", turnId, at)}
<1>1. /\ speaking /\ speaking' = FALSE /\ now' = now /\ turnId' = turnId
      /\ candidate = c /\ provisional'.candidate = c /\ c # None
      /\ lastSpeechAt' = lastSpeechAt
  <2> HIDE DEF stopped, at, Events
  <2>1. cands \in Seq(Candidates)
    BY DEF IInv, TypeOK
  <2>2. c # None
    BY <2>1 DEF None
  <2>3. /\ speaking' = FALSE /\ now' = now /\ turnId' = turnId
        /\ candidate = c /\ provisional'.candidate = c /\ lastSpeechAt' = lastSpeechAt
    BY DEF ModelEnd, Live
  <2>4. speaking
    BY <2>2, <2>3 DEF IInv, OneOpenTurn
  <2> QED
    BY <2>2, <2>3, <2>4
<1>said. out' = <<Event("judged", cands[c].turn, now)>> \o TurnEnd(turnId, stopped, at)
  BY DEF ModelEnd
<1>2. IsProvisional' /\ cands'[provisional'.candidate].speechEndAt = lastSpeechAt
  BY <1>1 DEF IInv, EndsWhereSpeechEnded, IsProvisional
<1>3. at = lastSpeechAt + Hangover /\ at \in (now + 1) .. (now + Hangover)
  <2>1. cands[c].speechEndAt = lastSpeechAt /\ now - lastSpeechAt < Hangover
    BY <1>1 DEF IInv, EndsWhereSpeechEnded, BackstopHolds, TurnIsOpen
  <2>2. lastSpeechAt \in Nat /\ now \in Nat /\ Hangover \in Nat /\ lastSpeechAt <= now
    BY DetectorAssumption DEF IInv, TypeOK, OneOpenTurn
  <2> QED
    BY <2>1, <2>2
<1>4. /\ Event("judged", cands[c].turn, now) \in Events
      /\ Event("speech-end", turnId, stopped) \in Events
      /\ Event("turn-end", turnId, at) \in Events
  OBVIOUS
<1> HIDE DEF Events, at, stopped
<1>5. LastBoundary' = Event("turn-end", turnId, at)
  <2>1. <<Event("judged", cands[c].turn, now)>> \in Seq(Events)
    BY <1>4
  <2>2. out' # <<>> /\ out'[Len(out')] = Event("turn-end", turnId, at)
    BY <1>said, <1>4, <2>1, EndIsSaidLast
  <2> QED
    BY <2>2 DEF LastBoundary, Event
<1> QED
  BY <1>1, <1>2, <1>3, <1>5 DEF Boundaries!EndByModel, Boundaries!Boundary, Event

\* An answer that ends nothing is no step of the boundaries.
LEMMA IgnoredAnswerIsNoBoundary ==
  ASSUME IInv, NEW c \in DOMAIN cands, IdleAnswer(c) \/ JudgeError(c)
  PROVE  Boundaries!NoBoundary
<1>1. /\ cands' = Answered(c)
      /\ UNCHANGED <<now, speaking, turnId, provisional>>
  BY DEF IdleAnswer, JudgeError
<1>2. IsProvisional =>
        cands'[provisional.candidate].speechEndAt = cands[provisional.candidate].speechEndAt
  BY <1>1, AnsweredCandidate DEF IInv, TypeOK, IsProvisional, None
<1>3. LastBoundary' = Event("none", 0, 0)
  <2>1. \/ out' = <<Event("late", cands[c].turn, now)>>
        \/ out' = <<Event("judged", cands[c].turn, now)>>
        \/ out' = <<Event("judge-error", cands[c].turn, now)>>
        \/ out' = <<>>
    BY DEF IdleAnswer, JudgeError
  <2> QED
    BY <2>1 DEF LastBoundary, Event
<1> QED
  BY <1>1, <1>2, <1>3
     DEF Boundaries!NoBoundary, Boundaries!NoEvent, Boundaries!Boundary, Event, IsProvisional

\* reset() is the boundaries' dropping of whatever was open, with no event.
LEMMA ResetIsDrop ==
  ASSUME Reset
  PROVE  Boundaries!Drop
<1>1. LastBoundary' = Event("none", 0, 0)
  BY DEF Reset, LastBoundary
<1>2. ~speaking' /\ ~IsProvisional' /\ UNCHANGED <<now, turnId>>
  BY DEF Reset, IsProvisional, NotProvisional, None
<1> QED
  BY <1>1, <1>2
     DEF Boundaries!Drop, Boundaries!NoEvent, Boundaries!Boundary, Event

\* Every call of the detector is one step of TurnBoundaries, or none.
LEMMA NextIsBoundaryNext ==
  ASSUME IInv, IInv', [Next]_vars
  PROVE  [Boundaries!Next]_(Boundaries!boundaryVars)
<1>1. ASSUME NEW level \in Levels, NEW gap \in Gaps, Push(level, now + gap)
      PROVE  Boundaries!Next
  <2> DEFINE at == now + gap
  <2>1. at \in Nat /\ at > now
    BY DetectorAssumption DEF IInv, TypeOK
  <2> HIDE DEF at
  <2>2. Push(level, at)
    BY <1>1 DEF at
  <2>3. Boundaries!Frame(level, at)
    BY <2>1, <2>2, ResumeTurnIsResume, StartSpeechIsStart, StayQuietIsPass,
       SpeakingFrameIsPass, HangoverEndIsEnd DEF Push
  <2>4. now' = at
    BY <2>3 DEF Boundaries!Frame
  <2> QED
    BY <2>1, <2>3, <2>4 DEF Boundaries!Next, Boundaries!Levels, Levels
<1>2. ASSUME NEW c \in DOMAIN cands, ModelEnd(c) \/ IdleAnswer(c) \/ JudgeError(c)
      PROVE  Boundaries!Next
  BY <1>2, ModelEndIsEnd, IgnoredAnswerIsNoBoundary DEF Boundaries!Next
<1>3. CASE Reset
  BY <1>3, ResetIsDrop DEF Boundaries!Next
<1>4. CASE UNCHANGED vars
  BY <1>4 DEF vars, Boundaries!boundaryVars, IsProvisional, LastBoundary
<1> QED
  BY <1>1, <1>2, <1>3, <1>4 DEF Next

\* TurnDetector implements TurnBoundaries: one turn at a time, one end for each
\* unless the same turn is resumed, and no end taken back at or after the
\* confirmedAt it announced, for every choice of windows and every judge.
THEOREM RefinesBoundaries == Spec => KeepsBoundaries
<1>1. Init => Boundaries!Init
  BY InitIsBoundaryInit
<1>2. IInv /\ IInv' /\ [Next]_vars => [Boundaries!Next]_(Boundaries!boundaryVars)
  BY NextIsBoundaryNext
<1> QED
  BY <1>1, <1>2, InvariantHolds, PTL DEF Spec, KeepsBoundaries, Boundaries!Spec

-----------------------------------------------------------------------------
(* The audio of a turn.                                                      *)

\* `frames` is the last Len(frames) of the first n frames.
RunsTo(n, frames) ==
  /\ Len(frames) <= n
  /\ \A i \in 1 .. Len(frames) : frames[i] = n - Len(frames) + i

\* While a turn is being spoken the ring is empty: its frames are the turn's.
FramesOK == NoFrameLost /\ (speaking => preroll = <<>>)

\* The turn that is open goes on from all that its candidates heard.
WordsOK ==
  /\ TurnNeverShrinks
  /\ \A c \in DOMAIN cands :
       /\ cands[c].turn <= turnId
       /\ TurnIsOpen /\ cands[c].turn = turnId => StartsWith(TurnFrames, cands[c].audio)

AudioInv == IInv /\ FramesOK /\ WordsOK

\* The candidates of two lists are the same but for how they were answered.
SameWords(list, list2) ==
  /\ Len(list2) = Len(list)
  /\ \A c \in DOMAIN list :
       /\ c \in DOMAIN list2
       /\ list2[c].turn = list[c].turn /\ list2[c].audio = list[c].audio

-----------------------------------------------------------------------------
(* The operators.                                                            *)

\* RunsToNow is about the frames captured so far.
LEMMA RunsToCaptured ==
  ASSUME NEW frames \in Seq(Nat)
  PROVE  RunsToNow(frames) <=> RunsTo(captured, frames)
BY DEF RunsToNow, RunsTo

LEMMA NothingRuns ==
  ASSUME NEW n \in Nat
  PROVE  RunsTo(n, <<>>)
BY DEF RunsTo

\* Frames up to the last one, and one more.
LEMMA RunsOn ==
  ASSUME NEW n \in Nat, NEW frames \in Seq(Nat), RunsTo(n, frames)
  PROVE  /\ Append(frames, n + 1) \in Seq(Nat)
         /\ RunsTo(n + 1, Append(frames, n + 1))
<1> DEFINE longer == Append(frames, n + 1)
<1>1. /\ longer \in Seq(Nat) /\ Len(longer) = Len(frames) + 1 /\ Len(frames) \in Nat
      /\ \A i \in 1 .. Len(frames) : longer[i] = frames[i]
      /\ longer[Len(frames) + 1] = n + 1
  OBVIOUS
<1> HIDE DEF longer
<1> QED
  BY <1>1 DEF RunsTo

\* keepPreroll drops frames from the front only.
LEMMA KeptRuns ==
  ASSUME NEW n \in Nat, NEW frames \in Seq(Nat), RunsTo(n, frames), frames # <<>>
  PROVE  RunsTo(n, KeepPreroll(frames))
<1>1. Len(frames) \in Nat /\ Len(frames) >= 1 /\ Preroll \in Nat
  BY DetectorAssumption
<1>2. ASSUME NEW k \in 1 .. Len(frames)
      PROVE  RunsTo(n, SubSeq(frames, k, Len(frames)))
  <2> DEFINE rest == SubSeq(frames, k, Len(frames))
  <2>1. Len(rest) = Len(frames) - k + 1
    BY <1>1
  <2>2. \A i \in 1 .. Len(rest) : rest[i] = frames[k + i - 1]
    BY <1>1
  <2> HIDE DEF rest
  <2> QED
    BY <1>1, <2>1, <2>2 DEF RunsTo, rest
<1>3. KeepPreroll(frames) = SubSeq(frames, 1, Len(frames))
        \/ (Len(frames) > 1 /\ KeepPreroll(frames) = SubSeq(frames, 2, Len(frames)))
  BY DEF KeepPreroll
<1>4. CASE KeepPreroll(frames) = SubSeq(frames, 1, Len(frames))
  BY <1>1, <1>2, <1>4
<1>5. CASE Len(frames) > 1 /\ KeepPreroll(frames) = SubSeq(frames, 2, Len(frames))
  <2>1. 2 \in 1 .. Len(frames)
    BY <1>1, <1>5
  <2> QED
    BY <1>2, <1>5, <2>1
<1> QED
  BY <1>3, <1>4, <1>5

\* The ring, after a frame that opens no turn or opens one.
LEMMA PrerollRuns ==
  ASSUME TypeOK, RunsToNow(preroll)
  PROVE  /\ KeepPreroll(Append(preroll, frame)) \in Seq(Nat)
         /\ RunsTo(frame, KeepPreroll(Append(preroll, frame)))
<1>1. captured \in Nat /\ preroll \in Seq(Nat) /\ frame = captured + 1 /\ frame \in Nat
  BY DEF TypeOK, frame
<1>2. /\ Append(preroll, frame) \in Seq(Nat) /\ RunsTo(frame, Append(preroll, frame))
  BY <1>1, RunsToCaptured, RunsOn
<1>3. Append(preroll, frame) # <<>>
  <2>1. Len(Append(preroll, frame)) = Len(preroll) + 1 /\ Len(preroll) \in Nat
    BY <1>1
  <2> QED
    BY <2>1
<1>4. KeepPreroll(Append(preroll, frame)) \in Seq(Nat)
  BY <1>1, KeepPrerollBounded DEF TypeOK
<1> QED
  BY <1>1, <1>2, <1>3, <1>4, KeptRuns

LEMMA StartsLonger ==
  ASSUME NEW frames \in Seq(Nat), NEW f \in Nat, NEW head \in Seq(Nat),
         StartsWith(frames, head)
  PROVE  StartsWith(Append(frames, f), head)
<1> DEFINE longer == Append(frames, f)
<1>1. /\ Len(longer) = Len(frames) + 1 /\ Len(frames) \in Nat /\ Len(head) \in Nat
      /\ \A i \in 1 .. Len(frames) : longer[i] = frames[i]
      /\ DOMAIN head = 1 .. Len(head)
  OBVIOUS
<1> HIDE DEF longer
<1>2. Len(head) <= Len(frames) /\ \A i \in DOMAIN head : frames[i] = head[i]
  BY DEF StartsWith
<1>3. Len(head) <= Len(longer)
  BY <1>1, <1>2
<1>4. \A i \in DOMAIN head : longer[i] = head[i]
  BY <1>1, <1>2
<1> QED
  BY <1>3, <1>4 DEF StartsWith, longer

\* A candidate marked, or answered, heard what it heard.
LEMMA MarkedSame ==
  ASSUME NEW list \in Seq(Candidates), NEW c, NEW state
  PROVE  SameWords(list, [list EXCEPT ![c].state = state])
<1> DEFINE marked == [list EXCEPT ![c].state = state]
<1>1. DOMAIN marked = DOMAIN list /\ Len(marked) = Len(list)
  OBVIOUS
<1>2. ASSUME NEW d \in DOMAIN list
      PROVE  marked[d].turn = list[d].turn /\ marked[d].audio = list[d].audio
  <2>1. list[d] \in Candidates
    OBVIOUS
  <2>2. marked[d] = IF d = c THEN [list[d] EXCEPT !.state = state] ELSE list[d]
    OBVIOUS
  <2> HIDE DEF marked
  <2> QED
    BY <2>1, <2>2 DEF Candidates
<1> QED
  BY <1>1, <1>2 DEF SameWords

LEMMA AnsweredSame ==
  ASSUME NEW list \in Seq(Candidates), NEW c, NEW judging
  PROVE  SameWords(list, [list EXCEPT ![c].judging = judging])
<1> DEFINE marked == [list EXCEPT ![c].judging = judging]
<1>1. DOMAIN marked = DOMAIN list /\ Len(marked) = Len(list)
  OBVIOUS
<1>2. ASSUME NEW d \in DOMAIN list
      PROVE  marked[d].turn = list[d].turn /\ marked[d].audio = list[d].audio
  <2>1. list[d] \in Candidates
    OBVIOUS
  <2>2. marked[d] = IF d = c THEN [list[d] EXCEPT !.judging = judging] ELSE list[d]
    OBVIOUS
  <2> HIDE DEF marked
  <2> QED
    BY <2>1, <2>2 DEF Candidates
<1> QED
  BY <1>1, <1>2 DEF SameWords

LEMMA SameChain ==
  ASSUME NEW a, NEW b, NEW c, SameWords(a, b), SameWords(b, c)
  PROVE  SameWords(a, c)
BY DEF SameWords

LEMMA CandidateTyped ==
  ASSUME TypeOK
  PROVE  /\ cands \in Seq(Candidates)
         /\ \A c \in DOMAIN cands : cands[c] \in Candidates /\ cands[c].audio \in Seq(Nat)
<1>1. cands \in Seq(Candidates) /\ \A c \in DOMAIN cands : cands[c] \in Candidates
  BY DEF TypeOK
<1>2. \A one \in Candidates : one.audio \in Seq(Nat)
  BY DEF Candidates
<1> QED
  BY <1>1, <1>2

-----------------------------------------------------------------------------
(* A step keeps WordsOK if ...                                               *)

\* ... it offers nothing, and the turn it leaves open, if any, is the one that
\* was open and has lost none of its frames,
LEMMA NothingOffered ==
  ASSUME AudioInv, TypeOK', SameWords(cands, cands'), turnId' = turnId,
         TurnIsOpen' => TurnIsOpen,
         TurnIsOpen' => \A head \in Seq(Nat) :
                          StartsWith(TurnFrames, head) => StartsWith(TurnFrames', head)
  PROVE  WordsOK'
<1>1. DOMAIN cands' = DOMAIN cands
  BY DEF SameWords, AudioInv, IInv, TypeOK
<1>2. \A c \in DOMAIN cands : cands[c] \in Candidates /\ cands[c].audio \in Seq(Nat)
  BY CandidateTyped DEF AudioInv, IInv
<1>3. TurnNeverShrinks'
  BY <1>1 DEF AudioInv, WordsOK, TurnNeverShrinks, SameWords, StartsWith
<1>4. ASSUME NEW c \in DOMAIN cands'
      PROVE  /\ cands'[c].turn <= turnId'
             /\ TurnIsOpen' /\ cands'[c].turn = turnId'
                  => StartsWith(TurnFrames', cands'[c].audio)
  BY <1>1, <1>2, <1>4 DEF AudioInv, WordsOK, SameWords
<1> QED
  BY <1>3, <1>4, <1>1 DEF WordsOK, StartsWith

\* ... or it offers the frames so far, after which the turn goes on from them
\* or is over.
LEMMA OneOffered ==
  ASSUME AudioInv, TypeOK', speaking, NEW heard \in Seq(Nat),
         \A head \in Seq(Nat) : StartsWith(utterance, head) => StartsWith(heard, head),
         SameWords(Append(cands, Offered(heard)), cands'), turnId' = turnId,
         TurnIsOpen' => TurnFrames' = heard
  PROVE  WordsOK'
<1> DEFINE offer == Offered(heard)
<1>1. /\ cands \in Seq(Candidates) /\ Len(cands) \in Nat /\ turnId \in Nat
      /\ cands' \in Seq(Candidates)
      /\ \A c \in DOMAIN cands : cands[c].audio \in Seq(Nat)
  <2>1. turnId \in Nat /\ cands' \in Seq(Candidates)
    BY DEF AudioInv, IInv, TypeOK
  <2> QED
    BY <2>1, CandidateTyped DEF AudioInv, IInv
<1>2. offer.turn = turnId /\ offer.audio = heard
  BY DEF Offered
<1> HIDE DEF offer
<1>3. /\ Len(cands') = Len(cands) + 1
      /\ DOMAIN cands' = 1 .. Len(cands) + 1
      /\ \A c \in 1 .. Len(cands) :
           cands'[c].turn = cands[c].turn /\ cands'[c].audio = cands[c].audio
      /\ cands'[Len(cands) + 1].turn = turnId /\ cands'[Len(cands) + 1].audio = heard
  <2> DEFINE longer == Append(cands, offer)
  <2>1. /\ Len(longer) = Len(cands) + 1 /\ DOMAIN longer = 1 .. Len(cands) + 1
        /\ \A c \in 1 .. Len(cands) : longer[c] = cands[c]
        /\ longer[Len(cands) + 1] = offer
    BY <1>1
  <2>2. SameWords(longer, cands')
    BY DEF offer
  <2> HIDE DEF longer
  <2>3. DOMAIN cands' = 1 .. Len(cands')
    BY <1>1
  <2>4. /\ Len(cands') = Len(longer)
        /\ \A c \in DOMAIN longer :
             cands'[c].turn = longer[c].turn /\ cands'[c].audio = longer[c].audio
    BY <2>2 DEF SameWords
  <2>5. Len(cands) + 1 \in DOMAIN longer /\ \A c \in 1 .. Len(cands) : c \in DOMAIN longer
    BY <1>1, <2>1
  <2> QED
    BY <1>2, <2>1, <2>3, <2>4, <2>5
<1>4. DOMAIN cands = 1 .. Len(cands)
  BY <1>1
<1>5. \A c \in 1 .. Len(cands) :
        cands[c].turn <= turnId /\ (cands[c].turn = turnId => StartsWith(heard, cands[c].audio))
  BY <1>1, <1>4 DEF AudioInv, WordsOK, TurnIsOpen, TurnFrames
<1>6. StartsWith(heard, heard)
  BY DEF StartsWith
<1>7. ASSUME NEW c \in DOMAIN cands', NEW d \in DOMAIN cands',
             c < d, cands'[c].turn = cands'[d].turn
      PROVE  StartsWith(cands'[d].audio, cands'[c].audio)
  <2>1. c \in 1 .. Len(cands)
    BY <1>1, <1>3, <1>7
  <2>2. CASE d \in 1 .. Len(cands)
    <3>1. cands[c].turn = cands[d].turn
      BY <1>3, <1>7, <2>1, <2>2
    <3>2. StartsWith(cands[d].audio, cands[c].audio)
      BY <1>4, <1>7, <2>1, <2>2, <3>1 DEF AudioInv, WordsOK, TurnNeverShrinks
    <3> QED
      BY <1>3, <2>1, <2>2, <3>2
  <2>3. CASE d = Len(cands) + 1
    <3>1. cands[c].turn = turnId
      BY <1>3, <1>7, <2>1, <2>3
    <3> QED
      BY <1>3, <1>5, <2>1, <2>3, <3>1
  <2> QED
    BY <1>1, <1>3, <2>2, <2>3
<1>8. ASSUME NEW c \in DOMAIN cands'
      PROVE  /\ cands'[c].turn <= turnId'
             /\ TurnIsOpen' /\ cands'[c].turn = turnId'
                  => StartsWith(TurnFrames', cands'[c].audio)
  <2>1. CASE c \in 1 .. Len(cands)
    BY <1>3, <1>5, <2>1
  <2>2. CASE c = Len(cands) + 1
    BY <1>1, <1>3, <1>6, <2>2
  <2> QED
    BY <1>1, <1>3, <2>1, <2>2
<1>9. TurnNeverShrinks'
  BY <1>7 DEF TurnNeverShrinks, StartsWith
<1> QED
  BY <1>8, <1>9 DEF WordsOK, StartsWith

\* A turn that was open keeps its candidates in what it goes on with.
LEMMA GoesOn ==
  ASSUME NEW frames \in Seq(Nat), NEW f \in Nat
  PROVE  \A head \in Seq(Nat) :
           StartsWith(frames, head) => StartsWith(Append(frames, f), head)
BY StartsLonger

-----------------------------------------------------------------------------
(* One lemma per way through a call.                                         *)

\* FramesOK after a step, by the frames it leaves.
LEMMA FramesThere ==
  ASSUME TypeOK', TurnIsOpen' => RunsTo(captured', TurnFrames'), RunsTo(captured', preroll'),
         speaking' => preroll' = <<>>
  PROVE  FramesOK'
<1>1. \A frames \in Seq(Nat) : DOMAIN frames = 1 .. Len(frames)
  OBVIOUS
<1>2. preroll' \in Seq(Nat) /\ TurnFrames' \in Seq(Nat)
  BY DEF TypeOK, TurnFrames
<1>3. RunsToNow(preroll)'
  BY <1>1, <1>2 DEF RunsToNow, RunsTo
<1>4. (TurnIsOpen => RunsToNow(TurnFrames))'
  BY <1>1, <1>2 DEF RunsToNow, RunsTo
<1> QED
  BY <1>3, <1>4 DEF FramesOK, NoFrameLost

LEMMA ResumeTurnHears ==
  ASSUME AudioInv, TypeOK', NEW level \in Levels, NEW at \in Nat, ResumeTurn(level, at)
  PROVE  FramesOK' /\ WordsOK'
<1>1. /\ IsProvisional /\ ~speaking /\ provisional.frames \in Seq(Nat)
      /\ captured \in Nat /\ frame \in Nat /\ captured' = frame /\ frame = captured + 1
      /\ speaking' = TRUE /\ utterance' = Append(provisional.frames, frame)
      /\ preroll' = <<>> /\ turnId' = turnId
      /\ cands' = Superseded(cands, provisional.candidate)
  BY DEF ResumeTurn, RetractableAt, Resumed, FrameAt, frame, AudioInv, IInv, TypeOK
<1>2. TurnIsOpen /\ TurnFrames = provisional.frames /\ TurnFrames' = utterance'
  BY <1>1 DEF TurnIsOpen, TurnFrames
<1>3. RunsTo(captured', utterance')
  BY <1>1, <1>2, RunsToCaptured, RunsOn DEF AudioInv, FramesOK, NoFrameLost
<1>4. FramesOK'
  BY <1>1, <1>2, <1>3, NothingRuns, FramesThere
<1>5. SameWords(cands, cands')
  BY <1>1, MarkedSame DEF Superseded, AudioInv, IInv, TypeOK
<1>6. WordsOK'
  BY <1>1, <1>2, <1>5, GoesOn, NothingOffered
<1> QED
  BY <1>4, <1>6

\* A new turn has no candidates, and starts with the ring.
LEMMA StartSpeechHears ==
  ASSUME AudioInv, TypeOK', NEW level \in Levels, NEW at \in Nat, StartSpeech(level, at)
  PROVE  FramesOK' /\ WordsOK'
<1>1. /\ captured' = frame /\ speaking' = TRUE /\ preroll' = <<>>
      /\ utterance' = KeepPreroll(Append(preroll, frame))
      /\ turnId' = turnId + 1 /\ turnId \in Nat /\ cands' = cands
      /\ captured \in Nat /\ frame \in Nat
  BY DEF StartSpeech, FrameAt, frame, AudioInv, IInv, TypeOK
<1>2. TurnFrames' = utterance' /\ RunsTo(captured', utterance')
  BY <1>1, PrerollRuns DEF TurnFrames, AudioInv, IInv, FramesOK, NoFrameLost
<1>3. FramesOK'
  BY <1>1, <1>2, NothingRuns, FramesThere
<1>4. \A c \in DOMAIN cands : cands[c].turn \in Nat /\ cands[c].turn <= turnId
  <2>1. \A one \in Candidates : one.turn \in Nat
    BY DEF Candidates
  <2> QED
    BY <2>1, CandidateTyped DEF AudioInv, IInv, WordsOK
<1>5. \A c \in DOMAIN cands' : cands'[c].turn <= turnId' /\ cands'[c].turn # turnId'
  BY <1>1, <1>4
<1>6. TurnNeverShrinks'
  BY <1>1 DEF TurnNeverShrinks, AudioInv, WordsOK, StartsWith
<1>7. WordsOK'
  BY <1>5, <1>6 DEF WordsOK
<1> QED
  BY <1>3, <1>7

LEMMA StayQuietHears ==
  ASSUME AudioInv, TypeOK', NEW level \in Levels, NEW at \in Nat, StayQuiet(level, at)
  PROVE  FramesOK' /\ WordsOK'
<1>1. /\ ~speaking /\ ~speaking' /\ captured' = frame /\ frame = captured + 1
      /\ captured \in Nat /\ frame \in Nat /\ provisional.frames \in Seq(Nat)
      /\ preroll' = KeepPreroll(Append(preroll, frame))
      /\ turnId' = turnId /\ cands' = cands
  BY DEF StayQuiet, FrameAt, frame, AudioInv, IInv, TypeOK
<1>2. /\ IsProvisional' => IsProvisional
      /\ IsProvisional' => provisional'.frames = Append(provisional.frames, frame)
  <2>1. CASE RetractableAt(at)
    <3>1. provisional' = [provisional EXCEPT !.frames = Append(@, frame)]
      BY <2>1 DEF StayQuiet
    <3>2. provisional \in [candidate : 0 .. Len(cands), frames : Seq(Nat)]
      BY DEF AudioInv, IInv, TypeOK
    <3> QED
      BY <2>1, <3>1, <3>2 DEF RetractableAt
  <2>2. CASE ~RetractableAt(at)
    <3>1. provisional' = NotProvisional
      BY <2>2 DEF StayQuiet
    <3> QED
      BY <3>1 DEF IsProvisional, NotProvisional
  <2> QED
    BY <2>1, <2>2
<1>3. TurnIsOpen' => /\ TurnIsOpen /\ TurnFrames = provisional.frames
                     /\ TurnFrames' = Append(provisional.frames, frame)
  BY <1>1, <1>2 DEF TurnIsOpen, TurnFrames
<1>4. TurnIsOpen' => RunsTo(captured', TurnFrames')
  BY <1>1, <1>3, RunsToCaptured, RunsOn DEF AudioInv, FramesOK, NoFrameLost
<1>5. RunsTo(captured', preroll')
  BY <1>1, PrerollRuns DEF AudioInv, IInv, FramesOK, NoFrameLost
<1>6. FramesOK'
  BY <1>1, <1>4, <1>5, FramesThere
<1>7. SameWords(cands, cands')
  BY <1>1 DEF SameWords
<1>8. WordsOK'
  BY <1>1, <1>3, <1>7, GoesOn, NothingOffered
<1> QED
  BY <1>6, <1>8

\* A frame of a turn that stays open, and offers nothing.
LEMMA TalkingHears ==
  ASSUME AudioInv, TypeOK', speaking, speaking', captured' = frame,
         utterance' = Append(utterance, frame), UNCHANGED <<turnId, preroll>>,
         SameWords(cands, cands')
  PROVE  FramesOK' /\ WordsOK'
<1>1. /\ utterance \in Seq(Nat) /\ captured \in Nat /\ frame \in Nat
      /\ frame = captured + 1 /\ preroll = <<>>
  BY DEF AudioInv, IInv, TypeOK, frame, FramesOK
<1>2. TurnIsOpen /\ TurnFrames = utterance /\ TurnFrames' = utterance'
  BY DEF TurnIsOpen, TurnFrames
<1>3. RunsTo(captured', utterance')
  BY <1>1, <1>2, RunsToCaptured, RunsOn DEF AudioInv, FramesOK, NoFrameLost
<1>4. FramesOK'
  BY <1>1, <1>2, <1>3, NothingRuns, FramesThere
<1>5. WordsOK'
  BY <1>1, <1>2, GoesOn, NothingOffered
<1> QED
  BY <1>4, <1>5

LEMMA KeepTalkingHears ==
  ASSUME AudioInv, TypeOK', NEW level \in Levels, NEW at \in Nat, KeepTalking(level, at)
  PROVE  FramesOK' /\ WordsOK'
<1>1. SameWords(cands, cands')
  <2>1. CASE candidate # None
    BY <2>1, MarkedSame DEF KeepTalking, Superseded, AudioInv, IInv, TypeOK
  <2>2. CASE candidate = None
    BY <2>2 DEF KeepTalking, SameWords
  <2> QED
    BY <2>1, <2>2
<1> QED
  BY <1>1, TalkingHears DEF KeepTalking, FrameAt

\* The candidate a pause offers has heard all of the turn.
LEMMA PauseHears ==
  ASSUME AudioInv, TypeOK', NEW level \in Levels, NEW at \in Nat, Pause(level, at)
  PROVE  FramesOK' /\ WordsOK'
<1>1. /\ speaking /\ speaking' /\ captured' = frame /\ utterance' = Append(utterance, frame)
      /\ UNCHANGED <<turnId, preroll>>
      /\ cands' = cands \/ cands' = Append(cands, Offered(utterance'))
  BY DEF Pause, FrameAt
<1>2. CASE cands' = cands
  <2>1. SameWords(cands, cands')
    BY <1>2 DEF SameWords
  <2> QED
    BY <1>1, <2>1, TalkingHears
<1>3. CASE cands' = Append(cands, Offered(utterance'))
  <2>1. /\ utterance \in Seq(Nat) /\ captured \in Nat /\ frame \in Nat
        /\ frame = captured + 1 /\ preroll = <<>> /\ utterance' \in Seq(Nat)
    BY <1>1 DEF AudioInv, IInv, TypeOK, frame, FramesOK
  <2>2. TurnIsOpen /\ TurnFrames = utterance /\ TurnFrames' = utterance'
    BY <1>1 DEF TurnIsOpen, TurnFrames
  <2>3. RunsTo(captured', utterance')
    BY <1>1, <2>1, <2>2, RunsToCaptured, RunsOn DEF AudioInv, FramesOK, NoFrameLost
  <2>4. FramesOK'
    BY <1>1, <2>1, <2>2, <2>3, NothingRuns, FramesThere
  <2>5. SameWords(Append(cands, Offered(utterance')), cands')
    BY <1>3 DEF SameWords
  <2>6. WordsOK'
    BY <1>1, <2>1, <2>2, <2>5, GoesOn, OneOffered
  <2> QED
    BY <2>4, <2>6
<1> QED
  BY <1>1, <1>2, <1>3

\* The hangover ends the turn on what was offered, if need be with this frame.
LEMMA HangoverEndHears ==
  ASSUME AudioInv, TypeOK', NEW level \in Levels, NEW at \in Nat, HangoverEnd(level, at)
  PROVE  FramesOK' /\ WordsOK'
<1> DEFINE heard == Append(utterance, frame)
           offered == IF candidate = None THEN Append(cands, Offered(heard)) ELSE cands
           ended == IF candidate = None THEN Len(cands) + 1 ELSE candidate
<1>1. /\ speaking /\ ~speaking' /\ captured' = frame /\ preroll' = <<>>
      /\ cands' = [offered EXCEPT ![ended].state = "hangover"]
      /\ UNCHANGED <<turnId, provisional>>
  BY DEF HangoverEnd, FrameAt
<1>2. /\ utterance \in Seq(Nat) /\ captured \in Nat /\ frame \in Nat /\ heard \in Seq(Nat)
      /\ cands \in Seq(Candidates)
  BY DEF AudioInv, IInv, TypeOK, frame
<1>3. ~TurnIsOpen'
  BY <1>1 DEF TurnIsOpen, IsProvisional, AudioInv, IInv, OneOpenTurn
<1>4. FramesOK'
  BY <1>1, <1>2, <1>3, NothingRuns, FramesThere
<1>5. offered \in Seq(Candidates)
  BY <1>2, OfferedCandidate DEF AudioInv, IInv
<1>6. SameWords(offered, cands')
  <2> HIDE DEF offered, ended
  <2> QED
    BY <1>1, <1>5, MarkedSame
<1> HIDE DEF heard, ended
<1>7. CASE candidate = None
  <2>1. SameWords(Append(cands, Offered(heard)), cands')
    BY <1>6, <1>7
  <2>2. \A head \in Seq(Nat) : StartsWith(utterance, head) => StartsWith(heard, head)
    BY <1>2, GoesOn DEF heard
  <2> QED
    BY <1>1, <1>2, <1>3, <1>4, <2>1, <2>2, OneOffered
<1>8. CASE candidate # None
  <2>1. SameWords(cands, cands')
    BY <1>6, <1>8
  <2> QED
    BY <1>1, <1>3, <1>4, <2>1, NothingOffered
<1> QED
  BY <1>7, <1>8

\* The judge ends the turn, and what was heard of it is kept to go on with.
LEMMA ModelEndHears ==
  ASSUME AudioInv, TypeOK', NEW c \in DOMAIN cands, ModelEnd(c)
  PROVE  FramesOK' /\ WordsOK'
<1>1. /\ Live(c) /\ cands' = [Answered(c) EXCEPT ![c].state = "won"]
      /\ ~speaking' /\ preroll' = <<>> /\ provisional'.frames = utterance
      /\ UNCHANGED <<captured, turnId>>
  BY DEF ModelEnd
<1>2. speaking /\ captured \in Nat /\ utterance \in Seq(Nat) /\ cands \in Seq(Candidates)
  <2>1. c # None
    <3>1. cands \in Seq(Candidates)
      BY DEF AudioInv, IInv, TypeOK
    <3> QED
      BY <3>1 DEF None
  <2> QED
    BY <1>1, <2>1 DEF Live, AudioInv, IInv, OneOpenTurn, TypeOK
<1>3. TurnIsOpen /\ TurnFrames = utterance /\ TurnFrames' = utterance
  BY <1>1, <1>2 DEF TurnIsOpen, TurnFrames
<1>4. RunsTo(captured, utterance)
  BY <1>2, <1>3, RunsToCaptured DEF AudioInv, FramesOK, NoFrameLost
<1>5. FramesOK'
  BY <1>1, <1>2, <1>3, <1>4, NothingRuns, FramesThere
<1>6. Answered(c) \in Seq(Candidates) /\ SameWords(cands, Answered(c))
  BY <1>2, AnsweredCandidate, AnsweredSame DEF Answered, AudioInv, IInv
<1>7. SameWords(Answered(c), cands')
  BY <1>1, <1>6, MarkedSame
<1>8. SameWords(cands, cands')
  BY <1>6, <1>7, SameChain
<1>9. WordsOK'
  BY <1>1, <1>3, <1>8, NothingOffered
<1> QED
  BY <1>5, <1>9

\* An answer that ends nothing, and an error.
LEMMA AnswerHears ==
  ASSUME AudioInv, TypeOK', NEW c \in DOMAIN cands, IdleAnswer(c) \/ JudgeError(c)
  PROVE  FramesOK' /\ WordsOK'
<1>1. /\ cands' = Answered(c)
      /\ UNCHANGED <<captured, speaking, turnId, preroll, utterance, provisional>>
  BY DEF IdleAnswer, JudgeError
<1>2. SameWords(cands, cands')
  BY <1>1, AnsweredSame DEF Answered, AudioInv, IInv, TypeOK
<1>3. (TurnIsOpen' <=> TurnIsOpen) /\ TurnFrames' = TurnFrames
  BY <1>1 DEF TurnIsOpen, TurnFrames, IsProvisional
<1>4. FramesOK'
  BY <1>1, <1>3 DEF AudioInv, FramesOK, NoFrameLost, RunsToNow
<1>5. WordsOK'
  BY <1>1, <1>2, <1>3, NothingOffered
<1> QED
  BY <1>4, <1>5

LEMMA ResetHears ==
  ASSUME AudioInv, TypeOK', Reset
  PROVE  FramesOK' /\ WordsOK'
<1>1. /\ cands' = IF candidate # None THEN Superseded(cands, candidate) ELSE cands
      /\ provisional' = NotProvisional /\ ~speaking' /\ preroll' = <<>>
      /\ UNCHANGED <<captured, turnId>>
  BY DEF Reset
<1>2. ~TurnIsOpen' /\ captured \in Nat
  BY <1>1 DEF TurnIsOpen, IsProvisional, NotProvisional, AudioInv, IInv, TypeOK
<1>3. FramesOK'
  BY <1>1, <1>2, NothingRuns, FramesThere
<1>4. SameWords(cands, cands')
  <2>1. CASE candidate # None
    BY <1>1, <2>1, MarkedSame DEF Superseded, AudioInv, IInv, TypeOK
  <2>2. CASE candidate = None
    BY <1>1, <2>2 DEF SameWords
  <2> QED
    BY <2>1, <2>2
<1> QED
  BY <1>1, <1>2, <1>3, <1>4, NothingOffered

-----------------------------------------------------------------------------

LEMMA InitHears ==
  ASSUME Init
  PROVE  FramesOK /\ WordsOK
<1>1. /\ ~TurnIsOpen /\ preroll = <<>> /\ captured = 0 /\ cands = <<>> /\ DOMAIN cands = {}
  BY DEF Init, TurnIsOpen, IsProvisional, NotProvisional
<1> QED
  BY <1>1 DEF FramesOK, WordsOK, NoFrameLost, RunsToNow, TurnNeverShrinks

LEMMA NextHears ==
  ASSUME AudioInv, [Next]_vars
  PROVE  AudioInv'
<1>1. IInv'
  BY NextKeepsIInv DEF AudioInv
<1>2. TypeOK'
  BY <1>1 DEF IInv
<1>3. ASSUME NEW level \in Levels, NEW gap \in Gaps, Push(level, now + gap)
      PROVE  FramesOK' /\ WordsOK'
  <2>1. now + gap \in Nat
    BY DetectorAssumption DEF AudioInv, IInv, TypeOK
  <2> QED
    BY <1>2, <1>3, <2>1, ResumeTurnHears, StartSpeechHears, StayQuietHears, KeepTalkingHears,
       PauseHears, HangoverEndHears DEF Push
<1>4. ASSUME NEW c \in DOMAIN cands, ModelEnd(c) \/ IdleAnswer(c) \/ JudgeError(c)
      PROVE  FramesOK' /\ WordsOK'
  BY <1>2, <1>4, ModelEndHears, AnswerHears
<1>5. ASSUME UNCHANGED vars
      PROVE  FramesOK' /\ WordsOK'
  BY <1>5 DEF vars, AudioInv, FramesOK, WordsOK, NoFrameLost, RunsToNow, TurnNeverShrinks,
              TurnIsOpen, TurnFrames, IsProvisional, StartsWith
<1>6. ASSUME Reset
      PROVE  FramesOK' /\ WordsOK'
  BY <1>2, <1>6, ResetHears
<1>7. FramesOK' /\ WordsOK'
  BY <1>3, <1>4, <1>5, <1>6 DEF Next
<1> QED
  BY <1>1, <1>7 DEF AudioInv

\* Every frame a turn holds is one of an unbroken run up to the frame just
\* heard, and an open turn starts with all that its candidates were judged on
\* (push, resumeTurn, keepPreroll).
THEOREM AudioInvariant == Spec => []AudioInv
<1>1. Init => AudioInv
  BY InitIInv, InitHears DEF AudioInv
<1>2. AudioInv /\ [Next]_vars => AudioInv'
  BY NextHears
<1> QED
  BY <1>1, <1>2, PTL DEF Spec

\* However often a turn is ended by the judge and taken back, no frame of it is
\* lost or heard twice, from its pre-roll to the frame just heard (push,
\* resumeTurn, keepPreroll).
THEOREM NeverLosesAFrame == Spec => []NoFrameLost
<1>1. AudioInv => NoFrameLost
  BY DEF AudioInv, FramesOK
<1> QED
  BY <1>1, AudioInvariant, PTL

\* Whatever order pauses, answers and retractions come in, each candidate of a
\* turn hears all that the turn's earlier candidates heard (offerCandidate,
\* resumeTurn).
THEOREM CandidatesOnlyGrow == Spec => []TurnNeverShrinks
<1>1. AudioInv => TurnNeverShrinks
  BY DEF AudioInv, WordsOK
<1> QED
  BY <1>1, AudioInvariant, PTL
=============================================================================
