---------------------------- MODULE MCVoiceSession -----------------------------
\* A turn is final at most three ticks after it ends, an interruption takes two frames of
\* speech and a release two of silence.
EXTENDS VoiceSession

MCGaps == {1, 2}
=============================================================================
