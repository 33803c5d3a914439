---------------------------- MODULE MCBargeInWatch -----------------------------
\* An interruption takes three frames of speech, a release two of silence.
EXTENDS BargeInWatch
=============================================================================
