---------------------------- MODULE MCTurnDetector ----------------------------
\* A small detector: a candidate after one tick of silence, the hangover after
\* three, frames one or three ticks apart.
EXTENDS TurnDetector

MCGaps == {1, 3}
=============================================================================
