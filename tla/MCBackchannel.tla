----------------------------- MODULE MCBackchannel -----------------------------
\* Two answers, one after the other, and a clip before, between or under them.
EXTENDS Backchannel

MCReplies == 1 .. 2
=============================================================================
