-------------------------------- MODULE MCReply -------------------------------
\* Two answers, one after the other, into one sink.
EXTENDS Reply

MCReplies == 1 .. 2
=============================================================================
