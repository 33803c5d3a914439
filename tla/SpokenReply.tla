----------------------------- MODULE SpokenReply ------------------------------
(*****************************************************************************)
(* What a Reply (packages/core/src/reply/reply.ts) promises the session that *)
(* started it: it is heard only after its hold was released, it settles      *)
(* once, and its outcome says whether any of it was audible.  Sentences,     *)
(* synthesis and the sink are left out.  Reply is shown to implement this    *)
(* module, and VoiceSession is built on it.                                  *)
(*****************************************************************************)
CONSTANTS Replies   \* the replies of a conversation

VARIABLES
  standing,  \* per reply: "none", "working", "audible", or how it settled
  released   \* the replies whose hold has resolved

replyVars == <<standing, released>>

Outcomes == {"complete", "interrupted", "abandoned", "failed"}
Live == {"working", "audible"}

Init ==
  /\ standing = [r \in Replies |-> "none"]
  /\ released = {}

\* new Reply(...)
Begin(r) ==
  /\ standing[r] = "none"
  /\ standing' = [standing EXCEPT ![r] = "working"]
  /\ UNCHANGED released

\* The turn is confirmed: audio may play.
Release(r) ==
  /\ released' = released \cup {r}
  /\ UNCHANGED standing

\* The first sentence reaches the speakers.
AudioStarts(r) ==
  /\ standing[r] = "working"
  /\ r \in released
  /\ standing' = [standing EXCEPT ![r] = "audible"]
  /\ UNCHANGED released

\* Everything generated was played, or generating it failed.  An answer with no
\* audio in it settles without ever being audible, and without waiting for its
\* hold.
Settle(r, outcome) ==
  /\ outcome \in {"complete", "failed"}
  /\ standing[r] \in Live
  /\ standing' = [standing EXCEPT ![r] = outcome]
  /\ UNCHANGED released

\* What interrupt() makes of a reply, which is what it returns.
Interrupted(status) ==
  CASE status = "working" -> "abandoned"
    [] status = "audible" -> "interrupted"
    [] OTHER -> status

\* interrupt().  The frame that cuts an answer may be the one that confirms a turn.
Interrupt(r) ==
  /\ standing[r] \in Live
  /\ standing' = [standing EXCEPT ![r] = Interrupted(@)]
  /\ released' = released \/ \E q \in Replies : released' = released \cup {q}

Next ==
  \E r \in Replies :
    \/ Begin(r) \/ Release(r) \/ AudioStarts(r) \/ Interrupt(r)
    \/ \E outcome \in Outcomes : Settle(r, outcome)

Spec == Init /\ [][Next]_replyVars
=============================================================================
