------------------------------- MODULE MCChatPage --------------------------------
(*****************************************************************************)
(* Two answers, and a call between them: on the page's machine, on one that  *)
(* has everything, and on one that has nothing.                              *)
(*****************************************************************************)
EXTENDS ChatPage

MCMachines ==
  {[port |-> FALSE, scheduler |-> TRUE, idleTimeout |-> FALSE],
   [port |-> TRUE, scheduler |-> TRUE, idleTimeout |-> TRUE],
   [port |-> FALSE, scheduler |-> FALSE, idleTimeout |-> FALSE]}
=============================================================================
