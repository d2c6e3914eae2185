-------------------------------- MODULE MCKiss --------------------------------
(***************************************************************************)
(* Kiss for TLC.  One user and no pings on a line that does anything, with *)
(* room for two messages; and two peers that both ping, one of them with a *)
(* user, on a line that loses fewer messages than a packet is sent times.  *)
(***************************************************************************)
EXTENDS Kiss

MCScenes ==
  {[pinging |-> {}, limit |-> 2, regime |-> "any", users |-> {"a"}, packets |-> 2],
   [pinging |-> {"a", "b"}, limit |-> 6, regime |-> "prompt", users |-> {"a"}, packets |-> 1]}

(* The premise of the theorems about the prompt line holds of these scenes.*)
ASSUME MCAmple == Ample
=============================================================================
