-------------------------- MODULE MCControlChannel --------------------------
(***************************************************************************)
(* ControlChannel for TLC. The constants are given by the cfg files: two   *)
(* sockets are enough for the current one and an old one, two agents for a *)
(* restart and for a launch while the other serves, budgets of one permit  *)
(* for contention with another program.                                    *)
(***************************************************************************)
EXTENDS ControlChannel
=============================================================================
