------------------------------ MODULE MCJniHelp ------------------------------
(* JniHelp, whose state space is finite as it is; see the .cfg files. *)
EXTENDS JniHelp
==============================================================================
