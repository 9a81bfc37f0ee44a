-------------------------- MODULE MCNativeMethods --------------------------
(* NativeMethods on small instances; see the .cfg files. *)
EXTENDS NativeMethods
==============================================================================
