---------------------- MODULE MCNativeSQLiteConnection ----------------------
(* NativeSQLiteConnection on a small instance; see the .cfg files. *)
EXTENDS NativeSQLiteConnection
==============================================================================
