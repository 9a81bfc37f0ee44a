---------------------------- MODULE MCDatabaseBusy ----------------------------
(* DatabaseBusy with model values for threads; see the .cfg file. *)
EXTENDS DatabaseBusy
==============================================================================
