---------------------------- MODULE MCWorkspace ----------------------------
(* Instances of Workspace: two issues of one target. *)
EXTENDS Workspace

CONSTANTS i1, i2
=============================================================================
