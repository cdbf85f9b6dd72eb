------------------------- MODULE MCSnapshotPublication -------------------------
(* The instances of SnapshotPublication for TLC: constants come from the cfgs. *)
EXTENDS SnapshotPublication
================================================================================
