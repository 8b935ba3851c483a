--------------------------- MODULE MCVisionSlots ---------------------------
(* Small instances of VisionSlots for TLC. *)
EXTENDS VisionSlots
=============================================================================
