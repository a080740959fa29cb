--------------------------- MODULE MCBpfOwnership ---------------------------
(* The instances of MCBpfAdmission with the history of overlapping grants. *)
EXTENDS MCBpfAdmission, BpfOwnership
============================================================================
