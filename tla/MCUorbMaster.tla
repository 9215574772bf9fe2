---------------------------- MODULE MCUorbMaster ----------------------------
(* Instances of UorbMaster for TLC. *)
EXTENDS UorbMaster
=============================================================================
