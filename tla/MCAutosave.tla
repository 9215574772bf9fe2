----------------------------- MODULE MCAutosave -----------------------------
(* Instances of Autosave for TLC. *)
EXTENDS Autosave
=============================================================================
