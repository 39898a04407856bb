---------------------------- MODULE MCVoiceovers ----------------------------
(* Voiceovers has only bounds for constants; they are in the cfg.             *)
EXTENDS Voiceovers
=============================================================================
