----------------------------- MODULE MCSecretary -----------------------------
(* The constants are in the cfg.  One account is enough: another one is told  *)
(* from it like a later session of the same one, by its run.                  *)
EXTENDS Secretary
=============================================================================
