--------------------------- MODULE MCSummaryQueue ---------------------------
(* SummaryQueue has only bounds for constants; they are in the cfg.           *)
EXTENDS SummaryQueue
=============================================================================
