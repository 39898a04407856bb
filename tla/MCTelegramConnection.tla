------------------------ MODULE MCTelegramConnection ------------------------
(* TelegramConnection has only bounds for constants; they are in the cfg.     *)
EXTENDS TelegramConnection
=============================================================================
