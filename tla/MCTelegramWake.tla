--------------------------- MODULE MCTelegramWake --------------------------
(* Instances of TelegramWake for TLC. *)
EXTENDS TelegramWake
=============================================================================
