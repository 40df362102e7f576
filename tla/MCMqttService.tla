--------------------------- MODULE MCMqttService ---------------------------
(* Small instances of MqttService.                                          *)
EXTENDS MqttService, TLC

CONSTANTS k1, k2

Symmetry == Permutations(ConfirmTokens)
=============================================================================
