----------------------------- MODULE MCTrayHost ----------------------------
(* Small instances of TrayHost.                                            *)
EXTENDS TrayHost
=============================================================================
