-------------------------- MODULE MCVoiceService ---------------------------
(* Small instances of VoiceService.                                         *)
EXTENDS VoiceService

CONSTANTS a1, a2

Snap(rev, acts) == [revision |-> rev, commands |-> acts]

\* The second table swaps two actions.
MCTwo == { Snap(1, <<a1, a2>>), Snap(2, <<a2, a1>>) }
=============================================================================
