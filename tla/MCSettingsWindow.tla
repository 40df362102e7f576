-------------------------- MODULE MCSettingsWindow -------------------------
(* Small instances of SettingsWindow.                                      *)
EXTENDS SettingsWindow

CONSTANTS a1, a2, p1

MCTask == 0 .. MaxClicks

\* One action without a phrase; another may be added.
MCFirst == [a \in Actions |-> IF a = a1 THEN [phrase |-> NoPhrase, enabled |-> TRUE] ELSE Absent]
=============================================================================
