-------------------------- MODULE MCDaemonRuntime --------------------------
(* Small instances of DaemonRuntime.                                        *)
EXTENDS DaemonRuntime, TLC

CONSTANTS a1, p1, p2, home, lan

\* One action whose phrase is edited.
List(p) == a1 :> [kind |-> "media", enabled |-> TRUE, phrase |-> p]

MCLists == {List(p1), List(p2)}

Symmetry == Permutations(Phrases)

\* Two states differ if their futures do: an operation's candidate counts while
\* the operation may still save it, the secrets it would restore while it may
\* still restore them.
View ==
  << up, mem, disp, disk, secMem, secDisk, run, listener, op, reading, gen, histVars,
     IF op = Idle \/ op.step \in {"rotate", "save_secrets", "restart", "restore"}
       THEN mem ELSE cand,
     IF op.step \in {"save_secrets", "save_tls", "save_host"} THEN prevSec ELSE secMem >>
=============================================================================
