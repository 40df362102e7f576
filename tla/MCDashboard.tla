---------------------------- MODULE MCDashboard ----------------------------
(* Small instances of Dashboard.                                           *)
EXTENDS Dashboard, TLC

CONSTANTS k1, k2, k3

Symmetry == Permutations(Tokens)

\* The page may have to repeat its commands.
Repeats == ~up \/ faults < MaxFaults

Ids(q) == { q[i].id : i \in DOMAIN q }

\* Two states differ if their futures do: a deadline counts while its token is
\* open, the retained state and the order of unacknowledged commands while the
\* page may reconnect, and a handled id while a reply may still bring it.
View ==
  << confirmationVars, online, pending, uptime, restarted, faults, up, pageVars, shown, last,
     cmds, sent, cancelled, inbox, missed, dropped,
     IF offer = NoToken THEN 0 ELSE due,
     IF Repeats THEN <<unacked, kept>> ELSE <<{ unacked[i].token : i \in DOMAIN unacked }>>,
     handled \cap (Ids(cmds) \cup Ids(inbox) \cup {last.id}
                     \cup IF Repeats THEN Ids(unacked) ELSE {}) >>
=============================================================================
