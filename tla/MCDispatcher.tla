--------------------------- MODULE MCDispatcher ----------------------------
(* Small instances of Dispatcher and of the command lines its executor      *)
(* builds.                                                                  *)
EXTENDS Dispatcher, CommandLine, TLC

CONSTANTS c1, c2, l1, a1, a2, p1, p2, home

MCTask == Conns \cup Tests

Symmetry == Permutations(Conns)

\* Requests: media requests with overlapping windows, one from the future, one
\* whose expiry does not fit its type, and one that fails before dispatch.
MediaReq(i, issued) ==
  [ id |-> i, issued |-> issued, expires |-> issued + Lifetime,
    route |-> "media", form |-> "valid", action |-> a1, rev |-> 0 ]

CustomReq(i, issued, a, rev) ==
  [MediaReq(i, issued) EXCEPT !.route = "custom", !.action = a, !.rev = rev]

MCMedia ==
  { MediaReq(1, 0), MediaReq(2, 1), MediaReq(3, 2),
    MediaReq(4, U64Max), [MediaReq(5, 0) EXCEPT !.form = "unauthorized"] }

MCCustom ==
  { CustomReq(1, 0, a1, 1), CustomReq(2, 0, a2, 1), CustomReq(3, 0, a1, 2) }


\* Configurations: the same two actions before and after an edit, published or
\* not, so that requests meet current, stale, unknown and disabled actions.
Act(k, on, p) == [kind |-> k, enabled |-> on, phrase |-> p]

Conf(acts, actRev, pub) ==
  [DefaultConfig EXCEPT !.actions = acts, !.actRev = actRev, !.pub = pub]

Acts1 == (a1 :> Act("elevated", TRUE, p1)) @@ (a2 :> Act("script", TRUE, p2))
Acts2 == (a1 :> Act("launch", TRUE, p1)) @@ (a2 :> Act("media", FALSE, p2))

Conf1  == Published(Conf(Acts1, 1, NotPublished))
Conf1b == WithActions(Conf1, Acts2)
Conf2  == Published(Conf1b)

MCConfigs == {Conf1, Conf1b, Conf2}
MCNoVoice == {DefaultConfig}
=============================================================================
