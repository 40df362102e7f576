---------------------------- MODULE MCMediaLink ----------------------------
(* Small instances of MediaLink.                                           *)
EXTENDS MediaLink, TLC

CONSTANTS c1, c2, a1, p1, home

MCTask == Conns \cup Tests

MediaReq(i, issued) ==
  [ id |-> i, issued |-> issued, expires |-> issued + Lifetime,
    route |-> "media", form |-> "valid", action |-> a1, rev |-> 0 ]

CustomReq(i, issued) ==
  [MediaReq(i, issued) EXCEPT !.route = "custom", !.rev = 1]

\* A media command and an action of the user, whose windows overlap.
MCCommands == { CustomReq(1, 0), MediaReq(2, 1) }

\* One published action, which needs a UAC prompt.
MCConfigs ==
  { Published([DefaultConfig EXCEPT
      !.actions = a1 :> [kind |-> "elevated", enabled |-> TRUE, phrase |-> p1],
      !.actRev = 1]) }

MCOffsets == {-1, 1}
=============================================================================
