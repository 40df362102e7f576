--------------------------- MODULE Confirmation ----------------------------
(***************************************************************************)
(* What a two-step command promises its user, whatever messages are lost,  *)
(* repeated or late: the device offers a token with a lifetime, at most    *)
(* one offer is open, and the command is carried out only for the open     *)
(* offer, in its lifetime, and once.  An offer may be withdrawn at any     *)
(* moment (a newer request, a cancellation, expiry, a restart).            *)
(***************************************************************************)
CONSTANTS Tokens, NoToken

VARIABLES
  offer,      \* the token that may be confirmed, or NoToken
  expired,    \* its lifetime has passed
  accepted    \* tokens whose confirmation was carried out

confirmationVars == <<offer, expired, accepted>>

ConfirmationInit == offer = NoToken /\ expired = FALSE /\ accepted = {}

Offer(k) ==
  /\ k \notin accepted
  /\ offer' = k
  /\ expired' = FALSE
  /\ UNCHANGED accepted

Expire ==
  /\ offer # NoToken
  /\ expired' = TRUE
  /\ UNCHANGED <<offer, accepted>>

Withdraw ==
  /\ offer' = NoToken
  /\ expired' = FALSE
  /\ UNCHANGED accepted

Accept ==
  /\ offer # NoToken
  /\ ~expired
  /\ accepted' = accepted \cup {offer}
  /\ offer' = NoToken
  /\ expired' = FALSE

ConfirmationNext == (\E k \in Tokens : Offer(k)) \/ Expire \/ Withdraw \/ Accept

ConfirmationSpec == ConfirmationInit /\ [][ConfirmationNext]_confirmationVars

=============================================================================
