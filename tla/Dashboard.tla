----------------------------- MODULE Dashboard -----------------------------
(***************************************************************************)
(* The web dashboard (dashboard/src: useMqtt, the Dashboard page, its wake *)
(* dialog and reply-handlers) and the ESP32 behind the broker.  Of the ESP *)
(* only what the page can see is kept: the abstract Confirmation of the    *)
(* wake, which MqttService implements, and whether a wake is pending.      *)
(*                                                                         *)
(* Commands travel with QoS 1: while the page lives none is lost on its    *)
(* way to the broker, and after a reconnection the unacknowledged ones are *)
(* sent again, in order.  The broker drops what arrives while the ESP is   *)
(* away (clean session).  Replies have QoS 0 and one topic: every client's *)
(* replies reach every dashboard, and those sent while it is away are      *)
(* lost.  React renders when it likes, so that of several replies only the *)
(* latest may ever be looked at.                                           *)
(*                                                                         *)
(* Time advances in units of the countdown.  What resolveExpiresAt makes   *)
(* of wall clock and uptime, the wall clock cancelled out, is the uptime   *)
(* at which the token expires less the uptime in the last state message.   *)
(***************************************************************************)
EXTENDS Confirmation, Integers, Sequences

CONSTANTS
  Ttl,        \* expires_in_s
  MaxUptime,  \* bound of the model: uptime of the ESP
  MaxCmds,    \* bound of the model: commands ever sent
  MaxInbox,   \* bound of the model: messages on their way to the page
  MaxFaults   \* bound of the model: connections lost and restarts of the ESP

ASSUME DashboardAssumption ==
  /\ NoToken \notin Tokens
  /\ Ttl \in Nat /\ MaxUptime \in Nat /\ MaxCmds \in Nat /\ MaxInbox \in Nat
  /\ MaxFaults \in Nat

VARIABLES
  online,     \* the ESP is connected to the broker
  pending,    \* mqttWakePending
  uptime,     \* of the ESP
  due,        \* uptime at which its token expires
  restarted,  \* history: it has restarted
  kept,       \* the retained state message, as [ts, pending]
  up,         \* the page is connected to the broker
  wakeOpen,
  wakePhase,
  wakeToken,
  countdown,  \* time until wakeExpiresAt, or -1 for null
  shown,      \* state: the last state message
  last,       \* replies.at(-1), until the page has looked at it
  handled,    \* handledReplyIds, of this page's commands
  unacked,    \* commands the broker has not acknowledged
  cmds,       \* BASE/cmd on its way to the ESP
  inbox,      \* BASE/reply and BASE/state on their way to the page
  sent,       \* commands sent so far
  faults,     \* faults so far
  missed,     \* history: a reply was lost, overtaken by another unhandled, or ignored
  cancelled,  \* history: nothing was sent since the user cancelled a wake
  dropped     \* history: the broker dropped a command

timeVars == <<uptime, due, restarted>>
espVars == <<confirmationVars, online, pending, timeVars, kept, faults>>
pageVars == <<wakeOpen, wakePhase, wakeToken, countdown>>
feedVars == <<shown, last, handled>>
busVars == <<unacked, cmds, sent, cancelled>>
dashboardVars == <<espVars, up, pageVars, feedVars, busVars, inbox, missed, dropped>>

NoState == [ts |-> -1, pending |-> FALSE]
NoAnswer == [cmd |-> "none", id |-> 0, ok |-> FALSE, token |-> NoToken, exp |-> 0]

\* BASE/state: wake_pending and the uptime.
Stated(p, ts) == [cmd |-> "state", id |-> 0, ok |-> p, token |-> NoToken, exp |-> ts]

Fault == faults < MaxFaults /\ faults' = faults + 1

-----------------------------------------------------------------------------
(* The page: what the user does *)

\* send: silently nothing without a connection.
Publish(cmd, token) ==
  IF up
  THEN /\ sent < MaxCmds
       /\ sent' = sent + 1
       /\ LET c == [cmd |-> cmd, token |-> token, id |-> sent']
          IN cmds' = Append(cmds, c) /\ unacked' = Append(unacked, c)
  ELSE UNCHANGED <<sent, cmds, unacked>>

ResetWake ==
  wakeOpen' = FALSE /\ wakePhase' = "initial" /\ wakeToken' = NoToken /\ countdown' = -1

\* The WAKE PC button, disabled while the state says that a wake is pending.
StartWake ==
  /\ ~wakeOpen /\ up /\ ~shown.pending
  /\ wakeOpen' = TRUE /\ wakePhase' = "initial"
  /\ UNCHANGED <<espVars, up, wakeToken, countdown, feedVars, busVars, inbox, missed, dropped>>

RequestWake ==
  /\ wakeOpen /\ wakePhase = "initial"
  /\ Publish("wake_request", NoToken)
  /\ wakePhase' = "waiting"
  /\ cancelled' = FALSE
  /\ UNCHANGED <<espVars, up, wakeOpen, wakeToken, countdown, feedVars, inbox, missed, dropped>>

ConfirmWake ==
  /\ wakeOpen /\ wakePhase = "confirm" /\ wakeToken # NoToken
  /\ Publish("wake_confirm", wakeToken)
  /\ wakePhase' = "waiting"
  /\ cancelled' = FALSE
  /\ UNCHANGED <<espVars, up, wakeOpen, wakeToken, countdown, feedVars, inbox, missed, dropped>>

\* Faulty variant: a request that was not answered yet is not cancelled.
CancelWakeWaits ==
  /\ wakeOpen
  /\ IF wakePhase \in {"waiting", "confirm"}
     THEN /\ IF wakePhase = "confirm" THEN Publish("wake_cancel", NoToken)
             ELSE UNCHANGED <<sent, cmds, unacked>>
          /\ cancelled' = up
     ELSE UNCHANGED busVars
  /\ ResetWake
  /\ UNCHANGED <<espVars, up, feedVars, inbox, missed, dropped>>

\* The Cancel button, or Escape, in any phase.
CancelWake ==
  /\ wakeOpen
  /\ IF wakePhase \in {"waiting", "confirm"}
     THEN Publish("wake_cancel", NoToken) /\ cancelled' = up
     ELSE UNCHANGED busVars
  /\ ResetWake
  /\ UNCHANGED <<espVars, up, feedVars, inbox, missed, dropped>>

HandlePing ==
  /\ ~wakeOpen /\ up
  /\ Publish("ping", NoToken)
  /\ cancelled' = FALSE
  /\ UNCHANGED <<espVars, up, pageVars, feedVars, inbox, missed, dropped>>

\* The button of the reboot dialog.
ConfirmReboot ==
  /\ ~wakeOpen
  /\ Publish("reboot_request", NoToken)
  /\ cancelled' = FALSE
  /\ UNCHANGED <<espVars, up, pageVars, feedVars, inbox, missed, dropped>>

\* The user goes to another page, which forgets the dialogs, and comes back.
Navigate ==
  /\ wakePhase # "initial" \/ wakeOpen
  /\ ResetWake
  /\ UNCHANGED <<espVars, up, feedVars, busVars, inbox, missed, dropped>>

-----------------------------------------------------------------------------
(* The page: what arrives *)

\* client.on('message').  A reply that arrives tells that its command had been
\* acknowledged.
Message ==
  /\ up /\ inbox # <<>>
  /\ inbox' = Tail(inbox)
  /\ LET m == Head(inbox)
     IN IF m.cmd = "state"
        THEN /\ shown' = [ts |-> m.exp, pending |-> m.ok]
             /\ UNCHANGED <<last, unacked, missed>>
        ELSE /\ last' = m
             /\ missed' = (missed \/ last # NoAnswer)
             /\ \E n \in 0 .. Len(unacked) :
                  /\ \A i \in DOMAIN unacked : unacked[i].id > m.id <=> i > n
                  /\ unacked' = SubSeq(unacked, n + 1, Len(unacked))
             /\ UNCHANGED shown
  /\ UNCHANGED <<espVars, up, pageVars, handled, cmds, sent, cancelled, dropped>>

\* resolveExpiresAt less the present time.  The answer to a forced wake has no
\* expires_at, and the page falls back to the lifetime it asks for itself.
Remaining(m) ==
  IF m.token = NoToken THEN Ttl
  ELSE IF shown.ts = -1 \/ m.exp < shown.ts THEN 0
  ELSE m.exp - shown.ts

\* Faulty variant: replies to other clients' requests are ignored.
OnWakeRequestOwn(m) ==
  IF wakePhase # "waiting" THEN UNCHANGED <<wakePhase, wakeToken, countdown>>
  ELSE /\ wakePhase' = IF m.ok THEN "confirm" ELSE "initial"
       /\ wakeToken' = IF m.ok THEN m.token ELSE wakeToken
       /\ countdown' = IF m.ok THEN Remaining(m) ELSE countdown

\* Faulty variant: a countdown that runs goes on for the new token.
OnWakeRequestKeeps(m) ==
  /\ wakePhase' = IF m.ok THEN "confirm" ELSE "initial"
  /\ wakeToken' = IF m.ok THEN m.token ELSE wakeToken
  /\ countdown' = IF m.ok /\ countdown = -1 THEN Remaining(m) ELSE countdown

\* handleWakeRequestReply.
OnWakeRequest(m) ==
  /\ wakePhase' = IF m.ok THEN "confirm" ELSE "initial"
  /\ wakeToken' = IF m.ok THEN m.token ELSE wakeToken
  /\ countdown' = IF m.ok THEN Remaining(m) ELSE countdown

\* Faulty variant: any answer is taken for a success.
OnWakeConfirmAny(m) ==
  /\ wakePhase' = "success"
  /\ UNCHANGED <<wakeToken, countdown>>

\* handleWakeConfirmReply.
OnWakeConfirm(m) ==
  /\ wakePhase' = IF m.ok THEN "success" ELSE "confirm"
  /\ UNCHANGED <<wakeToken, countdown>>

\* The effect that looks at the latest reply.  One whose id was handled before -
\* the command was repeated - is ignored, also when it brings a new token.
IgnoreReply ==
  /\ last # NoAnswer /\ last.id \in handled
  /\ last' = NoAnswer
  /\ missed' = (missed \/ last.cmd = "wake_request")
  /\ UNCHANGED <<espVars, up, pageVars, shown, handled, busVars, inbox, dropped>>

\* handleLatestReply, for any other, and markReplyHandled.  The answers about
\* reboots only close the reboot dialog and show messages.
HandleLatestReply ==
  /\ last # NoAnswer /\ last.id \notin handled
  /\ last' = NoAnswer
  /\ handled' = handled \cup ({last.id} \ {0})
  /\ CASE last.cmd = "wake_request" -> OnWakeRequest(last)
       [] last.cmd = "wake_confirm" -> OnWakeConfirm(last)
       [] OTHER -> UNCHANGED <<wakePhase, wakeToken, countdown>>
  /\ UNCHANGED <<espVars, up, wakeOpen, shown, busVars, inbox, missed, dropped>>

\* The timer of the confirm phase.
ExpireWake ==
  /\ wakePhase = "confirm" /\ countdown = 0
  /\ wakePhase' = "initial" /\ wakeToken' = NoToken /\ countdown' = -1
  /\ UNCHANGED <<espVars, up, wakeOpen, feedVars, busVars, inbox, missed, dropped>>

\* The timer that closes the dialog after a success.
AutoClose ==
  /\ wakePhase = "success"
  /\ ResetWake
  /\ UNCHANGED <<espVars, up, feedVars, busVars, inbox, missed, dropped>>

-----------------------------------------------------------------------------
(* The broker *)

\* The page loses its connection.
PageDrops ==
  /\ up /\ Fault
  /\ up' = FALSE
  /\ missed' = (missed \/ inbox # <<>>)
  /\ inbox' = <<>>
  /\ UNCHANGED <<confirmationVars, online, pending, timeVars, kept, pageVars, feedVars, busVars,
                 dropped>>

\* It reconnects, gets the retained state, and repeats what was not
\* acknowledged; the acknowledgements it has seen are a prefix.
PageConnects ==
  /\ ~up
  /\ up' = TRUE
  /\ inbox' = IF kept = NoState THEN <<>> ELSE << Stated(kept.pending, kept.ts) >>
  /\ \E n \in 0 .. Len(unacked) :
       LET again == SubSeq(unacked, n + 1, Len(unacked))
       IN cmds' = cmds \o again /\ unacked' = again
  /\ UNCHANGED <<espVars, pageVars, feedVars, sent, cancelled, missed, dropped>>

\* Another client, whose connection holds, sends a command once; its user confirms
\* the token offered.  Its ids are all 0, and "wake_force" is a wake_request with
\* force.
OtherSends(cmd) ==
  /\ cmd = "wake_confirm" => offer # NoToken
  /\ sent < MaxCmds
  /\ sent' = sent + 1
  /\ cmds' = Append(cmds, [cmd |-> cmd, id |-> 0,
                           token |-> IF cmd = "wake_confirm" THEN offer ELSE NoToken])
  /\ cancelled' = FALSE
  /\ UNCHANGED <<espVars, up, pageVars, feedVars, unacked, inbox, missed, dropped>>

\* The ESP is not connected: the broker has nobody to give the command to.
BrokerDrops ==
  /\ ~online /\ cmds # <<>>
  /\ cmds' = Tail(cmds)
  /\ dropped' = TRUE
  /\ UNCHANGED <<espVars, up, pageVars, feedVars, unacked, sent, cancelled, inbox, missed>>

-----------------------------------------------------------------------------
(* The ESP *)

StateMessage == Stated(pending', uptime)

\* What the ESP published reaches the page if it is connected.
Out(msgs) ==
  /\ inbox' = IF up THEN inbox \o msgs ELSE inbox
  /\ Len(inbox') <= MaxInbox

\* mqtt_publish_state, retained.
StateOut == kept' = [ts |-> uptime, pending |-> pending'] /\ Out(<<StateMessage>>)

\* The cmd of a reply: force is a field of the request only.
ReplyName(cmd) == IF cmd = "wake_force" THEN "wake_request" ELSE cmd

\* A reply, and for some commands a state message after it.  The connection may
\* break before either.
Answer(c, ok, token, state) ==
  LET r == [cmd |-> ReplyName(c.cmd), id |-> c.id, ok |-> ok, token |-> token,
            exp |-> IF c.cmd = "wake_request" THEN uptime + Ttl ELSE 0]
  IN \/ /\ UNCHANGED <<online, faults>>
        /\ Out(IF state THEN <<r, StateMessage>> ELSE <<r>>)
        /\ kept' = IF state THEN [ts |-> uptime, pending |-> pending'] ELSE kept
        /\ missed' = (missed \/ ~up)
     \/ /\ Fault /\ online' = FALSE
        /\ \/ Out(<<r>>) /\ missed' = (missed \/ ~up)
           \/ inbox' = inbox /\ missed' = TRUE
        /\ UNCHANGED kept

\* A new token is random: nobody holds it already.
Held ==
  {offer, wakeToken, last.token} \cup
    UNION { { q[i].token : i \in DOMAIN q } : q \in {inbox, cmds, unacked} }

\* handle_wake_request with force: the packet is sent at once, or cannot be; a
\* token that was offered is withdrawn, and the answer has none.
OnForce(c) ==
  \/ Withdraw /\ pending' = TRUE /\ Answer(c, TRUE, NoToken, TRUE)
  \/ UNCHANGED <<confirmationVars, pending>> /\ Answer(c, FALSE, NoToken, TRUE)

\* handle_wake_request without it.
OnRequest(c) ==
  \/ /\ ~pending /\ UNCHANGED pending
     /\ \E k \in Tokens \ (accepted \cup Held) : Offer(k) /\ Answer(c, TRUE, k, TRUE)
     /\ due' = uptime + Ttl
  \/ /\ pending /\ UNCHANGED <<confirmationVars, pending, due>>
     /\ Answer(c, FALSE, NoToken, FALSE)

\* handle_wake_confirm: refused; in time, with the packet sent or not.
OnConfirm(c) ==
  \/ /\ c.token # offer \/ expired
     /\ IF c.token = offer THEN Withdraw ELSE UNCHANGED confirmationVars
     /\ UNCHANGED pending
     /\ Answer(c, FALSE, c.token, FALSE)
  \/ /\ c.token = offer
     /\ \/ Accept /\ pending' = TRUE /\ Answer(c, TRUE, c.token, TRUE)
        \/ /\ ~expired /\ UNCHANGED <<confirmationVars, pending>>
           /\ Answer(c, FALSE, c.token, TRUE)

\* ping; wake_cancel; reboot_request, whose token nothing here depends on.
OnOther(c) ==
  /\ \/ c.cmd = "wake_cancel" /\ Withdraw /\ pending' = FALSE
     \/ c.cmd \in {"ping", "reboot_request"} /\ UNCHANGED <<confirmationVars, pending>>
  /\ Answer(c, TRUE, NoToken, c.cmd # "reboot_request")

\* mqtt_callback.
EspReceives ==
  /\ online /\ cmds # <<>>
  /\ cmds' = Tail(cmds)
  /\ LET c == Head(cmds)
     IN \/ c.cmd = "wake_request" /\ OnRequest(c)
        \/ c.cmd = "wake_force" /\ OnForce(c) /\ UNCHANGED due
        \/ c.cmd = "wake_confirm" /\ OnConfirm(c) /\ UNCHANGED due
        \/ OnOther(c) /\ UNCHANGED due
  /\ UNCHANGED <<uptime, restarted, up, pageVars, feedVars, unacked, sent, cancelled, dropped>>

\* mqtt_loop: it connects, or publishes the state once more, or the wake poll
\* ends.
EspPublishes ==
  /\ online' = TRUE
  /\ \/ UNCHANGED pending
     \/ online /\ pending /\ pending' = FALSE
  /\ StateOut
  /\ UNCHANGED <<confirmationVars, timeVars, faults, up, pageVars, feedVars, busVars, missed, dropped>>

\* The token expires, or an expired one is cleaned up.
EspExpires ==
  /\ \/ uptime >= due /\ Expire
     \/ expired /\ Withdraw
  /\ UNCHANGED <<online, pending, timeVars, kept, faults, up, pageVars, feedVars, busVars, inbox,
                 missed, dropped>>

EspDrops ==
  /\ online /\ Fault
  /\ online' = FALSE
  /\ UNCHANGED <<confirmationVars, pending, timeVars, kept, up, pageVars, feedVars, busVars, inbox,
                 missed, dropped>>

EspRestarts ==
  /\ Fault
  /\ Withdraw /\ pending' = FALSE /\ online' = FALSE
  /\ uptime' = 0 /\ due' = 0 /\ restarted' = TRUE
  /\ UNCHANGED <<kept, up, pageVars, feedVars, busVars, inbox, missed, dropped>>

Second ==
  /\ uptime < MaxUptime
  /\ uptime' = uptime + 1
  /\ countdown' = IF countdown > 0 THEN countdown - 1 ELSE countdown
  /\ UNCHANGED <<confirmationVars, online, pending, due, restarted, kept, faults, up, wakeOpen, wakePhase, wakeToken,
                 feedVars, busVars, inbox, missed, dropped>>

-----------------------------------------------------------------------------

DashboardInit ==
  /\ ConfirmationInit
  /\ online = FALSE /\ pending = FALSE /\ kept = NoState /\ faults = 0
  /\ uptime = 0 /\ due = 0 /\ restarted = FALSE
  /\ up = FALSE
  /\ wakeOpen = FALSE /\ wakePhase = "initial" /\ wakeToken = NoToken /\ countdown = -1
  /\ shown = NoState /\ last = NoAnswer /\ handled = {}
  /\ unacked = <<>> /\ cmds = <<>> /\ sent = 0 /\ cancelled = FALSE
  /\ inbox = <<>> /\ missed = FALSE /\ dropped = FALSE

User ==
  StartWake \/ RequestWake \/ ConfirmWake \/ CancelWake \/ HandlePing \/ ConfirmReboot
    \/ Navigate

Page == Message \/ IgnoreReply \/ HandleLatestReply \/ ExpireWake \/ AutoClose

Esp == EspReceives \/ EspPublishes \/ EspExpires

DashboardNext ==
  \/ User \/ Page \/ PageDrops \/ PageConnects \/ BrokerDrops
  \/ \E cmd \in {"wake_request", "wake_force", "wake_confirm", "wake_cancel"} : OtherSends(cmd)
  \/ Esp \/ EspDrops \/ EspRestarts \/ Second

DashboardSpec == DashboardInit /\ [][DashboardNext]_dashboardVars

\* The page and the ESP run.
DashboardFair == DashboardSpec /\ WF_dashboardVars(Page) /\ WF_dashboardVars(EspReceives)

-----------------------------------------------------------------------------
(* Properties *)

\* Types; a token on the page has a countdown.  The reverse is not so: the answer
\* to somebody's forced wake opens the confirmation without a token, and the
\* countdown runs for nothing (handleWakeRequestReply).
DashboardTypeOK ==
  /\ online \in BOOLEAN /\ pending \in BOOLEAN /\ uptime \in 0 .. MaxUptime
  /\ up \in BOOLEAN /\ wakeOpen \in BOOLEAN
  /\ wakePhase \in {"initial", "waiting", "confirm", "success"}
  /\ wakeToken \in Tokens \cup {NoToken} /\ countdown \in -1 .. MaxUptime + Ttl
  /\ wakeToken # NoToken => countdown >= 0
  /\ sent \in 0 .. MaxCmds

\* Once everything that arrived was looked at, the token the user is asked to
\* confirm was not replaced by a newer one, whoever asked for that - unless a
\* reply was lost or overtaken before it was looked at, or it answers a request
\* that was repeated: the ESP then offers a second token under the same id, and
\* the page ignores it (isReplyHandled).
TokenCurrent ==
  ~missed /\ last = NoAnswer /\ inbox = <<>> /\ wakePhase = "confirm" /\ wakeToken # NoToken =>
    offer \in {wakeToken, NoToken}

\* The page takes a token off the screen only when its time at the ESP is over:
\* the last state message may be old, and the countdown is then too long by its
\* age, but it is never too short - unless that message is of an earlier run of
\* the ESP (handleWakeRequestReply).
TokenStays ==
  wakePhase = "confirm" /\ wakeToken = offer /\ offer # NoToken /\ ~restarted =>
    countdown >= due - uptime

\* The token on the screen is current, and stays there as long as it is good.
PageInv == DashboardTypeOK /\ TokenCurrent /\ TokenStays

\* The page says that the packet was sent only when it was.
SuccessTrue ==
  [][ wakePhase # "success" /\ wakePhase' = "success" => last.token \in accepted ]_dashboardVars

\* A wake the user cancelled is over once the ESP has handled what was sent:
\* neither a token nor a wake is left, although the request's answer may come
\* after the cancellation and commands are repeated after a reconnection.
CancelHolds ==
  cancelled /\ ~dropped /\ cmds = <<>> => offer = NoToken /\ ~pending

\* RebootDialog.tsx: "The controller will disconnect briefly and reconnect
\* automatically": a reboot the user asked for, and the ESP agreed to, happens.
RebootHappens ==
  (last.cmd = "reboot_request" /\ last.ok) ~> ~online

=============================================================================
