---------------------------- MODULE MqttService ----------------------------
(***************************************************************************)
(* The ESP32's MQTT service (src/services/mqtt_service.cpp): commands that *)
(* arrive on BASE/cmd, the wake and reboot confirmations, the wake poll,   *)
(* and the retained BASE/state message.  mqtt_loop runs on the Arduino     *)
(* loop task; its parts are separate steps because each may block (probe,  *)
(* connect, publish) while millis() goes on:                               *)
(*                                                                         *)
(*    loop -> (message) -> poll -> expire -> loop                          *)
(*                                                                         *)
(* Commands come from any client at any moment, repeated (QoS 1) or late:  *)
(* a confirmation may carry any token ever issued, or none.                *)
(*                                                                         *)
(* millis() is 32 bits wide and wraps; a deadline is millis() plus a       *)
(* lifetime, also mod 2^32, and is compared with `>'.  The true remaining  *)
(* lifetime of a token is kept beside it as a history variable.  Topics,   *)
(* JSON, log lines and the reconnect backoff are abstracted away.          *)
(***************************************************************************)
EXTENDS Integers

CONSTANTS
  ConfirmTokens,  \* confirmation tokens ("cfm-xxxxxxxx"), never drawn twice
  EmptyToken,     \* the empty string
  Ttls,           \* lifetimes clients ask for (expires_in_s)
  MaxTtl,         \* CONFIRM_EXPIRES_MAX_S
  WakeTimeout,    \* WAKE_TIMEOUT_MS
  WakeRetry,      \* WAKE_RETRY_MS
  Wrap,           \* 2^32, where millis() wraps
  StartMs         \* millis() when the first command comes: an idle device looks
                  \* the same at every uptime after the 50 ms delay of setup

ASSUME MqttAssumption ==
  /\ EmptyToken \notin ConfirmTokens
  /\ Ttls \subseteq Nat
  /\ MaxTtl \in Nat /\ WakeTimeout \in Nat /\ WakeRetry \in Nat
  /\ Wrap \in Nat /\ MaxTtl < Wrap
  /\ StartMs \in 1 .. Wrap - 1

VARIABLES
  ms,                   \* millis()
  step,                 \* where the loop task is
  conn,                 \* WiFi is up and mqttClient.connected()
  mqttWakePending,
  wakeStartMs,
  lastWakeCheckMs,
  mqttWakeId,           \* mqttWakeId is not empty
  lastWakeResult,
  wakeConfirmToken,
  wakeConfirmExpiresMs,
  rebootConfirmToken,
  rebootConfirmExpiresMs,
  retained,             \* wake_pending and last_wake_result of BASE/state
  wrapped,              \* history: tokens that were open when millis() last wrapped
  issued,               \* history: tokens drawn so far
  wakeLeft,             \* history: true time left of wakeConfirmToken, or -1
  rebootLeft,           \* history: likewise of rebootConfirmToken
  woken,                \* history: tokens whose confirmation sent the packet
  rebooted              \* history: tokens whose confirmation restarts the ESP

clockVars  == <<ms, wrapped>>
pollVars   == <<mqttWakePending, wakeStartMs, lastWakeCheckMs, lastWakeResult>>
wakeVars   == <<wakeConfirmToken, wakeConfirmExpiresMs, wakeLeft>>
rebootVars == <<rebootConfirmToken, rebootConfirmExpiresMs, rebootLeft>>
histVars   == <<issued, woken, rebooted>>
vars == <<clockVars, step, conn, pollVars, mqttWakeId, wakeVars, rebootVars, retained, histVars>>

Steps == {"loop", "poll", "expire", "flush", "restart"}

WakeResult == {"none", "wol_sent", "send_failed", "pc_online", "timeout"}

-----------------------------------------------------------------------------
(* Time and publishing *)

\* millis() - t in unsigned arithmetic.
Since(t) == (ms - t) % Wrap

\* millis() + lifetime in unsigned arithmetic.
Deadline(ttl) == (ms + ttl) % Wrap

\* The lifetime a request gets: what it asked for, capped.
Capped(ttl) == IF ttl > MaxTtl THEN MaxTtl ELSE ttl

Lapsed(left) == IF left = -1 THEN -1 ELSE left - 1

\* mqtt_publish_state, from the values the handler leaves behind.  The
\* connection may turn out to be broken; then nothing is published any more.
PublishState ==
  \/ /\ conn
     /\ retained' = [pending |-> mqttWakePending', result |-> lastWakeResult']
     /\ UNCHANGED conn
  \/ conn' = FALSE /\ UNCHANGED retained

\* A handler that publishes at most a reply.
ReplyOnly == UNCHANGED <<conn, retained>>

-----------------------------------------------------------------------------
(* Command handlers *)

\* mqtt_begin_wake, when the packet could be sent and when not.
WakeSent ==
  /\ mqttWakeId' = TRUE
  /\ lastWakeResult' = "wol_sent"
  /\ mqttWakePending' = TRUE
  /\ wakeStartMs' = ms
  /\ lastWakeCheckMs' = ms
  /\ wakeConfirmToken' = EmptyToken
  /\ wakeConfirmExpiresMs' = 0
  /\ wakeLeft' = -1
  /\ PublishState

WakeSendFailed ==
  /\ lastWakeResult' = "send_failed"
  /\ UNCHANGED <<mqttWakePending, wakeStartMs, lastWakeCheckMs, mqttWakeId, wakeVars>>
  /\ PublishState

\* handle_ping.
Ping ==
  /\ UNCHANGED <<pollVars, mqttWakeId, wakeVars, rebootVars, histVars>>
  /\ PublishState

\* handle_wake_request with force: no confirmation, and a running wake or an
\* open confirmation is superseded.
ForceWake ==
  /\ WakeSent \/ WakeSendFailed
  /\ UNCHANGED <<rebootVars, histVars>>

\* Faulty variant: a wake under way is not refused.
WakeRequestAlways(ttl, k) ==
  \/ /\ k \notin issued
     /\ issued' = issued \cup {k}
     /\ wakeConfirmToken' = k
     /\ wakeConfirmExpiresMs' = Deadline(Capped(ttl))
     /\ wakeLeft' = Capped(ttl)
     /\ mqttWakeId' = TRUE
     /\ UNCHANGED <<pollVars, rebootVars, woken, rebooted>>
     /\ PublishState

\* handle_wake_request: refused while a wake is polled, else a new token.
WakeRequest(ttl, k) ==
  \/ /\ mqttWakePending
     /\ ReplyOnly
     /\ UNCHANGED <<pollVars, mqttWakeId, wakeVars, rebootVars, histVars>>
  \/ /\ ~mqttWakePending
     /\ k \notin issued
     /\ issued' = issued \cup {k}
     /\ wakeConfirmToken' = k
     /\ wakeConfirmExpiresMs' = Deadline(Capped(ttl))
     /\ wakeLeft' = Capped(ttl)
     /\ mqttWakeId' = TRUE
     /\ UNCHANGED <<pollVars, rebootVars, woken, rebooted>>
     /\ PublishState

\* Faulty variant: the expiry is not compared.
WakeConfirmLate(token) ==
  \/ /\ \/ ~mqttWakePending /\ wakeConfirmToken = EmptyToken
        \/ token # wakeConfirmToken
     /\ ReplyOnly
     /\ UNCHANGED <<pollVars, mqttWakeId, wakeVars, rebootVars, histVars>>
  \/ /\ mqttWakePending \/ wakeConfirmToken # EmptyToken
     /\ token = wakeConfirmToken
     /\ ms > wakeConfirmExpiresMs
     /\ wakeConfirmToken' = EmptyToken
     /\ wakeLeft' = -1
     /\ mqttWakeId' = FALSE
     /\ ReplyOnly
     /\ UNCHANGED <<pollVars, wakeConfirmExpiresMs, rebootVars, histVars>>
  \/ /\ mqttWakePending \/ wakeConfirmToken # EmptyToken
     /\ token = wakeConfirmToken
     /\ \/ WakeSent /\ woken' = woken \cup ({token} \ {EmptyToken})
        \/ WakeSendFailed /\ UNCHANGED woken
     /\ UNCHANGED <<rebootVars, issued, rebooted>>

\* handle_wake_confirm.  The token is compared even when none is open: while a
\* wake is pending, a command without a token matches the empty string.
WakeConfirm(token) ==
  \/ /\ \/ ~mqttWakePending /\ wakeConfirmToken = EmptyToken
        \/ token # wakeConfirmToken
     /\ ReplyOnly
     /\ UNCHANGED <<pollVars, mqttWakeId, wakeVars, rebootVars, histVars>>
  \/ /\ mqttWakePending \/ wakeConfirmToken # EmptyToken
     /\ token = wakeConfirmToken
     /\ ms > wakeConfirmExpiresMs
     /\ wakeConfirmToken' = EmptyToken
     /\ wakeLeft' = -1
     /\ mqttWakeId' = FALSE
     /\ ReplyOnly
     /\ UNCHANGED <<pollVars, wakeConfirmExpiresMs, rebootVars, histVars>>
  \/ /\ mqttWakePending \/ wakeConfirmToken # EmptyToken
     /\ token = wakeConfirmToken
     /\ ms <= wakeConfirmExpiresMs
     /\ \/ WakeSent /\ woken' = woken \cup ({token} \ {EmptyToken})
        \/ WakeSendFailed /\ UNCHANGED woken
     /\ UNCHANGED <<rebootVars, issued, rebooted>>

\* Faulty variant: the state is not published.
WakeCancelSilent ==
  /\ wakeConfirmToken' = EmptyToken
  /\ wakeLeft' = -1
  /\ mqttWakeId' = FALSE
  /\ mqttWakePending' = FALSE
  /\ UNCHANGED <<wakeStartMs, lastWakeCheckMs, lastWakeResult,
                 wakeConfirmExpiresMs, rebootVars, histVars>>
  /\ UNCHANGED <<conn, retained>>

\* handle_wake_cancel.
WakeCancel ==
  /\ wakeConfirmToken' = EmptyToken
  /\ wakeLeft' = -1
  /\ mqttWakeId' = FALSE
  /\ mqttWakePending' = FALSE
  /\ UNCHANGED <<wakeStartMs, lastWakeCheckMs, lastWakeResult,
                 wakeConfirmExpiresMs, rebootVars, histVars>>
  /\ PublishState

\* handle_reboot_request: a new token in any case.
RebootRequest(ttl, k) ==
  /\ k \notin issued
  /\ issued' = issued \cup {k}
  /\ rebootConfirmToken' = k
  /\ rebootConfirmExpiresMs' = Deadline(Capped(ttl))
  /\ rebootLeft' = Capped(ttl)
  /\ ReplyOnly
  /\ UNCHANGED <<pollVars, mqttWakeId, wakeVars, woken, rebooted>>

\* handle_reboot_confirm, refused.
RebootRefused(token) ==
  /\ \/ /\ rebootConfirmToken = EmptyToken \/ token # rebootConfirmToken
        /\ UNCHANGED rebootVars
     \/ /\ rebootConfirmToken # EmptyToken /\ token = rebootConfirmToken
        /\ ms > rebootConfirmExpiresMs
        /\ rebootConfirmToken' = EmptyToken
        /\ rebootLeft' = -1
        /\ UNCHANGED rebootConfirmExpiresMs
  /\ ReplyOnly
  /\ UNCHANGED <<pollVars, mqttWakeId, wakeVars, histVars>>

\* Faulty variant: the expiry is not compared.
RebootConfirmLate(token) ==
  /\ rebootConfirmToken # EmptyToken /\ token = rebootConfirmToken
  /\ rebooted' = rebooted \cup {token}
  /\ ReplyOnly
  /\ UNCHANGED <<pollVars, mqttWakeId, wakeVars, rebootVars, issued, woken>>

\* handle_reboot_confirm, accepted: the reply and the event are published, and
\* mqttClient.loop() is called once more before ESP.restart().
RebootConfirm(token) ==
  /\ rebootConfirmToken # EmptyToken /\ token = rebootConfirmToken
  /\ ms <= rebootConfirmExpiresMs
  /\ rebooted' = rebooted \cup {token}
  /\ ReplyOnly
  /\ UNCHANGED <<pollVars, mqttWakeId, wakeVars, rebootVars, issued, woken>>

\* handle_reboot_cancel.
RebootCancel ==
  /\ rebootConfirmToken' = EmptyToken
  /\ rebootLeft' = -1
  /\ ReplyOnly
  /\ UNCHANGED <<pollVars, mqttWakeId, wakeVars, rebootConfirmExpiresMs, histVars>>

\* Commands without an id or a name, unparsable or unknown ones change nothing.
Handler ==
  \/ Ping \/ ForceWake \/ WakeCancel \/ RebootCancel
  \/ \E ttl \in Ttls, k \in ConfirmTokens : WakeRequest(ttl, k) \/ RebootRequest(ttl, k)
  \/ \E token \in ConfirmTokens \cup {EmptyToken} : WakeConfirm(token) \/ RebootRefused(token)

\* mqttClient.loop() delivers one message.  It is called from mqtt_loop and,
\* nested in the callback itself, by an accepted reboot before it restarts.
Receive ==
  /\ conn
  /\ \/ /\ step = "loop" /\ step' = "poll"
        /\ Handler
     \/ /\ step = "flush" /\ step' = "restart"
        /\ Handler
     \/ /\ step \in {"loop", "flush"} /\ step' = "flush"
        /\ \E token \in ConfirmTokens \cup {EmptyToken} : RebootConfirm(token)
  /\ UNCHANGED clockVars

-----------------------------------------------------------------------------
(* mqtt_loop *)

\* No message is there, or the connection is lost while looking for one.
NoMessage ==
  /\ conn
  /\ \/ step = "loop" /\ step' = "poll"
     \/ step = "flush" /\ step' = "restart"
  /\ conn' \in BOOLEAN
  /\ UNCHANGED <<clockVars, pollVars, mqttWakeId, wakeVars, rebootVars, retained, histVars>>

\* The refresh every STATE_PUBLISH_MS.
Refresh ==
  /\ conn /\ step = "poll"
  /\ UNCHANGED <<clockVars, step, pollVars, mqttWakeId, wakeVars, rebootVars, histVars>>
  /\ PublishState

\* The wake poll ends with a result.
WakeDone(res) ==
  /\ mqttWakePending' = FALSE
  /\ lastWakeResult' = res
  /\ lastWakeCheckMs' = ms
  /\ mqttWakeId' = FALSE
  /\ UNCHANGED wakeStartMs
  /\ PublishState

\* The wake poll.  Between two probes mqtt_loop returns early, before the
\* cleanup of expired tokens.
Poll ==
  /\ step = "poll"
  /\ \/ /\ ~mqttWakePending
        /\ step' = "expire"
        /\ UNCHANGED <<pollVars, mqttWakeId, conn, retained>>
     \/ /\ mqttWakePending /\ Since(lastWakeCheckMs) < WakeRetry
        /\ step' = "loop"
        /\ UNCHANGED <<pollVars, mqttWakeId, conn, retained>>
     \/ /\ mqttWakePending /\ Since(lastWakeCheckMs) >= WakeRetry
        /\ step' = "expire"
        /\ \/ WakeDone("pc_online")
           \/ Since(wakeStartMs) >= WakeTimeout /\ WakeDone("timeout")
           \/ /\ Since(wakeStartMs) < WakeTimeout
              /\ lastWakeCheckMs' = ms
              /\ UNCHANGED <<mqttWakePending, wakeStartMs, lastWakeResult,
                             mqttWakeId, conn, retained>>
  /\ UNCHANGED <<clockVars, wakeVars, rebootVars, histVars>>

\* The cleanup of expired tokens at the end of mqtt_loop.
ExpireTokens ==
  /\ step = "expire"
  /\ step' = "loop"
  /\ IF wakeConfirmToken # EmptyToken /\ ms > wakeConfirmExpiresMs
     THEN wakeConfirmToken' = EmptyToken /\ wakeLeft' = -1 /\ mqttWakeId' = FALSE
     ELSE UNCHANGED <<wakeConfirmToken, wakeLeft, mqttWakeId>>
  /\ IF rebootConfirmToken # EmptyToken /\ ms > rebootConfirmExpiresMs
     THEN rebootConfirmToken' = EmptyToken /\ rebootLeft' = -1
     ELSE UNCHANGED <<rebootConfirmToken, rebootLeft>>
  /\ UNCHANGED <<clockVars, conn, pollVars, wakeConfirmExpiresMs,
                 rebootConfirmExpiresMs, retained, histVars>>

\* mqtt_connect succeeds: subscribe, then publish availability and state.
Connect ==
  /\ step = "loop" /\ ~conn
  /\ conn' = TRUE
  /\ retained' = [pending |-> mqttWakePending, result |-> lastWakeResult]
  /\ UNCHANGED <<clockVars, step, pollVars, mqttWakeId, wakeVars, rebootVars, histVars>>

\* WiFi or the broker goes away.
Disconnect ==
  /\ conn
  /\ conn' = FALSE
  /\ UNCHANGED <<clockVars, step, pollVars, mqttWakeId, wakeVars, rebootVars, retained, histVars>>

\* ESP.restart() or a crash: every variable of the service starts afresh, the
\* retained message stays with the broker.
Restart ==
  /\ step' = "loop"
  /\ conn' = FALSE
  /\ ms' = StartMs /\ wrapped' = {}
  /\ mqttWakePending' = FALSE
  /\ wakeStartMs' = 0 /\ lastWakeCheckMs' = 0
  /\ mqttWakeId' = FALSE
  /\ lastWakeResult' = "none"
  /\ wakeConfirmToken' = EmptyToken /\ wakeConfirmExpiresMs' = 0 /\ wakeLeft' = -1
  /\ rebootConfirmToken' = EmptyToken /\ rebootConfirmExpiresMs' = 0 /\ rebootLeft' = -1
  /\ UNCHANGED <<retained, histVars>>

Tick ==
  /\ ms' = (ms + 1) % Wrap
  /\ wrapped' = IF ms' = 0 THEN {wakeConfirmToken, rebootConfirmToken} \ {EmptyToken}
                            ELSE wrapped
  /\ wakeLeft' = Lapsed(wakeLeft)
  /\ rebootLeft' = Lapsed(rebootLeft)
  /\ UNCHANGED <<step, conn, pollVars, mqttWakeId, wakeConfirmToken,
                 wakeConfirmExpiresMs, rebootConfirmToken,
                 rebootConfirmExpiresMs, retained, histVars>>

-----------------------------------------------------------------------------

Init ==
  /\ ms = StartMs /\ wrapped = {}
  /\ step = "loop"
  /\ conn = FALSE
  /\ mqttWakePending = FALSE
  /\ wakeStartMs = 0 /\ lastWakeCheckMs = 0
  /\ mqttWakeId = FALSE
  /\ lastWakeResult = "none"
  /\ wakeConfirmToken = EmptyToken /\ wakeConfirmExpiresMs = 0 /\ wakeLeft = -1
  /\ rebootConfirmToken = EmptyToken /\ rebootConfirmExpiresMs = 0 /\ rebootLeft = -1
  /\ retained = [pending |-> FALSE, result |-> "none"]
  /\ issued = {} /\ woken = {} /\ rebooted = {}

Next ==
  \/ Receive \/ NoMessage \/ Refresh \/ Poll \/ ExpireTokens
  \/ Connect \/ Disconnect \/ Restart \/ Tick

Spec == Init /\ [][Next]_vars

-----------------------------------------------------------------------------
(* Properties *)

Clock == 0 .. Wrap - 1

TypeOK ==
  /\ ms \in Clock /\ wakeStartMs \in Clock /\ lastWakeCheckMs \in Clock
  /\ wakeConfirmExpiresMs \in Clock /\ rebootConfirmExpiresMs \in Clock
  /\ step \in Steps
  /\ conn \in BOOLEAN /\ mqttWakePending \in BOOLEAN /\ mqttWakeId \in BOOLEAN
  /\ lastWakeResult \in WakeResult
  /\ wakeConfirmToken \in ConfirmTokens \cup {EmptyToken}
  /\ rebootConfirmToken \in ConfirmTokens \cup {EmptyToken}
  /\ wakeLeft \in -1 .. MaxTtl /\ rebootLeft \in -1 .. MaxTtl
  /\ retained \in [pending: BOOLEAN, result: WakeResult]
  /\ wrapped \subseteq issued /\ issued \subseteq ConfirmTokens
  /\ woken \subseteq ConfirmTokens /\ rebooted \subseteq ConfirmTokens

\* A wake is either waiting for its confirmation or being polled, never both,
\* and one that waits has its wake id (handle_wake_request, mqtt_begin_wake,
\* and the two cleanups of expired tokens).
OneWake ==
  /\ ~(mqttWakePending /\ wakeConfirmToken # EmptyToken)
  /\ wakeConfirmToken # EmptyToken => mqttWakeId

\* One wake at a time, over values of their types: no deadline leaves 32 bits
\* and no lifetime exceeds its cap.
MqttInv == TypeOK /\ OneWake

\* mqtt.md: "/state is refreshed when values change": while connected, the
\* retained message tells the truth about the wake, on every path that changes
\* it, after a reconnect and after a restart.
RetainedCurrent ==
  conn => retained = [pending |-> mqttWakePending, result |-> lastWakeResult]

\* Both confirmations keep the promise of Confirmation: no packet and no
\* restart without the latest token, in its lifetime, and once per token,
\* whatever is delivered late or twice.  A deadline is compared and not
\* subtracted, so that a token that is open when millis() wraps becomes as good
\* as a new one; it counts as offered again.
Lapse(token, left) == token # EmptyToken /\ left = -1 /\ token \notin wrapped

Wake ==
  INSTANCE Confirmation WITH
    Tokens   <- ConfirmTokens,
    NoToken  <- EmptyToken,
    offer    <- wakeConfirmToken,
    expired  <- Lapse(wakeConfirmToken, wakeLeft),
    accepted <- woken

\* An accepted reboot no longer offers anything: it only restarts.
Rebooting == step \in {"flush", "restart"}

Reboot ==
  INSTANCE Confirmation WITH
    Tokens   <- ConfirmTokens,
    NoToken  <- EmptyToken,
    offer    <- IF Rebooting THEN EmptyToken ELSE rebootConfirmToken,
    expired  <- ~Rebooting /\ Lapse(rebootConfirmToken, rebootLeft),
    accepted <- rebooted

\* A wake packet is confirmed by the latest wake_request, and a restart by the
\* latest reboot_request, in time and once: each is an instance of Confirmation.
Confirmed == Wake!ConfirmationSpec /\ Reboot!ConfirmationSpec

=============================================================================
