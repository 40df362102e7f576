----------------------------- MODULE MqttProofs ----------------------------
(***************************************************************************)
(* Theorems about the two ends of a confirmation: MqttService, which asks  *)
(* for it, and the page of Dashboard, on which the user gives it.          *)
(*                                                                         *)
(* MqttService, for every set of tokens, every lifetime and every width of *)
(* the clock, keeps one wake at a time, tells the truth in its retained    *)
(* message, and implements Confirmation twice.  The refinement rests on    *)
(* two facts that hold for each confirmation:                              *)
(*   - a token is drawn, offered and accepted at most once (TokensDrawn,   *)
(*     WakeExact, RebootExact), and                                        *)
(*   - until millis() wraps, a deadline agrees with the true time left     *)
(*     (DeadlineExact), so that the comparison of the handlers accepts     *)
(*     exactly what has not expired.                                       *)
(*                                                                         *)
(* Dashboard, for every set of tokens, every lifetime and every bound on   *)
(* commands, faults and messages on their way, shows the current token     *)
(* long enough, reports only true successes, and its cancellations hold.   *)
(* PageInd says of what is on its way, whoever sent it, what it will do.   *)
(***************************************************************************)
EXTENDS MqttService, Dashboard, SequenceTheorems, TLAPS

-----------------------------------------------------------------------------
(* Types and one wake at a time *)

\* Unsigned addition wraps at most once.
LEMMA ModAdd ==
  ASSUME NEW a \in Clock, NEW b \in Clock
  PROVE  /\ (a + b) % Wrap \in Clock
         /\ (a + b) % Wrap = IF a + b < Wrap THEN a + b ELSE a + b - Wrap
BY MqttAssumption DEF Clock

\* Values the handlers assign.
LEMMA Values == -1 \in -1 .. MaxTtl /\ 0 \in Clock /\ StartMs \in Clock
BY MqttAssumption DEF Clock

\* A lifetime is capped, and its deadline is a clock value.
LEMMA Lifetimes ==
  ASSUME NEW ttl \in Ttls, ms \in Clock
  PROVE  /\ Capped(ttl) \in 0 .. MaxTtl /\ Capped(ttl) \in Clock
         /\ Deadline(Capped(ttl)) \in Clock
<1>1. Capped(ttl) \in 0 .. MaxTtl /\ Capped(ttl) \in Clock
  BY MqttAssumption DEF Capped, Clock
<1> QED BY <1>1, ModAdd DEF Deadline

\* Every token on offer or accepted was drawn.
TokensDrawn ==
  /\ {wakeConfirmToken, rebootConfirmToken} \subseteq issued \cup {EmptyToken}
  /\ woken \subseteq issued /\ rebooted \subseteq issued

MqttInd == MqttInv /\ TokensDrawn

\* mqtt_publish_state keeps the types of what it touches.
LEMMA Published ==
  ASSUME PublishState, TypeOK, mqttWakePending' \in BOOLEAN, lastWakeResult' \in WakeResult
  PROVE  conn' \in BOOLEAN /\ retained' \in [pending: BOOLEAN, result: WakeResult]
<1>1. conn' \in BOOLEAN
  BY DEF PublishState, TypeOK
<1>2. retained' \in [pending: BOOLEAN, result: WakeResult]
  BY DEF PublishState, TypeOK
<1> QED BY <1>1, <1>2

\* Every handler of a command keeps the types and one wake at a time.
LEMMA HandlerInv ==
  ASSUME MqttInd, UNCHANGED clockVars, step' \in Steps,
         Handler \/ \E token \in ConfirmTokens \cup {EmptyToken} : RebootConfirm(token)
  PROVE  MqttInd'
<1> USE Values DEF clockVars, pollVars, wakeVars, rebootVars, histVars, MqttInd, MqttInv, OneWake, TokensDrawn
<1>1. CASE Ping
  <2>1. conn' \in BOOLEAN /\ retained' \in [pending: BOOLEAN, result: WakeResult]
    BY <1>1, Published DEF Ping, TypeOK
  <2> QED BY <1>1, <2>1 DEF Ping, TypeOK
<1>2. ASSUME WakeSent, UNCHANGED <<issued, rebootVars>>, woken' \subseteq issued, rebooted' \subseteq issued
      PROVE  MqttInd'
  <2>1. conn' \in BOOLEAN /\ retained' \in [pending: BOOLEAN, result: WakeResult]
    BY <1>2, Published DEF WakeSent, TypeOK, WakeResult
  <2> QED BY <1>2, <2>1 DEF WakeSent, TypeOK, WakeResult
<1>3. ASSUME WakeSendFailed, UNCHANGED <<rebootVars, histVars>> PROVE MqttInd'
  <2>1. conn' \in BOOLEAN /\ retained' \in [pending: BOOLEAN, result: WakeResult]
    BY <1>3, Published DEF WakeSendFailed, TypeOK, WakeResult
  <2> QED BY <1>3, <2>1 DEF WakeSendFailed, TypeOK, WakeResult
<1>4. CASE ForceWake
  BY <1>2, <1>3, <1>4 DEF ForceWake, TypeOK
<1>5. CASE WakeCancel
  <2>1. conn' \in BOOLEAN /\ retained' \in [pending: BOOLEAN, result: WakeResult]
    BY <1>5, Published DEF WakeCancel, TypeOK
  <2>2. TypeOK'
    BY <1>5, <2>1 DEF WakeCancel, TypeOK
  <2>3. OneWake' /\ TokensDrawn'
    BY <1>5 DEF WakeCancel
  <2> QED BY <2>2, <2>3
<1>6. ASSUME NEW ttl \in Ttls, NEW k \in ConfirmTokens, WakeRequest(ttl, k) PROVE MqttInd'
  <2>1. CASE mqttWakePending
    BY <1>6, <2>1 DEF WakeRequest, ReplyOnly, TypeOK
  <2>2. CASE ~mqttWakePending
    <3>1. conn' \in BOOLEAN /\ retained' \in [pending: BOOLEAN, result: WakeResult]
      BY <1>6, <2>2, Published DEF WakeRequest, TypeOK
    <3>2. wakeLeft' \in -1 .. MaxTtl /\ wakeConfirmExpiresMs' \in Clock
      BY <1>6, <2>2, Lifetimes DEF WakeRequest, TypeOK
    <3>3. TypeOK'
      BY <1>6, <2>2, <3>1, <3>2 DEF WakeRequest, TypeOK
    <3>4. OneWake' /\ TokensDrawn'
      BY <1>6, <2>2 DEF WakeRequest
    <3> QED BY <3>3, <3>4
  <2> QED BY <2>1, <2>2
<1>7. ASSUME NEW ttl \in Ttls, NEW k \in ConfirmTokens, RebootRequest(ttl, k) PROVE MqttInd'
  <2>1. rebootLeft' \in -1 .. MaxTtl /\ rebootConfirmExpiresMs' \in Clock
    BY <1>7, Lifetimes DEF RebootRequest, TypeOK
  <2> QED BY <1>7, <2>1 DEF RebootRequest, ReplyOnly, TypeOK
<1>8. ASSUME NEW token \in ConfirmTokens \cup {EmptyToken}, WakeConfirm(token) PROVE MqttInd'
  <2>1. CASE /\ WakeSent /\ token = wakeConfirmToken
             /\ woken' = woken \cup ({token} \ {EmptyToken})
             /\ UNCHANGED <<rebootVars, issued, rebooted>>
    <3>1. woken' \subseteq issued /\ rebooted' \subseteq issued
      BY <2>1
    <3> QED BY <1>2, <2>1, <3>1
  <2>2. CASE WakeSendFailed /\ UNCHANGED <<rebootVars, histVars>>
    BY <1>3, <2>2
  <2>3. CASE ReplyOnly /\ UNCHANGED <<pollVars, mqttWakeId, wakeVars, rebootVars, histVars>>
    BY <2>3 DEF ReplyOnly, TypeOK
  <2>4. CASE /\ wakeConfirmToken' = EmptyToken /\ wakeLeft' = -1 /\ mqttWakeId' = FALSE
             /\ ReplyOnly /\ UNCHANGED <<pollVars, wakeConfirmExpiresMs, rebootVars, histVars>>
    <3>1. TypeOK'
      BY <2>4 DEF ReplyOnly, TypeOK
    <3>2. OneWake' /\ TokensDrawn'
      BY <2>4
    <3> QED BY <3>1, <3>2
  <2> QED BY <1>8, <2>1, <2>2, <2>3, <2>4 DEF WakeConfirm
<1>9. ASSUME NEW token \in ConfirmTokens \cup {EmptyToken}, RebootRefused(token) PROVE MqttInd'
  BY <1>9 DEF RebootRefused, ReplyOnly, TypeOK
<1>10. ASSUME NEW token \in ConfirmTokens \cup {EmptyToken}, RebootConfirm(token) PROVE MqttInd'
  BY <1>10 DEF RebootConfirm, ReplyOnly, TypeOK
<1>11. CASE RebootCancel
  BY <1>11 DEF RebootCancel, ReplyOnly, TypeOK
<1> QED BY <1>1, <1>4, <1>5, <1>6, <1>7, <1>8, <1>9, <1>10, <1>11 DEF Handler

\* Every step of the service keeps MqttInv.
LEMMA MqttStep == MqttInd /\ [Next]_vars => MqttInd'
<1> SUFFICES ASSUME MqttInd, [Next]_vars PROVE MqttInd'
  OBVIOUS
<1> USE Values DEF clockVars, pollVars, wakeVars, rebootVars, histVars, MqttInd, MqttInv, OneWake, TokensDrawn
<1>1. CASE Receive
  BY <1>1, HandlerInv DEF Receive, Steps
<1>2. CASE NoMessage
  BY <1>2 DEF NoMessage, TypeOK, Steps
<1>3. CASE Refresh
  <2>1. conn' \in BOOLEAN /\ retained' \in [pending: BOOLEAN, result: WakeResult]
    BY <1>3, Published DEF Refresh, TypeOK
  <2> QED BY <1>3, <2>1 DEF Refresh, TypeOK
<1>4. CASE Poll
  <2>1. CASE mqttWakePending /\ step' = "expire" /\ \E res \in {"pc_online", "timeout"} : WakeDone(res)
    <3> PICK res \in {"pc_online", "timeout"} : WakeDone(res)
      BY <2>1
    <3>1. conn' \in BOOLEAN /\ retained' \in [pending: BOOLEAN, result: WakeResult]
      BY Published DEF WakeDone, TypeOK, WakeResult
    <3> QED BY <1>4, <2>1, <3>1 DEF Poll, WakeDone, TypeOK, WakeResult, Steps
  <2>2. CASE /\ step' \in Steps /\ lastWakeCheckMs' \in {ms, lastWakeCheckMs}
             /\ UNCHANGED <<mqttWakePending, wakeStartMs, lastWakeResult, mqttWakeId, conn, retained>>
    BY <1>4, <2>2 DEF Poll, TypeOK
  <2> HIDE DEF MqttInd
  <2> QED BY <1>4, <2>1, <2>2 DEF Poll, Steps
<1>5. CASE ExpireTokens
  <2>1. TypeOK'
    BY <1>5 DEF ExpireTokens, TypeOK, Steps
  <2>2. OneWake' /\ TokensDrawn'
    BY <1>5 DEF ExpireTokens
  <2> QED BY <2>1, <2>2
<1>6. CASE Connect
  BY <1>6 DEF Connect, TypeOK
<1>7. CASE Disconnect
  BY <1>7 DEF Disconnect, TypeOK
<1>8. CASE Restart
  <2>1. TypeOK'
    BY <1>8 DEF Restart, TypeOK, Steps, WakeResult
  <2>2. OneWake' /\ TokensDrawn'
    BY <1>8 DEF Restart
  <2> QED BY <2>1, <2>2
<1>9. CASE Tick
  <2>1. ms' \in Clock
    BY <1>9, MqttAssumption DEF Tick, TypeOK, Clock
  <2>2. wrapped' \subseteq issued
    BY <1>9 DEF Tick, TypeOK
  <2>3. wakeLeft' \in -1 .. MaxTtl /\ rebootLeft' \in -1 .. MaxTtl
    BY <1>9, MqttAssumption DEF Tick, TypeOK, Lapsed
  <2> QED BY <1>9, <2>1, <2>2, <2>3 DEF Tick, TypeOK
<1>10. CASE UNCHANGED vars
  BY <1>10 DEF vars, TypeOK
<1> QED BY <1>1, <1>2, <1>3, <1>4, <1>5, <1>6, <1>7, <1>8, <1>9, <1>10 DEF Next

\* Initially nothing is offered.
LEMMA MqttStart == Init => MqttInd
<1> SUFFICES ASSUME Init PROVE MqttInd
  OBVIOUS
<1>1. TypeOK
  BY Values DEF Init, TypeOK, Steps, WakeResult
<1>2. OneWake /\ TokensDrawn
  BY DEF Init, OneWake, TokensDrawn
<1> QED BY <1>1, <1>2 DEF MqttInd, MqttInv

\* One wake at a time, and no value leaves its type, for every clock width and
\* every order of commands, losses and restarts.
THEOREM OneWakeAtATime == Spec => []MqttInv
<1>1. MqttInd => MqttInv
  BY DEF MqttInd
<1> QED BY <1>1, MqttStart, MqttStep, PTL DEF Spec

-----------------------------------------------------------------------------
(* The retained message *)

\* While connected, the retained message is up to date after every step.
LEMMA RetainedStep == RetainedCurrent /\ [Next]_vars => RetainedCurrent'
<1> SUFFICES ASSUME RetainedCurrent, [Next]_vars PROVE RetainedCurrent'
  OBVIOUS
<1> USE DEF RetainedCurrent, pollVars
<1>1. ASSUME PublishState PROVE RetainedCurrent'
  BY <1>1 DEF PublishState
<1>2. ASSUME UNCHANGED <<conn, retained, mqttWakePending, lastWakeResult>> PROVE RetainedCurrent'
  BY <1>2
<1> HIDE DEF RetainedCurrent
<1>3. ASSUME NEW token, WakeConfirm(token) PROVE RetainedCurrent'
  BY <1>1, <1>2, <1>3 DEF WakeConfirm, WakeSent, WakeSendFailed, ReplyOnly
<1>4. ASSUME Handler \/ \E token \in ConfirmTokens \cup {EmptyToken} : RebootConfirm(token)
      PROVE  RetainedCurrent'
  BY <1>1, <1>2, <1>3, <1>4
  DEF Handler, Ping, ForceWake, WakeSent, WakeSendFailed, WakeCancel, RebootCancel,
      WakeRequest, RebootRequest, RebootRefused, RebootConfirm, ReplyOnly
<1>5. CASE Receive
  BY <1>4, <1>5 DEF Receive
<1>6. CASE Refresh \/ Poll
  BY <1>1, <1>2, <1>6 DEF Refresh, Poll, WakeDone
<1>7. CASE NoMessage \/ Connect \/ Disconnect \/ Restart
  BY <1>7 DEF NoMessage, Connect, Disconnect, Restart, RetainedCurrent
<1>8. CASE ExpireTokens \/ Tick \/ UNCHANGED vars
  BY <1>2, <1>8 DEF ExpireTokens, Tick, vars
<1> QED BY <1>5, <1>6, <1>7, <1>8 DEF Next

\* The retained state tells the truth on every path that changes it, after a
\* reconnect and after a restart.
THEOREM RetainedTrue == Spec => []RetainedCurrent
<1>1. Init => RetainedCurrent
  BY DEF Init, RetainedCurrent
<1> QED BY <1>1, RetainedStep, PTL DEF Spec

-----------------------------------------------------------------------------
(* Both confirmations implement Confirmation *)

\* At time t, with w the tokens that were open when millis() wrapped: the
\* deadline e of token k and the true time left agree.
DeadlineExact(k, e, left, t, w) ==
  k # EmptyToken /\ k \notin w =>
    \/ left = -1 /\ e < t
    \/ left >= 0 /\ (e = t + left \/ e = t + left - Wrap)

\* A wake token on offer was not accepted before, and its deadline is exact.
WakeExact ==
  /\ wakeConfirmToken \notin woken
  /\ DeadlineExact(wakeConfirmToken, wakeConfirmExpiresMs, wakeLeft, ms, wrapped)

\* The same for a reboot, up to the restart; until a further command arrives,
\* the token of a restart under way is the one that was accepted.
RebootExact ==
  /\ ~Rebooting => rebootConfirmToken \notin rebooted
  /\ step = "flush" => rebootConfirmToken \in rebooted
  /\ DeadlineExact(rebootConfirmToken, rebootConfirmExpiresMs, rebootLeft, ms, wrapped)

\* A new token's deadline is exact.
LEMMA DeadlineNew ==
  ASSUME TypeOK, NEW ttl \in Ttls, NEW k
  PROVE  DeadlineExact(k, Deadline(Capped(ttl)), Capped(ttl), ms, wrapped)
<1>1. Capped(ttl) \in 0 .. MaxTtl /\ Capped(ttl) \in Clock /\ ms \in Clock
  BY Lifetimes DEF TypeOK
<1>2. Deadline(Capped(ttl)) \in {ms + Capped(ttl), ms + Capped(ttl) - Wrap}
  BY <1>1, ModAdd DEF Deadline
<1> QED BY <1>1, <1>2, MqttAssumption DEF DeadlineExact

\* It stays so while the clock runs on, up to the wrap.
LEMMA DeadlineTicks ==
  ASSUME NEW k, NEW e \in Clock, NEW left \in -1 .. MaxTtl, NEW t \in Clock, NEW w, NEW v,
         DeadlineExact(k, e, left, t, w),
         (t + 1) % Wrap = 0 => k = EmptyToken \/ k \in v,
         (t + 1) % Wrap # 0 => v = w
  PROVE  DeadlineExact(k, e, Lapsed(left), (t + 1) % Wrap, v)
<1>1. CASE t + 1 = Wrap
  <2>1. (t + 1) % Wrap = 0
    BY <1>1, MqttAssumption
  <2> QED BY <2>1 DEF DeadlineExact
<1>2. CASE t + 1 # Wrap
  <2>1. (t + 1) % Wrap = t + 1 /\ t + 1 # 0
    BY <1>2, MqttAssumption DEF Clock
  <2> QED BY <1>2, <2>1, MqttAssumption DEF DeadlineExact, Lapsed, Clock
<1> QED BY <1>1, <1>2

\* A token that the handlers find in time has not expired.
LEMMA InTime ==
  ASSUME NEW k, NEW e \in Clock, NEW left \in -1 .. MaxTtl, ms \in Clock,
         DeadlineExact(k, e, left, ms, wrapped), ms <= e
  PROVE  ~Lapse(k, left)
BY MqttAssumption DEF DeadlineExact, Lapse, Clock

\* What a step does to the wake confirmation: nothing, a new offer, its
\* withdrawal, its acceptance, or the clock runs.
LEMMA WakeCases ==
  ASSUME MqttInd, [Next]_vars
  PROVE  \/ UNCHANGED <<clockVars, wakeVars, woken>>
         \/ \E ttl \in Ttls, k \in ConfirmTokens \ issued :
              /\ wakeConfirmToken' = k
              /\ wakeConfirmExpiresMs' = Deadline(Capped(ttl))
              /\ wakeLeft' = Capped(ttl)
              /\ UNCHANGED <<clockVars, woken>>
         \/ wakeConfirmToken' = EmptyToken /\ UNCHANGED woken
         \/ /\ wakeConfirmToken # EmptyToken /\ ms <= wakeConfirmExpiresMs
            /\ wakeConfirmToken' = EmptyToken
            /\ woken' = woken \cup {wakeConfirmToken}
         \/ Tick
<1> USE DEF pollVars, wakeVars, rebootVars, histVars
<1>1. ASSUME NEW token \in ConfirmTokens \cup {EmptyToken}, WakeConfirm(token)
      PROVE  \/ UNCHANGED <<wakeVars, woken>>
             \/ wakeConfirmToken' = EmptyToken /\ UNCHANGED woken
             \/ /\ wakeConfirmToken # EmptyToken /\ ms <= wakeConfirmExpiresMs
                /\ wakeConfirmToken' = EmptyToken
                /\ woken' = woken \cup {wakeConfirmToken}
  <2>1. CASE token = EmptyToken
    BY <1>1, <2>1 DEF WakeConfirm, WakeSent, WakeSendFailed
  <2>2. CASE token # EmptyToken
    BY <1>1, <2>2 DEF WakeConfirm, WakeSent, WakeSendFailed
  <2> QED BY <2>1, <2>2
<1>2. CASE Receive
  BY <1>1, <1>2
  DEF Receive, Handler, Ping, ForceWake, WakeSent, WakeSendFailed, WakeCancel, RebootCancel,
      WakeRequest, RebootRequest, RebootRefused, RebootConfirm
<1>3. CASE ExpireTokens
  BY <1>3 DEF ExpireTokens, clockVars
<1>4. CASE Restart
  BY <1>4 DEF Restart
<1>5. CASE NoMessage \/ Refresh \/ Poll \/ Connect \/ Disconnect \/ UNCHANGED vars
  BY <1>5 DEF NoMessage, Refresh, Poll, Connect, Disconnect, vars
<1> QED BY <1>2, <1>3, <1>4, <1>5 DEF Next

\* Every step keeps the wake token exact and is a step of its Confirmation.
LEMMA WakeStep ==
  ASSUME MqttInd, WakeExact, [Next]_vars
  PROVE  WakeExact' /\ [Wake!ConfirmationNext]_(Wake!confirmationVars)
<1> USE DEF Wake!ConfirmationNext, Wake!confirmationVars
<1>1. CASE UNCHANGED <<clockVars, wakeVars, woken>>
  BY <1>1 DEF clockVars, wakeVars, WakeExact, DeadlineExact, Lapse
<1>2. CASE \E ttl \in Ttls, k \in ConfirmTokens \ issued :
             /\ wakeConfirmToken' = k
             /\ wakeConfirmExpiresMs' = Deadline(Capped(ttl))
             /\ wakeLeft' = Capped(ttl)
             /\ UNCHANGED <<clockVars, woken>>
  <2> PICK ttl \in Ttls, k \in ConfirmTokens \ issued :
             /\ wakeConfirmToken' = k
             /\ wakeConfirmExpiresMs' = Deadline(Capped(ttl))
             /\ wakeLeft' = Capped(ttl)
             /\ UNCHANGED <<clockVars, woken>>
    BY <1>2
  <2>1. k \notin woken /\ Capped(ttl) # -1
    BY Lifetimes DEF MqttInd, MqttInv, TypeOK, TokensDrawn
  <2>2. DeadlineExact(k, Deadline(Capped(ttl)), Capped(ttl), ms, wrapped)
    BY DeadlineNew DEF MqttInd, MqttInv
  <2>3. WakeExact'
    BY <2>1, <2>2 DEF WakeExact, clockVars
  <2>4. Wake!Offer(k)
    BY <2>1 DEF Wake!Offer, Lapse
  <2> QED BY <2>3, <2>4
<1>3. CASE wakeConfirmToken' = EmptyToken /\ UNCHANGED woken
  <2>1. WakeExact'
    BY <1>3, MqttAssumption DEF WakeExact, DeadlineExact, MqttInd, MqttInv, TypeOK
  <2>2. Wake!Withdraw
    BY <1>3 DEF Wake!Withdraw, Lapse
  <2> QED BY <2>1, <2>2
<1>4. CASE /\ wakeConfirmToken # EmptyToken /\ ms <= wakeConfirmExpiresMs
           /\ wakeConfirmToken' = EmptyToken
           /\ woken' = woken \cup {wakeConfirmToken}
  <2>1. ~Lapse(wakeConfirmToken, wakeLeft)
    BY <1>4, InTime DEF WakeExact, MqttInd, MqttInv, TypeOK
  <2>2. WakeExact'
    BY <1>4, MqttAssumption DEF WakeExact, DeadlineExact, MqttInd, MqttInv, TypeOK
  <2>3. Wake!Accept
    BY <1>4, <2>1 DEF Wake!Accept, Lapse
  <2> QED BY <2>2, <2>3
<1>5. CASE Tick
  <2>1. wakeLeft' = Lapsed(wakeLeft) /\ UNCHANGED <<wakeConfirmToken, wakeConfirmExpiresMs, woken>>
    BY <1>5 DEF Tick, histVars
  <2>2. DeadlineExact(wakeConfirmToken, wakeConfirmExpiresMs, Lapsed(wakeLeft), (ms + 1) % Wrap, wrapped')
    <3>1. /\ (ms + 1) % Wrap = 0 => wakeConfirmToken = EmptyToken \/ wakeConfirmToken \in wrapped'
          /\ (ms + 1) % Wrap # 0 => wrapped' = wrapped
      BY <1>5 DEF Tick
    <3> QED BY <3>1, DeadlineTicks DEF WakeExact, MqttInd, MqttInv, TypeOK
  <2>3. WakeExact'
    BY <1>5, <2>1, <2>2 DEF Tick, WakeExact
  <2>4. CASE Lapse(wakeConfirmToken, wakeLeft)' = Lapse(wakeConfirmToken, wakeLeft)
    BY <2>1, <2>3, <2>4
  <2>5. CASE Lapse(wakeConfirmToken, wakeLeft)' /\ ~Lapse(wakeConfirmToken, wakeLeft)
    <3>1. Wake!Expire
      BY <2>1, <2>5 DEF Wake!Expire, Lapse
    <3> QED BY <2>3, <3>1
  <2>6. CASE ~Lapse(wakeConfirmToken, wakeLeft)' /\ Lapse(wakeConfirmToken, wakeLeft)
    <3>1. Wake!Offer(wakeConfirmToken)
      BY <2>1, <2>6 DEF Wake!Offer, WakeExact
    <3>2. wakeConfirmToken \in ConfirmTokens
      BY <2>6 DEF Lapse, MqttInd, MqttInv, TypeOK
    <3> QED BY <2>3, <3>1, <3>2
  <2> QED BY <2>4, <2>5, <2>6 DEF Lapse
<1> QED BY <1>1, <1>2, <1>3, <1>4, <1>5, WakeCases

\* What a step does to the reboot confirmation: nothing, a new offer, its
\* withdrawal, its acceptance, or the clock runs.
LEMMA RebootCases ==
  ASSUME MqttInd, [Next]_vars
  PROVE  \/ /\ UNCHANGED <<clockVars, rebootVars, rebooted>>
            /\ Rebooting' <=> Rebooting
            /\ step' = "flush" => step = "flush"
         \/ \E ttl \in Ttls, k \in ConfirmTokens \ issued :
              /\ rebootConfirmToken' = k
              /\ rebootConfirmExpiresMs' = Deadline(Capped(ttl))
              /\ rebootLeft' = Capped(ttl)
              /\ UNCHANGED <<clockVars, rebooted>>
              /\ (Rebooting' <=> Rebooting) /\ step' # "flush"
         \/ /\ rebootConfirmToken' = EmptyToken /\ UNCHANGED rebooted
            /\ (Rebooting' => Rebooting) /\ step' # "flush"
         \/ /\ rebootConfirmToken # EmptyToken /\ ms <= rebootConfirmExpiresMs
            /\ step \in {"loop", "flush"} /\ step' = "flush"
            /\ rebooted' = rebooted \cup {rebootConfirmToken}
            /\ UNCHANGED <<clockVars, rebootVars>>
         \/ Tick
<1> USE DEF pollVars, wakeVars, rebootVars, histVars
<1>1. ASSUME Handler
      PROVE  \/ UNCHANGED <<rebootVars, rebooted>>
             \/ \E ttl \in Ttls, k \in ConfirmTokens \ issued :
                  /\ rebootConfirmToken' = k
                  /\ rebootConfirmExpiresMs' = Deadline(Capped(ttl))
                  /\ rebootLeft' = Capped(ttl)
                  /\ UNCHANGED rebooted
             \/ rebootConfirmToken' = EmptyToken /\ UNCHANGED rebooted
  BY <1>1
  DEF Handler, Ping, ForceWake, WakeSent, WakeSendFailed, WakeCancel, RebootCancel,
      WakeRequest, WakeConfirm, RebootRequest, RebootRefused
<1>2. CASE Receive
  <2>1. CASE Handler /\ step' # "flush" /\ (Rebooting' <=> Rebooting)
    BY <1>1, <1>2, <2>1 DEF Receive
  <2>2. CASE \E token \in ConfirmTokens \cup {EmptyToken} : RebootConfirm(token) /\ step' = "flush"
    BY <1>2, <2>2 DEF Receive, RebootConfirm
  <2> QED BY <1>2, <2>1, <2>2 DEF Receive, Rebooting
<1>3. CASE ExpireTokens
  BY <1>3 DEF ExpireTokens, clockVars, Rebooting
<1>4. CASE Restart
  BY <1>4 DEF Restart, Rebooting
<1>5. CASE NoMessage \/ Refresh \/ Poll \/ Connect \/ Disconnect \/ UNCHANGED vars
  BY <1>5 DEF NoMessage, Refresh, Poll, Connect, Disconnect, vars, Rebooting
<1> QED BY <1>2, <1>3, <1>4, <1>5 DEF Next

\* Every step keeps the reboot token exact and is a step of its Confirmation.
LEMMA RebootStep ==
  ASSUME MqttInd, RebootExact, [Next]_vars
  PROVE  RebootExact' /\ [Reboot!ConfirmationNext]_(Reboot!confirmationVars)
<1> USE DEF Reboot!ConfirmationNext, Reboot!confirmationVars
<1>1. CASE /\ UNCHANGED <<clockVars, rebootVars, rebooted>>
           /\ Rebooting' <=> Rebooting
           /\ step' = "flush" => step = "flush"
  BY <1>1 DEF clockVars, rebootVars, RebootExact, DeadlineExact, Lapse
<1>2. CASE \E ttl \in Ttls, k \in ConfirmTokens \ issued :
             /\ rebootConfirmToken' = k
             /\ rebootConfirmExpiresMs' = Deadline(Capped(ttl))
             /\ rebootLeft' = Capped(ttl)
             /\ UNCHANGED <<clockVars, rebooted>>
             /\ (Rebooting' <=> Rebooting) /\ step' # "flush"
  <2> PICK ttl \in Ttls, k \in ConfirmTokens \ issued :
             /\ rebootConfirmToken' = k
             /\ rebootConfirmExpiresMs' = Deadline(Capped(ttl))
             /\ rebootLeft' = Capped(ttl)
             /\ UNCHANGED <<clockVars, rebooted>>
             /\ (Rebooting' <=> Rebooting) /\ step' # "flush"
    BY <1>2
  <2>1. k \notin rebooted /\ Capped(ttl) # -1
    BY Lifetimes DEF MqttInd, MqttInv, TypeOK, TokensDrawn
  <2>2. DeadlineExact(k, Deadline(Capped(ttl)), Capped(ttl), ms, wrapped)
    BY DeadlineNew DEF MqttInd, MqttInv
  <2>3. RebootExact'
    BY <2>1, <2>2 DEF RebootExact, clockVars
  <2>4. CASE ~Rebooting
    <3>1. Reboot!Offer(k)
      BY <2>1, <2>4 DEF Reboot!Offer, Lapse
    <3> QED BY <2>3, <3>1
  <2>5. CASE Rebooting
    BY <2>3, <2>5
  <2> QED BY <2>4, <2>5
<1>3. CASE /\ rebootConfirmToken' = EmptyToken /\ UNCHANGED rebooted
           /\ (Rebooting' => Rebooting) /\ step' # "flush"
  <2>1. RebootExact'
    BY <1>3, MqttAssumption DEF RebootExact, DeadlineExact, MqttInd, MqttInv, TypeOK
  <2>2. Reboot!Withdraw
    BY <1>3 DEF Reboot!Withdraw, Lapse
  <2> QED BY <2>1, <2>2
<1>4. CASE /\ rebootConfirmToken # EmptyToken /\ ms <= rebootConfirmExpiresMs
           /\ step \in {"loop", "flush"} /\ step' = "flush"
           /\ rebooted' = rebooted \cup {rebootConfirmToken}
           /\ UNCHANGED <<clockVars, rebootVars>>
  <2>1. RebootExact'
    BY <1>4 DEF RebootExact, Rebooting, clockVars, rebootVars
  <2>2. CASE step = "flush"
    BY <1>4, <2>1, <2>2 DEF RebootExact, Rebooting
  <2>3. CASE step = "loop"
    <3>1. ~Lapse(rebootConfirmToken, rebootLeft)
      BY <1>4, InTime DEF RebootExact, MqttInd, MqttInv, TypeOK
    <3>2. Reboot!Accept
      BY <1>4, <2>3, <3>1 DEF Reboot!Accept, Rebooting
    <3> QED BY <2>1, <3>2
  <2> QED BY <1>4, <2>2, <2>3
<1>5. CASE Tick
  <2>1. /\ rebootLeft' = Lapsed(rebootLeft) /\ (Rebooting' <=> Rebooting) /\ step' = step
        /\ UNCHANGED <<rebootConfirmToken, rebootConfirmExpiresMs, rebooted>>
    BY <1>5 DEF Tick, histVars, Rebooting
  <2>2. DeadlineExact(rebootConfirmToken, rebootConfirmExpiresMs, Lapsed(rebootLeft), (ms + 1) % Wrap, wrapped')
    <3>1. /\ (ms + 1) % Wrap = 0 => rebootConfirmToken = EmptyToken \/ rebootConfirmToken \in wrapped'
          /\ (ms + 1) % Wrap # 0 => wrapped' = wrapped
      BY <1>5 DEF Tick
    <3> QED BY <3>1, DeadlineTicks DEF RebootExact, MqttInd, MqttInv, TypeOK
  <2>3. RebootExact'
    BY <1>5, <2>1, <2>2 DEF Tick, RebootExact
  <2>4. CASE Rebooting \/ Lapse(rebootConfirmToken, rebootLeft)' = Lapse(rebootConfirmToken, rebootLeft)
    BY <2>1, <2>3, <2>4
  <2>5. CASE ~Rebooting /\ Lapse(rebootConfirmToken, rebootLeft)' /\ ~Lapse(rebootConfirmToken, rebootLeft)
    <3>1. Reboot!Expire
      BY <2>1, <2>5 DEF Reboot!Expire, Lapse
    <3> QED BY <2>3, <3>1
  <2>6. CASE ~Rebooting /\ ~Lapse(rebootConfirmToken, rebootLeft)' /\ Lapse(rebootConfirmToken, rebootLeft)
    <3>1. Reboot!Offer(rebootConfirmToken)
      BY <2>1, <2>6 DEF Reboot!Offer, RebootExact
    <3>2. rebootConfirmToken \in ConfirmTokens
      BY <2>6 DEF Lapse, MqttInd, MqttInv, TypeOK
    <3> QED BY <2>3, <3>1, <3>2
  <2> QED BY <2>4, <2>5, <2>6 DEF Lapse
<1> QED BY <1>1, <1>2, <1>3, <1>4, <1>5, RebootCases

\* No wake packet and no restart without the latest token, in its lifetime and
\* once per token: the service implements Confirmation for each of the two, for
\* every width of the clock and although the comparison of deadlines does not
\* survive a wrap.
THEOREM ConfirmationsImplemented == Spec => Confirmed
<1>1. Init => /\ WakeExact /\ Wake!ConfirmationInit
              /\ RebootExact /\ Reboot!ConfirmationInit
  BY DEF Init, WakeExact, RebootExact, DeadlineExact, Rebooting, Lapse,
         Wake!ConfirmationInit, Reboot!ConfirmationInit
<1>2. MqttInd /\ WakeExact /\ [Next]_vars
        => WakeExact' /\ [Wake!ConfirmationNext]_(Wake!confirmationVars)
  BY WakeStep
<1>3. MqttInd /\ RebootExact /\ [Next]_vars
        => RebootExact' /\ [Reboot!ConfirmationNext]_(Reboot!confirmationVars)
  BY RebootStep
<1> QED
  BY <1>1, <1>2, <1>3, MqttStart, MqttStep, PTL
  DEF Spec, Confirmed, Wake!ConfirmationSpec, Reboot!ConfirmationSpec

-----------------------------------------------------------------------------
(* The page: the inductive invariant *)

\* A token, or none.
MaybeToken == Tokens \cup {NoToken}

\* The commands, as they travel.
CmdName == {"wake_request", "wake_force", "wake_confirm", "wake_cancel", "ping", "reboot_request"}

\* The commands of other clients.
OtherCmd == {"wake_request", "wake_force", "wake_confirm", "wake_cancel"}

Cmd == [cmd: CmdName, token: MaybeToken, id: Nat]

\* Replies and state messages.
Msg ==
  [ cmd: CmdName \cup {"none", "state"}, id: Nat, ok: BOOLEAN, token: MaybeToken,
    exp: 0 .. MaxUptime + Ttl ]

\* A state message that arrived.
Seen == [ts: 0 .. MaxUptime + Ttl, pending: BOOLEAN]

\* Types of the page and the ESP.
PageTypes ==
  /\ DashboardTypeOK
  /\ offer \in MaybeToken /\ expired \in BOOLEAN /\ accepted \subseteq Tokens
  /\ due \in Nat /\ restarted \in BOOLEAN /\ faults \in Nat
  /\ kept \in Seen \cup {NoState} /\ shown \in Seen \cup {NoState}

\* Types of what is on its way.
BusTypes ==
  /\ cmds \in Seq(Cmd) /\ unacked \in Seq(Cmd) /\ inbox \in Seq(Msg) /\ last \in Msg
  /\ missed \in BOOLEAN /\ cancelled \in BOOLEAN /\ dropped \in BOOLEAN

\* The reply that brings a token.
Brings(m) == m.cmd = "wake_request" /\ m.ok /\ m.token # NoToken

\* What a message says is so: a token is open until the time its reply names, or
\* is not open; a confirmation that succeeded was accepted; and a state message
\* is of the past.
Truthful(m) ==
  /\ Brings(m) /\ m.token = offer /\ ~restarted => m.exp = due
  /\ m.cmd = "wake_confirm" /\ m.ok => m.token \in accepted
  /\ m.cmd = "state" /\ ~restarted => m.exp <= uptime

Answers == Truthful(last) /\ \A i \in DOMAIN inbox : Truthful(inbox[i])

\* No reply comes before a state message, from which the countdown is computed.
StateFirst ==
  /\ online => kept # NoState
  /\ ~up => inbox = <<>>
  /\ last # NoAnswer => shown # NoState
  /\ shown = NoState /\ up /\ kept # NoState => inbox # <<>>
  /\ shown = NoState /\ inbox # <<>> => Head(inbox).cmd = "state"

\* The countdown of the open token, in any phase, and the states behind it.
Countdown ==
  ~restarted =>
    /\ shown.ts <= uptime /\ kept.ts <= uptime
    /\ wakeToken = offer /\ offer # NoToken => countdown >= due - uptime

\* The last token that queue q brings is k, or it brings none and b holds.
Last(q, k, b) ==
  \/ b /\ \A i \in DOMAIN q : ~Brings(q[i])
  \/ \E i \in DOMAIN q : /\ Brings(q[i]) /\ q[i].token = k
                         /\ \A j \in DOMAIN q : j > i => ~Brings(q[j])

\* The token of the page will be the open one once it has looked at everything.
Newest ==
  ~missed /\ offer # NoToken =>
    Last(inbox, offer, IF Brings(last) THEN last.token = offer ELSE wakeToken \in {offer, NoToken})

\* The last command of q cancels.
Cancels(q) == q # <<>> /\ q[Len(q)].cmd = "wake_cancel"

\* A cancellation is the last command on its way, or was handled; and nothing
\* that will be repeated undoes it.
Cancelling ==
  cancelled /\ ~dropped =>
    /\ unacked = <<>> \/ Cancels(unacked)
    /\ Cancels(cmds) \/ (cmds = <<>> /\ offer = NoToken /\ ~pending)

\* The inductive invariant.
PageInd ==
  /\ PageTypes /\ BusTypes /\ Answers /\ StateFirst /\ Countdown /\ Newest /\ Cancelling

-----------------------------------------------------------------------------
(* The page: sequences and messages *)

\* The bounds of the model are numbers, and no token is none.
LEMMA PageConstants ==
  /\ NoToken \notin Tokens /\ Ttl \in Nat /\ MaxUptime \in Nat /\ MaxCmds \in Nat
  /\ NoState.ts = -1 /\ NoState.pending = FALSE /\ NoState \notin Seen
  /\ NoAnswer \in Msg /\ ~Brings(NoAnswer) /\ NoAnswer.cmd = "none"
<1>1. NoToken \notin Tokens /\ Ttl \in Nat /\ MaxUptime \in Nat /\ MaxCmds \in Nat
  BY DashboardAssumption
<1>2. NoState.ts = -1 /\ NoState.pending = FALSE /\ NoState \notin Seen
  BY DEF NoState, Seen
<1>3. NoAnswer \in Msg /\ ~Brings(NoAnswer) /\ NoAnswer.cmd = "none"
  BY <1>1 DEF NoAnswer, Msg, MaybeToken, Brings
<1> QED BY <1>1, <1>2, <1>3

\* The elements of a sequence.
LEMMA Elements ==
  ASSUME NEW S, NEW q \in Seq(S)
  PROVE  /\ Len(q) \in Nat /\ DOMAIN q = 1 .. Len(q) /\ \A i \in DOMAIN q : q[i] \in S
         /\ q # <<>> => /\ Len(q) >= 1 /\ 1 \in DOMAIN q /\ Len(q) \in DOMAIN q /\ Head(q) = q[1]
                        /\ Head(q) \in S
<1>1. Len(q) \in Nat /\ DOMAIN q = 1 .. Len(q) /\ \A i \in DOMAIN q : q[i] \in S
  BY LenProperties, ElementOfSeq
<1>2. ASSUME q # <<>> PROVE Len(q) >= 1 /\ Head(q) = q[1] /\ Head(q) \in S
  <2>1. Len(q) # 0
    BY <1>2, EmptySeq
  <2> QED BY <1>1, <1>2, <2>1, HeadTailProperties
<1> QED BY <1>1, <1>2

\* The rest of a queue.
LEMMA Rest ==
  ASSUME NEW S, NEW q \in Seq(S), q # <<>>
  PROVE  /\ Tail(q) \in Seq(S) /\ Len(Tail(q)) = Len(q) - 1
         /\ \A i \in DOMAIN Tail(q) : i \in Nat /\ i + 1 \in DOMAIN q /\ Tail(q)[i] = q[i + 1]
         /\ \A i \in DOMAIN q : i > 1 => i - 1 \in DOMAIN Tail(q) /\ Tail(q)[i - 1] = q[i]
         /\ Tail(q) = <<>> <=> Len(q) = 1
<1>1. /\ Tail(q) \in Seq(S) /\ Len(Tail(q)) = Len(q) - 1
      /\ \A i \in 1 .. Len(Tail(q)) : Tail(q)[i] = q[i + 1]
  BY HeadTailProperties
<1>2. /\ Len(q) \in Nat /\ Len(q) >= 1 /\ DOMAIN q = 1 .. Len(q)
      /\ DOMAIN Tail(q) = 1 .. Len(Tail(q)) /\ Len(Tail(q)) \in Nat
  BY <1>1, Elements
<1>3. Tail(q) = <<>> <=> Len(Tail(q)) = 0
  BY <1>1, EmptySeq
<1> QED BY <1>1, <1>2, <1>3

\* A queue that grows.
LEMMA Grown ==
  ASSUME NEW S, NEW q \in Seq(S), NEW r \in Seq(S)
  PROVE  /\ q \o r \in Seq(S) /\ Len(q \o r) = Len(q) + Len(r)
         /\ \A i \in DOMAIN q : i \in DOMAIN (q \o r) /\ (q \o r)[i] = q[i]
         /\ \A i \in DOMAIN r : Len(q) + i \in DOMAIN (q \o r) /\ (q \o r)[Len(q) + i] = r[i]
         /\ \A i \in DOMAIN (q \o r) : i \in DOMAIN q \/ (i - Len(q) \in DOMAIN r /\ i > Len(q))
         /\ q # <<>> => q \o r # <<>> /\ Head(q \o r) = Head(q)
         /\ r = <<>> => q \o r = q
<1>1. /\ q \o r \in Seq(S) /\ Len(q \o r) = Len(q) + Len(r)
      /\ \A i \in 1 .. Len(q) + Len(r) : (q \o r)[i] = IF i <= Len(q) THEN q[i] ELSE r[i - Len(q)]
  BY ConcatProperties
<1>2. /\ Len(q) \in Nat /\ Len(r) \in Nat /\ DOMAIN q = 1 .. Len(q) /\ DOMAIN r = 1 .. Len(r)
      /\ DOMAIN (q \o r) = 1 .. Len(q \o r)
  BY <1>1, Elements
<1>3. \A i \in DOMAIN q : i \in DOMAIN (q \o r) /\ (q \o r)[i] = q[i]
  BY <1>1, <1>2
<1>4. \A i \in DOMAIN r : Len(q) + i \in DOMAIN (q \o r) /\ (q \o r)[Len(q) + i] = r[i]
  BY <1>1, <1>2
<1>5. \A i \in DOMAIN (q \o r) : i \in DOMAIN q \/ (i - Len(q) \in DOMAIN r /\ i > Len(q))
  BY <1>1, <1>2
<1>6. ASSUME q # <<>> PROVE q \o r # <<>> /\ Head(q \o r) = Head(q)
  <2>1. 1 \in DOMAIN q /\ Head(q) = q[1]
    BY <1>6, Elements
  <2>2. q \o r # <<>>
    BY <1>1, <1>2, <2>1, EmptySeq
  <2> QED BY <1>1, <1>3, <2>1, <2>2, Elements
<1>7. r = <<>> => q \o r = q
  BY ConcatEmptySeq
<1> QED BY <1>1, <1>3, <1>4, <1>5, <1>6, <1>7

\* The end of a queue ends as the queue does.
LEMMA Suffix ==
  ASSUME NEW S, NEW q \in Seq(S), NEW n \in 0 .. Len(q)
  PROVE  LET s == SubSeq(q, n + 1, Len(q))
         IN s \in Seq(S) /\ (s # <<>> => q # <<>> /\ s[Len(s)] = q[Len(q)])
<1> DEFINE s == SubSeq(q, n + 1, Len(q))
<1>1. Len(q) \in Nat /\ DOMAIN q = 1 .. Len(q) /\ \A i \in 1 .. Len(q) : q[i] \in S
  BY Elements
<1>2. s \in Seq(S)
  BY <1>1, SubSeqProperties
<1>a. Len(s) = IF n + 1 <= Len(q) THEN Len(q) - (n + 1) + 1 ELSE 0
  BY <1>1, SubSeqProperties
<1>3. \A i \in 1 .. Len(q) - (n + 1) + 1 : s[i] = q[n + 1 + i - 1]
  BY <1>1, SubSeqProperties
<1>4. ASSUME s # <<>> PROVE q # <<>> /\ s[Len(s)] = q[Len(q)]
  <2>1. Len(s) # 0
    BY <1>2, <1>4, EmptySeq
  <2>2. n \in Nat /\ n <= Len(q) /\ Len(q) \in Nat
    BY <1>1
  <2>a. n + 1 <= Len(q)
    BY <1>a, <2>1
  <2> HIDE DEF s
  <2>3. Len(s) = Len(q) - n /\ n < Len(q)
    BY <1>a, <2>a, <2>2
  <2>4. Len(q) - n \in 1 .. Len(q) - (n + 1) + 1
    BY <1>1, <2>2, <2>3
  <2>5. s[Len(q) - n] = q[n + 1 + (Len(q) - n) - 1]
    BY <1>3, <2>4
  <2>6. n + 1 + (Len(q) - n) - 1 = Len(q) /\ Len(q) # 0
    BY <1>1, <2>2, <2>3
  <2>7. q # <<>>
    BY <2>6, EmptySeq
  <2> QED BY <2>3, <2>5, <2>6, <2>7
<1> QED BY <1>2, <1>4

\* One message and two.
LEMMA Singles ==
  ASSUME NEW S, NEW r \in S, NEW s \in S
  PROVE  /\ <<>> \in Seq(S) /\ <<r>> \in Seq(S) /\ <<r, s>> \in Seq(S)
         /\ DOMAIN <<r>> = {1} /\ <<r>>[1] = r /\ <<r>> # <<>> /\ Len(<<r>>) = 1
         /\ DOMAIN <<r, s>> = {1, 2} /\ <<r, s>>[1] = r /\ <<r, s>>[2] = s /\ <<r, s>> # <<>>
         /\ DOMAIN <<>> = {} /\ Head(<<r>>) = r
<1>1. <<>> \in Seq(S) /\ DOMAIN <<>> = {}
  BY EmptySeq
<1>2. /\ <<r>> \in Seq(S) /\ DOMAIN <<r>> = {1} /\ <<r>>[1] = r /\ <<r>> # <<>>
      /\ Len(<<r>>) = 1 /\ Head(<<r>>) = r
  OBVIOUS
<1>3. <<r, s>> \in Seq(S) /\ DOMAIN <<r, s>> = {1, 2} /\ <<r, s>>[1] = r /\ <<r, s>>[2] = s /\ <<r, s>> # <<>>
  OBVIOUS
<1> QED BY <1>1, <1>2, <1>3

-----------------------------------------------------------------------------
(* The page: what the steps do *)

\* send.
LEMMA Publishes ==
  ASSUME BusTypes, sent \in 0 .. MaxCmds, NEW cmd \in CmdName, NEW token \in MaybeToken,
         Publish(cmd, token)
  PROVE  /\ sent' \in 0 .. MaxCmds /\ cmds' \in Seq(Cmd) /\ unacked' \in Seq(Cmd)
         /\ up => /\ cmds' # <<>> /\ cmds'[Len(cmds')].cmd = cmd
                  /\ unacked' # <<>> /\ unacked'[Len(unacked')].cmd = cmd
         /\ ~up => UNCHANGED <<sent, cmds, unacked>>
<1>1. CASE ~up
  BY <1>1 DEF Publish, BusTypes
<1>2. CASE up
  <2> DEFINE c == [cmd |-> cmd, token |-> token, id |-> sent']
  <2>1. sent' = sent + 1 /\ sent < MaxCmds /\ cmds' = Append(cmds, c) /\ unacked' = Append(unacked, c)
    BY <1>2 DEF Publish
  <2>2. sent' \in 0 .. MaxCmds /\ sent' \in Nat
    BY <2>1, PageConstants
  <2>3. c \in Cmd /\ c.cmd = cmd
    BY <2>2 DEF Cmd
  <2> HIDE DEF c
  <2>4. \A q \in Seq(Cmd) : LET r == Append(q, c)
                            IN r \in Seq(Cmd) /\ r # <<>> /\ r[Len(r)] = c
    BY <2>3, AppendProperties, EmptySeq
  <2> QED BY <1>2, <2>1, <2>2, <2>3, <2>4 DEF BusTypes
<1> QED BY <1>1, <1>2

\* What the ESP has published about command c: the reply r comes first, and a
\* state message may follow.
Replied(r, msgs) ==
  /\ msgs \in Seq(Msg) /\ inbox' = inbox \o msgs /\ (~up => msgs = <<>>)
  /\ \A i \in DOMAIN msgs : (i = 1 /\ msgs[i] = r) \/ (i > 1 /\ msgs[i] = StateMessage)
  /\ ~missed' => ~missed /\ msgs # <<>> /\ msgs[1] = r

\* A state message.
LEMMA StateIs ==
  ASSUME NEW p \in BOOLEAN, NEW ts \in 0 .. MaxUptime + Ttl
  PROVE  /\ Stated(p, ts) \in Msg /\ Stated(p, ts).cmd = "state" /\ Stated(p, ts).exp = ts
         /\ Stated(p, ts).ok = p /\ ~Brings(Stated(p, ts))
BY PageConstants DEF Stated, Msg, MaybeToken, Brings

\* The time a reply names.
ReplyExp(c) == IF c.cmd = "wake_request" THEN uptime + Ttl ELSE 0

\* The state message of the ESP.
LEMMA StateNow ==
  ASSUME uptime \in 0 .. MaxUptime, pending' \in BOOLEAN
  PROVE  /\ StateMessage \in Msg /\ StateMessage.cmd = "state" /\ StateMessage.exp = uptime
         /\ ~Brings(StateMessage)
<1>1. uptime \in 0 .. MaxUptime + Ttl
  BY PageConstants
<1> QED BY <1>1, StateIs DEF StateMessage

\* A reply, and what may follow it.
LEMMA Answering ==
  ASSUME BusTypes, uptime \in 0 .. MaxUptime, pending' \in BOOLEAN, online \in BOOLEAN, faults \in Nat,
         up \in BOOLEAN, kept \in Seen \cup {NoState},
         NEW c \in Cmd, NEW ok \in BOOLEAN, NEW token \in MaybeToken, NEW state \in BOOLEAN,
         Answer(c, ok, token, state)
  PROVE  LET r == [cmd |-> ReplyName(c.cmd), id |-> c.id, ok |-> ok, token |-> token, exp |-> ReplyExp(c)]
         IN /\ r \in Msg /\ \E msgs \in Seq(Msg) : Replied(r, msgs)
            /\ kept' = kept \/ kept' = [ts |-> uptime, pending |-> pending']
            /\ kept' \in Seen \cup {NoState} /\ faults' \in Nat /\ missed' \in BOOLEAN
            /\ online' \in BOOLEAN /\ (online' => online)
<1> DEFINE r == [cmd |-> ReplyName(c.cmd), id |-> c.id, ok |-> ok, token |-> token, exp |-> ReplyExp(c)]
<1>1. r \in Msg
  <2>1. ReplyExp(c) \in 0 .. MaxUptime + Ttl
    BY PageConstants DEF ReplyExp
  <2>2. ReplyName(c.cmd) \in CmdName /\ c.id \in Nat
    BY DEF ReplyName, Cmd, CmdName
  <2> QED BY <2>1, <2>2 DEF Msg
<1>2. inbox \in Seq(Msg) /\ missed \in BOOLEAN
  BY DEF BusTypes
<1>3. StateMessage \in Msg
  BY StateNow
<1>4. inbox = inbox \o <<>>
  BY <1>2, Grown, EmptySeq
<1>5. \/ /\ UNCHANGED <<online, faults>>
         /\ Out(IF state THEN <<r, StateMessage>> ELSE <<r>>)
         /\ kept' = IF state THEN [ts |-> uptime, pending |-> pending'] ELSE kept
         /\ missed' = (missed \/ ~up)
      \/ /\ Fault /\ online' = FALSE
         /\ \/ Out(<<r>>) /\ missed' = (missed \/ ~up)
            \/ inbox' = inbox /\ missed' = TRUE
         /\ UNCHANGED kept
  BY DEF Answer, ReplyExp
<1> HIDE DEF r
<1>6. /\ kept' = kept \/ kept' = [ts |-> uptime, pending |-> pending']
      /\ kept' \in Seen \cup {NoState} /\ faults' \in Nat
  <2>1. kept' = kept \/ kept' = [ts |-> uptime, pending |-> pending']
    BY <1>5
  <2>2. [ts |-> uptime, pending |-> pending'] \in Seen
    <3>1. uptime \in 0 .. MaxUptime + Ttl
      BY PageConstants
    <3> QED BY <3>1 DEF Seen
  <2>3. faults' \in Nat
    BY <1>5 DEF Fault
  <2> QED BY <2>1, <2>2, <2>3
<1>7. missed' \in BOOLEAN /\ online' \in BOOLEAN /\ (online' => online)
  <2>1. missed' = (missed \/ ~up) \/ missed' = TRUE
    BY <1>5, Zenon
  <2>2. missed' \in BOOLEAN
    BY <1>2, <2>1
  <2>3. online' = online \/ online' = FALSE
    BY <1>5, Zenon
  <2>4. online' \in BOOLEAN /\ (online' => online)
    <3>1. CASE online' = online
      BY <3>1
    <3>2. CASE online' = FALSE
      BY <3>2
    <3> QED BY <2>3, <3>1, <3>2
  <2> QED BY <2>2, <2>4
<1>8. ASSUME NEW msgs, Out(msgs), msgs = <<r>> \/ msgs = <<r, StateMessage>>, missed' = (missed \/ ~up)
      PROVE  \E s \in Seq(Msg) : Replied(r, s)
  <2>1. msgs \in Seq(Msg) /\ msgs # <<>> /\ msgs[1] = r
        /\ \A i \in DOMAIN msgs : (i = 1 /\ msgs[i] = r) \/ (i > 1 /\ msgs[i] = StateMessage)
    <3>1. CASE msgs = <<r>>
      BY <1>1, <3>1, Singles
    <3>2. CASE msgs = <<r, StateMessage>>
      BY <1>1, <1>3, <3>2, Singles
    <3> QED BY <1>8, <3>1, <3>2
  <2>2. CASE up
    <3>1. inbox' = inbox \o msgs
      BY <1>8, <2>2 DEF Out
    <3>2. ~missed' => ~missed
      BY <1>8
    <3>3. Replied(r, msgs)
      BY <2>1, <2>2, <3>1, <3>2 DEF Replied
    <3> QED BY <2>1, <3>3
  <2>3. CASE ~up
    <3>1. inbox' = inbox \o <<>> /\ missed'
      BY <1>4, <1>8, <2>3 DEF Out
    <3>2. Replied(r, <<>>)
      BY <3>1, EmptySeq DEF Replied
    <3> QED BY <3>2, EmptySeq
  <2> QED BY <2>2, <2>3
<1>9. \E msgs \in Seq(Msg) : Replied(r, msgs)
  <2>1. CASE inbox' = inbox /\ missed' = TRUE
    <3>1. Replied(r, <<>>)
      BY <1>4, <2>1, EmptySeq DEF Replied
    <3> QED BY <3>1, EmptySeq
  <2>2. CASE Out(<<r>>) /\ missed' = (missed \/ ~up)
    BY <2>2, <1>8
  <2>3. CASE Out(<<r, StateMessage>>) /\ missed' = (missed \/ ~up)
    BY <2>3, <1>8
  <2> QED BY <1>5, <2>1, <2>2, <2>3
<1> QED BY <1>1, <1>6, <1>7, <1>9 DEF r

\* What becomes of the confirmation when the ESP replies r: a new token is open
\* and in the reply; or none is new, and a success was accepted.
Confirms(r) ==
  \/ /\ Brings(r) /\ r.token \in Tokens \ Held /\ offer' = r.token /\ due' = r.exp
     /\ accepted' = accepted
  \/ /\ ~Brings(r) /\ due' = due /\ offer' \in {offer, NoToken} /\ accepted \subseteq accepted'
     /\ (r.cmd = "wake_confirm" /\ r.ok => r.token \in accepted')

\* mqtt_callback.
LEMMA Receives ==
  ASSUME PageTypes, BusTypes, EspReceives
  PROVE  /\ \E r \in Msg, msgs \in Seq(Msg) :
              /\ Replied(r, msgs) /\ Confirms(r)
              /\ r.cmd \in CmdName
         /\ kept' = kept \/ kept' = [ts |-> uptime, pending |-> pending']
         /\ kept' \in Seen \cup {NoState} /\ faults' \in Nat /\ missed' \in BOOLEAN
         /\ online /\ online' \in BOOLEAN /\ pending' \in BOOLEAN
         /\ offer' \in MaybeToken /\ expired' \in BOOLEAN /\ accepted' \subseteq Tokens /\ due' \in Nat
         /\ Head(cmds).cmd = "wake_cancel" => offer' = NoToken /\ ~pending'
<1> DEFINE c == Head(cmds)
           R(ok, token) == [ cmd |-> ReplyName(c.cmd), id |-> c.id, ok |-> ok, token |-> token,
                             exp |-> ReplyExp(c) ]
           Rest1 == /\ kept' = kept \/ kept' = [ts |-> uptime, pending |-> pending']
                    /\ kept' \in Seen \cup {NoState} /\ faults' \in Nat /\ missed' \in BOOLEAN
                    /\ online' \in BOOLEAN
<1>1. /\ online /\ cmds # <<>> /\ c \in Cmd /\ c.cmd \in CmdName /\ c.token \in MaybeToken
      /\ NoToken \in MaybeToken
  <2>1. online /\ cmds # <<>> /\ cmds \in Seq(Cmd)
    BY DEF EspReceives, BusTypes
  <2>2. c \in Cmd
    BY <2>1, Elements
  <2> HIDE DEF c
  <2> QED BY <2>1, <2>2 DEF Cmd, MaybeToken
<1>2. /\ uptime \in 0 .. MaxUptime /\ online \in BOOLEAN /\ faults \in Nat /\ up \in BOOLEAN
      /\ kept \in Seen \cup {NoState} /\ pending \in BOOLEAN /\ offer \in MaybeToken
      /\ expired \in BOOLEAN /\ accepted \subseteq Tokens /\ due \in Nat
  BY DEF PageTypes, DashboardTypeOK
<1> HIDE DEF c
<1>3. ASSUME NEW ok \in BOOLEAN, NEW token \in MaybeToken, NEW state \in BOOLEAN, pending' \in BOOLEAN,
             Answer(c, ok, token, state)
      PROVE  /\ R(ok, token) \in Msg /\ \E msgs \in Seq(Msg) : Replied(R(ok, token), msgs)
             /\ Rest1
  BY <1>1, <1>2, <1>3, Answering
<1>4. ASSUME NEW ok \in BOOLEAN, NEW token \in MaybeToken
      PROVE  /\ R(ok, token).cmd = ReplyName(c.cmd) /\ R(ok, token).token = token /\ R(ok, token).ok = ok
             /\ R(ok, token).cmd \in CmdName
             /\ c.cmd # "wake_force" => R(ok, token).cmd = c.cmd
             /\ c.cmd = "wake_force" => R(ok, token).cmd = "wake_request"
             /\ c.cmd = "wake_request" => R(ok, token).exp = uptime + Ttl
  BY <1>1 DEF ReplyName, ReplyExp, CmdName
<1> HIDE DEF R, Rest1
<1>5. ASSUME NEW ok \in BOOLEAN, NEW token \in MaybeToken, NEW state \in BOOLEAN, pending' \in BOOLEAN,
             Answer(c, ok, token, state), Confirms(R(ok, token)),
             offer' \in MaybeToken, expired' \in BOOLEAN, accepted' \subseteq Tokens, due' \in Nat,
             c.cmd = "wake_cancel" => offer' = NoToken /\ ~pending'
      PROVE  /\ \E r \in Msg, msgs \in Seq(Msg) :
                  /\ Replied(r, msgs) /\ Confirms(r)
                  /\ r.cmd \in CmdName
             /\ Rest1 /\ online /\ pending' \in BOOLEAN
             /\ offer' \in MaybeToken /\ expired' \in BOOLEAN /\ accepted' \subseteq Tokens /\ due' \in Nat
             /\ c.cmd = "wake_cancel" => offer' = NoToken /\ ~pending'
  BY <1>1, <1>3, <1>4, <1>5
<1>6. CASE /\ c.cmd = "wake_request" /\ ~pending /\ UNCHANGED pending /\ due' = uptime + Ttl
           /\ \E k \in Tokens \ (accepted \cup Held) : Offer(k) /\ Answer(c, TRUE, k, TRUE)
  <2>1. PICK k \in Tokens \ (accepted \cup Held) : Offer(k) /\ Answer(c, TRUE, k, TRUE)
    BY <1>6
  <2>2. offer' = k /\ expired' = FALSE /\ accepted' = accepted /\ k \in MaybeToken /\ uptime + Ttl \in Nat
    BY <1>2, <2>1, PageConstants DEF Offer, MaybeToken
  <2>3. Brings(R(TRUE, k))
    <3>1. k # NoToken
      BY <2>1, PageConstants
    <3>2. R(TRUE, k).cmd = "wake_request" /\ R(TRUE, k).ok = TRUE /\ R(TRUE, k).token = k
      BY <1>4, <1>6, <2>2
    <3> QED BY <3>1, <3>2 DEF Brings
  <2>4. Confirms(R(TRUE, k))
    BY <1>4, <1>6, <2>1, <2>2, <2>3 DEF Confirms
  <2> QED BY <1>2, <1>5, <1>6, <2>1, <2>2, <2>4 DEF c, Rest1
<1>7. CASE /\ c.cmd = "wake_request" /\ UNCHANGED <<confirmationVars, pending, due>>
           /\ Answer(c, FALSE, NoToken, FALSE)
  <2>1. offer' = offer /\ expired' = expired /\ accepted' = accepted /\ due' = due /\ pending' = pending
    BY <1>7 DEF confirmationVars
  <2>2. Confirms(R(FALSE, NoToken))
    BY <1>1, <1>4, <1>7, <2>1 DEF Confirms, Brings
  <2> QED BY <1>1, <1>2, <1>5, <1>7, <2>1, <2>2 DEF c, Rest1
<1>8. CASE /\ c.cmd = "wake_confirm" /\ UNCHANGED <<pending, due>>
           /\ Withdraw \/ UNCHANGED confirmationVars
           /\ Answer(c, FALSE, c.token, FALSE) \/ Answer(c, FALSE, c.token, TRUE)
  <2>1. /\ offer' \in {offer, NoToken} /\ expired' \in BOOLEAN /\ accepted' = accepted
        /\ due' = due /\ pending' = pending
    BY <1>2, <1>8 DEF confirmationVars, Withdraw
  <2>2. Confirms(R(FALSE, c.token))
    BY <1>1, <1>4, <1>8, <2>1 DEF Confirms, Brings
  <2> QED BY <1>1, <1>2, <1>5, <1>8, <2>1, <2>2 DEF c, Rest1
<1>9. CASE /\ c.cmd = "wake_confirm" /\ UNCHANGED due /\ c.token = offer
           /\ Accept /\ pending' = TRUE /\ Answer(c, TRUE, c.token, TRUE)
  <2>1. /\ offer' = NoToken /\ expired' = FALSE /\ accepted' = accepted \cup {c.token} /\ c.token \in Tokens
        /\ due' = due
    BY <1>1, <1>9 DEF Accept, MaybeToken
  <2>2. Confirms(R(TRUE, c.token))
    BY <1>1, <1>4, <1>9, <2>1 DEF Confirms, Brings
  <2> QED BY <1>1, <1>2, <1>5, <1>9, <2>1, <2>2 DEF c, Rest1
<1>10. CASE /\ c.cmd = "wake_cancel" /\ Withdraw /\ pending' = FALSE /\ UNCHANGED due
            /\ Answer(c, TRUE, NoToken, c.cmd # "reboot_request")
  <2>1. offer' = NoToken /\ expired' = FALSE /\ accepted' = accepted /\ due' = due
    BY <1>10 DEF Withdraw
  <2>2. Confirms(R(TRUE, NoToken))
    BY <1>1, <1>4, <1>10, <2>1 DEF Confirms, Brings
  <2>3. (c.cmd # "reboot_request") \in BOOLEAN
    OBVIOUS
  <2> QED BY <1>1, <1>2, <1>5, <1>10, <2>1, <2>2, <2>3 DEF c, Rest1
<1>11. CASE /\ c.cmd \in {"ping", "reboot_request"} /\ UNCHANGED <<confirmationVars, pending, due>>
            /\ Answer(c, TRUE, NoToken, c.cmd # "reboot_request")
  <2>1. offer' = offer /\ expired' = expired /\ accepted' = accepted /\ due' = due /\ pending' = pending
    BY <1>11 DEF confirmationVars
  <2>2. Confirms(R(TRUE, NoToken))
    BY <1>1, <1>4, <1>11, <2>1 DEF Confirms, Brings
  <2>3. (c.cmd # "reboot_request") \in BOOLEAN
    OBVIOUS
  <2> QED BY <1>1, <1>2, <1>5, <1>11, <2>1, <2>2, <2>3 DEF c, Rest1
<1>f. CASE /\ c.cmd = "wake_force" /\ Withdraw /\ pending' = TRUE /\ UNCHANGED due
           /\ Answer(c, TRUE, NoToken, TRUE)
  <2>1. offer' = NoToken /\ expired' = FALSE /\ accepted' = accepted /\ due' = due
    BY <1>f DEF Withdraw
  <2>2. Confirms(R(TRUE, NoToken))
    BY <1>1, <1>4, <1>f, <2>1 DEF Confirms, Brings
  <2> QED BY <1>1, <1>2, <1>5, <1>f, <2>1, <2>2 DEF c, Rest1
<1>g. CASE /\ c.cmd = "wake_force" /\ UNCHANGED <<confirmationVars, pending, due>>
           /\ Answer(c, FALSE, NoToken, TRUE)
  <2>1. offer' = offer /\ expired' = expired /\ accepted' = accepted /\ due' = due /\ pending' = pending
    BY <1>g DEF confirmationVars
  <2>2. Confirms(R(FALSE, NoToken))
    BY <1>1, <1>4, <1>g, <2>1 DEF Confirms, Brings
  <2> QED BY <1>1, <1>2, <1>5, <1>g, <2>1, <2>2 DEF c, Rest1
<1>12. \/ c.cmd = "wake_request" /\ OnRequest(c)
       \/ c.cmd = "wake_force" /\ OnForce(c) /\ UNCHANGED due
       \/ c.cmd = "wake_confirm" /\ OnConfirm(c) /\ UNCHANGED due
       \/ OnOther(c) /\ UNCHANGED due
  BY DEF EspReceives, c
<1>13. CASE c.cmd = "wake_request" /\ OnRequest(c)
  BY <1>6, <1>7, <1>13 DEF OnRequest
<1>14. CASE c.cmd = "wake_confirm" /\ OnConfirm(c) /\ UNCHANGED due
  BY <1>8, <1>9, <1>14 DEF OnConfirm
<1>15. CASE OnOther(c) /\ UNCHANGED due
  BY <1>10, <1>11, <1>15 DEF OnOther
<1>16. CASE c.cmd = "wake_force" /\ OnForce(c) /\ UNCHANGED due
  BY <1>f, <1>g, <1>16 DEF OnForce
<1> QED BY <1>12, <1>13, <1>14, <1>15, <1>16

-----------------------------------------------------------------------------
(* The page: types *)

\* A step that changes a few of the page's variables and none of the ESP's.
LEMMA PageKept ==
  ASSUME PageTypes, UNCHANGED <<espVars, up, shown>>, wakeOpen' \in BOOLEAN,
         wakePhase' \in {"initial", "waiting", "confirm", "success"}, sent' \in 0 .. MaxCmds,
         \/ UNCHANGED <<wakeToken, countdown>>
         \/ wakeToken' = NoToken /\ countdown' \in -1 .. MaxUptime + Ttl
         \/ wakeToken' \in Tokens /\ countdown' \in 0 .. MaxUptime + Ttl
  PROVE  PageTypes'
<1>1. /\ wakeToken' \in Tokens \cup {NoToken} /\ countdown' \in -1 .. MaxUptime + Ttl
      /\ wakeToken' # NoToken => countdown' >= 0
  <2>1. CASE UNCHANGED <<wakeToken, countdown>>
    BY <2>1 DEF PageTypes, DashboardTypeOK
  <2>2. CASE wakeToken' = NoToken /\ countdown' \in -1 .. MaxUptime + Ttl
    BY <2>2, PageConstants
  <2>3. CASE wakeToken' \in Tokens /\ countdown' \in 0 .. MaxUptime + Ttl
    BY <2>3, PageConstants
  <2> QED BY <2>1, <2>2, <2>3
<1>2. /\ online' = online /\ pending' = pending /\ uptime' = uptime /\ due' = due /\ restarted' = restarted
      /\ kept' = kept /\ faults' = faults /\ offer' = offer /\ expired' = expired /\ accepted' = accepted
      /\ up' = up /\ shown' = shown
  BY DEF espVars, timeVars, confirmationVars
<1> QED BY <1>1, <1>2 DEF PageTypes, DashboardTypeOK

\* The same when the page is left alone.
LEMMA EspKept ==
  ASSUME PageTypes, UNCHANGED <<pageVars, sent>>, up' \in BOOLEAN, shown' \in Seen \cup {NoState},
         online' \in BOOLEAN, pending' \in BOOLEAN, uptime' \in 0 .. MaxUptime, due' \in Nat,
         restarted' \in BOOLEAN, kept' \in Seen \cup {NoState}, faults' \in Nat,
         offer' \in MaybeToken, expired' \in BOOLEAN, accepted' \subseteq Tokens
  PROVE  PageTypes'
<1>1. wakeOpen' = wakeOpen /\ wakePhase' = wakePhase /\ wakeToken' = wakeToken /\ countdown' = countdown
      /\ sent' = sent
  BY DEF pageVars
<1> QED BY <1>1 DEF PageTypes, DashboardTypeOK

\* The types of the page's and the ESP's variables.
LEMMA PageTypesStep ==
  ASSUME PageTypes, BusTypes, [DashboardNext]_dashboardVars
  PROVE  PageTypes'
<1>0. /\ online \in BOOLEAN /\ pending \in BOOLEAN /\ uptime \in 0 .. MaxUptime /\ up \in BOOLEAN
      /\ wakeOpen \in BOOLEAN /\ wakePhase \in {"initial", "waiting", "confirm", "success"}
      /\ wakeToken \in MaybeToken /\ sent \in 0 .. MaxCmds
      /\ offer \in MaybeToken /\ expired \in BOOLEAN /\ accepted \subseteq Tokens
      /\ due \in Nat /\ restarted \in BOOLEAN /\ faults \in Nat
      /\ kept \in Seen \cup {NoState} /\ shown \in Seen \cup {NoState}
  BY DEF PageTypes, DashboardTypeOK, MaybeToken
<1>a. NoToken \in MaybeToken /\ -1 \in -1 .. MaxUptime + Ttl
  BY PageConstants DEF MaybeToken
<1>b. [ts |-> uptime, pending |-> pending'] \in Seen \/ pending' \notin BOOLEAN
  <2>1. uptime \in 0 .. MaxUptime + Ttl
    BY <1>0, PageConstants
  <2> QED BY <2>1 DEF Seen
<1>1. CASE UNCHANGED dashboardVars
  <2>1. UNCHANGED <<espVars, up, shown, pageVars, sent>>
    BY <1>1, Zenon DEF dashboardVars, feedVars, busVars
  <2> QED BY <1>0, <2>1, PageKept DEF pageVars
<1>2. CASE StartWake
  BY <1>0, <1>2, PageKept DEF StartWake, feedVars, busVars
<1>3. CASE RequestWake
  BY <1>0, <1>a, <1>3, Publishes, PageKept DEF RequestWake, feedVars, CmdName
<1>4. CASE ConfirmWake
  BY <1>0, <1>4, Publishes, PageKept DEF ConfirmWake, feedVars, CmdName
<1>5. CASE CancelWake
  <2>1. sent' \in 0 .. MaxCmds
    BY <1>0, <1>a, <1>5, Publishes DEF CancelWake, busVars, CmdName
  <2> QED BY <1>0, <1>a, <1>5, <2>1, PageKept DEF CancelWake, ResetWake, feedVars
<1>6. CASE HandlePing \/ ConfirmReboot
  <2>1. sent' \in 0 .. MaxCmds
    BY <1>0, <1>a, <1>6, Publishes DEF HandlePing, ConfirmReboot, CmdName
  <2> QED BY <1>0, <1>6, <2>1, PageKept DEF HandlePing, ConfirmReboot, feedVars, pageVars
<1>7. CASE Navigate \/ AutoClose
  BY <1>0, <1>a, <1>7, PageKept DEF Navigate, AutoClose, ResetWake, feedVars, busVars
<1>8. CASE Message
  <2>1. inbox \in Seq(Msg) /\ inbox # <<>>
    BY <1>8 DEF Message, BusTypes
  <2>2. Head(inbox) \in Msg
    BY <2>1, Elements
  <2>3. \A m \in Msg : [ts |-> m.exp, pending |-> m.ok] \in Seen
    BY DEF Msg, Seen
  <2>4. shown' = shown \/ shown' = [ts |-> Head(inbox).exp, pending |-> Head(inbox).ok]
    BY <1>8 DEF Message
  <2>5. shown' \in Seen \cup {NoState}
    BY <1>0, <2>2, <2>3, <2>4
  <2>6. UNCHANGED <<espVars, up, pageVars, sent>>
    BY <1>8 DEF Message
  <2> QED BY <1>0, <2>5, <2>6, EspKept DEF espVars, timeVars, confirmationVars
<1>9. CASE HandleLatestReply
  <2>1. UNCHANGED <<espVars, up, shown, sent, wakeOpen>>
    BY <1>9 DEF HandleLatestReply, busVars
  <2>2. last \in Msg
    BY DEF BusTypes
  <2>3. CASE last.cmd = "wake_request"
    <3>1. OnWakeRequest(last)
      BY <1>9, <2>3 DEF HandleLatestReply
    <3>2. CASE last.ok
      <4>1. last.token \in Tokens \/ last.token = NoToken
        BY <2>2 DEF Msg, MaybeToken
      <4>2. Remaining(last) \in 0 .. MaxUptime + Ttl /\ Remaining(last) \in -1 .. MaxUptime + Ttl
        BY <1>0, <2>2, PageConstants DEF Remaining, Msg, Seen
      <4>3. /\ wakePhase' = "confirm" /\ wakeToken' = last.token /\ countdown' = Remaining(last)
        BY <3>1, <3>2 DEF OnWakeRequest
      <4> QED BY <1>0, <2>1, <4>1, <4>2, <4>3, PageKept
    <3>3. CASE ~last.ok
      BY <1>0, <2>1, <3>1, <3>3, PageKept DEF OnWakeRequest
    <3> QED BY <3>2, <3>3
  <2>4. CASE last.cmd # "wake_request"
    <3>1. wakePhase' \in {"initial", "waiting", "confirm", "success"} /\ UNCHANGED <<wakeToken, countdown>>
      BY <1>0, <1>9, <2>4 DEF HandleLatestReply, OnWakeConfirm
    <3> QED BY <1>0, <2>1, <3>1, PageKept
  <2> QED BY <2>3, <2>4
<1>i. CASE IgnoreReply
  <2>1. UNCHANGED <<espVars, up, shown, pageVars, sent>>
    BY <1>i, Zenon DEF IgnoreReply, busVars
  <2> QED BY <1>0, <2>1, PageKept DEF pageVars
<1>10. CASE ExpireWake
  BY <1>0, <1>a, <1>10, PageKept DEF ExpireWake, feedVars, busVars
<1>f. Fault => faults' \in Nat
  BY <1>0 DEF Fault
<1>11. CASE PageDrops
  <2>1. /\ up' = FALSE /\ Fault
        /\ UNCHANGED <<confirmationVars, online, pending, timeVars, kept, pageVars, shown, sent>>
    BY <1>11, Zenon DEF PageDrops, feedVars, busVars
  <2> QED BY <1>0, <1>f, <2>1, EspKept DEF confirmationVars, timeVars
<1>12. CASE PageConnects
  BY <1>0, <1>12, EspKept DEF PageConnects, espVars, confirmationVars, timeVars, feedVars
<1>13. CASE BrokerDrops
  BY <1>0, <1>13, EspKept DEF BrokerDrops, espVars, confirmationVars, timeVars, feedVars
<1>14. ASSUME NEW cmd, OtherSends(cmd) PROVE PageTypes'
  <2>1. sent' \in 0 .. MaxCmds
    BY <1>0, <1>14, PageConstants DEF OtherSends
  <2> QED BY <1>0, <1>14, <2>1, PageKept DEF OtherSends, pageVars, feedVars
<1>15. CASE EspReceives
  <2>1. UNCHANGED <<uptime, restarted, up, pageVars, shown, sent>>
    BY <1>15 DEF EspReceives, feedVars
  <2>2. /\ kept' \in Seen \cup {NoState} /\ faults' \in Nat /\ online' \in BOOLEAN /\ pending' \in BOOLEAN
        /\ offer' \in MaybeToken /\ expired' \in BOOLEAN /\ accepted' \subseteq Tokens /\ due' \in Nat
    BY <1>15, Receives
  <2> QED BY <1>0, <2>1, <2>2, EspKept
<1>16. CASE EspPublishes
  <2>1. pending' \in BOOLEAN /\ online' = TRUE /\ kept' = [ts |-> uptime, pending |-> pending']
    BY <1>0, <1>16 DEF EspPublishes, StateOut
  <2>2. kept' \in Seen
    BY <1>b, <2>1
  <2>3. UNCHANGED <<confirmationVars, timeVars, faults, up, pageVars, shown, sent>>
    BY <1>16, Zenon DEF EspPublishes, feedVars, busVars
  <2> QED BY <1>0, <2>1, <2>2, <2>3, EspKept DEF confirmationVars, timeVars
<1>17. CASE EspExpires
  BY <1>0, <1>a, <1>17, EspKept DEF EspExpires, Expire, Withdraw, timeVars, feedVars, busVars
<1>18. CASE EspDrops
  <2>1. /\ online' = FALSE /\ Fault
        /\ UNCHANGED <<confirmationVars, pending, timeVars, kept, up, pageVars, shown, sent>>
    BY <1>18, Zenon DEF EspDrops, feedVars, busVars
  <2> QED BY <1>0, <1>f, <2>1, EspKept DEF confirmationVars, timeVars
<1>19. CASE EspRestarts
  <2>1. 0 \in 0 .. MaxUptime
    BY PageConstants
  <2>2. /\ online' = FALSE /\ pending' = FALSE /\ Fault /\ Withdraw
        /\ uptime' = 0 /\ due' = 0 /\ restarted' = TRUE
        /\ UNCHANGED <<kept, up, pageVars, shown, sent>>
    BY <1>19, Zenon DEF EspRestarts, feedVars, busVars
  <2> QED BY <1>0, <1>a, <1>f, <2>1, <2>2, EspKept DEF Withdraw
<1>20. CASE Second
  <2>1. /\ uptime' \in 0 .. MaxUptime /\ countdown' \in -1 .. MaxUptime + Ttl
        /\ countdown' >= 0 <=> countdown >= 0
    BY <1>20, PageConstants DEF Second, PageTypes, DashboardTypeOK
  <2>2. /\ UNCHANGED <<confirmationVars, online, pending, due, restarted, kept, faults, up, wakeOpen>>
        /\ UNCHANGED <<wakePhase, wakeToken, shown, sent>>
    BY <1>20, Zenon DEF Second, feedVars, busVars
  <2> QED BY <2>1, <2>2 DEF PageTypes, DashboardTypeOK, confirmationVars
<1> QED
  BY <1>1, <1>2, <1>3, <1>4, <1>5, <1>6, <1>7, <1>8, <1>9, <1>10, <1>11, <1>12, <1>13, <1>14, <1>15,
     <1>16, <1>17, <1>18, <1>19, <1>20, <1>i DEF DashboardNext, User, Page, Esp

-----------------------------------------------------------------------------
(* The page: what is on its way *)

\* The user's commands.
Sending == RequestWake \/ ConfirmWake \/ CancelWake \/ HandlePing \/ ConfirmReboot

\* The steps of the page alone.
Quiet == StartWake \/ Navigate \/ AutoClose \/ ExpireWake

\* The steps of DashboardNext, the quiet ones together.
LEMMA PageCases ==
  ASSUME DashboardNext
  PROVE  \/ Quiet \/ Sending \/ Message \/ IgnoreReply \/ HandleLatestReply \/ PageDrops \/ PageConnects
         \/ BrokerDrops
         \/ (\E cmd \in OtherCmd : OtherSends(cmd))
         \/ EspReceives \/ EspPublishes \/ EspExpires \/ EspDrops \/ EspRestarts \/ Second
BY Zenon DEF DashboardNext, User, Page, Esp, Quiet, Sending, OtherCmd

\* A reply is ignored.
LEMMA Ignores ==
  ASSUME BusTypes, IgnoreReply
  PROVE  /\ UNCHANGED <<espVars, up, pageVars, shown, busVars, inbox, dropped>> /\ last' = NoAnswer
         /\ missed' \in BOOLEAN /\ (~missed' => ~missed /\ ~Brings(last))
<1>1. /\ UNCHANGED <<espVars, up, pageVars, shown, busVars, inbox, dropped>> /\ last' = NoAnswer
      /\ missed' = (missed \/ last.cmd = "wake_request")
  BY Zenon DEF IgnoreReply
<1>2. missed' \in BOOLEAN
  BY <1>1 DEF BusTypes
<1>3. ~missed' => ~missed /\ last.cmd # "wake_request"
  BY <1>1 DEF BusTypes
<1> QED BY <1>1, <1>2, <1>3 DEF Brings

\* The page alone.
LEMMA Quietly ==
  ASSUME Quiet
  PROVE  /\ UNCHANGED <<espVars, up, feedVars, busVars, inbox, missed, dropped>>
         /\ UNCHANGED <<wakeToken, countdown>> \/ wakeToken' = NoToken
BY Zenon DEF Quiet, StartWake, Navigate, AutoClose, ExpireWake, ResetWake

\* The user's commands: what they leave alone, and what is sent.
LEMMA Sends ==
  ASSUME PageTypes, BusTypes, Sending
  PROVE  /\ UNCHANGED <<espVars, up, feedVars, inbox, missed, dropped>>
         /\ UNCHANGED <<wakeToken, countdown>> \/ wakeToken' = NoToken
         /\ cmds' \in Seq(Cmd) /\ unacked' \in Seq(Cmd) /\ cancelled' \in BOOLEAN
         /\ \/ cancelled' = FALSE
            \/ cancelled' = TRUE /\ Cancels(cmds)' /\ Cancels(unacked)'
            \/ UNCHANGED busVars
<1>1. sent \in 0 .. MaxCmds /\ wakeToken \in MaybeToken /\ NoToken \in MaybeToken /\ up \in BOOLEAN
  BY DEF PageTypes, DashboardTypeOK, MaybeToken
<1>2. cmds \in Seq(Cmd) /\ unacked \in Seq(Cmd) /\ cancelled \in BOOLEAN
  BY DEF BusTypes
<1>3. CASE RequestWake \/ ConfirmWake \/ HandlePing \/ ConfirmReboot
  <2>1. /\ UNCHANGED <<espVars, up, feedVars, inbox, missed, dropped>>
        /\ UNCHANGED <<wakeToken, countdown>> /\ cancelled' = FALSE
        /\ \E cmd \in CmdName, token \in MaybeToken : Publish(cmd, token)
    BY <1>1, <1>3 DEF RequestWake, ConfirmWake, HandlePing, ConfirmReboot, CmdName, pageVars
  <2>2. cmds' \in Seq(Cmd) /\ unacked' \in Seq(Cmd)
    BY <1>1, <2>1, Publishes
  <2> QED BY <2>1, <2>2
<1>4. CASE CancelWake
  <2>1. /\ UNCHANGED <<espVars, up, feedVars, inbox, missed, dropped>> /\ wakeToken' = NoToken
        /\ \/ Publish("wake_cancel", NoToken) /\ cancelled' = up
           \/ UNCHANGED busVars
    BY <1>4, Zenon DEF CancelWake, ResetWake
  <2>2. CASE UNCHANGED busVars
    BY <1>2, <2>1, <2>2 DEF busVars
  <2>3. CASE Publish("wake_cancel", NoToken) /\ cancelled' = up
    <3>1. /\ cmds' \in Seq(Cmd) /\ unacked' \in Seq(Cmd)
          /\ up => /\ cmds' # <<>> /\ cmds'[Len(cmds')].cmd = "wake_cancel"
                   /\ unacked' # <<>> /\ unacked'[Len(unacked')].cmd = "wake_cancel"
      BY <1>1, <2>3, Publishes DEF CmdName
    <3>2. CASE up
      BY <2>1, <2>3, <3>1, <3>2 DEF Cancels
    <3>3. CASE ~up
      <4>1. cancelled' = FALSE
        BY <1>1, <2>3, <3>3
      <4> QED BY <2>1, <3>1, <4>1
    <3> QED BY <3>2, <3>3
  <2> QED BY <2>1, <2>2, <2>3
<1> QED BY <1>3, <1>4 DEF Sending

\* Another dashboard.
LEMMA OthersSend ==
  ASSUME PageTypes, BusTypes, NEW cmd \in OtherCmd, OtherSends(cmd)
  PROVE  /\ UNCHANGED <<espVars, up, pageVars, feedVars, unacked, inbox, missed, dropped>>
         /\ cmds' \in Seq(Cmd) /\ cancelled' = FALSE
<1> DEFINE c == [cmd |-> cmd, id |-> 0, token |-> IF cmd = "wake_confirm" THEN offer ELSE NoToken]
<1>1. c \in Cmd
  BY DEF PageTypes, MaybeToken, Cmd, CmdName, OtherCmd
<1>2. /\ UNCHANGED <<espVars, up, pageVars, feedVars, unacked, inbox, missed, dropped>>
      /\ cancelled' = FALSE /\ cmds' = Append(cmds, c)
  BY Zenon DEF OtherSends
<1> HIDE DEF c
<1>3. cmds' \in Seq(Cmd)
  BY <1>1, <1>2, AppendProperties DEF BusTypes
<1> QED BY <1>2, <1>3

\* What is repeated after a reconnection still ends in a cancellation, if the
\* user's last command was one.
Repeats == (unacked # <<>> /\ ~Cancels(unacked)) \/ unacked' = <<>> \/ Cancels(unacked)'

\* A message arrives: the page sees a state, or has a reply to look at.
LEMMA Arrives ==
  ASSUME BusTypes, Message
  PROVE  /\ up /\ inbox # <<>> /\ inbox' = Tail(inbox) /\ Head(inbox) \in Msg
         /\ UNCHANGED <<espVars, up, pageVars, cmds, sent, cancelled, dropped>>
         /\ unacked' \in Seq(Cmd) /\ Repeats
         /\ \/ /\ Head(inbox).cmd = "state"
               /\ shown' = [ts |-> Head(inbox).exp, pending |-> Head(inbox).ok]
               /\ UNCHANGED <<last, missed>>
            \/ /\ Head(inbox).cmd # "state" /\ shown' = shown
               /\ last' = Head(inbox) /\ missed' = (missed \/ last # NoAnswer)
<1>1. inbox \in Seq(Msg) /\ unacked \in Seq(Cmd)
  BY DEF BusTypes
<1>2. up /\ inbox # <<>> /\ inbox' = Tail(inbox)
      /\ UNCHANGED <<espVars, up, pageVars, cmds, sent, cancelled, dropped>>
  BY Zenon DEF Message
<1>3. Head(inbox) \in Msg
  BY <1>1, <1>2, Elements
<1>4. \/ /\ Head(inbox).cmd = "state"
         /\ shown' = [ts |-> Head(inbox).exp, pending |-> Head(inbox).ok]
         /\ UNCHANGED <<last, missed>> /\ unacked' = unacked
      \/ /\ Head(inbox).cmd # "state" /\ shown' = shown
         /\ last' = Head(inbox) /\ missed' = (missed \/ last # NoAnswer)
         /\ \E n \in 0 .. Len(unacked) : unacked' = SubSeq(unacked, n + 1, Len(unacked))
  BY Zenon DEF Message
<1>5. unacked' \in Seq(Cmd) /\ Repeats
  <2>1. CASE unacked' = unacked
    BY <1>1, <2>1 DEF Repeats, Cancels
  <2>2. ASSUME NEW n \in 0 .. Len(unacked), unacked' = SubSeq(unacked, n + 1, Len(unacked))
        PROVE  unacked' \in Seq(Cmd) /\ Repeats
    <3>1. /\ unacked' \in Seq(Cmd)
          /\ unacked' # <<>> => unacked # <<>> /\ unacked'[Len(unacked')] = unacked[Len(unacked)]
      BY <1>1, <2>2, Suffix
    <3> QED BY <3>1 DEF Repeats, Cancels
  <2> QED BY <1>4, <2>1, <2>2
<1> QED BY <1>2, <1>3, <1>4, <1>5

\* The page reconnects.
LEMMA Connects ==
  ASSUME PageTypes, BusTypes, PageConnects
  PROVE  /\ ~up /\ up' = TRUE /\ UNCHANGED <<espVars, pageVars, feedVars, sent, cancelled, missed, dropped>>
         /\ \/ kept = NoState /\ inbox' = <<>>
            \/ /\ kept \in Seen /\ inbox' = << Stated(kept.pending, kept.ts) >>
               /\ Stated(kept.pending, kept.ts) \in Msg /\ Stated(kept.pending, kept.ts).cmd = "state"
               /\ Stated(kept.pending, kept.ts).exp = kept.ts /\ ~Brings(Stated(kept.pending, kept.ts))
         /\ inbox' \in Seq(Msg) /\ cmds' \in Seq(Cmd) /\ unacked' \in Seq(Cmd)
         /\ Repeats
         /\ cmds' = cmds \o unacked'
<1>1. cmds \in Seq(Cmd) /\ unacked \in Seq(Cmd) /\ kept \in Seen \cup {NoState}
  BY DEF BusTypes, PageTypes
<1>2. /\ ~up /\ up' = TRUE /\ UNCHANGED <<espVars, pageVars, feedVars, sent, cancelled, missed, dropped>>
      /\ inbox' = IF kept = NoState THEN <<>> ELSE << Stated(kept.pending, kept.ts) >>
  BY Zenon DEF PageConnects
<1>3. PICK n \in 0 .. Len(unacked) : /\ unacked' = SubSeq(unacked, n + 1, Len(unacked))
                                     /\ cmds' = cmds \o unacked'
  BY Zenon DEF PageConnects
<1>4. /\ unacked' \in Seq(Cmd)
      /\ unacked' # <<>> => unacked # <<>> /\ unacked'[Len(unacked')] = unacked[Len(unacked)]
  BY <1>1, <1>3, Suffix
<1>5. cmds' \in Seq(Cmd)
  BY <1>1, <1>3, <1>4, Grown
<1>6. Repeats
  BY <1>4 DEF Repeats, Cancels
<1>7. CASE kept = NoState
  BY <1>2, <1>3, <1>4, <1>5, <1>6, <1>7, EmptySeq
<1>8. CASE kept # NoState
  <2>1. kept \in Seen /\ kept.pending \in BOOLEAN /\ kept.ts \in 0 .. MaxUptime + Ttl
    BY <1>1, <1>8 DEF Seen
  <2>2. /\ Stated(kept.pending, kept.ts) \in Msg /\ Stated(kept.pending, kept.ts).cmd = "state"
        /\ Stated(kept.pending, kept.ts).exp = kept.ts /\ ~Brings(Stated(kept.pending, kept.ts))
    BY <2>1, StateIs
  <2>3. inbox' = << Stated(kept.pending, kept.ts) >> /\ inbox' \in Seq(Msg)
    BY <1>2, <1>8, <2>2, Singles
  <2> QED BY <1>2, <1>3, <1>4, <1>5, <1>6, <2>1, <2>2, <2>3
<1> QED BY <1>7, <1>8

\* The ESP publishes its state.
LEMMA PublishesState ==
  ASSUME PageTypes, BusTypes, EspPublishes
  PROVE  /\ UNCHANGED <<confirmationVars, timeVars, faults, up, pageVars, feedVars, busVars, missed, dropped>>
         /\ pending' \in BOOLEAN /\ (pending' => pending)
         /\ kept' = [ts |-> uptime, pending |-> pending'] /\ kept' \in Seen
         /\ StateMessage \in Msg /\ StateMessage.cmd = "state" /\ StateMessage.exp = uptime
         /\ ~Brings(StateMessage)
         /\ \/ up /\ inbox' = inbox \o <<StateMessage>>
            \/ ~up /\ inbox' = inbox
         /\ inbox' \in Seq(Msg)
<1>1. uptime \in 0 .. MaxUptime /\ pending \in BOOLEAN /\ inbox \in Seq(Msg)
  BY DEF BusTypes, PageTypes, DashboardTypeOK
<1>2. UNCHANGED <<confirmationVars, timeVars, faults, up, pageVars, feedVars, busVars, missed, dropped>>
  BY Zenon DEF EspPublishes
<1>3. pending' = pending \/ pending' = FALSE
  BY Zenon DEF EspPublishes
<1>4. pending' \in BOOLEAN /\ (pending' => pending)
  <2>1. CASE pending' = pending
    BY <1>1, <2>1
  <2>2. CASE pending' = FALSE
    BY <2>2
  <2> QED BY <1>3, <2>1, <2>2
<1>5. /\ kept' = [ts |-> uptime, pending |-> pending']
      /\ inbox' = IF up THEN inbox \o <<StateMessage>> ELSE inbox
  BY Zenon DEF EspPublishes, StateOut, Out
<1>6. kept' \in Seen
  <2>1. uptime \in 0 .. MaxUptime + Ttl
    BY <1>1, PageConstants
  <2> QED BY <1>4, <1>5, <2>1 DEF Seen
<1>7. /\ StateMessage \in Msg /\ StateMessage.cmd = "state" /\ StateMessage.exp = uptime
      /\ ~Brings(StateMessage)
  BY <1>1, <1>4, StateNow
<1>8. <<StateMessage>> \in Seq(Msg)
  BY <1>7, Singles
<1>9. inbox' \in Seq(Msg)
  BY <1>1, <1>5, <1>8, Grown
<1> QED BY <1>2, <1>4, <1>5, <1>6, <1>7, <1>9

\* The ESP loses its connection, restarts, or its token expires.
LEMMA EspAlone ==
  ASSUME EspExpires \/ EspDrops \/ EspRestarts
  PROVE  /\ UNCHANGED <<kept, up, pageVars, feedVars, busVars, inbox, missed, dropped>>
         /\ accepted' = accepted /\ (offer' = offer \/ offer' = NoToken)
         /\ \/ restarted' = TRUE /\ offer' = NoToken /\ pending' = FALSE /\ online' = FALSE
            \/ /\ UNCHANGED timeVars /\ pending' = pending
               /\ online' = online \/ online' = FALSE
BY Zenon DEF EspExpires, EspDrops, EspRestarts, Expire, Withdraw, confirmationVars

\* The types of what is on its way.
LEMMA BusTypesStep ==
  ASSUME PageTypes, BusTypes, [DashboardNext]_dashboardVars
  PROVE  BusTypes'
<1>0. /\ cmds \in Seq(Cmd) /\ unacked \in Seq(Cmd) /\ inbox \in Seq(Msg) /\ last \in Msg
      /\ missed \in BOOLEAN /\ cancelled \in BOOLEAN /\ dropped \in BOOLEAN
  BY DEF BusTypes
<1>1. CASE UNCHANGED dashboardVars \/ Quiet \/ EspExpires \/ EspDrops \/ EspRestarts \/ Second
  <2>1. UNCHANGED <<cmds, unacked, inbox, last, missed, cancelled, dropped>>
    BY <1>1, Quietly, EspAlone, Zenon DEF dashboardVars, feedVars, busVars, Second
  <2> QED BY <1>0, <2>1 DEF BusTypes
<1>2. CASE Sending
  BY <1>0, <1>2, Sends DEF BusTypes, feedVars
<1>3. CASE Message
  <2>1. /\ inbox' \in Seq(Msg) /\ last' \in Msg /\ unacked' \in Seq(Cmd)
        /\ UNCHANGED <<cmds, cancelled, dropped>>
    BY <1>0, <1>3, Arrives, Rest
  <2>2. missed' \in BOOLEAN
    <3>1. missed' = missed \/ missed' = (missed \/ last # NoAnswer)
      BY <1>3, Arrives, Zenon
    <3> QED BY <1>0, <3>1
  <2> QED BY <1>0, <2>1, <2>2 DEF BusTypes
<1>4. CASE HandleLatestReply
  <2>1. UNCHANGED <<cmds, unacked, inbox, missed, cancelled, dropped>> /\ last' = NoAnswer
    BY <1>4, Zenon DEF HandleLatestReply, busVars
  <2> QED BY <1>0, <2>1, PageConstants DEF BusTypes
<1>i. CASE IgnoreReply
  BY <1>0, <1>i, Ignores, PageConstants DEF BusTypes, busVars
<1>5. CASE PageDrops
  <2>1. /\ UNCHANGED <<cmds, unacked, last, cancelled, dropped>> /\ inbox' = <<>>
        /\ missed' = (missed \/ inbox # <<>>)
    BY <1>5, Zenon DEF PageDrops, busVars, feedVars
  <2>2. missed' \in BOOLEAN
    BY <1>0, <2>1
  <2> QED BY <1>0, <2>1, <2>2, EmptySeq DEF BusTypes
<1>6. CASE PageConnects
  BY <1>0, <1>6, Connects DEF BusTypes, feedVars
<1>7. CASE BrokerDrops
  <2>1. /\ UNCHANGED <<unacked, last, cancelled, inbox, missed>> /\ cmds' = Tail(cmds) /\ cmds # <<>>
        /\ dropped' = TRUE
    BY <1>7, Zenon DEF BrokerDrops, feedVars
  <2> QED BY <1>0, <2>1, Rest DEF BusTypes
<1>8. ASSUME NEW cmd \in OtherCmd, OtherSends(cmd) PROVE BusTypes'
  BY <1>0, <1>8, OthersSend DEF BusTypes, feedVars
<1>9. CASE EspReceives
  <2>1. /\ UNCHANGED <<unacked, last, cancelled, dropped>> /\ cmds' = Tail(cmds) /\ cmds # <<>>
    BY <1>9, Zenon DEF EspReceives, feedVars
  <2>2. missed' \in BOOLEAN /\ \E r \in Msg, msgs \in Seq(Msg) : Replied(r, msgs)
    BY <1>9, Receives
  <2>3. inbox' \in Seq(Msg)
    BY <1>0, <2>2, Grown DEF Replied
  <2> QED BY <1>0, <2>1, <2>2, <2>3, Rest DEF BusTypes
<1>10. CASE EspPublishes
  BY <1>0, <1>10, PublishesState DEF BusTypes, feedVars, busVars
<1> QED
  BY <1>1, <1>2, <1>3, <1>4, <1>i, <1>5, <1>6, <1>7, <1>8, <1>9, <1>10, PageCases

-----------------------------------------------------------------------------
(* The page: what the messages say *)

\* What a message says stays true, unless the token it brings is offered anew.
LEMMA StillTrue ==
  ASSUME uptime \in Nat, uptime' \in Nat, accepted \subseteq accepted',
         ~restarted' => ~restarted /\ uptime <= uptime',
         NEW m \in Msg, Truthful(m),
         offer' = NoToken \/ (offer' = offer /\ (~restarted' => due' = due)) \/ m.token # offer'
  PROVE  Truthful(m)'
<1>1. m.exp \in Nat
  BY PageConstants DEF Msg
<1>2. m.cmd = "state" /\ ~restarted' => m.exp <= uptime'
  BY <1>1 DEF Truthful
<1>3. /\ Brings(m) /\ m.token = offer' /\ ~restarted' => m.exp = due'
      /\ m.cmd = "wake_confirm" /\ m.ok => m.token \in accepted'
  BY DEF Truthful, Brings
<1> QED BY <1>2, <1>3 DEF Truthful, Brings

\* A step keeps the answers true if every message it adds is true.
LEMMA AnswersKept ==
  ASSUME BusTypes, Answers, uptime \in Nat, uptime' \in Nat, accepted \subseteq accepted',
         ~restarted' => ~restarted /\ uptime <= uptime',
         \/ offer' = NoToken
         \/ offer' = offer /\ (~restarted' => due' = due)
         \/ offer' # last.token /\ \A i \in DOMAIN inbox : offer' # inbox[i].token,
         last' = last \/ last' = NoAnswer \/ (\E i \in DOMAIN inbox : last' = inbox[i]),
         \A i \in DOMAIN inbox' : (\E j \in DOMAIN inbox : inbox'[i] = inbox[j]) \/ Truthful(inbox[i])'
  PROVE  Answers'
<1>1. last \in Msg /\ \A i \in DOMAIN inbox : inbox[i] \in Msg
  BY Elements DEF BusTypes
<1>2. ASSUME NEW m, m = last \/ \E i \in DOMAIN inbox : m = inbox[i]
      PROVE  Truthful(m)'
  <2>1. m \in Msg /\ Truthful(m)
    BY <1>1, <1>2 DEF Answers
  <2>2. offer' = NoToken \/ (offer' = offer /\ (~restarted' => due' = due)) \/ m.token # offer'
    BY <1>2
  <2> QED BY <2>1, <2>2, StillTrue
<1>3. ASSUME NEW m, m = NoAnswer PROVE Truthful(m)'
  BY <1>3, PageConstants DEF Truthful, Brings, NoAnswer
<1>4. Truthful(last)'
  <2>1. PICK m : m = last'
    OBVIOUS
  <2>2. Truthful(m)'
    BY <1>2, <1>3, <2>1
  <2> QED BY <2>1, <2>2 DEF Truthful, Brings
<1>5. ASSUME NEW i \in DOMAIN inbox' PROVE Truthful(inbox[i])'
  <2>1. CASE Truthful(inbox[i])'
    BY <2>1
  <2>2. CASE \E j \in DOMAIN inbox : inbox'[i] = inbox[j]
    <3>1. PICK m : m = inbox'[i]
      OBVIOUS
    <3>2. Truthful(m)'
      BY <1>2, <2>2, <3>1
    <3> QED BY <3>1, <3>2 DEF Truthful, Brings
  <2> QED BY <2>1, <2>2
<1> QED BY <1>4, <1>5 DEF Answers

\* What the messages say is true.
LEMMA AnswersStep ==
  ASSUME PageInd, [DashboardNext]_dashboardVars
  PROVE  Answers'
<1> USE DEF PageInd
<1>0. /\ inbox \in Seq(Msg) /\ last \in Msg /\ uptime \in Nat /\ uptime + 1 \in Nat /\ uptime <= uptime
      /\ uptime <= uptime + 1
  BY PageConstants DEF BusTypes, PageTypes, DashboardTypeOK
<1>1. CASE \/ UNCHANGED dashboardVars \/ Quiet \/ Sending \/ BrokerDrops
           \/ \E cmd \in OtherCmd : OtherSends(cmd)
  <2>1. UNCHANGED <<inbox, last, uptime, due, restarted, offer, accepted>>
    <3>1. UNCHANGED <<espVars, feedVars, inbox>>
      <4>1. CASE UNCHANGED dashboardVars \/ Quiet \/ BrokerDrops
        BY <4>1, Quietly, Zenon DEF dashboardVars, BrokerDrops
      <4>2. CASE Sending
        BY <4>2, Sends
      <4>3. CASE \E cmd \in OtherCmd : OtherSends(cmd)
        BY <4>3, OthersSend
      <4> QED BY <1>1, <4>1, <4>2, <4>3
    <3> QED BY <3>1, Zenon DEF espVars, feedVars, timeVars, confirmationVars
  <2> QED BY <1>0, <2>1, AnswersKept
<1>2. CASE EspExpires \/ EspDrops \/ EspRestarts
  <2>1. /\ UNCHANGED <<inbox, last, accepted>> /\ (offer' = offer \/ offer' = NoToken)
        /\ (restarted' = TRUE /\ offer' = NoToken) \/ UNCHANGED <<uptime, due, restarted>>
    BY <1>2, EspAlone, Zenon DEF feedVars, timeVars
  <2>2. uptime' \in Nat
    BY <1>0, <1>2 DEF EspExpires, EspDrops, EspRestarts, timeVars
  <2> QED BY <1>0, <2>1, <2>2, AnswersKept
<1>3. CASE Second
  <2>1. UNCHANGED <<inbox, last, due, restarted, offer, accepted>> /\ uptime' = uptime + 1
    BY <1>3, Zenon DEF Second, confirmationVars, feedVars
  <2> QED BY <1>0, <2>1, AnswersKept
<1>4. CASE Message
  <2>1. UNCHANGED <<uptime, due, restarted, offer, accepted>>
    BY <1>4, Arrives, Zenon DEF espVars, timeVars, confirmationVars
  <2>2. inbox # <<>> /\ inbox' = Tail(inbox) /\ (last' = last \/ last' = Head(inbox))
    BY <1>4, Arrives
  <2>3. 1 \in DOMAIN inbox /\ Head(inbox) = inbox[1]
        /\ \A i \in DOMAIN inbox' : i + 1 \in DOMAIN inbox /\ inbox'[i] = inbox[i + 1]
    BY <1>0, <2>2, Elements, Rest
  <2> QED BY <1>0, <2>1, <2>2, <2>3, AnswersKept
<1>5. CASE HandleLatestReply
  <2>1. UNCHANGED <<inbox, uptime, due, restarted, offer, accepted>> /\ last' = NoAnswer
    BY <1>5, Zenon DEF HandleLatestReply, espVars, timeVars, confirmationVars
  <2> QED BY <1>0, <2>1, AnswersKept
<1>i. CASE IgnoreReply
  <2>1. UNCHANGED <<inbox, uptime, due, restarted, offer, accepted>> /\ last' = NoAnswer
    BY <1>i, Zenon DEF IgnoreReply, espVars, timeVars, confirmationVars
  <2> QED BY <1>0, <2>1, AnswersKept
<1>6. CASE PageDrops
  <2>1. UNCHANGED <<last, uptime, due, restarted, offer, accepted>> /\ inbox' = <<>>
    BY <1>6, Zenon DEF PageDrops, timeVars, confirmationVars, feedVars
  <2> QED BY <1>0, <2>1, EmptySeq, AnswersKept
<1>7. CASE PageConnects
  <2>1. UNCHANGED <<last, uptime, due, restarted, offer, accepted>>
    BY <1>7, Connects, Zenon DEF espVars, timeVars, confirmationVars, feedVars
  <2>2. ASSUME NEW i \in DOMAIN inbox' PROVE Truthful(inbox[i])'
    <3>1. CASE inbox' = <<>>
      BY <3>1, EmptySeq
    <3>2. CASE /\ kept \in Seen /\ inbox' = << Stated(kept.pending, kept.ts) >>
               /\ Stated(kept.pending, kept.ts) \in Msg /\ Stated(kept.pending, kept.ts).cmd = "state"
               /\ Stated(kept.pending, kept.ts).exp = kept.ts /\ ~Brings(Stated(kept.pending, kept.ts))
      <4>1. inbox'[i] = Stated(kept.pending, kept.ts)
        BY <2>2, <3>2, Singles
      <4>2. ~restarted' => kept.ts <= uptime'
        BY <2>1 DEF Countdown
      <4>3. inbox'[i].cmd = "state" /\ inbox'[i].exp = kept.ts
        BY <3>2, <4>1
      <4> QED BY <4>2, <4>3 DEF Truthful, Brings
    <3> QED BY <1>7, <3>1, <3>2, Connects
  <2> QED BY <1>0, <2>1, <2>2, AnswersKept
<1>8. CASE EspReceives
  <2>1. PICK r \in Msg, msgs \in Seq(Msg) : Replied(r, msgs) /\ Confirms(r) /\ r.cmd \in CmdName
    BY <1>8, Receives
  <2>2. UNCHANGED <<uptime, restarted, last>> /\ pending' \in BOOLEAN
    <3>1. UNCHANGED <<uptime, restarted, last>>
      BY <1>8, Zenon DEF EspReceives, feedVars
    <3> QED BY <1>8, <3>1, Receives
  <2>3. msgs \in Seq(Msg) /\ inbox' = inbox \o msgs
    BY <2>1 DEF Replied
  <2>4. accepted \subseteq accepted'
    BY <2>1 DEF Confirms
  <2>5. \/ offer' = NoToken
        \/ offer' = offer /\ (~restarted' => due' = due)
        \/ offer' # last.token /\ \A i \in DOMAIN inbox : offer' # inbox[i].token
    <3>1. CASE Brings(r)
      <4>1. offer' \notin Held
        BY <2>1, <3>1 DEF Confirms
      <4> QED BY <4>1 DEF Held
    <3>2. CASE ~Brings(r)
      BY <2>1, <3>2 DEF Confirms
    <3> QED BY <3>1, <3>2
  <2>6. ASSUME NEW m, m = r PROVE Truthful(m)'
    <3>1. Brings(r) => r.exp = due'
      BY <2>1, PageConstants DEF Confirms
    <3>2. r.cmd = "wake_confirm" /\ r.ok => r.token \in accepted'
      BY <2>1 DEF Confirms, Brings
    <3>3. r.cmd # "state"
      BY <2>1 DEF CmdName
    <3> QED BY <2>6, <3>1, <3>2, <3>3 DEF Truthful, Brings
  <2>7. StateMessage.cmd = "state" /\ StateMessage.exp = uptime
    BY <2>2, StateNow DEF PageTypes, DashboardTypeOK
  <2>8. ASSUME NEW i \in DOMAIN inbox'
        PROVE  (\E j \in DOMAIN inbox : inbox'[i] = inbox[j]) \/ Truthful(inbox[i])'
    <3>1. CASE i \in DOMAIN inbox
      BY <1>0, <2>3, <3>1, Grown
    <3>2. CASE i - Len(inbox) \in DOMAIN msgs /\ i > Len(inbox)
      <4>1. inbox'[i] = msgs[i - Len(inbox)]
        <5>1. Len(inbox) \in Nat /\ Len(inbox) + (i - Len(inbox)) = i
          BY <1>0, <2>3, <2>8, Elements, Grown
        <5> QED BY <1>0, <2>3, <3>2, <5>1, Grown
      <4>2. inbox'[i] = r \/ inbox'[i] = StateMessage
        BY <2>1, <3>2, <4>1 DEF Replied
      <4>3. CASE inbox'[i] = r
        BY <2>6, <4>3 DEF Truthful, Brings
      <4>4. CASE inbox'[i] = StateMessage
        <5>1. inbox'[i].cmd = "state" /\ inbox'[i].exp <= uptime'
          BY <1>0, <2>2, <2>7, <4>4
        <5> QED BY <5>1 DEF Truthful, Brings
      <4> QED BY <4>2, <4>3, <4>4
    <3> QED BY <1>0, <2>3, <2>8, <3>1, <3>2, Grown
  <2> QED BY <1>0, <2>2, <2>4, <2>5, <2>8, AnswersKept
<1>9. CASE EspPublishes
  <2>1. UNCHANGED <<last, uptime, due, restarted, offer, accepted>>
    BY <1>9, PublishesState, Zenon DEF timeVars, confirmationVars, feedVars
  <2>2. StateMessage \in Msg /\ StateMessage.cmd = "state" /\ StateMessage.exp = uptime
    BY <1>9, PublishesState
  <2>3. inbox' = inbox \o <<StateMessage>> \/ inbox' = inbox
    BY <1>9, PublishesState
  <2>4. ASSUME NEW i \in DOMAIN inbox'
        PROVE  (\E j \in DOMAIN inbox : inbox'[i] = inbox[j]) \/ inbox'[i] = StateMessage
    <3>1. CASE inbox' = inbox
      BY <2>4, <3>1
    <3>2. CASE inbox' = inbox \o <<StateMessage>>
      <4>1. /\ <<StateMessage>> \in Seq(Msg) /\ DOMAIN <<StateMessage>> = {1}
            /\ <<StateMessage>>[1] = StateMessage
        BY <2>2, Singles
      <4>2. CASE i \in DOMAIN inbox
        BY <1>0, <3>2, <4>1, <4>2, Grown
      <4>3. CASE i - Len(inbox) = 1
        <5>1. Len(inbox) + 1 = i
          BY <1>0, <2>4, <3>2, <4>1, <4>3, Elements, Grown
        <5> QED BY <1>0, <3>2, <4>1, <5>1, Grown
      <4> QED BY <1>0, <2>4, <3>2, <4>1, <4>2, <4>3, Grown
    <3> QED BY <2>3, <3>1, <3>2
  <2>5. ASSUME NEW i \in DOMAIN inbox', inbox'[i] = StateMessage PROVE Truthful(inbox[i])'
    <3>1. inbox'[i].cmd = "state" /\ inbox'[i].exp <= uptime'
      BY <1>0, <2>1, <2>2, <2>5
    <3> QED BY <3>1 DEF Truthful, Brings
  <2> QED BY <1>0, <2>1, <2>4, <2>5, AnswersKept
<1> QED BY <1>1, <1>2, <1>3, <1>4, <1>5, <1>i, <1>6, <1>7, <1>8, <1>9, PageCases

-----------------------------------------------------------------------------
(* The page: states before replies, and the countdown *)

\* The page sees a state before any reply.
LEMMA StateFirstStep ==
  ASSUME PageInd, [DashboardNext]_dashboardVars
  PROVE  StateFirst'
<1> USE DEF PageInd
<1>0. /\ inbox \in Seq(Msg) /\ online \in BOOLEAN /\ up \in BOOLEAN
      /\ online => kept # NoState
      /\ ~up => inbox = <<>>
      /\ last # NoAnswer => shown # NoState
      /\ shown = NoState /\ up /\ kept # NoState => inbox # <<>>
      /\ shown = NoState /\ inbox # <<>> => Head(inbox).cmd = "state"
  BY DEF BusTypes, PageTypes, DashboardTypeOK, StateFirst
<1>1. CASE \/ UNCHANGED dashboardVars \/ Quiet \/ Sending \/ BrokerDrops \/ Second \/ EspExpires
           \/ EspDrops \/ EspRestarts
           \/ \E cmd \in OtherCmd : OtherSends(cmd)
  <2>1. UNCHANGED <<kept, up, inbox, last, shown>> /\ (online' = online \/ online' = FALSE)
    <3>1. CASE UNCHANGED dashboardVars \/ Quiet \/ BrokerDrops
      BY <3>1, Quietly, Zenon DEF dashboardVars, BrokerDrops, espVars, feedVars
    <3>2. CASE Sending
      BY <3>2, Sends DEF espVars, feedVars
    <3>3. CASE \E cmd \in OtherCmd : OtherSends(cmd)
      BY <3>3, OthersSend DEF espVars, feedVars
    <3>4. CASE Second
      BY <3>4, Zenon DEF Second, feedVars
    <3>5. CASE EspExpires \/ EspDrops \/ EspRestarts
      BY <3>5, EspAlone, Zenon DEF feedVars
    <3> QED BY <1>1, <3>1, <3>2, <3>3, <3>4, <3>5
  <2> QED BY <1>0, <2>1 DEF StateFirst
<1>2. CASE Message
  <2>1. /\ up /\ up' = up /\ inbox # <<>> /\ inbox' = Tail(inbox) /\ kept' = kept /\ online' = online
        /\ Head(inbox) \in Msg
        /\ \/ /\ Head(inbox).cmd = "state"
              /\ shown' = [ts |-> Head(inbox).exp, pending |-> Head(inbox).ok]
           \/ Head(inbox).cmd # "state" /\ shown' = shown
    BY <1>2, Arrives, Zenon DEF espVars
  <2>2. shown' # NoState
    <3>1. CASE Head(inbox).cmd = "state"
      <4>1. shown' = [ts |-> Head(inbox).exp, pending |-> Head(inbox).ok]
        BY <2>1, <3>1
      <4>2. \A m \in Msg : [ts |-> m.exp, pending |-> m.ok] \in Seen
        BY DEF Msg, Seen
      <4> QED BY <2>1, <4>1, <4>2, PageConstants
    <3>2. CASE Head(inbox).cmd # "state"
      BY <1>0, <2>1, <3>2
    <3> QED BY <3>1, <3>2
  <2> QED BY <1>0, <2>1, <2>2 DEF StateFirst
<1>3. CASE HandleLatestReply \/ IgnoreReply
  <2>1. UNCHANGED <<kept, up, inbox, shown, online>> /\ last' = NoAnswer
    BY <1>3, Zenon DEF HandleLatestReply, IgnoreReply, espVars
  <2> QED BY <1>0, <2>1 DEF StateFirst
<1>4. CASE PageDrops
  <2>1. UNCHANGED <<kept, last, shown, online>> /\ up' = FALSE /\ inbox' = <<>>
    BY <1>4, Zenon DEF PageDrops, feedVars
  <2> QED BY <1>0, <2>1 DEF StateFirst
<1>5. CASE PageConnects
  <2>1. UNCHANGED <<kept, last, shown, online>> /\ up' = TRUE
    BY <1>5, Connects, Zenon DEF espVars, feedVars
  <2>2. \/ kept = NoState /\ inbox' = <<>>
        \/ inbox' # <<>> /\ Head(inbox').cmd = "state"
    BY <1>5, Connects, Singles
  <2> QED BY <1>0, <2>1, <2>2 DEF StateFirst
<1>6. CASE EspReceives
  <2>1. UNCHANGED <<up, last, shown>> /\ online
    BY <1>6, Zenon DEF EspReceives, feedVars
  <2>2. PICK r \in Msg, msgs \in Seq(Msg) : Replied(r, msgs)
    BY <1>6, Receives
  <2>3. msgs \in Seq(Msg) /\ inbox' = inbox \o msgs /\ (~up => msgs = <<>>)
    BY <2>2 DEF Replied
  <2>4. kept # NoState /\ kept' # NoState
    <3>1. kept # NoState
      BY <1>0, <2>1
    <3>2. kept' = kept \/ kept' = [ts |-> uptime, pending |-> pending']
      BY <1>6, Receives
    <3>3. uptime # -1
      BY DEF PageTypes, DashboardTypeOK
    <3> QED BY <3>1, <3>2, <3>3 DEF NoState
  <2>5. CASE ~up
    <3>1. inbox' = <<>>
      BY <1>0, <2>3, <2>5, Grown
    <3> QED BY <1>0, <2>1, <2>4, <2>5, <3>1 DEF StateFirst
  <2>6. CASE up
    <3>1. shown = NoState => inbox # <<>> /\ inbox' # <<>> /\ Head(inbox') = Head(inbox)
      BY <1>0, <2>3, <2>4, <2>6, Grown
    <3> QED BY <1>0, <2>1, <2>4, <2>6, <3>1 DEF StateFirst
  <2> QED BY <2>5, <2>6
<1>7. CASE EspPublishes
  <2>1. UNCHANGED <<up, last, shown>>
    BY <1>7, PublishesState, Zenon DEF feedVars
  <2>2. kept' # NoState /\ StateMessage \in Msg /\ StateMessage.cmd = "state"
    BY <1>7, PublishesState, PageConstants
  <2>3. CASE ~up /\ inbox' = inbox
    BY <1>0, <2>1, <2>2, <2>3 DEF StateFirst
  <2>4. CASE up /\ inbox' = inbox \o <<StateMessage>>
    <3>1. <<StateMessage>> \in Seq(Msg) /\ <<StateMessage>> # <<>> /\ Head(<<StateMessage>>) = StateMessage
      BY <2>2, Singles
    <3>2. CASE inbox = <<>>
      <4>1. inbox' = <<StateMessage>>
        BY <2>4, <3>1, <3>2, ConcatEmptySeq
      <4> QED BY <1>0, <2>1, <2>2, <2>4, <3>1, <4>1 DEF StateFirst
    <3>3. CASE inbox # <<>>
      <4>1. inbox' # <<>> /\ Head(inbox') = Head(inbox)
        BY <1>0, <2>4, <3>1, <3>3, Grown
      <4> QED BY <1>0, <2>1, <2>2, <2>4, <3>3, <4>1 DEF StateFirst
    <3> QED BY <3>2, <3>3
  <2> QED BY <1>7, <2>3, <2>4, PublishesState
<1> QED BY <1>1, <1>2, <1>3, <1>4, <1>5, <1>6, <1>7, PageCases

\* What the page computes from a reply that brings the open token.
LEMMA Computed ==
  ASSUME PageInd, last # NoAnswer, Brings(last), last.token = offer, ~restarted
  PROVE  Remaining(last) >= due - uptime
<1>1. last.exp = due /\ due \in Nat /\ uptime \in Nat
  BY DEF PageInd, Answers, Truthful, PageTypes, DashboardTypeOK
<1>2. shown \in Seen /\ shown.ts <= uptime
  BY DEF PageInd, StateFirst, Countdown, PageTypes
<1>3. shown.ts \in Nat
  BY <1>2, PageConstants DEF Seen
<1>4. last.token # NoToken
  BY DEF Brings
<1> QED BY <1>1, <1>2, <1>3, <1>4 DEF Remaining

\* The countdown of the open token is never too short.
LEMMA CountdownStep ==
  ASSUME PageInd, [DashboardNext]_dashboardVars
  PROVE  Countdown'
<1> USE DEF PageInd
<1>0. /\ uptime \in Nat /\ due \in Nat /\ countdown \in Int /\ offer \in MaybeToken
      /\ ~restarted => shown.ts <= uptime /\ kept.ts <= uptime
      /\ ~restarted /\ wakeToken = offer /\ offer # NoToken => countdown >= due - uptime
      /\ uptime <= uptime
  BY DEF PageTypes, DashboardTypeOK, Countdown
<1>1. CASE UNCHANGED dashboardVars \/ Quiet \/ Sending \/ BrokerDrops \/ PageDrops \/ PageConnects
           \/ IgnoreReply
           \/ \E cmd \in OtherCmd : OtherSends(cmd)
  <2>1. UNCHANGED <<restarted, shown, kept, uptime, due, offer>>
        /\ (UNCHANGED <<wakeToken, countdown>> \/ wakeToken' = NoToken)
    <3>1. CASE UNCHANGED dashboardVars \/ Quiet \/ BrokerDrops
      BY <3>1, Quietly, Zenon
      DEF dashboardVars, BrokerDrops, espVars, timeVars, confirmationVars, feedVars, pageVars
    <3>2. CASE Sending
      BY <3>2, Sends DEF espVars, timeVars, confirmationVars, feedVars
    <3>3. CASE \E cmd \in OtherCmd : OtherSends(cmd)
      BY <3>3, OthersSend DEF espVars, timeVars, confirmationVars, feedVars, pageVars
    <3>4. CASE PageDrops \/ PageConnects
      BY <3>4, Connects, Zenon DEF PageDrops, espVars, timeVars, confirmationVars, feedVars, pageVars
    <3>5. CASE IgnoreReply
      BY <3>5, Zenon DEF IgnoreReply, espVars, timeVars, confirmationVars, pageVars
    <3> QED BY <1>1, <3>1, <3>2, <3>3, <3>4, <3>5
  <2> QED BY <1>0, <2>1 DEF Countdown
<1>2. CASE EspExpires \/ EspDrops \/ EspRestarts
  <2>1. /\ UNCHANGED <<kept, shown, wakeToken, countdown>> /\ (offer' = offer \/ offer' = NoToken)
        /\ restarted' = TRUE \/ UNCHANGED <<uptime, due, restarted>>
    BY <1>2, EspAlone, Zenon DEF feedVars, timeVars, pageVars
  <2> QED BY <1>0, <2>1 DEF Countdown
<1>3. CASE Second
  <2>1. UNCHANGED <<restarted, shown, kept, due, offer, wakeToken>> /\ uptime' = uptime + 1
        /\ countdown' = IF countdown > 0 THEN countdown - 1 ELSE countdown
    BY <1>3, Zenon DEF Second, confirmationVars, feedVars
  <2>2. ASSUME ~restarted PROVE shown.ts <= uptime + 1 /\ kept.ts <= uptime + 1
    <3>1. \A s \in Seen \cup {NoState} : s.ts \in Int
      BY PageConstants DEF Seen
    <3>2. shown.ts \in Int /\ kept.ts \in Int
      BY <3>1 DEF PageTypes
    <3> QED BY <1>0, <2>2, <3>2
  <2>3. ASSUME countdown >= due - uptime PROVE countdown' >= due - (uptime + 1)
    BY <1>0, <2>1, <2>3
  <2> QED BY <1>0, <2>1, <2>2, <2>3 DEF Countdown
<1>4. CASE Message
  <2>1. UNCHANGED <<restarted, kept, uptime, due, offer, wakeToken, countdown>>
    BY <1>4, Arrives, Zenon DEF espVars, timeVars, confirmationVars, pageVars
  <2>2. ASSUME ~restarted PROVE shown'.ts <= uptime
    <3>1. CASE shown' = shown
      BY <1>0, <2>2, <3>1
    <3>2. CASE Head(inbox).cmd = "state" /\ shown' = [ts |-> Head(inbox).exp, pending |-> Head(inbox).ok]
      <4>1. inbox # <<>> /\ inbox \in Seq(Msg)
        BY <1>4, Arrives DEF BusTypes
      <4>2. 1 \in DOMAIN inbox /\ Head(inbox) = inbox[1]
        BY <4>1, Elements
      <4>3. Truthful(Head(inbox))
        BY <4>2 DEF Answers
      <4> QED BY <2>2, <3>2, <4>3 DEF Truthful
    <3> QED BY <1>4, <3>1, <3>2, Arrives
  <2> QED BY <1>0, <2>1, <2>2 DEF Countdown
<1>5. CASE HandleLatestReply
  <2>1. UNCHANGED <<restarted, shown, kept, uptime, due, offer>> /\ last # NoAnswer
    BY <1>5, Zenon DEF HandleLatestReply, espVars, timeVars, confirmationVars
  <2>2. CASE UNCHANGED <<wakeToken, countdown>>
    BY <1>0, <2>1, <2>2 DEF Countdown
  <2>3. CASE Brings(last) /\ wakeToken' = last.token /\ countdown' = Remaining(last)
    BY <1>0, <2>1, <2>3, Computed DEF Countdown
  <2>4. CASE wakeToken' = NoToken
    BY <1>0, <2>1, <2>4 DEF Countdown
  <2>5. UNCHANGED <<wakeToken, countdown>> \/ wakeToken' = NoToken
        \/ (Brings(last) /\ wakeToken' = last.token /\ countdown' = Remaining(last))
    BY <1>5 DEF HandleLatestReply, OnWakeRequest, OnWakeConfirm, Brings
  <2> QED BY <2>2, <2>3, <2>4, <2>5
<1>6. CASE EspReceives
  <2>1. UNCHANGED <<restarted, shown, uptime, wakeToken, countdown>>
    BY <1>6, Zenon DEF EspReceives, feedVars, pageVars
  <2>2. PICK r \in Msg : Confirms(r)
    BY <1>6, Receives
  <2>3. kept' = kept \/ kept'.ts = uptime
    BY <1>6, Receives
  <2>4. CASE Brings(r)
    <3>1. offer' # wakeToken
      BY <2>2, <2>4 DEF Confirms, Held
    <3> QED BY <1>0, <2>1, <2>3, <3>1 DEF Countdown
  <2>5. CASE ~Brings(r)
    <3>1. due' = due /\ (offer' = offer \/ offer' = NoToken)
      BY <2>2, <2>5 DEF Confirms
    <3> QED BY <1>0, <2>1, <2>3, <3>1 DEF Countdown
  <2> QED BY <2>4, <2>5
<1>7. CASE EspPublishes
  <2>1. UNCHANGED <<restarted, shown, uptime, due, offer, wakeToken, countdown>>
    BY <1>7, PublishesState, Zenon DEF timeVars, confirmationVars, feedVars, pageVars
  <2>2. kept'.ts = uptime
    BY <1>7, PublishesState
  <2> QED BY <1>0, <2>1, <2>2 DEF Countdown
<1> QED BY <1>1, <1>2, <1>3, <1>4, <1>5, <1>6, <1>7, PageCases

-----------------------------------------------------------------------------
(* The page: the newest token, and cancellations *)

\* Messages that bring no token change nothing about the last one.
LEMMA LastGrows ==
  ASSUME NEW q \in Seq(Msg), NEW msgs \in Seq(Msg), NEW k, NEW b \in BOOLEAN, Last(q, k, b),
         \A i \in DOMAIN msgs : ~Brings(msgs[i])
  PROVE  Last(q \o msgs, k, b)
<1>0. Len(q) \in Nat /\ DOMAIN q = 1 .. Len(q) /\ DOMAIN (q \o msgs) \subseteq Nat
  <2>1. q \o msgs \in Seq(Msg)
    BY Grown
  <2> QED BY <2>1, Elements
<1>1. ASSUME NEW i \in DOMAIN (q \o msgs)
      PROVE  (i \in DOMAIN q /\ (q \o msgs)[i] = q[i]) \/ (i > Len(q) /\ ~Brings((q \o msgs)[i]))
  <2>1. CASE i \in DOMAIN q
    BY <2>1, Grown
  <2>2. CASE i - Len(q) \in DOMAIN msgs /\ i > Len(q)
    <3>1. Len(q) + (i - Len(q)) = i
      BY <1>0, <1>1
    <3>2. (q \o msgs)[i] = msgs[i - Len(q)]
      BY <2>2, <3>1, Grown
    <3> QED BY <2>2, <3>2
  <2> QED BY <1>1, <2>1, <2>2, Grown
<1>2. CASE b /\ \A i \in DOMAIN q : ~Brings(q[i])
  BY <1>1, <1>2 DEF Last
<1>3. ASSUME NEW i \in DOMAIN q, Brings(q[i]), q[i].token = k, \A j \in DOMAIN q : j > i => ~Brings(q[j])
      PROVE  Last(q \o msgs, k, b)
  <2>1. i \in DOMAIN (q \o msgs) /\ (q \o msgs)[i] = q[i]
    BY <1>3, Grown
  <2>2. \A j \in DOMAIN (q \o msgs) : j > i => ~Brings((q \o msgs)[j])
    BY <1>1, <1>3
  <2> QED BY <1>3, <2>1, <2>2 DEF Last
<1> QED BY <1>2, <1>3 DEF Last

\* The first message leaves the queue.
LEMMA LastRest ==
  ASSUME NEW q \in Seq(Msg), q # <<>>, NEW k, NEW b \in BOOLEAN, Last(q, k, b)
  PROVE  Last(Tail(q), k, IF Brings(Head(q)) THEN Head(q).token = k ELSE b)
<1> DEFINE c == IF Brings(Head(q)) THEN Head(q).token = k ELSE b
<1>0. 1 \in DOMAIN q /\ Head(q) = q[1] /\ DOMAIN q = 1 .. Len(q) /\ Len(q) \in Nat
  BY Elements
<1>1. /\ \A i \in DOMAIN Tail(q) : i \in Nat /\ i + 1 \in DOMAIN q /\ Tail(q)[i] = q[i + 1]
      /\ \A i \in DOMAIN q : i > 1 => i - 1 \in DOMAIN Tail(q) /\ Tail(q)[i - 1] = q[i]
  BY Rest
<1>2. CASE b /\ \A i \in DOMAIN q : ~Brings(q[i])
  <2>1. c
    BY <1>0, <1>2
  <2>2. \A i \in DOMAIN Tail(q) : ~Brings(Tail(q)[i])
    BY <1>1, <1>2
  <2> HIDE DEF c
  <2>3. Last(Tail(q), k, c)
    BY <2>1, <2>2 DEF Last
  <2> QED BY <2>3 DEF c
<1>3. ASSUME NEW i \in DOMAIN q, Brings(q[i]), q[i].token = k, \A j \in DOMAIN q : j > i => ~Brings(q[j])
      PROVE  Last(Tail(q), k, c)
  <2>1. CASE i = 1
    <3>1. c
      BY <1>0, <1>3, <2>1
    <3>2. ASSUME NEW j \in DOMAIN Tail(q) PROVE ~Brings(Tail(q)[j])
      <4>1. j + 1 \in DOMAIN q /\ j + 1 > 1 /\ Tail(q)[j] = q[j + 1]
        BY <1>1, <1>0
      <4> QED BY <1>3, <2>1, <4>1
    <3> HIDE DEF c
    <3> QED BY <3>1, <3>2 DEF Last
  <2>2. CASE i > 1
    <3>1. i - 1 \in DOMAIN Tail(q) /\ Tail(q)[i - 1] = q[i]
      BY <1>1, <2>2
    <3>2. ASSUME NEW j \in DOMAIN Tail(q), j > i - 1 PROVE ~Brings(Tail(q)[j])
      <4>1. j + 1 \in DOMAIN q /\ j + 1 > i /\ Tail(q)[j] = q[j + 1]
        BY <1>0, <1>1, <3>2
      <4> QED BY <1>3, <4>1
    <3> HIDE DEF c
    <3> QED BY <1>3, <3>1, <3>2 DEF Last
  <2> QED BY <1>0, <2>1, <2>2
<1> QED BY <1>2, <1>3 DEF Last

\* The state in which the messages on their way leave the page: it holds the
\* token already, or will.
Holds == IF Brings(last) THEN last.token = offer ELSE wakeToken \in {offer, NoToken}

\* When the messages, the reply to look at and the token stay, so does Newest.
LEMMA NewestKept ==
  ASSUME BusTypes, Newest, ~missed' => ~missed, offer' = offer \/ offer' = NoToken, inbox' = inbox,
         offer' = offer => (Holds => Holds')
  PROVE  Newest'
<1>1. ASSUME ~missed', offer' # NoToken PROVE Last(inbox', offer', Holds')
  <2>1. Last(inbox, offer, Holds) /\ offer' = offer
    BY <1>1 DEF Newest, Holds
  <2> QED BY <2>1 DEF Last
<1> QED BY <1>1 DEF Newest, Holds, Brings

\* The page will hold the open token.
LEMMA NewestStep ==
  ASSUME PageInd, [DashboardNext]_dashboardVars
  PROVE  Newest'
<1> USE DEF PageInd
<1>0. /\ inbox \in Seq(Msg) /\ last \in Msg /\ Holds \in BOOLEAN
      /\ ~missed /\ offer # NoToken => Last(inbox, offer, Holds)
  <2>1. inbox \in Seq(Msg) /\ last \in Msg
    BY DEF BusTypes
  <2>2. Holds \in BOOLEAN
    <3>1. CASE Brings(last)
      BY <3>1 DEF Holds
    <3>2. CASE ~Brings(last)
      BY <3>2 DEF Holds
    <3> QED BY <3>1, <3>2
  <2>3. ~missed /\ offer # NoToken => Last(inbox, offer, Holds)
    BY DEF Newest, Holds
  <2> QED BY <2>1, <2>2, <2>3
<1>1. CASE \/ UNCHANGED dashboardVars \/ Quiet \/ Sending \/ BrokerDrops \/ Second \/ EspExpires
           \/ EspDrops \/ EspRestarts
           \/ \E cmd \in OtherCmd : OtherSends(cmd)
  <2>1. /\ UNCHANGED <<inbox, last, missed>> /\ (offer' = offer \/ offer' = NoToken)
        /\ wakeToken' = wakeToken \/ wakeToken' = NoToken
    <3>1. CASE UNCHANGED dashboardVars \/ Quiet \/ BrokerDrops
      BY <3>1, Quietly, Zenon DEF dashboardVars, BrokerDrops, espVars, confirmationVars, feedVars, pageVars
    <3>2. CASE Sending
      BY <3>2, Sends DEF espVars, confirmationVars, feedVars
    <3>3. CASE \E cmd \in OtherCmd : OtherSends(cmd)
      BY <3>3, OthersSend DEF espVars, confirmationVars, feedVars, pageVars
    <3>4. CASE Second
      BY <3>4, Zenon DEF Second, feedVars, confirmationVars
    <3>5. CASE EspExpires \/ EspDrops \/ EspRestarts
      BY <3>5, EspAlone, Zenon DEF feedVars, pageVars
    <3> QED BY <1>1, <3>1, <3>2, <3>3, <3>4, <3>5
  <2>2. offer' = offer => (Holds => Holds')
    BY <2>1 DEF Holds, Brings
  <2> QED BY <2>1, <2>2, NewestKept
<1>2. CASE Message
  <2>1. /\ inbox # <<>> /\ inbox' = Tail(inbox) /\ offer' = offer /\ wakeToken' = wakeToken
        /\ \/ Head(inbox).cmd = "state" /\ UNCHANGED <<last, missed>>
           \/ last' = Head(inbox) /\ missed' = (missed \/ last # NoAnswer)
    BY <1>2, Arrives, Zenon DEF espVars, confirmationVars, pageVars
  <2>2. ASSUME ~missed', offer # NoToken PROVE Last(inbox', offer', Holds')
    <3>1. ~missed
      <4>1. CASE missed' = missed
        BY <2>2, <4>1
      <4>2. CASE missed' = (missed \/ last # NoAnswer)
        BY <2>2, <4>2
      <4> QED BY <2>1, <4>1, <4>2
    <3>2. Last(Tail(inbox), offer, IF Brings(Head(inbox)) THEN Head(inbox).token = offer ELSE Holds)
      BY <1>0, <2>1, <2>2, <3>1, LastRest
    <3>3. CASE Head(inbox).cmd = "state" /\ UNCHANGED <<last, missed>>
      <4>1. ~Brings(Head(inbox)) /\ (Holds' <=> Holds)
        BY <2>1, <3>3 DEF Brings, Holds
      <4> QED BY <2>1, <3>2, <4>1 DEF Last
    <3>4. CASE last' = Head(inbox) /\ missed' = (missed \/ last # NoAnswer)
      <4>1. last = NoAnswer
        BY <2>2, <3>4
      <4>2. Holds <=> wakeToken \in {offer, NoToken}
        BY <4>1, PageConstants DEF Holds
      <4>3. Holds' <=> IF Brings(Head(inbox)) THEN Head(inbox).token = offer
                       ELSE wakeToken \in {offer, NoToken}
        BY <2>1, <3>4 DEF Holds, Brings
      <4>4. Holds' <=> IF Brings(Head(inbox)) THEN Head(inbox).token = offer ELSE Holds
        BY <4>2, <4>3
      <4> QED BY <2>1, <3>2, <4>4 DEF Last
    <3> QED BY <2>1, <3>3, <3>4
  <2> QED BY <2>1, <2>2 DEF Newest, Holds, Brings
<1>3. CASE HandleLatestReply
  <2>1. UNCHANGED <<inbox, missed, offer>> /\ last' = NoAnswer
    BY <1>3, Zenon DEF HandleLatestReply, espVars, confirmationVars
  <2>2. IF Brings(last) THEN wakeToken' = last.token ELSE wakeToken' \in {wakeToken, NoToken}
    BY <1>3 DEF HandleLatestReply, OnWakeRequest, OnWakeConfirm, Brings
  <2>3. Holds => Holds'
    <3>1. ~Brings(last')
      BY <2>1, PageConstants
    <3> QED BY <2>1, <2>2, <3>1 DEF Holds, Brings
  <2> QED BY <2>1, <2>3, NewestKept
<1>i. CASE IgnoreReply
  <2>1. /\ UNCHANGED <<inbox, offer, wakeToken>> /\ last' = NoAnswer
        /\ (~missed' => ~missed /\ ~Brings(last))
    BY <1>i, Ignores, Zenon DEF espVars, confirmationVars, pageVars
  <2>2. CASE missed'
    BY <2>2 DEF Newest
  <2>3. CASE ~missed'
    <3>1. ~Brings(last) /\ ~Brings(last')
      BY <2>1, <2>3, PageConstants
    <3>2. Holds => Holds'
      BY <2>1, <3>1 DEF Holds, Brings
    <3> QED BY <2>1, <2>3, <3>2, NewestKept
  <2> QED BY <2>2, <2>3
<1>4. CASE PageDrops
  <2>1. UNCHANGED <<last, offer, wakeToken>> /\ inbox' = <<>> /\ missed' = (missed \/ inbox # <<>>)
    BY <1>4, Zenon DEF PageDrops, feedVars, confirmationVars, pageVars
  <2>2. CASE inbox = <<>>
    <3>1. inbox' = inbox /\ (~missed' => ~missed)
      BY <2>1, <2>2
    <3>2. Holds => Holds'
      BY <2>1 DEF Holds, Brings
    <3> QED BY <2>1, <3>1, <3>2, NewestKept
  <2>3. CASE inbox # <<>>
    BY <2>1, <2>3 DEF Newest
  <2> QED BY <2>2, <2>3
<1>5. CASE PageConnects
  <2>1. UNCHANGED <<last, offer, wakeToken, missed>>
    BY <1>5, Connects, Zenon DEF feedVars, espVars, confirmationVars, pageVars
  <2>2. inbox = <<>>
    BY <1>5, Connects DEF StateFirst
  <2>3. \A i \in DOMAIN inbox' : ~Brings(inbox'[i])
    BY <1>5, Connects, Singles, EmptySeq
  <2>4. ASSUME ~missed', offer' # NoToken PROVE Last(inbox', offer', Holds')
    <3>1. Last(inbox, offer, Holds)
      BY <1>0, <2>1, <2>4
    <3>2. Holds
      BY <2>2, <3>1, EmptySeq DEF Last
    <3>3. Holds'
      BY <2>1, <3>2 DEF Holds, Brings
    <3> QED BY <2>3, <3>3 DEF Last
  <2> QED BY <2>4 DEF Newest, Holds, Brings
<1>6. CASE EspReceives
  <2>1. UNCHANGED <<last, wakeToken>> /\ pending' \in BOOLEAN
    <3>1. UNCHANGED <<last, wakeToken>>
      BY <1>6, Zenon DEF EspReceives, feedVars, pageVars
    <3> QED BY <1>6, <3>1, Receives
  <2>2. PICK r \in Msg, msgs \in Seq(Msg) : Replied(r, msgs) /\ Confirms(r)
    BY <1>6, Receives
  <2>3. msgs \in Seq(Msg) /\ inbox' = inbox \o msgs
        /\ \A i \in DOMAIN msgs : (i = 1 /\ msgs[i] = r) \/ (i > 1 /\ msgs[i] = StateMessage)
    BY <2>2 DEF Replied
  <2>4. ~Brings(StateMessage)
    BY <2>1, StateNow DEF PageTypes, DashboardTypeOK
  <2>5. ASSUME ~missed', offer' # NoToken PROVE Last(inbox', offer', Holds')
    <3>1. ~missed /\ msgs # <<>> /\ msgs[1] = r
      BY <2>2, <2>5 DEF Replied
    <3>2. CASE ~Brings(r)
      <4>1. offer' = offer
        BY <2>2, <2>5, <3>2 DEF Confirms
      <4>2. Last(inbox, offer, Holds)
        BY <1>0, <2>5, <3>1, <4>1
      <4>3. \A i \in DOMAIN msgs : ~Brings(msgs[i])
        BY <2>3, <2>4, <3>2
      <4>4. Last(inbox \o msgs, offer, Holds)
        BY <1>0, <2>3, <4>2, <4>3, LastGrows
      <4>5. Holds' <=> Holds
        BY <2>1, <4>1 DEF Holds, Brings
      <4> QED BY <2>3, <4>1, <4>4, <4>5 DEF Last
    <3>3. CASE Brings(r)
      <4> DEFINE n == Len(inbox) + 1
      <4>1. offer' = r.token
        BY <2>2, <3>3 DEF Confirms
      <4>2. /\ 1 \in DOMAIN msgs /\ Len(inbox) \in Nat /\ DOMAIN inbox = 1 .. Len(inbox)
            /\ DOMAIN inbox' \subseteq Nat
        <5>1. inbox' \in Seq(Msg)
          BY <1>0, <2>3, Grown
        <5> QED BY <1>0, <2>3, <3>1, <5>1, Elements
      <4>3. n \in DOMAIN inbox' /\ inbox'[n] = r
        BY <1>0, <2>3, <3>1, <4>2, Grown
      <4>4. ASSUME NEW j \in DOMAIN inbox', j > n PROVE ~Brings(inbox'[j])
        <5>1. j - Len(inbox) > 1 /\ Len(inbox) + (j - Len(inbox)) = j /\ j \notin DOMAIN inbox
          BY <4>2, <4>4
        <5>2. j - Len(inbox) \in DOMAIN msgs
          BY <1>0, <2>3, <4>4, <5>1, Grown
        <5>3. inbox'[j] = msgs[j - Len(inbox)]
          BY <1>0, <2>3, <5>1, <5>2, Grown
        <5> QED BY <2>3, <2>4, <5>1, <5>2, <5>3
      <4> HIDE DEF n
      <4> QED BY <3>3, <4>1, <4>3, <4>4 DEF Last
    <3> QED BY <3>2, <3>3
  <2> QED BY <2>5 DEF Newest, Holds, Brings
<1>7. CASE EspPublishes
  <2>1. UNCHANGED <<last, wakeToken, offer, missed>>
    BY <1>7, PublishesState, Zenon DEF confirmationVars, feedVars, pageVars
  <2>2. Holds' <=> Holds
    BY <2>1 DEF Holds, Brings
  <2>3. CASE inbox' = inbox
    BY <2>1, <2>2, <2>3, NewestKept
  <2>4. CASE inbox' = inbox \o <<StateMessage>>
    <3>1. StateMessage \in Msg /\ ~Brings(StateMessage)
      BY <1>7, PublishesState
    <3>2. <<StateMessage>> \in Seq(Msg) /\ \A i \in DOMAIN <<StateMessage>> : ~Brings(<<StateMessage>>[i])
      BY <3>1, Singles
    <3>3. ASSUME ~missed', offer' # NoToken PROVE Last(inbox', offer', Holds')
      <4>1. Last(inbox, offer, Holds)
        BY <1>0, <2>1, <3>3
      <4>2. Last(inbox \o <<StateMessage>>, offer, Holds)
        BY <1>0, <3>2, <4>1, LastGrows
      <4> QED BY <2>1, <2>2, <2>4, <4>2 DEF Last
    <3> QED BY <3>3 DEF Newest, Holds, Brings
  <2> QED BY <1>7, <2>3, <2>4, PublishesState
<1> QED BY <1>1, <1>2, <1>3, <1>i, <1>4, <1>5, <1>6, <1>7, PageCases

\* A length is one, or more.
LEMMA OneOrMore == \A n \in Nat : n >= 1 => n = 1 \/ n > 1
OBVIOUS

\* A cancellation stays the last word.
LEMMA CancellingStep ==
  ASSUME PageInd, [DashboardNext]_dashboardVars
  PROVE  Cancelling'
<1> USE DEF PageInd
<1>0. /\ cmds \in Seq(Cmd) /\ unacked \in Seq(Cmd)
      /\ cancelled /\ ~dropped => /\ unacked = <<>> \/ Cancels(unacked)
                                  /\ Cancels(cmds) \/ (cmds = <<>> /\ offer = NoToken /\ ~pending)
  BY DEF BusTypes, Cancelling
<1>1. CASE \/ UNCHANGED dashboardVars \/ Quiet \/ IgnoreReply \/ HandleLatestReply \/ Second \/ PageDrops
           \/ EspExpires \/ EspDrops \/ EspRestarts \/ EspPublishes
  <2>1. UNCHANGED <<cancelled, dropped, unacked, cmds>> /\ (offer' = offer \/ offer' = NoToken)
    <3>1. CASE UNCHANGED dashboardVars \/ Quiet \/ IgnoreReply \/ HandleLatestReply
      BY <3>1, Quietly, Zenon
      DEF dashboardVars, IgnoreReply, HandleLatestReply, espVars, confirmationVars, busVars
    <3>2. CASE Second \/ PageDrops
      BY <3>2, Zenon DEF Second, PageDrops, confirmationVars, busVars
    <3>3. CASE EspExpires \/ EspDrops \/ EspRestarts
      BY <3>3, EspAlone, Zenon DEF busVars
    <3>4. CASE EspPublishes
      BY <3>4, PublishesState, Zenon DEF confirmationVars, busVars
    <3> QED BY <1>1, <3>1, <3>2, <3>3, <3>4
  <2>2. pending' = pending \/ pending' = FALSE
    <3>1. CASE UNCHANGED dashboardVars \/ Quiet \/ IgnoreReply \/ HandleLatestReply
      BY <3>1, Quietly, Zenon DEF dashboardVars, IgnoreReply, HandleLatestReply, espVars
    <3>2. CASE Second \/ PageDrops \/ EspPublishes
      BY <3>2, Zenon DEF Second, PageDrops, EspPublishes
    <3>3. CASE EspExpires \/ EspDrops \/ EspRestarts
      BY <3>3, EspAlone, Zenon
    <3> QED BY <1>1, <3>1, <3>2, <3>3
  <2>3. pending' => pending
    BY <2>2
  <2> QED BY <1>0, <2>1, <2>3 DEF Cancelling, Cancels
<1>2. CASE Sending
  <2>1. /\ UNCHANGED <<offer, pending, dropped>>
        /\ \/ cancelled' = FALSE
           \/ cancelled' = TRUE /\ Cancels(cmds)' /\ Cancels(unacked)'
           \/ UNCHANGED <<cmds, unacked, cancelled>>
    BY <1>2, Sends DEF espVars, confirmationVars, busVars
  <2>2. CASE cancelled' = FALSE
    BY <2>2 DEF Cancelling
  <2>3. CASE Cancels(cmds)' /\ Cancels(unacked)'
    BY <2>3 DEF Cancelling
  <2>4. CASE UNCHANGED <<cmds, unacked, cancelled>>
    BY <1>0, <2>1, <2>4 DEF Cancelling, Cancels
  <2> QED BY <2>1, <2>2, <2>3, <2>4
<1>3. CASE Message
  <2>1. UNCHANGED <<offer, pending, dropped, cmds, cancelled>>
    BY <1>3, Arrives, Zenon DEF espVars, confirmationVars
  <2>2. Repeats
    BY <1>3, Arrives
  <2> QED BY <1>0, <2>1, <2>2 DEF Repeats, Cancelling, Cancels
<1>4. CASE PageConnects
  <2>1. UNCHANGED <<offer, pending, dropped, cancelled>>
    BY <1>4, Connects, Zenon DEF espVars, confirmationVars
  <2>2. /\ Repeats
        /\ cmds' = cmds \o unacked' /\ unacked' \in Seq(Cmd) /\ cmds' \in Seq(Cmd)
    BY <1>4, Connects
  <2>3. CASE unacked' = <<>>
    <3>1. cmds' = cmds
      BY <1>0, <2>2, <2>3, Grown
    <3> QED BY <1>0, <2>1, <2>3, <3>1 DEF Cancelling, Cancels
  <2>4. CASE Cancels(unacked)'
    <3>1. unacked' # <<>> /\ unacked'[Len(unacked')].cmd = "wake_cancel"
      BY <2>4 DEF Cancels
    <3>2. Len(unacked') \in DOMAIN unacked'
      BY <2>2, <3>1, Elements
    <3>3. cmds'[Len(cmds) + Len(unacked')] = unacked'[Len(unacked')] /\ Len(cmds') = Len(cmds) + Len(unacked')
          /\ Len(cmds) + Len(unacked') \in DOMAIN cmds'
      BY <1>0, <2>2, <3>2, Grown
    <3>4. cmds' # <<>>
      BY <3>3, EmptySeq
    <3> QED BY <2>4, <3>1, <3>3, <3>4 DEF Cancelling, Cancels
  <2>5. CASE unacked # <<>> /\ ~Cancels(unacked)
    BY <1>0, <2>1, <2>5 DEF Cancelling
  <2> QED BY <2>2, <2>3, <2>4, <2>5 DEF Repeats
<1>5. CASE BrokerDrops
  BY <1>5 DEF BrokerDrops, Cancelling
<1>6. CASE \E cmd \in OtherCmd : OtherSends(cmd)
  BY <1>6, OthersSend DEF Cancelling
<1>7. CASE EspReceives
  <2>1. UNCHANGED <<unacked, cancelled, dropped>> /\ cmds' = Tail(cmds) /\ cmds # <<>>
    BY <1>7, Zenon DEF EspReceives
  <2>2. Head(cmds).cmd = "wake_cancel" => offer' = NoToken /\ ~pending'
    BY <1>7, Receives
  <2>3. ASSUME cancelled, ~dropped
        PROVE  Cancels(cmds)' \/ (cmds' = <<>> /\ offer' = NoToken /\ ~pending')
    <3>1. cmds[Len(cmds)].cmd = "wake_cancel"
      BY <1>0, <2>1, <2>3 DEF Cancels
    <3>2. Len(cmds) \in DOMAIN cmds /\ Head(cmds) = cmds[1]
      BY <1>0, <2>1, Elements
    <3>3. CASE Len(cmds) = 1
      BY <1>0, <2>1, <2>2, <3>1, <3>2, <3>3, Rest
    <3>4. CASE Len(cmds) > 1
      <4>1. cmds'[Len(cmds) - 1] = cmds[Len(cmds)] /\ Len(cmds') = Len(cmds) - 1 /\ cmds' # <<>>
        BY <1>0, <2>1, <3>2, <3>4, Rest
      <4>2. cmds'[Len(cmds')].cmd = "wake_cancel"
        BY <3>1, <4>1
      <4>3. Cancels(cmds)'
        BY <4>1, <4>2 DEF Cancels
      <4> QED BY <4>3
    <3>5. Len(cmds) = 1 \/ Len(cmds) > 1
      <4>1. Len(cmds) \in Nat
        BY <1>0, Elements
      <4>2. Len(cmds) >= 1
        BY <1>0, <2>1, Elements
      <4> QED BY <4>1, <4>2, OneOrMore, Zenon
    <3> QED BY <3>3, <3>4, <3>5, Zenon
  <2> QED BY <1>0, <2>1, <2>3 DEF Cancelling, Cancels
<1> QED BY <1>1, <1>2, <1>3, <1>4, <1>5, <1>6, <1>7, PageCases

-----------------------------------------------------------------------------
(* The page: the theorems *)

\* Nothing is on its way at the start.
LEMMA PageStart == DashboardInit => PageInd
<1> SUFFICES ASSUME DashboardInit PROVE PageInd
  OBVIOUS
<1> USE DEF DashboardInit, ConfirmationInit
<1>1. PageTypes
  <2>1. /\ uptime \in 0 .. MaxUptime /\ sent \in 0 .. MaxCmds
        /\ countdown \in -1 .. MaxUptime + Ttl
    BY PageConstants
  <2>2. DashboardTypeOK
    BY <2>1 DEF DashboardTypeOK
  <2>3. due \in Nat /\ faults \in Nat
    OBVIOUS
  <2> QED BY <2>2, <2>3 DEF PageTypes, MaybeToken
<1>2. BusTypes
  BY PageConstants, EmptySeq DEF BusTypes
<1>3. Answers
  BY EmptySeq, PageConstants DEF Answers, Truthful
<1>4. StateFirst /\ Countdown /\ Newest /\ Cancelling
  BY PageConstants DEF StateFirst, Countdown, Newest, Cancelling
<1> QED BY <1>1, <1>2, <1>3, <1>4 DEF PageInd

\* Every step keeps the inductive invariant.
LEMMA PageStep ==
  ASSUME PageInd, [DashboardNext]_dashboardVars
  PROVE  PageInd'
<1>1. PageTypes' /\ BusTypes'
  BY PageTypesStep, BusTypesStep DEF PageInd
<1> QED
  BY <1>1, AnswersStep, StateFirstStep, CountdownStep, NewestStep, CancellingStep DEF PageInd

\* The inductive invariant gives what the user relies on.
LEMMA PageGives ==
  ASSUME PageInd
  PROVE  PageInv /\ CancelHolds
<1>1. DashboardTypeOK
  BY DEF PageInd, PageTypes
<1>2. TokenCurrent
  <2> SUFFICES ASSUME ~missed, last = NoAnswer, inbox = <<>>, wakeToken # NoToken, offer # NoToken
               PROVE  offer = wakeToken
    BY DEF TokenCurrent
  <2>1. Last(inbox, offer, wakeToken \in {offer, NoToken})
    BY PageConstants DEF PageInd, Newest
  <2> QED BY <2>1, EmptySeq DEF Last
<1>3. TokenStays
  BY DEF PageInd, Countdown, TokenStays
<1>4. CancelHolds
  BY DEF PageInd, Cancelling, Cancels, CancelHolds
<1> QED BY <1>1, <1>2, <1>3, <1>4 DEF PageInv

\* The inductive invariant holds always.
LEMMA PageAlways == DashboardSpec => []PageInd
BY PageStart, PageStep, PTL DEF DashboardSpec

\* The token on the screen is the open one once the page has looked at what
\* arrived, and stays there as long as the ESP would accept it.
THEOREM TokenOnPage == DashboardSpec => []PageInv
BY PageAlways, PageGives, PTL

\* After the user's cancellation was handled no token and no wake is left.
THEOREM CancellationHolds == DashboardSpec => []CancelHolds
BY PageAlways, PageGives, PTL

\* The page reports a success only for a token the ESP accepted.
THEOREM SuccessReported == DashboardSpec => SuccessTrue
<1>1. ASSUME PageInd, DashboardNext, wakePhase # "success", wakePhase' = "success"
      PROVE  last.token \in accepted
  <2>1. HandleLatestReply
    <3>1. CASE Sending
      BY <1>1, <3>1
      DEF Sending, RequestWake, ConfirmWake, CancelWake, HandlePing, ConfirmReboot, ResetWake, pageVars
    <3>2. CASE Quiet
      BY <1>1, <3>2 DEF Quiet, StartWake, Navigate, AutoClose, ExpireWake, ResetWake
    <3>3. CASE Message \/ IgnoreReply \/ PageDrops \/ PageConnects \/ BrokerDrops \/ EspPublishes
      BY <1>1, <3>3, Zenon
      DEF Message, IgnoreReply, PageDrops, PageConnects, BrokerDrops, EspPublishes, pageVars
    <3>4. CASE EspReceives \/ EspExpires \/ EspDrops \/ EspRestarts \/ Second
      BY <1>1, <3>4, Zenon DEF EspReceives, EspExpires, EspDrops, EspRestarts, Second, pageVars
    <3>5. ASSUME NEW cmd, OtherSends(cmd) PROVE FALSE
      BY <1>1, <3>5, Zenon DEF OtherSends, pageVars
    <3> QED BY <1>1, <3>1, <3>2, <3>3, <3>4, <3>5, PageCases
  <2>2. last.cmd = "wake_confirm" /\ last.ok
    BY <1>1, <2>1 DEF HandleLatestReply, OnWakeRequest, OnWakeConfirm
  <2> QED BY <1>1, <2>2 DEF PageInd, Answers, Truthful
<1>2. ASSUME PageInd, [DashboardNext]_dashboardVars
      PROVE  [wakePhase # "success" /\ wakePhase' = "success" => last.token \in accepted]_dashboardVars
  BY <1>1, <1>2
<1> QED BY <1>2, PageAlways, PTL DEF DashboardSpec, SuccessTrue

=============================================================================
