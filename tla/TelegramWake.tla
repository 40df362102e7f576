---------------------------- MODULE TelegramWake ---------------------------
(***************************************************************************)
(* The ESP32's Telegram bot (src/services/telegram_service.cpp) and the    *)
(* wake tracker it shares with the main loop (src/services/wake_service.cpp). *)
(*                                                                         *)
(* The telegram_poll task fetches one update at a time, handles it, and    *)
(* only then moves its offset, first in RAM and then in NVS; the next      *)
(* getUpdates tells Telegram to forget what lies below the offset.  Power  *)
(* may go, and a write to NVS may fail, at any moment.                     *)
(*                                                                         *)
(* A wake is started by that task, field by field, and watched by          *)
(* wake_poll on the loop task, with no lock between them: wake_poll probes *)
(* the PC, tells the chat (a blocking HTTPS call) and clears the fields.   *)
(*                                                                         *)
(* Updates are reduced to what they make the handler do.  Replies have no  *)
(* effect on the state: each may fail, and no caller looks at the result.  *)
(* Times saturate: only their comparison with a limit matters.  Wi-Fi that *)
(* is down, and the back-off after a failed poll, delay steps and no more. *)
(***************************************************************************)
EXTENDS Naturals, Sequences

CONSTANTS
  Chats,         \* chats that talk to the bot
  NoChat,        \* the empty chat id
  MaxUpdates,    \* bound of the model: updates sent to the bot
  MaxFaults,     \* bound of the model: power losses and failed writes
  RetryTime,     \* WAKE_RETRY_MS
  WakeTime       \* WAKE_TIMEOUT_MS

ASSUME TelegramAssumption ==
  /\ NoChat \notin Chats
  /\ MaxUpdates \in Nat /\ MaxFaults \in Nat
  /\ RetryTime \in Nat /\ WakeTime \in Nat /\ RetryTime < WakeTime

\* "wake": /wake force or a confirmation; "reboot": /reboot; "reply": every
\* other command and callback that is answered; "ignored": the rest.
Update == [kind: {"wake", "reboot", "reply", "ignored"}, chat: Chats]

VARIABLES
  updates,     \* Telegram: what has been sent to the bot, ids 1, 2, ...
  forgotten,   \* Telegram: updates below this id are not delivered again
  offset,      \* telegramOffset
  saved,       \* NVS: the stored offset
  hand,        \* the update being handled
  task,        \* where the telegram_poll task is
  wakePending,
  wakeChat,    \* wakeChatId
  age,         \* millis() - wakeStartMs
  rest,        \* millis() - lastWakeCheck
  uptime,      \* millis()
  loop,        \* where wake_poll is
  faults,      \* power losses and failed writes so far
  runs,        \* history: how often each update was handled to its end
  hits,        \* history: how often a fault hit an update in hand
  promised,    \* history: the chat last told to wait, until it is told more
  overlap      \* history: that wake was started while another one was ended

serverVars == <<updates, forgotten>>
wakeVars   == <<wakePending, wakeChat, age, rest>>
histVars   == <<runs, hits, promised, overlap>>
vars == <<serverVars, offset, saved, hand, task, wakeVars, uptime, loop, faults, histVars>>

\* wake_poll has decided to end the wake it looked at.
Ending == {"tell", "clear", "clear_fields"}

Starting == {"start_times", "start_chat"}

Grown(t, limit) == IF t < limit THEN t + 1 ELSE limit

-----------------------------------------------------------------------------
(* Telegram and its users (external) *)

UserSends(u) ==
  /\ Len(updates) < MaxUpdates
  /\ updates' = Append(updates, u)
  /\ runs' = Append(runs, 0)
  /\ hits' = Append(hits, 0)
  /\ UNCHANGED <<forgotten, offset, saved, hand, task, wakeVars, uptime, loop,
                 faults, promised, overlap>>

-----------------------------------------------------------------------------
(* The telegram_poll task *)

\* Faulty variant: the offset is stored before the update is handled.
GetUpdatesStored ==
  /\ task = "idle"
  /\ forgotten' = IF offset > forgotten THEN offset ELSE forgotten
  /\ \/ /\ forgotten' \in DOMAIN updates
        /\ hand' = forgotten'
        /\ saved' = hand' + 1
        /\ task' = "handle"
     \/ UNCHANGED <<hand, task, saved>>
  /\ UNCHANGED <<updates, offset, wakeVars, uptime, loop, faults, histVars>>

\* getUpdates with limit 1.  The answer may be lost after Telegram has taken
\* the offset: parse_updates is not reached and the poll is tried again.
GetUpdates ==
  /\ task = "idle"
  /\ forgotten' = IF offset > forgotten THEN offset ELSE forgotten
  /\ \/ /\ forgotten' \in DOMAIN updates
        /\ hand' = forgotten'
        /\ task' = "handle"
     \/ UNCHANGED <<hand, task>>
  /\ UNCHANGED <<updates, offset, saved, wakeVars, uptime, loop, faults, histVars>>

\* The handler of update hand has returned.
Handled ==
  /\ task' = "persist"
  /\ runs' = [runs EXCEPT ![hand] = @ + 1]

\* handleCommand and handleCallback for everything but a wake.
HandleOther ==
  /\ task = "handle"
  /\ updates[hand].kind # "wake"
  /\ Handled
  /\ UNCHANGED <<serverVars, offset, saved, hand, wakeVars, uptime, loop, faults,
                 hits, promised, overlap>>

\* wake_send_magic could not send the packet; the chat is told so.
SendMagicFailed ==
  /\ task = "handle"
  /\ updates[hand].kind = "wake"
  /\ Handled
  /\ UNCHANGED <<serverVars, offset, saved, hand, wakeVars, uptime, loop, faults,
                 hits, promised, overlap>>

\* The magic packet is sent; wake_start_polling sets its fields one by one.
StartPolling ==
  /\ task = "handle"
  /\ updates[hand].kind = "wake"
  /\ wakePending' = TRUE
  /\ task' = "start_times"
  /\ promised' = NoChat
  /\ overlap' = (loop \in Ending)
  /\ UNCHANGED <<serverVars, offset, saved, hand, wakeChat, age, rest, uptime, loop,
                 faults, runs, hits>>

StartTimes ==
  /\ task = "start_times"
  /\ age' = 0 /\ rest' = 0
  /\ task' = "start_chat"
  /\ UNCHANGED <<serverVars, offset, saved, hand, wakePending, wakeChat, uptime,
                 loop, faults, histVars>>

\* Faulty variant: the chat of a wake that is pending is kept.
StartChatKept ==
  /\ task = "start_chat"
  /\ wakeChat' = IF wakeChat = NoChat THEN updates[hand].chat ELSE wakeChat
  /\ promised' = updates[hand].chat
  /\ Handled
  /\ UNCHANGED <<serverVars, offset, saved, hand, wakePending, age, rest, uptime,
                 loop, faults, hits, overlap>>

\* The chat is set, the chat is asked to wait, the handler returns.
StartChat ==
  /\ task = "start_chat"
  /\ wakeChat' = updates[hand].chat
  /\ promised' = updates[hand].chat
  /\ Handled
  /\ UNCHANGED <<serverVars, offset, saved, hand, wakePending, age, rest, uptime,
                 loop, faults, hits, overlap>>

\* putLong("offset"): its result is ignored.
PutOffset(value) ==
  \/ saved' = value /\ UNCHANGED <<faults, hits>>
  \/ /\ faults < MaxFaults
     /\ faults' = faults + 1
     /\ hits' = [hits EXCEPT ![hand] = @ + 1]
     /\ UNCHANGED saved

\* Faulty variant: the offset is moved in RAM only.
PersistNot ==
  /\ task = "persist"
  /\ offset' = hand + 1
  /\ task' = IF updates[hand].kind = "reboot" THEN "restart" ELSE "idle"
  /\ UNCHANGED <<serverVars, saved, faults, hits, hand, wakeVars, uptime, loop, runs,
                 promised, overlap>>

\* The end of telegram_poll: the offset moves, and is written once more when
\* a restart follows.
Persist ==
  /\ task = "persist"
  /\ offset' = hand + 1
  /\ PutOffset(hand + 1)
  /\ task' = IF updates[hand].kind = "reboot" THEN "restart" ELSE "idle"
  /\ UNCHANGED <<serverVars, hand, wakeVars, uptime, loop, runs, promised, overlap>>

\* Everything that is not in NVS starts again; telegram_setup reads the offset.
Boot(stored) ==
  /\ offset' = stored
  /\ task' = "idle" /\ loop' = "idle"
  /\ hand' = 0
  /\ wakePending' = FALSE /\ wakeChat' = NoChat
  /\ age' = 0 /\ rest' = 0 /\ uptime' = 0
  /\ promised' = NoChat /\ overlap' = FALSE
  /\ UNCHANGED <<serverVars, runs>>

Restart ==
  /\ task = "restart"
  /\ PutOffset(offset)
  /\ Boot(saved')

PowerLoss ==
  /\ faults < MaxFaults
  /\ faults' = faults + 1
  /\ hits' = IF task = "idle" THEN hits ELSE [hits EXCEPT ![hand] = @ + 1]
  /\ Boot(saved)
  /\ UNCHANGED saved

-----------------------------------------------------------------------------
(* wake_poll, on the loop task *)

\* A wake is pending and was not looked at for RetryTime.
WakeProbe ==
  /\ loop = "idle"
  /\ wakePending
  /\ rest >= RetryTime
  /\ loop' = "probe"
  /\ UNCHANGED <<serverVars, offset, saved, hand, task, wakeVars, uptime, faults, histVars>>

\* The probe answers, or time is up: the chat will be told.
WakeOver ==
  /\ loop = "probe"
  /\ loop' = "tell"
  /\ overlap' = (overlap \/ task \in Starting)
  /\ UNCHANGED <<serverVars, offset, saved, hand, task, wakeVars, uptime, faults,
                 runs, hits, promised>>

\* Faulty variant: the time limit is held against the last look at the PC.
WakeUnansweredLate ==
  /\ loop = "probe"
  /\ rest < WakeTime
  /\ rest' = 0
  /\ loop' = "idle"
  /\ UNCHANGED <<serverVars, offset, saved, hand, task, wakePending, wakeChat, age,
                 uptime, faults, histVars>>

\* No answer, and the wake is younger than WakeTime.
WakeUnanswered ==
  /\ loop = "probe"
  /\ age < WakeTime
  /\ rest' = 0
  /\ loop' = "idle"
  /\ UNCHANGED <<serverVars, offset, saved, hand, task, wakePending, wakeChat, age,
                 uptime, faults, histVars>>

\* telegram_send_text_once(wakeChatId, ...).
WakeTell ==
  /\ loop = "tell"
  /\ loop' = "clear"
  /\ promised' = IF promised = wakeChat THEN NoChat ELSE promised
  /\ UNCHANGED <<serverVars, offset, saved, hand, task, wakeVars, uptime, faults,
                 runs, hits, overlap>>

\* wake_clear: the flag first, then the other fields.
WakeClearFlag ==
  /\ loop = "clear"
  /\ wakePending' = FALSE
  /\ loop' = "clear_fields"
  /\ UNCHANGED <<serverVars, offset, saved, hand, task, wakeChat, age, rest, uptime,
                 faults, histVars>>

WakeClearFields ==
  /\ loop = "clear_fields"
  /\ wakeChat' = NoChat
  /\ age' = uptime
  /\ rest' = IF uptime < RetryTime THEN uptime ELSE RetryTime
  /\ loop' = "idle"
  /\ UNCHANGED <<serverVars, offset, saved, hand, task, wakePending, uptime, faults,
                 histVars>>

Tick ==
  /\ uptime < WakeTime \/ age < WakeTime \/ rest < RetryTime
  /\ uptime' = Grown(uptime, WakeTime)
  /\ age' = Grown(age, WakeTime)
  /\ rest' = Grown(rest, RetryTime)
  /\ UNCHANGED <<serverVars, offset, saved, hand, task, wakePending, wakeChat, loop,
                 faults, histVars>>

-----------------------------------------------------------------------------

Init ==
  /\ updates = <<>> /\ forgotten = 1
  /\ offset = 1 /\ saved = 1
  /\ hand = 0 /\ task = "idle"
  /\ wakePending = FALSE /\ wakeChat = NoChat
  /\ age = 0 /\ rest = 0 /\ uptime = 0
  /\ loop = "idle" /\ faults = 0
  /\ runs = <<>> /\ hits = <<>>
  /\ promised = NoChat /\ overlap = FALSE

Poll ==
  \/ GetUpdates \/ HandleOther \/ SendMagicFailed
  \/ StartPolling \/ StartTimes \/ StartChat \/ Persist \/ Restart

WakePoll ==
  \/ WakeProbe \/ WakeOver \/ WakeUnanswered \/ WakeTell
  \/ WakeClearFlag \/ WakeClearFields

Next ==
  \/ \E u \in Update : UserSends(u)
  \/ Poll \/ WakePoll \/ PowerLoss \/ Tick

Spec == Init /\ [][Next]_vars

\* Both tasks run, and so does time; Wi-Fi comes back whenever it was lost.
FairSpec == Spec /\ WF_vars(Poll) /\ WF_vars(WakePoll) /\ WF_vars(Tick)

-----------------------------------------------------------------------------
(* Properties *)

TypeOK ==
  /\ updates \in Seq(Update) /\ Len(updates) <= MaxUpdates
  /\ DOMAIN runs = DOMAIN updates /\ DOMAIN hits = DOMAIN updates
  /\ {forgotten, offset, saved} \subseteq 1 .. Len(updates) + 1
  /\ task \in {"idle", "handle", "persist", "restart"} \cup Starting
  /\ task = "idle" \/ hand \in DOMAIN updates
  /\ wakePending \in BOOLEAN /\ wakeChat \in Chats \cup {NoChat}
  /\ age \in 0 .. WakeTime /\ rest \in 0 .. RetryTime /\ uptime \in 0 .. WakeTime
  /\ loop \in {"idle", "probe"} \cup Ending
  /\ faults \in 0 .. MaxFaults
  /\ promised \in Chats \cup {NoChat} /\ overlap \in BOOLEAN

\* An update is handled again only when a power loss or a failed write kept
\* its offset out of NVS; in particular /reboot does not restart the device
\* for ever (telegram_poll saves the offset before ESP.restart).
HandledOnce == \A u \in DOMAIN updates : runs[u] <= 1 + hits[u]

\* No command is lost: whatever fails, Telegram is told to forget an update
\* only after its handler has run to the end.
NoneSkipped == \A u \in DOMAIN updates : u < forgotten => runs[u] >= 1

\* No update is skipped, and no offset runs ahead of what Telegram has sent.
TelegramInv == TypeOK /\ NoneSkipped

\* A chat that was asked to wait is the one that wake_poll watches for,
\* until it is told how the wake ended - unless the wake was started while
\* wake_poll was ending another one, whose wake_clear then wipes it.
PromiseTracked ==
  (promised # NoChat /\ ~overlap) => (wakePending /\ wakeChat = promised)

\* A wake does not stay pending for ever, although the fields are written
\* by two tasks and the PC may never answer.
WakeEnds == wakePending ~> ~wakePending
=============================================================================
