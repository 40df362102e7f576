---------------------------- MODULE VoiceService ---------------------------
(***************************************************************************)
(* The ESP32's voice service (src/services/voice_service.cpp) with the     *)
(* part of the media worker that it works with: the queue of one intent    *)
(* and sync_voice_config (src/services/media_control_service.cpp).         *)
(*                                                                         *)
(* Three tasks: the recognizer (ESP_SR), whose callback only queues        *)
(* events; the voice worker, which owns the session and the active table;  *)
(* and the media worker, which fetches a table, hands it to the voice      *)
(* worker, waits for the answer and acknowledges.  A new table is staged   *)
(* in the spare NVS slot, the recognizer is rebuilt with it, and only then *)
(* does the slot number move; every step may fail, and power may go at     *)
(* any moment.                                                             *)
(*                                                                         *)
(* A table is a revision and a sequence of actions: what is said is the    *)
(* position of a phrase in the table the recognizer was built with.  The   *)
(* session's clock is abstracted: a command may always come too late.      *)
(***************************************************************************)
EXTENDS Naturals, Sequences, FiniteSets

CONSTANTS
  Actions,       \* action ids of the daemon
  Snapshots,     \* tables the daemon may publish and voice_config_is_valid admits
  Blank,         \* a slot never written, or one that cannot be read
  Off,           \* the recognizer is not running
  NoUpdate,      \* no table waits to be activated
  QueueLength    \* VOICE_EVENT_QUEUE_LENGTH

Table == [revision: Nat, commands: Seq(Actions)]

\* activeConfig = {}: only the built-in commands.
Builtins == [revision |-> 0, commands |-> <<>>]

ASSUME VoiceAssumption ==
  /\ \A s \in Snapshots : s \in Table /\ s.revision > 0
  /\ Blank \notin Snapshots
  /\ Off \notin Snapshots \cup {Builtins}
  /\ NoUpdate \notin Snapshots
  /\ QueueLength \in Nat \ {0}

VARIABLES
  slot,      \* NVS: the active slot, 0 or 1
  stored,    \* NVS: the tables in the two slots
  active,    \* activeConfig
  callback,  \* callbackVoiceRevision
  recog,     \* the table the recognizer runs with, or Off
  mode,      \* its mode: wake word or command
  queue,     \* speechQueue
  listening, \* session.listening
  update,    \* the table being activated, or deferred (pendingUpdate)
  worker,    \* where the voice worker is
  intent,    \* mediaQueue: one intent at most
  media,     \* what the media worker does
  fetched,   \* the table it holds during a sync
  stuck,     \* history: ESP_SR.end() failed on a table that was given up
  heard,     \* history: the last custom command acted on
  acked      \* history: the last revision acknowledged, and what NVS held then

nvsVars   == <<slot, stored>>
recogVars == <<recog, mode>>
mediaVars == <<intent, media, fetched>>
histVars  == <<stuck, heard, acked>>
vars == <<nvsVars, active, callback, recogVars, queue, listening, update,
          worker, mediaVars, histVars>>

\* "other": wake, which touches none of this state, or an id of no command.
Command == {"other", "media", "sync", "custom"}

-----------------------------------------------------------------------------
(* The recognizer (external) and its callback *)

\* on_speech_event: stamp the event with the revision and queue it; a full
\* queue drops it.
Enqueue(m) ==
  queue' = IF Len(queue) < QueueLength THEN Append(queue, m) ELSE queue

\* A queued event.  `meant' and `stale' are history: the action the phrase has
\* in the recognizer's table, and whether its session is over.
Event(kind, cmd, index) ==
  [ kind  |-> kind, cmd |-> cmd, index |-> index, rev |-> callback,
    meant |-> IF cmd = "custom" THEN recog.commands[index] ELSE Off,
    stale |-> FALSE ]

Recognize(m) ==
  /\ Enqueue(m)
  /\ UNCHANGED <<nvsVars, active, callback, recogVars, listening, update,
                 worker, mediaVars, histVars>>

HearWakeWord ==
  /\ recog # Off /\ mode = "wakeword"
  /\ Recognize(Event("wakeword", "other", 0))

HearCommand ==
  /\ recog # Off /\ mode = "command"
  /\ \/ \E cmd \in Command \ {"custom"} : Recognize(Event("command", cmd, 0))
     \/ \E i \in 1 .. Len(recog.commands) : Recognize(Event("command", "custom", i))

\* MultiNet times out, again and again while it stays in command mode.
HearNothing ==
  /\ recog # Off /\ mode = "command"
  /\ Recognize(Event("timeout", "other", 0))

-----------------------------------------------------------------------------
(* The voice worker: events *)

\* xQueueReceive.
Take(kind) ==
  /\ worker = "ready" /\ (update = NoUpdate \/ listening)
  /\ queue # <<>> /\ Head(queue).kind = kind

\* The session ends or a new one begins: what is still queued belongs to none.
Rest == [i \in 1 .. Len(queue) - 1 |-> [queue[i + 1] EXCEPT !.stale = TRUE]]

\* ESP_SR.setMode may fail, and does if nothing runs.
SetMode(m) ==
  /\ \/ recog # Off /\ mode' = m
     \/ UNCHANGED mode
  /\ UNCHANGED recog

workerIdle == <<nvsVars, active, callback, update, worker>>

\* The wake word opens a session if the recognizer can listen for commands.
OnWakeWord ==
  /\ Take("wakeword")
  /\ \/ listening /\ queue' = Tail(queue) /\ UNCHANGED <<listening, recogVars>>
     \/ /\ ~listening
        /\ queue' = Rest
        /\ \/ recog # Off /\ mode' = "command" /\ listening' = TRUE
           \/ UNCHANGED <<mode, listening>>
        /\ UNCHANGED recog
  /\ UNCHANGED <<workerIdle, mediaVars, histVars>>

OnTimeout ==
  /\ Take("timeout")
  /\ listening' = FALSE
  /\ queue' = Rest
  /\ SetMode("wakeword")
  /\ UNCHANGED <<workerIdle, mediaVars, histVars>>

\* A command outside a session, an unknown one or one that came too late.
OnCommandRejected ==
  /\ Take("command")
  /\ listening' = FALSE
  /\ queue' = IF listening THEN Rest ELSE Tail(queue)
  /\ SetMode("wakeword")
  /\ UNCHANGED <<workerIdle, mediaVars, histVars>>

\* media_control_submit and its siblings: one intent fits; Wi-Fi, clock or
\* age may also forbid it.
Submit(kind) ==
  /\ \/ intent = "none" /\ intent' = kind
     \/ UNCHANGED intent
  /\ UNCHANGED <<media, fetched>>

\* A custom command: ignored if its table is not the active one, else the
\* action at its place in the active table is submitted.
Custom(e) ==
  \/ /\ e.rev # active.revision \/ e.index > Len(active.commands)
     /\ UNCHANGED <<heard, mediaVars>>
  \/ /\ e.rev = active.revision /\ e.index <= Len(active.commands)
     /\ heard' = [meant |-> e.meant, action |-> active.commands[e.index], stale |-> e.stale]
     /\ Submit("custom")

\* Faulty variant: the session stays open.
OnCommandAcceptedOpen ==
  /\ Take("command") /\ listening /\ recog # Off
  /\ UNCHANGED listening
  /\ queue' = Rest
  /\ mode' = "wakeword" /\ UNCHANGED recog
  /\ LET e == Head(queue)
     IN \/ e.cmd = "media" /\ Submit("media") /\ UNCHANGED heard
        \/ e.cmd = "sync" /\ Submit("sync") /\ UNCHANGED heard
        \/ e.cmd = "custom" /\ Custom(e)
        \/ e.cmd = "other" /\ UNCHANGED <<heard, mediaVars>>
  /\ UNCHANGED <<workerIdle, stuck, acked>>

\* A command inside a session, once the recognizer is back in wake-word mode.
OnCommandAccepted ==
  /\ Take("command") /\ listening /\ recog # Off
  /\ listening' = FALSE
  /\ queue' = Rest
  /\ mode' = "wakeword" /\ UNCHANGED recog
  /\ LET e == Head(queue)
     IN \/ e.cmd = "media" /\ Submit("media") /\ UNCHANGED heard
        \/ e.cmd = "sync" /\ Submit("sync") /\ UNCHANGED heard
        \/ e.cmd = "custom" /\ Custom(e)
        \/ e.cmd = "other" /\ UNCHANGED <<heard, mediaVars>>
  /\ UNCHANGED <<workerIdle, stuck, acked>>

-----------------------------------------------------------------------------
(* The voice worker: activate_config *)

\* Faulty variant: a table that arrives in a session is dropped.
OnUpdateDropped ==
  /\ worker = "ready" /\ update = NoUpdate
  /\ queue # <<>> /\ Head(queue).kind = "update"
  /\ queue' = Tail(queue)
  /\ update' = IF listening THEN NoUpdate ELSE fetched
  /\ UNCHANGED <<nvsVars, active, callback, recogVars, listening, worker,
                 mediaVars, histVars>>

\* A table arrives: at once, or deferred until the session ends.
OnUpdate ==
  /\ worker = "ready" /\ update = NoUpdate
  /\ queue # <<>> /\ Head(queue).kind = "update"
  /\ queue' = Tail(queue)
  /\ update' = fetched
  /\ UNCHANGED <<nvsVars, active, callback, recogVars, listening, worker,
                 mediaVars, histVars>>

\* finish_config_update: the media worker is told the outcome.
Finished(ok) ==
  /\ media' = IF ok THEN "applied" ELSE "idle"
  /\ update' = NoUpdate
  /\ worker' = "ready"
  /\ UNCHANGED <<intent, fetched>>

\* Faulty variant: an older table counts as applied.
ActivateOldOk ==
  /\ worker = "ready" /\ update # NoUpdate /\ ~listening
  /\ \/ Finished(FALSE)        \* voicePrefs is not available
     \/ update.revision = active.revision /\ Finished(update = active)
     \/ update.revision < active.revision /\ Finished(TRUE)
     \/ /\ update.revision > active.revision
        /\ worker' = "stage"
        /\ UNCHANGED <<update, mediaVars>>
  /\ UNCHANGED <<nvsVars, active, callback, recogVars, queue, listening, histVars>>

\* A revision already active is confirmed if it is the same table, an older
\* one is refused, and so is any without storage.
Activate ==
  /\ worker = "ready" /\ update # NoUpdate /\ ~listening
  /\ \/ Finished(FALSE)        \* voicePrefs is not available
     \/ update.revision = active.revision /\ Finished(update = active)
     \/ update.revision < active.revision /\ Finished(FALSE)
     \/ /\ update.revision > active.revision
        /\ worker' = "stage"
        /\ UNCHANGED <<update, mediaVars>>
  /\ UNCHANGED <<nvsVars, active, callback, recogVars, queue, listening, histVars>>

\* Faulty variant: the table is written over the active one.
StageActive ==
  /\ worker = "stage"
  /\ \/ /\ stored' = [stored EXCEPT ![slot] = update]
        /\ worker' = "stop"
        /\ UNCHANGED <<update, mediaVars>>
     \/ /\ \E t \in {stored[1 - slot], update, Blank} : stored' = [stored EXCEPT ![1 - slot] = t]
        /\ Finished(FALSE)
  /\ UNCHANGED <<slot, active, callback, recogVars, queue, listening, histVars>>

\* Write the spare slot and read it back.
Stage ==
  /\ worker = "stage"
  /\ \/ /\ stored' = [stored EXCEPT ![1 - slot] = update]
        /\ worker' = "stop"
        /\ UNCHANGED <<update, mediaVars>>
     \/ /\ \E t \in {stored[1 - slot], update, Blank} : stored' = [stored EXCEPT ![1 - slot] = t]
        /\ Finished(FALSE)
  /\ UNCHANGED <<slot, active, callback, recogVars, queue, listening, histVars>>

\* ESP_SR.end(), which fails if nothing runs, and the emptied queue.
StopRecognizer ==
  /\ worker = "stop"
  /\ \/ /\ recog # Off
        /\ recog' = Off /\ UNCHANGED mode
        /\ queue' = <<>>
        /\ worker' = "build"
        /\ UNCHANGED <<update, mediaVars>>
     \/ Finished(FALSE) /\ UNCHANGED <<recogVars, queue>>
  /\ UNCHANGED <<nvsVars, active, callback, listening, histVars>>

\* start_recognizer: it begins in wake-word mode, and only if none runs.  A
\* table whose phrases MultiNet rejects is given up: ESP_SR is ended again, and
\* goes on with the table if that fails.
Runs(table) == recog = Off /\ recog' = table /\ mode' = "wakeword"

Starts(table) == Runs(table) /\ UNCHANGED stuck

StartFails(table) ==
  \/ UNCHANGED <<recogVars, stuck>>
  \/ Runs(table) /\ stuck' = TRUE

Build ==
  /\ worker = "build"
  /\ \/ Starts(update) /\ worker' = "switch"
     \/ StartFails(update) /\ worker' = "restore"
  /\ UNCHANGED <<nvsVars, active, callback, queue, listening, update, mediaVars, heard, acked>>

\* The slot number is written; if that fails, the rebuilt recognizer is ended.
SwitchSlot ==
  /\ worker = "switch"
  /\ \/ slot' = 1 - slot /\ worker' = "commit" /\ UNCHANGED <<recogVars, stuck>>
     \/ /\ worker' = "restore" /\ UNCHANGED slot
        /\ \/ recog' = Off /\ UNCHANGED <<mode, stuck>>
           \/ stuck' = TRUE /\ UNCHANGED recogVars
  /\ UNCHANGED <<stored, active, callback, queue, listening, update, mediaVars, heard, acked>>

Commit ==
  /\ worker = "commit"
  /\ active' = update
  /\ callback' = update.revision
  /\ Finished(TRUE)
  /\ UNCHANGED <<nvsVars, recogVars, queue, listening, histVars>>

\* Rollback: the previous table, else the built-in commands, else nothing.
Restore ==
  /\ worker = "restore"
  /\ \/ Starts(active) /\ Finished(FALSE)
     \/ StartFails(active) /\ worker' = "builtins" /\ UNCHANGED <<update, mediaVars>>
  /\ UNCHANGED <<nvsVars, active, callback, queue, listening, heard, acked>>

RestoreBuiltins ==
  /\ worker = "builtins"
  /\ \/ Starts(Builtins) /\ active' = Builtins /\ callback' = 0
     \/ StartFails(Builtins) /\ UNCHANGED <<active, callback>>
  /\ Finished(FALSE)
  /\ UNCHANGED <<nvsVars, queue, listening, heard, acked>>

-----------------------------------------------------------------------------
(* The media worker *)

\* It takes the intent; a media or custom command is sent and reported.
TakeIntent ==
  /\ media = "idle" /\ intent # "none"
  /\ intent' = "none"
  /\ media' = IF intent = "sync" THEN "fetch" ELSE "send"
  /\ UNCHANGED <<nvsVars, active, callback, recogVars, queue, listening,
                 update, worker, fetched, histVars>>

Sent ==
  /\ media = "send"
  /\ media' = "idle"
  /\ UNCHANGED <<nvsVars, active, callback, recogVars, queue, listening,
                 update, worker, intent, fetched, histVars>>

\* fetch_voice_config, then voice_service_apply_config: the table is queued
\* like a speech event, and refused if the queue is full.
Fetch ==
  /\ media = "fetch"
  /\ \/ \E s \in Snapshots :
          /\ Len(queue) < QueueLength
          /\ queue' = Append(queue, Event("update", "other", 0))
          /\ fetched' = s
          /\ media' = "applying"
     \/ media' = "idle" /\ UNCHANGED <<queue, fetched>>
  /\ UNCHANGED <<nvsVars, active, callback, recogVars, listening, update,
                 worker, intent, histVars>>

\* post_voice_ack, whose outcome is only reported.
Acknowledge ==
  /\ media = "applied"
  /\ media' = "idle"
  /\ acked' = [revision |-> fetched.revision, nvs |-> stored[slot]]
  /\ UNCHANGED <<nvsVars, active, callback, recogVars, queue, listening,
                 update, worker, intent, fetched, stuck, heard>>

-----------------------------------------------------------------------------
(* Boot *)

\* The table voice_service_start reads from the active slot.
Loaded == IF stored[slot] = Blank THEN Builtins ELSE stored[slot]

NothingHeard == [meant |-> Off, action |-> Off, stale |-> FALSE]

\* Power is lost, or ESP.restart(), and voice_service_start runs again.  It
\* falls back to the built-in commands; if even these or the task fail, there
\* is no voice worker, whatever became of the recognizer.
Reboot ==
  /\ mode' = "wakeword" /\ queue' = <<>>
  /\ listening' = FALSE /\ update' = NoUpdate
  /\ intent' = "none" /\ media' = "idle" /\ fetched' = Builtins
  /\ heard' = NothingHeard
  /\ \E t \in {Loaded, Builtins} :
       /\ active' = t /\ callback' = t.revision
       /\ \/ worker' = "ready" /\ recog' = t /\ stuck' = FALSE
          \/ worker' = "none" /\ recog' = Off /\ stuck' = FALSE
          \/ worker' = "none" /\ recog' \in {Loaded, Builtins} /\ stuck' = TRUE
  /\ UNCHANGED <<nvsVars, acked>>

Init ==
  /\ slot = 0 /\ stored = [s \in {0, 1} |-> Blank]
  /\ active = Builtins /\ callback = 0
  /\ recog = Builtins /\ mode = "wakeword"
  /\ queue = <<>> /\ listening = FALSE
  /\ update = NoUpdate /\ worker = "ready"
  /\ intent = "none" /\ media = "idle" /\ fetched = Builtins
  /\ stuck = FALSE
  /\ heard = NothingHeard
  /\ acked = NoUpdate

Hear == HearWakeWord \/ HearCommand \/ HearNothing

Handle == OnWakeWord \/ OnTimeout \/ OnCommandRejected \/ OnCommandAccepted \/ OnUpdate

Activation ==
  \/ Activate \/ Stage \/ StopRecognizer \/ Build \/ SwitchSlot \/ Commit
  \/ Restore \/ RestoreBuiltins

Worker == Handle \/ Activation

Media == TakeIntent \/ Sent \/ Fetch \/ Acknowledge

Next == Hear \/ Worker \/ Media \/ Reboot

Spec == Init /\ [][Next]_vars

-----------------------------------------------------------------------------
(* Properties *)

Stages == {"none", "ready", "stage", "stop", "build", "switch", "commit", "restore", "builtins"}

TypeOK ==
  /\ slot \in {0, 1} /\ stored \in [{0, 1} -> Snapshots \cup {Blank}]
  /\ active \in Snapshots \cup {Builtins}
  /\ callback \in Nat
  /\ recog \in Snapshots \cup {Builtins, Off} /\ mode \in {"wakeword", "command"}
  /\ Len(queue) <= QueueLength
  /\ listening \in BOOLEAN /\ stuck \in BOOLEAN
  /\ update \in Snapshots \cup {NoUpdate} /\ worker \in Stages
  /\ intent \in {"none", "media", "sync", "custom"}
  /\ media \in {"idle", "send", "fetch", "applying", "applied"}
  /\ fetched \in Snapshots \cup {Builtins}

\* windows-media-daemon.md: "The active phrase snapshot survives an ESP reboot".
\* Whatever step of an activation fails or is cut off by a power loss, the
\* active slot holds the active table; only the moment between the move of the
\* slot and the assignment of activeConfig is ahead of memory.
ActiveStored ==
  active # Builtins => stored[slot] = IF worker = "commit" THEN update ELSE active

\* The recognizer is never left running with another table than the one its
\* commands are looked up in, however the rebuild, the slot or the rollback
\* failed - unless ESP_SR itself refused to stop.
RecognizerMatches ==
  worker = "ready" /\ recog # Off /\ ~stuck => recog = active /\ callback = active.revision

\* media-control-https.md: the ESP acknowledges "after successful activation":
\* what is acknowledged is what the ESP will start with after a power loss.
AckedIsStored ==
  acked # NoUpdate => acked.nvs # Blank /\ acked.nvs.revision = acked.revision

\* Flash, memory and the recognizer have one table, between any two events, the
\* one that is acknowledged, and the event queue keeps its bound.
VoiceInv == TypeOK /\ ActiveStored /\ RecognizerMatches /\ AckedIsStored

\* A custom action is the one the spoken phrase has in the table it was
\* recognized with, although the table may be replaced between recognition and
\* handling, and it was spoken in the session it is handled in.
HeardAsMeant == ~stuck => heard.action = heard.meant /\ ~heard.stale

\* The media worker waits for the voice worker without a timeout
\* (portMAX_DELAY), so its table is never lost on the way: it is queued behind
\* other events, deferred behind a session or being activated, in one place
\* only, and nowhere once the wait is over (voice_service_apply_config).
UpdateKept ==
  LET queued == { i \in DOMAIN queue : queue[i].kind = "update" }
  IN Cardinality(queued) + (IF update = NoUpdate THEN 0 ELSE 1) =
       (IF media = "applying" THEN 1 ELSE 0)

=============================================================================
