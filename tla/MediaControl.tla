---------------------------- MODULE MediaControl ---------------------------
(***************************************************************************)
(* The ESP32's media control (src/services/media_control_service.cpp and   *)
(* media_control_policy.h): a recognized command becomes an intent, waits  *)
(* in a queue of one, and is sent by one worker in a single HTTPS POST     *)
(* that is never repeated.  Its freshness is checked when it is queued,    *)
(* when it is taken and just before the POST, against two clocks: millis() *)
(* since it was recognized, and the wall clock, which NTP sets and moves.  *)
(*                                                                         *)
(* The wall clock of the ESP is that of the PC plus an offset; operations  *)
(* that read it take the PC's time as an argument.  An intent is the       *)
(* request it will be sent as.  Table updates, which share the queue, are  *)
(* the subject of VoiceService.                                            *)
(***************************************************************************)
EXTENDS Integers

CONSTANTS
  Intents,          \* commands that may be spoken: [issued, expires, route, ...]
  NoIntent,         \* an empty queue, or an idle worker
  NoAnswer,         \* nothing was read from the connection
  CommandLifetime,  \* MEDIA_COMMAND_LIFETIME_MS
  FutureSkew,       \* MEDIA_FUTURE_SKEW_MS
  Offsets,          \* how far the two wall clocks may be apart
  NotSet            \* no NTP answer yet: the clock is before 2025

ASSUME MediaAssumption ==
  /\ NoIntent \notin Intents
  /\ CommandLifetime \in Nat \ {0} /\ FutureSkew \in Nat
  /\ Offsets \subseteq Int /\ NotSet \notin Offsets

VARIABLES
  ready,    \* mediaConfigured, and mediaQueue exists
  wifi,     \* WiFi.status() == WL_CONNECTED
  offset,   \* the ESP's wall clock minus the PC's, or NotSet
  age,      \* millis() since the intent was recognized, up to the lifetime
  fate,     \* what has become of it, as the LED and the serial line show it
  waiting,  \* mediaQueue
  sending,  \* the intent the worker has taken
  step,     \* where the worker is
  answer    \* the status the worker can read from its connection

espVars == <<ready, wifi, offset, age, fate, waiting, sending, step, answer>>

Final == {"executed", "rejected", "unknown", "lost"}

Fate == {"unspoken", "spoken", "undated", "dropped", "queued", "active"} \cup Final

-----------------------------------------------------------------------------
(* media_control_policy.h *)

\* media_request_is_fresh: an unsigned difference, so the wrap is harmless.
Fresh(r) == age[r] < CommandLifetime

\* media_wall_clock_valid, and unix_time_ms before it, when the PC's time is t.
WallClockValid(r, t) ==
  /\ offset # NotSet
  /\ r.expires > t + offset
  /\ r.issued - (t + offset) <= FutureSkew

\* The checks before an intent is queued, and again when it is taken.
Sendable(r, t) == ready /\ Fresh(r) /\ WallClockValid(r, t) /\ wifi

\* Answers of the daemon with a 4xx status.
Refusals ==
  { "unauthorized", "bad_request", "invalid_time", "expired", "clock_skew", "busy",
    "duplicate", "sync_required", "unknown_action", "disabled_action",
    "action_cancelled", "request_timeout" }

\* Faulty variant: an answer that is no server failure counts as success.
ClassifyAnswered(r, v) == IF v = "server_error" THEN "unknown" ELSE "executed"

\* send_intent with media_classify_response, and send_custom_action, which
\* only tells success from everything else.
Classify(r, v) ==
  IF v = "ok" THEN "executed"
  ELSE IF r.route = "media" /\ v \in Refusals THEN "rejected"
  ELSE "unknown"

\* An intent that is not sent at all.
Discarded(r) == IF r.route = "media" THEN "rejected" ELSE "unknown"

-----------------------------------------------------------------------------
(* The voice worker's side *)

\* on_speech_event stamps the command with both clocks.
Recognize(r, t) ==
  /\ fate[r] = "unspoken"
  /\ offset # NotSet /\ t + offset = r.issued
  /\ fate' = [fate EXCEPT ![r] = "spoken"]
  /\ age' = [age EXCEPT ![r] = 0]
  /\ UNCHANGED <<ready, wifi, offset, waiting, sending, step, answer>>

\* Before NTP has answered the stamp is a date long past.
RecognizeUndated(r) ==
  /\ fate[r] = "unspoken"
  /\ offset = NotSet
  /\ fate' = [fate EXCEPT ![r] = "undated"]
  /\ age' = [age EXCEPT ![r] = 0]
  /\ UNCHANGED <<ready, wifi, offset, waiting, sending, step, answer>>

\* Between the two, the voice worker or its callback drops the command and only
\* the serial line says so: speechQueue is full or is reset for a new table, the
\* session is over, the wake-word mode cannot be restored, or the custom command
\* is one of another table.  Which of these happens is left to VoiceService.
Drop(r) ==
  /\ fate[r] \in {"spoken", "undated"}
  /\ fate' = [fate EXCEPT ![r] = "dropped"]
  /\ UNCHANGED <<ready, wifi, offset, age, waiting, sending, step, answer>>

\* media_control_submit and media_control_submit_custom_action.
Submit(r, t) ==
  /\ \/ /\ fate[r] = "spoken" /\ Sendable(r, t) /\ waiting = NoIntent
        /\ waiting' = r
        /\ fate' = [fate EXCEPT ![r] = "queued"]
     \/ /\ \/ fate[r] = "undated"
           \/ fate[r] = "spoken" /\ ~(Sendable(r, t) /\ waiting = NoIntent)
        /\ fate' = [fate EXCEPT ![r] = "rejected"]
        /\ UNCHANGED waiting
  /\ UNCHANGED <<ready, wifi, offset, age, sending, step, answer>>

-----------------------------------------------------------------------------
(* The media worker *)

\* The worker reports v for its intent and waits for the next.
Done(v) ==
  /\ fate' = [fate EXCEPT ![sending] = v]
  /\ sending' = NoIntent
  /\ step' = "idle"
  /\ answer' = NoAnswer

\* The worker takes an intent and checks it again.
Take(t) ==
  /\ sending = NoIntent /\ waiting # NoIntent
  /\ waiting' = NoIntent
  /\ \/ /\ Sendable(waiting, t)
        /\ sending' = waiting
        /\ step' = "checked"
        /\ fate' = [fate EXCEPT ![waiting] = "active"]
     \/ /\ ~Sendable(waiting, t)
        /\ fate' = [fate EXCEPT ![waiting] = Discarded(waiting)]
        /\ UNCHANGED <<sending, step>>
  /\ UNCHANGED <<ready, wifi, offset, age, answer>>

\* The last check before the blocking POST finds the intent stale.
GiveUp(t) ==
  /\ step = "checked"
  /\ ~(Fresh(sending) /\ WallClockValid(sending, t))
  /\ Done(Discarded(sending))
  /\ UNCHANGED <<ready, wifi, offset, age, waiting>>

\* POST: the connection is made and the request written.
Post(t) ==
  /\ step = "checked"
  /\ Fresh(sending) /\ WallClockValid(sending, t)
  /\ step' = "posted"
  /\ UNCHANGED <<ready, wifi, offset, age, fate, waiting, sending, answer>>

\* POST fails before anything was written: begin, connect or handshake.
ConnectFailed(t) ==
  /\ step = "checked"
  /\ Fresh(sending) /\ WallClockValid(sending, t)
  /\ Done("unknown")
  /\ UNCHANGED <<ready, wifi, offset, age, waiting>>

\* A complete answer has been read.
ReadAnswer ==
  /\ step = "posted" /\ answer # NoAnswer
  /\ Done(Classify(sending, answer))
  /\ UNCHANGED <<ready, wifi, offset, age, waiting>>

\* Faulty variant: a custom action without an answer is tried again.
ReadFailedRetries ==
  /\ step = "posted" /\ sending.route = "custom"
  /\ step' = "checked" /\ answer' = NoAnswer
  /\ UNCHANGED <<ready, wifi, offset, age, fate, waiting, sending>>

\* Faulty variant: without a timeout, only a broken connection ends the wait.
ReadFailedBroken ==
  /\ step = "posted" /\ ~wifi
  /\ Done("unknown")
  /\ UNCHANGED <<ready, wifi, offset, age, waiting>>

\* MEDIA_READ_TIMEOUT_MS, a broken connection, or an answer that is cut off or
\* malformed: the outcome is unknown and the request is not repeated.
ReadFailed ==
  /\ step = "posted"
  /\ Done("unknown")
  /\ UNCHANGED <<ready, wifi, offset, age, waiting>>

-----------------------------------------------------------------------------
(* The world around it *)

\* setup, after the voice service was started: wifi_connect has waited for Wi-Fi,
\* NTP is started and the queue and its worker are created - unless memory is
\* short, and then they never are.
ServiceStart ==
  /\ ~ready /\ wifi
  /\ ready' = TRUE
  /\ UNCHANGED <<wifi, offset, age, fate, waiting, sending, step, answer>>

\* Wi-Fi comes and goes; wifi_ensure asks for it again.
WifiChanges ==
  /\ wifi' = ~wifi
  /\ UNCHANGED <<ready, offset, age, fate, waiting, sending, step, answer>>

\* NTP sets the clock, or moves it.
ClockSet ==
  /\ ready
  /\ offset' \in Offsets
  /\ UNCHANGED <<ready, wifi, age, fate, waiting, sending, step, answer>>

\* A restart forgets the queue and the worker, and a power loss the clock too.
Restart ==
  /\ ready' = FALSE /\ wifi' = FALSE
  /\ offset' \in {NotSet, offset}
  /\ fate' = [r \in Intents |->
                IF fate[r] \in Final \cup {"unspoken", "dropped"} THEN fate[r] ELSE "lost"]
  /\ waiting' = NoIntent /\ sending' = NoIntent /\ step' = "idle" /\ answer' = NoAnswer
  /\ UNCHANGED age

\* millis() goes on.
Aged == [r \in Intents |-> IF age[r] < CommandLifetime THEN age[r] + 1 ELSE age[r]]

MediaInit ==
  /\ ready = FALSE /\ wifi = FALSE /\ offset = NotSet
  /\ age = [r \in Intents |-> 0]
  /\ fate = [r \in Intents |-> "unspoken"]
  /\ waiting = NoIntent /\ sending = NoIntent /\ step = "idle" /\ answer = NoAnswer

MediaTypeOK ==
  /\ ready \in BOOLEAN /\ wifi \in BOOLEAN
  /\ offset \in Offsets \cup {NotSet}
  /\ age \in [Intents -> 0 .. CommandLifetime]
  /\ fate \in [Intents -> Fate]
  /\ waiting \in Intents \cup {NoIntent}
  /\ sending \in Intents \cup {NoIntent}
  /\ step \in {"idle", "checked", "posted"}
  /\ (sending = NoIntent) <=> (step = "idle")
  /\ ~ready => waiting = NoIntent /\ sending = NoIntent

=============================================================================
