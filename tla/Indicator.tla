----------------------------- MODULE Indicator -----------------------------
(***************************************************************************)
(* The RGB LED of the ESP32 (src/services/indicator_service.cpp and        *)
(* indicator_policy.h): one worker task owns the LED and takes events from *)
(* a short queue; senders never wait, so a full queue drops the event.     *)
(*                                                                         *)
(* Colours are named for what they mean.  A pulse lasts as long as it      *)
(* likes: only what is shown afterwards matters.                           *)
(***************************************************************************)
EXTENDS Integers, Sequences

CONSTANT QueueLength     \* INDICATOR_QUEUE_LENGTH

ASSUME IndicatorAssumption == QueueLength \in Nat \ {0}

VARIABLES
  queue,           \* indicatorQueue
  voiceListening,  \* the worker's copy of the voice session's state
  otaState,        \* the worker's copy of the OTA window's state
  pulse,           \* pulseActive
  led,             \* the colour shown
  dropped          \* history: an event was lost to a full queue

workerVars    == <<voiceListening, otaState, pulse, led>>
indicatorVars == <<queue, workerVars, dropped>>

OtaStates == {"Closed", "WindowOpen", "Transferring"}

Event ==
  [type: {"Listening"}, active: BOOLEAN]
    \cup [type: {"OtaState"}, state: OtaStates]
    \cup [type: {"OtaResult"}]
    \cup [type: {"Feedback"}]     \* WakeResult, MediaFeedback, VoiceSyncResult

Listening(on) == [type |-> "Listening", active |-> on]

OtaNow(s) == [type |-> "OtaState", state |-> s]

OtaResult == [type |-> "OtaResult"]

Feedback == [type |-> "Feedback"]

\* The colour when no pulse is shown.
Steady(ota, listening) ==
  CASE ota = "WindowOpen"   -> "amber"
    [] ota = "Transferring" -> "teal"
    [] OTHER                -> IF listening THEN "blue" ELSE "off"

\* send_indicator_event for each event of a sequence.
Indicate(events) ==
  LET room == QueueLength - Len(queue)
      kept == IF Len(events) < room THEN Len(events) ELSE room
  IN  /\ queue' = queue \o SubSeq(events, 1, kept)
      /\ dropped' = (dropped \/ kept < Len(events))
      /\ UNCHANGED workerVars

\* Faulty variant: a change of the OTA state is shown and not remembered.
ShowForgetsOta(e) ==
  \/ /\ e.type = "Listening"
     /\ voiceListening' = e.active
     /\ led' = IF pulse \/ otaState # "Closed" THEN led ELSE Steady("Closed", e.active)
     /\ UNCHANGED <<otaState, pulse>>
  \/ /\ e.type = "OtaState"
     /\ led' = Steady(e.state, voiceListening)
     /\ pulse' = FALSE
     /\ UNCHANGED <<voiceListening, otaState>>
  \/ /\ e.type = "OtaResult"
     /\ otaState' = "Closed" /\ pulse' = TRUE /\ led' = "pulse"
     /\ UNCHANGED voiceListening
  \/ /\ e.type = "Feedback"
     /\ IF otaState = "Closed"
        THEN pulse' = TRUE /\ led' = "pulse" /\ UNCHANGED <<voiceListening, otaState>>
        ELSE UNCHANGED workerVars

\* What the worker does with an event.
Show(e) ==
  \/ /\ e.type = "Listening"
     /\ voiceListening' = e.active
     /\ led' = IF pulse \/ otaState # "Closed" THEN led ELSE Steady("Closed", e.active)
     /\ UNCHANGED <<otaState, pulse>>
  \/ /\ e.type = "OtaState"
     /\ otaState' = e.state
     /\ pulse' = FALSE
     /\ led' = Steady(e.state, voiceListening)
     /\ UNCHANGED voiceListening
  \/ /\ e.type = "OtaResult"
     /\ otaState' = "Closed" /\ pulse' = TRUE /\ led' = "pulse"
     /\ UNCHANGED voiceListening
  \/ /\ e.type = "Feedback"
     /\ IF otaState = "Closed"
        THEN pulse' = TRUE /\ led' = "pulse" /\ UNCHANGED <<voiceListening, otaState>>
        ELSE UNCHANGED workerVars

TakeEvent ==
  /\ queue # <<>>
  /\ Show(Head(queue))
  /\ queue' = Tail(queue)
  /\ UNCHANGED dropped

\* The 500 ms are over.
PulseEnds ==
  /\ pulse
  /\ pulse' = FALSE
  /\ led' = Steady(otaState, voiceListening)
  /\ UNCHANGED <<queue, voiceListening, otaState, dropped>>

IndicatorWorker == TakeEvent \/ PulseEnds

IndicatorInit ==
  /\ queue = <<>>
  /\ voiceListening = FALSE /\ otaState = "Closed"
  /\ pulse = FALSE /\ led = "off"
  /\ dropped = FALSE

IndicatorTypeOK ==
  /\ queue \in Seq(Event) /\ Len(queue) <= QueueLength
  /\ voiceListening \in BOOLEAN /\ otaState \in OtaStates
  /\ pulse \in BOOLEAN /\ led \in {"off", "blue", "amber", "teal", "pulse"}
  /\ dropped \in BOOLEAN
=============================================================================
