----------------------------- MODULE OtaService ----------------------------
(***************************************************************************)
(* Firmware updates over the LAN (src/services/ota_service.cpp and         *)
(* ota_policy.h) with the LED that shows their state (Indicator).          *)
(*                                                                         *)
(* One worker task runs a loop: close a window that has expired or lost    *)
(* Wi-Fi, sample the BOOT button through the debouncing OtaButtonGate,     *)
(* and let ArduinoOTA serve a request.  ArduinoOTA.handle() blocks for a   *)
(* whole transfer; during it nothing else of the loop runs, the button is  *)
(* not sampled, and only the callbacks look at the clock.                  *)
(*                                                                         *)
(* Time is counted in turns of the loop.  The code keeps start times and   *)
(* subtracts; here each age is kept and stops at its limit, which unsigned *)
(* subtraction makes equal as long as an age is below 49 days.             *)
(***************************************************************************)
EXTENDS Indicator

CONSTANTS
  Debounce,      \* OTA_BUTTON_DEBOUNCE_MS
  Hold,          \* OTA_BUTTON_HOLD_MS
  Window,        \* OTA_WINDOW_MS
  TransferTime,  \* OTA_TRANSFER_TIMEOUT_MS
  Users          \* the services that share the LED: "voice", "feedback"

ASSUME OtaAssumption ==
  /\ {Debounce, Hold, Window, TransferTime} \subseteq Nat \ {0}
  /\ Debounce < Hold

VARIABLES
  wifi,       \* WiFi.status() == WL_CONNECTED
  listening,  \* the voice service has a session open
  pressed,    \* the BOOT button, as digitalRead sees it
  gate,       \* OtaButtonGate
  policy,     \* OtaPolicy
  listener,   \* otaListenerStarted
  step,       \* where the worker is
  released,   \* history: how long the button has been up
  held,       \* history: how long it has been down since it was last up
  spent,      \* history: the press under way has fired already
  blind,      \* history: handle() blocked while a press was being timed
  closed,     \* history: the LED was told of a failed activation while open
  installed   \* history: age of the transfer that has just installed an image

gateVars == <<pressed, gate>>
histVars == <<released, held, spent, blind, closed, installed>>
vars == <<wifi, listening, gateVars, policy, listener, step, histVars, indicatorVars>>

NotInstalled == -1

Older(age, limit) == IF age < limit THEN age + 1 ELSE limit

-----------------------------------------------------------------------------
(* OtaButtonGate *)

\* Faulty variant: the gate is armed whatever the button does.
GateBeginArmed(down) ==
  [ armed |-> TRUE, candidate |-> down, stable |-> down, consumed |-> FALSE,
    candidateAge |-> 0, pressAge |-> 0 ]

\* begin: a button that is down at the start must come up first.
GateBegin(down) ==
  [ armed |-> ~down, candidate |-> down, stable |-> down, consumed |-> down,
    candidateAge |-> 0, pressAge |-> 0 ]

\* The first part of sample: a level is believed when it has lasted.
Debounced(g, down) ==
  LET c == IF down # g.candidate
           THEN [g EXCEPT !.candidate = down, !.candidateAge = 0] ELSE g
  IN  IF c.candidate = c.stable \/ c.candidateAge < Debounce THEN c
      ELSE LET s == [c EXCEPT !.stable = down]
           IN  IF ~s.armed
               THEN IF down THEN s ELSE [s EXCEPT !.armed = TRUE, !.consumed = FALSE]
               ELSE [s EXCEPT !.consumed = FALSE,
                              !.pressAge = IF down THEN 0 ELSE @]

\* Faulty variant: a hold that lasts fires again.
FiresAgain(g) == g.armed /\ g.stable /\ g.pressAge >= Hold

\* The second part: one activation per hold.
Fires(g) == g.armed /\ g.stable /\ ~g.consumed /\ g.pressAge >= Hold

GateAged(g) ==
  [g EXCEPT !.candidateAge = Older(@, Debounce), !.pressAge = Older(@, Hold)]

-----------------------------------------------------------------------------
(* OtaPolicy.  The worker only runs with a valid password configured. *)

MayOpen == policy.state = "Closed" /\ wifi

Expired == policy.windowAge >= Window

Admitted(app) == policy.state = "WindowOpen" /\ wifi /\ app /\ ~Expired

Overdue == policy.transferAge >= TransferTime

-----------------------------------------------------------------------------
(* Time and the outside world *)

\* A turn of the loop passes.  The history measures the press itself: up for
\* no more than Debounce is a bounce, and a press since the start counts as -1.
Pass ==
  /\ gate' = GateAged(gate)
  /\ policy' = [policy EXCEPT !.windowAge = Older(@, Window),
                              !.transferAge = Older(@, TransferTime)]
  /\ released' = IF pressed THEN 0 ELSE Older(released, Debounce + 1)
  /\ held' = IF released' > Debounce THEN 0
             ELSE IF held = -1 \/ (held = 0 /\ ~pressed) THEN held
             ELSE Older(held, Hold)
  /\ spent' = (spent /\ released' <= Debounce)
  /\ blind' = (blind \/ (step \in {"start", "transfer"} /\ gate.stable))
  /\ installed' = NotInstalled
  /\ UNCHANGED <<wifi, listening, pressed, listener, closed, indicatorVars>>

\* The button moves while time passes, not within the rest of a turn.
Button ==
  /\ step \in {"delay", "start", "transfer", "chunk"}
  /\ pressed' = ~pressed
  /\ UNCHANGED <<wifi, listening, gate, policy, listener, step, histVars, indicatorVars>>

Wifi ==
  /\ wifi' = ~wifi
  /\ UNCHANGED <<listening, gateVars, policy, listener, step, histVars, indicatorVars>>

\* The voice service opens or ends a session and says so.
Voice ==
  /\ "voice" \in Users
  /\ listening' = ~listening
  /\ Indicate(<<Listening(listening')>>)
  /\ UNCHANGED <<wifi, gateVars, policy, listener, step, histVars>>

\* A wake, a media request or a sync has a result to show.
OtherFeedback ==
  /\ "feedback" \in Users
  /\ Indicate(<<Feedback>>)
  /\ UNCHANGED <<wifi, listening, gateVars, policy, listener, step, histVars>>

Led ==
  /\ IndicatorWorker
  /\ UNCHANGED <<wifi, listening, gateVars, policy, listener, step, histVars>>

-----------------------------------------------------------------------------
(* ota_worker *)

\* Faulty variant: the policy is left as it is.
StopListenerOnly(failed) ==
  /\ listener' = FALSE
  /\ closed' = FALSE
  /\ Indicate(<<OtaNow("Closed")>> \o IF failed THEN <<OtaResult>> ELSE <<>>)
  /\ UNCHANGED policy

StopListener(failed) ==
  /\ listener' = FALSE
  /\ policy' = [policy EXCEPT !.state = "Closed"]
  /\ closed' = FALSE
  /\ Indicate(<<OtaNow("Closed")>> \o IF failed THEN <<OtaResult>> ELSE <<>>)

\* Faulty variant: a window only ends when Wi-Fi does.
CheckWindowForever ==
  /\ step = "window"
  /\ step' = "button"
  /\ IF policy.state = "WindowOpen" /\ ~wifi
     THEN StopListener(TRUE)
     ELSE UNCHANGED <<policy, listener, closed, indicatorVars>>
  /\ UNCHANGED <<wifi, listening, gateVars, released, held, spent, blind, installed>>

\* A window that lost Wi-Fi fails, one that is too old expires.
CheckWindow ==
  /\ step = "window"
  /\ step' = "button"
  /\ IF policy.state = "WindowOpen" /\ (~wifi \/ Expired)
     THEN StopListener(~wifi)
     ELSE UNCHANGED <<policy, listener, closed, indicatorVars>>
  /\ UNCHANGED <<wifi, listening, gateVars, released, held, spent, blind, installed>>

\* open_window and start_listener, or the refusal.
Activate ==
  IF MayOpen
  THEN /\ policy' = [policy EXCEPT !.state = "WindowOpen", !.windowAge = 0]
       /\ listener' = TRUE
       /\ Indicate(<<OtaNow("WindowOpen")>>)
       /\ UNCHANGED closed
  ELSE /\ IF wifi THEN UNCHANGED indicatorVars ELSE Indicate(<<OtaResult>>)
       /\ closed' = (closed \/ (~wifi /\ policy.state = "WindowOpen"))
       /\ UNCHANGED <<policy, listener>>

SampleButton ==
  /\ step = "button"
  /\ step' = "handle"
  /\ LET g == Debounced(gate, pressed)
     IN  IF Fires(g)
         THEN gate' = [g EXCEPT !.consumed = TRUE] /\ spent' = TRUE /\ Activate
         ELSE gate' = g /\ UNCHANGED <<spent, policy, listener, closed, indicatorVars>>
  /\ blind' = (blind /\ (gate'.stable \/ spent'))
  /\ UNCHANGED <<wifi, listening, pressed, released, held, installed>>

\* ArduinoOTA.handle(): nothing, an error before the update starts (a wrong
\* password, say), or the request for an update.
Handle ==
  /\ step = "handle"
  /\ \/ /\ step' = "delay"
        /\ UNCHANGED <<policy, listener, closed, indicatorVars>>
     \/ /\ listener /\ policy.state = "WindowOpen"
        /\ step' = "delay"
        /\ StopListener(TRUE)
     \/ /\ listener /\ policy.state = "WindowOpen"
        /\ step' = "start"
        /\ UNCHANGED <<policy, listener, closed, indicatorVars>>
  /\ UNCHANGED <<wifi, listening, gateVars, released, held, spent, blind, installed>>

\* ota_on_start: the update is admitted, or aborted, which makes handle()
\* fail and the worker close the window.
OnStart(app) ==
  /\ step = "start"
  /\ IF Admitted(app)
     THEN /\ step' = "transfer"
          /\ policy' = [policy EXCEPT !.state = "Transferring", !.transferAge = 0]
          /\ Indicate(<<OtaNow("Transferring")>>)
          /\ UNCHANGED <<listener, closed>>
     ELSE step' = "delay" /\ StopListener(TRUE)
  /\ UNCHANGED <<wifi, listening, gateVars, released, held, spent, blind, installed>>

\* The network is slow before the update starts, or brings another chunk.
Wait ==
  /\ \/ step = "delay" /\ step' = "window"
     \/ step = "start" /\ UNCHANGED step
     \/ step = "transfer" /\ step' = "chunk"
  /\ Pass

\* setup() of the image that now runs.
Boot ==
  /\ step' = "window"
  /\ listener' = FALSE /\ listening' = FALSE
  /\ gate' = GateBegin(pressed)
  /\ policy' = [state |-> "Closed", windowAge |-> 0, transferAge |-> 0]
  /\ released' = 0 /\ held' = (IF pressed THEN -1 ELSE 0)
  /\ spent' = FALSE /\ blind' = FALSE /\ closed' = FALSE
  /\ queue' = <<>> /\ dropped' = FALSE
  /\ voiceListening' = FALSE /\ otaState' = "Closed" /\ pulse' = FALSE /\ led' = "off"
  /\ UNCHANGED <<wifi, pressed>>

\* Faulty variant: the deadline is not looked at.
OnProgressNever ==
  /\ step = "chunk"
  /\ step' = "transfer"
  /\ UNCHANGED <<wifi, listening, gateVars, policy, listener, histVars, indicatorVars>>

\* ota_on_progress: past the deadline the device restarts with the old image.
OnProgress ==
  /\ step = "chunk"
  /\ \/ /\ ~Overdue
        /\ step' = "transfer"
        /\ UNCHANGED <<wifi, listening, gateVars, policy, listener, histVars, indicatorVars>>
     \/ /\ Overdue
        /\ Boot
        /\ UNCHANGED installed

\* ota_on_error: the connection broke or the image is not valid.
OnError ==
  /\ step = "transfer"
  /\ step' = "delay"
  /\ StopListener(TRUE)
  /\ UNCHANGED <<wifi, listening, gateVars, released, held, spent, blind, installed>>

\* ota_on_end: the image is complete and valid; ArduinoOTA reboots into it.
OnEnd ==
  /\ step = "transfer"
  /\ installed' = policy.transferAge
  /\ Boot

-----------------------------------------------------------------------------

Init ==
  /\ wifi \in BOOLEAN /\ listening = FALSE /\ pressed \in BOOLEAN
  /\ gate = GateBegin(pressed)
  /\ policy = [state |-> "Closed", windowAge |-> 0, transferAge |-> 0]
  /\ listener = FALSE /\ step = "window"
  /\ released = 0 /\ held = (IF pressed THEN -1 ELSE 0)
  /\ spent = FALSE /\ blind = FALSE /\ closed = FALSE /\ installed = NotInstalled
  /\ IndicatorInit

Worker ==
  \/ CheckWindow \/ SampleButton \/ Handle \/ Wait
  \/ (\E app \in BOOLEAN : OnStart(app))
  \/ OnProgress \/ OnError \/ OnEnd

Next == Worker \/ Button \/ Wifi \/ Voice \/ OtherFeedback \/ Led

Spec == Init /\ [][Next]_vars

\* The worker runs, and ArduinoOTA's idle timeout ends every wait for the
\* network; a transfer may bring chunk after chunk.
FairSpec ==
  /\ Spec
  /\ WF_vars(CheckWindow) /\ WF_vars(SampleButton) /\ WF_vars(Handle)
  /\ WF_vars(Wait) /\ WF_vars(OnProgress)
  /\ WF_vars(\E app \in BOOLEAN : OnStart(app))

-----------------------------------------------------------------------------
(* Properties *)

TypeOK ==
  /\ wifi \in BOOLEAN /\ listening \in BOOLEAN /\ pressed \in BOOLEAN
  /\ gate \in [ armed: BOOLEAN, candidate: BOOLEAN, stable: BOOLEAN, consumed: BOOLEAN,
                candidateAge: 0 .. Debounce, pressAge: 0 .. Hold ]
  /\ policy \in [ state: OtaStates, windowAge: 0 .. Window, transferAge: 0 .. TransferTime ]
  /\ listener \in BOOLEAN
  /\ step \in {"window", "button", "handle", "start", "transfer", "chunk", "delay"}
  /\ IndicatorTypeOK

Opens == policy.state = "Closed" /\ policy'.state = "WindowOpen"

\* A window opens only for a press of its own: one that lasted Hold, that was
\* not there at startup, and that has fired for no earlier window and for no
\* failed activation.  docs/ota.md says "A fresh hold is required after a failed
\* or expired window"; the code keeps that except after a transfer that failed:
\* handle() blocked the worker, which then goes on timing a press it had begun
\* to time before, whether or not the button came up meanwhile.
HoldOpens == [][Opens => (held >= Hold /\ ~spent) \/ blind]_vars

\* The port accepts uploads exactly while the policy has a window open or a
\* transfer running.
ListenerMatches == listener <=> policy.state # "Closed"

\* The upload port follows the policy, and the LED queue keeps its bound.
OtaInv == TypeOK /\ ListenerMatches

\* docs/ota.md: a transfer "has a 180-second total deadline": no image is
\* installed past it, however the chunks arrive.
InstalledInTime == installed < TransferTime

\* What the LED shows once it has caught up: the OTA window if there is one,
\* else the voice session - unless an event was dropped, or an activation
\* failed for want of Wi-Fi that was back before the window was checked.
LedTruthful ==
  (queue = <<>> /\ ~pulse /\ ~dropped /\ ~closed)
    => led = Steady(policy.state, listening)

\* Neither an open window nor a transfer lasts for ever.
WindowCloses == policy.state # "Closed" ~> policy.state = "Closed"
=============================================================================
