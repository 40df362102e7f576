----------------------------- MODULE OtaProofs -----------------------------
(***************************************************************************)
(* Theorems about OtaService and its Indicator, for all time limits and    *)
(* every queue length: the upload port follows the policy, no image is     *)
(* installed past the deadline, the LED ends up showing the truth, and a   *)
(* window opens only for a press of the full length and of its own.        *)
(*                                                                         *)
(* The LED catches up because the last event of each sort in the queue     *)
(* tells the current state (Pending).  A press is timed twice, by the gate *)
(* from samples and by the history from the button itself; Timed relates   *)
(* the two between a turn of the loop and the sample that follows it.      *)
(***************************************************************************)
EXTENDS OtaService, SequenceTheorems, TLAPS

-----------------------------------------------------------------------------
(* The inductive invariant *)

\* handle() is blocked by an update that was admitted.
Transfer == {"transfer", "chunk"}

\* The policy, the port and the deadline of a transfer.
PolicyInd ==
  /\ wifi \in BOOLEAN /\ listening \in BOOLEAN /\ pressed \in BOOLEAN
  /\ policy \in [ state: OtaStates, windowAge: 0 .. Window, transferAge: 0 .. TransferTime ]
  /\ listener \in BOOLEAN
  /\ step \in {"window", "button", "handle", "start", "transfer", "chunk", "delay"}
  /\ ListenerMatches
  /\ step \in Transfer <=> policy.state = "Transferring"
  /\ step = "start" => policy.state = "WindowOpen"
  /\ step = "transfer" => policy.transferAge < TransferTime
  /\ InstalledInTime

\* An event that tells the state of the window, and what it tells.
OtaEvent(e) == e.type \in {"OtaState", "OtaResult"}

Told(e) == IF e.type = "OtaState" THEN e.state ELSE "Closed"

\* The last event of queue q about the window tells state s, or the worker
\* knows it already.
OtaPending(q, known, s) ==
  \/ known = s /\ \A i \in DOMAIN q : ~OtaEvent(q[i])
  \/ \E i \in DOMAIN q :
       /\ OtaEvent(q[i]) /\ Told(q[i]) = s
       /\ \A j \in DOMAIN q : j > i => ~OtaEvent(q[j])

\* The same for the voice session.
VoiceEvent(e) == e.type = "Listening"

VoicePending(q, known, on) ==
  \/ known = on /\ \A i \in DOMAIN q : ~VoiceEvent(q[i])
  \/ \E i \in DOMAIN q :
       /\ VoiceEvent(q[i]) /\ q[i].active = on
       /\ \A j \in DOMAIN q : j > i => ~VoiceEvent(q[j])

\* The LED shows what the worker knows, and the queue what it does not know yet.
LedInd ==
  /\ IndicatorTypeOK
  /\ closed \in BOOLEAN
  /\ ~pulse => led = Steady(otaState, voiceListening)
  /\ ~dropped => VoicePending(queue, voiceListening, listening)
  /\ ~dropped /\ ~closed => OtaPending(queue, otaState, policy.state)

\* OtaButtonGate.
GateType ==
  [ armed: BOOLEAN, candidate: BOOLEAN, stable: BOOLEAN, consumed: BOOLEAN,
    candidateAge: 0 .. Debounce, pressAge: 0 .. Hold ]

\* After a turn and before the sample of its button.
Unsampled == step \in {"window", "button"}

\* The gate will see that the button has come up.
Releasing == Unsampled /\ ~pressed /\ ~gate.candidate /\ gate.candidateAge >= Debounce

\* The gate knows how long the button has been up, and a press it times has
\* lasted at least as long as it thinks.
Clocked ==
  /\ IF Unsampled
     THEN released = IF pressed THEN 0 ELSE IF gate.candidate THEN 1 ELSE gate.candidateAge + 1
     ELSE /\ released = IF gate.candidate THEN 0 ELSE gate.candidateAge + 1
          /\ ~gate.candidate => gate.candidateAge < Debounce
  /\ gate.armed /\ ~gate.consumed => Releasing \/ (held >= 1 /\ held >= gate.pressAge)

\* So it is while the gate believes the button down, unless a transfer kept it
\* from sampling.
Timed == gate.stable /\ ~blind => Clocked

\* The gate and the history of the button.
GateInd ==
  /\ gate \in GateType
  /\ released \in 0 .. Debounce + 1 /\ held \in -1 .. Hold /\ blind \in BOOLEAN
  /\ ~gate.armed => gate.stable /\ ~blind /\ policy.state = "Closed"
  /\ held = -1 => ~gate.armed
  /\ Unsampled /\ pressed => released = 0 /\ held # 0
  /\ Unsampled /\ released > Debounce => held = 0
  /\ Timed

\* A press that has fired stays believed and consumed until the button has
\* been up for longer than a bounce.
SpentInd ==
  /\ spent \in BOOLEAN
  /\ spent /\ ~blind => gate.stable /\ gate.consumed
  /\ Unsampled /\ spent => released <= Debounce

-----------------------------------------------------------------------------
(* The policy *)

\* The limits are positive numbers.
LEMMA Limits ==
  /\ Debounce \in Nat /\ Debounce > 0 /\ Hold \in Nat /\ Hold > Debounce
  /\ Window \in Nat /\ Window > 0 /\ TransferTime \in Nat /\ TransferTime > 0
BY OtaAssumption

\* Ages stay within their limits.
LEMMA Ages ==
  ASSUME NEW limit \in Nat, NEW age \in 0 .. limit
  PROVE  Older(age, limit) \in 0 .. limit
BY DEF Older

\* What a window that is closed, opened or given to a transfer looks like.
LEMMA PolicyEdits ==
  ASSUME NEW p \in [ state: OtaStates, windowAge: 0 .. Window, transferAge: 0 .. TransferTime ]
  PROVE  /\ [p EXCEPT !.state = "Closed"]
              \in [ state: OtaStates, windowAge: 0 .. Window, transferAge: 0 .. TransferTime ]
         /\ [p EXCEPT !.state = "Closed"].state = "Closed"
         /\ [p EXCEPT !.state = "WindowOpen", !.windowAge = 0]
              \in [ state: OtaStates, windowAge: 0 .. Window, transferAge: 0 .. TransferTime ]
         /\ [p EXCEPT !.state = "WindowOpen", !.windowAge = 0].state = "WindowOpen"
         /\ [p EXCEPT !.state = "Transferring", !.transferAge = 0]
              \in [ state: OtaStates, windowAge: 0 .. Window, transferAge: 0 .. TransferTime ]
         /\ [p EXCEPT !.state = "Transferring", !.transferAge = 0].state = "Transferring"
         /\ [p EXCEPT !.state = "Transferring", !.transferAge = 0].transferAge = 0
         /\ [p EXCEPT !.windowAge = Older(@, Window), !.transferAge = Older(@, TransferTime)]
              \in [ state: OtaStates, windowAge: 0 .. Window, transferAge: 0 .. TransferTime ]
         /\ [p EXCEPT !.windowAge = Older(@, Window), !.transferAge = Older(@, TransferTime)].state = p.state
<1>1. 0 \in 0 .. Window /\ 0 \in 0 .. TransferTime
  BY Limits
<1>2. Older(p.windowAge, Window) \in 0 .. Window /\ Older(p.transferAge, TransferTime) \in 0 .. TransferTime
  BY Limits, Ages
<1> QED BY <1>1, <1>2 DEF OtaStates

\* Closing the window.
LEMMA StopPolicy ==
  ASSUME PolicyInd, NEW failed, StopListener(failed), UNCHANGED <<wifi, listening, pressed, installed>>,
         step' \in {"button", "delay"}
  PROVE  PolicyInd'
<1>1. /\ policy' \in [ state: OtaStates, windowAge: 0 .. Window, transferAge: 0 .. TransferTime ]
      /\ policy'.state = "Closed" /\ listener' = FALSE
  BY PolicyEdits DEF PolicyInd, StopListener
<1> QED BY <1>1 DEF PolicyInd, ListenerMatches, InstalledInTime, Transfer

\* A step that leaves the policy alone and stays out of transfers.
LEMMA SamePolicy ==
  ASSUME PolicyInd, UNCHANGED <<policy, listener, installed>>,
         wifi' \in BOOLEAN, listening' \in BOOLEAN, pressed' \in BOOLEAN,
         \/ step' = step
         \/ step \notin Transfer /\ step' \in {"window", "button", "handle", "delay"}
  PROVE  PolicyInd'
BY DEF PolicyInd, ListenerMatches, InstalledInTime, Transfer

\* The device restarts.
LEMMA BootPolicy ==
  ASSUME PolicyInd, Boot, installed' < TransferTime
  PROVE  PolicyInd'
<1>1. 0 \in 0 .. Window /\ 0 \in 0 .. TransferTime
  BY Limits
<1>2. /\ policy' \in [ state: OtaStates, windowAge: 0 .. Window, transferAge: 0 .. TransferTime ]
      /\ policy'.state = "Closed"
  BY <1>1 DEF Boot, OtaStates
<1> QED BY <1>2 DEF PolicyInd, Boot, ListenerMatches, InstalledInTime, Transfer

\* Every step keeps PolicyInd.
LEMMA PolicyNext ==
  ASSUME PolicyInd, [Next]_vars
  PROVE  PolicyInd'
<1>t. /\ policy \in [ state: OtaStates, windowAge: 0 .. Window, transferAge: 0 .. TransferTime ]
      /\ wifi \in BOOLEAN /\ listening \in BOOLEAN /\ pressed \in BOOLEAN
  BY DEF PolicyInd
<1>1. CASE CheckWindow
  BY <1>1, <1>t, StopPolicy, SamePolicy DEF CheckWindow, Transfer, gateVars
<1>2. CASE SampleButton
  <2>1. \/ UNCHANGED <<policy, listener>>
        \/ MayOpen /\ policy' = [policy EXCEPT !.state = "WindowOpen", !.windowAge = 0] /\ listener' = TRUE
    BY <1>2 DEF SampleButton, Activate
  <2>2. step = "button" /\ step' = "handle" /\ UNCHANGED <<wifi, listening, pressed, installed>>
    BY <1>2 DEF SampleButton
  <2>3. CASE UNCHANGED <<policy, listener>>
    BY <1>t, <2>2, <2>3, SamePolicy DEF Transfer
  <2>4. CASE policy' = [policy EXCEPT !.state = "WindowOpen", !.windowAge = 0] /\ listener' = TRUE
    <3>1. /\ policy' \in [ state: OtaStates, windowAge: 0 .. Window, transferAge: 0 .. TransferTime ]
          /\ policy'.state = "WindowOpen"
      BY <1>t, <2>4, PolicyEdits
    <3> QED BY <2>2, <2>4, <3>1 DEF PolicyInd, ListenerMatches, InstalledInTime, Transfer
  <2> QED BY <2>1, <2>3, <2>4
<1>3. CASE Handle
  <2>0. step = "handle" /\ UNCHANGED <<wifi, listening, pressed, installed>>
    BY <1>3 DEF Handle, gateVars
  <2>1. CASE step' = "delay" /\ UNCHANGED <<policy, listener>>
    BY <1>t, <2>0, <2>1, SamePolicy DEF Transfer
  <2>2. CASE step' = "delay" /\ StopListener(TRUE)
    BY <2>0, <2>2, StopPolicy
  <2>3. CASE step' = "start" /\ policy.state = "WindowOpen" /\ UNCHANGED <<policy, listener>>
    BY <2>0, <2>3 DEF PolicyInd, ListenerMatches, InstalledInTime, Transfer
  <2> QED BY <1>3, <2>1, <2>2, <2>3 DEF Handle
<1>4. ASSUME NEW app \in BOOLEAN, OnStart(app) PROVE PolicyInd'
  <2>1. CASE ~Admitted(app)
    BY <1>4, <2>1, StopPolicy DEF OnStart, gateVars
  <2>2. CASE Admitted(app)
    <3>1. /\ policy' \in [ state: OtaStates, windowAge: 0 .. Window, transferAge: 0 .. TransferTime ]
          /\ policy'.state = "Transferring" /\ policy'.transferAge = 0 /\ listener' = listener
          /\ step' = "transfer" /\ policy.state = "WindowOpen"
          /\ UNCHANGED <<wifi, listening, pressed, installed>>
      BY <1>4, <1>t, <2>2, PolicyEdits DEF OnStart, Admitted, gateVars
    <3> QED BY <3>1, Limits DEF PolicyInd, ListenerMatches, InstalledInTime, Transfer
  <2> QED BY <2>1, <2>2
<1>5. CASE Wait
  <2>1. /\ policy' \in [ state: OtaStates, windowAge: 0 .. Window, transferAge: 0 .. TransferTime ]
        /\ policy'.state = policy.state /\ UNCHANGED <<wifi, listening, pressed, listener>>
    BY <1>5, <1>t, PolicyEdits DEF Wait, Pass
  <2>3. installed' < TransferTime
    BY <1>5, Limits DEF Wait, Pass, NotInstalled
  <2>2. \/ step = "delay" /\ step' = "window"
        \/ step = "start" /\ step' = "start"
        \/ step = "transfer" /\ step' = "chunk"
    BY <1>5 DEF Wait
  <2> QED BY <2>1, <2>2, <2>3 DEF PolicyInd, ListenerMatches, InstalledInTime, Transfer
<1>6. CASE OnProgress
  <2>1. CASE ~Overdue /\ step = "chunk" /\ step' = "transfer"
             /\ UNCHANGED <<wifi, listening, pressed, policy, listener, installed>>
    <3>1. policy.transferAge < TransferTime
      BY <1>t, <2>1, Limits DEF Overdue
    <3> QED BY <2>1, <3>1 DEF PolicyInd, ListenerMatches, InstalledInTime, Transfer
  <2>2. CASE Boot /\ UNCHANGED installed
    BY <2>2, BootPolicy DEF PolicyInd, InstalledInTime
  <2> QED BY <1>6, <2>1, <2>2 DEF OnProgress, gateVars, histVars
<1>7. CASE OnError
  BY <1>7, StopPolicy DEF OnError, gateVars
<1>8. CASE OnEnd
  BY <1>8, BootPolicy DEF OnEnd, PolicyInd
<1>9. CASE Button \/ Wifi
  <2>1. wifi' \in BOOLEAN /\ pressed' \in BOOLEAN /\ listening' = listening
    BY <1>9, <1>t DEF Button, Wifi, gateVars
  <2> QED BY <1>9, <1>t, <2>1, SamePolicy DEF Button, Wifi, histVars
<1>10. CASE Voice \/ OtherFeedback \/ Led
  <2>1. listening' \in BOOLEAN
    BY <1>10, <1>t DEF Voice, OtherFeedback, Led
  <2> QED BY <1>10, <1>t, <2>1, SamePolicy DEF Voice, OtherFeedback, Led, gateVars, histVars
<1>11. CASE UNCHANGED vars
  BY <1>11, <1>t, SamePolicy DEF vars, gateVars, histVars
<1> QED
  BY <1>1, <1>2, <1>3, <1>4, <1>5, <1>6, <1>7, <1>8, <1>9, <1>10, <1>11 DEF Next, Worker

-----------------------------------------------------------------------------
(* The button *)

\* The gate r after a sample of gate g remembers the level it saw ...
Remembers(g, down, r) ==
  /\ r.armed = g.armed /\ r.stable = g.stable /\ r.consumed = g.consumed
  /\ r.pressAge = g.pressAge /\ r.candidate = down
  /\ r.candidateAge = IF down = g.candidate THEN g.candidateAge ELSE 0
  /\ down = g.stable \/ r.candidateAge < Debounce

\* ... or believes it.
Believes(g, down, r) ==
  /\ r.stable = down /\ r.candidate = down /\ g.candidate = down /\ g.stable # down
  /\ g.candidateAge >= Debounce /\ r.candidateAge = g.candidateAge
  /\ r.armed = (g.armed \/ ~down)
  /\ r.consumed = IF g.armed \/ ~down THEN FALSE ELSE g.consumed
  /\ r.pressAge = IF g.armed /\ down THEN 0 ELSE g.pressAge

\* sample does one of the two.
LEMMA DebouncedCases ==
  ASSUME NEW g \in GateType, NEW down \in BOOLEAN, NEW r, r = Debounced(g, down)
  PROVE  r \in GateType /\ (Remembers(g, down, r) \/ Believes(g, down, r))
<1> USE DEF Remembers, Believes
<1> DEFINE c == IF down # g.candidate THEN [g EXCEPT !.candidate = down, !.candidateAge = 0] ELSE g
<1>1. /\ c \in GateType /\ c.armed = g.armed /\ c.stable = g.stable /\ c.consumed = g.consumed
      /\ c.pressAge = g.pressAge /\ c.candidate = down
      /\ c.candidateAge = IF down = g.candidate THEN g.candidateAge ELSE 0
  <2>1. 0 \in 0 .. Debounce
    BY Limits
  <2>2. CASE down # g.candidate
    BY <2>1, <2>2 DEF GateType
  <2>3. CASE down = g.candidate
    BY <2>3 DEF GateType
  <2> QED BY <2>2, <2>3
<1> HIDE DEF c
<1>2. CASE c.candidate = c.stable \/ c.candidateAge < Debounce
  <2>1. r = c
    BY <1>2 DEF Debounced, c
  <2> QED BY <1>1, <1>2, <2>1
<1>3. CASE ~(c.candidate = c.stable \/ c.candidateAge < Debounce)
  <2>1. down = g.candidate /\ c = g /\ g.candidateAge >= Debounce /\ g.stable # down
    BY <1>1, <1>3, Limits DEF c, GateType
  <2>2. 0 \in 0 .. Hold
    BY Limits
  <2>3. CASE ~g.armed /\ down
    <3>1. r = [g EXCEPT !.stable = down]
      BY <1>3, <2>1, <2>3 DEF Debounced, c
    <3> QED BY <2>1, <2>3, <3>1 DEF GateType
  <2>4. CASE ~g.armed /\ ~down
    <3>1. r = [[g EXCEPT !.stable = down] EXCEPT !.armed = TRUE, !.consumed = FALSE]
      BY <1>3, <2>1, <2>4 DEF Debounced, c, GateType
    <3> QED BY <2>1, <2>4, <3>1 DEF GateType
  <2>5. CASE g.armed
    <3>1. r = [[g EXCEPT !.stable = down] EXCEPT !.consumed = FALSE,
                  !.pressAge = IF down THEN 0 ELSE @]
      BY <1>3, <2>1, <2>5 DEF Debounced, c, GateType
    <3> QED BY <2>1, <2>2, <2>5, <3>1 DEF GateType
  <2> QED BY <2>3, <2>4, <2>5
<1> QED BY <1>2, <1>3

\* What a turn of the loop does to the gate.
LEMMA AgedCases ==
  ASSUME NEW g \in GateType, NEW r, r = GateAged(g)
  PROVE  /\ r \in GateType
         /\ r.armed = g.armed /\ r.candidate = g.candidate /\ r.stable = g.stable /\ r.consumed = g.consumed
         /\ r.candidateAge = Older(g.candidateAge, Debounce) /\ r.pressAge = Older(g.pressAge, Hold)
<1>1. Older(g.candidateAge, Debounce) \in 0 .. Debounce /\ Older(g.pressAge, Hold) \in 0 .. Hold
  BY Limits, Ages DEF GateType
<1> QED BY <1>1 DEF GateAged, GateType

\* A step that leaves the button's history alone.
LEMMA SameGate ==
  ASSUME GateInd, UNCHANGED <<gate, released, held, blind>>,
         Unsampled => pressed' = pressed,
         \/ Unsampled /\ step' \in {"window", "button"}
         \/ ~Unsampled /\ step' \notin {"window", "button"},
         policy'.state \in {policy.state, "Closed"} \/ policy.state # "Closed"
  PROVE  GateInd'
<1>1. Unsampled' <=> Unsampled
  BY DEF Unsampled
<1>2. Timed'
  BY <1>1 DEF GateInd, Timed, Clocked, Releasing
<1>3. ~gate.armed => policy'.state = "Closed"
  BY DEF GateInd
<1> QED BY <1>1, <1>2, <1>3 DEF GateInd

\* Booleans of the history.
LEMMA BlindCases ==
  ASSUME blind \in BOOLEAN
  PROVE  /\ Pass => blind' \in BOOLEAN
                    /\ (blind' <=> blind \/ (step \in {"start", "transfer"} /\ gate.stable))
         /\ SampleButton => blind' \in BOOLEAN /\ (blind' <=> blind /\ (gate'.stable \/ spent'))
BY DEF Pass, SampleButton

\* A turn of the loop.
LEMMA PassGate ==
  ASSUME PolicyInd, GateInd, Wait
  PROVE  GateInd'
<1>0. /\ gate \in GateType /\ released \in 0 .. Debounce + 1 /\ held \in -1 .. Hold /\ blind \in BOOLEAN
      /\ pressed \in BOOLEAN /\ pressed' = pressed
  BY DEF GateInd, PolicyInd, Wait, Pass
<1>1. /\ gate' \in GateType
      /\ gate'.armed = gate.armed /\ gate'.candidate = gate.candidate
      /\ gate'.stable = gate.stable /\ gate'.consumed = gate.consumed
      /\ gate'.candidateAge = Older(gate.candidateAge, Debounce)
      /\ gate'.pressAge = Older(gate.pressAge, Hold)
  BY <1>0, AgedCases DEF Wait, Pass
<1>2. /\ released' = IF pressed THEN 0 ELSE Older(released, Debounce + 1)
      /\ held' = IF released' > Debounce THEN 0
                 ELSE IF held = -1 \/ (held = 0 /\ ~pressed) THEN held
                 ELSE Older(held, Hold)
  BY DEF Wait, Pass
<1>3. blind' \in BOOLEAN /\ (blind' <=> blind \/ (step \in {"start", "transfer"} /\ gate.stable))
  BY <1>0, BlindCases DEF Wait
<1>4. gate.candidateAge \in 0 .. Debounce /\ gate.pressAge \in 0 .. Hold
  BY <1>0 DEF GateType
<1>5. released' \in 0 .. Debounce + 1 /\ held' \in -1 .. Hold
  BY <1>0, <1>2, Limits DEF Older
<1>6. policy'.state = policy.state
  BY PolicyEdits DEF PolicyInd, Wait, Pass
<1>7. pressed => released' = 0 /\ held' # 0
  BY <1>0, <1>2, Limits DEF Older
<1>8. released' > Debounce => held' = 0
  BY <1>2
<1>9. held' = -1 => held = -1
  BY <1>0, <1>2, Limits DEF Older
<1>10. ~gate.armed => gate.stable /\ ~blind /\ policy.state = "Closed" /\ step \notin {"start", "transfer"}
  BY DEF GateInd, PolicyInd, Transfer
<1>11. Timed'
  <2> SUFFICES ASSUME gate'.stable, ~blind' PROVE Clocked'
    BY DEF Timed
  <2>1. gate.stable /\ ~blind /\ step = "delay" /\ step' = "window"
    BY <1>1, <1>3 DEF Wait
  <2>2. ~Unsampled /\ Unsampled'
    BY <2>1 DEF Unsampled
  <2>3. /\ released = IF gate.candidate THEN 0 ELSE gate.candidateAge + 1
        /\ ~gate.candidate => gate.candidateAge < Debounce
        /\ gate.armed /\ ~gate.consumed => held >= 1 /\ held >= gate.pressAge
    BY <2>1, <2>2 DEF GateInd, Timed, Clocked, Releasing
  <2>4. released' = IF pressed THEN 0 ELSE IF gate.candidate THEN 1 ELSE gate'.candidateAge + 1
    BY <1>0, <1>1, <1>2, <1>4, <2>3, Limits DEF Older
  <2>5. ASSUME gate.armed, ~gate.consumed, released' <= Debounce
        PROVE  held' >= 1 /\ held' >= gate'.pressAge
    BY <1>0, <1>1, <1>2, <1>4, <2>3, <2>5, Limits DEF Older
  <2>6. ASSUME released' > Debounce, released' \in 0 .. Debounce + 1
        PROVE  ~pressed /\ (gate.candidate => Debounce < 1) /\ (~gate.candidate => gate'.candidateAge >= Debounce)
    BY <1>1, <1>4, <2>4, <2>6, Limits DEF Older
  <2> QED BY <1>0, <1>1, <1>5, <2>2, <2>4, <2>5, <2>6, Limits DEF Clocked, Releasing
<1>12. Unsampled' /\ pressed' => released' = 0 /\ held' # 0
  BY <1>0, <1>7
<1>13. Unsampled' /\ released' > Debounce => held' = 0
  BY <1>8
<1>14. ~gate'.armed => gate'.stable /\ ~blind' /\ policy'.state = "Closed"
  BY <1>1, <1>3, <1>6, <1>10
<1>15. held' = -1 => ~gate'.armed
  BY <1>1, <1>9 DEF GateInd
<1> QED BY <1>1, <1>3, <1>5, <1>11, <1>12, <1>13, <1>14, <1>15 DEF GateInd

\* What a sample of the button does to the gate: r is the gate that decides,
\* and a press that fires is consumed.
LEMMA SampledCases ==
  ASSUME PolicyInd, GateInd, SampleButton
  PROVE  \E r \in GateType :
           /\ r = Debounced(gate, pressed)
           /\ gate' \in GateType
           /\ gate'.armed = r.armed /\ gate'.candidate = r.candidate /\ gate'.stable = r.stable
           /\ gate'.candidateAge = r.candidateAge /\ gate'.pressAge = r.pressAge
           /\ \/ Fires(r) /\ gate'.consumed = TRUE
              \/ ~Fires(r) /\ gate'.consumed = r.consumed /\ policy' = policy
<1> DEFINE r == Debounced(gate, pressed)
<1>1. r \in GateType
  BY DebouncedCases DEF GateInd, PolicyInd
<1>2. CASE Fires(r)
  <2>1. gate' = [r EXCEPT !.consumed = TRUE]
    BY <1>2 DEF SampleButton
  <2> HIDE DEF r
  <2>2. gate' \in GateType
    BY <1>1, <2>1 DEF GateType
  <2>3. /\ gate'.armed = r.armed /\ gate'.candidate = r.candidate /\ gate'.stable = r.stable
        /\ gate'.candidateAge = r.candidateAge /\ gate'.pressAge = r.pressAge /\ gate'.consumed = TRUE
    BY <1>1, <2>1 DEF GateType
  <2> QED BY <1>1, <1>2, <2>2, <2>3 DEF r
<1>3. CASE ~Fires(r)
  <2>1. gate' = r /\ policy' = policy
    BY <1>3 DEF SampleButton
  <2> HIDE DEF r
  <2> QED BY <1>1, <1>3, <2>1 DEF r
<1> QED BY <1>2, <1>3

\* A press that the gate believes after a sample was believed before it, or
\* has just begun; a press it has timed was timed before.
LEMMA SampleGate ==
  ASSUME PolicyInd, GateInd, SampleButton
  PROVE  GateInd' /\ (Fires(Debounced(gate, pressed)) => held >= Hold \/ blind)
<1>1. PICK r \in GateType :
           /\ r = Debounced(gate, pressed)
           /\ gate' \in GateType
           /\ gate'.armed = r.armed /\ gate'.candidate = r.candidate /\ gate'.stable = r.stable
           /\ gate'.candidateAge = r.candidateAge /\ gate'.pressAge = r.pressAge
           /\ \/ Fires(r) /\ gate'.consumed = TRUE
              \/ ~Fires(r) /\ gate'.consumed = r.consumed /\ policy' = policy
  BY SampledCases
<1>2. /\ gate \in GateType /\ released \in 0 .. Debounce + 1 /\ held \in -1 .. Hold /\ blind \in BOOLEAN
      /\ pressed \in BOOLEAN /\ gate.candidateAge \in 0 .. Debounce /\ gate.pressAge \in 0 .. Hold
      /\ r.armed \in BOOLEAN /\ r.stable \in BOOLEAN /\ r.consumed \in BOOLEAN
      /\ gate.armed \in BOOLEAN /\ gate.stable \in BOOLEAN /\ gate.candidate \in BOOLEAN
  BY DEF GateInd, PolicyInd, GateType
<1>3. /\ step = "button" /\ step' = "handle" /\ UNCHANGED <<pressed, released, held>>
      /\ Unsampled /\ ~Unsampled'
  BY DEF SampleButton, Unsampled
<1>4. blind' \in BOOLEAN /\ (blind' => blind) /\ (blind /\ r.stable => blind')
  BY <1>1, <1>2, BlindCases
<1>5. /\ ~gate.armed => gate.stable /\ ~blind /\ policy.state = "Closed"
      /\ held = -1 => ~gate.armed
      /\ pressed => released = 0 /\ held # 0
      /\ released > Debounce => held = 0
      /\ gate.stable /\ ~blind =>
           /\ released = IF pressed THEN 0 ELSE IF gate.candidate THEN 1 ELSE gate.candidateAge + 1
           /\ gate.armed /\ ~gate.consumed => Releasing \/ (held >= 1 /\ held >= gate.pressAge)
  BY <1>3 DEF GateInd, Timed, Clocked
<1>6. ASSUME Remembers(gate, pressed, r)
      PROVE  GateInd' /\ (Fires(Debounced(gate, pressed)) => held >= Hold \/ blind)
  <2> USE DEF Remembers
  <2>1. gate.stable => ~Releasing
    <3> SUFFICES ASSUME gate.stable, ~pressed, ~gate.candidate, gate.candidateAge >= Debounce PROVE FALSE
      BY DEF Releasing
    <3>1. pressed # gate.stable /\ pressed = gate.candidate
      BY <1>2
    <3>2. gate.candidateAge < Debounce
      BY <1>6, <3>1
    <3> QED BY <1>2, <3>2, Limits
  <2>2. Fires(r) => held >= Hold \/ blind
    BY <1>2, <1>5, <1>6, <2>1, Limits DEF Fires
  <2>3. ~r.armed => ~Fires(r)
    BY DEF Fires
  <2>4. ~gate'.armed => gate'.stable /\ ~blind' /\ policy'.state = "Closed"
    BY <1>1, <1>4, <1>5, <1>6, <2>3
  <2>5. ASSUME gate'.stable, ~blind' PROVE Clocked'
    <3>1. gate.stable /\ ~blind
      BY <1>1, <1>4, <1>6, <2>5
    <3>2. /\ released' = IF gate'.candidate THEN 0 ELSE gate'.candidateAge + 1
          /\ ~gate'.candidate => gate'.candidateAge < Debounce
      <4>1. CASE pressed
        BY <1>1, <1>3, <1>5, <1>6, <3>1, <4>1
      <4>2. CASE ~pressed /\ gate.candidate
        <5>1. pressed # gate.candidate /\ pressed # gate.stable
          BY <1>2, <3>1, <4>2
        <5>2. gate'.candidateAge = 0 /\ ~gate'.candidate /\ released' = 1
          BY <1>1, <1>3, <1>5, <1>6, <3>1, <4>2, <5>1
        <5> QED BY <5>2, Limits
      <4>3. CASE ~pressed /\ ~gate.candidate
        <5>1. pressed = gate.candidate /\ pressed # gate.stable
          BY <1>2, <3>1, <4>3
        <5> QED BY <1>1, <1>3, <1>5, <1>6, <3>1, <4>3, <5>1
      <4> QED BY <4>1, <4>2, <4>3
    <3>3. gate'.armed /\ ~gate'.consumed => held >= 1 /\ held >= gate'.pressAge
      BY <1>1, <1>5, <1>6, <2>1, <3>1
    <3> QED BY <1>3, <3>2, <3>3 DEF Clocked
  <2>6. Timed'
    BY <2>5 DEF Timed
  <2> QED BY <1>1, <1>2, <1>3, <1>4, <1>5, <1>6, <2>2, <2>4, <2>6 DEF GateInd
<1>7. ASSUME Believes(gate, pressed, r)
      PROVE  GateInd' /\ (Fires(Debounced(gate, pressed)) => held >= Hold \/ blind)
  <2> USE DEF Believes
  <2>1. gate.armed \/ ~pressed
    BY <1>5, <1>7
  <2>2. r.armed
    BY <1>7, <2>1
  <2>3. ~Fires(r)
    BY <1>2, <1>7, <2>1, Limits DEF Fires
  <2>4. ASSUME ~gate.armed PROVE held = 0
    <3>1. gate.stable /\ ~blind /\ ~pressed /\ ~gate.candidate
      BY <1>2, <1>5, <1>7, <2>4
    <3>2. released = gate.candidateAge + 1
      BY <1>5, <3>1
    <3>3. released > Debounce
      BY <1>2, <1>7, <3>2, Limits
    <3> QED BY <1>5, <3>3
  <2>5. held' # -1
    BY <1>3, <1>5, <2>4
  <2>6. ASSUME gate'.stable, ~blind' PROVE Clocked'
    <3>1. pressed /\ gate'.candidate /\ gate.armed
      BY <1>1, <1>7, <2>1, <2>6
    <3>2. released = 0 /\ held >= 1 /\ gate'.pressAge = 0
      <4>1. released = 0 /\ held # 0 /\ held # -1 /\ gate'.pressAge = 0
        BY <1>1, <1>5, <1>7, <3>1
      <4> QED BY <1>2, <4>1
    <3>3. released' = 0 /\ held' >= 1 /\ held' >= gate'.pressAge
      BY <1>2, <1>3, <3>2
    <3> QED BY <1>3, <3>1, <3>3 DEF Clocked
  <2>7. Timed'
    BY <2>6 DEF Timed
  <2>8. gate'.armed
    BY <1>1, <2>2
  <2> QED BY <1>1, <1>2, <1>3, <1>4, <2>3, <2>5, <2>7, <2>8 DEF GateInd
<1> QED BY <1>1, <1>2, <1>6, <1>7, DebouncedCases

\* The device restarts.
LEMMA BootGate ==
  ASSUME pressed \in BOOLEAN, pressed' \in BOOLEAN,
         gate' = GateBegin(pressed'), released' = 0, held' = (IF pressed' THEN -1 ELSE 0),
         blind' = FALSE, policy'.state = "Closed", step' = "window"
  PROVE  GateInd'
<1>1. 0 \in 0 .. Debounce /\ 0 \in 0 .. Hold /\ 0 \in 0 .. Debounce + 1
      /\ -1 \in -1 .. Hold /\ 0 \in -1 .. Hold
  BY Limits
<1>2. CASE pressed' = TRUE
  <2>1. /\ gate' \in GateType /\ ~gate'.armed /\ gate'.stable /\ gate'.candidate /\ gate'.consumed
    BY <1>1, <1>2 DEF GateBegin, GateType
  <2>2. held' = -1 /\ Unsampled'
    BY <1>2 DEF Unsampled
  <2>3. Timed'
    BY <1>2, <2>1, <2>2 DEF Timed, Clocked
  <2>4. released' \in 0 .. Debounce + 1 /\ held' \in -1 .. Hold /\ held' # 0 /\ ~(released' > Debounce)
    BY <1>1, <2>2, Limits
  <2> QED BY <1>1, <1>2, <2>1, <2>2, <2>3, <2>4 DEF GateInd
<1>3. CASE pressed' = FALSE
  <2>1. /\ gate' \in GateType /\ gate'.armed /\ ~gate'.stable
    BY <1>1, <1>3 DEF GateBegin, GateType
  <2>2. held' = 0
    BY <1>3
  <2>3. released' \in 0 .. Debounce + 1 /\ held' \in -1 .. Hold /\ held' # -1
    BY <1>1, <2>2
  <2> QED BY <1>3, <2>1, <2>2, <2>3 DEF GateInd, Timed
<1> QED BY <1>2, <1>3

\* Every step keeps GateInd.
LEMMA GateNext ==
  ASSUME PolicyInd, GateInd, [Next]_vars
  PROVE  GateInd'
<1>t. policy \in [ state: OtaStates, windowAge: 0 .. Window, transferAge: 0 .. TransferTime ]
  BY DEF PolicyInd
<1>u. \A failed : StopListener(failed) => policy'.state = "Closed"
  BY <1>t, PolicyEdits DEF StopListener
<1> USE DEF gateVars, histVars
<1>1. CASE CheckWindow
  <2>1. policy'.state \in {policy.state, "Closed"}
    BY <1>1, <1>u DEF CheckWindow
  <2> QED BY <1>1, <2>1, SameGate DEF CheckWindow, Unsampled
<1>2. CASE SampleButton
  BY <1>2, SampleGate
<1>3. CASE Handle
  <2>1. policy'.state \in {policy.state, "Closed"}
    BY <1>3, <1>u DEF Handle
  <2> QED BY <1>3, <2>1, SameGate DEF Handle, Unsampled
<1>4. ASSUME NEW app \in BOOLEAN, OnStart(app) PROVE GateInd'
  <2>1. policy'.state = "Closed" \/ policy.state # "Closed"
    BY <1>4, <1>u DEF OnStart, Admitted
  <2> QED BY <1>4, <2>1, SameGate DEF OnStart, Unsampled
<1>5. CASE Wait
  BY <1>5, PassGate
<1>6. ASSUME Boot PROVE GateInd'
  <2>1. policy'.state = "Closed" /\ pressed' = pressed /\ pressed \in BOOLEAN
    BY <1>6 DEF Boot, PolicyInd
  <2>2. /\ gate' = GateBegin(pressed') /\ released' = 0 /\ held' = (IF pressed' THEN -1 ELSE 0)
        /\ blind' = FALSE /\ step' = "window" /\ pressed' \in BOOLEAN
    BY <1>6, <2>1 DEF Boot
  <2> QED BY <2>1, <2>2, BootGate
<1>7. CASE OnProgress
  BY <1>6, <1>7, SameGate DEF OnProgress, Unsampled
<1>8. CASE OnError
  BY <1>8, <1>u, SameGate DEF OnError, Unsampled
<1>9. CASE OnEnd
  BY <1>6, <1>9 DEF OnEnd
<1>10. CASE Button
  BY <1>10, SameGate DEF Button, Unsampled
<1>11. CASE Wifi \/ Voice \/ OtherFeedback \/ Led
  BY <1>11, SameGate DEF Wifi, Voice, OtherFeedback, Led, Unsampled
<1>12. CASE UNCHANGED vars
  BY <1>12, SameGate DEF vars, Unsampled
<1> QED
  BY <1>1, <1>2, <1>3, <1>4, <1>5, <1>7, <1>8, <1>9, <1>10, <1>11, <1>12 DEF Next, Worker

\* A sample that makes the gate believe another level fires for nothing, and a
\* release it believes without having been kept from sampling is no bounce.
LEMMA BelievesCases ==
  ASSUME PolicyInd, GateInd, Unsampled, NEW r \in GateType, Believes(gate, pressed, r)
  PROVE  ~Fires(r) /\ (gate.stable /\ ~blind => released > Debounce)
<1>1. /\ gate \in GateType /\ gate.candidateAge \in 0 .. Debounce /\ gate.pressAge \in 0 .. Hold
      /\ gate.stable \in BOOLEAN /\ gate.armed \in BOOLEAN /\ pressed \in BOOLEAN
      /\ ~gate.armed => gate.stable
  BY DEF GateInd, GateType, PolicyInd
<1>2. ~Fires(r)
  BY <1>1, Limits DEF Believes, Fires
<1>3. ASSUME gate.stable, ~blind PROVE released > Debounce
  <2>1. ~pressed /\ ~gate.candidate /\ gate.candidateAge >= Debounce
    BY <1>1, <1>3 DEF Believes
  <2>2. released = gate.candidateAge + 1
    BY <1>3, <2>1 DEF GateInd, Timed, Clocked
  <2> QED BY <1>1, <2>1, <2>2, Limits
<1> QED BY <1>2, <1>3

\* A sample of the button: a press that fires has not fired before.
LEMMA SampleSpent ==
  ASSUME PolicyInd, GateInd, SpentInd, SampleButton
  PROVE  SpentInd' /\ (Fires(Debounced(gate, pressed)) => ~spent \/ blind)
<1>1. PICK r \in GateType :
           /\ r = Debounced(gate, pressed)
           /\ gate' \in GateType
           /\ gate'.armed = r.armed /\ gate'.candidate = r.candidate /\ gate'.stable = r.stable
           /\ gate'.candidateAge = r.candidateAge /\ gate'.pressAge = r.pressAge
           /\ \/ Fires(r) /\ gate'.consumed = TRUE
              \/ ~Fires(r) /\ gate'.consumed = r.consumed /\ policy' = policy
  BY SampledCases
<1>2. /\ Unsampled /\ ~Unsampled' /\ blind \in BOOLEAN /\ gate \in GateType /\ pressed \in BOOLEAN
      /\ \/ Fires(r) /\ spent' = TRUE
         \/ ~Fires(r) /\ spent' = spent
  BY <1>1 DEF SampleButton, Unsampled, GateInd, PolicyInd
<1>3. blind' <=> blind /\ (r.stable \/ spent')
  BY <1>1, <1>2, BlindCases
<1>4. CASE Fires(r)
  <2>1. r.stable /\ ~r.consumed
    BY <1>4 DEF Fires
  <2>2. ~Believes(gate, pressed, r)
    BY <1>2, <1>4, BelievesCases
  <2>3. Remembers(gate, pressed, r)
    BY <1>1, <1>2, <2>2, DebouncedCases
  <2>4. ~gate.consumed
    BY <2>1, <2>3 DEF Remembers
  <2>5. ~spent \/ blind
    BY <2>4 DEF SpentInd
  <2>6. gate'.stable /\ gate'.consumed /\ spent' = TRUE
    BY <1>1, <1>2, <1>4, <2>1
  <2> QED BY <1>2, <2>5, <2>6 DEF SpentInd
<1>5. CASE ~Fires(r)
  <2>0. spent' = spent /\ spent \in BOOLEAN
    BY <1>2, <1>5 DEF SpentInd
  <2>1. ASSUME spent', ~blind' PROVE gate'.stable /\ gate'.consumed
    <3>1. spent /\ ~blind
      BY <1>3, <2>0, <2>1
    <3>2. gate.stable /\ gate.consumed /\ released <= Debounce
      BY <1>2, <3>1 DEF SpentInd
    <3>3. ~(released > Debounce)
      BY <3>2, Limits DEF GateInd
    <3>4. ~Believes(gate, pressed, r)
      BY <1>2, <3>1, <3>2, <3>3, BelievesCases
    <3>5. Remembers(gate, pressed, r)
      BY <1>1, <1>2, <3>4, DebouncedCases
    <3> QED BY <1>1, <1>5, <3>2, <3>5 DEF Remembers
  <2> QED BY <1>1, <1>2, <1>5, <2>0, <2>1 DEF SpentInd
<1> QED BY <1>1, <1>4, <1>5

\* A step that leaves the button's history alone.
LEMMA SameSpent ==
  ASSUME SpentInd, UNCHANGED <<gate, released, spent, blind>>, Unsampled' => Unsampled
  PROVE  SpentInd'
BY DEF SpentInd

\* Every step keeps SpentInd.
LEMMA SpentNext ==
  ASSUME PolicyInd, GateInd, SpentInd, [Next]_vars
  PROVE  SpentInd'
<1> USE DEF gateVars, histVars
<1>1. CASE CheckWindow \/ Handle
  BY <1>1, SameSpent DEF CheckWindow, Handle, Unsampled
<1>2. CASE SampleButton
  BY <1>2, SampleSpent
<1>3. ASSUME NEW app \in BOOLEAN, OnStart(app) PROVE SpentInd'
  BY <1>3, SameSpent DEF OnStart, Unsampled
<1>4. CASE Wait
  <2>1. gate'.stable = gate.stable /\ gate'.consumed = gate.consumed
    BY <1>4, AgedCases DEF Wait, Pass, GateInd
  <2>2. spent \in BOOLEAN /\ blind \in BOOLEAN
    BY DEF SpentInd, GateInd
  <2>3. spent' \in BOOLEAN /\ (spent' <=> spent /\ released' <= Debounce)
    BY <1>4, <2>2 DEF Wait, Pass
  <2>4. blind => blind'
    BY <1>4, <2>2, BlindCases DEF Wait
  <2> QED BY <2>1, <2>3, <2>4 DEF SpentInd
<1>5. ASSUME Boot PROVE SpentInd'
  BY <1>5 DEF Boot, SpentInd
<1>6. CASE OnProgress
  BY <1>5, <1>6, SameSpent DEF OnProgress, Unsampled
<1>7. CASE OnError
  BY <1>7, SameSpent DEF OnError, Unsampled
<1>8. CASE OnEnd
  BY <1>5, <1>8 DEF OnEnd
<1>9. CASE Button \/ Wifi \/ Voice \/ OtherFeedback \/ Led
  BY <1>9, SameSpent DEF Button, Wifi, Voice, OtherFeedback, Led, Unsampled
<1>10. CASE UNCHANGED vars
  BY <1>10, SameSpent DEF vars, Unsampled
<1> QED
  BY <1>1, <1>2, <1>3, <1>4, <1>6, <1>7, <1>8, <1>9, <1>10 DEF Next, Worker

-----------------------------------------------------------------------------
(* The LED *)

\* The events and what they tell.
LEMMA Events ==
  /\ \A on \in BOOLEAN : Listening(on) \in Event /\ Listening(on).type = "Listening" /\ Listening(on).active = on
  /\ \A s \in OtaStates : OtaNow(s) \in Event /\ OtaNow(s).type = "OtaState" /\ OtaNow(s).state = s
  /\ OtaResult \in Event /\ OtaResult.type = "OtaResult"
  /\ Feedback \in Event /\ Feedback.type = "Feedback"
BY DEF Event, Listening, OtaNow, OtaResult, Feedback

\* The steady colours, and that the voice session shows only without a window.
LEMMA Colours ==
  ASSUME NEW s \in OtaStates, NEW on \in BOOLEAN
  PROVE  /\ Steady(s, on) \in {"off", "blue", "amber", "teal"}
         /\ s # "Closed" => \A other : Steady(s, other) = Steady(s, on)
BY DEF Steady, OtaStates

\* An event at the end of the queue.
LEMMA AtTheEnd ==
  ASSUME NEW q \in Seq(Event), NEW e \in Event
  PROVE  /\ \A known, s : OtaEvent(e) /\ Told(e) = s => OtaPending(Append(q, e), known, s)
         /\ \A known, s : ~OtaEvent(e) /\ OtaPending(q, known, s) => OtaPending(Append(q, e), known, s)
         /\ \A known, on : VoiceEvent(e) /\ e.active = on => VoicePending(Append(q, e), known, on)
         /\ \A known, on : ~VoiceEvent(e) /\ VoicePending(q, known, on)
                             => VoicePending(Append(q, e), known, on)
<1> DEFINE n == Len(q)
           r == Append(q, e)
<1>1. /\ n \in Nat /\ DOMAIN q = 1 .. n /\ DOMAIN r = 1 .. n + 1
      /\ \A i \in 1 .. n : r[i] = q[i]
      /\ r[n + 1] = e
  BY AppendProperties, LenProperties
<1>2. /\ n + 1 \in 1 .. n + 1 /\ \A j \in 1 .. n + 1 : ~(j > n + 1)
      /\ \A i \in 1 .. n : i \in 1 .. n + 1 /\ n + 1 > i
      /\ \A j \in 1 .. n + 1 : j \in 1 .. n \/ j = n + 1
  BY <1>1
<1> HIDE DEF n, r
<1>3. ASSUME NEW known, NEW s, OtaEvent(e), Told(e) = s PROVE OtaPending(r, known, s)
  BY <1>1, <1>2, <1>3 DEF OtaPending
<1>4. ASSUME NEW known, NEW s, ~OtaEvent(e), OtaPending(q, known, s) PROVE OtaPending(r, known, s)
  <2>1. CASE known = s /\ \A i \in DOMAIN q : ~OtaEvent(q[i])
    BY <1>1, <1>2, <1>4, <2>1 DEF OtaPending
  <2>2. ASSUME NEW i \in DOMAIN q, OtaEvent(q[i]), Told(q[i]) = s,
               \A j \in DOMAIN q : j > i => ~OtaEvent(q[j])
        PROVE  OtaPending(r, known, s)
    BY <1>1, <1>2, <1>4, <2>2 DEF OtaPending
  <2> QED BY <1>4, <2>1, <2>2 DEF OtaPending
<1>5. ASSUME NEW known, NEW on, VoiceEvent(e), e.active = on PROVE VoicePending(r, known, on)
  BY <1>1, <1>2, <1>5 DEF VoicePending
<1>6. ASSUME NEW known, NEW on, ~VoiceEvent(e), VoicePending(q, known, on)
      PROVE  VoicePending(r, known, on)
  <2>1. CASE known = on /\ \A i \in DOMAIN q : ~VoiceEvent(q[i])
    BY <1>1, <1>2, <1>6, <2>1 DEF VoicePending
  <2>2. ASSUME NEW i \in DOMAIN q, VoiceEvent(q[i]), q[i].active = on,
               \A j \in DOMAIN q : j > i => ~VoiceEvent(q[j])
        PROVE  VoicePending(r, known, on)
    BY <1>1, <1>2, <1>6, <2>2 DEF VoicePending
  <2> QED BY <1>6, <2>1, <2>2 DEF VoicePending
<1> QED BY <1>3, <1>4, <1>5, <1>6 DEF r

\* The event at the head of the queue is taken: what it told is known now.
LEMMA AtTheHead ==
  ASSUME NEW q \in Seq(Event), q # <<>>
  PROVE  /\ Head(q) \in Event /\ Tail(q) \in Seq(Event) /\ Len(Tail(q)) < Len(q)
         /\ \A known, s :
              OtaPending(q, known, s)
                => OtaPending(Tail(q), IF OtaEvent(Head(q)) THEN Told(Head(q)) ELSE known, s)
         /\ \A known, on :
              VoicePending(q, known, on)
                => VoicePending(Tail(q), IF VoiceEvent(Head(q)) THEN Head(q).active ELSE known, on)
<1> DEFINE n == Len(q)
           h == Head(q)
           r == Tail(q)
<1>1. /\ n \in Nat /\ n > 0 /\ DOMAIN q = 1 .. n /\ h = q[1] /\ h \in Event
      /\ r \in Seq(Event) /\ Len(r) = n - 1 /\ DOMAIN r = 1 .. n - 1
      /\ \A i \in 1 .. n - 1 : r[i] = q[i + 1]
  BY HeadTailProperties, LenProperties, EmptySeq
<1>2. /\ \A i \in 1 .. n : i = 1 \/ (i - 1 \in 1 .. n - 1 /\ r[i - 1] = q[i])
      /\ \A i \in 1 .. n - 1 : i + 1 \in 1 .. n /\ i + 1 > 1
      /\ n - 1 < n /\ 1 \in 1 .. n
  BY <1>1
<1> HIDE DEF n, h, r
<1>3. ASSUME NEW known, NEW s, OtaPending(q, known, s)
      PROVE  OtaPending(r, IF OtaEvent(h) THEN Told(h) ELSE known, s)
  <2>1. CASE known = s /\ \A i \in DOMAIN q : ~OtaEvent(q[i])
    <3>1. ~OtaEvent(h) /\ \A i \in DOMAIN r : ~OtaEvent(r[i])
      BY <1>1, <1>2, <2>1
    <3> QED BY <2>1, <3>1 DEF OtaPending
  <2>2. ASSUME NEW i \in DOMAIN q, OtaEvent(q[i]), Told(q[i]) = s,
               \A j \in DOMAIN q : j > i => ~OtaEvent(q[j])
        PROVE  OtaPending(r, IF OtaEvent(h) THEN Told(h) ELSE known, s)
    <3>1. CASE i = 1
      <4>1. OtaEvent(h) /\ Told(h) = s /\ \A j \in DOMAIN r : ~OtaEvent(r[j])
        BY <1>1, <1>2, <2>2, <3>1
      <4> QED BY <4>1 DEF OtaPending
    <3>2. CASE i # 1
      <4>1. i - 1 \in DOMAIN r /\ OtaEvent(r[i - 1]) /\ Told(r[i - 1]) = s
        BY <1>1, <1>2, <2>2, <3>2
      <4>2. ASSUME NEW j \in DOMAIN r, j > i - 1 PROVE ~OtaEvent(r[j])
        <5>1. j + 1 \in DOMAIN q /\ j + 1 > i /\ r[j] = q[j + 1]
          BY <1>1, <4>2
        <5> QED BY <2>2, <5>1
      <4> QED BY <4>1, <4>2 DEF OtaPending
    <3> QED BY <3>1, <3>2
  <2> QED BY <1>3, <2>1, <2>2 DEF OtaPending
<1>4. ASSUME NEW known, NEW on, VoicePending(q, known, on)
      PROVE  VoicePending(r, IF VoiceEvent(h) THEN h.active ELSE known, on)
  <2>1. CASE known = on /\ \A i \in DOMAIN q : ~VoiceEvent(q[i])
    <3>1. ~VoiceEvent(h) /\ \A i \in DOMAIN r : ~VoiceEvent(r[i])
      BY <1>1, <1>2, <2>1
    <3> QED BY <2>1, <3>1 DEF VoicePending
  <2>2. ASSUME NEW i \in DOMAIN q, VoiceEvent(q[i]), q[i].active = on,
               \A j \in DOMAIN q : j > i => ~VoiceEvent(q[j])
        PROVE  VoicePending(r, IF VoiceEvent(h) THEN h.active ELSE known, on)
    <3>1. CASE i = 1
      <4>1. VoiceEvent(h) /\ h.active = on /\ \A j \in DOMAIN r : ~VoiceEvent(r[j])
        BY <1>1, <1>2, <2>2, <3>1
      <4> QED BY <4>1 DEF VoicePending
    <3>2. CASE i # 1
      <4>1. i - 1 \in DOMAIN r /\ VoiceEvent(r[i - 1]) /\ r[i - 1].active = on
        BY <1>1, <1>2, <2>2, <3>2
      <4>2. ASSUME NEW j \in DOMAIN r, j > i - 1 PROVE ~VoiceEvent(r[j])
        <5>1. j + 1 \in DOMAIN q /\ j + 1 > i /\ r[j] = q[j + 1]
          BY <1>1, <4>2
        <5> QED BY <2>2, <5>1
      <4> QED BY <4>1, <4>2 DEF VoicePending
    <3> QED BY <3>1, <3>2
  <2> QED BY <1>4, <2>1, <2>2 DEF VoicePending
<1> QED BY <1>1, <1>2, <1>3, <1>4 DEF n, h, r

\* send_indicator_event: the queue keeps its bound, and unless something was
\* dropped the events are at its end.
LEMMA Indicated ==
  ASSUME IndicatorTypeOK, NEW events \in Seq(Event), Indicate(events)
  PROVE  /\ queue' \in Seq(Event) /\ Len(queue') <= QueueLength /\ dropped' \in BOOLEAN
         /\ UNCHANGED workerVars
         /\ ~dropped' => ~dropped /\ queue' = queue \o events
<1> DEFINE room == QueueLength - Len(queue)
           kept == IF Len(events) < room THEN Len(events) ELSE room
<1>1. /\ queue \in Seq(Event) /\ Len(queue) <= QueueLength /\ dropped \in BOOLEAN
      /\ Len(queue) \in Nat /\ Len(events) \in Nat /\ QueueLength \in Nat
      /\ DOMAIN events = 1 .. Len(events) /\ \A i \in 1 .. Len(events) : events[i] \in Event
  BY LenProperties, IndicatorAssumption DEF IndicatorTypeOK
<1>2. kept \in Nat /\ kept <= Len(events) /\ Len(queue) + kept <= QueueLength
  BY <1>1
<1>3. /\ queue' = queue \o SubSeq(events, 1, kept)
      /\ dropped' = (dropped \/ kept < Len(events))
      /\ UNCHANGED workerVars
  BY DEF Indicate
<1> HIDE DEF kept
<1>4. SubSeq(events, 1, kept) \in Seq(Event) /\ Len(SubSeq(events, 1, kept)) = kept
  <2>1. \A i \in 1 .. kept : events[i] \in Event
    BY <1>1, <1>2
  <2> QED BY <1>2, <2>1, SubSeqProperties
<1>5. queue' \in Seq(Event) /\ Len(queue') <= QueueLength
  BY <1>1, <1>2, <1>3, <1>4, ConcatProperties
<1>6. dropped' \in BOOLEAN
  BY <1>3
<1>7. ASSUME ~dropped' PROVE ~dropped /\ queue' = queue \o events
  <2>1. ~dropped /\ ~(kept < Len(events))
    BY <1>3, <1>7
  <2>0. kept \in Nat /\ Len(events) \in Nat /\ kept <= Len(events)
    BY <1>1, <1>2
  <2> HIDE DEF room
  <2>2. kept = Len(events)
    BY <2>0, <2>1
  <2>3. SubSeq(events, 1, Len(events)) = events
    BY SubSeqFull
  <2> QED BY <1>3, <2>1, <2>2, <2>3
<1> QED BY <1>3, <1>5, <1>6, <1>7

\* One event is sent.
LEMMA IndicatedOne ==
  ASSUME IndicatorTypeOK, NEW e \in Event, Indicate(<<e>>)
  PROVE  /\ IndicatorTypeOK' /\ UNCHANGED workerVars
         /\ ~dropped' => ~dropped /\ queue' = Append(queue, e)
<1>1. <<e>> \in Seq(Event)
  OBVIOUS
<1>2. Append(queue, e) = queue \o <<e>>
  BY AppendIsConcat DEF IndicatorTypeOK
<1>3. IndicatorTypeOK'
  BY <1>1, Indicated DEF IndicatorTypeOK, workerVars
<1> QED BY <1>1, <1>2, <1>3, Indicated

\* Two events make a sequence.
LEMMA PairOfEvents ==
  ASSUME NEW e \in Event, NEW f \in Event
  PROVE  <<e>> \o <<f>> = <<e, f>>
<1> DEFINE s == Append(<<e>>, f)
           t == <<e, f>>
<1>0. s = <<e>> \o <<f>>
  BY AppendIsConcat
<1>1. Len(<<e>>) = 1 /\ <<e>>[1] = e /\ <<e>> \in Seq(Event)
  OBVIOUS
<1>2. s \in Seq(Event) /\ Len(s) = 2 /\ s[1] = e /\ s[2] = f
  BY <1>1, AppendProperties
<1>3. t \in Seq(Event) /\ Len(t) = 2 /\ t[1] = e /\ t[2] = f
  OBVIOUS
<1> HIDE DEF s, t
<1>4. \A i \in 1 .. Len(s) : s[i] = t[i]
  BY <1>2, <1>3
<1>5. s = t
  BY <1>2, <1>3, <1>4, SeqEqual
<1> QED BY <1>0, <1>5 DEF t

\* Two events are sent one after the other.
LEMMA IndicatedTwo ==
  ASSUME IndicatorTypeOK, NEW e \in Event, NEW f \in Event, Indicate(<<e, f>>)
  PROVE  /\ IndicatorTypeOK' /\ UNCHANGED workerVars
         /\ ~dropped' => ~dropped /\ queue' = Append(Append(queue, e), f)
<1>1. <<e, f>> \in Seq(Event) /\ <<e>> \in Seq(Event) /\ <<f>> \in Seq(Event) /\ queue \in Seq(Event)
  BY DEF IndicatorTypeOK
<1>2. Append(queue, e) = queue \o <<e>> /\ Append(queue, e) \in Seq(Event)
  BY <1>1, AppendIsConcat, AppendProperties
<1>3. Append(Append(queue, e), f) = Append(queue, e) \o <<f>>
  BY <1>2, AppendIsConcat
<1>4. (queue \o <<e>>) \o <<f>> = queue \o (<<e>> \o <<f>>)
  BY <1>1, ConcatAssociative
<1>5. <<e>> \o <<f>> = <<e, f>>
  BY PairOfEvents
<1>6. IndicatorTypeOK'
  BY <1>1, Indicated DEF IndicatorTypeOK, workerVars
<1> QED BY <1>1, <1>2, <1>3, <1>4, <1>5, <1>6, Indicated

\* The worker shows an event.
LEMMA Shown ==
  ASSUME IndicatorTypeOK, NEW e \in Event, Show(e), ~pulse => led = Steady(otaState, voiceListening)
  PROVE  /\ voiceListening' \in BOOLEAN /\ otaState' \in OtaStates /\ pulse' \in BOOLEAN
         /\ led' \in {"off", "blue", "amber", "teal", "pulse"}
         /\ ~pulse' => led' = Steady(otaState', voiceListening')
         /\ otaState' = IF OtaEvent(e) THEN Told(e) ELSE otaState
         /\ voiceListening' = IF VoiceEvent(e) THEN e.active ELSE voiceListening
<1>t. /\ voiceListening \in BOOLEAN /\ otaState \in OtaStates /\ pulse \in BOOLEAN
      /\ led \in {"off", "blue", "amber", "teal", "pulse"} /\ "Closed" \in OtaStates
  BY DEF IndicatorTypeOK, OtaStates
<1>1. CASE e.type = "Listening"
  <2>1. /\ voiceListening' = e.active /\ otaState' = otaState /\ pulse' = pulse
        /\ led' = IF pulse \/ otaState # "Closed" THEN led ELSE Steady("Closed", e.active)
    BY <1>1 DEF Show
  <2>2. e.active \in BOOLEAN
    BY <1>1 DEF Event
  <2>3. otaState # "Closed" => Steady(otaState, e.active) = Steady(otaState, voiceListening)
    BY <1>t, <2>2, Colours
  <2>4. Steady("Closed", e.active) \in {"off", "blue", "amber", "teal"}
    BY <1>t, <2>2, Colours
  <2>5. VoiceEvent(e) /\ ~OtaEvent(e)
    BY <1>1 DEF VoiceEvent, OtaEvent
  <2> QED BY <1>t, <2>1, <2>2, <2>3, <2>4, <2>5
<1>2. CASE e.type = "OtaState"
  <2>1. otaState' = e.state /\ pulse' = FALSE /\ led' = Steady(e.state, voiceListening)
        /\ voiceListening' = voiceListening
    BY <1>2 DEF Show
  <2>2. e.state \in OtaStates
    BY <1>2 DEF Event
  <2>3. Steady(e.state, voiceListening) \in {"off", "blue", "amber", "teal"}
    BY <1>t, <2>2, Colours
  <2>4. OtaEvent(e) /\ ~VoiceEvent(e) /\ Told(e) = e.state
    BY <1>2 DEF VoiceEvent, OtaEvent, Told
  <2> QED BY <1>t, <2>1, <2>2, <2>3, <2>4
<1>3. CASE e.type = "OtaResult"
  <2>1. otaState' = "Closed" /\ pulse' = TRUE /\ led' = "pulse" /\ voiceListening' = voiceListening
    BY <1>3 DEF Show
  <2>2. OtaEvent(e) /\ ~VoiceEvent(e) /\ Told(e) = "Closed"
    BY <1>3 DEF VoiceEvent, OtaEvent, Told
  <2> QED BY <1>t, <2>1, <2>2
<1>4. CASE e.type = "Feedback"
  <2>1. /\ voiceListening' = voiceListening /\ otaState' = otaState
        /\ (pulse' = TRUE /\ led' = "pulse") \/ (pulse' = pulse /\ led' = led)
    BY <1>4 DEF Show, workerVars
  <2>2. ~OtaEvent(e) /\ ~VoiceEvent(e)
    BY <1>4 DEF VoiceEvent, OtaEvent
  <2> QED BY <1>t, <2>1, <2>2
<1>5. e.type \in {"Listening", "OtaState", "OtaResult", "Feedback"}
  BY DEF Event
<1> QED BY <1>1, <1>2, <1>3, <1>4, <1>5

\* An event is sent that tells the state it changes.
LEMMA LedEvent ==
  ASSUME LedInd, NEW e \in Event, Indicate(<<e>>), closed' \in BOOLEAN,
         \/ VoiceEvent(e) /\ e.active = listening'
         \/ ~VoiceEvent(e) /\ listening' = listening,
         \/ OtaEvent(e) /\ Told(e) = policy'.state
         \/ ~OtaEvent(e) /\ policy'.state = policy.state /\ closed' = closed
         \/ closed'
  PROVE  LedInd'
<1>1. /\ IndicatorTypeOK' /\ UNCHANGED workerVars
      /\ ~dropped' => ~dropped /\ queue' = Append(queue, e)
  BY IndicatedOne DEF LedInd
<1>2. queue \in Seq(Event)
  BY DEF LedInd, IndicatorTypeOK
<1>3. ASSUME ~dropped' PROVE VoicePending(queue', voiceListening', listening')
  BY <1>1, <1>2, <1>3, AtTheEnd DEF LedInd, workerVars
<1>4. ASSUME ~dropped', ~closed' PROVE OtaPending(queue', otaState', policy'.state)
  BY <1>1, <1>2, <1>4, AtTheEnd DEF LedInd, workerVars
<1>5. ~pulse' => led' = Steady(otaState', voiceListening')
  BY <1>1 DEF LedInd, workerVars
<1> QED BY <1>1, <1>3, <1>4, <1>5 DEF LedInd

\* The window is closed, with or without a result.
LEMMA LedStop ==
  ASSUME PolicyInd, LedInd, NEW failed \in BOOLEAN, StopListener(failed), UNCHANGED listening
  PROVE  LedInd'
<1> DEFINE e == OtaNow("Closed")
<1>1. e \in Event /\ OtaResult \in Event /\ e.type = "OtaState" /\ e.state = "Closed"
      /\ OtaResult.type = "OtaResult"
  BY Events DEF OtaStates
<1> HIDE DEF e
<1>2. /\ OtaEvent(e) /\ Told(e) = "Closed" /\ ~VoiceEvent(e)
      /\ OtaEvent(OtaResult) /\ Told(OtaResult) = "Closed" /\ ~VoiceEvent(OtaResult)
  BY <1>1 DEF OtaEvent, Told, VoiceEvent
<1>3. closed' = FALSE /\ policy'.state = "Closed"
  BY PolicyEdits DEF StopListener, PolicyInd
<1>4. CASE failed = FALSE
  <2>1. <<e>> \o <<>> = <<e>>
    BY <1>1, ConcatEmptySeq
  <2>2. Indicate(<<e>>)
    BY <1>4, <2>1 DEF StopListener, e
  <2> QED BY <1>1, <1>2, <1>3, <2>2, LedEvent
<1>5. CASE failed = TRUE
  <2>1. <<e>> \o <<OtaResult>> = <<e, OtaResult>>
    BY <1>1, PairOfEvents
  <2>2. Indicate(<<e, OtaResult>>)
    BY <1>5, <2>1 DEF StopListener, e
  <2>3. /\ IndicatorTypeOK' /\ UNCHANGED workerVars
        /\ ~dropped' => ~dropped /\ queue' = Append(Append(queue, e), OtaResult)
    BY <1>1, <2>2, IndicatedTwo DEF LedInd
  <2>4. queue \in Seq(Event) /\ Append(queue, e) \in Seq(Event)
    BY <1>1, AppendProperties DEF LedInd, IndicatorTypeOK
  <2>5. ASSUME ~dropped' PROVE VoicePending(queue', voiceListening', listening')
    <3>1. VoicePending(Append(queue, e), voiceListening, listening)
      BY <1>1, <1>2, <2>3, <2>4, <2>5, AtTheEnd DEF LedInd
    <3>2. VoicePending(Append(Append(queue, e), OtaResult), voiceListening, listening)
      BY <1>1, <1>2, <2>4, <3>1, AtTheEnd
    <3> QED BY <2>3, <2>5, <3>2 DEF workerVars
  <2>6. ASSUME ~dropped' PROVE OtaPending(queue', otaState', policy'.state)
    BY <1>1, <1>2, <1>3, <2>3, <2>4, <2>6, AtTheEnd
  <2>7. ~pulse' => led' = Steady(otaState', voiceListening')
    BY <2>3 DEF LedInd, workerVars
  <2> QED BY <1>3, <2>3, <2>5, <2>6, <2>7 DEF LedInd
<1> QED BY <1>4, <1>5

\* Nothing the LED shows changes.
LEMMA LedSame ==
  ASSUME LedInd, UNCHANGED <<indicatorVars, listening>>, closed' = closed, policy'.state = policy.state
  PROVE  LedInd'
BY DEF LedInd, IndicatorTypeOK, indicatorVars, workerVars

\* The device restarts.
LEMMA LedBoot ==
  ASSUME Boot
  PROVE  LedInd'
<1>1. /\ queue' = <<>> /\ dropped' = FALSE /\ voiceListening' = FALSE /\ otaState' = "Closed"
      /\ pulse' = FALSE /\ led' = "off" /\ closed' = FALSE /\ listening' = FALSE
      /\ policy'.state = "Closed"
  BY DEF Boot
<1>2. queue' \in Seq(Event) /\ Len(queue') = 0 /\ DOMAIN queue' = {}
  BY <1>1
<1>a. 0 <= QueueLength
  BY IndicatorAssumption
<1>b. Len(queue') <= QueueLength
  BY <1>2, <1>a
<1>c. voiceListening' \in BOOLEAN /\ pulse' \in BOOLEAN /\ dropped' \in BOOLEAN
  BY <1>1
<1>d. otaState' \in OtaStates /\ led' \in {"off", "blue", "amber", "teal", "pulse"}
  BY <1>1 DEF OtaStates
<1>3. IndicatorTypeOK'
  BY <1>2, <1>b, <1>c, <1>d, Zenon DEF IndicatorTypeOK
<1>4. Steady("Closed", FALSE) = "off"
  BY DEF Steady
<1> QED BY <1>1, <1>2, <1>3, <1>4 DEF LedInd, VoicePending, OtaPending

\* Every step keeps LedInd.
LEMMA LedNext ==
  ASSUME PolicyInd, LedInd, [Next]_vars
  PROVE  LedInd'
<1>t. /\ policy \in [ state: OtaStates, windowAge: 0 .. Window, transferAge: 0 .. TransferTime ]
      /\ wifi \in BOOLEAN /\ listening \in BOOLEAN /\ closed \in BOOLEAN
  BY DEF PolicyInd, LedInd
<1>e. /\ \A s \in OtaStates : OtaNow(s) \in Event /\ OtaEvent(OtaNow(s)) /\ ~VoiceEvent(OtaNow(s))
                              /\ Told(OtaNow(s)) = s
      /\ OtaResult \in Event /\ OtaEvent(OtaResult) /\ ~VoiceEvent(OtaResult) /\ Told(OtaResult) = "Closed"
      /\ Feedback \in Event /\ ~OtaEvent(Feedback) /\ ~VoiceEvent(Feedback)
      /\ \A on \in BOOLEAN : Listening(on) \in Event /\ ~OtaEvent(Listening(on))
                             /\ VoiceEvent(Listening(on)) /\ Listening(on).active = on
  BY Events DEF OtaEvent, VoiceEvent, Told
<1> USE DEF histVars
<1>1. CASE CheckWindow
  <2>1. (~wifi) \in BOOLEAN
    BY <1>t
  <2> QED BY <1>1, <2>1, LedStop, LedSame DEF CheckWindow
<1>2. CASE SampleButton
  <2>1. listening' = listening
    BY <1>2 DEF SampleButton
  <2>2. CASE UNCHANGED <<policy, closed, indicatorVars>>
    BY <2>1, <2>2, LedSame
  <2>3. CASE policy' = [policy EXCEPT !.state = "WindowOpen", !.windowAge = 0]
             /\ Indicate(<<OtaNow("WindowOpen")>>) /\ closed' = closed
    <3>1. policy'.state = "WindowOpen" /\ "WindowOpen" \in OtaStates
      BY <1>t, <2>3, PolicyEdits DEF OtaStates
    <3> QED BY <1>t, <1>e, <2>1, <2>3, <3>1, LedEvent
  <2>4. CASE /\ policy' = policy /\ Indicate(<<OtaResult>>) /\ ~wifi
             /\ closed' = (closed \/ (~wifi /\ policy.state = "WindowOpen"))
    <3>1. closed' \in BOOLEAN
      BY <2>4
    <3>2. policy.state = "WindowOpen" => closed'
      BY <2>4
    <3>3. policy.state # "Transferring"
      BY <1>2 DEF SampleButton, PolicyInd, Transfer
    <3>4. policy'.state = "Closed" \/ closed'
      BY <1>t, <2>4, <3>2, <3>3 DEF OtaStates
    <3> QED BY <1>e, <2>1, <2>4, <3>1, <3>4, LedEvent
  <2>5. CASE policy' = policy /\ wifi /\ UNCHANGED indicatorVars
             /\ closed' = (closed \/ (~wifi /\ policy.state = "WindowOpen"))
    <3>1. closed' = closed
      BY <1>t, <2>5
    <3> QED BY <2>1, <2>5, <3>1, LedSame
  <2> QED BY <1>2, <2>2, <2>3, <2>4, <2>5 DEF SampleButton, Activate
<1>3. CASE Handle
  BY <1>3, LedStop, LedSame DEF Handle
<1>4. ASSUME NEW app \in BOOLEAN, OnStart(app) PROVE LedInd'
  <2>1. CASE ~Admitted(app)
    BY <1>4, <2>1, LedStop DEF OnStart
  <2>2. CASE Admitted(app)
    <3>1. /\ policy'.state = "Transferring" /\ "Transferring" \in OtaStates
          /\ Indicate(<<OtaNow("Transferring")>>) /\ closed' = closed /\ listening' = listening
      <4>1. policy' = [policy EXCEPT !.state = "Transferring", !.transferAge = 0]
            /\ Indicate(<<OtaNow("Transferring")>>) /\ closed' = closed /\ listening' = listening
        BY <1>4, <2>2, Zenon DEF OnStart
      <4>2. policy'.state = "Transferring"
        BY <1>t, <4>1
      <4> QED BY <4>1, <4>2 DEF OtaStates
    <3> QED BY <1>t, <1>e, <3>1, LedEvent
  <2> QED BY <2>1, <2>2
<1>5. CASE Wait
  <2>1. policy'.state = policy.state
    BY <1>5, <1>t, PolicyEdits DEF Wait, Pass
  <2> QED BY <1>5, <2>1, LedSame DEF Wait, Pass
<1>6. CASE OnProgress
  BY <1>6, LedBoot, LedSame DEF OnProgress
<1>7. CASE OnError
  BY <1>7, LedStop DEF OnError
<1>8. CASE OnEnd
  BY <1>8, LedBoot DEF OnEnd
<1>9. CASE Button \/ Wifi
  BY <1>9, LedSame DEF Button, Wifi
<1>10. CASE Voice
  <2>1. listening' \in BOOLEAN
    BY <1>10, <1>t DEF Voice
  <2> QED BY <1>10, <1>t, <1>e, <2>1, LedEvent DEF Voice
<1>11. CASE OtherFeedback
  BY <1>11, <1>t, <1>e, LedEvent DEF OtherFeedback
<1>12. CASE Led
  <2>0. UNCHANGED <<policy, listening, closed>>
    BY <1>12 DEF Led
  <2>1. CASE TakeEvent
    <3>1. /\ queue \in Seq(Event) /\ queue # <<>> /\ Show(Head(queue)) /\ queue' = Tail(queue)
          /\ dropped' = dropped /\ dropped \in BOOLEAN /\ Len(queue) <= QueueLength /\ Len(queue) \in Nat
      BY <2>1, LenProperties DEF TakeEvent, LedInd, IndicatorTypeOK
    <3>2. Head(queue) \in Event /\ queue' \in Seq(Event) /\ Len(queue') < Len(queue) /\ Len(queue') \in Nat
      BY <3>1, AtTheHead, LenProperties
    <3>3. Len(queue') <= QueueLength
      BY <3>1, <3>2, IndicatorAssumption
    <3>4. /\ voiceListening' \in BOOLEAN /\ otaState' \in OtaStates /\ pulse' \in BOOLEAN
          /\ led' \in {"off", "blue", "amber", "teal", "pulse"}
          /\ ~pulse' => led' = Steady(otaState', voiceListening')
          /\ otaState' = IF OtaEvent(Head(queue)) THEN Told(Head(queue)) ELSE otaState
          /\ voiceListening' = IF VoiceEvent(Head(queue)) THEN Head(queue).active ELSE voiceListening
      BY <3>1, <3>2, Shown DEF LedInd
    <3>5. ~dropped' => VoicePending(queue', voiceListening', listening')
      BY <2>0, <3>1, <3>4, AtTheHead DEF LedInd
    <3>6. ~dropped' /\ ~closed' => OtaPending(queue', otaState', policy'.state)
      BY <2>0, <3>1, <3>4, AtTheHead DEF LedInd
    <3>7. IndicatorTypeOK'
      BY <3>1, <3>2, <3>3, <3>4 DEF IndicatorTypeOK
    <3> QED BY <1>t, <2>0, <3>4, <3>5, <3>6, <3>7 DEF LedInd
  <2>2. CASE PulseEnds
    <3>1. led' \in {"off", "blue", "amber", "teal"}
      BY <2>2, Colours DEF PulseEnds, LedInd, IndicatorTypeOK
    <3>2. IndicatorTypeOK'
      BY <2>2, <3>1 DEF PulseEnds, LedInd, IndicatorTypeOK
    <3> QED BY <2>0, <2>2, <3>2 DEF PulseEnds, LedInd
  <2> QED BY <1>12, <2>1, <2>2 DEF Led, IndicatorWorker
<1>13. CASE UNCHANGED vars
  BY <1>13, LedSame DEF vars
<1> QED
  BY <1>1, <1>2, <1>3, <1>4, <1>5, <1>6, <1>7, <1>8, <1>9, <1>10, <1>11, <1>12, <1>13 DEF Next, Worker

-----------------------------------------------------------------------------
(* The theorems *)

\* The first boot.
LEMMA OtaInit == Init => PolicyInd /\ GateInd /\ SpentInd /\ LedInd
<1> SUFFICES ASSUME Init PROVE PolicyInd /\ GateInd /\ SpentInd /\ LedInd
  OBVIOUS
<1>0. 0 \in 0 .. Window /\ 0 \in 0 .. TransferTime /\ -1 < TransferTime
  BY Limits
<1>1. PolicyInd
  BY <1>0 DEF Init, PolicyInd, ListenerMatches, InstalledInTime, NotInstalled, Transfer, OtaStates
<1>2. GateInd
  <2>1. 0 \in 0 .. Debounce /\ 0 \in 0 .. Hold /\ 0 \in 0 .. Debounce + 1
        /\ -1 \in -1 .. Hold /\ 0 \in -1 .. Hold /\ ~(0 > Debounce)
    BY Limits
  <2>2. CASE pressed = TRUE
    <3>1. /\ gate \in GateType /\ ~gate.armed /\ gate.stable /\ gate.candidate /\ gate.consumed
      BY <2>1, <2>2 DEF Init, GateBegin, GateType
    <3>2. held = -1 /\ Unsampled /\ released = 0 /\ blind = FALSE /\ policy.state = "Closed"
      BY <2>2 DEF Init, Unsampled
    <3>3. Timed
      BY <2>2, <3>1, <3>2 DEF Timed, Clocked
    <3>4. held \in -1 .. Hold /\ held # 0
      BY <2>1, <3>2
    <3> QED BY <2>1, <2>2, <3>1, <3>2, <3>3, <3>4 DEF GateInd
  <2>3. CASE pressed = FALSE
    <3>1. /\ gate \in GateType /\ gate.armed /\ ~gate.stable
      BY <2>1, <2>3 DEF Init, GateBegin, GateType
    <3>2. held = 0 /\ released = 0 /\ blind = FALSE
      BY <2>3 DEF Init
    <3>3. held # -1
      BY <3>2
    <3> QED BY <2>1, <2>3, <3>1, <3>2, <3>3 DEF GateInd, Timed
  <2> QED BY <2>2, <2>3 DEF Init
<1>3. LedInd
  <2>1. queue = <<>> /\ queue \in Seq(Event) /\ Len(queue) = 0 /\ DOMAIN queue = {}
    BY DEF Init, IndicatorInit
  <2>a. 0 <= QueueLength
    BY IndicatorAssumption
  <2>b. Len(queue) <= QueueLength
    BY <2>1, <2>a
  <2>c. voiceListening \in BOOLEAN /\ pulse \in BOOLEAN /\ dropped \in BOOLEAN
    BY DEF Init, IndicatorInit
  <2>d. otaState \in OtaStates /\ led \in {"off", "blue", "amber", "teal", "pulse"}
    BY DEF Init, IndicatorInit, OtaStates
  <2>2. IndicatorTypeOK
    BY <2>1, <2>b, <2>c, <2>d, Zenon DEF IndicatorTypeOK
  <2>3. Steady("Closed", FALSE) = "off"
    BY DEF Steady
  <2> QED BY <2>1, <2>2, <2>3 DEF Init, IndicatorInit, LedInd, VoicePending, OtaPending
<1>4. SpentInd
  BY Limits DEF Init, SpentInd
<1> QED BY <1>1, <1>2, <1>3, <1>4

\* The four parts are invariants.
LEMMA OtaAlways == Spec => [](PolicyInd /\ GateInd /\ SpentInd /\ LedInd)
BY OtaInit, PolicyNext, GateNext, SpentNext, LedNext, PTL DEF Spec

\* The upload port accepts an image exactly while the policy has a window open
\* or a transfer running, and the LED queue keeps its bound.
THEOREM PortFollowsPolicy == Spec => []OtaInv
<1>1. PolicyInd /\ GateInd /\ LedInd => OtaInv
  BY DEF PolicyInd, GateInd, GateType, LedInd, OtaInv, TypeOK
<1> QED BY <1>1, OtaAlways, PTL

\* ota_on_progress keeps its deadline: no image is installed past it, however
\* the chunks arrive.
THEOREM DeadlineKept == Spec => []InstalledInTime
<1>1. PolicyInd => InstalledInTime
  BY DEF PolicyInd
<1> QED BY <1>1, OtaAlways, PTL

\* Once the indicator worker has taken every event, the LED shows the window,
\* or else the voice session, unless an event was dropped or an activation
\* failed while a window was open.
THEOREM LedCatchesUp == Spec => []LedTruthful
<1>1. LedInd => LedTruthful
  <2> SUFFICES ASSUME LedInd, queue = <<>>, ~pulse, ~dropped, ~closed
               PROVE  led = Steady(policy.state, listening)
    BY DEF LedTruthful
  <2>1. DOMAIN queue = {}
    OBVIOUS
  <2> QED BY <2>1 DEF LedInd, OtaPending, VoicePending
<1> QED BY <1>1, OtaAlways, PTL

\* OtaButtonGate opens a window only for a press that lasted Hold and has not
\* fired before, and never for one that was there at startup, unless a transfer
\* kept it from sampling.
THEOREM OnlyHoldsOpen == Spec => HoldOpens
<1>1. ASSUME PolicyInd, GateInd, SpentInd, [Next]_vars, Opens
      PROVE  (held >= Hold /\ ~spent) \/ blind
  <2>t. policy \in [ state: OtaStates, windowAge: 0 .. Window, transferAge: 0 .. TransferTime ]
    BY <1>1 DEF PolicyInd
  <2>0. policy.state = "Closed" /\ policy'.state = "WindowOpen"
    BY <1>1 DEF Opens
  <2>1. \A failed : StopListener(failed) => policy'.state = "Closed"
    BY <2>t, PolicyEdits DEF StopListener
  <2>2. Pass => policy'.state = policy.state
    BY <2>t, PolicyEdits DEF Pass
  <2>3. Boot => policy'.state = "Closed"
    BY DEF Boot
  <2>4. SampleButton
    BY <1>1, <2>0, <2>1, <2>2, <2>3
    DEF Next, Worker, CheckWindow, Handle, OnStart, Admitted, Wait, OnProgress, OnError, OnEnd,
        Button, Wifi, Voice, OtherFeedback, Led, vars
  <2>5. Fires(Debounced(gate, pressed))
    BY <2>0, <2>4 DEF SampleButton
  <2> QED BY <1>1, <2>4, <2>5, SampleGate, SampleSpent
<1> QED BY <1>1, OtaAlways, PTL DEF Spec, HoldOpens

=============================================================================
