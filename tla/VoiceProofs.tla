---------------------------- MODULE VoiceProofs ----------------------------
(***************************************************************************)
(* Theorems about VoiceService, for every set of tables and every length   *)
(* of the event queue: flash, memory and the recognizer hold one table,    *)
(* which is the one acknowledged; a phrase has the action it had when it   *)
(* was spoken, in the session it was spoken in; and the table the media    *)
(* worker waits for is never lost.                                         *)
(*                                                                         *)
(* The argument about sessions rests on the order of the queue.  The       *)
(* recognizer reports wake words in one mode, commands and timeouts in the *)
(* other, and only the worker changes the mode, when it takes an event     *)
(* (InOrder): so a wake word that opens a session has no command behind    *)
(* it, and none of an earlier session can be taken for one of this.        *)
(***************************************************************************)
EXTENDS VoiceService, SequenceTheorems, FiniteSetTheorems, TLAPS

-----------------------------------------------------------------------------
(* The inductive invariant *)

\* A queued event.
Msg ==
  [ kind: {"wakeword", "command", "timeout", "update"}, cmd: Command, index: Nat,
    rev: Nat, meant: Actions \cup {Off}, stale: BOOLEAN ]

\* Types, and the revision the callback stamps is that of the active table.
VoiceTypes ==
  /\ slot \in {0, 1} /\ stored \in [{0, 1} -> Snapshots \cup {Blank}]
  /\ active \in Snapshots \cup {Builtins} /\ callback = active.revision
  /\ recog \in Snapshots \cup {Builtins, Off} /\ mode \in {"wakeword", "command"}
  /\ listening \in BOOLEAN /\ stuck \in BOOLEAN
  /\ update \in Snapshots \cup {NoUpdate} /\ worker \in Stages
  /\ intent \in {"none", "media", "sync", "custom"}
  /\ media \in {"idle", "send", "fetch", "applying", "applied"}
  /\ fetched \in Snapshots \cup {Builtins}

\* The queue holds events, and keeps its bound.
QueueTypes == queue \in Seq(Msg) /\ Len(queue) <= QueueLength

\* How far an activation has come, and what is in flash by then.
Handed ==
  /\ update # NoUpdate => media = "applying" /\ update = fetched
  /\ worker \notin {"ready", "none"} => update # NoUpdate /\ ~listening
  /\ media \in {"applying", "applied"} => fetched \in Snapshots
  /\ worker \in {"stop", "build", "switch"} => stored[1 - slot] = update
  /\ worker = "commit" => stored[slot] = update
  /\ media = "applied" => stored[slot] # Blank /\ stored[slot].revision = fetched.revision
  /\ ActiveStored
  /\ AckedIsStored

\* No table waits in queue q, or just one.
NoneQueued(q) == \A i \in DOMAIN q : q[i].kind # "update"

OneQueued(q) == \E i \in DOMAIN q : \A j \in DOMAIN q : q[j].kind = "update" <=> j = i

\* Where the table is that the media worker waits for.
Waiting ==
  IF media = "applying" /\ update = NoUpdate THEN OneQueued(queue) ELSE NoneQueued(queue)

\* The last stages of an activation, with a queue that was emptied.
Rebuilding == worker \in {"build", "switch", "commit", "restore", "builtins"}

\* The table of the recognizer, if it is not stuck.
Recognizer ==
  ~stuck =>
    /\ worker \in {"ready", "stage", "stop"} => recog \in {Off, active}
    /\ worker \in {"build", "restore", "builtins", "none"} => recog = Off
    /\ worker \in {"switch", "commit"} => recog = update

\* What the recognizer reports in command mode.
Spoken(m) == m.kind \in {"command", "timeout"}

WakeWord(m) == m.kind = "wakeword"

\* While it waits for the wake word, no command is queued behind one; while it
\* waits for a command, no wake word is queued behind a command.
InOrder(q, waits) ==
  \A i \in DOMAIN q, j \in DOMAIN q : i < j =>
    IF waits = "wakeword" THEN WakeWord(q[i]) => ~Spoken(q[j])
                          ELSE Spoken(q[i]) => ~WakeWord(q[j])

\* The session: the order of the events, and none of an earlier session is
\* left when one is open.
Sessions ==
  /\ InOrder(queue, mode)
  /\ mode = "command" /\ ~listening => \A i \in DOMAIN queue : ~WakeWord(queue[i])
  /\ listening => \A i \in DOMAIN queue : Spoken(queue[i]) => ~queue[i].stale
  /\ Rebuilding => /\ recog # Off => mode = "wakeword"
                   /\ mode = "command" => queue = <<>>
                   /\ \A i \in DOMAIN queue : ~Spoken(queue[i])

\* A command of the user's has the action it has in table t.
Means(m, t) ==
  m.cmd = "custom" =>
    /\ m.kind = "command" /\ m.rev = t.revision
    /\ m.index \in 1 .. Len(t.commands) /\ m.meant = t.commands[m.index]

\* So it is with the active table for every command in the queue, and for the
\* last one that was acted on.
Meanings ==
  ~stuck => /\ \A i \in DOMAIN queue : Means(queue[i], active)
            /\ heard.action = heard.meant /\ ~heard.stale

-----------------------------------------------------------------------------
(* Tables and types *)

\* Tables have a revision and a sequence of commands.
LEMMA Tables ==
  /\ Builtins.revision = 0 /\ Builtins.commands = <<>> /\ Builtins \in Table
  /\ \A t \in Snapshots : t \in Table /\ t.revision > 0 /\ t # Builtins
  /\ \A t \in Snapshots \cup {Builtins} :
       t.revision \in Nat /\ t.commands \in Seq(Actions) /\ t # Off
  /\ Blank \notin Snapshots /\ NoUpdate \notin Snapshots
<1>1. Builtins.revision = 0 /\ Builtins.commands = <<>> /\ Builtins \in Table
  BY DEF Builtins, Table
<1>2. \A t \in Snapshots : t \in Table /\ t.revision > 0 /\ t # Builtins
  BY <1>1, VoiceAssumption
<1>3. \A t \in Table : t.revision \in Nat /\ t.commands \in Seq(Actions)
  BY DEF Table
<1> QED BY <1>1, <1>2, <1>3, VoiceAssumption

\* The other slot is a slot.
LEMMA Slots == \A s \in {0, 1} : 1 - s \in {0, 1} /\ 1 - s # s
OBVIOUS

\* A table that is taken from the queue is the one the media worker fetched.
LEMMA Arrives ==
  ASSUME QueueTypes, Handed, Waiting, queue # <<>>, Head(queue).kind = "update"
  PROVE  media = "applying" /\ update = NoUpdate /\ fetched \in Snapshots /\ OneQueued(queue)
<1>1. 1 \in DOMAIN queue /\ Head(queue) = queue[1]
  BY HeadTailProperties, LenProperties, EmptySeq DEF QueueTypes
<1>2. ~NoneQueued(queue)
  BY <1>1 DEF NoneQueued
<1> QED BY <1>2 DEF Waiting, Handed

\* Every step keeps the types.
LEMMA TypesNext ==
  ASSUME VoiceTypes, QueueTypes, Handed, Waiting, [Next]_vars
  PROVE  VoiceTypes'
<1> USE DEF VoiceTypes
<1>1. CASE Hear
  BY <1>1 DEF Hear, HearWakeWord, HearCommand, HearNothing, Recognize, nvsVars, recogVars, mediaVars, histVars
<1>2. CASE OnWakeWord \/ OnTimeout \/ OnCommandRejected
  BY <1>2 DEF OnWakeWord, OnTimeout, OnCommandRejected, SetMode, workerIdle, nvsVars, recogVars, mediaVars, histVars
<1>3. CASE OnCommandAccepted
  BY <1>3 DEF OnCommandAccepted, Submit, Custom, workerIdle, nvsVars, recogVars, mediaVars, histVars
<1>4. CASE OnUpdate
  BY <1>4, Arrives DEF OnUpdate, nvsVars, recogVars, mediaVars, histVars
<1>5. CASE Activate
  BY <1>5 DEF Activate, Finished, Stages, nvsVars, recogVars, mediaVars, histVars
<1>6. CASE Stage
  BY <1>6, Slots DEF Stage, Finished, Handed, Stages, nvsVars, recogVars, mediaVars, histVars
<1>7. CASE StopRecognizer
  BY <1>7 DEF StopRecognizer, Finished, Stages, nvsVars, recogVars, mediaVars, histVars
<1>8. CASE Build
  BY <1>8 DEF Build, Starts, StartFails, Runs, Handed, Stages, nvsVars, recogVars, mediaVars, histVars
<1>9. CASE SwitchSlot
  <2>1. UNCHANGED <<stored, active, callback, listening, update, mediaVars>>
    BY <1>9 DEF SwitchSlot
  <2>2. slot' \in {0, 1} /\ worker' \in Stages
    BY <1>9, Slots DEF SwitchSlot, Stages
  <2>3. recog' \in {recog, Off} /\ mode' = mode /\ stuck' \in BOOLEAN
    BY <1>9 DEF SwitchSlot, recogVars
  <2> QED BY <2>1, <2>2, <2>3 DEF mediaVars
<1>10. CASE Commit
  BY <1>10 DEF Commit, Finished, Handed, Stages, nvsVars, recogVars, mediaVars, histVars
<1>11. CASE Restore
  BY <1>11 DEF Restore, Finished, Starts, StartFails, Runs, Stages, nvsVars, recogVars, mediaVars, histVars
<1>12. CASE RestoreBuiltins
  BY <1>12, Tables DEF RestoreBuiltins, Finished, Starts, StartFails, Runs, Stages, nvsVars, recogVars, mediaVars, histVars
<1>13. CASE Media
  BY <1>13 DEF Media, TakeIntent, Sent, Fetch, Acknowledge, nvsVars, recogVars, mediaVars, histVars
<1>14. CASE Reboot
  <2>1. Loaded \in Snapshots \cup {Builtins}
    BY DEF Loaded
  <2> QED BY <1>14, <2>1 DEF Reboot, Stages, nvsVars
<1>15. CASE UNCHANGED vars
  BY <1>15 DEF vars, nvsVars, recogVars, mediaVars, histVars
<1> QED
  BY <1>1, <1>2, <1>3, <1>4, <1>5, <1>6, <1>7, <1>8, <1>9, <1>10, <1>11, <1>12, <1>13, <1>14, <1>15
  DEF Next, Worker, Handle, Activation

-----------------------------------------------------------------------------
(* From the fetch to the acknowledgement *)

\* A step that leaves the hand-over alone.
LEMMA HandedSame ==
  ASSUME Handed, UNCHANGED <<nvsVars, active, update, media, fetched, acked>>,
         worker' = worker, listening' => listening \/ worker = "ready"
  PROVE  Handed'
BY DEF Handed, ActiveStored, AckedIsStored, nvsVars

\* An activation ends without changing the active table or its slot.
LEMMA HandedEnds ==
  ASSUME VoiceTypes, Handed, NEW ok \in BOOLEAN, Finished(ok), worker # "commit",
         UNCHANGED <<slot, acked>>, stored'[slot] = stored[slot], active' \in {active, Builtins},
         ok => update = active /\ update # NoUpdate
  PROVE  Handed'
<1>1. /\ update' = NoUpdate /\ worker' = "ready" /\ media' = IF ok THEN "applied" ELSE "idle"
      /\ fetched' = fetched
  BY DEF Finished
<1>2. ActiveStored' /\ AckedIsStored'
  BY <1>1 DEF Handed, ActiveStored, AckedIsStored
<1>3. ASSUME ok
      PROVE  fetched \in Snapshots /\ stored[slot] # Blank /\ stored[slot].revision = fetched.revision
  <2>1. update \in Snapshots /\ update = active /\ update = fetched
    BY <1>3 DEF VoiceTypes, Handed
  <2>2. active # Builtins
    BY <2>1, Tables
  <2>3. stored[slot] = active
    BY <2>2 DEF Handed, ActiveStored
  <2> QED BY <2>1, <2>3, Tables
<1>4. fetched' \in Snapshots \/ media' = "idle"
  BY <1>1, <1>3
<1>5. media' = "applied" => stored'[slot'] # Blank /\ stored'[slot'].revision = fetched'.revision
  BY <1>1, <1>3
<1> QED BY <1>1, <1>2, <1>4, <1>5 DEF Handed

\* Every step keeps the hand-over.
LEMMA HandedNext ==
  ASSUME VoiceTypes, QueueTypes, Handed, Waiting, [Next]_vars
  PROVE  Handed'
<1>1. CASE Hear
  BY <1>1, HandedSame DEF Hear, HearWakeWord, HearCommand, HearNothing, Recognize, mediaVars, histVars
<1>2. CASE OnWakeWord \/ OnTimeout \/ OnCommandRejected
  BY <1>2, HandedSame DEF OnWakeWord, OnTimeout, OnCommandRejected, Take, workerIdle, mediaVars, histVars
<1>3. CASE OnCommandAccepted
  BY <1>3, HandedSame DEF OnCommandAccepted, Submit, Custom, workerIdle, mediaVars
<1>4. CASE OnUpdate
  <2>1. media = "applying" /\ update = NoUpdate /\ fetched \in Snapshots
    BY <1>4, Arrives DEF OnUpdate
  <2> QED BY <1>4, <2>1 DEF OnUpdate, Handed, ActiveStored, AckedIsStored, nvsVars, mediaVars, histVars
<1>5. CASE Activate
  <2>1. UNCHANGED <<nvsVars, active, listening, acked>> /\ worker = "ready" /\ update # NoUpdate /\ ~listening
    BY <1>5 DEF Activate, histVars
  <2>2. CASE Finished(FALSE)
    BY <2>1, <2>2, HandedEnds DEF nvsVars
  <2>3. CASE Finished(update = active)
    BY <2>1, <2>3, HandedEnds DEF nvsVars
  <2>4. CASE worker' = "stage" /\ UNCHANGED <<update, mediaVars>>
    BY <2>1, <2>4 DEF Handed, ActiveStored, AckedIsStored, nvsVars, mediaVars
  <2> QED BY <1>5, <2>2, <2>3, <2>4 DEF Activate
<1>6. CASE Stage
  <2>0. slot \in {0, 1} /\ 1 - slot \in {0, 1} /\ 1 - slot # slot /\ DOMAIN stored = {0, 1}
    BY Slots DEF VoiceTypes
  <2>1. UNCHANGED <<slot, active, listening, acked>> /\ worker = "stage"
    BY <1>6 DEF Stage, histVars
  <2>2. CASE /\ stored' = [stored EXCEPT ![1 - slot] = update] /\ worker' = "stop"
             /\ UNCHANGED <<update, mediaVars>>
    <3>1. stored'[slot] = stored[slot] /\ stored'[1 - slot] = update
      BY <2>0, <2>2
    <3> QED BY <2>1, <2>2, <3>1 DEF Handed, ActiveStored, AckedIsStored, mediaVars
  <2>3. ASSUME NEW t, stored' = [stored EXCEPT ![1 - slot] = t], Finished(FALSE) PROVE Handed'
    <3>1. stored'[slot] = stored[slot]
      BY <2>0, <2>3
    <3> QED BY <2>1, <2>3, <3>1, HandedEnds
  <2> QED BY <1>6, <2>2, <2>3 DEF Stage
<1>7. CASE StopRecognizer
  <2>1. CASE Finished(FALSE)
    BY <1>7, <2>1, HandedEnds DEF StopRecognizer, nvsVars, histVars
  <2>2. CASE worker' = "build" /\ UNCHANGED <<update, mediaVars>>
    BY <1>7, <2>2 DEF StopRecognizer, Handed, ActiveStored, AckedIsStored, nvsVars, mediaVars, histVars
  <2> QED BY <1>7, <2>1, <2>2 DEF StopRecognizer
<1>8. CASE Build
  BY <1>8 DEF Build, Handed, ActiveStored, AckedIsStored, nvsVars, mediaVars
<1>9. CASE SwitchSlot
  BY <1>9 DEF SwitchSlot, Handed, ActiveStored, AckedIsStored, mediaVars
<1>10. CASE Commit
  <2>1. /\ UNCHANGED <<nvsVars, listening, acked, fetched>> /\ active' = update /\ update' = NoUpdate
        /\ worker = "commit" /\ worker' = "ready" /\ media' = "applied"
    BY <1>10 DEF Commit, Finished, histVars
  <2>2. update \in Snapshots /\ update = fetched /\ stored[slot] = update
    BY <2>1 DEF Handed, VoiceTypes
  <2>3. update # Blank
    BY <2>2, Tables
  <2> QED BY <2>1, <2>2, <2>3 DEF Handed, ActiveStored, AckedIsStored, nvsVars
<1>11. CASE Restore
  <2>1. CASE Finished(FALSE)
    BY <1>11, <2>1, HandedEnds DEF Restore, nvsVars
  <2>2. CASE worker' = "builtins" /\ UNCHANGED <<update, mediaVars>>
    BY <1>11, <2>2 DEF Restore, Handed, ActiveStored, AckedIsStored, nvsVars, mediaVars
  <2> QED BY <1>11, <2>1, <2>2 DEF Restore
<1>12. CASE RestoreBuiltins
  BY <1>12, HandedEnds DEF RestoreBuiltins, nvsVars
<1>13. CASE TakeIntent \/ Sent
  BY <1>13 DEF TakeIntent, Sent, Handed, ActiveStored, AckedIsStored, nvsVars, histVars
<1>14. CASE Fetch
  BY <1>14 DEF Fetch, Handed, ActiveStored, AckedIsStored, nvsVars, histVars
<1>15. CASE Acknowledge
  BY <1>15 DEF Acknowledge, Handed, ActiveStored, AckedIsStored, nvsVars
<1>16. CASE Reboot
  <2>1. /\ UNCHANGED <<slot, stored, acked>> /\ listening' = FALSE /\ update' = NoUpdate /\ media' = "idle"
        /\ worker' \in {"ready", "none"} /\ active' \in {Loaded, Builtins}
    BY <1>16 DEF Reboot, nvsVars
  <2>2. active' # Builtins => active' = stored[slot]
    BY <2>1 DEF Loaded
  <2> QED BY <2>1, <2>2 DEF Handed, ActiveStored, AckedIsStored
<1>17. CASE UNCHANGED vars
  BY <1>17, HandedSame DEF vars, mediaVars, histVars
<1> QED
  BY <1>1, <1>2, <1>3, <1>4, <1>5, <1>6, <1>7, <1>8, <1>9, <1>10, <1>11, <1>12, <1>13, <1>14, <1>15, <1>16, <1>17
  DEF Next, Worker, Handle, Activation, Media

-----------------------------------------------------------------------------
(* The event queue *)

\* A recorded event.
LEMMA Recorded ==
  ASSUME VoiceTypes, NEW kind \in {"wakeword", "command", "timeout", "update"},
         NEW cmd \in Command, NEW index \in Nat,
         cmd = "custom" => recog # Off /\ index \in 1 .. Len(recog.commands)
  PROVE  LET m == Event(kind, cmd, index)
         IN  /\ m \in Msg /\ m.kind = kind /\ m.cmd = cmd /\ m.index = index
             /\ m.rev = active.revision /\ ~m.stale
             /\ cmd = "custom" => m.meant = recog.commands[index]
<1> DEFINE m == Event(kind, cmd, index)
<1>1. callback \in Nat /\ callback = active.revision
  BY Tables DEF VoiceTypes
<1>2. m.meant \in Actions \cup {Off}
  <2>1. CASE cmd = "custom"
    <3>1. recog \in Snapshots \cup {Builtins} /\ recog.commands \in Seq(Actions)
      BY <2>1, Tables DEF VoiceTypes
    <3>2. recog.commands[index] \in Actions
      BY <2>1, <3>1, ElementOfSeq
    <3> QED BY <2>1, <3>2 DEF Event
  <2>2. CASE cmd # "custom"
    BY <2>2 DEF Event
  <2> QED BY <2>1, <2>2
<1>3. /\ m.kind = kind /\ m.cmd = cmd /\ m.index = index /\ m.rev = callback /\ m.stale = FALSE
      /\ cmd = "custom" => m.meant = recog.commands[index]
      /\ m = [kind |-> m.kind, cmd |-> m.cmd, index |-> m.index, rev |-> m.rev, meant |-> m.meant, stale |-> m.stale]
  BY DEF Event
<1> HIDE DEF m
<1>4. m \in Msg
  BY <1>1, <1>2, <1>3 DEF Msg
<1> QED BY <1>1, <1>3, <1>4 DEF m

\* Queue r is queue q without its first event, which may since be stale.
Follows(q, r) ==
  /\ r \in Seq(Msg) /\ Len(r) < Len(q)
  /\ \A i \in DOMAIN r :
       /\ i + 1 \in DOMAIN q
       /\ r[i].kind = q[i + 1].kind /\ r[i].cmd = q[i + 1].cmd /\ r[i].index = q[i + 1].index
       /\ r[i].rev = q[i + 1].rev /\ r[i].meant = q[i + 1].meant
  /\ \A i \in DOMAIN q : i = 1 \/ i - 1 \in DOMAIN r

\* The positions in a queue are numbers, and the head is at the first.
LEMMA Positions ==
  ASSUME NEW q \in Seq(Msg)
  PROVE  /\ Len(q) \in Nat /\ DOMAIN q = 1 .. Len(q)
         /\ \A i \in DOMAIN q : i \in Nat /\ i >= 1 /\ q[i] \in Msg
         /\ q # <<>> => 1 \in DOMAIN q /\ Head(q) = q[1] /\ Len(q) > 0
<1>1. Len(q) \in Nat /\ DOMAIN q = 1 .. Len(q)
  BY LenProperties
<1>2. \A i \in DOMAIN q : i \in Nat /\ i >= 1 /\ q[i] \in Msg
  BY <1>1, ElementOfSeq
<1>3. q # <<>> => 1 \in DOMAIN q /\ Head(q) = q[1] /\ Len(q) > 0
  BY <1>1, HeadTailProperties, EmptySeq
<1> QED BY <1>1, <1>2, <1>3

\* xQueueReceive, within a session or at its end.
LEMMA Received ==
  ASSUME QueueTypes, queue # <<>>
  PROVE  /\ Follows(queue, Tail(queue)) /\ Follows(queue, Rest)
         /\ \A i \in DOMAIN Tail(queue) : Tail(queue)[i] = queue[i + 1]
<1> DEFINE n == Len(queue)
<1>1. queue \in Seq(Msg) /\ n \in Nat /\ n > 0 /\ DOMAIN queue = 1 .. n
  BY Positions DEF QueueTypes
<1>2. /\ n - 1 \in Nat /\ n - 1 < n
      /\ \A i \in 1 .. n - 1 : i + 1 \in 1 .. n
      /\ \A i \in 1 .. n : i = 1 \/ i - 1 \in 1 .. n - 1
  BY <1>1
<1>3. /\ Tail(queue) \in Seq(Msg) /\ Len(Tail(queue)) = n - 1 /\ DOMAIN Tail(queue) = 1 .. n - 1
      /\ \A i \in 1 .. n - 1 : Tail(queue)[i] = queue[i + 1]
  BY <1>1, HeadTailProperties, LenProperties
<1>4. Follows(queue, Tail(queue))
  BY <1>1, <1>2, <1>3 DEF Follows
<1>5. ASSUME NEW m \in Msg
      PROVE  LET s == [m EXCEPT !.stale = TRUE]
             IN  /\ s \in Msg /\ s.kind = m.kind /\ s.cmd = m.cmd /\ s.index = m.index
                 /\ s.rev = m.rev /\ s.meant = m.meant
  BY <1>5 DEF Msg
<1>6. /\ Rest \in [1 .. n - 1 -> Msg]
      /\ \A i \in 1 .. n - 1 : Rest[i] = [queue[i + 1] EXCEPT !.stale = TRUE] /\ queue[i + 1] \in Msg
  <2>1. \A i \in 1 .. n - 1 : queue[i + 1] \in Msg
    BY <1>1, <1>2, ElementOfSeq
  <2> QED BY <1>5, <2>1 DEF Rest
<1>7. Rest \in Seq(Msg) /\ Len(Rest) = n - 1 /\ DOMAIN Rest = 1 .. n - 1
  BY <1>2, <1>6, IsASeq, LenProperties
<1>8. Follows(queue, Rest)
  <2>1. \A i \in 1 .. n - 1 :
          /\ Rest[i].kind = queue[i + 1].kind /\ Rest[i].cmd = queue[i + 1].cmd
          /\ Rest[i].index = queue[i + 1].index
          /\ Rest[i].rev = queue[i + 1].rev /\ Rest[i].meant = queue[i + 1].meant
    BY <1>5, <1>6
  <2> HIDE DEF n
  <2> QED BY <1>1, <1>2, <1>7, <2>1 DEF Follows, n
<1> QED BY <1>3, <1>4, <1>8

\* xQueueSend, at the end of the queue.
LEMMA Added ==
  ASSUME NEW q \in Seq(Msg), NEW m \in Msg
  PROVE  /\ Append(q, m) \in Seq(Msg) /\ Len(Append(q, m)) = Len(q) + 1
         /\ DOMAIN Append(q, m) = DOMAIN q \cup {Len(q) + 1} /\ Len(q) + 1 \notin DOMAIN q
         /\ \A i \in DOMAIN q : Append(q, m)[i] = q[i] /\ i < Len(q) + 1
         /\ Append(q, m)[Len(q) + 1] = m
<1>1. Len(q) \in Nat /\ DOMAIN q = 1 .. Len(q)
  BY LenProperties
<1>2. /\ Append(q, m) \in Seq(Msg) /\ Len(Append(q, m)) = Len(q) + 1
      /\ \A i \in 1 .. Len(q) : Append(q, m)[i] = q[i]
      /\ Append(q, m)[Len(q) + 1] = m
  BY AppendProperties
<1>3. DOMAIN Append(q, m) = 1 .. Len(q) + 1
  BY <1>2, LenProperties
<1>4. /\ 1 .. Len(q) + 1 = 1 .. Len(q) \cup {Len(q) + 1} /\ Len(q) + 1 \notin 1 .. Len(q)
      /\ \A i \in 1 .. Len(q) : i < Len(q) + 1
  BY <1>1
<1> QED BY <1>1, <1>2, <1>3, <1>4

\* The event the callback queues, and the mode it comes from.
Reported(m) ==
  /\ recog # Off /\ m.rev = active.revision /\ ~m.stale
  /\ IF mode = "wakeword" THEN WakeWord(m) ELSE Spoken(m)
  /\ m.cmd = "custom" => /\ m.kind = "command" /\ m.index \in 1 .. Len(recog.commands)
                         /\ m.meant = recog.commands[m.index]

\* What the callback does.
LEMMA Hears ==
  ASSUME VoiceTypes, Hear
  PROVE  \E m \in Msg : Recognize(m) /\ Reported(m)
<1>1. CASE HearWakeWord
  <2> DEFINE m == Event("wakeword", "other", 0)
  <2>1. m \in Msg /\ m.kind = "wakeword" /\ m.cmd = "other" /\ m.rev = active.revision /\ ~m.stale
    BY Recorded DEF Command
  <2>2. Recognize(m) /\ recog # Off /\ mode = "wakeword"
    BY <1>1 DEF HearWakeWord
  <2> HIDE DEF m
  <2> QED BY <2>1, <2>2 DEF Reported, WakeWord
<1>2. ASSUME recog # Off, mode = "command", NEW cmd \in Command \ {"custom"},
             NEW kind \in {"command", "timeout"}, Recognize(Event(kind, cmd, 0))
      PROVE  \E m \in Msg : Recognize(m) /\ Reported(m)
  <2> DEFINE m == Event(kind, cmd, 0)
  <2>1. m \in Msg /\ m.kind = kind /\ m.cmd = cmd /\ m.rev = active.revision /\ ~m.stale
    BY Recorded
  <2>2. Recognize(m)
    BY <1>2
  <2> HIDE DEF m
  <2> QED BY <1>2, <2>1, <2>2 DEF Reported, Spoken
<1>3. ASSUME recog # Off, mode = "command", NEW i \in 1 .. Len(recog.commands),
             Recognize(Event("command", "custom", i))
      PROVE  \E m \in Msg : Recognize(m) /\ Reported(m)
  <2> DEFINE m == Event("command", "custom", i)
  <2>0. i \in Nat
    BY Tables DEF VoiceTypes
  <2>1. /\ m \in Msg /\ m.kind = "command" /\ m.cmd = "custom" /\ m.index = i
        /\ m.rev = active.revision /\ ~m.stale /\ m.meant = recog.commands[i]
    BY <1>3, <2>0, Recorded DEF Command
  <2>2. Recognize(m)
    BY <1>3
  <2> HIDE DEF m
  <2> QED BY <1>3, <2>1, <2>2 DEF Reported, Spoken
<1>4. CASE HearCommand
  BY <1>2, <1>3, <1>4 DEF HearCommand
<1>5. CASE HearNothing
  <2>1. "other" \in Command \ {"custom"}
    BY DEF Command
  <2> QED BY <1>2, <1>5, <2>1 DEF HearNothing
<1> QED BY <1>1, <1>4, <1>5 DEF Hear

\* What the worker has taken is not in the queue any more.
LEMMA Takes ==
  ASSUME QueueTypes, OnWakeWord \/ OnTimeout \/ OnCommandRejected \/ OnCommandAccepted
  PROVE  Follows(queue, queue') /\ queue # <<>> /\ Head(queue).kind # "update"
         /\ worker = "ready" /\ UNCHANGED <<update, worker, media, fetched>>
<1>1. queue # <<>> /\ Head(queue).kind # "update" /\ worker = "ready" /\ queue' \in {Tail(queue), Rest}
  BY DEF OnWakeWord, OnTimeout, OnCommandRejected, OnCommandAccepted, Take
<1>2. UNCHANGED <<update, worker, media, fetched>>
  BY DEF OnWakeWord, OnTimeout, OnCommandRejected, OnCommandAccepted, Submit, Custom, workerIdle, mediaVars
<1>3. Follows(queue, Tail(queue)) /\ Follows(queue, Rest)
  BY <1>1, Received
<1> QED BY <1>1, <1>2, <1>3

\* The steps of an activation and of the media worker that leave the queue alone.
LEMMA QueueKept ==
  ASSUME \/ Activate \/ Stage \/ Build \/ SwitchSlot \/ Commit \/ Restore \/ RestoreBuiltins
         \/ TakeIntent \/ Sent \/ Acknowledge \/ UNCHANGED vars
  PROVE  queue' = queue
BY DEF Activate, Stage, Build, SwitchSlot, Commit, Restore, RestoreBuiltins, TakeIntent, Sent, Acknowledge, vars

\* A table is queued for the voice worker, or the fetch fails.
LEMMA Fetches ==
  ASSUME VoiceTypes, Fetch
  PROVE  \/ /\ media' = "applying" /\ Len(queue) < QueueLength
            /\ \E m \in Msg : /\ m.kind = "update" /\ m.cmd = "other"
                              /\ queue' = Append(queue, m)
         \/ media' = "idle" /\ queue' = queue
<1> DEFINE m == Event("update", "other", 0)
<1>1. m \in Msg /\ m.kind = "update" /\ m.cmd = "other"
  BY Recorded DEF Command
<1>2. CASE Len(queue) < QueueLength /\ queue' = Append(queue, m) /\ media' = "applying"
  <2> HIDE DEF m
  <2> QED BY <1>1, <1>2
<1> QED BY <1>2 DEF Fetch

\* Every step keeps the queue's type and its bound.
LEMMA QueueNext ==
  ASSUME VoiceTypes, QueueTypes, [Next]_vars
  PROVE  QueueTypes'
<1>0. Len(queue) \in Nat /\ QueueLength \in Nat /\ 0 <= QueueLength
  BY VoiceAssumption, LenProperties DEF QueueTypes
<1>1. ASSUME NEW m \in Msg, Len(queue) < QueueLength, queue' = Append(queue, m) PROVE QueueTypes'
  BY <1>0, <1>1, Added DEF QueueTypes
<1>2. CASE queue' = queue
  BY <1>2 DEF QueueTypes
<1>3. CASE queue' = <<>>
  <2>1. queue' \in Seq(Msg) /\ Len(queue') = 0
    BY <1>3
  <2> QED BY <1>0, <2>1 DEF QueueTypes
<1>4. CASE Hear
  <2>1. PICK m \in Msg : Recognize(m)
    BY <1>4, Hears
  <2> QED BY <1>1, <1>2, <2>1 DEF Recognize, Enqueue
<1>5. CASE OnWakeWord \/ OnTimeout \/ OnCommandRejected \/ OnCommandAccepted
  <2>1. queue' \in Seq(Msg) /\ Len(queue') < Len(queue) /\ Len(queue') \in Nat
    BY <1>5, Takes, LenProperties DEF Follows
  <2> QED BY <1>0, <2>1 DEF QueueTypes
<1>6. CASE OnUpdate
  <2>1. queue' \in Seq(Msg) /\ Len(queue') < Len(queue) /\ Len(queue') \in Nat
    BY <1>6, Received, LenProperties DEF OnUpdate, Follows
  <2> QED BY <1>0, <2>1 DEF QueueTypes
<1>7. CASE StopRecognizer
  BY <1>2, <1>3, <1>7 DEF StopRecognizer
<1>8. CASE Fetch
  BY <1>1, <1>2, <1>8, Fetches
<1>9. CASE Reboot
  BY <1>3, <1>9 DEF Reboot
<1> QED
  BY <1>2, <1>4, <1>5, <1>6, <1>7, <1>8, <1>9, QueueKept DEF Next, Worker, Handle, Activation, Media

-----------------------------------------------------------------------------
(* The table the media worker waits for *)

\* How the number of tables in a queue changes.
LEMMA Counted ==
  ASSUME NEW q \in Seq(Msg)
  PROVE  /\ NoneQueued(<<>>)
         /\ \A m \in Msg : m.kind # "update" =>
              /\ NoneQueued(q) => NoneQueued(Append(q, m))
              /\ OneQueued(q) => OneQueued(Append(q, m))
         /\ \A m \in Msg : m.kind = "update" /\ NoneQueued(q) => OneQueued(Append(q, m))
         /\ \A r : Follows(q, r) /\ q # <<>> =>
              /\ NoneQueued(q) => NoneQueued(r)
              /\ Head(q).kind # "update" /\ OneQueued(q) => OneQueued(r)
              /\ Head(q).kind = "update" /\ OneQueued(q) => NoneQueued(r)
<1>1. NoneQueued(<<>>)
  BY DEF NoneQueued
<1>2. ASSUME NEW m \in Msg, m.kind # "update", NoneQueued(q) PROVE NoneQueued(Append(q, m))
  BY <1>2, Added DEF NoneQueued
<1>3. ASSUME NEW m \in Msg, m.kind # "update", OneQueued(q) PROVE OneQueued(Append(q, m))
  <2>1. PICK i \in DOMAIN q : \A j \in DOMAIN q : q[j].kind = "update" <=> j = i
    BY <1>3 DEF OneQueued
  <2>2. i \in DOMAIN Append(q, m) /\ \A j \in DOMAIN Append(q, m) : Append(q, m)[j].kind = "update" <=> j = i
    BY <1>3, <2>1, Added
  <2> QED BY <2>2 DEF OneQueued
<1>4. ASSUME NEW m \in Msg, m.kind = "update", NoneQueued(q) PROVE OneQueued(Append(q, m))
  <2>1. /\ Len(q) + 1 \in DOMAIN Append(q, m)
        /\ \A j \in DOMAIN Append(q, m) : Append(q, m)[j].kind = "update" <=> j = Len(q) + 1
    BY <1>4, Added DEF NoneQueued
  <2> QED BY <2>1 DEF OneQueued
<1>5. ASSUME NEW r, Follows(q, r), q # <<>>
      PROVE  /\ NoneQueued(q) => NoneQueued(r)
             /\ Head(q).kind # "update" /\ OneQueued(q) => OneQueued(r)
             /\ Head(q).kind = "update" /\ OneQueued(q) => NoneQueued(r)
  <2>0. /\ 1 \in DOMAIN q /\ Head(q) = q[1]
        /\ \A j \in DOMAIN q : j \in Nat /\ (j = 1 \/ j - 1 \in DOMAIN r)
        /\ \A j \in DOMAIN r : j \in Nat /\ j >= 1 /\ j + 1 \in DOMAIN q /\ r[j].kind = q[j + 1].kind
    BY <1>5, Positions DEF Follows
  <2>1. NoneQueued(q) => NoneQueued(r)
    BY <2>0 DEF NoneQueued
  <2>2. ASSUME Head(q).kind # "update", OneQueued(q) PROVE OneQueued(r)
    <3>1. PICK i \in DOMAIN q : \A j \in DOMAIN q : q[j].kind = "update" <=> j = i
      BY <2>2 DEF OneQueued
    <3>2. i # 1 /\ i - 1 \in DOMAIN r
      BY <2>0, <2>2, <3>1
    <3>3. \A j \in DOMAIN r : r[j].kind = "update" <=> j = i - 1
      BY <2>0, <3>1
    <3> QED BY <3>2, <3>3 DEF OneQueued
  <2>3. ASSUME Head(q).kind = "update", OneQueued(q) PROVE NoneQueued(r)
    <3>1. \A j \in DOMAIN q : q[j].kind = "update" <=> j = 1
      BY <2>0, <2>3 DEF OneQueued
    <3> QED BY <2>0, <3>1 DEF NoneQueued
  <2> QED BY <2>1, <2>2, <2>3
<1> QED BY <1>1, <1>2, <1>3, <1>4, <1>5

\* Every step keeps the table where the media worker waits for it.
LEMMA WaitingNext ==
  ASSUME VoiceTypes, QueueTypes, Handed, Waiting, [Next]_vars
  PROVE  Waiting'
<1>0. queue \in Seq(Msg)
  BY DEF QueueTypes
<1>1. CASE Hear
  <2>1. PICK m \in Msg : Recognize(m) /\ Reported(m)
    BY <1>1, Hears
  <2>2. m.kind # "update"
    BY <2>1 DEF Reported, WakeWord, Spoken
  <2>3. UNCHANGED <<update, media>>
    BY <2>1 DEF Recognize, mediaVars
  <2> QED BY <1>0, <2>1, <2>2, <2>3, Counted DEF Recognize, Enqueue, Waiting
<1>2. CASE OnWakeWord \/ OnTimeout \/ OnCommandRejected \/ OnCommandAccepted
  BY <1>0, <1>2, Takes, Counted DEF Waiting
<1>3. CASE OnUpdate
  <2>1. /\ queue # <<>> /\ Head(queue).kind = "update" /\ queue' = Tail(queue)
        /\ update' = fetched /\ UNCHANGED media
    BY <1>3 DEF OnUpdate, mediaVars
  <2>2. OneQueued(queue) /\ fetched \in Snapshots
    BY <2>1, Arrives
  <2>3. NoneQueued(queue')
    BY <1>0, <2>1, <2>2, Received, Counted
  <2> QED BY <2>1, <2>2, <2>3, Tables DEF Waiting
<1>4. CASE StopRecognizer
  <2>1. update # NoUpdate /\ NoneQueued(queue)
    BY <1>4 DEF StopRecognizer, Handed, Waiting
  <2>2. NoneQueued(queue')
    BY <1>0, <1>4, <2>1, Counted DEF StopRecognizer
  <2>3. media' = "idle" \/ UNCHANGED <<update, media>>
    BY <1>4 DEF StopRecognizer, Finished, mediaVars
  <2> QED BY <2>1, <2>2, <2>3 DEF Waiting
<1>5. CASE Activate \/ Stage \/ Build \/ SwitchSlot \/ Commit \/ Restore \/ RestoreBuiltins
  <2>1. update # NoUpdate
    BY <1>5 DEF Handed, Activate, Stage, Build, SwitchSlot, Commit, Restore, RestoreBuiltins
  <2>2. media' \in {"idle", "applied"} \/ UNCHANGED <<update, media>>
    BY <1>5 DEF Activate, Stage, Build, SwitchSlot, Commit, Restore, RestoreBuiltins, Finished, mediaVars
  <2>3. queue' = queue
    BY <1>5, QueueKept
  <2> QED BY <2>1, <2>2, <2>3 DEF Waiting
<1>6. CASE TakeIntent \/ Sent \/ Acknowledge
  <2>1. media # "applying" /\ media' # "applying"
    BY <1>6 DEF TakeIntent, Sent, Acknowledge
  <2> QED BY <1>6, <2>1, QueueKept DEF Waiting
<1>7. CASE Fetch
  <2>1. media = "fetch" /\ update = NoUpdate /\ update' = update
    BY <1>7 DEF Fetch, Handed
  <2>2. NoneQueued(queue)
    BY <2>1 DEF Waiting
  <2> QED BY <1>0, <1>7, <2>1, <2>2, Fetches, Counted DEF Waiting
<1>8. CASE Reboot
  BY <1>0, <1>8, Counted DEF Reboot, Waiting
<1>9. CASE UNCHANGED vars
  BY <1>9 DEF vars, mediaVars, Waiting
<1> QED
  BY <1>1, <1>2, <1>3, <1>4, <1>5, <1>6, <1>7, <1>8, <1>9 DEF Next, Worker, Handle, Activation, Media

-----------------------------------------------------------------------------
(* Sessions *)

\* Nothing the session depends on changes.
LEMMA SessionsSame ==
  ASSUME Sessions, UNCHANGED <<queue, mode, listening>>,
         Rebuilding' => Rebuilding /\ (recog' # Off => recog # Off)
  PROVE  Sessions'
BY DEF Sessions

\* The recognizer starts, in wake-word mode, with no command in the queue.
LEMMA SessionsRestart ==
  ASSUME Sessions, queue' = queue, ~listening', mode' = "wakeword", Rebuilding
  PROVE  Sessions'
<1>1. \A i \in DOMAIN queue : ~Spoken(queue[i])
  BY DEF Sessions
<1> QED BY <1>1 DEF Sessions, InOrder

\* What is behind the first event.
LEMMA Behind ==
  ASSUME NEW q \in Seq(Msg), q # <<>>, NEW r, Follows(q, r), NEW waits
  PROVE  /\ InOrder(q, waits) => InOrder(r, waits)
         /\ InOrder(q, "wakeword") /\ WakeWord(Head(q)) => \A i \in DOMAIN r : ~Spoken(r[i])
         /\ InOrder(q, "command") /\ Spoken(Head(q)) => \A i \in DOMAIN r : ~WakeWord(r[i])
         /\ (\A i \in DOMAIN q : ~WakeWord(q[i])) => \A i \in DOMAIN r : ~WakeWord(r[i])
<1>1. /\ 1 \in DOMAIN q /\ Head(q) = q[1]
      /\ \A j \in DOMAIN r : j \in Nat /\ j >= 1 /\ j + 1 \in DOMAIN q /\ r[j].kind = q[j + 1].kind
                             /\ 1 < j + 1
      /\ \A i \in DOMAIN r, j \in DOMAIN r : i < j => i + 1 < j + 1
  BY Positions DEF Follows
<1>2. /\ \A j \in DOMAIN r : WakeWord(r[j]) <=> WakeWord(q[j + 1])
      /\ \A j \in DOMAIN r : Spoken(r[j]) <=> Spoken(q[j + 1])
  BY <1>1 DEF WakeWord, Spoken
<1> QED BY <1>1, <1>2 DEF InOrder

\* An event is queued.
LEMMA SessionsAdd ==
  ASSUME QueueTypes, Sessions, NEW m \in Msg, queue' = Append(queue, m),
         UNCHANGED <<recog, mode, listening, worker>>,
         mode = "wakeword" => ~Spoken(m), mode = "command" => ~WakeWord(m),
         Spoken(m) => ~m.stale,
         Rebuilding => mode = "wakeword", mode \in {"wakeword", "command"}
  PROVE  Sessions'
<1>0. /\ DOMAIN queue' = DOMAIN queue \cup {Len(queue) + 1}
      /\ \A i \in DOMAIN queue : queue'[i] = queue[i] /\ i < Len(queue) + 1 /\ i \in Nat
      /\ queue'[Len(queue) + 1] = m /\ Len(queue) + 1 \in Nat
  BY Added, Positions DEF QueueTypes
<1>1. InOrder(queue', mode)
  <2>1. SUFFICES ASSUME NEW i \in DOMAIN queue', NEW j \in DOMAIN queue', i < j
                 PROVE IF mode = "wakeword" THEN WakeWord(queue'[i]) => ~Spoken(queue'[j])
                                            ELSE Spoken(queue'[i]) => ~WakeWord(queue'[j])
    BY DEF InOrder
  <2>2. i \in DOMAIN queue
    BY <1>0, <2>1
  <2> QED BY <1>0, <2>1, <2>2 DEF Sessions, InOrder
<1>2. mode = "command" /\ ~listening => \A i \in DOMAIN queue' : ~WakeWord(queue'[i])
  BY <1>0 DEF Sessions
<1>3. listening => \A i \in DOMAIN queue' : Spoken(queue'[i]) => ~queue'[i].stale
  BY <1>0 DEF Sessions
<1>4. Rebuilding => \A i \in DOMAIN queue' : ~Spoken(queue'[i])
  BY <1>0 DEF Sessions
<1> QED BY <1>1, <1>2, <1>3, <1>4 DEF Sessions, Rebuilding

\* The queue is emptied.
LEMMA SessionsEmpty ==
  ASSUME queue' = <<>>, Rebuilding' => recog' = Off \/ mode' = "wakeword"
  PROVE  Sessions'
<1>1. DOMAIN queue' = {}
  OBVIOUS
<1> QED BY <1>1 DEF Sessions, InOrder

\* A session ends, or a command outside one is refused.
LEMMA SessionsEnd ==
  ASSUME VoiceTypes, QueueTypes, Sessions, queue # <<>>, Spoken(Head(queue)), Follows(queue, queue'),
         listening' = FALSE, mode' \in {mode, "wakeword"}, ~Rebuilding'
  PROVE  Sessions'
<1>1. queue \in Seq(Msg) /\ mode \in {"wakeword", "command"} /\ InOrder(queue, mode)
  BY DEF QueueTypes, VoiceTypes, Sessions
<1>2. InOrder(queue', mode)
  BY <1>1, Behind
<1>3. CASE mode = "wakeword"
  BY <1>2, <1>3 DEF Sessions
<1>4. CASE mode = "command"
  <2>1. \A i \in DOMAIN queue' : ~WakeWord(queue'[i])
    BY <1>1, <1>4, Behind
  <2>2. InOrder(queue', "wakeword") /\ InOrder(queue', "command")
    BY <2>1 DEF InOrder
  <2> QED BY <1>4, <2>1, <2>2 DEF Sessions
<1> QED BY <1>1, <1>3, <1>4

\* Every step keeps the order of the events.
LEMMA SessionsNext ==
  ASSUME VoiceTypes, QueueTypes, Handed, Sessions, [Next]_vars
  PROVE  Sessions'
<1>t. queue \in Seq(Msg) /\ mode \in {"wakeword", "command"} /\ listening \in BOOLEAN
  BY DEF QueueTypes, VoiceTypes
<1>r. worker \notin {"ready", "none"} => ~listening
  BY DEF Handed
<1>1. CASE Hear
  <2>1. PICK m \in Msg : Recognize(m) /\ Reported(m)
    BY <1>1, Hears
  <2>2. UNCHANGED <<recog, mode, listening, worker>> /\ (queue' = Append(queue, m) \/ queue' = queue)
    BY <2>1 DEF Recognize, Enqueue, recogVars
  <2>3. /\ mode = "wakeword" => WakeWord(m) /\ ~Spoken(m)
        /\ mode = "command" => Spoken(m) /\ ~WakeWord(m)
        /\ recog # Off /\ ~m.stale
    BY <2>1 DEF Reported, WakeWord, Spoken
  <2>4. Rebuilding => mode = "wakeword"
    BY <2>3 DEF Sessions
  <2>5. CASE queue' = Append(queue, m)
    BY <1>t, <2>2, <2>3, <2>4, <2>5, SessionsAdd
  <2>6. CASE queue' = queue
    BY <2>2, <2>6, SessionsSame DEF Rebuilding
  <2> QED BY <2>2, <2>5, <2>6
<1>2. CASE OnWakeWord
  <2>1. /\ queue # <<>> /\ WakeWord(Head(queue)) /\ Follows(queue, queue') /\ ~Rebuilding' /\ worker' = worker
        /\ mode' \in {"wakeword", "command"}
    BY <1>2, <1>t, Takes DEF OnWakeWord, Take, WakeWord, Rebuilding, recogVars
  <2>2. InOrder(queue', mode)
    BY <1>t, <2>1, Behind DEF Sessions
  <2>3. CASE listening
    <3>1. queue' = Tail(queue) /\ UNCHANGED <<listening, mode>>
      BY <1>2, <2>3 DEF OnWakeWord, recogVars
    <3>2. \A i \in DOMAIN queue' : queue'[i] = queue[i + 1] /\ i + 1 \in DOMAIN queue
      BY <2>1, <3>1, Received DEF Follows
    <3> QED BY <2>1, <2>2, <2>3, <3>1, <3>2 DEF Sessions
  <2>4. CASE ~listening
    <3>1. mode = "wakeword"
      <4>1. 1 \in DOMAIN queue /\ Head(queue) = queue[1]
        BY <1>t, <2>1, Positions
      <4> QED BY <1>t, <2>1, <2>4, <4>1 DEF Sessions
    <3>2. \A i \in DOMAIN queue' : ~Spoken(queue'[i])
      BY <1>t, <2>1, <3>1, Behind DEF Sessions
    <3>3. (mode' = "command" /\ listening') \/ UNCHANGED <<mode, listening>>
      BY <1>2, <2>4 DEF OnWakeWord
    <3>4. InOrder(queue', "command") /\ InOrder(queue', "wakeword")
      BY <3>2 DEF InOrder
    <3> QED BY <2>1, <2>4, <3>1, <3>2, <3>3, <3>4 DEF Sessions
  <2> QED BY <2>3, <2>4
<1>3. CASE OnTimeout \/ OnCommandRejected \/ OnCommandAccepted
  <2>1. /\ queue # <<>> /\ Spoken(Head(queue)) /\ listening' = FALSE /\ mode' \in {mode, "wakeword"}
    BY <1>3 DEF OnTimeout, OnCommandRejected, OnCommandAccepted, Take, SetMode, Spoken
  <2>2. Follows(queue, queue') /\ ~Rebuilding'
    BY <1>3, Takes DEF Rebuilding
  <2> QED BY <2>1, <2>2, SessionsEnd
<1>4. CASE OnUpdate
  <2>1. /\ queue # <<>> /\ queue' = Tail(queue) /\ UNCHANGED <<mode, listening, worker>> /\ ~Rebuilding'
    BY <1>4 DEF OnUpdate, recogVars, Rebuilding
  <2>2. Follows(queue, queue') /\ \A i \in DOMAIN queue' : queue'[i] = queue[i + 1] /\ i + 1 \in DOMAIN queue
    BY <2>1, Received DEF Follows
  <2>3. InOrder(queue', mode)
    BY <1>t, <2>1, <2>2, Behind DEF Sessions
  <2> QED BY <2>1, <2>2, <2>3 DEF Sessions
<1>5. CASE Activate \/ Stage
  BY <1>5, SessionsSame DEF Activate, Stage, Finished, Rebuilding, recogVars
<1>6. CASE StopRecognizer
  BY <1>6, SessionsEmpty, SessionsSame DEF StopRecognizer, Finished, Rebuilding, recogVars
<1>7. CASE Build \/ Restore \/ RestoreBuiltins
  <2>1. queue' = queue /\ listening' = listening /\ ~listening /\ Rebuilding
    BY <1>7, <1>r DEF Build, Restore, RestoreBuiltins, Rebuilding
  <2>2. mode' = "wakeword" \/ UNCHANGED <<recog, mode>>
    BY <1>7 DEF Build, Restore, RestoreBuiltins, Starts, StartFails, Runs, recogVars
  <2> QED BY <2>1, <2>2, SessionsRestart, SessionsSame
<1>8. CASE SwitchSlot
  BY <1>8, SessionsSame DEF SwitchSlot, Rebuilding, recogVars
<1>9. CASE Commit
  BY <1>9, SessionsSame DEF Commit, Finished, Rebuilding, recogVars
<1>10. CASE TakeIntent \/ Sent \/ Acknowledge
  BY <1>10, SessionsSame DEF TakeIntent, Sent, Acknowledge, Rebuilding, recogVars
<1>11. CASE Fetch
  <2>1. UNCHANGED <<recog, mode, listening, worker>> /\ ~Rebuilding
    BY <1>11 DEF Fetch, Handed, Rebuilding, recogVars
  <2>2. ASSUME NEW m \in Msg, m.kind = "update", queue' = Append(queue, m) PROVE Sessions'
    <3>1. ~Spoken(m) /\ ~WakeWord(m)
      BY <2>2 DEF Spoken, WakeWord
    <3> QED BY <1>t, <2>1, <2>2, <3>1, SessionsAdd
  <2>3. CASE queue' = queue
    BY <2>1, <2>3, SessionsSame DEF Rebuilding
  <2> QED BY <1>11, <2>2, <2>3, Fetches
<1>12. CASE Reboot
  BY <1>12, SessionsEmpty DEF Reboot
<1>13. CASE UNCHANGED vars
  BY <1>13, SessionsSame DEF vars, recogVars, Rebuilding
<1> QED
  BY <1>1, <1>2, <1>3, <1>4, <1>5, <1>6, <1>7, <1>8, <1>9, <1>10, <1>11, <1>12, <1>13
  DEF Next, Worker, Handle, Activation, Media

-----------------------------------------------------------------------------
(* The recognizer's table *)

\* Every step keeps the recognizer at the table its commands are looked up in.
LEMMA RecognizerNext ==
  ASSUME VoiceTypes, Recognizer, [Next]_vars
  PROVE  Recognizer'
<1>1. CASE Hear \/ Media \/ UNCHANGED vars
  <2>1. UNCHANGED <<stuck, worker, recog, active, update>>
    BY <1>1 DEF Hear, HearWakeWord, HearCommand, HearNothing, Recognize, Media, TakeIntent, Sent, Fetch,
                Acknowledge, vars, recogVars, histVars
  <2> QED BY <2>1 DEF Recognizer
<1>2. CASE OnWakeWord \/ OnTimeout \/ OnCommandRejected \/ OnCommandAccepted
  <2>1. UNCHANGED <<stuck, worker, recog, active, update>>
    BY <1>2 DEF OnWakeWord, OnTimeout, OnCommandRejected, OnCommandAccepted, SetMode, workerIdle, recogVars, histVars
  <2> QED BY <2>1 DEF Recognizer
<1>3. CASE OnUpdate \/ Activate \/ Stage
  <2>1. UNCHANGED <<stuck, recog, active>> /\ {worker, worker'} \subseteq {"ready", "stage", "stop"}
    BY <1>3 DEF OnUpdate, Activate, Stage, Finished, recogVars, histVars
  <2> QED BY <2>1 DEF Recognizer
<1>4. CASE StopRecognizer
  <2>1. UNCHANGED <<stuck, active>> /\ worker = "stop"
    BY <1>4 DEF StopRecognizer, histVars
  <2>2. \/ worker' = "build" /\ recog' = Off
        \/ worker' = "ready" /\ recog' = recog
    BY <1>4 DEF StopRecognizer, Finished, recogVars
  <2> QED BY <2>1, <2>2 DEF Recognizer
<1>5. CASE Build
  <2>1. worker = "build" /\ UNCHANGED update
        /\ \/ worker' = "switch" /\ recog' = update /\ stuck' = stuck
           \/ worker' = "restore" /\ (UNCHANGED <<recog, stuck>> \/ stuck' = TRUE)
    BY <1>5 DEF Build, Starts, StartFails, Runs, recogVars
  <2> QED BY <2>1 DEF Recognizer
<1>6. CASE SwitchSlot
  <2>1. worker = "switch" /\ UNCHANGED update
        /\ \/ worker' = "commit" /\ UNCHANGED <<recog, stuck>>
           \/ worker' = "restore" /\ (recog' = Off \/ stuck' = TRUE)
    BY <1>6 DEF SwitchSlot, recogVars
  <2> QED BY <2>1 DEF Recognizer
<1>7. CASE Commit
  <2>1. worker = "commit" /\ worker' = "ready" /\ active' = update /\ UNCHANGED <<recog, stuck>>
    BY <1>7 DEF Commit, Finished, recogVars, histVars
  <2> QED BY <2>1 DEF Recognizer
<1>8. CASE Restore
  <2>1. worker = "restore" /\ UNCHANGED active
        /\ \/ worker' = "ready" /\ recog' = active /\ stuck' = stuck
           \/ worker' = "builtins" /\ (UNCHANGED <<recog, stuck>> \/ stuck' = TRUE)
    BY <1>8 DEF Restore, Finished, Starts, StartFails, Runs, recogVars
  <2> QED BY <2>1 DEF Recognizer
<1>9. CASE RestoreBuiltins
  <2>1. worker = "builtins" /\ worker' = "ready"
        /\ \/ recog' = active' /\ stuck' = stuck
           \/ UNCHANGED <<recog, stuck>> \/ stuck' = TRUE
    BY <1>9 DEF RestoreBuiltins, Finished, Starts, StartFails, Runs, recogVars
  <2> QED BY <2>1 DEF Recognizer
<1>10. CASE Reboot
  <2>1. \/ worker' = "ready" /\ recog' = active'
        \/ worker' = "none" /\ (recog' = Off \/ stuck' = TRUE)
    BY <1>10 DEF Reboot
  <2> QED BY <2>1 DEF Recognizer
<1> QED
  BY <1>1, <1>2, <1>3, <1>4, <1>5, <1>6, <1>7, <1>8, <1>9, <1>10 DEF Next, Worker, Handle, Activation

-----------------------------------------------------------------------------
(* What was meant *)

\* Nothing a meaning depends on changes, and the queue has at most lost events.
LEMMA MeaningsSame ==
  ASSUME Meanings, UNCHANGED <<heard, active>>, stuck' = FALSE => stuck = FALSE, stuck \in BOOLEAN, stuck' \in BOOLEAN,
         queue' = queue \/ Follows(queue, queue') \/ queue' = <<>>
  PROVE  Meanings'
<1>1. SUFFICES ASSUME ~stuck' PROVE \A i \in DOMAIN queue' : Means(queue'[i], active')
  BY DEF Meanings
<1>2. ~stuck
  BY <1>1
<1>3. CASE queue' = queue
  BY <1>2, <1>3 DEF Meanings, Means
<1>4. CASE Follows(queue, queue')
  BY <1>2, <1>4 DEF Meanings, Means, Follows
<1>5. CASE queue' = <<>>
  BY <1>5
<1> QED BY <1>3, <1>4, <1>5

\* A table is replaced while no command is queued.
LEMMA MeaningsNone ==
  ASSUME Meanings, Sessions, Rebuilding, UNCHANGED <<heard, queue>>, stuck' = FALSE => stuck = FALSE,
         stuck \in BOOLEAN, stuck' \in BOOLEAN
  PROVE  Meanings'
<1>1. SUFFICES ASSUME ~stuck' PROVE \A i \in DOMAIN queue' : Means(queue'[i], active')
  BY DEF Meanings
<1>2. ~stuck
  BY <1>1
<1>3. \A i \in DOMAIN queue : queue[i].cmd # "custom"
  BY <1>2 DEF Meanings, Means, Sessions, Spoken
<1> QED BY <1>3 DEF Means

\* Every step keeps the meaning of what was said.
LEMMA MeaningsNext ==
  ASSUME VoiceTypes, QueueTypes, Sessions, Recognizer, Meanings, [Next]_vars, VoiceTypes'
  PROVE  Meanings'
<1>t. queue \in Seq(Msg) /\ stuck \in BOOLEAN /\ stuck' \in BOOLEAN
  BY DEF QueueTypes, VoiceTypes
<1>1. CASE Hear
  <2>1. PICK m \in Msg : Recognize(m) /\ Reported(m)
    BY <1>1, Hears
  <2>2. UNCHANGED <<stuck, heard, active>> /\ (queue' = Append(queue, m) \/ queue' = queue)
    BY <2>1 DEF Recognize, Enqueue, histVars
  <2>3. CASE queue' = queue
    BY <1>t, <2>2, <2>3, MeaningsSame
  <2>4. CASE queue' = Append(queue, m)
    <3>1. SUFFICES ASSUME ~stuck, m.cmd = "custom" PROVE Means(m, active)
      <4>1. SUFFICES ASSUME ~stuck' PROVE \A i \in DOMAIN queue' : Means(queue'[i], active')
        BY <2>2 DEF Meanings
      <4>2. Means(m, active) /\ \A i \in DOMAIN queue : Means(queue[i], active)
        BY <2>2, <3>1, <4>1 DEF Meanings, Means
      <4>3. \A i \in DOMAIN queue' : Means(queue'[i], active')
        BY <1>t, <2>2, <2>4, <4>2, Added
      <4> QED BY <2>2, <4>3 DEF Means
    <3>2. m.kind = "command" /\ m.rev = active.revision /\ recog # Off /\ mode # "wakeword"
          /\ m.index \in 1 .. Len(recog.commands) /\ m.meant = recog.commands[m.index]
      BY <2>1, <3>1 DEF Reported, WakeWord
    <3>3. ~Rebuilding
      BY <3>2 DEF Sessions
    <3>4. recog = active
      BY <3>1, <3>2, <3>3 DEF Recognizer, Rebuilding, VoiceTypes, Stages
    <3> QED BY <3>2, <3>4 DEF Means
  <2> QED BY <2>2, <2>3, <2>4
<1>2. CASE OnWakeWord \/ OnTimeout \/ OnCommandRejected
  <2>1. UNCHANGED <<stuck, heard, active>>
    BY <1>2 DEF OnWakeWord, OnTimeout, OnCommandRejected, workerIdle, histVars
  <2> QED BY <1>2, <1>t, <2>1, Takes, MeaningsSame
<1>3. CASE OnCommandAccepted
  <2>1. UNCHANGED <<stuck, active>> /\ Follows(queue, queue') /\ queue # <<>> /\ listening
        /\ Spoken(Head(queue))
    BY <1>3, Takes DEF OnCommandAccepted, Take, Spoken, workerIdle
  <2>2. CASE heard' = heard
    BY <1>t, <2>1, <2>2, MeaningsSame
  <2>3. CASE /\ Head(queue).cmd = "custom"
             /\ heard' = [ meant |-> Head(queue).meant, action |-> active.commands[Head(queue).index],
                           stale |-> Head(queue).stale ]
    <3>1. 1 \in DOMAIN queue /\ Head(queue) = queue[1]
      BY <1>t, <2>1, Positions
    <3>2. ASSUME ~stuck PROVE heard'.action = heard'.meant /\ ~heard'.stale
      <4>1. Means(Head(queue), active) /\ ~Head(queue).stale
        BY <2>1, <3>1, <3>2 DEF Meanings, Sessions
      <4> QED BY <2>3, <4>1 DEF Means
    <3>3. ASSUME ~stuck PROVE \A i \in DOMAIN queue' : Means(queue'[i], active')
      BY <2>1, <3>3 DEF Meanings, Means, Follows
    <3> QED BY <2>1, <3>2, <3>3 DEF Meanings
  <2> QED BY <1>3, <2>2, <2>3 DEF OnCommandAccepted, Custom
<1>4. CASE OnUpdate
  BY <1>4, <1>t, Received, MeaningsSame DEF OnUpdate, histVars
<1>5. CASE Activate \/ Stage \/ StopRecognizer
  BY <1>5, <1>t, MeaningsSame DEF Activate, Stage, StopRecognizer, histVars
<1>6. CASE Build \/ SwitchSlot \/ Commit \/ Restore \/ RestoreBuiltins
  <2>1. Rebuilding /\ UNCHANGED <<heard, queue>>
    BY <1>6 DEF Build, SwitchSlot, Commit, Restore, RestoreBuiltins, Rebuilding, histVars
  <2>2. stuck' = stuck \/ stuck' = TRUE
    BY <1>6 DEF Build, SwitchSlot, Commit, Restore, RestoreBuiltins, Starts, StartFails, histVars
  <2> QED BY <1>t, <2>1, <2>2, MeaningsNone
<1>7. CASE TakeIntent \/ Sent \/ Acknowledge
  BY <1>7, <1>t, MeaningsSame DEF TakeIntent, Sent, Acknowledge, histVars
<1>8. CASE Fetch
  <2>1. UNCHANGED <<stuck, heard, active>>
    BY <1>8 DEF Fetch, histVars
  <2>2. ASSUME NEW m \in Msg, m.cmd = "other", queue' = Append(queue, m) PROVE Meanings'
    <3>1. Means(m, active)
      BY <2>2 DEF Means
    <3>2. ASSUME ~stuck PROVE \A i \in DOMAIN queue' : Means(queue'[i], active')
      BY <1>t, <2>1, <2>2, <3>1, <3>2, Added DEF Meanings
    <3> QED BY <2>1, <3>2 DEF Meanings, Means
  <2>3. CASE queue' = queue
    BY <1>t, <2>1, <2>3, MeaningsSame
  <2> QED BY <1>8, <2>2, <2>3, Fetches
<1>9. CASE Reboot
  <2>1. queue' = <<>> /\ heard' = NothingHeard
    BY <1>9 DEF Reboot
  <2> QED BY <2>1 DEF Meanings, NothingHeard
<1>10. CASE UNCHANGED vars
  BY <1>10, <1>t, MeaningsSame DEF vars, histVars
<1> QED
  BY <1>1, <1>2, <1>3, <1>4, <1>5, <1>6, <1>7, <1>8, <1>9, <1>10 DEF Next, Worker, Handle, Activation, Media

-----------------------------------------------------------------------------
(* The theorems *)

\* The parts together.
VoiceInd ==
  VoiceTypes /\ QueueTypes /\ Handed /\ Waiting /\ Sessions /\ Recognizer /\ Meanings

\* The first start.
LEMMA VoiceInit == Init => VoiceInd
<1> SUFFICES ASSUME Init PROVE VoiceInd
  OBVIOUS
<1>1. VoiceTypes
  BY Tables DEF Init, VoiceTypes, Stages
<1>2. queue = <<>> /\ queue \in Seq(Msg) /\ Len(queue) = 0 /\ DOMAIN queue = {}
  BY DEF Init
<1>3. QueueTypes
  BY <1>2, VoiceAssumption DEF QueueTypes
<1>4. Handed
  BY DEF Init, Handed, ActiveStored, AckedIsStored
<1>5. Waiting
  BY <1>2 DEF Init, Waiting, NoneQueued
<1>6. Sessions
  BY <1>2 DEF Init, Sessions, InOrder, Rebuilding
<1>7. Recognizer
  BY DEF Init, Recognizer
<1>8. Meanings
  BY <1>2 DEF Init, Meanings, NothingHeard
<1> QED BY <1>1, <1>3, <1>4, <1>5, <1>6, <1>7, <1>8 DEF VoiceInd

\* The parts are invariants.
LEMMA VoiceAlways == Spec => []VoiceInd
<1>1. VoiceInd /\ [Next]_vars => VoiceInd'
  BY TypesNext, QueueNext, HandedNext, WaitingNext, SessionsNext, RecognizerNext, MeaningsNext DEF VoiceInd
<1> QED BY <1>1, VoiceInit, PTL DEF Spec

\* Flash, memory and the recognizer hold one table between any two events, which
\* is the one acknowledged, however an activation fails or is cut off.
THEOREM OneTable == Spec => []VoiceInv
<1>1. ASSUME VoiceInd PROVE VoiceInv
  <2>1. TypeOK
    BY <1>1, Tables DEF VoiceInd, VoiceTypes, QueueTypes, TypeOK
  <2>2. ActiveStored /\ AckedIsStored
    BY <1>1 DEF VoiceInd, Handed
  <2>3. RecognizerMatches
    BY <1>1 DEF VoiceInd, VoiceTypes, Recognizer, RecognizerMatches
  <2> QED BY <2>1, <2>2, <2>3 DEF VoiceInv
<1> QED BY <1>1, VoiceAlways, PTL

\* A custom command runs the action its phrase had in the table it was
\* recognized with, in the session it was spoken in.
THEOREM PhrasesKeepTheirMeaning == Spec => []HeardAsMeant
<1>1. VoiceInd => HeardAsMeant
  BY DEF VoiceInd, Meanings, HeardAsMeant
<1> QED BY <1>1, VoiceAlways, PTL

\* The table the media worker waits for without a timeout is in one place:
\* queued, deferred or being activated.
THEOREM TableNotLost == Spec => []UpdateKept
<1>1. ASSUME VoiceInd PROVE UpdateKept
  <2> DEFINE queued == { i \in DOMAIN queue : queue[i].kind = "update" }
  <2>1. CASE media = "applying" /\ update = NoUpdate
    <3>1. PICK i \in DOMAIN queue : \A j \in DOMAIN queue : queue[j].kind = "update" <=> j = i
      BY <1>1, <2>1 DEF VoiceInd, Waiting, OneQueued
    <3>2. queued = {i}
      BY <3>1
    <3>3. Cardinality(queued) = 1
      BY <3>2, FS_Singleton
    <3> QED BY <2>1, <3>3 DEF UpdateKept
  <2>2. CASE ~(media = "applying" /\ update = NoUpdate)
    <3>1. queued = {}
      BY <1>1, <2>2 DEF VoiceInd, Waiting, NoneQueued
    <3>2. Cardinality(queued) = 0
      BY <3>1, FS_EmptySet
    <3>3. media = "applying" <=> update # NoUpdate
      BY <1>1, <2>2 DEF VoiceInd, Handed
    <3> QED BY <2>2, <3>2, <3>3 DEF UpdateKept
  <2> QED BY <2>1, <2>2
<1> QED BY <1>1, VoiceAlways, PTL

=============================================================================
