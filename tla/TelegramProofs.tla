--------------------------- MODULE TelegramProofs --------------------------
(***************************************************************************)
(* Theorems about TelegramWake, for any number of chats, updates and       *)
(* faults and all time limits: no update is skipped, none is handled again *)
(* without a fault, and a chat that was asked to wait is watched for.      *)
(*                                                                         *)
(* The first two hold because of the order handle, move the offset, store  *)
(* it, ask for the next: Offsets relates the three offsets, and Owed says  *)
(* what was handled of the updates that may still be delivered.  The third *)
(* needs to know where the two tasks are at the same time (Watched).       *)
(***************************************************************************)
EXTENDS TelegramWake, SequenceTheorems, TLAPS

-----------------------------------------------------------------------------
(* The inductive invariant *)

\* The part of TypeOK about updates and offsets; the histories count.
QueueTypes ==
  /\ updates \in Seq(Update) /\ Len(updates) <= MaxUpdates
  /\ runs \in Seq(Nat) /\ hits \in Seq(Nat)
  /\ DOMAIN runs = DOMAIN updates /\ DOMAIN hits = DOMAIN updates
  /\ {forgotten, offset, saved} \subseteq 1 .. Len(updates) + 1
  /\ task \in {"idle", "handle", "persist", "restart"} \cup Starting
  /\ task = "idle" \/ hand \in DOMAIN updates
  /\ faults \in 0 .. MaxFaults

\* The part of TypeOK about the wake.
WakeTypes ==
  /\ wakePending \in BOOLEAN /\ wakeChat \in Chats \cup {NoChat}
  /\ age \in 0 .. WakeTime /\ rest \in 0 .. RetryTime /\ uptime \in 0 .. WakeTime
  /\ loop \in {"idle", "probe"} \cup Ending
  /\ promised \in Chats \cup {NoChat} /\ overlap \in BOOLEAN

\* The handler of an update runs.
InHand == {"handle"} \cup Starting

\* The stored offset never leads the one in RAM, and neither leads Telegram's
\* while an update is in hand; the update in hand is the first not forgotten.
Offsets ==
  /\ saved <= offset
  /\ task # "idle" => hand = forgotten
  /\ task \in InHand \cup {"persist"} => offset <= forgotten

\* An update below an offset was handled; one that may be delivered again was
\* handled no more often than a fault hit it, but for the one just handled.
Owed ==
  /\ \A u \in DOMAIN updates : u < forgotten \/ u < offset => runs[u] >= 1
  /\ task = "persist" => runs[hand] >= 1
  /\ \A u \in DOMAIN updates :
       u >= saved /\ u >= forgotten /\ ~(task = "persist" /\ u = hand) => runs[u] <= hits[u]

\* A wake being started is pending and not being ended, or marked as
\* overlapping; once its chat was told there is no promise left.
Watched ==
  ~overlap =>
    /\ task \in Starting => wakePending /\ loop \notin Ending
    /\ loop \in Ending \ {"tell"} => promised = NoChat

QueueInd == QueueTypes /\ Offsets /\ Owed /\ HandledOnce

WakeInd == WakeTypes /\ Watched /\ PromiseTracked

-----------------------------------------------------------------------------
(* The histories *)

\* One more for one update.
LEMMA Bumped ==
  ASSUME NEW s \in Seq(Nat), NEW i \in DOMAIN s, NEW t, t = [s EXCEPT ![i] = @ + 1]
  PROVE  /\ t \in Seq(Nat) /\ DOMAIN t = DOMAIN s
         /\ t[i] = s[i] + 1 /\ \A j \in DOMAIN s : j # i => t[j] = s[j]
<1>1. i \in 1 .. Len(s) /\ s[i] \in Nat /\ s[i] + 1 \in Nat
  BY LenProperties
<1>2. t \in Seq(Nat) /\ Len(t) = Len(s)
  BY <1>1, ExceptSeq
<1>3. DOMAIN t = DOMAIN s
  BY <1>2, LenProperties
<1> QED BY <1>2, <1>3

\* A new update was neither handled nor hit.
LEMMA Appended ==
  ASSUME NEW S, NEW s \in Seq(S), NEW e \in S
  PROVE  /\ Append(s, e) \in Seq(S) /\ Len(Append(s, e)) = Len(s) + 1
         /\ DOMAIN Append(s, e) = 1 .. Len(s) + 1
         /\ \A j \in DOMAIN s : Append(s, e)[j] = s[j]
         /\ Append(s, e)[Len(s) + 1] = e
BY AppendProperties, LenProperties

\* Positions of updates are numbers.
LEMMA Positions ==
  ASSUME QueueTypes
  PROVE  /\ Len(updates) \in Nat /\ DOMAIN updates = 1 .. Len(updates)
         /\ Len(runs) = Len(updates) /\ Len(hits) = Len(updates)
         /\ \A u \in DOMAIN updates : runs[u] \in Nat /\ hits[u] \in Nat
<1>1. /\ Len(updates) \in Nat /\ DOMAIN updates = 1 .. Len(updates)
      /\ Len(runs) \in Nat /\ DOMAIN runs = 1 .. Len(runs)
      /\ Len(hits) \in Nat /\ DOMAIN hits = 1 .. Len(hits)
  BY LenProperties DEF QueueTypes
<1>2. \A u \in DOMAIN updates : runs[u] \in Nat /\ hits[u] \in Nat
  BY LenProperties DEF QueueTypes
<1>3. Len(runs) = Len(updates) /\ Len(hits) = Len(updates)
  BY <1>1 DEF QueueTypes
<1> QED BY <1>1, <1>2, <1>3

-----------------------------------------------------------------------------
(* Updates *)

\* A step that leaves updates and offsets alone.
LEMMA QueueSame ==
  ASSUME QueueInd, UNCHANGED <<serverVars, offset, saved, hand, faults, runs, hits>>,
         \/ task' = task
         \/ task \in InHand /\ task' \in Starting
  PROVE  QueueInd'
BY DEF QueueInd, QueueTypes, Offsets, Owed, HandledOnce, InHand, Starting, serverVars

\* UserSends.
LEMMA SendsQueue ==
  ASSUME QueueInd, NEW u \in Update, UserSends(u)
  PROVE  QueueInd'
<1> USE DEF QueueInd
<1> DEFINE n == Len(updates)
<1>p. /\ n \in Nat /\ DOMAIN updates = 1 .. n /\ Len(runs) = n /\ Len(hits) = n
      /\ \A w \in 1 .. n : runs[w] \in Nat /\ hits[w] \in Nat
  BY Positions
<1>1. /\ updates' \in Seq(Update) /\ Len(updates') = n + 1 /\ DOMAIN updates' = 1 .. n + 1
  BY Appended DEF UserSends, QueueTypes
<1>2. /\ runs' \in Seq(Nat) /\ DOMAIN runs' = 1 .. n + 1 /\ runs'[n + 1] = 0
      /\ \A w \in 1 .. n : runs'[w] = runs[w]
  <2>1. runs \in Seq(Nat) /\ runs' = Append(runs, 0) /\ 0 \in Nat /\ Len(runs) = n /\ DOMAIN runs = 1 .. n
    BY <1>p DEF UserSends, QueueTypes
  <2> HIDE DEF n
  <2> QED BY <2>1, Appended
<1>3. /\ hits' \in Seq(Nat) /\ DOMAIN hits' = 1 .. n + 1 /\ hits'[n + 1] = 0
      /\ \A w \in 1 .. n : hits'[w] = hits[w]
  <2>1. hits \in Seq(Nat) /\ hits' = Append(hits, 0) /\ 0 \in Nat /\ Len(hits) = n /\ DOMAIN hits = 1 .. n
    BY <1>p DEF UserSends, QueueTypes
  <2> HIDE DEF n
  <2> QED BY <2>1, Appended
<1>4. UNCHANGED <<forgotten, offset, saved, hand, task, faults>> /\ n < MaxUpdates
  BY DEF UserSends
<1>5. QueueTypes'
  BY <1>p, <1>1, <1>2, <1>3, <1>4, TelegramAssumption DEF QueueTypes
<1>6. Offsets'
  BY <1>4 DEF Offsets
<1>7. /\ hand \in 1 .. n \/ task = "idle"
      /\ forgotten \in 1 .. n + 1 /\ offset \in 1 .. n + 1 /\ saved \in 1 .. n + 1
  BY <1>p DEF QueueTypes
<1>8. \A w \in 1 .. n + 1 : w \in 1 .. n \/ w = n + 1
  BY <1>p
<1> HIDE DEF n
<1>9. Owed'
  <2>1. ASSUME NEW w \in 1 .. n, w < forgotten \/ w < offset PROVE runs'[w] >= 1
    BY <1>p, <1>2, <2>1 DEF Owed
  <2>2. n + 1 >= forgotten /\ n + 1 >= offset
    BY <1>p, <1>7
  <2>3. \A w \in 1 .. n + 1 : w < forgotten \/ w < offset => runs'[w] >= 1
    BY <1>p, <1>7, <1>8, <2>1, <2>2
  <2>4. task = "persist" => runs'[hand] >= 1
    BY <1>2, <1>7 DEF Owed
  <2>5. ASSUME NEW w \in 1 .. n, w >= saved, w >= forgotten, ~(task = "persist" /\ w = hand)
        PROVE  runs'[w] <= hits'[w]
    BY <1>p, <1>2, <1>3, <2>5 DEF Owed
  <2>6. runs'[n + 1] <= hits'[n + 1]
    BY <1>2, <1>3
  <2> QED BY <1>1, <1>4, <1>8, <2>3, <2>4, <2>5, <2>6 DEF Owed
<1>10. HandledOnce'
  BY <1>p, <1>1, <1>2, <1>3, <1>8 DEF HandledOnce
<1> QED BY <1>5, <1>6, <1>9, <1>10

\* getUpdates.
LEMMA GetQueue ==
  ASSUME QueueInd, GetUpdates
  PROVE  QueueInd'
<1> USE DEF QueueInd
<1>p. /\ Len(updates) \in Nat /\ DOMAIN updates = 1 .. Len(updates)
      /\ \A w \in DOMAIN updates : runs[w] \in Nat /\ hits[w] \in Nat
  BY Positions
<1>1. /\ UNCHANGED <<updates, offset, saved, faults, runs, hits>> /\ task = "idle"
      /\ \/ task' = "handle" /\ hand' = forgotten' /\ forgotten' \in DOMAIN updates
         \/ task' = "idle" /\ hand' = hand
  BY DEF GetUpdates, histVars
<1>2. /\ forgotten' \in {forgotten, offset} /\ forgotten' >= forgotten /\ forgotten' >= offset
      /\ forgotten' \in Nat /\ forgotten \in Nat /\ offset \in Nat /\ saved \in Nat
  BY <1>p DEF GetUpdates, QueueTypes
<1>3. QueueTypes'
  BY <1>1, <1>2 DEF QueueTypes
<1>4. Offsets'
  BY <1>1, <1>2 DEF Offsets
<1>5. Owed'
  BY <1>p, <1>1, <1>2 DEF Owed
<1> QED BY <1>1, <1>3, <1>4, <1>5 DEF HandledOnce

\* The end of a handler.
LEMMA HandledQueue ==
  ASSUME QueueInd, task \in InHand, Handled, UNCHANGED <<serverVars, offset, saved, hand, faults, hits>>
  PROVE  QueueInd'
<1> USE DEF QueueInd
<1>p. /\ Len(updates) \in Nat /\ DOMAIN updates = 1 .. Len(updates)
      /\ \A w \in DOMAIN updates : runs[w] \in Nat /\ hits[w] \in Nat
  BY Positions
<1>0. task # "idle" /\ task # "persist" /\ hand \in DOMAIN updates /\ hand \in DOMAIN runs
  BY DEF InHand, Starting, QueueTypes
<1>1. /\ runs' \in Seq(Nat) /\ DOMAIN runs' = DOMAIN updates
      /\ runs'[hand] = runs[hand] + 1 /\ \A w \in DOMAIN updates : w # hand => runs'[w] = runs[w]
  BY <1>0, Bumped DEF Handled, QueueTypes
<1>2. /\ UNCHANGED <<updates, forgotten, offset, saved, hand, faults, hits>> /\ task' = "persist"
  BY DEF Handled, serverVars
<1>3. QueueTypes'
  BY <1>0, <1>1, <1>2 DEF QueueTypes
<1>4. Offsets'
  BY <1>0, <1>2 DEF Offsets
<1>5. /\ forgotten \in Nat /\ offset \in Nat /\ saved \in Nat
      /\ hand = forgotten /\ saved <= offset /\ offset <= forgotten
  BY <1>p, <1>0 DEF QueueTypes, Offsets
<1>6. runs[hand] <= hits[hand]
  BY <1>0, <1>5 DEF Owed
<1>7. Owed'
  <2>1. ASSUME NEW w \in DOMAIN updates, w < forgotten \/ w < offset PROVE runs'[w] >= 1
    BY <1>p, <1>0, <1>1, <2>1 DEF Owed
  <2>2. runs'[hand] >= 1
    BY <1>p, <1>0, <1>1
  <2>3. ASSUME NEW w \in DOMAIN updates, w >= saved, w >= forgotten, w # hand PROVE runs'[w] <= hits[w]
    BY <1>0, <1>1, <2>3 DEF Owed
  <2> QED BY <1>2, <2>1, <2>2, <2>3 DEF Owed
<1>8. HandledOnce'
  <2>1. runs'[hand] <= 1 + hits[hand]
    BY <1>p, <1>0, <1>1, <1>6
  <2>2. \A w \in DOMAIN updates : w # hand => runs'[w] <= 1 + hits[w]
    BY <1>1 DEF HandledOnce
  <2> QED BY <1>2, <2>1, <2>2 DEF HandledOnce
<1> QED BY <1>3, <1>4, <1>7, <1>8

\* The stored offset is written, or a fault hits the update in hand.
LEMMA PutQueue ==
  ASSUME QueueInd, hand \in DOMAIN updates, NEW value, PutOffset(value)
  PROVE  /\ faults' \in 0 .. MaxFaults
         /\ hits' \in Seq(Nat) /\ DOMAIN hits' = DOMAIN updates
         /\ \/ saved' = value /\ hits' = hits
            \/ saved' = saved /\ hits'[hand] = hits[hand] + 1
               /\ \A w \in DOMAIN updates : w # hand => hits'[w] = hits[w]
<1>1. CASE saved' = value /\ UNCHANGED <<faults, hits>>
  BY <1>1 DEF QueueInd, QueueTypes
<1>2. CASE faults < MaxFaults /\ faults' = faults + 1 /\ hits' = [hits EXCEPT ![hand] = @ + 1]
           /\ UNCHANGED saved
  <2>1. faults' \in 0 .. MaxFaults
    BY <1>2, TelegramAssumption DEF QueueInd, QueueTypes
  <2> QED BY <1>2, <2>1, Bumped DEF QueueInd, QueueTypes
<1> QED BY <1>1, <1>2 DEF PutOffset

\* The end of telegram_poll.
LEMMA PersistQueue ==
  ASSUME QueueInd, Persist
  PROVE  QueueInd'
<1> USE DEF QueueInd
<1>p. /\ Len(updates) \in Nat /\ DOMAIN updates = 1 .. Len(updates)
      /\ \A w \in DOMAIN updates : runs[w] \in Nat /\ hits[w] \in Nat
  BY Positions
<1>0. task = "persist" /\ hand \in DOMAIN updates
  BY DEF Persist, QueueTypes
<1>1. /\ UNCHANGED <<updates, forgotten, hand, runs>> /\ offset' = hand + 1
      /\ task' \in {"idle", "restart"}
  BY DEF Persist, serverVars
<1>2. /\ faults' \in 0 .. MaxFaults
      /\ hits' \in Seq(Nat) /\ DOMAIN hits' = DOMAIN updates
      /\ \/ saved' = hand + 1 /\ hits' = hits
         \/ saved' = saved /\ hits'[hand] = hits[hand] + 1
            /\ \A w \in DOMAIN updates : w # hand => hits'[w] = hits[w]
  BY <1>0, PutQueue DEF Persist
<1>3. /\ forgotten \in Nat /\ offset \in Nat /\ saved \in Nat
      /\ hand = forgotten /\ saved <= offset /\ offset <= forgotten
  BY <1>p, <1>0 DEF QueueTypes, Offsets
<1>4. QueueTypes'
  <2>1. saved \in 1 .. Len(updates) + 1 /\ hand + 1 \in 1 .. Len(updates) + 1
    BY <1>p, <1>0 DEF QueueTypes
  <2>2. {forgotten', offset', saved'} \subseteq 1 .. Len(updates') + 1
    BY <1>1, <1>2, <2>1 DEF QueueTypes
  <2> QED BY <1>0, <1>1, <1>2, <2>2 DEF QueueTypes
<1>5. Offsets'
  BY <1>1, <1>2, <1>3 DEF Offsets, InHand, Starting
<1>6. runs[hand] <= 1 + hits[hand] /\ runs[hand] >= 1
  BY <1>0 DEF HandledOnce, Owed
<1>7. ASSUME NEW w \in DOMAIN updates, w < forgotten \/ w < hand + 1 PROVE runs[w] >= 1
  BY <1>p, <1>0, <1>3, <1>6, <1>7 DEF Owed
<1>8. ASSUME NEW w \in DOMAIN updates, w >= saved', w >= forgotten PROVE runs[w] <= hits'[w]
  <2>1. CASE saved' = hand + 1 /\ hits' = hits
    BY <1>p, <1>0, <1>3, <1>8, <2>1 DEF Owed
  <2>2. CASE w = hand /\ hits'[hand] = hits[hand] + 1
    BY <1>p, <1>0, <1>6, <2>2
  <2>3. CASE saved' = saved /\ w # hand /\ hits'[w] = hits[w]
    BY <1>8, <2>3 DEF Owed
  <2> QED BY <1>2, <2>1, <2>2, <2>3
<1>9. Owed'
  BY <1>1, <1>7, <1>8 DEF Owed
<1>10. ASSUME NEW w \in DOMAIN updates PROVE runs[w] <= 1 + hits'[w]
  <2>1. hits'[w] = hits[w] \/ hits'[w] = hits[w] + 1
    BY <1>2
  <2>2. runs[w] <= 1 + hits[w]
    BY DEF HandledOnce
  <2> QED BY <1>p, <2>1, <2>2
<1>11. HandledOnce'
  BY <1>1, <1>10 DEF HandledOnce
<1> QED BY <1>4, <1>5, <1>9, <1>11

\* The device starts again.
LEMMA BootQueue ==
  ASSUME QueueInd, NEW stored, Boot(stored), stored = saved',
         saved' = saved \/ (task = "restart" /\ saved' = offset),
         faults' \in 0 .. MaxFaults, hits' \in Seq(Nat), DOMAIN hits' = DOMAIN updates,
         \A w \in DOMAIN updates :
           hits'[w] >= hits[w] /\ (task = "persist" /\ w = hand => hits'[w] >= hits[w] + 1)
  PROVE  QueueInd'
<1> USE DEF QueueInd
<1>p. /\ Len(updates) \in Nat /\ DOMAIN updates = 1 .. Len(updates)
      /\ \A w \in DOMAIN updates : runs[w] \in Nat /\ hits[w] \in Nat
  BY Positions
<1>q. \A w \in DOMAIN updates : hits'[w] \in Nat
  BY LenProperties
<1>1. /\ UNCHANGED <<updates, forgotten, runs>> /\ offset' = saved' /\ task' = "idle"
  BY DEF Boot, serverVars
<1>2. forgotten \in Nat /\ offset \in Nat /\ saved \in Nat /\ saved <= offset
      /\ saved' \in Nat /\ saved' >= saved /\ saved' <= offset
  BY <1>p DEF QueueTypes, Offsets
<1>3. QueueTypes'
  BY <1>1 DEF QueueTypes
<1>4. Offsets'
  BY <1>1, <1>2 DEF Offsets, InHand, Starting
<1>5. ASSUME NEW w \in DOMAIN updates, w < forgotten \/ w < saved' PROVE runs[w] >= 1
  BY <1>p, <1>2, <1>5 DEF Owed
<1>6. ASSUME NEW w \in DOMAIN updates, w >= saved', w >= forgotten PROVE runs[w] <= hits'[w]
  <2>1. CASE task = "persist" /\ w = hand
    <3>1. runs[w] <= 1 + hits[w] /\ hits'[w] >= hits[w] + 1
      BY <2>1 DEF HandledOnce
    <3> QED BY <1>p, <1>q, <3>1
  <2>2. CASE ~(task = "persist" /\ w = hand)
    <3>1. runs[w] <= hits[w] /\ hits'[w] >= hits[w]
      BY <1>p, <1>2, <1>6, <2>2 DEF Owed
    <3> QED BY <1>p, <1>q, <3>1
  <2> QED BY <2>1, <2>2
<1>7. Owed'
  BY <1>1, <1>5, <1>6 DEF Owed
<1>8. HandledOnce'
  BY <1>p, <1>q, <1>1 DEF HandledOnce
<1> QED BY <1>3, <1>4, <1>7, <1>8

\* Every step keeps QueueInd.
LEMMA QueueNext ==
  ASSUME QueueInd, [Next]_vars
  PROVE  QueueInd'
<1>p. \A w \in DOMAIN updates : hits[w] \in Nat
  BY Positions DEF QueueInd
<1>1. CASE \E u \in Update : UserSends(u)
  BY <1>1, SendsQueue
<1>2. CASE GetUpdates
  BY <1>2, GetQueue
<1>3. CASE HandleOther \/ SendMagicFailed \/ StartChat
  BY <1>3, HandledQueue DEF HandleOther, SendMagicFailed, StartChat, InHand, Starting
<1>4. CASE StartPolling \/ StartTimes
  BY <1>4, QueueSame DEF StartPolling, StartTimes, InHand, Starting, histVars
<1>5. CASE Persist
  BY <1>5, PersistQueue
<1>6. CASE Restart
  <2>1. task = "restart" /\ hand \in DOMAIN updates
    BY <1>6 DEF Restart, QueueInd, QueueTypes
  <2>2. /\ faults' \in 0 .. MaxFaults
        /\ hits' \in Seq(Nat) /\ DOMAIN hits' = DOMAIN updates
        /\ \/ saved' = offset /\ hits' = hits
           \/ saved' = saved /\ hits'[hand] = hits[hand] + 1
              /\ \A w \in DOMAIN updates : w # hand => hits'[w] = hits[w]
    BY <1>6, <2>1, PutQueue DEF Restart
  <2>3. \A w \in DOMAIN updates : hits'[w] >= hits[w]
    BY <1>p, <2>1, <2>2
  <2> QED BY <1>6, <2>1, <2>2, <2>3, BootQueue DEF Restart
<1>7. CASE PowerLoss
  <2>1. faults' \in 0 .. MaxFaults
    BY <1>7, TelegramAssumption DEF PowerLoss, QueueInd, QueueTypes
  <2>2. CASE task = "idle"
    <3>1. hits' = hits
      BY <1>7, <2>2 DEF PowerLoss
    <3>2. \A w \in DOMAIN updates : hits'[w] >= hits[w]
      BY <1>p, <3>1
    <3> QED BY <1>7, <2>1, <2>2, <3>1, <3>2, BootQueue DEF PowerLoss, QueueInd, QueueTypes
  <2>3. CASE task # "idle"
    <3>1. /\ hits' \in Seq(Nat) /\ DOMAIN hits' = DOMAIN updates
          /\ hits'[hand] = hits[hand] + 1
          /\ \A w \in DOMAIN updates : w # hand => hits'[w] = hits[w]
      BY <1>7, <2>3, Bumped DEF PowerLoss, QueueInd, QueueTypes
    <3>2. hand \in DOMAIN updates
      BY <2>3 DEF QueueInd, QueueTypes
    <3>3. \A w \in DOMAIN updates : hits'[w] >= hits[w] /\ (w = hand => hits'[w] >= hits[w] + 1)
      BY <1>p, <3>1, <3>2
    <3> QED BY <1>7, <2>1, <3>1, <3>3, BootQueue DEF PowerLoss
  <2> QED BY <2>2, <2>3
<1>8. CASE WakePoll \/ Tick
  BY <1>8, QueueSame
  DEF WakePoll, WakeProbe, WakeOver, WakeUnanswered, WakeTell, WakeClearFlag, WakeClearFields, Tick, histVars
<1>9. CASE UNCHANGED vars
  BY <1>9, QueueSame DEF vars, histVars
<1> QED BY <1>1, <1>2, <1>3, <1>4, <1>5, <1>6, <1>7, <1>8, <1>9 DEF Next, Poll

-----------------------------------------------------------------------------
(* The wake *)

\* Time.
LEMMA Times ==
  /\ 0 \in 0 .. WakeTime /\ 0 \in 0 .. RetryTime
  /\ \A t \in 0 .. WakeTime : Grown(t, WakeTime) \in 0 .. WakeTime
  /\ \A t \in 0 .. RetryTime : Grown(t, RetryTime) \in 0 .. RetryTime
  /\ \A t \in 0 .. WakeTime : (IF t < RetryTime THEN t ELSE RetryTime) \in 0 .. RetryTime
BY TelegramAssumption DEF Grown

\* A wake started while another one is ended is marked.
LEMMA Marked ==
  ASSUME StartPolling
  PROVE  \/ loop \in Ending /\ overlap' = TRUE
         \/ loop \notin Ending /\ overlap' = FALSE
<1>1. overlap' = (loop \in Ending)
  BY DEF StartPolling
<1>2. CASE loop \in Ending
  <2>1. (loop \in Ending) = TRUE
    BY <1>2
  <2> QED BY <1>1, <1>2, <2>1
<1>3. CASE loop \notin Ending
  <2>1. (loop \in Ending) = FALSE
    BY <1>3
  <2> QED BY <1>1, <1>3, <2>1
<1> QED BY <1>2, <1>3

\* Every step keeps WakeInd.
LEMMA WakeNext ==
  ASSUME QueueInd, WakeInd, [Next]_vars
  PROVE  WakeInd'
<1> USE Times DEF WakeInd, WakeTypes, Watched, PromiseTracked, wakeVars, histVars, Starting, Ending
<1>1. ASSUME UNCHANGED <<wakeVars, uptime, loop, promised, overlap>>,
             task' \in Starting => task \in Starting
      PROVE  WakeInd'
  BY <1>1
<1>2. CASE \E u \in Update : UserSends(u)
  BY <1>1, <1>2 DEF UserSends
<1>3. CASE GetUpdates \/ HandleOther \/ SendMagicFailed \/ Persist
  BY <1>1, <1>3 DEF GetUpdates, HandleOther, SendMagicFailed, Persist, Handled
<1>4. CASE StartPolling
  <2>1. /\ wakePending' = TRUE /\ promised' = NoChat /\ task' = "start_times"
        /\ UNCHANGED <<wakeChat, age, rest, uptime, loop>>
    BY <1>4 DEF StartPolling
  <2>2. CASE overlap' = TRUE
    BY <2>1, <2>2
  <2>3. CASE loop \notin Ending /\ overlap' = FALSE
    BY <2>1, <2>3
  <2> QED BY <1>4, <2>2, <2>3, Marked
<1>5. CASE StartTimes
  BY <1>5 DEF StartTimes
<1>6. CASE StartChat
  <2>1. updates[hand].chat \in Chats
    <3>1. hand \in DOMAIN updates /\ updates \in Seq(Update)
      BY <1>6 DEF StartChat, QueueInd, QueueTypes
    <3>2. updates[hand] \in Update
      BY <3>1, LenProperties
    <3> QED BY <3>2 DEF Update
  <2> QED BY <1>6, <2>1 DEF StartChat, Handled
<1>7. CASE Restart \/ PowerLoss
  BY <1>7 DEF Restart, PowerLoss, Boot
<1>8. CASE WakeProbe
  BY <1>8 DEF WakeProbe
<1>9. CASE WakeOver
  BY <1>9 DEF WakeOver
<1>10. CASE WakeUnanswered
  BY <1>10 DEF WakeUnanswered
<1>11. CASE WakeTell
  BY <1>11 DEF WakeTell
<1>12. CASE WakeClearFlag
  BY <1>12 DEF WakeClearFlag
<1>13. CASE WakeClearFields
  BY <1>13 DEF WakeClearFields
<1>14. CASE Tick
  BY <1>14 DEF Tick
<1>15. CASE UNCHANGED vars
  BY <1>1, <1>15 DEF vars
<1> QED
  BY <1>2, <1>3, <1>4, <1>5, <1>6, <1>7, <1>8, <1>9, <1>10, <1>11, <1>12, <1>13, <1>14, <1>15
  DEF Next, Poll, WakePoll

-----------------------------------------------------------------------------
(* The theorems *)

\* Both parts are invariants.
LEMMA TelegramAlways == Spec => [](QueueInd /\ WakeInd)
<1>1. Init => QueueInd
  BY TelegramAssumption, EmptySeq
  DEF Init, QueueInd, QueueTypes, Offsets, Owed, HandledOnce, InHand, Starting
<1>2. Init => WakeInd
  BY Times DEF Init, WakeInd, WakeTypes, Watched, PromiseTracked, Starting, Ending
<1> QED BY <1>1, <1>2, QueueNext, WakeNext, PTL DEF Spec

\* telegram_poll handles an update again only after a power loss or a failed
\* write hit it, so /reboot cannot restart the device for ever.
THEOREM UpdatesHandledOnce == Spec => []HandledOnce
<1>1. QueueInd => HandledOnce
  BY DEF QueueInd
<1> QED BY <1>1, TelegramAlways, PTL

\* getUpdates makes Telegram forget an update only after its handler ended, and
\* no offset runs ahead of what was sent.
THEOREM UpdatesNotSkipped == Spec => []TelegramInv
<1>1. QueueInd /\ WakeInd => TelegramInv
  BY DEF QueueInd, QueueTypes, WakeInd, WakeTypes, TelegramInv, TypeOK, NoneSkipped, Owed
<1> QED BY <1>1, TelegramAlways, PTL

\* A chat asked to wait is the one wake_poll watches for, unless the wake was
\* started while wake_poll ended another one.
THEOREM PromisesTracked == Spec => []PromiseTracked
<1>1. WakeInd => PromiseTracked
  BY DEF WakeInd
<1> QED BY <1>1, TelegramAlways, PTL
=============================================================================
