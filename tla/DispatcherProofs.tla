------------------------- MODULE DispatcherProofs --------------------------
(***************************************************************************)
(* Theorems about Dispatcher, and about MediaLink, which puts the ESP and  *)
(* its clock in front of it: for every number of connections, requests,    *)
(* commands and configurations, every lifetime and any clocks.             *)
(*                                                                         *)
(* The invariant of the dispatcher strengthens RememberedThroughWindow     *)
(* with                                                                    *)
(*   - clock readings are never later than the latest time the clock has   *)
(*     shown (ReadingsPast), so a purge never drops a request whose window *)
(*     is still open, and                                                  *)
(*   - an unexpired reservation that has not reached its executor is the   *)
(*     only one of its request (SoleReservation).                          *)
(*                                                                         *)
(* From the ESP on, the argument follows the one copy of a request: it is  *)
(* not sent (Unsent), or on the link, or with one handler, and a handler   *)
(* that has not reached the executor is the proof that none ever has       *)
(* (OneCopy).  Every step of the composition is a step of Dispatcher or    *)
(* leaves it alone (LinkImplements), which brings the dispatcher's         *)
(* invariant along.                                                        *)
(***************************************************************************)
EXTENDS MediaLink, FiniteSetTheorems, TLAPS

-----------------------------------------------------------------------------
(* Type correctness *)

\* The executor's state keeps its type under each of its operations.
LEMMA ExecTypes ==
  ASSUME ExecTypeOK,
         \/ UNCHANGED execVars
         \/ \E k \in ActionKind, o \in Task \cup {Detached} : Spawn(k, o)
         \/ \E t \in Task : Abandon(t)
         \/ \E j \in jobs : EndJob(j)
  PROVE  ExecTypeOK'
<1>1. CASE UNCHANGED execVars
  BY <1>1 DEF ExecTypeOK, execVars
<1>2. CASE \E k \in ActionKind, o \in Task \cup {Detached} : Spawn(k, o)
  <2> PICK k \in ActionKind, o \in Task \cup {Detached} : Spawn(k, o)
    BY <1>2
  <2>1. permits[k] \in Nat /\ permits[k] > 0 /\ k \in Guarded
    BY DEF Spawn, ExecTypeOK
  <2>2. permits' \in [Guarded -> Nat]
    BY <2>1 DEF Spawn, ExecTypeOK
  <2>3. jobs' \subseteq Job
    BY <2>1 DEF Spawn, ExecTypeOK, Job
  <2> QED BY <2>2, <2>3 DEF ExecTypeOK
<1>3. CASE \E t \in Task : Abandon(t)
  BY <1>3 DEF Abandon, ExecTypeOK, Job
<1>4. CASE \E j \in jobs : EndJob(j)
  <2> PICK j \in jobs : EndJob(j)
    BY <1>4
  <2>1. j.kind \in Guarded
    BY DEF ExecTypeOK, Job
  <2> QED BY <2>1 DEF EndJob, ExecTypeOK, Job
<1> QED BY <1>1, <1>2, <1>3, <1>4

\* Verdicts are replies.
LEMMA Verdicts ==
  /\ \A r, t : TimeVerdict(r, t) \in {"ok", "invalid_time", "expired", "clock_skew"}
  /\ \A c, r : ActionVerdict(c, r) \in
                 {"ok", "sync_required", "unknown_action", "disabled_action"}
BY DEF TimeVerdict, ActionVerdict

\* try_read and the configuration checks under it keep the task's types.
LEMMA TryReadTypes ==
  ASSUME TypeOK, NEW t \in Task, NEW r, NEW where \in Holding,
         TryRead(t, r, where)
  PROVE  /\ pc' \in [Task -> Place]
         /\ pc' = [pc EXCEPT ![t] = pc'[t]] /\ pc'[t] \in {"replied", where}
         /\ kind' \in [Task -> ActionKind]
         /\ result' \in [Task -> Result]
<1>1. CASE pending # NoConfig
  BY <1>1 DEF TryRead, Reply, TypeOK, Place, Result
<1>2. CASE pending = NoConfig /\ ActionVerdict(config, r) # "ok"
  BY <1>2, Verdicts DEF TryRead, Reply, TypeOK, Place, Result
<1>3. CASE pending = NoConfig /\ ActionVerdict(config, r) = "ok"
  <2>1. KindOf(config, r) \in ActionKind
    BY <1>3, DispatcherAssumption
    DEF ActionVerdict, KindOf, TypeOK, ActionKind, Action
  <2> QED BY <1>3, <2>1 DEF TryRead, TypeOK, Place, Holding
<1> QED BY <1>1, <1>2, <1>3

\* A job somebody awaits is awaited by a task that is executing, and is the only
\* job of that task.
OwnersWait ==
  \A j \in jobs : j.owner \in Task =>
    /\ pc[j.owner] = "executing"
    /\ \A i \in jobs : i.owner = j.owner => i = j

\* The initial state is well typed, and no job has an owner that does not wait.
LEMMA TypeInit == Init => TypeOK /\ OwnersWait
BY DispatcherAssumption
DEF Init, TypeOK, ExecInit, ExecTypeOK, Place, Result, Outcome, ActionKind, Guarded,
    OwnersWait

\* Every action keeps every variable in its type.
LEMMA TypeStep == TypeOK /\ OwnersWait /\ [Next]_vars => TypeOK'
<1> SUFFICES ASSUME TypeOK, OwnersWait, [Next]_vars PROVE TypeOK'
  OBVIOUS
<1> USE DispatcherAssumption DEF clock
<1>1. ASSUME NEW t \in Conns, NEW r \in Requests, Receive(t, r) PROVE TypeOK'
  <2>1. ExecTypeOK'
    BY <1>1, ExecTypes DEF Receive, TypeOK
  <2>2. r.form \in Result
    BY DEF Request, Result
  <2> QED BY <1>1, <2>1, <2>2 DEF Receive, Reply, TypeOK, Place
<1>2. ASSUME NEW t \in Tests, NEW a \in ActionIds, TestAction(t, a) PROVE TypeOK'
  <2>1. ExecTypeOK'
    BY <1>2, ExecTypes DEF TestAction, TypeOK
  <2>3. TryRead(t, LocalTest(a), "reserved") /\ "reserved" \in Holding
    BY <1>2 DEF TestAction, Holding
  <2>4. /\ pc' \in [Task -> Place]
        /\ pc' = [pc EXCEPT ![t] = pc'[t]] /\ pc'[t] \in {"replied", "reserved"}
        /\ kind' \in [Task -> ActionKind] /\ result' \in [Task -> Result]
    BY <2>3, TryReadTypes
  <2> QED BY <1>2, <2>1, <2>4 DEF TestAction, TypeOK
<1>3. ASSUME NEW t \in Task, Admit(t) PROVE TypeOK'
  <2>1. ExecTypeOK'
    BY <1>3, ExecTypes DEF Admit, TypeOK
  <2>2. /\ pc' \in [Task -> Place]
        /\ pc' = [pc EXCEPT ![t] = pc'[t]]
        /\ kind' \in [Task -> ActionKind] /\ result' \in [Task -> Result]
    <3>1. CASE TryRead(t, req[t], "admitted")
      BY <3>1, TryReadTypes DEF Holding
    <3>2. CASE Reply(t, TimeVerdict(req[t], seen[t])) /\ UNCHANGED kind
      BY <3>2, Verdicts DEF Reply, TypeOK, Place, Result, Outcome
    <3> QED BY <1>3, <3>1, <3>2 DEF Admit
  <2> QED BY <1>3, <2>1, <2>2 DEF Admit, TypeOK
<1>4. ASSUME NEW t \in Task, Reserve(t) PROVE TypeOK'
  <2>1. ExecTypeOK'
    BY <1>4, ExecTypes DEF Reserve, TypeOK
  <2>2. t \in Conns /\ Reservation(req[t]) \in [id: Nat, expires: Nat]
    BY <1>4 DEF Reserve, TypeOK, Reservation, Request
  <2> QED BY <1>4, <2>1, <2>2 DEF Reserve, Reply, Live, TypeOK, Place, Result, Holding
<1>5. ASSUME NEW t \in Task, Execute(t) PROVE TypeOK'
  <2>1. ExecTypeOK'
    BY <1>5, ExecTypes
    DEF Execute, TypeOK, Refused, SpawnFailed, SpawnLaunch, SpawnScript, SpawnAwaited
  <2>2. started' \in [Requests -> Nat]
    BY <1>5 DEF Execute, Count, TypeOK
  <2> QED BY <1>5, <2>1, <2>2 DEF Execute, Decided, TypeOK, Place, Result, Holding, Outcome
<1>6. ASSUME NEW j \in jobs, NEW v \in Outcome, JobEnds(j, v) PROVE TypeOK'
  <2>1. ExecTypeOK'
    BY <1>6, ExecTypes DEF JobEnds, TypeOK
  <2> QED BY <1>6, <2>1 DEF JobEnds, Decided, TypeOK, Place, Result, Holding, OwnersWait
<1>7. ASSUME NEW t \in Task, Timeout(t) PROVE TypeOK'
  <2>1. ExecTypeOK'
    BY <1>7, ExecTypes DEF Timeout, HttpTimeout, ElevatedTimeout, TypeOK
  <2> QED BY <1>7, <2>1
      DEF Timeout, HttpTimeout, ElevatedTimeout, Decided, Reply, TypeOK, Place,
          Result, Holding, Outcome
<1>8. ASSUME NEW t \in Task, Finish(t) \/ Close(t) PROVE TypeOK'
  <2>1. ExecTypeOK'
    BY <1>8, ExecTypes DEF Finish, Close, TypeOK
  <2> QED BY <1>8, <2>1
      DEF Finish, Close, Reply, TypeOK, Place, Result, Outcome, ActionKind
<1>9. ASSUME (\E c \in Configs : ReplaceBegin(c)) \/ ReplaceInstall
               \/ ReplaceCancelled \/ ClockMoves
      PROVE TypeOK'
  <2>1. ExecTypeOK'
    BY <1>9, ExecTypes DEF ReplaceBegin, ReplaceInstall, ReplaceCancelled, ClockMoves, Tick, ClockSetBack, TypeOK
  <2> QED BY <1>9, <2>1
      DEF ReplaceBegin, ReplaceInstall, ReplaceCancelled, ClockMoves, Tick, ClockSetBack, taskVars, TypeOK
<1>10. CASE UNCHANGED vars
  BY <1>10 DEF vars, taskVars, execVars, TypeOK, ExecTypeOK
<1> QED
  BY <1>1, <1>2, <1>3, <1>4, <1>5, <1>6, <1>7, <1>8, <1>9, <1>10 DEF Next, Step

\* A job gets an owner when its task starts to wait and loses it when the task
\* stops waiting.
LEMMA OwnersStep == TypeOK /\ OwnersWait /\ [Next]_vars => OwnersWait'
<1> SUFFICES ASSUME TypeOK, OwnersWait, [Next]_vars PROVE OwnersWait'
  OBVIOUS
<1> USE DispatcherAssumption, DetachedAssumption DEF clock
<1>1. ASSUME NEW t \in Task, pc[t] # "executing", jobs' = jobs,
             \A u \in Task : u # t => pc'[u] = pc[u]
      PROVE  OwnersWait'
  BY <1>1 DEF OwnersWait
<1>2. ASSUME NEW t \in Task, Abandon(t), \A u \in Task : u # t => pc'[u] = pc[u]
      PROVE  OwnersWait'
  BY <1>2 DEF OwnersWait, Abandon
<1>3. ASSUME NEW t \in Task, Execute(t) PROVE OwnersWait'
  <2>1. \A u \in Task : u # t => pc'[u] = pc[u]
    BY <1>3 DEF Execute, Decided, TypeOK
  <2>2. CASE jobs' = jobs
    BY <1>1, <1>3, <2>1, <2>2 DEF Execute
  <2>3. CASE SpawnScript(kind[t])
    BY <1>3, <2>1, <2>3 DEF SpawnScript, Spawn, OwnersWait, Execute
  <2>4. CASE SpawnAwaited(t, kind[t]) /\ pc' = [pc EXCEPT ![t] = "executing"]
    BY <1>3, <2>1, <2>4 DEF SpawnAwaited, Spawn, OwnersWait, Execute, TypeOK
  <2> QED BY <1>3, <2>2, <2>3, <2>4
      DEF Execute, Refused, SpawnFailed, SpawnLaunch, execVars
<1>4. ASSUME NEW j \in jobs, NEW v \in Outcome, JobEnds(j, v) PROVE OwnersWait'
  BY <1>4 DEF JobEnds, EndJob, Decided, OwnersWait, TypeOK
<1>5. ASSUME NEW t \in Task, Timeout(t) PROVE OwnersWait'
  BY <1>2, <1>5 DEF Timeout, ElevatedTimeout, HttpTimeout, Decided, Reply, TypeOK
<1>6. ASSUME NEW t \in Conns, NEW r \in Requests, Receive(t, r) PROVE OwnersWait'
  BY <1>1, <1>6 DEF Receive, Reply, TypeOK, execVars
<1>7. ASSUME NEW t \in Tests, NEW a \in ActionIds, TestAction(t, a) PROVE OwnersWait'
  BY <1>1, <1>7 DEF TestAction, TryRead, Reply, TypeOK, execVars
<1>8. ASSUME NEW t \in Task, Admit(t) \/ Reserve(t) \/ Finish(t) \/ Close(t)
      PROVE  OwnersWait'
  BY <1>1, <1>8 DEF Admit, Reserve, Finish, Close, TryRead, Reply, TypeOK, execVars
<1>9. CASE \/ UNCHANGED vars \/ ClockMoves \/ ReplaceInstall \/ ReplaceCancelled
           \/ \E c \in Configs : ReplaceBegin(c)
  BY <1>9 DEF vars, ClockMoves, Tick, ClockSetBack, ReplaceInstall, ReplaceCancelled, ReplaceBegin, taskVars,
              execVars, OwnersWait
<1> QED
  BY <1>3, <1>4, <1>5, <1>6, <1>7, <1>8, <1>9 DEF Next, Step

\* The type invariant holds in every reachable state, for any connections,
\* requests and configurations.
THEOREM TypeCorrect == Spec => [](TypeOK /\ OwnersWait)
<1>1. TypeOK /\ OwnersWait /\ [Next]_vars => (TypeOK /\ OwnersWait)'
  BY TypeStep, OwnersStep
<1> QED BY TypeInit, <1>1, PTL DEF Spec

-----------------------------------------------------------------------------
(* Duplicate suppression *)

\* A clock reading is never ahead of the clock.
ReadingsPast == \A t \in Task : seen[t] <= latest

\* An unexpired reservation on its way to the executor is the only one of its
\* request, and the request has not been executed.
SoleReservation ==
  \A t \in Conns :
    pc[t] = "reserved" /\ latest < req[t].expires =>
      /\ started[req[t]] = 0
      /\ \A u \in Conns : pc[u] = "reserved" /\ req[u] = req[t] => u = t

ReplayInv == ReadingsPast /\ RememberedThroughWindow /\ SoleReservation

\* Steps that touch neither the cache nor an executor, and reserve nothing.
LEMMA ReplayFrame ==
  ASSUME TypeOK, TypeOK', ReplayInv,
         latest <= latest', cache' = cache, started' = started,
         \A t \in Task : seen'[t] <= latest',
         \A t \in Conns : pc'[t] = "reserved" => pc[t] = "reserved" /\ req'[t] = req[t]
  PROVE  ReplayInv'
<1> USE DispatcherAssumption DEF clock
<1>1. ReadingsPast'
  BY DEF ReadingsPast
<1>2. \A r \in Requests : r.expires \in Nat
  BY DEF Request
<1>3. RememberedThroughWindow'
  BY <1>2 DEF ReplayInv, RememberedThroughWindow, TypeOK, Reservation
<1>4. \A t \in Conns : pc[t] = "reserved" => req[t] \in Requests
  BY DEF TypeOK
<1>5. SoleReservation'
  BY <1>2, <1>4 DEF ReplayInv, SoleReservation, TypeOK
<1> QED BY <1>1, <1>3, <1>5 DEF ReplayInv

\* DuplicateCache::reserve drops only closed windows and admits a request only
\* if it has no open reservation.
LEMMA ReplayReserve ==
  ASSUME TypeOK, TypeOK', ReplayInv, NEW t \in Task, Reserve(t)
  PROVE  ReplayInv'
<1> USE DispatcherAssumption DEF clock
<1>1. /\ t \in Conns /\ req[t] \in Requests /\ pc[t] = "admitted"
      /\ latest \in Nat /\ seen[t] \in Nat /\ seen[t] <= latest
  BY DEF Reserve, TypeOK, ReplayInv, ReadingsPast
<1>2. latest' = latest /\ started' = started /\ req' = req /\ seen' = seen
  BY DEF Reserve
<1>3. \A r \in Requests : r.expires \in Nat /\ r.id \in Nat
  BY DEF Request
<1>4. \A r \in Requests : latest < r.expires /\ Reservation(r) \in cache
                            => Reservation(r) \in Live(seen[t])
  BY <1>1, <1>3 DEF Live, Reservation
<1>5. Live(seen[t]) \subseteq cache'
  BY DEF Reserve
<1>6. \A u \in Task : u # t => pc'[u] = pc[u]
  BY <1>1 DEF Reserve, Reply, TypeOK
<1>7. CASE pc'[t] # "reserved"
  <2>1. RememberedThroughWindow'
    BY <1>1, <1>2, <1>3, <1>4, <1>5, <1>6, <1>7
    DEF ReplayInv, RememberedThroughWindow, Reservation
  <2>2. SoleReservation'
    BY <1>1, <1>2, <1>6, <1>7 DEF ReplayInv, SoleReservation
  <2> QED BY <1>2, <2>1, <2>2 DEF ReplayInv, ReadingsPast
<1>8. CASE pc'[t] = "reserved"
  <2>1. ~ \E e \in Live(seen[t]) : e.id = req[t].id
    BY <1>1, <1>8 DEF Reserve, Reply, TypeOK, Taken
  <2>2. Reservation(req[t]) \in cache'
    BY <1>1, <1>8 DEF Reserve, Reply, TypeOK
  <2>3. Reservation(req[t]) \notin Live(seen[t])
    BY <2>1 DEF Reservation
  <2>4. latest < req[t].expires =>
          /\ started[req[t]] = 0
          /\ \A u \in Conns : pc[u] = "reserved" => req[u] # req[t]
    <3> HAVE latest < req[t].expires
    <3>1. Reservation(req[t]) \notin cache
      BY <1>1, <1>4, <2>3
    <3>2. started[req[t]] \in Nat
      BY <1>1 DEF TypeOK
    <3> QED BY <1>1, <3>1, <3>2 DEF ReplayInv, RememberedThroughWindow
  <2>5. RememberedThroughWindow'
    BY <1>1, <1>2, <1>3, <1>4, <1>5, <1>6, <2>2
    DEF ReplayInv, RememberedThroughWindow, Reservation
  <2>6. SoleReservation'
    BY <1>1, <1>2, <1>6, <2>4 DEF ReplayInv, SoleReservation
  <2> QED BY <1>2, <2>5, <2>6 DEF ReplayInv, ReadingsPast
<1> QED BY <1>7, <1>8

\* Reaching the executor uses the reservation up.
LEMMA ReplayExecute ==
  ASSUME TypeOK, TypeOK', ReplayInv, NEW t \in Task, Execute(t)
  PROVE  ReplayInv'
<1> USE DispatcherAssumption DEF clock
<1>1. latest' = latest /\ cache' = cache /\ req' = req /\ seen' = seen /\ pc[t] = "reserved"
  BY DEF Execute
<1>2. pc'[t] # "reserved" /\ \A u \in Task : u # t => pc'[u] = pc[u]
  BY DEF Execute, Decided, TypeOK
<1>3. \A r \in Requests : r # req[t] => started'[r] = started[r]
  BY DEF Execute, Count, TypeOK
<1>4. req[t] \in Requests => t \in Conns
  <2>1. \A a \in ActionIds : LocalTest(a) \notin Requests
    BY DEF LocalTest
  <2> QED BY <1>1, <2>1 DEF TypeOK
<1>5. RememberedThroughWindow'
  BY <1>1, <1>2, <1>3, <1>4 DEF ReplayInv, RememberedThroughWindow, Reservation
<1>6. \A u \in Conns : pc'[u] = "reserved" /\ latest < req[u].expires => req[u] # req[t]
  BY <1>1, <1>2, <1>4 DEF ReplayInv, SoleReservation, TypeOK
<1>7. SoleReservation'
  BY <1>1, <1>2, <1>3, <1>6 DEF ReplayInv, SoleReservation, TypeOK
<1> QED BY <1>1, <1>5, <1>7 DEF ReplayInv, ReadingsPast

\* Every step preserves the replay invariant; only DuplicateCache::reserve and
\* execute need an argument of their own.
LEMMA ReplayStep ==
  ASSUME TypeOK, TypeOK', OwnersWait, ReplayInv, [Next]_vars
  PROVE  ReplayInv'
<1> USE DispatcherAssumption DEF clock
<1>1. latest \in Nat /\ \A t \in Task : seen[t] \in Nat /\ seen[t] <= latest
  BY DEF TypeOK, ReplayInv, ReadingsPast
<1>2. ASSUME NEW t \in Conns, NEW r \in Requests, Receive(t, r) PROVE ReplayInv'
  BY <1>1, <1>2, ReplayFrame DEF Receive, Reply, TypeOK
<1>3. ASSUME NEW t \in Tests, NEW a \in ActionIds, TestAction(t, a) PROVE ReplayInv'
  BY <1>1, <1>3, ReplayFrame DEF TestAction, TryRead, Reply, TypeOK
<1>4. ASSUME NEW t \in Task, Admit(t) \/ Finish(t) \/ Close(t) PROVE ReplayInv'
  BY <1>1, <1>4, ReplayFrame DEF Admit, Finish, Close, TryRead, Reply, TypeOK
<1>5. ASSUME NEW t \in Task, Timeout(t) PROVE ReplayInv'
  BY <1>1, <1>5, ReplayFrame
  DEF Timeout, ElevatedTimeout, HttpTimeout, Decided, Reply, TypeOK
<1>6. ASSUME NEW j \in jobs, NEW v \in Outcome, JobEnds(j, v) PROVE ReplayInv'
  BY <1>1, <1>6, ReplayFrame DEF JobEnds, Decided, TypeOK
<1>7. CASE \/ UNCHANGED vars \/ ClockMoves \/ ReplaceInstall \/ ReplaceCancelled
           \/ \E c \in Configs : ReplaceBegin(c)
  BY <1>1, <1>7, ReplayFrame
  DEF vars, ClockMoves, Tick, ClockSetBack, ReplaceInstall, ReplaceCancelled, ReplaceBegin, taskVars, TypeOK
<1> QED
  BY <1>2, <1>3, <1>4, <1>5, <1>6, <1>7, ReplayReserve, ReplayExecute DEF Next, Step

\* Nothing is reserved or executed initially.
LEMMA ReplayInitial == Init => ReplayInv
BY DispatcherAssumption
DEF Init, ReplayInv, ReadingsPast, RememberedThroughWindow, SoleReservation

\* The replay invariant holds throughout.
LEMMA ReplayInvariant == Spec => []ReplayInv
<1>1. Init => ReplayInv
  BY ReplayInitial
<1>2. /\ TypeOK /\ OwnersWait /\ (TypeOK /\ OwnersWait)'
      /\ ReplayInv /\ [Next]_vars
      => ReplayInv'
  BY ReplayStep
<1> QED BY <1>1, <1>2, TypeCorrect, PTL DEF Spec

\* Every accepted request stays in the duplicate cache until its window closes:
\* the promise of media-control-https.md, for any number of connections, any
\* lifetime and any cache size.
THEOREM WindowRemembered == Spec => []RememberedThroughWindow
BY ReplayInvariant, PTL DEF ReplayInv

\* Duplicates delivered inside the window never execute, whatever the
\* interleaving of the handlers.
THEOREM NoReplay == Spec => NoReplayInWindow
<1>1. TypeOK /\ ReplayInv /\ [Next]_vars =>
        [\A r \in Requests :
           started'[r] > started[r] /\ started[r] > 0 => r.expires <= latest]_vars
  <2> SUFFICES ASSUME TypeOK, ReplayInv, Next, NEW r \in Requests,
                      started'[r] > started[r], started[r] > 0
               PROVE  r.expires <= latest
    OBVIOUS
  <2> USE DispatcherAssumption DEF clock
  <2>1. started[r] \in Nat /\ r.expires \in Nat /\ latest \in Nat
    BY DEF TypeOK, Request
  <2>2. started' # started
    BY <2>1
  <2>3. PICK t \in Task : Execute(t)
    BY <2>2
    DEF Next, Step, Timeout, Receive, TestAction, Admit, Reserve, Finish, Close,
        ElevatedTimeout, HttpTimeout, JobEnds, ReplaceBegin, ReplaceInstall,
        ReplaceCancelled, ClockMoves, Tick, ClockSetBack
  <2>4. req[t] = r
    BY <2>1, <2>3 DEF Execute, Count, TypeOK
  <2>5. \A a \in ActionIds : LocalTest(a) \notin Requests
    BY DEF LocalTest
  <2>6. t \in Conns /\ pc[t] = "reserved"
    BY <2>3, <2>4, <2>5 DEF Execute, TypeOK
  <2> QED BY <2>1, <2>4, <2>6 DEF ReplayInv, SoleReservation
<1> QED BY <1>1, ReplayInvariant, TypeCorrect, PTL DEF Spec, NoReplayInWindow

-----------------------------------------------------------------------------
(* The lifecycle lock *)

\* A reader keeps its request and its kind, and the configuration does not
\* change while there is one.
LEMMA ConfigStep ==
  ASSUME TypeOK, TypeOK', OwnersWait, DispatchMatchesConfig, [Next]_vars
  PROVE  DispatchMatchesConfig'
<1> USE DispatcherAssumption DEF clock
<1>1. ASSUME config' = config, NEW t \in Task,
             req' = req, kind' = kind,
             \A u \in Task : u # t => pc'[u] = pc[u],
             pc'[t] \in Holding => pc[t] \in Holding
      PROVE  DispatchMatchesConfig'
  BY <1>1 DEF DispatchMatchesConfig, Readers
<1>2. ASSUME NEW t \in Task, NEW r, NEW where,
             TryRead(t, r, where), config' = config, req' = [req EXCEPT ![t] = r],
             pc[t] \notin Holding
      PROVE  DispatchMatchesConfig'
  <2>1. \A u \in Task : u # t => pc'[u] = pc[u] /\ req'[u] = req[u] /\ kind'[u] = kind[u]
    BY <1>2 DEF TryRead, Reply, TypeOK
  <2>2. CASE pc'[t] = "replied"
    BY <1>2, <2>1, <2>2 DEF DispatchMatchesConfig, Readers, Holding
  <2>3. CASE pc'[t] # "replied"
    BY <1>2, <2>1, <2>3 DEF TryRead, Reply, TypeOK, DispatchMatchesConfig, Readers
  <2> QED BY <2>2, <2>3
<1>3. ASSUME NEW t \in Conns, NEW r \in Requests, Receive(t, r)
      PROVE  DispatchMatchesConfig'
  BY <1>3 DEF Receive, Reply, TypeOK, DispatchMatchesConfig, Readers, Holding
<1>4. ASSUME NEW t \in Tests, NEW a \in ActionIds, TestAction(t, a)
      PROVE  DispatchMatchesConfig'
  BY <1>2, <1>4 DEF TestAction, Holding
<1>5. ASSUME NEW t \in Task, Admit(t) PROVE DispatchMatchesConfig'
  <2>1. req' = [req EXCEPT ![t] = req[t]]
    BY <1>5 DEF Admit, TypeOK
  <2>2. CASE TryRead(t, req[t], "admitted")
    BY <1>2, <1>5, <2>1, <2>2 DEF Admit, Holding
  <2>3. CASE ~TryRead(t, req[t], "admitted")
    BY <1>1, <1>5, <2>3 DEF Admit, Reply, TypeOK, Holding
  <2> QED BY <2>2, <2>3
<1>6. ASSUME NEW t \in Task, Reserve(t) \/ Execute(t) \/ Finish(t)
      PROVE  DispatchMatchesConfig'
  BY <1>1, <1>6 DEF Reserve, Execute, Finish, Decided, Reply, TypeOK, Holding
<1>7. ASSUME NEW t \in Task, Close(t) PROVE DispatchMatchesConfig'
  BY <1>7 DEF Close, TypeOK, DispatchMatchesConfig, Readers, Holding
<1>8. ASSUME NEW t \in Task, Timeout(t) PROVE DispatchMatchesConfig'
  BY <1>1, <1>8
  DEF Timeout, ElevatedTimeout, HttpTimeout, Decided, Reply, TypeOK, Holding
<1>9. ASSUME NEW j \in jobs, NEW v \in Outcome, JobEnds(j, v)
      PROVE  DispatchMatchesConfig'
  BY <1>9 DEF JobEnds, Decided, TypeOK, OwnersWait, DispatchMatchesConfig, Readers, Holding
<1>10. CASE ReplaceInstall
  BY <1>10 DEF ReplaceInstall, taskVars, DispatchMatchesConfig, Readers
<1>11. CASE \/ UNCHANGED vars \/ ClockMoves \/ ReplaceCancelled
            \/ \E c \in Configs : ReplaceBegin(c)
  BY <1>11 DEF vars, ClockMoves, Tick, ClockSetBack, ReplaceCancelled, ReplaceBegin, taskVars,
               DispatchMatchesConfig, Readers
<1> QED
  BY <1>3, <1>4, <1>5, <1>6, <1>7, <1>8, <1>9, <1>10, <1>11 DEF Next, Step

\* replace_config never changes an action under the dispatch that resolved it:
\* the claim of the test config_apply_waits_for_dispatch, for every
\* interleaving.
THEOREM ConfigStable == Spec => []DispatchMatchesConfig
<1>1. Init => DispatchMatchesConfig
  BY DispatcherAssumption DEF Init, DispatchMatchesConfig, Readers, Holding
<1>2. /\ TypeOK /\ OwnersWait /\ (TypeOK /\ OwnersWait)'
      /\ DispatchMatchesConfig /\ [Next]_vars
      => DispatchMatchesConfig'
  BY ConfigStep
<1> QED BY <1>1, <1>2, TypeCorrect, PTL DEF Spec

-----------------------------------------------------------------------------
(* The executor's permits *)

\* A permit taken is a job started, a permit returned a job ended, and giving up
\* on a job is neither.
LEMMA PermitStep ==
  ASSUME ExecTypeOK, OneJobPerPermit,
         \/ UNCHANGED execVars
         \/ \E k \in ActionKind, o \in Task \cup {Detached} : Spawn(k, o)
         \/ \E t \in Task : Abandon(t)
         \/ \E j \in jobs : EndJob(j)
  PROVE  OneJobPerPermit'
<1>1. CASE UNCHANGED execVars
  BY <1>1 DEF OneJobPerPermit, execVars
<1>2. CASE \E k \in ActionKind, o \in Task \cup {Detached} : Spawn(k, o)
  <2> PICK k \in ActionKind, o \in Task \cup {Detached} : Spawn(k, o)
    BY <1>2
  <2>1. k \in Guarded /\ permits[k] = 1 /\ ~ \E j \in jobs : j.kind = k
    BY DEF Spawn, OneJobPerPermit
  <2>2. permits' = [permits EXCEPT ![k] = 0]
    BY <2>1 DEF Spawn
  <2>3. jobs' = jobs \cup {[kind |-> k, owner |-> o]}
    BY DEF Spawn
  <2>4. \A j1, j2 \in jobs' : j1.kind = j2.kind => j1 = j2
    BY <2>1, <2>3 DEF OneJobPerPermit
  <2>5. ASSUME NEW i \in Guarded
        PROVE  permits'[i] = IF \E j \in jobs' : j.kind = i THEN 0 ELSE 1
    <3>1. CASE i = k
      <4>1. permits'[i] = 0
        BY <2>2, <3>1 DEF ExecTypeOK
      <4>2. [kind |-> k, owner |-> o] \in jobs' /\ [kind |-> k, owner |-> o].kind = i
        BY <2>3, <3>1
      <4> QED BY <4>1, <4>2
    <3>2. CASE i # k
      <4>1. permits'[i] = permits[i]
        BY <2>2, <3>2 DEF ExecTypeOK
      <4>2. (\E j \in jobs' : j.kind = i) <=> (\E j \in jobs : j.kind = i)
        BY <2>3, <3>2
      <4> QED BY <4>1, <4>2 DEF OneJobPerPermit
    <3> QED BY <3>1, <3>2
  <2> QED BY <2>4, <2>5 DEF OneJobPerPermit
<1>3. CASE \E t \in Task : Abandon(t)
  <2> PICK t \in Task, j \in jobs :
        /\ jobs' = (jobs \ {j}) \cup {[kind |-> j.kind, owner |-> Detached]}
        /\ permits' = permits
    BY <1>3 DEF Abandon
  <2> DEFINE left == [kind |-> j.kind, owner |-> Detached]
  <2>1. left.kind = j.kind
    OBVIOUS
  <2>2. jobs' = (jobs \ {j}) \cup {left}
    OBVIOUS
  <2> HIDE DEF left
  <2>3. \A k : (\E i \in jobs' : i.kind = k) <=> (\E i \in jobs : i.kind = k)
    BY <2>1, <2>2
  <2>4. \A j1, j2 \in jobs' : j1.kind = j2.kind => j1 = j2
    BY <2>1, <2>2 DEF OneJobPerPermit
  <2> QED BY <2>3, <2>4 DEF OneJobPerPermit
<1>4. CASE \E j \in jobs : EndJob(j)
  <2> PICK j \in jobs : EndJob(j)
    BY <1>4
  <2>1. j.kind \in Guarded /\ permits[j.kind] = 0
    BY DEF ExecTypeOK, Job, OneJobPerPermit
  <2>2. permits' = [permits EXCEPT ![j.kind] = 1]
    BY <2>1 DEF EndJob
  <2> QED BY <2>1, <2>2 DEF EndJob, OneJobPerPermit, ExecTypeOK
<1> QED BY <1>1, <1>2, <1>3, <1>4

\* Every action of the daemon uses the executor through those operations.
LEMMA ExecutorUse ==
  ASSUME TypeOK, [Next]_vars
  PROVE  \/ UNCHANGED execVars
         \/ \E k \in ActionKind, o \in Task \cup {Detached} : Spawn(k, o)
         \/ \E t \in Task : Abandon(t)
         \/ \E j \in jobs : EndJob(j)
<1>1. ASSUME NEW t \in Task, Execute(t)
      PROVE  \/ UNCHANGED execVars
             \/ \E k \in ActionKind, o \in Task \cup {Detached} : Spawn(k, o)
  BY <1>1 DEF Execute, TypeOK, Refused, SpawnFailed, SpawnLaunch, SpawnScript,
              SpawnAwaited
<1>2. ASSUME NEW t \in Task, Timeout(t) PROVE \E u \in Task : Abandon(u)
  BY <1>2 DEF Timeout, ElevatedTimeout, HttpTimeout
<1> QED
  BY <1>1, <1>2 DEF Next, Step, Receive, TestAction, Admit, Reserve, Finish, Close,
     JobEnds, ReplaceBegin, ReplaceInstall, ReplaceCancelled, ClockMoves, Tick, ClockSetBack, vars, execVars

\* At most one action of each guarded kind runs, and its permit is out exactly
\* as long, across every timeout and cancellation.
THEOREM PermitsConserved == Spec => []OneJobPerPermit
<1>1. Init => OneJobPerPermit
  BY DEF Init, ExecInit, OneJobPerPermit
<1>2. TypeOK /\ OwnersWait /\ OneJobPerPermit /\ [Next]_vars => OneJobPerPermit'
  BY ExecutorUse, PermitStep DEF TypeOK
<1> QED BY <1>1, <1>2, TypeCorrect, PTL DEF Spec

-----------------------------------------------------------------------------
(* The bound of the duplicate cache *)

CacheInv == IsFiniteSet(cache) /\ CacheBounded

\* DuplicateCache::reserve is the only step that touches the cache, and it adds
\* a reservation only below the limit and under an id the cache does not hold.
LEMMA CacheStep == CacheInv /\ [Next]_vars => CacheInv'
<1> SUFFICES ASSUME CacheInv, [Next]_vars PROVE CacheInv'
  OBVIOUS
<1> USE DispatcherAssumption DEF clock
<1>1. CASE cache' = cache
  BY <1>1 DEF CacheInv, CacheBounded
<1>2. ASSUME NEW t \in Task, Reserve(t) PROVE CacheInv'
  <2> DEFINE live == Live(seen[t])
  <2>1. /\ IsFiniteSet(live) /\ Cardinality(live) <= Cardinality(cache)
        /\ Cardinality(live) \in Nat /\ Cardinality(cache) \in Nat
    BY FS_Subset, FS_CardinalityType DEF Live, CacheInv
  <2>2. \A e, f \in live : e.id = f.id => e = f
    BY DEF Live, CacheInv, CacheBounded
  <2>3. CASE cache' = live
    BY <2>1, <2>2, <2>3 DEF CacheInv, CacheBounded
  <2>4. CASE /\ cache' = live \cup {Reservation(req[t])}
             /\ ~ \E e \in live : e.id = req[t].id
             /\ Cardinality(live) < MaxIds
    <3>1. IsFiniteSet(cache') /\ Cardinality(cache') <= Cardinality(live) + 1
      <4> HIDE DEF live
      <4>1. /\ IsFiniteSet(live \cup {Reservation(req[t])})
            /\ Cardinality(live \cup {Reservation(req[t])})
                 = IF Reservation(req[t]) \in live
                   THEN Cardinality(live) ELSE Cardinality(live) + 1
        BY <2>1, FS_AddElement
      <4> QED BY <2>1, <2>4, <4>1
    <3>2. \A e, f \in cache' : e.id = f.id => e = f
      BY <2>2, <2>4 DEF Reservation
    <3>3. Cardinality(cache') <= MaxIds
      <4>1. Cardinality(cache') \in Nat
        BY <3>1, FS_CardinalityType
      <4> HIDE DEF live
      <4> QED BY <2>1, <2>4, <3>1, <4>1
    <3> QED BY <3>1, <3>2, <3>3 DEF CacheInv, CacheBounded
  <2> QED BY <1>2, <2>1, <2>3, <2>4 DEF Reserve, Taken, Full
<1>3. (~ \E t \in Task : Reserve(t)) => cache' = cache
  BY DEF Next, Step, Timeout, Receive, TestAction, Admit, Execute, Finish, Close,
         ElevatedTimeout, HttpTimeout, JobEnds, ReplaceBegin, ReplaceInstall,
         ReplaceCancelled, ClockMoves, Tick, ClockSetBack, vars
<1> QED BY <1>1, <1>2, <1>3

\* The cache holds at most MAX_REMEMBERED_IDS reservations and no id twice.
THEOREM CacheSafe == Spec => []CacheBounded
<1>1. Init => CacheInv
  BY FS_EmptySet, DispatcherAssumption DEF Init, CacheInv, CacheBounded
<1> QED BY <1>1, CacheStep, PTL DEF Spec, CacheInv

-----------------------------------------------------------------------------
(* MediaLink: the inductive invariant *)

\* The worker has not posted the request, and so nobody else knows of it.
Unsent(r) == r \notin link /\ started[r] = 0 /\ \A t \in Conns : req[t] # r

\* The fates of a command before the worker takes it out of the slot.
Early == {"unspoken", "spoken", "undated", "queued"}

\* What the ESP has not posted is unsent, and a posted one is never early again.
EspInd ==
  /\ waiting # NoIntent => fate[waiting] = "queued"
  /\ sending # NoIntent => fate[sending] = "active"
  /\ \A r \in Intents : fate[r] \in Early \/ (step = "checked" /\ sending = r) => Unsent(r)

\* A request is on the link or with one handler, and runs when that handler
\* reaches the executor.
OneCopy ==
  /\ \A r \in link : started[r] = 0 /\ \A t \in Conns : req[t] # r
  /\ \A t, u \in Conns : req[t] \in Requests /\ req[t] = req[u] => t = u
  /\ \A t \in Conns : pc[t] \in {"timed", "admitted", "reserved"} => started[req[t]] = 0
  /\ SpokenRunsOnce

\* What a handler's result says of its request.  A result of the two-second
\* timeout finds nobody reading.
ResultsTrue ==
  \A t \in Conns :
    /\ pc[t] = "executing" => started[req[t]] > 0
    /\ pc[t] \in {"finish", "replied"} =>
         /\ result[t] = "ok" => started[req[t]] > 0
         /\ req[t].route = "media" /\ result[t] \in Refusals \ {"request_timeout"}
              => started[req[t]] = 0
         /\ result[t] = "request_timeout" => ~Reading(req[t])

\* What the answer says that the worker can read; its request is with nobody.
AnswerTrue ==
  answer # NoAnswer =>
    /\ step = "posted"
    /\ sending \notin link /\ \A t \in Conns : req[t] # sending
    /\ answer = "ok" => started[sending] > 0
    /\ sending.route = "media" /\ answer \in Refusals => started[sending] = 0

\* A job does what the action of its task is.
OwnerKinds == \A j \in jobs : j.owner \in Task => j.kind = kind[j.owner]

\* The daemon's invariants.
DaemonInd == TypeOK /\ OwnersWait /\ DispatchMatchesConfig /\ OwnerKinds

-----------------------------------------------------------------------------
(* The daemon *)

\* The requests of the daemon are the commands of the ESP.
LEMMA SameCommands ==
  /\ Intents = Requests /\ NoIntent \notin Requests /\ NoRequest \notin Requests
  /\ \A a \in ActionIds : LocalTest(a) \notin Requests
  /\ Conns \subseteq Task /\ Task = Conns \cup Tests /\ Conns \cap Tests = {}
<1>1. Intents = Requests /\ NoIntent \notin Requests /\ Conns \subseteq Task
      /\ Task = Conns \cup Tests /\ Conns \cap Tests = {}
  BY LinkAssumption, MediaAssumption, DispatcherAssumption
<1>2. NoRequest \notin Requests
  BY DispatcherAssumption
<1>3. \A a \in ActionIds : LocalTest(a) \notin Requests
  BY DispatcherAssumption DEF LocalTest
<1> QED BY <1>1, <1>2, <1>3

\* A step of the composition is one of the daemon, or leaves the daemon alone.
LEMMA LinkImplements == [LinkNext]_linkVars => [Next]_vars
<1>1. Daemon => Next
  BY SameCommands DEF Daemon, Next, Step, Timeout
<1>2. Time => Next
  BY DEF Time, Next, ClockMoves
<1>3. (\E t \in Conns, r \in Requests : Deliver(t, r)) => Next
  BY DEF Deliver, Next
<1>4. (\E t \in Conns : Respond(t)) => Next
  BY SameCommands DEF Respond, Next, Step
<1>5. Esp \/ EspWorker \/ (\E r \in Requests : Lose(r)) => UNCHANGED vars
  BY Zenon DEF Esp, EspWorker, Lose
<1>6. UNCHANGED linkVars => UNCHANGED vars
  BY Zenon DEF linkVars
<1> QED BY <1>1, <1>2, <1>3, <1>4, <1>5, <1>6 DEF LinkNext

\* A job keeps the kind of the task that waits for it.
LEMMA KindsStep ==
  ASSUME TypeOK, OwnersWait, OwnerKinds, [Next]_vars
  PROVE  OwnerKinds'
<1> USE DispatcherAssumption, DetachedAssumption
<1>1. ASSUME NEW t \in Task, pc[t] # "executing", jobs' = jobs,
             \A u \in Task : u # t => kind'[u] = kind[u]
      PROVE  OwnerKinds'
  BY <1>1 DEF OwnerKinds, OwnersWait
<1>2. ASSUME NEW t \in Task, Abandon(t), kind' = kind PROVE OwnerKinds'
  BY <1>2 DEF OwnerKinds, Abandon
<1>3. ASSUME NEW t \in Task, Execute(t) PROVE OwnerKinds'
  BY <1>3 DEF Execute, Refused, SpawnFailed, SpawnLaunch, SpawnScript, SpawnAwaited, Spawn, execVars, OwnerKinds
<1>4. ASSUME NEW j \in jobs, NEW v \in Outcome, JobEnds(j, v) PROVE OwnerKinds'
  BY <1>4 DEF JobEnds, EndJob, OwnerKinds
<1>5. ASSUME NEW t \in Task, Timeout(t) PROVE OwnerKinds'
  BY <1>2, <1>5 DEF Timeout, ElevatedTimeout, HttpTimeout
<1>6. ASSUME NEW t \in Conns, NEW r \in Requests, Receive(t, r) PROVE OwnerKinds'
  BY <1>1, <1>6 DEF Receive, execVars
<1>7. ASSUME NEW t \in Tests, NEW a \in ActionIds, TestAction(t, a) PROVE OwnerKinds'
  BY <1>1, <1>7 DEF TestAction, TryRead, TypeOK, execVars
<1>8. ASSUME NEW t \in Task, Admit(t) \/ Reserve(t) \/ Finish(t) \/ Close(t) PROVE OwnerKinds'
  BY <1>1, <1>8 DEF Admit, Reserve, Finish, Close, TryRead, TypeOK, execVars
<1>9. CASE \/ UNCHANGED vars \/ ClockMoves \/ ReplaceInstall \/ ReplaceCancelled
           \/ \E c \in Configs : ReplaceBegin(c)
  BY <1>9 DEF vars, ClockMoves, Tick, ClockSetBack, ReplaceInstall, ReplaceCancelled, ReplaceBegin, taskVars,
              execVars, OwnerKinds
<1> QED
  BY <1>3, <1>4, <1>5, <1>6, <1>7, <1>8, <1>9 DEF Next, Step

\* The daemon's invariants hold in the composition too.
LEMMA DaemonStep == DaemonInd /\ [LinkNext]_linkVars => DaemonInd'
<1> SUFFICES ASSUME DaemonInd, [Next]_vars PROVE DaemonInd'
  BY LinkImplements
<1>1. TypeOK' /\ OwnersWait' /\ OwnerKinds'
  BY TypeStep, OwnersStep, KindsStep DEF DaemonInd
<1>2. DispatchMatchesConfig'
  BY <1>1, ConfigStep DEF DaemonInd
<1> QED BY <1>1, <1>2 DEF DaemonInd

\* The handlers and the executions of a step that moves none of them.
Aside ==
  started' = started /\ \A u \in Conns : pc'[u] = pc[u] /\ result'[u] = result[u] /\ req'[u] = req[u]

\* The handler of connection t moves by itself: it refuses the request, gets on,
\* reaches the executor or not, waits no longer, is dropped or returns.
Moves(t) ==
  /\ \A u \in Conns : req'[u] = req[u]
  /\ \A u \in Conns : u # t => pc'[u] = pc[u] /\ result'[u] = result[u]
  /\ \/ /\ pc[t] \in {"timed", "admitted"} /\ started' = started
        /\ \/ pc'[t] = "replied" /\ result'[t] \notin {"ok", "request_timeout"}
           \/ pc'[t] \in {"admitted", "reserved"}
     \/ /\ pc[t] = "reserved" /\ Count(t)
        /\ pc'[t] = "executing" \/ (pc'[t] = "finish" /\ result'[t] = "ok")
     \/ /\ pc[t] = "reserved" /\ started' = started
        /\ pc'[t] = "finish" /\ result'[t] \in {"busy", "server_error"}
     \/ /\ pc[t] = "executing" /\ started' = started /\ pc'[t] = "finish"
        /\ result'[t] \in Outcome
        /\ req[t].route = "media" => result'[t] # "action_cancelled"
     \/ /\ pc[t] = "executing" /\ started' = started
        /\ pc'[t] = "replied" /\ result'[t] = "request_timeout" /\ ~Reading(req[t])
     \/ /\ pc[t] = "finish" /\ started' = started
        /\ pc'[t] = "replied" /\ result'[t] = result[t]

\* What a step of the daemon does to the handlers.
LEMMA DaemonMoves ==
  ASSUME DaemonInd, Daemon
  PROVE  Aside \/ \E t \in Conns : Moves(t)
<1>t. /\ pc \in [Task -> Place] /\ result \in [Task -> Result] /\ Conns \subseteq Task
      /\ \A t \in Conns : pc[t] # "idle" => req[t] \in Requests
      /\ \A t \in Tests : /\ pc[t] # "idle" => req[t] \notin Requests
                          /\ pc[t] \notin {"timed", "admitted"}
      /\ started \in [Requests -> Nat] /\ Task = Conns \cup Tests /\ Conns \cap Tests = {}
  BY SameCommands DEF DaemonInd, TypeOK
<1>1. ASSUME NEW t \in Task, Admit(t) PROVE Aside \/ \E u \in Conns : Moves(u)
  <2>1. t \in Conns /\ req' = req /\ started' = started /\ pc[t] = "timed"
    BY <1>1, <1>t DEF Admit
  <2>2. /\ \A u \in Conns : u # t => pc'[u] = pc[u] /\ result'[u] = result[u]
        /\ \/ pc'[t] = "replied" /\ result'[t] \notin {"ok", "request_timeout"}
           \/ pc'[t] = "admitted"
    BY <1>1, <1>t, <2>1, Verdicts DEF Admit, TryRead, Reply
  <2> QED BY <2>1, <2>2 DEF Moves
<1>2. ASSUME NEW t \in Task, Reserve(t) PROVE Aside \/ \E u \in Conns : Moves(u)
  <2>1. t \in Conns /\ req' = req /\ started' = started /\ pc[t] = "admitted"
    BY <1>2, <1>t DEF Reserve
  <2>2. /\ \A u \in Conns : u # t => pc'[u] = pc[u] /\ result'[u] = result[u]
        /\ \/ pc'[t] = "replied" /\ result'[t] \notin {"ok", "request_timeout"}
           \/ pc'[t] = "reserved"
    BY <1>2, <1>t, <2>1 DEF Reserve, Reply
  <2> QED BY <2>1, <2>2 DEF Moves
<1>3. ASSUME NEW t \in Task, Execute(t) PROVE Aside \/ \E u \in Conns : Moves(u)
  <2>1. /\ req' = req /\ pc[t] = "reserved"
        /\ \A u \in Task : u # t => pc'[u] = pc[u] /\ result'[u] = result[u]
        /\ \/ Count(t) /\ (pc'[t] = "executing" \/ (pc'[t] = "finish" /\ result'[t] = "ok"))
           \/ started' = started /\ pc'[t] = "finish" /\ result'[t] \in {"busy", "server_error"}
    <3>1. req' = req /\ pc[t] = "reserved"
      BY <1>3 DEF Execute
    <3>2. ASSUME NEW v \in {"ok", "busy", "server_error"}, Decided(t, v)
          PROVE  /\ \A u \in Task : u # t => pc'[u] = pc[u] /\ result'[u] = result[u]
                 /\ pc'[t] = "finish" /\ result'[t] = v
      BY <1>t, <3>2 DEF Decided
    <3> DEFINE Rest == \A u \in Task : u # t => pc'[u] = pc[u] /\ result'[u] = result[u]
               Went == \/ Count(t) /\ (pc'[t] = "executing" \/ (pc'[t] = "finish" /\ result'[t] = "ok"))
                       \/ started' = started /\ pc'[t] = "finish" /\ result'[t] \in {"busy", "server_error"}
    <3>3. ASSUME pc' = [pc EXCEPT ![t] = "executing"], Count(t), UNCHANGED result PROVE Rest /\ Went
      <4>1. pc'[t] = "executing" /\ Rest
        BY <1>t, <3>3
      <4>2. Went
        BY <3>3, <4>1
      <4> HIDE DEF Rest, Went
      <4> QED BY <4>1, <4>2
    <3>4. ASSUME Decided(t, "ok"), Count(t) PROVE Rest /\ Went
      BY <3>2, <3>4
    <3>5. ASSUME Decided(t, "busy") \/ Decided(t, "server_error"), UNCHANGED started PROVE Rest /\ Went
      BY <3>2, <3>5
    <3>6. Rest /\ Went
      <4> HIDE DEF Rest, Went
      <4> QED BY <1>3, <3>3, <3>4, <3>5 DEF Execute
    <3> QED BY <3>1, <3>6
  <2>2. CASE t \in Conns
    BY <1>t, <2>1, <2>2 DEF Moves
  <2>3. CASE t \in Tests
    <3>1. req[t] \notin Requests
      BY <1>t, <2>1, <2>3
    <3>2. started' = started
      BY <1>t, <2>1, <3>1 DEF Count
    <3> QED BY <1>t, <2>1, <2>3, <3>2 DEF Aside
  <2> QED BY <1>t, <2>2, <2>3
<1>4. ASSUME NEW t \in Task, Finish(t) PROVE Aside \/ \E u \in Conns : Moves(u)
  <2>1. /\ req' = req /\ pc[t] = "finish" /\ started' = started /\ pc'[t] = "replied" /\ result'[t] = result[t]
        /\ \A u \in Task : u # t => pc'[u] = pc[u] /\ result'[u] = result[u]
    BY <1>4, <1>t DEF Finish, Reply
  <2>2. CASE t \in Conns
    BY <1>t, <2>1, <2>2 DEF Moves
  <2>3. CASE t \in Tests
    BY <1>t, <2>1, <2>3 DEF Aside
  <2> QED BY <1>t, <2>2, <2>3
<1>5. ASSUME NEW t \in Task, ElevatedTimeout(t) PROVE Aside \/ \E u \in Conns : Moves(u)
  <2>1. /\ req' = req /\ pc[t] = "executing" /\ started' = started /\ pc'[t] = "finish"
        /\ result'[t] = "server_error"
        /\ \A u \in Task : u # t => pc'[u] = pc[u] /\ result'[u] = result[u]
    BY <1>5, <1>t DEF ElevatedTimeout, Decided
  <2>2. CASE t \in Conns
    BY <1>t, <2>1, <2>2 DEF Moves, Outcome
  <2>3. CASE t \in Tests
    BY <1>t, <2>1, <2>3 DEF Aside
  <2> QED BY <1>t, <2>2, <2>3
<1>6. ASSUME NEW t \in Conns, EspGivesUpFirst(t), HttpTimeout(t) PROVE Aside \/ \E u \in Conns : Moves(u)
  <2>1. /\ req' = req /\ pc[t] = "executing" /\ started' = started /\ pc'[t] = "replied"
        /\ result'[t] = "request_timeout" /\ ~Reading(req[t])
        /\ \A u \in Task : u # t => pc'[u] = pc[u] /\ result'[u] = result[u]
    BY <1>6, <1>t DEF HttpTimeout, EspGivesUpFirst, Reply
  <2> QED BY <1>t, <2>1 DEF Moves
<1>7. ASSUME NEW j \in jobs, NEW v \in Outcome, JobEnds(j, v) PROVE Aside \/ \E u \in Conns : Moves(u)
  <2>0. req' = req /\ started' = started /\ (v = "action_cancelled" => j.kind = "elevated")
    BY <1>7 DEF JobEnds
  <2>1. CASE j.owner \in Task
    <3>1. /\ pc[j.owner] = "executing" /\ pc'[j.owner] = "finish" /\ result'[j.owner] = v
          /\ \A u \in Task : u # j.owner => pc'[u] = pc[u] /\ result'[u] = result[u]
      BY <1>7, <1>t, <2>1 DEF JobEnds, Decided, DaemonInd, OwnersWait
    <3>2. req[j.owner].route = "media" => j.kind = "media"
      BY <2>1, <3>1 DEF DaemonInd, OwnerKinds, DispatchMatchesConfig, Readers, Holding, KindOf
    <3>3. req[j.owner].route = "media" => v # "action_cancelled"
      BY <2>0, <3>2
    <3>4. CASE j.owner \in Conns
      BY <1>t, <2>0, <3>1, <3>3, <3>4 DEF Moves
    <3>5. CASE j.owner \in Tests
      BY <1>t, <2>0, <3>1, <3>5 DEF Aside
    <3> QED BY <1>t, <2>1, <3>4, <3>5
  <2>2. CASE j.owner \notin Task
    BY <1>7, <2>0, <2>2 DEF JobEnds, Aside
  <2> QED BY <2>1, <2>2
<1>8. CASE ReplaceInstall \/ ReplaceCancelled \/ \E c \in Configs : ReplaceBegin(c)
  BY <1>8 DEF ReplaceInstall, ReplaceCancelled, ReplaceBegin, taskVars, Aside
<1> QED
  BY <1>1, <1>2, <1>3, <1>4, <1>5, <1>6, <1>7, <1>8 DEF Daemon

-----------------------------------------------------------------------------
(* Types of the ESP and the link *)

\* The types that LinkTypeOK adds to those of the daemon.
EspTypes == MediaTypeOK /\ link \subseteq Requests /\ answer \in Result \cup {NoAnswer}

\* What the worker reports is a fate.
LEMMA Reports ==
  /\ \A r, v : Classify(r, v) \in {"executed", "rejected", "unknown"}
  /\ \A r : Discarded(r) \in {"rejected", "unknown"}
  /\ {"executed", "rejected", "unknown", "lost"} \subseteq Fate
BY DEF Classify, Discarded, Fate, Final

\* A step that leaves the worker alone keeps its types.
LEMMA EspTypesKept ==
  ASSUME EspTypes, UNCHANGED <<waiting, sending, step>>, answer' \in Result \cup {NoAnswer},
         ready' \in BOOLEAN, ready => ready', wifi' \in BOOLEAN, offset' \in Offsets \cup {NotSet},
         age' \in [Intents -> 0 .. CommandLifetime], fate' \in [Intents -> Fate],
         link' \subseteq Requests
  PROVE  EspTypes'
BY Zenon DEF EspTypes, MediaTypeOK

\* The worker reports a fate for its intent.
LEMMA DoneTypes ==
  ASSUME EspTypes, NEW v \in Fate, Done(v), sending \in Intents, UNCHANGED <<ready, wifi, offset, age, waiting, link>>
  PROVE  EspTypes'
<1>1. sending' = NoIntent /\ step' = "idle" /\ answer' = NoAnswer
  BY DEF Done
<1>2. fate' \in [Intents -> Fate]
  BY DEF Done, EspTypes, MediaTypeOK
<1> QED BY <1>1, <1>2, Zenon DEF EspTypes, MediaTypeOK

\* Every step keeps these types.
LEMMA EspTypesStep ==
  ASSUME DaemonInd, EspTypes, [LinkNext]_linkVars
  PROVE  EspTypes'
<1>t. /\ ready \in BOOLEAN /\ wifi \in BOOLEAN /\ offset \in Offsets \cup {NotSet}
      /\ age \in [Intents -> 0 .. CommandLifetime] /\ fate \in [Intents -> Fate]
      /\ waiting \in Intents \cup {NoIntent} /\ sending \in Intents \cup {NoIntent}
      /\ step \in {"idle", "checked", "posted"} /\ ((sending = NoIntent) <=> (step = "idle"))
      /\ (~ready => waiting = NoIntent /\ sending = NoIntent)
      /\ link \subseteq Requests /\ answer \in Result \cup {NoAnswer}
  BY DEF EspTypes, MediaTypeOK
<1>c. CommandLifetime \in Nat /\ 0 \in 0 .. CommandLifetime
  BY MediaAssumption
<1>1. ASSUME NEW r \in Intents, Recognize(r, now) \/ RecognizeUndated(r), UNCHANGED link PROVE EspTypes'
  <2>1. /\ UNCHANGED <<ready, wifi, offset, waiting, sending, step, answer>>
        /\ fate' \in [Intents -> Fate]
    BY <1>1, <1>t DEF Recognize, RecognizeUndated, Fate
  <2>2. age' \in [Intents -> 0 .. CommandLifetime]
    BY <1>1, <1>c, <1>t DEF Recognize, RecognizeUndated
  <2> QED BY <1>1, <1>t, <2>1, <2>2, EspTypesKept
<1>2. ASSUME NEW r \in Intents, Submit(r, now), UNCHANGED link PROVE EspTypes'
  <2>0. UNCHANGED <<ready, wifi, offset, age, sending, step, answer>>
    BY <1>2 DEF Submit
  <2>1. fate' \in [Intents -> Fate]
    BY <1>2, <1>t DEF Submit, Fate, Final
  <2>2. waiting' = waiting \/ (waiting' = r /\ ready)
    BY <1>2 DEF Submit, Sendable
  <2> QED BY <1>2, <1>t, <2>0, <2>1, <2>2, Zenon DEF EspTypes, MediaTypeOK
<1>2d. ASSUME NEW r \in Intents, Drop(r), UNCHANGED link PROVE EspTypes'
  <2>1. UNCHANGED <<ready, wifi, offset, age, waiting, sending, step, answer>>
    BY <1>2d DEF Drop
  <2>2. fate' \in [Intents -> Fate]
    BY <1>2d, <1>t DEF Drop, Fate
  <2> QED BY <1>2d, <1>t, <2>1, <2>2, EspTypesKept
<1>3. CASE (ServiceStart \/ WifiChanges \/ ClockSet) /\ UNCHANGED link
  <2>1. UNCHANGED <<age, fate, waiting, sending, step, answer>> /\ offset' \in Offsets \cup {offset}
    BY <1>3 DEF ServiceStart, WifiChanges, ClockSet
  <2>2. ready' \in BOOLEAN /\ (ready => ready')
    BY <1>3, <1>t DEF ServiceStart, WifiChanges, ClockSet
  <2>3. wifi' \in BOOLEAN
    BY <1>3, <1>t DEF ServiceStart, WifiChanges, ClockSet
  <2> QED BY <1>3, <1>t, <2>1, <2>2, <2>3, EspTypesKept
<1>4. CASE Restart /\ UNCHANGED link
  <2>1. fate' \in [Intents -> Fate]
    BY <1>4, <1>t DEF Restart, Fate, Final
  <2>2. /\ ready' = FALSE /\ wifi' = FALSE /\ offset' \in {NotSet, offset} /\ age' = age
        /\ waiting' = NoIntent /\ sending' = NoIntent /\ step' = "idle" /\ answer' = NoAnswer
    BY <1>4 DEF Restart
  <2> QED BY <1>4, <1>t, <2>1, <2>2, Zenon DEF EspTypes, MediaTypeOK
<1>5. CASE Take(now) /\ UNCHANGED link
  <2>1. UNCHANGED <<ready, wifi, offset, age, answer>> /\ waiting \in Intents /\ waiting' = NoIntent
        /\ ready
    BY <1>5, <1>t DEF Take
  <2>2. fate' \in [Intents -> Fate]
    BY <1>5, <1>t, <2>1, Reports DEF Take, Fate, Final
  <2>3. (sending' = waiting /\ step' = "checked") \/ UNCHANGED <<sending, step>>
    BY <1>5 DEF Take
  <2>4. waiting # NoIntent
    BY <1>5 DEF Take
  <2> QED BY <1>5, <1>t, <2>1, <2>2, <2>3, <2>4, Zenon DEF EspTypes, MediaTypeOK
<1>6. CASE (GiveUp(now) \/ ConnectFailed(now) \/ ReadAnswer \/ ReadFailed) /\ UNCHANGED link
  <2>1. step # "idle" /\ UNCHANGED <<ready, wifi, offset, age, waiting>>
    BY <1>6 DEF GiveUp, ConnectFailed, ReadAnswer, ReadFailed
  <2>2. \E v \in Fate : Done(v)
    BY <1>6, Reports DEF GiveUp, ConnectFailed, ReadAnswer, ReadFailed
  <2>3. sending \in Intents
    BY <1>t, <2>1
  <2> QED BY <1>6, <2>1, <2>2, <2>3, DoneTypes
<1>7. CASE Post(now) /\ link' = link \cup {sending}
  <2>1. step = "checked" /\ step' = "posted"
        /\ UNCHANGED <<ready, wifi, offset, age, fate, waiting, sending, answer>>
    BY <1>7 DEF Post
  <2>2. sending \in Requests /\ sending # NoIntent
    BY <1>t, <2>1, SameCommands
  <2> QED BY <1>7, <1>t, <2>1, <2>2, Zenon DEF EspTypes, MediaTypeOK
<1>8. ASSUME NEW t \in Conns, Respond(t) PROVE EspTypes'
  <2>1. result[t] \in Result
    BY SameCommands DEF DaemonInd, TypeOK
  <2>2. answer' \in Result \cup {NoAnswer}
    BY <1>8, <1>t, <2>1 DEF Respond
  <2> QED BY <1>8, <1>t, <2>2, EspTypesKept DEF Respond
<1>9. ASSUME NEW r \in Requests, UNCHANGED espVars, link' = link \ {r} PROVE EspTypes'
  BY <1>9, <1>t, EspTypesKept DEF espVars
<1>10. CASE UNCHANGED <<espVars, link>>
  BY <1>10, <1>t, EspTypesKept DEF espVars
<1>11. CASE Time
  <2>1. age' \in [Intents -> 0 .. CommandLifetime]
    BY <1>11, <1>c, <1>t DEF Time, Aged
  <2> QED BY <1>11, <1>t, <2>1, EspTypesKept DEF Time
<1>12. CASE Esp
  BY <1>1, <1>2, <1>2d, <1>3, <1>4, <1>12 DEF Esp
<1>13. CASE EspWorker
  BY <1>5, <1>6, <1>7, <1>13 DEF EspWorker
<1> QED
  BY <1>8, <1>9, <1>10, <1>11, <1>12, <1>13 DEF LinkNext, Lose, Deliver, Daemon, linkVars

-----------------------------------------------------------------------------
(* The copy of a request *)

\* What a command has to do with the daemon and the LED.
LinkInd == EspTypes /\ EspInd /\ OneCopy /\ ResultsTrue /\ AnswerTrue /\ ReportTrue

\* A step of the ESP leaves the handlers alone.
LEMMA HandlersKept ==
  ASSUME UNCHANGED vars
  PROVE  UNCHANGED <<pc, req, result, started>>
BY DEF vars, taskVars

\* Nothing of this changes.
LEMMA LinkQuiet ==
  ASSUME LinkInd, EspTypes', UNCHANGED <<pc, req, result, started, link, fate, waiting, sending, step, answer>>
  PROVE  LinkInd'
<1>1. EspInd'
  BY DEF LinkInd, EspInd, Unsent
<1>2. OneCopy'
  BY DEF LinkInd, OneCopy, SpokenRunsOnce
<1>3. ResultsTrue'
  BY DEF LinkInd, ResultsTrue, Reading
<1>4. AnswerTrue'
  BY DEF LinkInd, AnswerTrue
<1>5. ReportTrue'
  BY DEF LinkInd, ReportTrue, WhiteMeansRun, RejectedNeverRuns
<1> QED BY <1>1, <1>2, <1>3, <1>4, <1>5 DEF LinkInd

\* A command that was not sent has a new fate; the worker goes on.
LEMMA LinkSpoken ==
  ASSUME LinkInd, EspTypes', UNCHANGED <<pc, req, result, started, link, sending, step, answer>>,
         NEW r \in Intents, fate[r] \in Early, NEW f \in Early \cup {"rejected", "dropped"},
         fate' = [fate EXCEPT ![r] = f],
         \/ waiting' = waiting /\ waiting # r
         \/ waiting' = r /\ f = "queued"
  PROVE  LinkInd'
<1>t. fate \in [Intents -> Fate] /\ waiting \in Intents \cup {NoIntent} /\ sending \in Intents \cup {NoIntent}
      /\ NoIntent \notin Intents
  BY SameCommands DEF LinkInd, EspTypes, MediaTypeOK
<1>0. fate'[r] = f /\ \A s \in Intents : s # r => fate'[s] = fate[s]
  BY <1>t
<1>1. EspInd'
  <2>1. sending # r
    BY <1>t DEF LinkInd, EspInd, Early
  <2>2. Unsent(r)
    BY DEF LinkInd, EspInd
  <2>3. waiting' # NoIntent => fate'[waiting'] = "queued"
    BY <1>0, <1>t DEF LinkInd, EspInd
  <2>4. sending' # NoIntent => fate'[sending'] = "active"
    BY <1>0, <1>t, <2>1 DEF LinkInd, EspInd
  <2>5. \A s \in Intents : fate'[s] \in Early \/ (step' = "checked" /\ sending' = s) => Unsent(s)
    BY <1>0, <2>2 DEF LinkInd, EspInd
  <2> QED BY <2>3, <2>4, <2>5 DEF EspInd, Unsent
<1>2. OneCopy' /\ AnswerTrue' /\ ResultsTrue'
  BY DEF LinkInd, OneCopy, SpokenRunsOnce, AnswerTrue, ResultsTrue, Reading
<1>3. ReportTrue'
  <2>1. Unsent(r)
    BY DEF LinkInd, EspInd
  <2>2. WhiteMeansRun'
    BY <1>0 DEF LinkInd, ReportTrue, WhiteMeansRun, Early
  <2>3. RejectedNeverRuns'
    BY <1>0, <2>1 DEF LinkInd, ReportTrue, RejectedNeverRuns, Unsent
  <2> QED BY <2>2, <2>3 DEF ReportTrue
<1> QED BY <1>1, <1>2, <1>3 DEF LinkInd

\* The worker reports its intent: as executed if it ran, as rejected if it
\* cannot run any more.
LEMMA LinkDone ==
  ASSUME LinkInd, EspTypes', UNCHANGED <<pc, req, result, started, link, waiting>>,
         NEW v \in {"executed", "rejected", "unknown"}, Done(v), sending \in Intents,
         v = "executed" => started[sending] > 0,
         v = "rejected" /\ sending.route = "media" => Unsent(sending)
  PROVE  LinkInd'
<1>t. fate \in [Intents -> Fate] /\ waiting \in Intents \cup {NoIntent} /\ NoIntent \notin Intents
  BY SameCommands DEF LinkInd, EspTypes, MediaTypeOK
<1>0. /\ fate'[sending] = v /\ \A s \in Intents : s # sending => fate'[s] = fate[s]
      /\ sending' = NoIntent /\ step' = "idle" /\ answer' = NoAnswer
  BY <1>t DEF Done
<1>1. EspInd'
  <2>1. waiting # sending \/ waiting = NoIntent
    BY <1>t DEF LinkInd, EspInd
  <2>2. waiting' # NoIntent => fate'[waiting'] = "queued"
    BY <1>0, <1>t, <2>1 DEF LinkInd, EspInd
  <2>3. \A s \in Intents : fate'[s] \in Early \/ (step' = "checked" /\ sending' = s) => Unsent(s)
    BY <1>0, <1>t DEF LinkInd, EspInd, Early
  <2> QED BY <1>0, <2>2, <2>3 DEF EspInd, Unsent
<1>2. OneCopy' /\ AnswerTrue' /\ ResultsTrue'
  BY <1>0 DEF LinkInd, OneCopy, SpokenRunsOnce, AnswerTrue, ResultsTrue, Reading
<1>3. WhiteMeansRun' /\ RejectedNeverRuns'
  BY <1>0 DEF LinkInd, ReportTrue, WhiteMeansRun, RejectedNeverRuns, Unsent
<1> QED BY <1>1, <1>2, <1>3 DEF LinkInd, ReportTrue

\* The ESP beside its worker.
LEMMA EspStep ==
  ASSUME LinkInd, EspTypes', Esp
  PROVE  LinkInd'
<1>0. UNCHANGED <<pc, req, result, started, link>>
  BY HandlersKept, Zenon DEF Esp
<1>t. /\ fate \in [Intents -> Fate] /\ waiting \in Intents \cup {NoIntent} /\ NoIntent \notin Intents
      /\ \A r \in Intents : waiting = r => fate[r] = "queued"
  BY SameCommands DEF LinkInd, EspTypes, MediaTypeOK, EspInd
<1>1. ASSUME NEW r \in Intents, Recognize(r, now) \/ RecognizeUndated(r) PROVE LinkInd'
  <2>1. fate[r] = "unspoken" /\ UNCHANGED <<waiting, sending, step, answer>>
        /\ \E f \in {"spoken", "undated"} : fate' = [fate EXCEPT ![r] = f]
    BY <1>1 DEF Recognize, RecognizeUndated
  <2>2. waiting # r
    BY <1>t, <2>1
  <2> QED BY <1>0, <2>1, <2>2, LinkSpoken DEF Early
<1>2. ASSUME NEW r \in Intents, Submit(r, now) PROVE LinkInd'
  <2>1. /\ fate[r] \in {"spoken", "undated"} /\ UNCHANGED <<sending, step, answer>>
        /\ \/ waiting' = r /\ fate' = [fate EXCEPT ![r] = "queued"]
           \/ waiting' = waiting /\ fate' = [fate EXCEPT ![r] = "rejected"]
    BY <1>2 DEF Submit
  <2>2. waiting # r
    BY <1>t, <2>1
  <2> QED BY <1>0, <2>1, <2>2, LinkSpoken DEF Early
<1>2d. ASSUME NEW r \in Intents, Drop(r) PROVE LinkInd'
  <2>1. /\ fate[r] \in {"spoken", "undated"} /\ UNCHANGED <<waiting, sending, step, answer>>
        /\ fate' = [fate EXCEPT ![r] = "dropped"]
    BY <1>2d DEF Drop
  <2>2. waiting # r
    BY <1>t, <2>1
  <2> QED BY <1>0, <2>1, <2>2, LinkSpoken DEF Early
<1>3. CASE ServiceStart \/ WifiChanges \/ ClockSet
  <2>1. UNCHANGED <<fate, waiting, sending, step, answer>>
    BY <1>3 DEF ServiceStart, WifiChanges, ClockSet
  <2> QED BY <1>0, <2>1, LinkQuiet
<1>4. CASE Restart
  <2>1. /\ waiting' = NoIntent /\ sending' = NoIntent /\ step' = "idle" /\ answer' = NoAnswer
        /\ \A r \in Intents : fate'[r] = fate[r] \/ fate'[r] = "lost"
        /\ \A r \in Intents : fate'[r] \in Final \cup {"unspoken", "dropped"}
    BY <1>4 DEF Restart, Final
  <2>2. EspInd'
    BY <1>0, <2>1 DEF LinkInd, EspInd, Unsent, Early, Final
  <2>3. OneCopy' /\ AnswerTrue' /\ ResultsTrue'
    BY <1>0, <2>1 DEF LinkInd, OneCopy, SpokenRunsOnce, AnswerTrue, ResultsTrue, Reading
  <2>4. WhiteMeansRun' /\ RejectedNeverRuns'
    BY <1>0, <2>1 DEF LinkInd, ReportTrue, WhiteMeansRun, RejectedNeverRuns
  <2> QED BY <2>2, <2>3, <2>4 DEF LinkInd, ReportTrue
<1> QED BY <1>1, <1>2, <1>2d, <1>3, <1>4 DEF Esp

\* The media worker.
LEMMA WorkerStep ==
  ASSUME LinkInd, EspTypes', EspWorker
  PROVE  LinkInd'
<1>0. UNCHANGED <<pc, req, result, started>>
  BY HandlersKept, Zenon DEF EspWorker
<1>t. /\ fate \in [Intents -> Fate] /\ waiting \in Intents \cup {NoIntent}
      /\ sending \in Intents \cup {NoIntent} /\ ((sending = NoIntent) <=> (step = "idle"))
      /\ NoIntent \notin Intents /\ Intents = Requests
  BY SameCommands DEF LinkInd, EspTypes, MediaTypeOK
<1>1. CASE Take(now) /\ UNCHANGED link
  <2>1. waiting \in Intents /\ waiting' = NoIntent /\ fate[waiting] = "queued" /\ sending = NoIntent
        /\ UNCHANGED answer
    BY <1>1, <1>t DEF Take, LinkInd, EspInd
  <2>2. Unsent(waiting)
    BY <2>1 DEF LinkInd, EspInd, Early
  <2>3. \/ /\ sending' = waiting /\ step' = "checked" /\ fate' = [fate EXCEPT ![waiting] = "active"]
        \/ /\ \E f \in {"rejected", "unknown"} : fate' = [fate EXCEPT ![waiting] = f]
           /\ UNCHANGED <<sending, step>>
    BY <1>1, Reports DEF Take
  <2>4. /\ \A s \in Intents : s # waiting => fate'[s] = fate[s]
        /\ fate'[waiting] \in {"active", "rejected", "unknown"}
        /\ (sending' = waiting /\ step' = "checked" /\ fate'[waiting] = "active") \/ UNCHANGED <<sending, step>>
    BY <1>t, <2>1, <2>3
  <2>5. EspInd'
    <3>1. sending' # NoIntent => fate'[sending'] = "active"
      BY <2>1, <2>4
    <3>2. \A s \in Intents : fate'[s] \in Early \/ (step' = "checked" /\ sending' = s) => Unsent(s)
      BY <1>t, <2>1, <2>2, <2>4 DEF LinkInd, EspInd, Early
    <3> QED BY <1>0, <1>1, <2>1, <3>1, <3>2 DEF EspInd, Unsent
  <2>6. OneCopy'
    BY <1>0, <1>1 DEF LinkInd, OneCopy, SpokenRunsOnce
  <2>7. AnswerTrue'
    BY <1>t, <2>1 DEF LinkInd, AnswerTrue
  <2>8. ResultsTrue'
    BY <1>0, <1>t, <2>1, <2>4 DEF LinkInd, ResultsTrue, Reading
  <2>9. WhiteMeansRun' /\ RejectedNeverRuns'
    BY <1>0, <1>1, <2>2, <2>4 DEF LinkInd, ReportTrue, WhiteMeansRun, RejectedNeverRuns, Unsent
  <2> QED BY <2>5, <2>6, <2>7, <2>8, <2>9 DEF LinkInd, ReportTrue
<1>2. CASE (GiveUp(now) \/ ConnectFailed(now)) /\ UNCHANGED link
  <2>1. step = "checked" /\ UNCHANGED waiting
        /\ \E v \in {"rejected", "unknown"} : Done(v)
    BY <1>2, Reports DEF GiveUp, ConnectFailed
  <2>2. sending \in Intents /\ Unsent(sending)
    BY <1>t, <2>1 DEF LinkInd, EspInd
  <2> QED BY <1>0, <1>2, <2>1, <2>2, LinkDone
<1>3. CASE ReadFailed /\ UNCHANGED link
  <2>1. step = "posted" /\ UNCHANGED waiting /\ Done("unknown")
    BY <1>3 DEF ReadFailed
  <2>2. sending \in Intents
    BY <1>t, <2>1
  <2> QED BY <1>0, <1>3, <2>1, <2>2, LinkDone
<1>4. CASE ReadAnswer /\ UNCHANGED link
  <2> DEFINE v == Classify(sending, answer)
  <2>1. step = "posted" /\ answer # NoAnswer /\ UNCHANGED waiting /\ Done(v)
    BY <1>4 DEF ReadAnswer
  <2>2. sending \in Intents /\ v \in {"executed", "rejected", "unknown"}
    BY <1>t, <2>1, Reports
  <2>3. v = "executed" => answer = "ok"
    BY DEF Classify
  <2>4. v = "rejected" => sending.route = "media" /\ answer \in Refusals
    BY DEF Classify
  <2> HIDE DEF v
  <2>5. v = "executed" => started[sending] > 0
    BY <2>1, <2>3 DEF LinkInd, AnswerTrue
  <2>6. v = "rejected" => Unsent(sending)
    BY <2>1, <2>4 DEF LinkInd, AnswerTrue, Unsent
  <2> QED BY <1>0, <1>4, <2>1, <2>2, <2>5, <2>6, LinkDone
<1>5. CASE Post(now) /\ link' = link \cup {sending}
  <2>1. step = "checked" /\ step' = "posted" /\ UNCHANGED <<fate, waiting, sending, answer>>
    BY <1>5 DEF Post
  <2>2. sending \in Intents /\ Unsent(sending) /\ fate[sending] = "active"
    BY <1>t, <2>1 DEF LinkInd, EspInd
  <2>3. EspInd'
    BY <1>0, <1>5, <1>t, <2>1, <2>2 DEF LinkInd, EspInd, Unsent, Early
  <2>4. OneCopy'
    BY <1>0, <1>5, <2>2 DEF LinkInd, OneCopy, SpokenRunsOnce, Unsent
  <2>5. AnswerTrue'
    BY <2>1 DEF LinkInd, AnswerTrue
  <2>6. ResultsTrue'
    BY <1>0, <2>1, <2>2 DEF LinkInd, ResultsTrue, Reading, Unsent
  <2>7. WhiteMeansRun' /\ RejectedNeverRuns'
    BY <1>0, <1>5, <2>1, <2>2 DEF LinkInd, ReportTrue, WhiteMeansRun, RejectedNeverRuns
  <2> QED BY <2>3, <2>4, <2>5, <2>6, <2>7 DEF LinkInd, ReportTrue
<1> QED BY <1>1, <1>2, <1>3, <1>4, <1>5 DEF EspWorker

\* The handler of connection t moves by itself.
LEMMA MovesStep ==
  ASSUME DaemonInd, DaemonInd', LinkInd, EspTypes', NEW t \in Conns, Moves(t), UNCHANGED <<espVars, link>>
  PROVE  LinkInd'
<1>0. UNCHANGED <<fate, waiting, sending, step, answer, link>> /\ \A u \in Conns : req'[u] = req[u]
  BY DEF espVars, Moves
<1>r. \A u \in Conns : u # t => pc'[u] = pc[u] /\ result'[u] = result[u]
  BY DEF Moves
<1>t. /\ started \in [Requests -> Nat] /\ pc[t] # "idle" /\ req[t] \in Requests
      /\ \A u \in Conns : pc[u] # "idle" => req[u] \in Requests
      /\ Intents = Requests
  BY SameCommands DEF DaemonInd, TypeOK, Moves
<1>s. /\ \A r \in Requests : r # req[t] => started'[r] = started[r]
      /\ \/ started' = started
         \/ pc[t] = "reserved" /\ started[req[t]] = 0 /\ started'[req[t]] = 1
  <2>1. CASE started' = started
    BY <2>1
  <2>2. CASE pc[t] = "reserved" /\ Count(t)
    <3>1. started[req[t]] = 0
      BY <2>2 DEF LinkInd, OneCopy
    <3> QED BY <1>t, <2>2, <3>1 DEF Count
  <2> QED BY <2>1, <2>2 DEF Moves
<1>u. \A u \in Conns : u # t /\ pc[u] # "idle" => started'[req[u]] = started[req[u]]
  BY <1>s, <1>t DEF LinkInd, OneCopy
<1>l. \A r \in Requests : (\A u \in Conns : req[u] # r) => started'[r] = started[r]
  BY <1>s, <1>t
<1>1. EspInd'
  BY <1>0, <1>l, <1>t DEF LinkInd, EspInd, Unsent
<1>2. OneCopy'
  <2>1. \A r \in link' : started'[r] = 0 /\ \A u \in Conns : req'[u] # r
    BY <1>0, <1>l DEF LinkInd, OneCopy, EspTypes
  <2>2. \A u, w \in Conns : req'[u] \in Requests /\ req'[u] = req'[w] => u = w
    BY <1>0 DEF LinkInd, OneCopy
  <2>3. \A u \in Conns : pc'[u] \in {"timed", "admitted", "reserved"} => started'[req'[u]] = 0
    <3>1. ASSUME NEW u \in Conns, u # t, pc'[u] \in {"timed", "admitted", "reserved"}
          PROVE  started'[req'[u]] = 0
      BY <1>0, <1>r, <1>u, <3>1 DEF LinkInd, OneCopy
    <3>2. pc'[t] \in {"timed", "admitted", "reserved"} => started' = started /\ pc[t] \in {"timed", "admitted"}
      BY DEF Moves
    <3> QED BY <1>0, <3>1, <3>2 DEF LinkInd, OneCopy
  <2>4. SpokenRunsOnce'
    BY <1>s, <1>t DEF LinkInd, OneCopy, SpokenRunsOnce
  <2> QED BY <2>1, <2>2, <2>3, <2>4 DEF OneCopy
<1>3. ResultsTrue'
  <2>0. step' = step /\ sending' = sending /\ \A r : Reading(r)' <=> Reading(r)
    BY <1>0 DEF Reading
  <2>1. ASSUME NEW u \in Conns, u # t
        PROVE  /\ pc'[u] = "executing" => started'[req'[u]] > 0
               /\ pc'[u] \in {"finish", "replied"} =>
                    /\ result'[u] = "ok" => started'[req'[u]] > 0
                    /\ req'[u].route = "media" /\ result'[u] \in Refusals \ {"request_timeout"}
                         => started'[req'[u]] = 0
                    /\ result'[u] = "request_timeout" => ~(step' = "posted" /\ sending' = req'[u])
    BY <1>0, <1>r, <1>u, <2>1 DEF LinkInd, ResultsTrue, Reading
  <2>2. /\ pc'[t] = "executing" => started'[req[t]] > 0
        /\ pc'[t] \in {"finish", "replied"} =>
             /\ result'[t] = "ok" => started'[req[t]] > 0
             /\ req[t].route = "media" /\ result'[t] \in Refusals \ {"request_timeout"}
                  => started'[req[t]] = 0
             /\ result'[t] = "request_timeout" => ~(step = "posted" /\ sending = req[t])
    <3>1. CASE /\ pc[t] \in {"timed", "admitted"} /\ started' = started
               /\ \/ pc'[t] = "replied" /\ result'[t] \notin {"ok", "request_timeout"}
                  \/ pc'[t] \in {"admitted", "reserved"}
      BY <3>1 DEF LinkInd, OneCopy
    <3>2. CASE /\ pc[t] = "reserved" /\ Count(t)
               /\ pc'[t] = "executing" \/ (pc'[t] = "finish" /\ result'[t] = "ok")
      <4>1. started'[req[t]] > 0
        <5>1. started[req[t]] \in Nat
          BY <1>t
        <5> QED BY <1>t, <3>2, <5>1 DEF Count
      <4>2. "ok" \notin Refusals
        BY DEF Refusals
      <4> QED BY <3>2, <4>1, <4>2
    <3>3. CASE /\ pc[t] = "reserved" /\ started' = started
               /\ pc'[t] = "finish" /\ result'[t] \in {"busy", "server_error"}
      BY <3>3 DEF LinkInd, OneCopy
    <3>4. CASE /\ pc[t] = "executing" /\ started' = started /\ pc'[t] = "finish"
               /\ result'[t] \in Outcome
               /\ req[t].route = "media" => result'[t] # "action_cancelled"
      <4>1. started'[req[t]] > 0
        BY <3>4 DEF LinkInd, ResultsTrue
      <4>2. req[t].route = "media" => result'[t] \notin Refusals
        BY <3>4 DEF Refusals, Outcome
      <4> QED BY <3>4, <4>1, <4>2 DEF Outcome
    <3>5. CASE /\ pc[t] = "executing" /\ started' = started
               /\ pc'[t] = "replied" /\ result'[t] = "request_timeout" /\ ~Reading(req[t])
      BY <3>5 DEF Reading
    <3>6. CASE /\ pc[t] = "finish" /\ started' = started
               /\ pc'[t] = "replied" /\ result'[t] = result[t]
      BY <3>6 DEF LinkInd, ResultsTrue, Reading
    <3> QED BY <3>1, <3>2, <3>3, <3>4, <3>5, <3>6 DEF Moves
  <2> QED BY <1>0, <2>1, <2>2 DEF ResultsTrue, Reading
<1>4. AnswerTrue'
  <2>1. answer # NoAnswer => sending \in Requests
    BY <1>t DEF LinkInd, AnswerTrue, EspTypes, MediaTypeOK
  <2> QED BY <1>0, <1>l, <2>1 DEF LinkInd, AnswerTrue
<1>5. WhiteMeansRun'
  BY <1>0, <1>s, <1>t DEF LinkInd, ReportTrue, WhiteMeansRun
<1>6. RejectedNeverRuns'
  <2>1. ASSUME NEW r \in Intents, fate[r] = "rejected", r.route = "media"
        PROVE  /\ started'[r] = 0 /\ r \notin link
               /\ \A u \in Conns : req[u] = r => pc'[u] \in {"idle", "replied"}
    <3>1. started[r] = 0 /\ r \notin link /\ \A u \in Conns : req[u] = r => pc[u] \in {"idle", "replied"}
      BY <2>1 DEF LinkInd, ReportTrue, RejectedNeverRuns
    <3>2. pc[t] \notin {"idle", "replied"}
      BY DEF Moves
    <3>3. req[t] # r
      BY <3>1, <3>2
    <3> QED BY <1>r, <1>s, <1>t, <3>1, <3>3
  <2> QED BY <1>0, <2>1 DEF RejectedNeverRuns
<1> QED BY <1>1, <1>2, <1>3, <1>4, <1>5, <1>6 DEF LinkInd, ReportTrue

\* A handler takes the request from its connection.
LEMMA DeliverStep ==
  ASSUME DaemonInd, LinkInd, EspTypes', NEW t \in Conns, NEW r \in Requests, Deliver(t, r)
  PROVE  LinkInd'
<1>0. /\ UNCHANGED <<fate, waiting, sending, step, answer, started>> /\ link' = link \ {r} /\ r \in link
      /\ Receive(t, r)
  BY DEF Deliver, Receive, espVars
<1>t. /\ Conns \subseteq Task /\ pc \in [Task -> Place] /\ result \in [Task -> Result] /\ DOMAIN req = Task
      /\ Intents = Requests /\ r.form \in Form
  BY SameCommands, DispatcherAssumption DEF DaemonInd, TypeOK, Request
<1>r. /\ \A u \in Conns : u # t => pc'[u] = pc[u] /\ result'[u] = result[u] /\ req'[u] = req[u]
      /\ pc[t] = "idle" /\ req'[t] = r
      /\ \/ pc'[t] = "timed"
         \/ pc'[t] = "replied" /\ result'[t] \in {"unauthorized", "bad_request"}
  <2>1. pc[t] = "idle" /\ req' = [req EXCEPT ![t] = r]
    BY <1>0 DEF Receive
  <2>2. \/ pc' = [pc EXCEPT ![t] = "timed"] /\ result' = result
        \/ /\ pc' = [pc EXCEPT ![t] = "replied"] /\ result' = [result EXCEPT ![t] = r.form]
           /\ r.form # "valid"
    BY <1>0 DEF Receive, Reply
  <2> QED BY <1>t, <2>1, <2>2 DEF Form
<1>c. started[r] = 0 /\ \A u \in Conns : req[u] # r
  BY <1>0 DEF LinkInd, OneCopy
<1>1. EspInd'
  BY <1>0, <1>r DEF LinkInd, EspInd, Unsent
<1>2. OneCopy'
  BY <1>0, <1>c, <1>r DEF LinkInd, OneCopy, SpokenRunsOnce
<1>3. ResultsTrue'
  BY <1>0, <1>c, <1>r DEF LinkInd, ResultsTrue, Reading
<1>4. AnswerTrue'
  BY <1>0, <1>r DEF LinkInd, AnswerTrue
<1>5. WhiteMeansRun' /\ RejectedNeverRuns'
  BY <1>0, <1>r DEF LinkInd, ReportTrue, WhiteMeansRun, RejectedNeverRuns
<1> QED BY <1>1, <1>2, <1>3, <1>4, <1>5 DEF LinkInd, ReportTrue

\* A handler writes its reply.
LEMMA RespondStep ==
  ASSUME DaemonInd, LinkInd, EspTypes', NEW t \in Conns, Respond(t)
  PROVE  LinkInd'
<1>0. /\ UNCHANGED <<fate, waiting, sending, step, link, started>> /\ Close(t)
      /\ answer' \in (IF Reading(req[t]) THEN {result[t], NoAnswer} ELSE {answer})
  BY DEF Respond, Close
<1>t. /\ Conns \subseteq Task /\ pc \in [Task -> Place] /\ result \in [Task -> Result] /\ DOMAIN req = Task
      /\ Intents = Requests /\ NoRequest \notin Requests /\ NoIntent \notin Requests
      /\ \A u \in Conns : pc[u] # "idle" => req[u] \in Requests
      /\ link \subseteq Requests /\ sending \in Requests \cup {NoIntent} /\ (sending = NoIntent <=> step = "idle")
  BY SameCommands DEF DaemonInd, TypeOK, LinkInd, EspTypes, MediaTypeOK
<1>r. /\ \A u \in Conns : u # t => pc'[u] = pc[u] /\ result'[u] = result[u] /\ req'[u] = req[u]
      /\ pc[t] = "replied" /\ pc'[t] = "idle" /\ req'[t] = NoRequest
  BY <1>0, <1>t DEF Close
<1>1. EspInd'
  BY <1>0, <1>r, <1>t DEF LinkInd, EspInd, Unsent
<1>2. OneCopy'
  BY <1>0, <1>r, <1>t DEF LinkInd, OneCopy, SpokenRunsOnce
<1>3. ResultsTrue'
  BY <1>0, <1>r DEF LinkInd, ResultsTrue, Reading
<1>4. AnswerTrue'
  <2>1. CASE answer' = answer
    <3>1. answer # NoAnswer => sending \in Requests
      BY <1>t DEF LinkInd, AnswerTrue
    <3> QED BY <1>0, <1>r, <1>t, <2>1, <3>1 DEF LinkInd, AnswerTrue
  <2>2. CASE answer' = NoAnswer
    BY <2>2 DEF AnswerTrue
  <2>3. CASE Reading(req[t]) /\ answer' = result[t]
    <3>1. step = "posted" /\ sending = req[t] /\ req[t] \in Requests
      BY <1>r, <1>t, <2>3 DEF Reading
    <3>2. sending \notin link /\ \A u \in Conns : req'[u] # sending
      BY <1>r, <1>t, <3>1 DEF LinkInd, OneCopy
    <3>3. /\ result[t] = "ok" => started[sending] > 0
          /\ sending.route = "media" /\ result[t] \in Refusals => started[sending] = 0
      BY <1>r, <2>3, <3>1 DEF LinkInd, ResultsTrue
    <3> QED BY <1>0, <2>3, <3>1, <3>2, <3>3 DEF AnswerTrue
  <2> QED BY <1>0, <2>1, <2>2, <2>3
<1>5. WhiteMeansRun' /\ RejectedNeverRuns'
  BY <1>0, <1>r, <1>t DEF LinkInd, ReportTrue, WhiteMeansRun, RejectedNeverRuns
<1> QED BY <1>1, <1>2, <1>3, <1>4, <1>5 DEF LinkInd, ReportTrue

\* A request is lost.
LEMMA LoseStep ==
  ASSUME LinkInd, EspTypes', NEW r \in Requests, Lose(r)
  PROVE  LinkInd'
<1>0. UNCHANGED <<pc, req, result, started, fate, waiting, sending, step, answer>> /\ link' \subseteq link
  BY HandlersKept DEF Lose, espVars
<1>1. EspInd' /\ OneCopy' /\ AnswerTrue'
  BY <1>0 DEF LinkInd, EspInd, Unsent, OneCopy, SpokenRunsOnce, AnswerTrue
<1>2. ResultsTrue'
  BY <1>0 DEF LinkInd, ResultsTrue, Reading
<1>3. WhiteMeansRun' /\ RejectedNeverRuns'
  BY <1>0 DEF LinkInd, ReportTrue, WhiteMeansRun, RejectedNeverRuns
<1> QED BY <1>1, <1>2, <1>3 DEF LinkInd, ReportTrue

\* A step that moves no handler that serves a connection.
LEMMA AsideStep ==
  ASSUME LinkInd, EspTypes', Aside, UNCHANGED <<fate, waiting, sending, step, answer, link>>
  PROVE  LinkInd'
<1>1. EspInd' /\ OneCopy' /\ AnswerTrue'
  BY DEF LinkInd, Aside, EspInd, Unsent, OneCopy, SpokenRunsOnce, AnswerTrue
<1>2. ResultsTrue'
  BY DEF LinkInd, Aside, ResultsTrue, Reading
<1>3. WhiteMeansRun' /\ RejectedNeverRuns'
  BY DEF LinkInd, Aside, ReportTrue, WhiteMeansRun, RejectedNeverRuns
<1> QED BY <1>1, <1>2, <1>3 DEF LinkInd, ReportTrue

-----------------------------------------------------------------------------
(* The theorems *)

\* Before the first command.
LEMMA LinkStart == LinkInit => DaemonInd /\ LinkInd
<1> SUFFICES ASSUME LinkInit PROVE DaemonInd /\ LinkInd
  OBVIOUS
<1>1. TypeOK /\ OwnersWait
  BY TypeInit DEF LinkInit
<1>2. DispatchMatchesConfig /\ OwnerKinds
  BY SameCommands DEF LinkInit, Init, ExecInit, DispatchMatchesConfig, Readers, Holding, OwnerKinds
<1>3. EspTypes
  <2>1. 0 \in 0 .. CommandLifetime
    BY MediaAssumption
  <2>2. /\ ready = FALSE /\ wifi = FALSE /\ offset = NotSet /\ waiting = NoIntent /\ sending = NoIntent
        /\ step = "idle" /\ answer = NoAnswer /\ link = {}
        /\ age \in [Intents -> 0 .. CommandLifetime] /\ fate \in [Intents -> Fate]
    BY <2>1 DEF LinkInit, MediaInit, Fate
  <2> QED BY <2>2, Zenon DEF EspTypes, MediaTypeOK
<1>4. EspInd /\ OneCopy /\ ResultsTrue /\ AnswerTrue /\ ReportTrue
  <2>1. /\ \A t \in Conns : pc[t] = "idle" /\ req[t] = NoRequest
        /\ \A r \in Requests : started[r] = 0 /\ fate[r] = "unspoken" /\ r # NoRequest
        /\ link = {} /\ waiting = NoIntent /\ sending = NoIntent /\ step = "idle" /\ answer = NoAnswer
        /\ Intents = Requests /\ NoRequest \notin Requests
    BY SameCommands DEF LinkInit, Init, MediaInit
  <2> QED BY <2>1 DEF EspInd, Unsent, OneCopy, SpokenRunsOnce, ResultsTrue, AnswerTrue, ReportTrue,
                      WhiteMeansRun, RejectedNeverRuns
<1> QED BY <1>1, <1>2, <1>3, <1>4 DEF DaemonInd, LinkInd

\* The parts are invariants.
LEMMA LinkAlways == LinkSpec => [](DaemonInd /\ LinkInd)
<1>1. DaemonInd /\ LinkInd /\ [LinkNext]_linkVars => (DaemonInd /\ LinkInd)'
  <2> SUFFICES ASSUME DaemonInd, LinkInd, [LinkNext]_linkVars PROVE DaemonInd' /\ LinkInd'
    OBVIOUS
  <2>1. DaemonInd'
    BY DaemonStep
  <2>2. EspTypes'
    BY EspTypesStep DEF LinkInd
  <2>3. CASE Daemon
    <3>1. UNCHANGED <<espVars, link>> /\ UNCHANGED <<fate, waiting, sending, step, answer, link>>
      BY <2>3 DEF Daemon, espVars
    <3> QED BY <2>1, <2>2, <2>3, <3>1, DaemonMoves, MovesStep, AsideStep
  <2>4. CASE Time
    <3>1. UNCHANGED <<pc, req, result, started, link, fate, waiting, sending, step, answer>>
      BY <2>4 DEF Time, Tick, taskVars
    <3> QED BY <2>1, <2>2, <3>1, LinkQuiet
  <2>5. CASE UNCHANGED linkVars
    <3>1. UNCHANGED <<pc, req, result, started, link, fate, waiting, sending, step, answer>>
      BY <2>5, HandlersKept DEF linkVars, espVars
    <3> QED BY <2>1, <2>2, <3>1, LinkQuiet
  <2> QED
    BY <2>1, <2>2, <2>3, <2>4, <2>5, EspStep, WorkerStep, LoseStep, DeliverStep, RespondStep DEF LinkNext
<1> QED BY <1>1, LinkStart, PTL DEF LinkSpec

\* A spoken command runs at most once, whatever the network does with its one
\* POST and whenever the ESP restarts.
THEOREM SpokenOnce == LinkSpec => []LinkInv
<1>1. DaemonInd /\ LinkInd => LinkInv
  BY DEF DaemonInd, LinkInd, EspTypes, OneCopy, LinkInv, LinkTypeOK
<1> QED BY <1>1, LinkAlways, PTL

\* A command shown as executed was started, and a media command shown as
\* rejected was not and never will be.
THEOREM LedTellsTheTruth == LinkSpec => []ReportTrue
<1>1. LinkInd => ReportTrue
  BY DEF LinkInd
<1> QED BY <1>1, LinkAlways, PTL

\* In front of the ESP the daemon is the dispatcher of the theorems above: the
\* composition restricts who may call it and when, and does nothing to it that
\* Dispatcher does not.  So all of them hold for spoken commands as well.
THEOREM DispatcherBehindLink == LinkSpec => Spec
<1>1. LinkInit => Init
  BY DEF LinkInit
<1> QED BY <1>1, LinkImplements, PTL DEF LinkSpec, Spec

=============================================================================
