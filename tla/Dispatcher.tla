---------------------------- MODULE Dispatcher -----------------------------
(***************************************************************************)
(* The daemon's request path: the HTTPS handlers media and custom_action   *)
(* (daemon/src/http.rs), the Dispatcher with its duplicate cache, its      *)
(* lifecycle lock and its configuration (daemon/src/application.rs), and   *)
(* the local test_action of the Settings window, all on a multi-threaded   *)
(* runtime (daemon/src/adapters/windows_app.rs: new_multi_thread).         *)
(*                                                                         *)
(* Each connection is a task.  Its handler reads the wall clock, then      *)
(* validates the request against that reading, takes the lifecycle lock    *)
(* with try_read, checks the configuration under it, reserves the request  *)
(* id under a mutex, and awaits the executor.  Only the last of these is   *)
(* an await point, so only there can the two-second HTTP timeout cancel    *)
(* the handler; but every two of them may be separated by other threads.   *)
(*                                                                         *)
(* A task holds the lifecycle read lock exactly while it is in Holding.    *)
(* The write lock of replace_config is tokio's fair RwLock: once a writer  *)
(* waits, try_read fails, and the writer enters when the readers are gone. *)
(* Diagnostics (a log of the last 128 results) are not modelled.           *)
(***************************************************************************)
EXTENDS AppConfig, Executor, Integers

CONSTANTS
  Conns,        \* connections the listener serves at a time (at most 8)
  Tests,        \* local test_action calls
  Requests,     \* requests that may arrive, each as often as the network likes
  Configs,      \* configurations replace_config may be called with
  NoRequest,    \* the task is serving nothing
  NoConfig,     \* no replace_config call is waiting
  Lifetime,     \* REQUEST_LIFETIME_MS
  MaxSkew,      \* MAX_FUTURE_SKEW_MS
  MaxIds,       \* MAX_REMEMBERED_IDS
  U64Max,       \* u64::MAX
  MaxNow,       \* bound of the model: the clock stops here
  MaxSetBacks   \* bound of the model: how often it is set back

Route == {"media", "custom", "test"}

\* What the checks before dispatch make of a request: authorized, its
\* content type and framing, and its JSON body.
Form == {"valid", "unauthorized", "bad_request"}

Request ==
  [ id: Nat, issued: Nat, expires: Nat, route: Route, form: Form,
    action: ActionIds, rev: Nat ]

\* A test_action call carries an action and nothing else.
LocalTest(a) ==
  [ id |-> 0, issued |-> 0, expires |-> 0, route |-> "test", form |-> "valid",
    action |-> a, rev |-> 0 ]

ASSUME DispatcherAssumption ==
  /\ Task = Conns \cup Tests
  /\ Conns \cap Tests = {}
  /\ Requests \subseteq { r \in Request : r.route # "test" }
  /\ \A r, s \in Requests : r.id = s.id => r = s  \* 128 random bits each
  /\ NoRequest \notin Request
  /\ NoConfig \notin Configs
  /\ \A c \in Configs : \A a \in DOMAIN c.actions : c.actions[a] \in Action
  /\ Lifetime \in Nat \ {0}
  /\ MaxSkew \in Nat /\ U64Max \in Nat /\ MaxNow \in Nat /\ MaxSetBacks \in Nat
  /\ MaxIds \in Nat \ {0}

VARIABLES
  now,      \* the wall clock, in milliseconds (SystemTime)
  latest,   \* history: the latest time it has shown
  setBacks, \* how often it has been set back
  pc,       \* where each task is
  req,      \* the request a task serves
  seen,     \* the clock reading its handler passed to the dispatcher
  kind,     \* executor kind of the action it resolved
  result,   \* outcome of the dispatch, then the reply
  cache,    \* DuplicateCache: reservations [id, expires]
  config,   \* Dispatcher.config
  pending,  \* the configuration replace_config waits to install
  started   \* history: how often each request reached an executor

taskVars == <<pc, req, seen, kind, result>>
clock == <<now, latest, setBacks>>
vars == <<clock, taskVars, cache, config, pending, started, permits, jobs>>

\* The read lock is held from try_read to the end of the dispatch call.
Holding == {"admitted", "reserved", "executing", "finish"}

Place == {"idle", "timed", "replied"} \cup Holding

Readers == { t \in Task : pc[t] \in Holding }

-----------------------------------------------------------------------------
(* Pure checks *)

\* validate_time: lifetime first, then expiry, then clock skew.
TimeVerdict(r, t) ==
  IF r.issued + Lifetime > U64Max \/ r.expires # r.issued + Lifetime
  THEN "invalid_time"
  ELSE IF t >= r.expires THEN "expired"
  ELSE IF r.issued > t + MaxSkew THEN "clock_skew"
  ELSE "ok"

\* Whether configuration c still maps the voice table the request was spoken
\* against to the action it names.
VoiceCurrent(c, r) ==
  /\ c.pub.revision # 0
  /\ c.pub.revision = r.rev
  /\ c.pub.actRev = c.actRev
  /\ \E v \in c.pub.commands : v.action = r.action

\* The lookups under the read lock in dispatch_custom and test_action; media
\* requests need none.
ActionVerdict(c, r) ==
  IF r.route = "media" THEN "ok"
  ELSE IF r.route = "custom" /\ ~VoiceCurrent(c, r) THEN "sync_required"
  ELSE IF r.action \notin DOMAIN c.actions THEN "unknown_action"
  ELSE IF ~c.actions[r.action].enabled THEN "disabled_action"
  ELSE "ok"

KindOf(c, r) == IF r.route = "media" THEN "media" ELSE c.actions[r.action].kind

\* Faulty variant: a reservation is dropped one millisecond early.
LiveEarly(t) == { e \in cache : e.expires > t + 1 }

\* The reservations DuplicateCache::reserve retains for a clock reading.
Live(t) == { e \in cache : e.expires > t }

Reservation(r) == [id |-> r.id, expires |-> r.expires]

\* Faulty variant: a redelivery with the same expiry passes.
TakenByOther(live, r) == \E e \in live : e.id = r.id /\ e.expires # r.expires

Taken(live, r) == \E e \in live : e.id = r.id

\* A cache of live reservations refuses rather than evicts.
Full(live) == Cardinality(live) >= MaxIds

-----------------------------------------------------------------------------
(* Handlers *)

\* The dispatch call returns v, and with it goes the read lock.
Reply(t, v) ==
  /\ pc' = [pc EXCEPT ![t] = "replied"]
  /\ result' = [result EXCEPT ![t] = v]

\* A request arrives.  Authorization, content type, framing and the parse are
\* checked first; then now_ms() is read for the dispatch call.
Receive(t, r) ==
  /\ pc[t] = "idle"
  /\ req' = [req EXCEPT ![t] = r]
  /\ \/ /\ r.form # "valid"
        /\ Reply(t, r.form)
        /\ UNCHANGED seen
     \/ /\ r.form = "valid"
        /\ pc' = [pc EXCEPT ![t] = "timed"]
        /\ seen' = [seen EXCEPT ![t] = now]
        /\ UNCHANGED result
  /\ UNCHANGED <<clock, kind, cache, config, pending, started, execVars>>

\* Faulty variant: a waiting writer does not keep readers out.
TryReadUnfair(t, r, admitted) ==
  \/ /\ ActionVerdict(config, r) # "ok"
     /\ Reply(t, ActionVerdict(config, r))
     /\ UNCHANGED kind
  \/ /\ ActionVerdict(config, r) = "ok"
     /\ pc' = [pc EXCEPT ![t] = admitted]
     /\ kind' = [kind EXCEPT ![t] = KindOf(config, r)]
     /\ UNCHANGED result

\* try_read and, under it, the checks against the configuration.
TryRead(t, r, admitted) ==
  \/ /\ pending # NoConfig
     /\ Reply(t, "busy")
     /\ UNCHANGED kind
  \/ /\ pending = NoConfig
     /\ ActionVerdict(config, r) # "ok"
     /\ Reply(t, ActionVerdict(config, r))
     /\ UNCHANGED kind
  \/ /\ pending = NoConfig
     /\ ActionVerdict(config, r) = "ok"
     /\ pc' = [pc EXCEPT ![t] = admitted]
     /\ kind' = [kind EXCEPT ![t] = KindOf(config, r)]
     /\ UNCHANGED result

\* dispatch_media and dispatch_custom up to the reservation.
Admit(t) ==
  /\ pc[t] = "timed"
  /\ LET v == TimeVerdict(req[t], seen[t])
     IN \/ v # "ok" /\ Reply(t, v) /\ UNCHANGED kind
        \/ v = "ok" /\ TryRead(t, req[t], "admitted")
  /\ UNCHANGED <<clock, req, seen, cache, config, pending, started, execVars>>

\* test_action: no request id, so nothing to reserve.
TestAction(t, a) ==
  /\ pc[t] = "idle"
  /\ req' = [req EXCEPT ![t] = LocalTest(a)]
  /\ TryRead(t, LocalTest(a), "reserved")
  /\ UNCHANGED <<clock, seen, cache, config, pending, started, execVars>>

\* DuplicateCache::reserve, under the mutex, with the reading taken on arrival.
Reserve(t) ==
  /\ pc[t] = "admitted"
  /\ LET live == Live(seen[t])
         dup  == Taken(live, req[t])
     IN \/ /\ dup
           /\ cache' = live
           /\ Reply(t, "duplicate")
        \/ /\ ~dup /\ Full(live)
           /\ cache' = live
           /\ Reply(t, "busy")
        \/ /\ ~dup /\ ~Full(live)
           /\ cache' = live \cup {Reservation(req[t])}
           /\ pc' = [pc EXCEPT ![t] = "reserved"]
           /\ UNCHANGED result
  /\ UNCHANGED <<clock, req, seen, kind, config, pending, started, execVars>>

\* Count an execution of the request; a local test has none.
Count(t) ==
  started' = IF req[t] \in DOMAIN started
             THEN [started EXCEPT ![req[t]] = @ + 1]
             ELSE started

\* The dispatch call has its result and is about to return.
Decided(t, v) ==
  /\ pc' = [pc EXCEPT ![t] = "finish"]
  /\ result' = [result EXCEPT ![t] = v]

\* ActionExecutor::execute up to its first await.
Execute(t) ==
  /\ pc[t] = "reserved"
  /\ \/ Refused(kind[t]) /\ Decided(t, "busy") /\ UNCHANGED started
     \/ SpawnFailed(kind[t]) /\ Decided(t, "server_error") /\ UNCHANGED started
     \/ SpawnLaunch(kind[t]) /\ Decided(t, "ok") /\ Count(t)
     \/ SpawnScript(kind[t]) /\ Decided(t, "ok") /\ Count(t)
     \/ /\ SpawnAwaited(t, kind[t])
        /\ pc' = [pc EXCEPT ![t] = "executing"]
        /\ Count(t)
        /\ UNCHANGED result
  /\ UNCHANGED <<clock, req, seen, kind, cache, config, pending>>

\* A job ends; whoever still awaits it gets its result.  Only the UAC prompt
\* of an elevated launch can be cancelled.
JobEnds(j, v) ==
  /\ v = "action_cancelled" => j.kind = "elevated"
  /\ EndJob(j)
  /\ IF j.owner \in Task THEN Decided(j.owner, v) ELSE UNCHANGED <<pc, result>>
  /\ UNCHANGED <<clock, req, seen, kind, cache, config, pending, started>>

\* Faulty variant: only requests from the network are timed out.
ElevatedTimeoutRemote(t) ==
  /\ t \in Conns
  /\ pc[t] = "executing"
  /\ kind[t] = "elevated"
  /\ Abandon(t)
  /\ Decided(t, "server_error")
  /\ UNCHANGED <<clock, req, seen, kind, cache, config, pending, started>>

\* ELEVATED_LAUNCH_TIMEOUT: the caller gets an error, the prompt stays open.
ElevatedTimeout(t) ==
  /\ pc[t] = "executing"
  /\ kind[t] = "elevated"
  /\ Abandon(t)
  /\ Decided(t, "server_error")
  /\ UNCHANGED <<clock, req, seen, kind, cache, config, pending, started>>

\* TimeoutLayer: the handler future is dropped at its await and answered 408.
HttpTimeout(t) ==
  /\ t \in Conns
  /\ pc[t] = "executing"
  /\ Abandon(t)
  /\ Reply(t, "request_timeout")
  /\ UNCHANGED <<clock, req, seen, kind, cache, config, pending, started>>

\* The dispatch call records its diagnostic and returns.
Finish(t) ==
  /\ pc[t] = "finish"
  /\ Reply(t, result[t])
  /\ UNCHANGED <<clock, req, seen, kind, cache, config, pending, started, execVars>>

\* The reply is written and the connection closed (no keep-alive).
Close(t) ==
  /\ pc[t] = "replied"
  /\ pc' = [pc EXCEPT ![t] = "idle"]
  /\ req' = [req EXCEPT ![t] = NoRequest]
  /\ seen' = [seen EXCEPT ![t] = 0]
  /\ kind' = [kind EXCEPT ![t] = "media"]
  /\ result' = [result EXCEPT ![t] = "ok"]
  /\ UNCHANGED <<clock, cache, config, pending, started, execVars>>

-----------------------------------------------------------------------------
(* Configuration changes.  The callers of replace_config hold the          *)
(* runtime's lifecycle mutex, so there is one at a time.                   *)

\* replace_config: validate, then wait for the write lock.
ReplaceBegin(c) ==
  /\ pending = NoConfig
  /\ Valid(c)
  /\ pending' = c
  /\ UNCHANGED <<clock, taskVars, cache, config, started, execVars>>

\* Faulty variant: the lifecycle lock is not taken.
ReplaceInstallAtOnce ==
  /\ pending # NoConfig
  /\ config' = pending
  /\ pending' = NoConfig
  /\ UNCHANGED <<clock, taskVars, cache, started, execVars>>

\* The write lock is granted when the last reader has left.
ReplaceInstall ==
  /\ pending # NoConfig
  /\ Readers = {}
  /\ config' = pending
  /\ pending' = NoConfig
  /\ UNCHANGED <<clock, taskVars, cache, started, execVars>>

\* The caller was the acknowledgement handler and TimeoutLayer dropped it.
ReplaceCancelled ==
  /\ pending # NoConfig
  /\ pending' = NoConfig
  /\ UNCHANGED <<clock, taskVars, cache, config, started, execVars>>

\* Time passes.
Tick ==
  /\ now < MaxNow
  /\ now' = now + 1
  /\ latest' = IF now' > latest THEN now' ELSE latest
  /\ UNCHANGED <<setBacks, taskVars, cache, config, pending, started, execVars>>

\* The wall clock is no steady one: Windows or the user sets it back.
ClockSetBack(t) ==
  /\ t < now /\ setBacks < MaxSetBacks
  /\ now' = t
  /\ setBacks' = setBacks + 1
  /\ UNCHANGED <<latest, taskVars, cache, config, pending, started, execVars>>

-----------------------------------------------------------------------------

Init ==
  /\ now = 0 /\ latest = 0 /\ setBacks = 0
  /\ pc = [t \in Task |-> "idle"]
  /\ req = [t \in Task |-> NoRequest]
  /\ seen = [t \in Task |-> 0]
  /\ kind = [t \in Task |-> "media"]
  /\ result = [t \in Task |-> "ok"]
  /\ cache = {}
  /\ config \in { c \in Configs : Valid(c) }
  /\ pending = NoConfig
  /\ started = [r \in Requests |-> 0]
  /\ ExecInit

Step(t) ==
  Admit(t) \/ Reserve(t) \/ Execute(t) \/ Finish(t) \/ Close(t)

Timeout(t) == ElevatedTimeout(t) \/ HttpTimeout(t)

ClockMoves == Tick \/ \E t \in 0 .. MaxNow : ClockSetBack(t)

Outcome == {"ok", "server_error", "action_cancelled"}

Next ==
  \/ \E t \in Conns, r \in Requests : Receive(t, r)
  \/ \E t \in Tests, a \in ActionIds : TestAction(t, a)
  \/ \E t \in Task : Step(t) \/ Timeout(t)
  \/ \E j \in jobs, v \in Outcome : JobEnds(j, v)
  \/ \E c \in Configs : ReplaceBegin(c)
  \/ ReplaceInstall
  \/ ReplaceCancelled
  \/ ClockMoves

Spec == Init /\ [][Next]_vars

\* Threads run, timers fire, a granted lock is taken, and a media command
\* (a key press or a mute call) returns.  Nothing is assumed of UAC prompts,
\* of arrivals, or of the callers of replace_config.
Fairness ==
  /\ \A t \in Task : WF_vars(Step(t)) /\ WF_vars(Timeout(t))
  /\ WF_vars(\E j \in jobs, v \in Outcome : j.kind = "media" /\ JobEnds(j, v))
  /\ WF_vars(ReplaceInstall)

FairSpec == Spec /\ Fairness

-----------------------------------------------------------------------------
(* Properties *)

Result ==
  Outcome \cup Form \cup
  {"invalid_time", "expired", "clock_skew", "busy", "duplicate",
   "sync_required", "unknown_action", "disabled_action", "request_timeout"}

\* Every variable has its type, and a busy connection serves an arrived request.
TypeOK ==
  /\ now \in Nat /\ latest \in Nat /\ setBacks \in Nat
  /\ now <= latest
  /\ pc \in [Task -> Place]
  /\ req \in [Task -> Requests \cup { LocalTest(a) : a \in ActionIds } \cup {NoRequest}]
  /\ \A t \in Conns : pc[t] # "idle" => req[t] \in Requests
  /\ \A t \in Tests : /\ pc[t] # "idle" => req[t] \in { LocalTest(a) : a \in ActionIds }
                      /\ pc[t] \notin {"timed", "admitted"}
  /\ seen \in [Task -> Nat]
  /\ kind \in [Task -> ActionKind]
  /\ result \in [Task -> Result]
  /\ cache \subseteq [id: Nat, expires: Nat]
  /\ config \in Configs
  /\ pending \in Configs \cup {NoConfig}
  /\ started \in [Requests -> Nat]
  /\ ExecTypeOK

\* media-control-https.md: the receiver keeps request ids through their
\* acceptance windows.  An accepted request is in the cache until the wall
\* clock has once passed its expiry, whatever readings concurrent handlers purge
\* with, however full the cache is (DuplicateCache::reserve refuses rather than
\* evicts), and also when the clock was set back in between.
RememberedThroughWindow ==
  \A r \in Requests :
    /\ latest < r.expires
    /\ \/ started[r] > 0
       \/ \E t \in Conns : pc[t] = "reserved" /\ req[t] = r
    => Reservation(r) \in cache

\* No request reaches an executor a second time before the clock has left its
\* acceptance window, however often it is delivered and to however many
\* connections at once (dispatch_media, dispatch_custom).  Afterwards it may: a
\* handler whose reading is older than another's purge reserves again, and so
\* does any handler when the clock is set back into a window that had closed.
NoReplayInWindow ==
  [][ \A r \in Requests :
        started'[r] > started[r] /\ started[r] > 0 => r.expires <= latest ]_vars

\* DuplicateCache never outgrows MAX_REMEMBERED_IDS and holds no id twice.
CacheBounded ==
  /\ Cardinality(cache) <= MaxIds
  /\ \A e, f \in cache : e.id = f.id => e = f

\* From the checks of dispatch_custom or test_action until the call returns,
\* the configuration they were made against stays in force: the action being
\* executed is still the enabled action that the published table maps the
\* request to, so replace_config never swaps actions under a dispatch.
DispatchMatchesConfig ==
  \A t \in Readers :
    /\ ActionVerdict(config, req[t]) = "ok"
    /\ kind[t] = KindOf(config, req[t])

\* A waiting replace_config is served: new dispatches are refused while it
\* waits, and every dispatch that holds the lock ends.
ReplaceServed == (pending # NoConfig) ~> (pending = NoConfig)

\* Every request and every local test is answered, even when the UAC prompt it
\* opened is never closed.
Answered ==
  \A t \in Task : (pc[t] \notin {"idle", "replied"}) ~> (pc[t] = "replied")

=============================================================================
