---------------------------- MODULE WindowProofs ---------------------------
(***************************************************************************)
(* Proofs about the Settings window and its channel: for any number of     *)
(* acts of the user, actions and phrases, a flag is set exactly while its  *)
(* request is under way, what was reported as saved stays saved, drafts    *)
(* are the user's, what is published is what was shown, and the token on   *)
(* the screen is the daemon's - each with the exceptions the property      *)
(* names.                                                                  *)
(*                                                                         *)
(* None of these is inductive. Calls follows a call from the queue to the  *)
(* task that waits for it, Carriers counts who will report a request,      *)
(* Failures says that a call nobody waits for is reported as failed, and   *)
(* Tokens and Saves say what the answers on their way hold. From these,    *)
(* Current tells when the copy is the daemon's, which is what Promises,    *)
(* Drafts and Applies need.                                                *)
(***************************************************************************)
EXTENDS SettingsWindow, SequenceTheorems, TLAPS

-----------------------------------------------------------------------------
(* Types *)

\* The kinds of requests.
Kind == Flags \cup Unflagged

\* What a request may carry.
Arg == Table \cup BOOLEAN \cup {NoArg}

\* DaemonSnapshot.
State == [table: Table, listener: BOOLEAN, startup: BOOLEAN, needsApply: BOOLEAN]

\* A response.
Reply == [ok: BOOLEAN, state: State, token: Nat]

\* A task.
TaskRecord == [at: Place, kind: Kind \cup {"none"}, arg: Arg, got: Reply \cup {NoReply}]

\* An event.
Report == [kind: Kind, ok: BOOLEAN, val: Arg \cup Nat]

\* The argument a request of each kind has.
ArgOf(kind, arg) ==
  /\ kind \in {"save", "apply"} => arg \in Table
  /\ kind \in {"listener", "startup"} => arg \in BOOLEAN
  /\ kind \notin {"save", "apply", "listener", "startup"} => arg = NoArg

\* The value an event of each kind carries.
ValOf(e) ==
  /\ e.kind = "listener" => e.val \in BOOLEAN
  /\ e.kind = "save" /\ e.ok => e.val \in Table
  /\ e.kind = "reveal" /\ e.ok => e.val \in Nat

\* The tasks: the poll is task 0, and the user's tasks are numbered by his acts.
TaskTypes ==
  /\ task \in [Task -> TaskRecord]
  /\ \A t \in Task : Busy(t) =>
       /\ task[t].kind \in Kind /\ ArgOf(task[t].kind, task[t].arg)
       /\ task[t].kind = "refresh" <=> t = 0
       /\ t <= clicks
       /\ At(t, "answered") => task[t].got \in Reply

\* The calls and the pipe.
WireTypes ==
  /\ queue \in Call \cup {NoCall} /\ worker \in Call \cup {NoCall}
  /\ queue # NoCall => ArgOf(queue.kind, queue.arg)
  /\ worker # NoCall => ArgOf(worker.kind, worker.arg)
  /\ pipe \in {"empty", "request", "response"}
  /\ pipe = "response" => reply \in Reply

\* The fields of the window and the daemon's state.
FieldTypes ==
  /\ open \in BOOLEAN /\ link \in BOOLEAN /\ clicks \in 0 .. MaxClicks /\ token \in Nat
  /\ daemon \in State /\ view \in State
  /\ pending \subseteq Flags /\ checked \in [{"listener", "startup"} -> BOOLEAN]
  /\ drafts \in [Actions -> Phrases \cup {NoPhrase}]
  /\ shown \in Nat \cup {NoToken} /\ typed \subseteq Actions
  /\ events \in Seq(Report) /\ \A i \in DOMAIN events : ValOf(events[i])
  /\ promised \in [Actions -> Entry \cup {Absent, NoPromise}]

\* The history.
StoryTypes ==
  /\ ahead \in [Task -> SUBSET Task] /\ overtaken \subseteq Task /\ behind \in BOOLEAN
  /\ blind \in BOOLEAN /\ late \in BOOLEAN /\ mixed \in BOOLEAN /\ astray \in BOOLEAN
  /\ crossed \in BOOLEAN /\ misread \in BOOLEAN

\* The types.
Types == TaskTypes /\ WireTypes /\ FieldTypes /\ StoryTypes

-----------------------------------------------------------------------------
(* The inductive invariant *)

\* A call that somebody waits for is that task's, and is in one place.
Calls ==
  /\ (worker = NoCall) <=> (pipe = "empty")
  /\ \A t \in Task : At(t, "waiting") <=> (Awaited(queue, t) \/ Awaited(worker, t))
  /\ \A t \in Task : ~(Awaited(queue, t) /\ Awaited(worker, t))
  /\ \A t \in Task : Awaited(queue, t) => task[t].kind = queue.kind /\ task[t].arg = queue.arg
  /\ \A t \in Task : Awaited(worker, t) => task[t].kind = worker.kind /\ task[t].arg = worker.arg

\* A task, or the event it has queued, will report a request of this kind.
Carried(kind) ==
  \/ \E t \in Task : Busy(t) /\ task[t].kind = kind
  \/ \E i \in DOMAIN events : events[i].kind = kind

\* A flagged request has one carrier; a window that is gone has none.
Carriers ==
  /\ \A t, u \in Task : Busy(t) /\ Busy(u) /\ task[t].kind = task[u].kind /\ task[t].kind \in Flags => t = u
  /\ \A i, j \in DOMAIN events : events[i].kind = events[j].kind /\ events[i].kind \in Flags => i = j
  /\ \A t \in Task, i \in DOMAIN events :
       Busy(t) /\ task[t].kind \in Flags => events[i].kind # task[t].kind
  /\ ~open => events = <<>> /\ \A t \in Task : ~Busy(t)

\* A request of this kind is in the queue or at the worker.
OnWire(kind) == (queue # NoCall /\ queue.kind = kind) \/ (worker # NoCall /\ worker.kind = kind)

\* A request that nobody waits for any more was, or will be, reported as failed.
Abandoned(kind) ==
  \/ queue # NoCall /\ queue.kind = kind /\ ~queue.live
  \/ worker # NoCall /\ worker.kind = kind /\ ~worker.live

\* A failure of this kind that the window has not reported yet.
Failing(kind) ==
  \/ \E t \in Task : At(t, "failed") /\ task[t].kind = kind
  \/ \E i \in DOMAIN events : events[i].kind = kind /\ ~events[i].ok

\* A call of a save or a rotation that nobody waits for is not forgotten.
Failures ==
  open => /\ Abandoned("save") => late \/ Failing("save")
          /\ Abandoned("rotate") => misread \/ Failing("rotate")

\* The token: an answer to reveal holds the daemon's token, unless a rotation
\* was under way beside it, and a token on the screen that is not the daemon's
\* goes with the report of the rotation.
Tokens ==
  /\ UnderWay("reveal") /\ UnderWay("rotate") => crossed
  /\ ~crossed =>
       /\ \A t \in Task : task[t].kind = "reveal" /\ Ok(t) => task[t].got.token = token
       /\ \A i \in DOMAIN events : events[i].kind = "reveal" /\ events[i].ok => events[i].val = token
       /\ worker # NoCall /\ worker.kind = "reveal" /\ pipe = "response" => reply.token = token
  /\ open /\ ~crossed /\ ~misread => shown \in {NoToken, token} \/ Carried("rotate")

\* The states on their way that were not overtaken, and the copy of an open
\* window unless it is behind, have one of these tables.
Among(S) ==
  /\ \A t \in Task : HasState(t) /\ t \notin overtaken => task[t].got.state.table \in S
  /\ pipe = "response" => reply.state.table \in S
  /\ open /\ ~behind => view.table \in S

\* They all have table T.
Fresh(T) == Among({T})

\* A save at the worker that somebody waits for has no other behind it, and its
\* answer is the daemon's table.
SaveServed ==
  worker # NoCall /\ worker.kind = "save" /\ worker.live =>
    /\ queue # NoCall => queue.kind # "save"
    /\ pipe = "response" /\ reply.ok =>
         daemon.table = worker.arg /\ reply.state.table = worker.arg

\* A save that was answered is the last one, and so are the states that came
\* after it.
SaveAnswered ==
  \A t \in Task : At(t, "answered") /\ task[t].kind = "save" =>
    /\ ~OnWire("save")
    /\ Ok(t) => /\ daemon.table = task[t].arg /\ task[t].got.state.table = task[t].arg
                /\ \A u \in Task : HasState(u) /\ u \notin overtaken \cup ahead[t] =>
                     task[u].got.state.table = task[t].arg
                /\ pipe = "response" => reply.state.table = task[t].arg

\* A save that will be reported is the last one, and everything is as saved.
SaveReported ==
  \A i \in DOMAIN events : events[i].kind = "save" /\ events[i].ok =>
    ~OnWire("save") /\ daemon.table = events[i].val /\ Fresh(events[i].val)

\* A save that was answered is the last one the daemon has served.
Saves == SaveServed /\ SaveAnswered /\ SaveReported

\* No save has been served that the window has not heard of, and none may be.
Calm ==
  /\ ~late
  /\ \A t \in Task : task[t].kind = "save" => task[t].at \notin {"answered", "full", "failed"}
  /\ \A i \in DOMAIN events : events[i].kind = "save" => events[i].ok
  /\ worker # NoCall /\ worker.kind = "save" => pipe # "response"

\* Then the copy is as current as the answers on their way.
Current == open /\ Calm => Fresh(daemon.table)

\* The tables that keep what the user was told.
Keeping(p) == { T \in Table : \A a \in Actions : p[a] \in {NoPromise, T[a]} }

\* Every table that the daemon has, or will get, and every table the user sees
\* or will see is one of these.
Tables(S) ==
  /\ daemon.table \in S
  /\ \A t \in Task : Busy(t) /\ task[t].kind = "save" => task[t].arg \in S
  /\ queue # NoCall /\ queue.kind = "save" => queue.arg \in S
  /\ worker # NoCall /\ worker.kind = "save" => worker.arg \in S
  /\ Among(S)

\* They all keep what the user was told.
Promises == ~blind => Tables(Keeping(promised))

\* The drafts against the daemon's table.
Drafts ==
  open /\ "save" \notin pending /\ ~late /\ ~blind =>
    \A a \in Configured(daemon.table) : drafts[a] # daemon.table[a].phrase => a \in typed

\* Every Apply that was not answered yet was clicked with table T on the screen.
Publishing(T) ==
  /\ \A t \in Task : Busy(t) /\ task[t].kind = "apply" /\ ~At(t, "answered") => task[t].arg = T
  /\ queue # NoCall /\ queue.kind = "apply" => queue.arg = T
  /\ worker # NoCall /\ worker.kind = "apply" => worker.arg = T

\* An Apply under way will publish what was on the screen.
Applies ==
  /\ UnderWay("apply") /\ UnderWay("save") => late \/ mixed
  /\ ~late /\ ~mixed /\ ~blind => ~astray /\ Publishing(daemon.table)

\* The inductive invariant.
WindowInd ==
  /\ Types /\ Calls /\ Carriers /\ FlagsExact /\ Failures
  /\ Tokens /\ Saves /\ Current /\ Promises /\ Drafts /\ Applies
-----------------------------------------------------------------------------
(* What the steps do *)

\* Task ids, and that a call is a record.
LEMMA Constants ==
  /\ MaxClicks \in Nat /\ Task = 0 .. MaxClicks /\ NoCall \notin Call /\ NoToken \notin Nat
  /\ FirstTable \in Table /\ Absent \notin Entry /\ NoPromise \notin Entry \cup {Absent}
  /\ NoTask \in TaskRecord
  /\ \A t \in Task, k \in Kind, a \in Arg, l \in BOOLEAN :
       [by |-> t, kind |-> k, arg |-> a, live |-> l] \in Call
  /\ \A c \in Call : c.by \in Task /\ c.kind \in Kind /\ c.arg \in Arg /\ c.live \in BOOLEAN
<1>1. NoTask \in TaskRecord
  BY DEF NoTask, TaskRecord, Place, Arg
<1>2. Call = [by: Task, kind: Kind, arg: Arg, live: BOOLEAN]
  BY DEF Call, Kind, Arg
<1>3. /\ \A t \in Task, k \in Kind, a \in Arg, l \in BOOLEAN :
            [by |-> t, kind |-> k, arg |-> a, live |-> l] \in Call
      /\ \A c \in Call : c.by \in Task /\ c.kind \in Kind /\ c.arg \in Arg /\ c.live \in BOOLEAN
  BY <1>2
<1> QED BY <1>1, <1>3, WindowAssumption

\* A click starts a task that was not there.
LEMMA ClickFacts ==
  ASSUME Types, NEW kind \in Kind, NEW arg \in Arg, Click(kind, arg), kind # "refresh"
  PROVE  \E n \in Task :
           /\ n = clicks + 1 /\ n # 0 /\ ~Busy(n) /\ clicks' = n /\ clicks' \in 0 .. MaxClicks
           /\ task'[n] = [at |-> "spawned", kind |-> kind, arg |-> arg, got |-> NoReply]
           /\ \A u \in Task : u # n => task'[u] = task[u]
           /\ task' \in [Task -> TaskRecord]
<1>1. /\ clicks + 1 \in Task /\ clicks + 1 # 0 /\ ~(clicks + 1 <= clicks)
      /\ clicks' = clicks + 1 /\ clicks' \in 0 .. MaxClicks
  BY Constants DEF Types, FieldTypes, Click
<1>2. ~Busy(clicks + 1)
  BY <1>1 DEF Types, TaskTypes
<1>3. task \in [Task -> TaskRecord]
  BY DEF Types, TaskTypes
<1>4. task' = [task EXCEPT ![clicks + 1] = [at |-> "spawned", kind |-> kind, arg |-> arg, got |-> NoReply]]
  BY <1>1 DEF Click, Spawned
<1>5. [at |-> "spawned", kind |-> kind, arg |-> arg, got |-> NoReply] \in TaskRecord
  BY DEF TaskRecord, Place
<1> QED BY <1>1, <1>2, <1>3, <1>4, <1>5

\* A call goes into the queue, or fails at once.
LEMMA CallFacts ==
  ASSUME Types, NEW t \in Task, NEW kind \in Kind, NEW arg \in Arg, CallWorker(t, kind, arg)
  PROVE  /\ task' \in [Task -> TaskRecord]
         /\ \A u \in Task : u # t => task'[u] = task[u]
         /\ task'[t].kind = kind /\ task'[t].arg = arg /\ task'[t].at \in {"waiting", "full", "failed"}
         /\ \/ /\ link /\ queue = NoCall /\ task'[t].at = "waiting" /\ queue' # NoCall
               /\ queue' = [by |-> t, kind |-> kind, arg |-> arg, live |-> TRUE] /\ queue' \in Call
            \/ queue' = queue /\ task'[t].at \in {"full", "failed"}
         /\ UNCHANGED <<link, worker, pipe, reply>>
<1>1. task \in [Task -> TaskRecord]
  BY DEF Types, TaskTypes
<1> DEFINE free == link /\ queue = NoCall
           place == IF free THEN "waiting" ELSE IF link THEN "full" ELSE "failed"
           new == [at |-> place, kind |-> kind, arg |-> arg, got |-> NoReply]
<1>2. task' = [task EXCEPT ![t] = new] /\ UNCHANGED <<link, worker, pipe, reply>>
      /\ queue' = IF free THEN [by |-> t, kind |-> kind, arg |-> arg, live |-> TRUE] ELSE queue
  BY DEF CallWorker
<1>3. place \in {"waiting", "full", "failed"}
  OBVIOUS
<1>4. new \in TaskRecord /\ new.kind = kind /\ new.arg = arg /\ new.at = place
  BY <1>3 DEF TaskRecord, Place
<1>5. [by |-> t, kind |-> kind, arg |-> arg, live |-> TRUE] \in Call
  BY Constants
<1>6. task' \in [Task -> TaskRecord] /\ task'[t] = new /\ \A u \in Task : u # t => task'[u] = task[u]
  <2> HIDE DEF new
  <2> QED BY <1>1, <1>2, <1>4
<1>7. CASE free
  BY <1>2, <1>4, <1>5, <1>6, <1>7, Constants
<1>8. CASE ~free
  BY <1>2, <1>3, <1>4, <1>6, <1>8
<1> QED BY <1>7, <1>8

\* A call is given up.
LEMMA TimeoutFacts ==
  ASSUME Types, Calls, NEW t \in Task, Timeout(t)
  PROVE  /\ task' \in [Task -> TaskRecord]
         /\ \A u \in Task : u # t => task'[u] = task[u]
         /\ task'[t].at = "failed" /\ task'[t].kind = task[t].kind /\ task'[t].arg = task[t].arg
         /\ task'[t].got = task[t].got /\ task[t].at = "waiting"
         /\ queue' \in Call \cup {NoCall} /\ worker' \in Call \cup {NoCall}
         /\ (queue' = NoCall <=> queue = NoCall)
         /\ (worker' = NoCall <=> worker = NoCall)
         /\ queue # NoCall => /\ queue'.by = queue.by /\ queue'.kind = queue.kind /\ queue'.arg = queue.arg
                              /\ (queue'.live <=> queue.live /\ queue.by # t)
         /\ worker # NoCall => /\ worker'.by = worker.by /\ worker'.kind = worker.kind /\ worker'.arg = worker.arg
                               /\ (worker'.live <=> worker.live /\ worker.by # t)
         /\ UNCHANGED <<link, pipe, reply>>
<1>1. task \in [Task -> TaskRecord] /\ queue \in Call \cup {NoCall} /\ worker \in Call \cup {NoCall}
  BY DEF Types, TaskTypes, WireTypes
<1>2. /\ task' = [task EXCEPT ![t].at = "failed"] /\ task[t].at = "waiting"
      /\ queue' = Dead(queue, t) /\ worker' = Dead(worker, t) /\ UNCHANGED <<link, pipe, reply>>
  BY DEF Timeout, Moved, At
<1>3. /\ task' \in [Task -> TaskRecord] /\ \A u \in Task : u # t => task'[u] = task[u]
      /\ task'[t].at = "failed" /\ task'[t].kind = task[t].kind /\ task'[t].arg = task[t].arg
      /\ task'[t].got = task[t].got
  BY <1>1, <1>2 DEF TaskRecord, Place
<1>4. ASSUME NEW c \in Call \cup {NoCall}
      PROVE  /\ Dead(c, t) \in Call \cup {NoCall} /\ (Dead(c, t) = NoCall <=> c = NoCall)
             /\ c # NoCall => /\ Dead(c, t).by = c.by /\ Dead(c, t).kind = c.kind /\ Dead(c, t).arg = c.arg
                              /\ (Dead(c, t).live <=> c.live /\ c.by # t)
  <2>1. CASE c # NoCall /\ c.by = t
    <3>1. c \in Call /\ c = [by |-> c.by, kind |-> c.kind, arg |-> c.arg, live |-> c.live]
      BY <2>1 DEF Call
    <3>2. Dead(c, t) = [by |-> c.by, kind |-> c.kind, arg |-> c.arg, live |-> FALSE]
      BY <2>1, <3>1 DEF Dead
    <3>3. [by |-> c.by, kind |-> c.kind, arg |-> c.arg, live |-> FALSE] \in Call
      BY <3>1, Constants
    <3>4. Dead(c, t).by = c.by /\ Dead(c, t).kind = c.kind /\ Dead(c, t).arg = c.arg /\ ~Dead(c, t).live
      BY <3>2
    <3>5. Dead(c, t) \in Call /\ Dead(c, t) # NoCall
      BY <3>2, <3>3, Constants
    <3> HIDE DEF Dead
    <3> QED BY <2>1, <3>4, <3>5
  <2>2. CASE c # NoCall /\ c.by # t
    <3>1. Dead(c, t) = c /\ c \in Call /\ c.live \in BOOLEAN
      BY <2>2, Constants DEF Dead
    <3> QED BY <2>2, <3>1
  <2>3. CASE c = NoCall
    BY <2>3 DEF Dead
  <2> QED BY <2>1, <2>2, <2>3
<1>5. /\ queue' \in Call \cup {NoCall} /\ (queue' = NoCall <=> queue = NoCall)
      /\ queue # NoCall => /\ queue'.by = queue.by /\ queue'.kind = queue.kind /\ queue'.arg = queue.arg
                           /\ (queue'.live <=> queue.live /\ queue.by # t)
  BY <1>1, <1>2, <1>4
<1>6. /\ worker' \in Call \cup {NoCall} /\ (worker' = NoCall <=> worker = NoCall)
      /\ worker # NoCall => /\ worker'.by = worker.by /\ worker'.kind = worker.kind /\ worker'.arg = worker.arg
                            /\ (worker'.live <=> worker.live /\ worker.by # t)
  BY <1>1, <1>2, <1>4
<1> QED BY <1>2, <1>3, <1>5, <1>6

\* A response reaches the task that waits for it, if one does.
LEMMA ReplyFacts ==
  ASSUME Types, Calls, WorkerReplies
  PROVE  /\ worker \in Call /\ worker # NoCall /\ pipe = "response" /\ reply \in Reply
         /\ worker' = NoCall /\ pipe' = "empty" /\ UNCHANGED <<link, queue>>
         /\ task' \in [Task -> TaskRecord]
         /\ \/ /\ worker.live /\ worker.by \in Task /\ Awaited(worker, worker.by)
               /\ task[worker.by].at = "waiting" /\ task'[worker.by].at = "answered"
               /\ task'[worker.by].kind = worker.kind /\ task'[worker.by].arg = worker.arg
               /\ task[worker.by].kind = worker.kind /\ task[worker.by].arg = worker.arg
               /\ task'[worker.by].got = reply
               /\ \A u \in Task : u # worker.by => task'[u] = task[u]
            \/ ~worker.live /\ task' = task
<1>1. task \in [Task -> TaskRecord] /\ reply \in Reply /\ worker \in Call /\ worker # NoCall
      /\ pipe = "response" /\ worker' = NoCall /\ pipe' = "empty" /\ UNCHANGED <<link, queue>>
  BY DEF Types, TaskTypes, WireTypes, Calls, WorkerReplies
<1>2. CASE worker.live
  <2> DEFINE b == worker.by
  <2>1. b \in Task /\ Awaited(worker, b)
    BY <1>1, <1>2, Constants DEF Awaited
  <2>2. task[b].at = "waiting" /\ task[b].kind = worker.kind /\ task[b].arg = worker.arg
    BY <2>1 DEF Calls, At
  <2>3. task' = [task EXCEPT ![b].at = "answered", ![b].got = reply]
    BY <1>2 DEF WorkerReplies
  <2> HIDE DEF b
  <2>4. /\ task' \in [Task -> TaskRecord] /\ \A u \in Task : u # b => task'[u] = task[u]
        /\ task'[b].at = "answered" /\ task'[b].kind = task[b].kind /\ task'[b].arg = task[b].arg
        /\ task'[b].got = reply
    BY <1>1, <2>1, <2>3 DEF TaskRecord, Place
  <2> QED BY <1>1, <1>2, <2>1, <2>2, <2>4 DEF b
<1>3. CASE ~worker.live
  BY <1>1, <1>3 DEF WorkerReplies
<1> QED BY <1>2, <1>3

\* The first event is taken.
LEMMA HandleFacts ==
  ASSUME NEW es \in Seq(Report), es # <<>>
  PROVE  /\ Tail(es) \in Seq(Report) /\ Head(es) \in Report /\ 1 \in DOMAIN es /\ Head(es) = es[1]
         /\ DOMAIN es \subseteq Nat \ {0} /\ DOMAIN Tail(es) \subseteq Nat \ {0}
         /\ \A i \in DOMAIN Tail(es) : i + 1 \in DOMAIN es /\ Tail(es)[i] = es[i + 1]
         /\ \A i \in DOMAIN es : i # 1 => i - 1 \in DOMAIN Tail(es) /\ Tail(es)[i - 1] = es[i]
<1>1. /\ Tail(es) \in Seq(Report) /\ Head(es) \in Report /\ Head(es) = es[1]
      /\ Len(Tail(es)) = Len(es) - 1 /\ Len(es) \in Nat \ {0}
      /\ \A i \in 1 .. Len(Tail(es)) : Tail(es)[i] = es[i + 1]
  BY HeadTailProperties, EmptySeq, LenProperties
<1>2. DOMAIN es = 1 .. Len(es) /\ DOMAIN Tail(es) = 1 .. Len(Tail(es))
  BY <1>1, LenProperties
<1>3. ASSUME NEW i \in DOMAIN es, i # 1
      PROVE  i - 1 \in DOMAIN Tail(es) /\ Tail(es)[i - 1] = es[i]
  <2>1. i - 1 \in 1 .. Len(Tail(es)) /\ (i - 1) + 1 = i
    BY <1>1, <1>2, <1>3
  <2> QED BY <1>1, <1>2, <2>1
<1> QED BY <1>1, <1>2, <1>3

\* An event is queued.
LEMMA QueueFacts ==
  ASSUME NEW es \in Seq(Report), NEW e \in Report
  PROVE  /\ Append(es, e) \in Seq(Report)
         /\ \E n \in DOMAIN Append(es, e) :
              /\ n \notin DOMAIN es /\ Append(es, e)[n] = e
              /\ DOMAIN Append(es, e) = DOMAIN es \cup {n}
              /\ \A i \in DOMAIN es : Append(es, e)[i] = es[i]
<1>1. /\ Append(es, e) \in Seq(Report) /\ Len(Append(es, e)) = Len(es) + 1 /\ Len(es) \in Nat
      /\ \A i \in 1 .. Len(es) : Append(es, e)[i] = es[i]
      /\ Append(es, e)[Len(es) + 1] = e
  BY AppendProperties, LenProperties
<1>2. DOMAIN es = 1 .. Len(es) /\ DOMAIN Append(es, e) = 1 .. Len(es) + 1
  BY <1>1, LenProperties
<1> QED BY <1>1, <1>2

-----------------------------------------------------------------------------
(* Next, by what its steps have in common *)

\* Every button that saves sends the copy, changed for the actions touched only.
LEMMA SaveFacts ==
  ASSUME Types,
         \/ \E a \in Actions : RemoveAction(a) \/ ToggleAction(a)
         \/ \E a \in Actions, p \in Phrases : AddAction(a, p)
         \/ SavePhrases
  PROVE  \E table \in Table, touched \in SUBSET Actions :
           /\ SaveActions(table, touched)
           /\ \A a \in Actions \ touched : table[a] = view.table[a]
<1>1. view.table \in [Actions -> Entry \cup {Absent}] /\ drafts \in [Actions -> Phrases \cup {NoPhrase}]
  BY DEF Types, FieldTypes, State, Table
<1>2. ASSUME NEW a \in Actions, NEW e \in Entry \cup {Absent}, SaveActions([view.table EXCEPT ![a] = e], {a})
      PROVE  \E table \in Table, touched \in SUBSET Actions :
               /\ SaveActions(table, touched)
               /\ \A b \in Actions \ touched : table[b] = view.table[b]
  <2> DEFINE T == [view.table EXCEPT ![a] = e]
  <2>1. T \in Table
    BY <1>1 DEF Table
  <2>2. \A b \in Actions \ {a} : T[b] = view.table[b]
    BY <1>1
  <2>3. SaveActions(T, {a}) /\ {a} \in SUBSET Actions
    BY <1>2
  <2> HIDE DEF T
  <2> QED BY <2>1, <2>2, <2>3
<1>3. ASSUME NEW a \in Actions, RemoveAction(a) PROVE SaveActions([view.table EXCEPT ![a] = Absent], {a})
  BY <1>3 DEF RemoveAction
<1>4. ASSUME NEW a \in Actions, ToggleAction(a)
      PROVE  \E e \in Entry \cup {Absent} : SaveActions([view.table EXCEPT ![a] = e], {a})
  <2> DEFINE e == [view.table[a] EXCEPT !.enabled = ~view.table[a].enabled]
  <2>1. view.table[a] \in Entry
    BY <1>1, <1>4 DEF ToggleAction
  <2>2. e \in Entry
    BY <2>1 DEF Entry
  <2>3. [view.table EXCEPT ![a].enabled = ~view.table[a].enabled] = [view.table EXCEPT ![a] = e]
    BY <1>1
  <2>4. SaveActions([view.table EXCEPT ![a].enabled = ~view.table[a].enabled], {a})
    BY <1>4 DEF ToggleAction
  <2>5. SaveActions([view.table EXCEPT ![a] = e], {a})
    BY <2>3, <2>4
  <2> QED BY <2>2, <2>5
<1>5. ASSUME NEW a \in Actions, NEW p \in Phrases, AddAction(a, p)
      PROVE  \E e \in Entry \cup {Absent} : SaveActions([view.table EXCEPT ![a] = e], {a})
  <2>1. [phrase |-> p, enabled |-> TRUE] \in Entry
    BY DEF Entry
  <2> QED BY <1>5, <2>1 DEF AddAction
<1>6. ASSUME SavePhrases
      PROVE  \E table \in Table, touched \in SUBSET Actions :
               /\ SaveActions(table, touched)
               /\ \A b \in Actions \ touched : table[b] = view.table[b]
  <2> DEFINE T == [a \in Actions |-> IF view.table[a] = Absent THEN Absent
                                     ELSE [view.table[a] EXCEPT !.phrase = drafts[a]]]
             W == { a \in Configured(view.table) : drafts[a] # view.table[a].phrase }
  <2>1. SaveActions(T, W)
    BY <1>6 DEF SavePhrases
  <2>2. ASSUME NEW a \in Actions, view.table[a] # Absent
        PROVE  /\ view.table[a] \in Entry /\ T[a] \in Entry
               /\ drafts[a] = view.table[a].phrase => T[a] = view.table[a]
    <3>1. view.table[a] \in Entry /\ drafts[a] \in Phrases \cup {NoPhrase}
      BY <1>1, <2>2
    <3>2. T[a] = [view.table[a] EXCEPT !.phrase = drafts[a]]
      BY <2>2
    <3> HIDE DEF T
    <3> QED BY <3>1, <3>2 DEF Entry
  <2>3. T \in Table
    BY <2>2 DEF Table
  <2>4. W \in SUBSET Actions
    BY DEF Configured
  <2>5. \A a \in Actions \ W : T[a] = view.table[a]
    <3> SUFFICES ASSUME NEW a \in Actions \ W PROVE T[a] = view.table[a]
      OBVIOUS
    <3>1. CASE view.table[a] = Absent
      BY <3>1
    <3>2. CASE view.table[a] # Absent
      BY <2>2, <3>2 DEF Configured
    <3> QED BY <3>1, <3>2
  <2> HIDE DEF T, W
  <2> QED BY <2>1, <2>3, <2>4, <2>5
<1> QED BY <1>2, <1>3, <1>4, <1>5, <1>6

\* The user spawns a request: what a click with this request does besides.
Clicked ==
  \E kind \in Kind \ {"refresh"}, arg \in Arg :
    /\ ArgOf(kind, arg) /\ kind \notin pending /\ Click(kind, arg)
    /\ UNCHANGED <<drafts, typed, late, astray, misread>>
    /\ crossed' <=> (crossed \/ (kind = "reveal" /\ UnderWay("rotate")) \/ (kind = "rotate" /\ UnderWay("reveal")))
    /\ mixed' <=> (mixed \/ (kind = "save" /\ UnderWay("apply")))
    /\ blind' <=> (blind \/ (kind \in {"save", "apply"} /\ behind))
    /\ kind = "apply" => arg = view.table /\ "save" \notin pending
    /\ kind # "save" => promised' = promised
    /\ kind = "save" => \A a \in Actions : \/ promised'[a] = NoPromise
                                           \/ promised'[a] = promised[a] /\ arg[a] = view.table[a]

\* The UI thread handles an event: what the reports of the kinds do.
Handling ==
  LET e == Head(events)
      saved == e.kind = "save" /\ e.ok
  IN /\ open /\ events # <<>> /\ events' = Tail(events)
     /\ UNCHANGED <<channelVars, open, daemon, token, view, clicks, orderVars, mixed, astray, crossed>>
     /\ pending' = pending \ {e.kind}
     /\ late' <=> (late \/ (e.kind = "save" /\ ~e.ok))
     /\ misread' <=> (misread \/ (e.kind = "rotate" /\ ~e.ok))
     /\ blind' <=> (blind \/ (saved /\ behind))
     /\ saved => drafts' = DraftsOf(view.table) /\ typed' = {} /\ promised' = e.val
     /\ ~saved => UNCHANGED <<drafts, typed, promised>>
     /\ \/ shown' = NoToken
        \/ shown' = shown /\ ~(e.kind = "rotate" /\ e.ok)
        \/ shown' = e.val /\ e.kind = "reveal" /\ e.ok

\* Nothing happens to requests, answers and the copy.
Quiet ==
  /\ UNCHANGED <<channelVars, open, token, view, pending, shown, events, orderVars, blind, promised, late, mixed,
                 astray, crossed, misread>>
  /\ daemon' \in State /\ daemon'.table = daemon.table
  /\ clicks' \in 0 .. MaxClicks /\ clicks <= clicks'
  /\ \A a \in Actions : a \notin typed' => a \notin typed /\ drafts'[a] = drafts[a]

\* A save is a click with a table.
LEMMA SaveClicks ==
  ASSUME Types, NEW table \in Table, NEW touched \in SUBSET Actions, SaveActions(table, touched),
         \A a \in Actions \ touched : table[a] = view.table[a]
  PROVE  Clicked
<1>1. "save" \in Kind \ {"refresh"} /\ table \in Arg /\ ArgOf("save", table)
  BY DEF Kind, Flags, Arg, ArgOf
<1>2. /\ "save" \notin pending /\ Click("save", table)
      /\ UNCHANGED <<drafts, typed, late, astray, misread, crossed>>
      /\ mixed' <=> (mixed \/ UnderWay("apply"))
      /\ blind' <=> (blind \/ behind)
      /\ promised' = [a \in Actions |-> IF a \in touched THEN NoPromise ELSE promised[a]]
  BY DEF SaveActions
<1>3. crossed' <=> crossed
  BY <1>2
<1>4. \A a \in Actions : \/ promised'[a] = NoPromise
                         \/ promised'[a] = promised[a] /\ table[a] = view.table[a]
  BY <1>2
<1> QED BY <1>1, <1>2, <1>3, <1>4 DEF Clicked

\* The other clicks.
LEMMA OtherClicks ==
  ASSUME Types
  PROVE  /\ ApplyVoiceConfig => Clicked
         /\ \A box \in {"listener", "startup"} : ToggleBox(box) => Clicked
         /\ \A kind \in Unflagged : Press(kind) => Clicked
<1>1. ASSUME ApplyVoiceConfig PROVE Clicked
  <2>1. "apply" \in Kind \ {"refresh"} /\ view.table \in Arg /\ ArgOf("apply", view.table)
    BY DEF Kind, Flags, Arg, ArgOf, Types, FieldTypes, State
  <2>2. /\ "apply" \notin pending /\ "save" \notin pending /\ Click("apply", view.table)
        /\ UNCHANGED <<drafts, typed, late, astray, misread, promised, crossed, mixed>>
        /\ blind' <=> (blind \/ behind)
    BY <1>1 DEF ApplyVoiceConfig
  <2>3. (crossed' <=> crossed) /\ (mixed' <=> mixed)
    BY <2>2
  <2> QED BY <2>1, <2>2, <2>3 DEF Clicked
<1>2. ASSUME NEW box \in {"listener", "startup"}, ToggleBox(box) PROVE Clicked
  <2>1. checked[box] \in BOOLEAN
    BY DEF Types, FieldTypes
  <2> DEFINE b == ~checked[box]
  <2>2. b \in BOOLEAN
    BY <2>1
  <2>3. Click(box, b) /\ box \notin pending /\ UNCHANGED <<drafts, storyVars>>
    BY <1>2 DEF ToggleBox
  <2> HIDE DEF b
  <2>4. box \in Kind \ {"refresh"} /\ b \in Arg /\ ArgOf(box, b) /\ box \notin {"save", "apply", "reveal", "rotate"}
    BY <2>2 DEF Kind, Flags, Arg, ArgOf
  <2>5. UNCHANGED <<drafts, typed, late, astray, misread, promised>> /\ (crossed' <=> crossed) /\ (mixed' <=> mixed)
        /\ (blind' <=> blind)
    BY <2>3 DEF storyVars
  <2> QED BY <2>3, <2>4, <2>5 DEF Clicked
<1>3. ASSUME NEW kind \in Unflagged, Press(kind) PROVE Clicked
  <2>1. kind \in Kind \ {"refresh"} /\ NoArg \in Arg /\ ArgOf(kind, NoArg) /\ kind \notin {"save", "apply"}
        /\ kind \notin pending
    BY DEF Kind, Flags, Unflagged, Arg, ArgOf, Types, FieldTypes
  <2>2. /\ Click(kind, NoArg)
        /\ UNCHANGED <<drafts, typed, blind, promised, late, mixed, astray, misread>>
        /\ crossed' <=> (crossed \/ (kind = "reveal" /\ UnderWay("rotate")) \/ (kind = "rotate" /\ UnderWay("reveal")))
    BY <1>3 DEF Press
  <2>3. (mixed' <=> mixed) /\ (blind' <=> blind)
    BY <2>2
  <2> QED BY <2>1, <2>2, <2>3 DEF Clicked
<1> QED BY <1>1, <1>2, <1>3

\* Every event is handled like this, or the window is gone.
LEMMA HandleSteps ==
  ASSUME Types, Handle
  PROVE  Handling \/ Gone
<1> DEFINE e == Head(events)
           saved == e.kind = "save" /\ e.ok
           Rest == UNCHANGED <<channelVars, open, daemon, token, view, clicks, orderVars, mixed, astray, crossed>>
<1>t. pending \subseteq Flags /\ late \in BOOLEAN /\ misread \in BOOLEAN /\ blind \in BOOLEAN
  BY DEF Types, FieldTypes, StoryTypes
<1>1. ASSUME OnListener \/ OnApplied \/ OnStartup \/ OnSnapshot PROVE Handling
  <2>1. /\ open /\ events # <<>> /\ events' = Tail(events) /\ Rest
        /\ e.kind \notin {"save", "rotate", "reveal"} /\ pending' = pending \ {e.kind}
        /\ UNCHANGED <<drafts, typed, promised, late, misread, blind, shown>>
    BY <1>1 DEF OnListener, OnApplied, OnStartup, OnSnapshot, Event, Handled, storyVars
  <2> QED BY <2>1 DEF Handling
<1>2. ASSUME OnSaved PROVE Handling
  <2>1. /\ open /\ events # <<>> /\ events' = Tail(events) /\ Rest
        /\ e.kind = "save" /\ pending' = pending \ {e.kind} /\ UNCHANGED <<shown, misread>>
        /\ e.ok => /\ drafts' = DraftsOf(view.table) /\ typed' = {} /\ promised' = e.val /\ UNCHANGED late
                   /\ blind' = (blind \/ behind)
        /\ ~e.ok => late' = TRUE /\ UNCHANGED <<drafts, typed, blind, promised>>
    BY <1>2 DEF OnSaved, Event, Handled
  <2>2. CASE e.ok
    <3>1. late' = late /\ misread' = misread /\ blind' = (blind \/ behind) /\ saved
      BY <2>1, <2>2, Zenon
    <3>2. (late' <=> late) /\ (misread' <=> misread) /\ (blind' <=> (blind \/ behind))
      BY <3>1, Zenon
    <3>3. drafts' = DraftsOf(view.table) /\ typed' = {} /\ promised' = e.val
      BY <2>1, <2>2
    <3> QED BY <2>1, <2>2, <3>1, <3>2, <3>3, Zenon DEF Handling
  <2>3. CASE ~e.ok
    BY <2>1, <2>3 DEF Handling
  <2> QED BY <2>2, <2>3
<1>3. ASSUME OnRotated PROVE Handling
  <2>1. /\ open /\ events # <<>> /\ events' = Tail(events) /\ Rest
        /\ e.kind = "rotate" /\ pending' = pending /\ UNCHANGED <<drafts, typed, promised, late, blind>>
        /\ shown' = (IF e.ok THEN NoToken ELSE shown) /\ (misread' <=> (misread \/ ~e.ok))
    BY <1>3 DEF OnRotated, Event, Handled
  <2>2. pending' = pending \ {e.kind}
    BY <1>t, <2>1 DEF Flags
  <2> QED BY <2>1, <2>2 DEF Handling
<1>4. ASSUME OnRevealed PROVE Handling
  <2>1. /\ open /\ events # <<>> /\ events' = Tail(events) /\ Rest
        /\ e.kind = "reveal" /\ pending' = pending /\ UNCHANGED <<drafts, typed, promised, late, blind, misread>>
        /\ shown' = (IF e.ok THEN e.val ELSE NoToken)
    BY <1>4 DEF OnRevealed, Event, Handled, storyVars
  <2>2. pending' = pending \ {e.kind}
    BY <1>t, <2>1 DEF Flags
  <2> QED BY <2>1, <2>2 DEF Handling
<1>5. ASSUME NEW kind \in {"other", "export"}, OnTold(kind) PROVE Handling
  <2>1. /\ open /\ events # <<>> /\ events' = Tail(events) /\ Rest
        /\ e.kind \in {"other", "export"} /\ pending' = pending
        /\ UNCHANGED <<drafts, typed, promised, late, blind, misread, shown>>
    BY <1>5 DEF OnTold, Event, Handled, storyVars, boxVars
  <2>2. pending' = pending \ {e.kind}
    BY <1>t, <2>1 DEF Flags
  <2> QED BY <2>1, <2>2 DEF Handling
<1> QED BY <1>1, <1>2, <1>3, <1>4, <1>5 DEF Handle, OnDisconnected

\* Every step is one of these.
LEMMA Steps ==
  ASSUME Types, [Next]_vars
  PROVE  \/ Clicked \/ Refresh \/ Gone \/ Handling \/ Worker \/ Serve \/ Lost \/ Quiet
         \/ \E t \in Task : SubmitTask(t) \/ TimeoutTask(t) \/ Resume(t)
<1>0. /\ clicks \in Nat /\ MaxClicks \in Nat /\ daemon \in State /\ clicks \in 0 .. MaxClicks
      /\ drafts \in [Actions -> Phrases \cup {NoPhrase}]
  BY Constants DEF Types, FieldTypes
<1>1. ASSUME NEW a \in Actions, NEW p \in Phrases \cup {NoPhrase}, TypePhrase(a, p) PROVE Quiet
  <2>1. clicks' \in 0 .. MaxClicks /\ clicks <= clicks'
    BY <1>0, <1>1 DEF TypePhrase
  <2>2. \A b \in Actions : b \notin typed' => b \notin typed /\ drafts'[b] = drafts[b]
    BY <1>0, <1>1 DEF TypePhrase
  <2> QED BY <1>0, <1>1, <2>1, <2>2 DEF TypePhrase, Quiet
<1>2. TrayToggles => Quiet
  <2> SUFFICES ASSUME TrayToggles PROVE Quiet
    OBVIOUS
  <2>1. daemon' \in State /\ daemon'.table = daemon.table
    BY <1>0 DEF TrayToggles, State
  <2>2. clicks' \in 0 .. MaxClicks /\ clicks <= clicks'
    BY <1>0 DEF TrayToggles
  <2> QED BY <2>1, <2>2 DEF TrayToggles, Quiet, storyVars, boxVars
<1>3. UNCHANGED vars => Quiet
  BY <1>0 DEF vars, Quiet, windowVars, storyVars, orderVars, boxVars
<1>4. User => Clicked \/ Quiet
  <2>1. (\/ \E a \in Actions : RemoveAction(a) \/ ToggleAction(a)
         \/ \E a \in Actions, p \in Phrases : AddAction(a, p)
         \/ SavePhrases) => Clicked
    BY SaveFacts, SaveClicks
  <2> QED BY <1>1, <2>1, OtherClicks DEF User
<1>5. Close => Gone
  BY DEF Close
<1> QED BY <1>2, <1>3, <1>4, <1>5, HandleSteps DEF Next, Run

\* A task resumes: the copy, and the event it queues.
LEMMA ResumeFacts ==
  ASSUME Types, NEW t \in Task, Resume(t)
  PROVE  /\ task' \in [Task -> TaskRecord] /\ task'[t].at = "none" /\ task'[t].kind = "none"
         /\ \A u \in Task : u # t => task'[u] = task[u]
         /\ task[t].at \in {"answered", "full", "failed"} /\ Busy(t) /\ task[t].kind \in Kind
         /\ view' \in State
         /\ HasState(t) => task[t].got.state \in State /\ view' = task[t].got.state
         /\ ~HasState(t) => view' = view
         /\ \E e \in Report :
              /\ ValOf(e) /\ events' = Append(events, e) /\ e.kind = task[t].kind
              /\ e.kind # "refresh" => (e.ok <=> Ok(t))
              /\ e.kind = "save" /\ e.ok => e.val = task[t].arg
              /\ e.kind = "reveal" /\ e.ok => e.val = task[t].got.token
<1>1. /\ task \in [Task -> TaskRecord] /\ task[t].at \in {"answered", "full", "failed"} /\ Busy(t)
      /\ task' = [task EXCEPT ![t] = NoTask]
  BY DEF Types, TaskTypes, Resume, Busy, At
<1>2. /\ task' \in [Task -> TaskRecord] /\ task'[t].at = "none" /\ task'[t].kind = "none"
      /\ \A u \in Task : u # t => task'[u] = task[u]
  BY <1>1, Constants DEF NoTask
<1>3. /\ task[t].kind \in Kind /\ ArgOf(task[t].kind, task[t].arg) /\ task[t].arg \in Arg
      /\ At(t, "answered") => task[t].got \in Reply
  BY <1>1 DEF Types, TaskTypes, TaskRecord
<1>4. /\ HasState(t) => task[t].got.state \in State /\ view' = task[t].got.state
      /\ ~HasState(t) => view' = view
  BY <1>3 DEF Resume, HasState, Reply, Types, FieldTypes
<1>5. view' \in State
  BY <1>3 DEF Resume, HasState, Reply, Types, FieldTypes
<1> DEFINE e == EventOf(t, view')
           v == IF task[t].kind = "listener" THEN IF Ok(t) THEN task[t].arg ELSE view'.listener
                ELSE IF task[t].kind = "reveal" /\ Ok(t) THEN task[t].got.token
                ELSE IF task[t].kind = "save" /\ Ok(t) THEN task[t].arg
                ELSE NoArg
           k == Ok(t) \/ (task[t].kind = "refresh" /\ At(t, "full"))
<1>6. e = [kind |-> task[t].kind, ok |-> k, val |-> v]
  BY DEF EventOf
<1>7. k \in BOOLEAN /\ (task[t].kind # "refresh" => (k <=> Ok(t)))
  OBVIOUS
<1>8. Ok(t) => task[t].got.token \in Nat
  BY <1>3 DEF Ok, Reply
<1>9. view'.listener \in BOOLEAN
  BY <1>5 DEF State
<1>10. v \in Arg \cup Nat
  BY <1>3, <1>8, <1>9 DEF Arg
<1>11. /\ task[t].kind = "listener" => v \in BOOLEAN
       /\ task[t].kind = "save" /\ Ok(t) => v = task[t].arg /\ v \in Table
       /\ task[t].kind = "reveal" /\ Ok(t) => v = task[t].got.token /\ v \in Nat
  BY <1>3, <1>8, <1>9 DEF ArgOf
<1> HIDE DEF v, k
<1>12. e \in Report /\ e.kind = task[t].kind /\ (e.ok <=> k) /\ e.val = v
  <2> HIDE DEF e
  <2> QED BY <1>3, <1>6, <1>7, <1>10 DEF Report
<1>13. events' = Append(events, e)
  BY DEF Resume
<1> HIDE DEF e
<1>14. /\ ValOf(e)
       /\ e.kind # "refresh" => (e.ok <=> Ok(t))
       /\ e.kind = "save" /\ e.ok => e.val = task[t].arg
       /\ e.kind = "reveal" /\ e.ok => e.val = task[t].got.token
  BY <1>7, <1>11, <1>12 DEF ValOf
<1> QED BY <1>1, <1>2, <1>3, <1>4, <1>5, <1>12, <1>13, <1>14

\* The process is gone.
LEMMA GoneFacts ==
  ASSUME Types, Gone
  PROVE  /\ task' \in [Task -> TaskRecord] /\ \A t \in Task : task'[t].at = "none" /\ task'[t].kind = "none"
         /\ events' = <<>> /\ open' = FALSE /\ queue' = NoCall
         /\ worker' \in Call \cup {NoCall} /\ (worker' = NoCall <=> worker = NoCall)
         /\ worker # NoCall => /\ worker'.by = worker.by /\ worker'.kind = worker.kind /\ worker'.arg = worker.arg
                               /\ ~worker'.live
         /\ UNCHANGED <<link, pipe, reply, daemon, token, view>>
<1>1. /\ task' = [t \in Task |-> NoTask] /\ events' = <<>> /\ open' = FALSE /\ queue' = NoCall
      /\ worker' = IF worker = NoCall THEN NoCall ELSE [worker EXCEPT !.live = FALSE]
      /\ UNCHANGED <<link, pipe, reply, daemon, token, view>>
  BY DEF Gone, Exit
<1>2. task' \in [Task -> TaskRecord] /\ \A t \in Task : task'[t].at = "none" /\ task'[t].kind = "none"
  BY <1>1, Constants DEF NoTask
<1>3. CASE worker = NoCall
  BY <1>1, <1>2, <1>3
<1>4. CASE worker # NoCall
  <2>1. worker \in Call /\ worker = [by |-> worker.by, kind |-> worker.kind, arg |-> worker.arg, live |-> worker.live]
    BY <1>4 DEF Types, WireTypes, Call
  <2>2. worker' = [by |-> worker.by, kind |-> worker.kind, arg |-> worker.arg, live |-> FALSE]
    BY <1>1, <1>4, <2>1
  <2>3. [by |-> worker.by, kind |-> worker.kind, arg |-> worker.arg, live |-> FALSE] \in Call
    BY <2>1, Constants
  <2>4. worker' \in Call /\ worker' # NoCall
    BY <2>2, <2>3, Constants
  <2> QED BY <1>1, <1>2, <1>4, <2>2, <2>4
<1> QED BY <1>3, <1>4

\* The channel ends: every task that waits has failed.
LEMMA LostFacts ==
  ASSUME Types, Disconnect
  PROVE  /\ task' \in [Task -> TaskRecord]
         /\ \A t \in Task : /\ task'[t].kind = task[t].kind /\ task'[t].arg = task[t].arg
                            /\ task'[t].got = task[t].got
                            /\ task[t].at = "waiting" => task'[t].at = "failed"
                            /\ task[t].at # "waiting" => task'[t].at = task[t].at
         /\ queue' = NoCall /\ worker' = NoCall /\ pipe' = "empty"
<1>1. /\ task \in [Task -> TaskRecord]
      /\ task' = [t \in Task |-> IF At(t, "waiting") THEN [task[t] EXCEPT !.at = "failed"] ELSE task[t]]
      /\ queue' = NoCall /\ worker' = NoCall /\ pipe' = "empty"
  BY DEF Types, TaskTypes, Disconnect
<1>2. ASSUME NEW t \in Task
      PROVE  /\ task'[t] \in TaskRecord
             /\ task'[t].kind = task[t].kind /\ task'[t].arg = task[t].arg /\ task'[t].got = task[t].got
             /\ task[t].at = "waiting" => task'[t].at = "failed"
             /\ task[t].at # "waiting" => task'[t].at = task[t].at
  BY <1>1 DEF At, TaskRecord, Place
<1> QED BY <1>1, <1>2

-----------------------------------------------------------------------------
(* Types *)

\* The tasks keep their types.
LEMMA TaskStep ==
  ASSUME Types, Calls, [Next]_vars
  PROVE  TaskTypes'
<1>t. /\ task \in [Task -> TaskRecord] /\ clicks \in Nat /\ 0 \in Task
      /\ \A t \in Task : task[t].at # "none" =>
           /\ task[t].kind \in Kind /\ ArgOf(task[t].kind, task[t].arg) /\ task[t].arg \in Arg
           /\ task[t].kind = "refresh" <=> t = 0
           /\ t <= clicks
           /\ task[t].at = "answered" => task[t].got \in Reply
  BY Constants DEF Types, TaskTypes, FieldTypes, TaskRecord, Busy, At
<1>1. ASSUME Clicked PROVE TaskTypes'
  <2>1. PICK kind \in Kind \ {"refresh"}, arg \in Arg : ArgOf(kind, arg) /\ Click(kind, arg)
    BY <1>1 DEF Clicked
  <2>2. PICK n \in Task :
          /\ n = clicks + 1 /\ n # 0 /\ clicks' = n
          /\ task'[n] = [at |-> "spawned", kind |-> kind, arg |-> arg, got |-> NoReply]
          /\ \A u \in Task : u # n => task'[u] = task[u]
          /\ task' \in [Task -> TaskRecord]
    BY <2>1, ClickFacts
  <2> QED BY <1>t, <2>1, <2>2 DEF TaskTypes, Busy, At
<1>2. ASSUME NEW t \in Task, NEW kind \in Kind, NEW arg \in Arg, CallWorker(t, kind, arg), ArgOf(kind, arg),
             kind = "refresh" <=> t = 0, t <= clicks, clicks' = clicks
      PROVE  TaskTypes'
  BY <1>2, <1>t, CallFacts DEF TaskTypes, Busy, At
<1>3. ASSUME Refresh PROVE TaskTypes'
  <2>1. "refresh" \in Kind /\ NoArg \in Arg /\ ArgOf("refresh", NoArg)
    BY DEF Kind, Flags, Arg, ArgOf
  <2>2. 0 <= clicks
    BY <1>t
  <2> QED BY <1>2, <1>3, <1>t, <2>1, <2>2 DEF Refresh
<1>4. ASSUME NEW t \in Task, SubmitTask(t) PROVE TaskTypes'
  BY <1>2, <1>4, <1>t DEF SubmitTask, Submit, At, windowVars
<1>5. ASSUME NEW t \in Task, TimeoutTask(t) PROVE TaskTypes'
  <2>1. Timeout(t) /\ clicks' = clicks
    BY <1>5 DEF TimeoutTask, windowVars
  <2> QED BY <2>1, <1>t, TimeoutFacts DEF TaskTypes, Busy, At
<1>6. ASSUME NEW t \in Task, Resume(t) PROVE TaskTypes'
  <2>1. /\ task' \in [Task -> TaskRecord] /\ task'[t].at = "none"
        /\ \A u \in Task : u # t => task'[u] = task[u]
    BY <1>6, ResumeFacts
  <2>2. clicks' = clicks
    BY <1>6 DEF Resume
  <2> QED BY <1>t, <2>1, <2>2 DEF TaskTypes, Busy, At
<1>7. ASSUME Gone PROVE TaskTypes'
  BY <1>7, GoneFacts DEF TaskTypes, Busy, At
<1>8. ASSUME Worker PROVE TaskTypes'
  <2>1. clicks' = clicks
    BY <1>8 DEF Worker, windowVars
  <2>2. CASE WorkerTakes
    BY <1>t, <2>1, <2>2 DEF WorkerTakes, TaskTypes, Busy, At
  <2>3. CASE WorkerReplies
    BY <1>t, <2>1, <2>3, ReplyFacts DEF TaskTypes, Busy, At
  <2> QED BY <1>8, <2>2, <2>3 DEF Worker
<1>9. ASSUME Lost PROVE TaskTypes'
  <2>1. Disconnect /\ clicks' = clicks
    BY <1>9 DEF Lost, windowVars
  <2> QED BY <1>t, <2>1, LostFacts DEF TaskTypes, Busy, At
<1>10. ASSUME Handling \/ Serve \/ Quiet PROVE TaskTypes'
  <2>1. task' = task
    BY <1>10 DEF Handling, Serve, Answer, Quiet, channelVars
  <2>2. clicks' \in Nat /\ clicks <= clicks'
    BY <1>10, <1>t DEF Handling, Serve, Quiet, windowVars
  <2>3. \A t \in Task : t \in Nat
    BY Constants
  <2> QED BY <1>t, <2>1, <2>2, <2>3 DEF TaskTypes, Busy, At
<1> QED BY <1>1, <1>3, <1>4, <1>5, <1>6, <1>7, <1>8, <1>9, <1>10, Steps

\* The daemon serves a request.
LEMMA ServeFacts ==
  ASSUME Types, Calls, Serve
  PROVE  /\ worker \in Call /\ worker # NoCall /\ pipe = "request" /\ pipe' = "response"
         /\ UNCHANGED <<link, task, queue, worker>>
         /\ daemon' \in State /\ token' \in Nat
         /\ reply' \in Reply /\ reply'.state = daemon' /\ reply'.token = token
         /\ worker.kind # "save" => daemon'.table = daemon.table
         /\ worker.kind = "save" => daemon'.table = (IF reply'.ok THEN worker.arg ELSE daemon.table)
         /\ worker.kind # "rotate" => token' = token
         /\ astray' \in BOOLEAN /\ (astray' => astray \/ (worker.kind = "apply" /\ daemon.table # worker.arg))
<1>1. /\ worker \in Call /\ worker # NoCall /\ pipe = "request" /\ pipe' = "response"
      /\ UNCHANGED <<link, task, queue, worker>>
      /\ daemon \in State /\ token \in Nat /\ ArgOf(worker.kind, worker.arg) /\ astray \in BOOLEAN
  BY DEF Types, WireTypes, FieldTypes, StoryTypes, Calls, Serve, Answer
<1>2. PICK o \in Outcomes(worker.kind, worker.arg) :
        /\ daemon' = o.state /\ token' = o.token
        /\ reply' = [ok |-> o.ok, state |-> o.state, token |-> token]
        /\ astray' = (astray \/ (worker.kind = "apply" /\ o.ok /\ daemon.table # worker.arg))
  BY DEF Serve, Answer
<1> DEFINE k == worker.kind
           x == worker.arg
<1>3. /\ o.state \in State /\ o.token \in Nat /\ o.ok \in BOOLEAN
      /\ k # "save" => o.state.table = daemon.table
      /\ k = "save" => o.state.table = (IF o.ok THEN x ELSE daemon.table)
      /\ k # "rotate" => o.token = token
  <2>1. ArgOf(k, x)
    BY <1>1
  <2>2. o \in Outcomes(k, x)
    BY <1>2
  <2> HIDE DEF k, x
  <2>3. CASE o = After(daemon, token, k = "refresh")
    <3>1. o.state = daemon /\ o.token = token /\ (o.ok <=> k = "refresh") /\ o.ok \in BOOLEAN
      BY <2>3 DEF After
    <3> QED BY <1>1, <3>1
  <2>4. CASE k = "save" /\ o = After(WithActions(x), token, TRUE)
    BY <1>1, <2>1, <2>4 DEF After, WithActions, State, ArgOf
  <2>5. CASE k = "apply" /\ o = After([daemon EXCEPT !.needsApply = FALSE], token, TRUE)
    BY <1>1, <2>5 DEF After, State
  <2>6. CASE k = "startup" /\ o = After([daemon EXCEPT !.startup = x], token, TRUE)
    BY <1>1, <2>1, <2>6 DEF After, State, ArgOf
  <2>7. CASE k = "listener" /\ o = After([daemon EXCEPT !.listener = x], token, TRUE)
    BY <1>1, <2>1, <2>7 DEF After, State, ArgOf
  <2>8. ASSUME NEW n \in Nat, k \in {"listener", "rotate"}, n = token \/ k = "rotate",
               o = After([daemon EXCEPT !.listener = FALSE], n, FALSE)
        PROVE  /\ o.state \in State /\ o.token \in Nat /\ o.ok \in BOOLEAN
               /\ k # "save" => o.state.table = daemon.table
               /\ k = "save" => o.state.table = (IF o.ok THEN x ELSE daemon.table)
               /\ k # "rotate" => o.token = token
    <3>1. o.state = [daemon EXCEPT !.listener = FALSE] /\ o.token = n /\ o.ok = FALSE
      BY <2>8 DEF After
    <3>2. o.state \in State /\ o.state.table = daemon.table
      BY <1>1, <3>1 DEF State
    <3> QED BY <2>8, <3>1, <3>2
  <2>10. CASE k = "rotate" /\ (o = After(daemon, token + 1, TRUE) \/ o = After(daemon, token + 1, FALSE))
    <3>1. o.state = daemon /\ o.token = token + 1 /\ o.ok \in BOOLEAN
      <4>1. CASE o = After(daemon, token + 1, TRUE)
        BY <4>1 DEF After
      <4>2. CASE o = After(daemon, token + 1, FALSE)
        BY <4>2 DEF After
      <4> QED BY <2>10, <4>1, <4>2
    <3>2. o.token \in Nat
      BY <1>1, <3>1
    <3>3. o.ok \in BOOLEAN /\ o.state \in State /\ o.state.table = daemon.table
      BY <1>1, <3>1, Zenon
    <3> QED BY <2>10, <3>2, <3>3, Zenon
  <2>11. token \in Nat /\ token + 1 \in Nat
    BY <1>1
  <2>9. CASE k \notin {"save", "apply", "startup", "listener", "rotate"} /\ o = After(daemon, token, TRUE)
    BY <1>1, <2>9 DEF After
  <2> QED BY <2>2, <2>3, <2>4, <2>5, <2>6, <2>7, <2>8, <2>9, <2>10, <2>11 DEF Outcomes
<1> HIDE DEF k, x
<1>4. reply' \in Reply /\ reply'.state = daemon' /\ reply'.token = token /\ reply'.ok = o.ok
  BY <1>1, <1>2, <1>3 DEF Reply
<1>5. astray' \in BOOLEAN /\ (astray' => astray \/ (worker.kind = "apply" /\ daemon.table # worker.arg))
  BY <1>1, <1>2
<1> QED BY <1>1, <1>2, <1>3, <1>4, <1>5 DEF k, x

\* The calls and the pipe keep their types.
LEMMA WireStep ==
  ASSUME Types, Calls, [Next]_vars
  PROVE  WireTypes'
<1>t. /\ queue \in Call \cup {NoCall} /\ worker \in Call \cup {NoCall}
      /\ queue # NoCall => ArgOf(queue.kind, queue.arg)
      /\ worker # NoCall => ArgOf(worker.kind, worker.arg)
      /\ pipe \in {"empty", "request", "response"}
      /\ pipe = "response" => reply \in Reply
  BY DEF Types, WireTypes
<1>1. ASSUME UNCHANGED <<queue, worker, pipe, reply>> PROVE WireTypes'
  BY <1>1, <1>t DEF WireTypes
<1>2. ASSUME NEW t \in Task, NEW kind \in Kind, NEW arg \in Arg, CallWorker(t, kind, arg), ArgOf(kind, arg)
      PROVE  WireTypes'
  BY <1>2, <1>t, CallFacts DEF WireTypes
<1>3. ASSUME Refresh PROVE WireTypes'
  <2>1. "refresh" \in Kind /\ NoArg \in Arg /\ ArgOf("refresh", NoArg) /\ 0 \in Task
    BY Constants DEF Kind, Flags, Arg, ArgOf
  <2> QED BY <1>2, <1>3, <2>1 DEF Refresh
<1>4. ASSUME NEW t \in Task, SubmitTask(t) PROVE WireTypes'
  <2>1. task[t].kind \in Kind /\ task[t].arg \in Arg /\ ArgOf(task[t].kind, task[t].arg)
    BY <1>4 DEF SubmitTask, Submit, At, Busy, Types, TaskTypes, TaskRecord
  <2> QED BY <1>2, <1>4, <2>1 DEF SubmitTask, Submit
<1>5. ASSUME NEW t \in Task, TimeoutTask(t) PROVE WireTypes'
  BY <1>5, <1>t, TimeoutFacts DEF TimeoutTask, WireTypes
<1>6. ASSUME Gone PROVE WireTypes'
  BY <1>6, <1>t, GoneFacts DEF WireTypes
<1>7. ASSUME Serve PROVE WireTypes'
  BY <1>7, <1>t, ServeFacts DEF WireTypes
<1>8. ASSUME Worker PROVE WireTypes'
  <2>1. CASE WorkerTakes
    BY <1>t, <2>1 DEF WorkerTakes, WireTypes
  <2>2. CASE WorkerReplies
    BY <1>t, <2>2, ReplyFacts DEF WireTypes
  <2> QED BY <1>8, <2>1, <2>2 DEF Worker
<1>9. ASSUME Lost PROVE WireTypes'
  BY <1>9, LostFacts DEF Lost, WireTypes
<1>10. ASSUME Clicked \/ Handling \/ Quiet \/ \E t \in Task : Resume(t) PROVE WireTypes'
  BY <1>1, <1>10 DEF Clicked, Click, Handling, Quiet, Resume, channelVars, wireVars
<1> QED BY <1>3, <1>4, <1>5, <1>6, <1>7, <1>8, <1>9, <1>10, Steps

\* The history keeps its types.
LEMMA StoryStep ==
  ASSUME Types, Calls, [Next]_vars
  PROVE  StoryTypes'
<1>t. /\ ahead \in [Task -> SUBSET Task] /\ overtaken \subseteq Task /\ behind \in BOOLEAN
      /\ blind \in BOOLEAN /\ late \in BOOLEAN /\ mixed \in BOOLEAN /\ astray \in BOOLEAN
      /\ crossed \in BOOLEAN /\ misread \in BOOLEAN
  BY DEF Types, StoryTypes
<1>o. UNCHANGED orderVars => ahead' \in [Task -> SUBSET Task] /\ overtaken' \subseteq Task /\ behind' \in BOOLEAN
  BY <1>t DEF orderVars
<1>1. ASSUME NEW table, NEW touched, SaveActions(table, touched) PROVE StoryTypes'
  <2>1. blind' \in BOOLEAN /\ mixed' \in BOOLEAN
    BY <1>1 DEF SaveActions
  <2> QED BY <1>1, <1>t, <1>o, <2>1 DEF SaveActions, Click, StoryTypes
<1>2. ASSUME ApplyVoiceConfig PROVE StoryTypes'
  <2>1. blind' \in BOOLEAN
    BY <1>2 DEF ApplyVoiceConfig
  <2> QED BY <1>2, <1>t, <1>o, <2>1 DEF ApplyVoiceConfig, Click, StoryTypes
<1>3. ASSUME NEW box, ToggleBox(box) PROVE StoryTypes'
  BY <1>3, <1>t, <1>o DEF ToggleBox, Click, StoryTypes, storyVars
<1>4. ASSUME NEW kind, Press(kind) PROVE StoryTypes'
  <2>1. crossed' \in BOOLEAN
    BY <1>4 DEF Press
  <2> QED BY <1>4, <1>t, <1>o, <2>1 DEF Press, Click, StoryTypes
<1>5. User => StoryTypes' \/ Quiet
  <2>1. ASSUME NEW a \in Actions, NEW p, TypePhrase(a, p) PROVE StoryTypes'
    BY <2>1, <1>t, <1>o DEF TypePhrase, StoryTypes
  <2> QED BY <1>1, <1>2, <1>3, <1>4, <2>1, SaveFacts DEF User
<1>6. ASSUME NEW t \in Task, Resume(t) PROVE StoryTypes'
  <2>1. ahead' \in [Task -> SUBSET Task] /\ overtaken' \subseteq Task
    BY <1>6, <1>t DEF Resume
  <2>2. behind' \in BOOLEAN
    <3>1. CASE HasState(t)
      BY <1>6, <3>1 DEF Resume
    <3>2. CASE ~HasState(t)
      BY <1>6, <1>t, <3>2 DEF Resume
    <3> QED BY <3>1, <3>2
  <2> QED BY <1>6, <1>t, <2>1, <2>2 DEF Resume, StoryTypes, storyVars
<1>7. ASSUME Handle PROVE StoryTypes' \/ Gone
  <2>1. OnSaved => StoryTypes'
    <3> SUFFICES ASSUME OnSaved PROVE StoryTypes'
      OBVIOUS
    <3>1. late' \in BOOLEAN /\ blind' \in BOOLEAN
      BY <1>t DEF OnSaved
    <3> QED BY <1>t, <1>o, <3>1 DEF OnSaved, StoryTypes
  <2>2. OnRotated => StoryTypes'
    <3> SUFFICES ASSUME OnRotated PROVE StoryTypes'
      OBVIOUS
    <3>1. misread' \in BOOLEAN
      BY DEF OnRotated
    <3> QED BY <1>t, <1>o, <3>1 DEF OnRotated, StoryTypes
  <2>3. (OnListener \/ OnApplied \/ OnStartup \/ OnRevealed \/ OnSnapshot \/ \E kind \in {"other", "export"} : OnTold(kind))
          => StoryTypes'
    BY <1>t, <1>o DEF OnListener, OnApplied, OnStartup, OnRevealed, OnSnapshot, OnTold, StoryTypes, storyVars
  <2> QED BY <1>7, <2>1, <2>2, <2>3 DEF Handle, OnDisconnected
<1>8. ASSUME Gone PROVE StoryTypes'
  BY <1>8, <1>t DEF Gone, StoryTypes
<1>9. ASSUME Worker PROVE StoryTypes'
  <2>1. ahead' \in [Task -> SUBSET Task]
    BY <1>9, <1>t DEF Worker
  <2> QED BY <1>9, <1>t, <2>1 DEF Worker, StoryTypes, storyVars
<1>10. ASSUME Serve PROVE StoryTypes'
  BY <1>10, <1>t, <1>o, ServeFacts DEF Serve, StoryTypes
<1>11. ASSUME \/ Refresh \/ Lost \/ TrayToggles \/ UNCHANGED vars
              \/ \E t \in Task : SubmitTask(t) \/ TimeoutTask(t)
       PROVE  StoryTypes'
  BY <1>11, <1>t, <1>o DEF Refresh, Lost, TrayToggles, SubmitTask, TimeoutTask, vars, StoryTypes, storyVars
<1>12. Quiet => StoryTypes'
  BY <1>t, <1>o DEF Quiet, StoryTypes
<1> QED
  BY <1>5, <1>6, <1>7, <1>8, <1>9, <1>10, <1>11, <1>12 DEF Next, Run, Close

\* The events keep their types.
LEMMA EventsStep ==
  ASSUME Types, Calls, [Next]_vars
  PROVE  events' \in Seq(Report) /\ \A i \in DOMAIN events' : ValOf(events'[i])
<1>t. events \in Seq(Report) /\ \A i \in DOMAIN events : ValOf(events[i])
  BY DEF Types, FieldTypes
<1>1. ASSUME NEW t \in Task, Resume(t)
      PROVE  events' \in Seq(Report) /\ \A i \in DOMAIN events' : ValOf(events'[i])
  <2>1. PICK e \in Report : ValOf(e) /\ events' = Append(events, e)
    BY <1>1, ResumeFacts
  <2>2. PICK n \in DOMAIN events' :
          /\ events' \in Seq(Report) /\ events'[n] = e /\ DOMAIN events' = DOMAIN events \cup {n}
          /\ \A i \in DOMAIN events : events'[i] = events[i]
    BY <1>t, <2>1, QueueFacts
  <2> QED BY <1>t, <2>1, <2>2
<1>2. ASSUME Handling PROVE events' \in Seq(Report) /\ \A i \in DOMAIN events' : ValOf(events'[i])
  BY <1>2, <1>t, HandleFacts DEF Handling
<1>3. ASSUME Gone PROVE events' \in Seq(Report) /\ \A i \in DOMAIN events' : ValOf(events'[i])
  <2>1. events' = <<>> /\ <<>> \in Seq(Report) /\ DOMAIN <<>> = {}
    BY <1>3, EmptySeq, LenProperties DEF Gone
  <2> QED BY <2>1
<1>4. ASSUME \/ Clicked \/ Refresh \/ Worker \/ Serve \/ Lost \/ Quiet
             \/ \E t \in Task : SubmitTask(t) \/ TimeoutTask(t)
      PROVE  events' = events
  BY <1>4 DEF Clicked, Click, Refresh, Worker, Serve, Lost, Quiet, SubmitTask, TimeoutTask, windowVars
<1> QED BY <1>t, <1>1, <1>2, <1>3, <1>4, Steps

\* What is shared keeps its types.
LEMMA SharedStep ==
  ASSUME Types, Calls, [Next]_vars
  PROVE  /\ open' \in BOOLEAN /\ link' \in BOOLEAN /\ clicks' \in 0 .. MaxClicks /\ token' \in Nat
         /\ daemon' \in State /\ view' \in State
<1>t. /\ open \in BOOLEAN /\ link \in BOOLEAN /\ clicks \in 0 .. MaxClicks /\ token \in Nat
      /\ daemon \in State /\ view \in State /\ MaxClicks \in Nat
  BY Constants DEF Types, FieldTypes
<1> DEFINE Goal == /\ open' \in BOOLEAN /\ link' \in BOOLEAN /\ clicks' \in 0 .. MaxClicks /\ token' \in Nat
                   /\ daemon' \in State /\ view' \in State
<1>1. ASSUME Clicked PROVE Goal
  <2>1. clicks' \in 0 .. MaxClicks
    BY <1>1, <1>t DEF Clicked, Click
  <2> QED BY <1>1, <1>t, <2>1 DEF Clicked, Click
<1>2. ASSUME NEW t \in Task, Resume(t) PROVE Goal
  <2>1. view' \in State
    BY <1>2, ResumeFacts
  <2> QED BY <1>2, <1>t, <2>1 DEF Resume
<1>3. ASSUME Gone PROVE Goal
  <2>1. clicks' \in 0 .. MaxClicks
    BY <1>3, <1>t DEF Gone
  <2> QED BY <1>3, <1>t, <2>1 DEF Gone, Exit
<1>4. ASSUME Serve PROVE Goal
  BY <1>4, <1>t, ServeFacts DEF Serve, windowVars
<1>5. ASSUME Lost PROVE Goal
  BY <1>5, <1>t DEF Lost, Disconnect, windowVars
<1>6. ASSUME Quiet PROVE Goal
  BY <1>6, <1>t DEF Quiet, channelVars
<1>7. ASSUME Handling PROVE Goal
  BY <1>7, <1>t DEF Handling, channelVars
<1>8. ASSUME \/ Refresh \/ Worker \/ \E t \in Task : SubmitTask(t) \/ TimeoutTask(t)
      PROVE  Goal
  BY <1>8, <1>t DEF Refresh, Worker, WorkerTakes, WorkerReplies, SubmitTask, Submit, TimeoutTask, Timeout, CallWorker,
     windowVars
<1> HIDE DEF Goal
<1>9. Goal
  BY <1>1, <1>2, <1>3, <1>4, <1>5, <1>6, <1>7, <1>8, Steps
<1> QED BY <1>9 DEF Goal

\* The window's own fields keep their types.
LEMMA BoxStep ==
  ASSUME Types, Calls, [Next]_vars
  PROVE  /\ pending' \subseteq Flags /\ checked' \in [{"listener", "startup"} -> BOOLEAN]
         /\ drafts' \in [Actions -> Phrases \cup {NoPhrase}]
         /\ shown' \in Nat \cup {NoToken} /\ typed' \subseteq Actions
         /\ promised' \in [Actions -> Entry \cup {Absent, NoPromise}]
<1>t. /\ pending \subseteq Flags /\ checked \in [{"listener", "startup"} -> BOOLEAN]
      /\ drafts \in [Actions -> Phrases \cup {NoPhrase}]
      /\ shown \in Nat \cup {NoToken} /\ typed \subseteq Actions
      /\ promised \in [Actions -> Entry \cup {Absent, NoPromise}]
  BY DEF Types, FieldTypes
<1>v. /\ view.table \in [Actions -> Entry \cup {Absent}] /\ view.listener \in BOOLEAN /\ view.startup \in BOOLEAN
  BY DEF Types, FieldTypes, State, Table
<1>e. events # <<>> => Head(events) \in Report /\ ValOf(Head(events))
  BY HandleFacts DEF Types, FieldTypes
<1> DEFINE Goal == /\ pending' \subseteq Flags /\ checked' \in [{"listener", "startup"} -> BOOLEAN]
                   /\ drafts' \in [Actions -> Phrases \cup {NoPhrase}]
                   /\ shown' \in Nat \cup {NoToken} /\ typed' \subseteq Actions
                   /\ promised' \in [Actions -> Entry \cup {Absent, NoPromise}]
<1>c. ASSUME NEW kind, NEW arg, Click(kind, arg) PROVE pending' \subseteq Flags /\ shown' = shown
  BY <1>c, <1>t DEF Click
<1>1. ASSUME NEW table, NEW touched, SaveActions(table, touched) PROVE Goal
  <2>1. promised' \in [Actions -> Entry \cup {Absent, NoPromise}]
    BY <1>1, <1>t DEF SaveActions
  <2>2. pending' \subseteq Flags /\ UNCHANGED <<shown, checked, drafts, typed>>
    BY <1>1, <1>c DEF SaveActions
  <2> QED BY <1>t, <2>1, <2>2
<1>2. ASSUME ApplyVoiceConfig PROVE Goal
  BY <1>2, <1>c, <1>t DEF ApplyVoiceConfig
<1>3. ASSUME NEW box \in {"listener", "startup"}, ToggleBox(box) PROVE Goal
  <2>1. checked' \in [{"listener", "startup"} -> BOOLEAN]
    BY <1>3, <1>t DEF ToggleBox
  <2>2. pending' \subseteq Flags /\ UNCHANGED <<shown, drafts, typed, promised>>
    BY <1>3, <1>c DEF ToggleBox, storyVars
  <2> QED BY <1>t, <2>1, <2>2
<1>4. ASSUME NEW kind, Press(kind) PROVE Goal
  BY <1>4, <1>c, <1>t DEF Press
<1>5. ASSUME NEW a \in Actions, NEW p \in Phrases \cup {NoPhrase}, TypePhrase(a, p) PROVE Goal
  <2>1. drafts' \in [Actions -> Phrases \cup {NoPhrase}] /\ typed' \subseteq Actions
    BY <1>5, <1>t DEF TypePhrase
  <2> QED BY <1>5, <1>t, <2>1 DEF TypePhrase
<1>6. User => Goal
  <2> HIDE DEF Goal
  <2> QED BY <1>1, <1>2, <1>3, <1>4, <1>5, SaveFacts DEF User
<1>7. ASSUME Refresh PROVE Goal
  BY <1>7, <1>t DEF Refresh, storyVars, Flags
<1>8. ASSUME OnListener PROVE Goal
  <2>1. Head(events).val \in BOOLEAN
    BY <1>8, <1>e DEF OnListener, Event, ValOf
  <2>2. checked' \in [{"listener", "startup"} -> BOOLEAN]
    BY <1>8, <1>t, <2>1 DEF OnListener
  <2> QED BY <1>8, <1>t, <2>2 DEF OnListener, storyVars
<1>9. ASSUME OnSaved PROVE Goal
  <2>1. Head(events).ok => Head(events).val \in [Actions -> Entry \cup {Absent}]
    BY <1>9, <1>e DEF OnSaved, Event, ValOf, Table
  <2>2. promised' \in [Actions -> Entry \cup {Absent, NoPromise}]
    BY <1>9, <1>t, <2>1 DEF OnSaved
  <2>3. DraftsOf(view.table) \in [Actions -> Phrases \cup {NoPhrase}]
    BY <1>v DEF DraftsOf, Entry
  <2>4. drafts' \in [Actions -> Phrases \cup {NoPhrase}] /\ typed' \subseteq Actions
    BY <1>9, <1>t, <2>3 DEF OnSaved
  <2> QED BY <1>9, <1>t, <2>2, <2>4 DEF OnSaved
<1>10. ASSUME OnApplied PROVE Goal
  BY <1>10, <1>t DEF OnApplied, storyVars
<1>11. ASSUME OnStartup PROVE Goal
  <2>1. checked' \in [{"listener", "startup"} -> BOOLEAN]
    BY <1>11, <1>t, <1>v DEF OnStartup
  <2> QED BY <1>11, <1>t, <2>1 DEF OnStartup, storyVars
<1>12. ASSUME OnRotated PROVE Goal
  <2>1. checked' \in [{"listener", "startup"} -> BOOLEAN]
    BY <1>12, <1>t, <1>v DEF OnRotated
  <2> QED BY <1>12, <1>t, <2>1 DEF OnRotated
<1>13. ASSUME OnRevealed PROVE Goal
  <2>1. shown' \in Nat \cup {NoToken}
    BY <1>13, <1>e DEF OnRevealed, Event, ValOf
  <2> QED BY <1>13, <1>t, <2>1 DEF OnRevealed, storyVars
<1>14. ASSUME OnSnapshot PROVE Goal
  <2>1. checked' \in [{"listener", "startup"} -> BOOLEAN]
    BY <1>14, <1>t, <1>v DEF OnSnapshot
  <2> QED BY <1>14, <1>t, <2>1 DEF OnSnapshot, storyVars
<1>15. ASSUME NEW kind, OnTold(kind) PROVE Goal
  BY <1>15, <1>t DEF OnTold, boxVars, storyVars
<1>16. ASSUME Gone PROVE Goal
  BY <1>16, <1>t DEF Gone
<1>17. Handle \/ Close => Goal
  <2> HIDE DEF Goal
  <2> QED BY <1>8, <1>9, <1>10, <1>11, <1>12, <1>13, <1>14, <1>15, <1>16 DEF Handle, Close, OnDisconnected
<1>18. ASSUME \/ Worker \/ Serve \/ Lost \/ TrayToggles \/ UNCHANGED vars
              \/ \E t \in Task : SubmitTask(t) \/ TimeoutTask(t) \/ Resume(t)
       PROVE  Goal
  BY <1>18, <1>t DEF Worker, Serve, Lost, TrayToggles, SubmitTask, TimeoutTask, Resume, vars, windowVars, boxVars,
     storyVars
<1> HIDE DEF Goal
<1>19. Goal
  BY <1>6, <1>7, <1>17, <1>18 DEF Next, Run
<1> QED BY <1>19 DEF Goal

\* The types.
LEMMA TypesStep ==
  ASSUME Types, Calls, [Next]_vars
  PROVE  Types'
<1>1. TaskTypes' /\ WireTypes' /\ StoryTypes'
  BY TaskStep, WireStep, StoryStep
<1>2. FieldTypes'
  BY EventsStep, SharedStep, BoxStep DEF FieldTypes
<1> QED BY <1>1, <1>2 DEF Types

-----------------------------------------------------------------------------
(* The calls *)

\* The poll is not under way when the next one starts.
LEMMA PollFacts ==
  ASSUME Types, FlagsExact, Refresh
  PROVE  /\ 0 \in Task /\ task[0].at = "none" /\ CallWorker(0, "refresh", NoArg) /\ "refresh" \in Kind /\ NoArg \in Arg
         /\ open /\ ~Carried("refresh")
<1>1. open /\ "refresh" \notin pending /\ CallWorker(0, "refresh", NoArg) /\ 0 \in Task
  BY Constants DEF Refresh
<1>2. ~Carried("refresh")
  BY <1>1 DEF FlagsExact, Carried, Flags
<1>3. task[0].at = "none"
  BY <1>1, <1>2 DEF Carried, Types, TaskTypes, Busy, At
<1> QED BY <1>1, <1>2, <1>3 DEF Kind, Flags, Arg

\* A spawned task gets to its call.
LEMMA SubmitFacts ==
  ASSUME Types, NEW t \in Task, SubmitTask(t)
  PROVE  /\ task[t].at = "spawned" /\ CallWorker(t, task[t].kind, task[t].arg)
         /\ task[t].kind \in Kind /\ task[t].arg \in Arg
         /\ UNCHANGED <<open, view, pending, checked, drafts, shown, events, clicks, daemon, token, orderVars, storyVars>>
<1>1. task[t].at = "spawned" /\ CallWorker(t, task[t].kind, task[t].arg)
  BY DEF SubmitTask, Submit, At
<1>2. task[t].kind \in Kind /\ task[t].arg \in Arg
  BY <1>1 DEF Types, TaskTypes, TaskRecord, Busy, At
<1> QED BY <1>1, <1>2 DEF SubmitTask, windowVars, boxVars

\* A call that somebody waits for stays that task's.
LEMMA CallsStep ==
  ASSUME Types, Calls, FlagsExact, [Next]_vars
  PROVE  Calls'
<1>t. /\ queue \in Call \cup {NoCall} /\ worker \in Call \cup {NoCall}
      /\ NoCall \notin Call
      /\ \A c \in Call : c.by \in Task /\ c.live \in BOOLEAN
  BY Constants DEF Types, WireTypes
<1>c. /\ (worker = NoCall) <=> (pipe = "empty")
      /\ \A t \in Task : task[t].at = "waiting" <=> (Awaited(queue, t) \/ Awaited(worker, t))
      /\ \A t \in Task : ~(Awaited(queue, t) /\ Awaited(worker, t))
      /\ \A t \in Task : Awaited(queue, t) => task[t].kind = queue.kind /\ task[t].arg = queue.arg
      /\ \A t \in Task : Awaited(worker, t) => task[t].kind = worker.kind /\ task[t].arg = worker.arg
  BY DEF Calls, At
<1>1. ASSUME Clicked PROVE Calls'
  <2>1. PICK kind \in Kind \ {"refresh"}, arg \in Arg : ArgOf(kind, arg) /\ Click(kind, arg)
    BY <1>1 DEF Clicked
  <2>2. PICK n \in Task :
          /\ ~Busy(n)
          /\ task'[n] = [at |-> "spawned", kind |-> kind, arg |-> arg, got |-> NoReply]
          /\ \A u \in Task : u # n => task'[u] = task[u]
    BY <2>1, ClickFacts
  <2>3. UNCHANGED <<queue, worker, pipe>>
    BY <2>1 DEF Click, wireVars
  <2> QED BY <1>c, <2>2, <2>3 DEF Calls, Busy, At, Awaited
<1>2. ASSUME NEW t \in Task, NEW kind \in Kind, NEW arg \in Arg, CallWorker(t, kind, arg), task[t].at \in {"none", "spawned"}
      PROVE  Calls'
  <2>1. /\ \A u \in Task : u # t => task'[u] = task[u]
        /\ task'[t].kind = kind /\ task'[t].arg = arg
        /\ \/ /\ queue = NoCall /\ task'[t].at = "waiting" /\ queue' # NoCall
              /\ queue' = [by |-> t, kind |-> kind, arg |-> arg, live |-> TRUE]
           \/ queue' = queue /\ task'[t].at \in {"full", "failed"}
        /\ UNCHANGED <<worker, pipe>>
    BY <1>2, CallFacts
  <2> QED BY <1>c, <1>2, <2>1 DEF Calls, At, Awaited
<1>3. ASSUME Refresh PROVE Calls'
  BY <1>2, <1>3, PollFacts
<1>4. ASSUME NEW t \in Task, SubmitTask(t) PROVE Calls'
  BY <1>2, <1>4, SubmitFacts
<1>5. ASSUME NEW t \in Task, TimeoutTask(t) PROVE Calls'
  <2>1. Timeout(t)
    BY <1>5 DEF TimeoutTask
  <2>2. ASSUME NEW u \in Task
        PROVE  /\ Awaited(queue', u) <=> (Awaited(queue, u) /\ u # t)
               /\ Awaited(worker', u) <=> (Awaited(worker, u) /\ u # t)
    BY <2>1, TimeoutFacts DEF Awaited
  <2>3. /\ \A u \in Task : u # t => task'[u] = task[u]
        /\ task'[t].at = "failed" /\ pipe' = pipe /\ (worker' = NoCall <=> worker = NoCall)
        /\ queue # NoCall => queue'.kind = queue.kind /\ queue'.arg = queue.arg
        /\ worker # NoCall => worker'.kind = worker.kind /\ worker'.arg = worker.arg
    BY <2>1, TimeoutFacts
  <2>4. \A u \in Task : (Awaited(queue, u) => queue # NoCall) /\ (Awaited(worker, u) => worker # NoCall)
    BY DEF Awaited
  <2>5. \A u \in Task : (At(u, "waiting"))' <=> (task'[u].at = "waiting")
    BY DEF At
  <2> QED BY <1>c, <2>2, <2>3, <2>4, <2>5 DEF Calls
<1>6. ASSUME NEW t \in Task, Resume(t) PROVE Calls'
  <2>1. /\ task'[t].at = "none" /\ task[t].at # "waiting"
        /\ \A u \in Task : u # t => task'[u] = task[u]
    BY <1>6, ResumeFacts
  <2>2. UNCHANGED <<queue, worker, pipe>>
    BY <1>6 DEF Resume, wireVars
  <2> QED BY <1>c, <2>1, <2>2 DEF Calls, At, Awaited
<1>7. ASSUME Gone PROVE Calls'
  BY <1>7, <1>c, GoneFacts DEF Calls, At, Awaited
<1>8. ASSUME Worker PROVE Calls'
  <2>1. CASE WorkerTakes
    BY <1>c, <2>1 DEF WorkerTakes, Calls, At, Awaited
  <2>2. CASE WorkerReplies
    <3>1. CASE ~worker.live
      BY <1>c, <2>2, <3>1, ReplyFacts DEF Calls, At, Awaited
    <3>2. CASE worker.live
      BY <1>c, <2>2, <3>2, ReplyFacts DEF Calls, At, Awaited
    <3> QED BY <3>1, <3>2
  <2> QED BY <1>8, <2>1, <2>2 DEF Worker
<1>9. ASSUME Lost PROVE Calls'
  BY <1>9, LostFacts DEF Lost, Calls, At, Awaited
<1>10. ASSUME Serve PROVE Calls'
  BY <1>10, <1>c, ServeFacts DEF Calls, At, Awaited
<1>11. ASSUME Handling \/ Quiet PROVE Calls'
  BY <1>11, <1>c DEF Handling, Quiet, channelVars, wireVars, Calls, At, Awaited
<1> QED BY <1>1, <1>3, <1>4, <1>5, <1>6, <1>7, <1>8, <1>9, <1>10, <1>11, Steps

-----------------------------------------------------------------------------
(* The carriers of a request *)

\* Steps that neither start a task nor end one.
Between ==
  \/ Worker \/ Serve \/ Lost \/ Quiet
  \/ \E t \in Task : SubmitTask(t) \/ TimeoutTask(t)

\* They leave the carriers alone.
LEMMA BetweenFacts ==
  ASSUME Types, Calls, Between
  PROVE  /\ \A t \in Task : /\ task'[t].at = "none" <=> task[t].at = "none"
                            /\ task'[t].kind = task[t].kind /\ task'[t].arg = task[t].arg
         /\ UNCHANGED <<open, view, pending, shown, events, overtaken, behind, blind, promised, late, mixed, crossed, misread>>
<1>1. ASSUME Worker
      PROVE  \A t \in Task : /\ task'[t].at = "none" <=> task[t].at = "none"
                             /\ task'[t].kind = task[t].kind /\ task'[t].arg = task[t].arg
  <2>1. CASE WorkerTakes
    BY <2>1 DEF WorkerTakes
  <2>2. CASE WorkerReplies
    BY <2>2, ReplyFacts
  <2> QED BY <1>1, <2>1, <2>2 DEF Worker
<1>2. ASSUME Lost
      PROVE  \A t \in Task : /\ task'[t].at = "none" <=> task[t].at = "none"
                             /\ task'[t].kind = task[t].kind /\ task'[t].arg = task[t].arg
  BY <1>2, LostFacts DEF Lost
<1>3. ASSUME Serve \/ Quiet PROVE task' = task
  BY <1>3, ServeFacts DEF Quiet, channelVars
<1>4. ASSUME NEW t \in Task, SubmitTask(t)
      PROVE  \A u \in Task : /\ task'[u].at = "none" <=> task[u].at = "none"
                             /\ task'[u].kind = task[u].kind /\ task'[u].arg = task[u].arg
  BY <1>4, SubmitFacts, CallFacts
<1>5. ASSUME NEW t \in Task, TimeoutTask(t)
      PROVE  \A u \in Task : /\ task'[u].at = "none" <=> task[u].at = "none"
                             /\ task'[u].kind = task[u].kind /\ task'[u].arg = task[u].arg
  BY <1>5, TimeoutFacts DEF TimeoutTask
<1>6. UNCHANGED <<open, view, pending, shown, events, overtaken, behind, blind, promised, late, mixed, crossed, misread>>
  BY DEF Between, Worker, Serve, Lost, Quiet, SubmitTask, TimeoutTask, windowVars, boxVars, orderVars, storyVars
<1> QED BY <1>1, <1>2, <1>3, <1>4, <1>5, <1>6 DEF Between

\* The same, said of the requests they carry.
LEMMA BetweenCarried ==
  ASSUME Types, Calls, Between, NEW kind
  PROVE  Carried(kind)' <=> Carried(kind)
<1>1. /\ \A t \in Task : (task'[t].at = "none" <=> task[t].at = "none") /\ task'[t].kind = task[t].kind
      /\ events' = events
  BY BetweenFacts
<1> QED BY <1>1 DEF Carried, Busy, At

\* A new task carries its request.
LEMMA StartCarried ==
  ASSUME Types, NEW n \in Task, ~Busy(n), NEW kind, task'[n].kind = kind, task'[n].at # "none",
         \A u \in Task : u # n => task'[u] = task[u], events' = events, NEW k
  PROVE  Carried(k)' <=> (Carried(k) \/ k = kind)
BY DEF Carried, Busy, At

\* A task hands its request to its event.
LEMMA ResumeCarried ==
  ASSUME Types, NEW t \in Task, Resume(t), NEW k
  PROVE  Carried(k)' <=> Carried(k)
<1>1. PICK e \in Report : events' = Append(events, e) /\ e.kind = task[t].kind
  BY ResumeFacts
<1>2. PICK n \in DOMAIN events' :
        /\ n \notin DOMAIN events /\ events'[n] = e
        /\ DOMAIN events' = DOMAIN events \cup {n}
        /\ \A i \in DOMAIN events : events'[i] = events[i]
  BY <1>1, QueueFacts DEF Types, FieldTypes
<1>3. /\ task'[t].at = "none" /\ task[t].at # "none"
      /\ \A u \in Task : u # t => task'[u] = task[u]
  BY ResumeFacts DEF Busy, At
<1> QED BY <1>1, <1>2, <1>3 DEF Carried, Busy, At

\* The event at the head of the queue is gone.
LEMMA HandleCarried ==
  ASSUME Types, Handling, NEW k
  PROVE  /\ Carried(k)' => Carried(k)
         /\ Carried(k) => Carried(k)' \/ k = Head(events).kind
         /\ Carried(Head(events).kind)
<1>1. /\ events \in Seq(Report) /\ events # <<>> /\ events' = Tail(events) /\ task' = task
  BY DEF Types, FieldTypes, Handling, channelVars
<1>2. /\ 1 \in DOMAIN events /\ Head(events) = events[1]
      /\ \A i \in DOMAIN events' : i + 1 \in DOMAIN events /\ events'[i] = events[i + 1]
      /\ \A i \in DOMAIN events : i # 1 => i - 1 \in DOMAIN events' /\ events'[i - 1] = events[i]
  BY <1>1, HandleFacts
<1>3. ASSUME NEW i \in DOMAIN events' PROVE \E j \in DOMAIN events : events'[i].kind = events[j].kind
  BY <1>2
<1>4. ASSUME NEW i \in DOMAIN events, i # 1 PROVE \E j \in DOMAIN events' : events'[j].kind = events[i].kind
  BY <1>2, <1>4
<1> QED BY <1>1, <1>2, <1>3, <1>4 DEF Carried, Busy, At

\* A flagged request keeps one carrier.
LEMMA CarriersStep ==
  ASSUME Types, Calls, Carriers, FlagsExact, [Next]_vars
  PROVE  Carriers'
<1>c. /\ \A t, u \in Task : task[t].at # "none" /\ task[u].at # "none" /\ task[t].kind = task[u].kind
           /\ task[t].kind \in Flags => t = u
      /\ \A i, j \in DOMAIN events : events[i].kind = events[j].kind /\ events[i].kind \in Flags => i = j
      /\ \A t \in Task, i \in DOMAIN events :
           task[t].at # "none" /\ task[t].kind \in Flags => events[i].kind # task[t].kind
      /\ ~open => events = <<>> /\ \A t \in Task : task[t].at = "none"
  BY DEF Carriers, Busy, At
<1>1. ASSUME Between PROVE Carriers'
  <2>1. /\ \A t \in Task : (task'[t].at = "none" <=> task[t].at = "none") /\ task'[t].kind = task[t].kind
        /\ UNCHANGED <<events, open>>
    BY <1>1, BetweenFacts
  <2> QED BY <1>c, <2>1 DEF Carriers, Busy, At
<1>2. ASSUME NEW n \in Task, ~Busy(n), NEW kind, kind \in Flags => ~Carried(kind), open', events' = events,
             task'[n].kind = kind, \A u \in Task : u # n => task'[u] = task[u]
      PROVE  Carriers'
  BY <1>c, <1>2 DEF Carriers, Carried, Busy, At
<1>3. ASSUME Clicked PROVE Carriers'
  <2>1. PICK kind \in Kind \ {"refresh"}, arg \in Arg : ArgOf(kind, arg) /\ kind \notin pending /\ Click(kind, arg)
    BY <1>3 DEF Clicked
  <2>2. kind \in Flags => ~Carried(kind)
    BY <2>1 DEF Click, FlagsExact, Carried
  <2>3. PICK n \in Task :
          /\ ~Busy(n)
          /\ task'[n] = [at |-> "spawned", kind |-> kind, arg |-> arg, got |-> NoReply]
          /\ \A u \in Task : u # n => task'[u] = task[u]
    BY <2>1, ClickFacts
  <2>4. open' /\ events' = events /\ task'[n].kind = kind
    BY <2>1, <2>3 DEF Click
  <2> QED BY <1>2, <2>2, <2>3, <2>4
<1>4. ASSUME Refresh PROVE Carriers'
  <2>1. ~Busy(0) /\ 0 \in Task /\ ~Carried("refresh") /\ open' /\ events' = events
    BY <1>4, PollFacts DEF Busy, At, Refresh
  <2>2. task'[0].kind = "refresh" /\ \A u \in Task : u # 0 => task'[u] = task[u]
    BY <1>4, PollFacts, CallFacts
  <2> QED BY <1>2, <2>1, <2>2
<1>5. ASSUME NEW t \in Task, Resume(t) PROVE Carriers'
  <2>1. PICK e \in Report : events' = Append(events, e) /\ e.kind = task[t].kind
    BY <1>5, ResumeFacts
  <2>2. PICK n \in DOMAIN events' :
          /\ n \notin DOMAIN events /\ events'[n] = e
          /\ DOMAIN events' = DOMAIN events \cup {n}
          /\ \A i \in DOMAIN events : events'[i] = events[i]
    BY <2>1, QueueFacts DEF Types, FieldTypes
  <2>3. /\ task'[t].at = "none" /\ task[t].at # "none"
        /\ \A u \in Task : u # t => task'[u] = task[u]
        /\ open' = open
    BY <1>5, ResumeFacts DEF Busy, At, Resume
  <2> QED BY <1>c, <2>1, <2>2, <2>3 DEF Carriers, Busy, At
<1>6. ASSUME Handling PROVE Carriers'
  <2>1. events \in Seq(Report) /\ events # <<>> /\ events' = Tail(events) /\ task' = task /\ open'
    BY <1>6 DEF Types, FieldTypes, Handling, channelVars
  <2>2. /\ DOMAIN events \subseteq Nat \ {0} /\ DOMAIN events' \subseteq Nat \ {0}
        /\ \A i \in DOMAIN events' : i + 1 \in DOMAIN events /\ events'[i] = events[i + 1]
    BY <2>1, HandleFacts
  <2>3. ASSUME NEW i \in DOMAIN events', NEW j \in DOMAIN events', events'[i].kind = events'[j].kind,
               events'[i].kind \in Flags
        PROVE  i = j
    <3>1. i + 1 = j + 1
      BY <1>c, <2>2, <2>3
    <3>2. i \in Nat /\ j \in Nat
      BY <2>2
    <3> QED BY <3>1, <3>2
  <2>4. \A t \in Task, i \in DOMAIN events' :
           task[t].at # "none" /\ task[t].kind \in Flags => events'[i].kind # task[t].kind
    BY <1>c, <2>2
  <2> QED BY <1>c, <2>1, <2>3, <2>4 DEF Carriers, Busy, At
<1>7. ASSUME Gone PROVE Carriers'
  <2>1. events' = <<>> /\ DOMAIN <<>> = {}
    BY <1>7, EmptySeq, LenProperties DEF Gone
  <2> QED BY <1>7, <2>1, GoneFacts DEF Carriers, Busy, At
<1> QED BY <1>1, <1>3, <1>4, <1>5, <1>6, <1>7, Steps DEF Between

\* A flag stays set exactly while its request is under way.
LEMMA FlagsStep ==
  ASSUME Types, Calls, Carriers, FlagsExact, [Next]_vars
  PROVE  FlagsExact'
<1>c. open => \A k \in Flags : k \in pending <=> Carried(k)
  BY DEF FlagsExact, Carried
<1>s. SUFFICES ASSUME open' PROVE \A k \in Flags : k \in pending' <=> Carried(k)'
  BY DEF FlagsExact, Carried
<1>1. ASSUME Between PROVE \A k \in Flags : k \in pending' <=> Carried(k)'
  BY <1>1, <1>c, <1>s, BetweenFacts, BetweenCarried
<1>2. ASSUME Clicked PROVE \A k \in Flags : k \in pending' <=> Carried(k)'
  <2>1. PICK kind \in Kind \ {"refresh"}, arg \in Arg : Click(kind, arg)
    BY <1>2 DEF Clicked
  <2>2. PICK n \in Task :
          /\ ~Busy(n)
          /\ task'[n] = [at |-> "spawned", kind |-> kind, arg |-> arg, got |-> NoReply]
          /\ \A u \in Task : u # n => task'[u] = task[u]
    BY <2>1, ClickFacts
  <2>3. open /\ events' = events /\ task'[n].kind = kind /\ task'[n].at # "none" /\ pending' = pending \cup ({kind} \cap Flags)
    BY <2>1, <2>2 DEF Click
  <2>4. \A k : Carried(k)' <=> (Carried(k) \/ k = kind)
    BY <2>2, <2>3, StartCarried
  <2> QED BY <1>c, <2>3, <2>4
<1>3. ASSUME Refresh PROVE \A k \in Flags : k \in pending' <=> Carried(k)'
  <2>1. ~Busy(0) /\ 0 \in Task /\ open /\ events' = events /\ pending' = pending \cup {"refresh"}
    BY <1>3, PollFacts DEF Busy, At, Refresh
  <2>2. task'[0].kind = "refresh" /\ task'[0].at # "none" /\ \A u \in Task : u # 0 => task'[u] = task[u]
    BY <1>3, PollFacts, CallFacts
  <2>3. \A k : Carried(k)' <=> (Carried(k) \/ k = "refresh")
    BY <2>1, <2>2, StartCarried
  <2> QED BY <1>c, <2>1, <2>3
<1>4. ASSUME NEW t \in Task, Resume(t) PROVE \A k \in Flags : k \in pending' <=> Carried(k)'
  <2>1. pending' = pending /\ open' = open
    BY <1>4 DEF Resume, boxVars
  <2> QED BY <1>4, <1>c, <1>s, <2>1, ResumeCarried
<1>5. ASSUME Handling PROVE \A k \in Flags : k \in pending' <=> Carried(k)'
  <2> DEFINE h == Head(events).kind
  <2>1. pending' = pending \ {h} /\ open
    BY <1>5 DEF Handling
  <2>2. \A k : (Carried(k)' => Carried(k)) /\ (Carried(k) => Carried(k)' \/ k = h)
    BY <1>5, HandleCarried
  <2>3. ASSUME NEW k \in Flags, k = h PROVE ~Carried(k)'
    <3>1. /\ events \in Seq(Report) /\ events # <<>> /\ events' = Tail(events) /\ task' = task
      BY <1>5 DEF Types, FieldTypes, Handling, channelVars
    <3>2. /\ 1 \in DOMAIN events /\ Head(events) = events[1] /\ DOMAIN events' \subseteq Nat \ {0}
          /\ \A i \in DOMAIN events' : i + 1 \in DOMAIN events /\ events'[i] = events[i + 1]
      BY <3>1, HandleFacts
    <3>3. ASSUME NEW i \in DOMAIN events' PROVE events'[i].kind # k
      <4>1. i + 1 # 1 /\ i + 1 \in DOMAIN events /\ events'[i] = events[i + 1]
        BY <3>2
      <4> QED BY <2>3, <3>2, <4>1 DEF Carriers
    <3>4. ASSUME NEW t \in Task PROVE ~(Busy(t) /\ task[t].kind = k)
      BY <2>3, <3>2 DEF Carriers
    <3> QED BY <3>1, <3>3, <3>4 DEF Carried, Busy, At
  <2> HIDE DEF h
  <2> QED BY <1>c, <2>1, <2>2, <2>3
<1>6. ~Gone
  BY <1>s DEF Gone
<1> QED BY <1>1, <1>2, <1>3, <1>4, <1>5, <1>6, Steps DEF Between

-----------------------------------------------------------------------------
(* Requests that are under way *)

\* A request is under way while it is carried or on the wire.
LEMMA UnderWayParts ==
  ASSUME NEW k
  PROVE  /\ UnderWay(k) <=> (Carried(k) \/ OnWire(k))
         /\ UnderWay(k)' <=> (Carried(k)' \/ OnWire(k)')
BY DEF UnderWay, Carried, OnWire

\* A request of this kind has not been sent yet.
Unsent(k) == \E t \in Task : At(t, "spawned") /\ task[t].kind = k

\* What the steps do to the calls on the wire.
LEMMA WireFacts ==
  ASSUME Types, Calls, FlagsExact, [Next]_vars, NEW k, k # "refresh"
  PROVE  /\ OnWire(k)' => OnWire(k) \/ Unsent(k)
         /\ Abandoned(k)' => \/ Abandoned(k) \/ ~open'
                             \/ \E t \in Task : task'[t].at = "failed" /\ task'[t].kind = k
<1>t. /\ queue \in Call \cup {NoCall} /\ worker \in Call \cup {NoCall} /\ NoCall \notin Call
      /\ \A c \in Call : c.by \in Task /\ c.live \in BOOLEAN
  BY Constants DEF Types, WireTypes
<1> DEFINE Goal == /\ OnWire(k)' => OnWire(k) \/ Unsent(k)
                   /\ Abandoned(k)' => \/ Abandoned(k) \/ ~open'
                                       \/ \E t \in Task : task'[t].at = "failed" /\ task'[t].kind = k
<1>1. ASSUME UNCHANGED <<queue, worker>> PROVE Goal
  BY <1>1 DEF OnWire, Abandoned
<1>2. ASSUME NEW t \in Task, NEW kind \in Kind, NEW arg \in Arg, CallWorker(t, kind, arg), k = kind => Unsent(k)
      PROVE  Goal
  <2>1. /\ worker' = worker
        /\ \/ queue' = [by |-> t, kind |-> kind, arg |-> arg, live |-> TRUE] /\ queue = NoCall
           \/ queue' = queue
    BY <1>2, CallFacts
  <2> QED BY <1>2, <2>1 DEF OnWire, Abandoned
<1>3. ASSUME Refresh PROVE Goal
  BY <1>2, <1>3, PollFacts
<1>4. ASSUME NEW t \in Task, SubmitTask(t) PROVE Goal
  <2>1. k = task[t].kind => Unsent(k)
    BY <1>4, SubmitFacts DEF Unsent, At
  <2> QED BY <1>2, <1>4, <2>1, SubmitFacts
<1>5. ASSUME NEW t \in Task, TimeoutTask(t) PROVE Goal
  <2>1. Timeout(t)
    BY <1>5 DEF TimeoutTask
  <2>2. /\ task'[t].at = "failed" /\ task'[t].kind = task[t].kind
        /\ (queue' = NoCall <=> queue = NoCall) /\ (worker' = NoCall <=> worker = NoCall)
        /\ queue # NoCall => queue'.kind = queue.kind /\ (queue'.live <=> queue.live /\ queue.by # t)
        /\ worker # NoCall => worker'.kind = worker.kind /\ (worker'.live <=> worker.live /\ worker.by # t)
    BY <2>1, TimeoutFacts
  <2>3. /\ queue # NoCall /\ queue.live /\ queue.by = t => task[t].kind = queue.kind
        /\ worker # NoCall /\ worker.live /\ worker.by = t => task[t].kind = worker.kind
    BY DEF Calls, Awaited
  <2> QED BY <2>2, <2>3 DEF OnWire, Abandoned
<1>6. ASSUME Gone PROVE Goal
  BY <1>6, GoneFacts DEF OnWire
<1>7. ASSUME Worker PROVE Goal
  <2>1. CASE WorkerTakes
    BY <2>1 DEF WorkerTakes, OnWire, Abandoned
  <2>2. CASE WorkerReplies
    BY <2>2 DEF WorkerReplies, OnWire, Abandoned
  <2> QED BY <1>7, <2>1, <2>2 DEF Worker
<1>8. ASSUME Lost PROVE Goal
  BY <1>8, LostFacts DEF Lost, OnWire, Abandoned
<1>9. ASSUME Serve PROVE Goal
  BY <1>1, <1>9, ServeFacts
<1>10. ASSUME Clicked \/ Handling \/ Quiet \/ \E t \in Task : Resume(t) PROVE Goal
  BY <1>1, <1>10 DEF Clicked, Click, Handling, Quiet, Resume, channelVars, wireVars
<1> HIDE DEF Goal
<1>11. Goal
  BY <1>3, <1>4, <1>5, <1>6, <1>7, <1>8, <1>9, <1>10, Steps
<1> QED BY <1>11 DEF Goal

\* A click starts one request.
LEMMA ClickCarried ==
  ASSUME Types, NEW kind \in Kind \ {"refresh"}, NEW arg \in Arg, Click(kind, arg), NEW k
  PROVE  /\ Carried(k)' <=> (Carried(k) \/ k = kind)
         /\ OnWire(k)' <=> OnWire(k)
<1>1. PICK n \in Task :
        /\ ~Busy(n)
        /\ task'[n] = [at |-> "spawned", kind |-> kind, arg |-> arg, got |-> NoReply]
        /\ \A u \in Task : u # n => task'[u] = task[u]
  BY ClickFacts
<1>2. events' = events /\ task'[n].kind = kind /\ task'[n].at # "none" /\ UNCHANGED <<queue, worker>>
  BY <1>1 DEF Click, wireVars
<1>3. Carried(k)' <=> (Carried(k) \/ k = kind)
  BY <1>1, <1>2, StartCarried
<1>4. OnWire(k)' <=> OnWire(k)
  BY <1>2 DEF OnWire
<1> QED BY <1>3, <1>4

\* Only a click of the user puts a request under way, but for the poll.
LEMMA UnderWayStep ==
  ASSUME Types, Calls, FlagsExact, [Next]_vars, NEW k, k # "refresh"
  PROVE  \/ Clicked
         \/ (Carried(k)' => Carried(k)) /\ (UnderWay(k)' => UnderWay(k))
<1>s. SUFFICES ASSUME ~Clicked PROVE (Carried(k)' => Carried(k)) /\ (UnderWay(k)' => UnderWay(k))
  OBVIOUS
<1>1. Carried(k)' => Carried(k)
  <2>1. ASSUME Between PROVE Carried(k)' => Carried(k)
    BY <2>1, BetweenCarried
  <2>2. ASSUME NEW t \in Task, Resume(t) PROVE Carried(k)' => Carried(k)
    BY <2>2, ResumeCarried
  <2>3. ASSUME Handling PROVE Carried(k)' => Carried(k)
    BY <2>3, HandleCarried
  <2>4. ASSUME Gone PROVE ~Carried(k)'
    <3>1. events' = <<>> /\ DOMAIN <<>> = {}
      BY <2>4, EmptySeq, LenProperties DEF Gone
    <3> QED BY <2>4, <3>1, GoneFacts DEF Carried, Busy, At
  <2>5. ASSUME Refresh PROVE Carried(k)' => Carried(k)
    <3>1. ~Busy(0) /\ 0 \in Task /\ events' = events
      BY <2>5, PollFacts DEF Busy, At, Refresh
    <3>2. task'[0].kind = "refresh" /\ task'[0].at # "none" /\ \A u \in Task : u # 0 => task'[u] = task[u]
      BY <2>5, PollFacts, CallFacts
    <3> QED BY <3>1, <3>2, StartCarried
  <2> QED BY <1>s, <2>1, <2>2, <2>3, <2>4, <2>5, Steps DEF Between
<1>2. OnWire(k)' => OnWire(k) \/ Carried(k)
  BY WireFacts DEF Unsent, Carried, Busy, At
<1> QED BY <1>1, <1>2, UnderWayParts

-----------------------------------------------------------------------------
(* Failures *)

\* A failure stays to be reported until it is.
LEMMA FailingStep ==
  ASSUME Types, Calls, FlagsExact, [Next]_vars, open', NEW k, k # "refresh", Failing(k)
  PROVE  \/ Failing(k)'
         \/ k = "save" /\ late'
         \/ k = "rotate" /\ misread'
         \/ k \notin {"save", "rotate"}
<1>f. (\E t \in Task : task[t].at = "failed" /\ task[t].kind = k)
        \/ \E i \in DOMAIN events : events[i].kind = k /\ ~events[i].ok
  BY DEF Failing, At
<1>1. ASSUME UNCHANGED events, \A t \in Task : task[t].at = "failed" => task'[t].at = "failed" /\ task'[t].kind = task[t].kind
      PROVE  Failing(k)'
  BY <1>f, <1>1 DEF Failing, At
<1>2. ASSUME Clicked PROVE Failing(k)'
  <2>1. PICK kind \in Kind \ {"refresh"}, arg \in Arg : Click(kind, arg)
    BY <1>2 DEF Clicked
  <2>2. PICK n \in Task : task[n].at = "none" /\ \A u \in Task : u # n => task'[u] = task[u]
    BY <2>1, ClickFacts DEF Busy, At
  <2>3. events' = events
    BY <2>1 DEF Click
  <2> QED BY <1>1, <2>2, <2>3
<1>3. ASSUME Refresh PROVE Failing(k)'
  <2>1. task[0].at = "none" /\ (\A u \in Task : u # 0 => task'[u] = task[u]) /\ events' = events
    BY <1>3, PollFacts, CallFacts DEF Refresh
  <2> QED BY <1>1, <2>1
<1>4. ASSUME NEW t \in Task, SubmitTask(t) PROVE Failing(k)'
  <2>1. task[t].at = "spawned" /\ (\A u \in Task : u # t => task'[u] = task[u]) /\ events' = events
    BY <1>4, SubmitFacts, CallFacts
  <2> QED BY <1>1, <2>1
<1>5. ASSUME NEW t \in Task, TimeoutTask(t) PROVE Failing(k)'
  <2>1. task[t].at = "waiting" /\ (\A u \in Task : u # t => task'[u] = task[u]) /\ events' = events
    BY <1>5, TimeoutFacts DEF TimeoutTask, windowVars
  <2> QED BY <1>1, <2>1
<1>6. ASSUME NEW t \in Task, Resume(t) PROVE Failing(k)'
  <2>1. PICK e \in Report : /\ events' = Append(events, e) /\ e.kind = task[t].kind
                            /\ e.kind # "refresh" => (e.ok <=> Ok(t))
    BY <1>6, ResumeFacts
  <2>2. PICK n \in DOMAIN events' :
          /\ events'[n] = e /\ DOMAIN events' = DOMAIN events \cup {n}
          /\ \A i \in DOMAIN events : events'[i] = events[i]
    BY <2>1, QueueFacts DEF Types, FieldTypes
  <2>3. \A u \in Task : u # t => task'[u] = task[u]
    BY <1>6, ResumeFacts
  <2>4. ASSUME task[t].at = "failed", task[t].kind = k PROVE Failing(k)'
    <3>1. ~e.ok /\ e.kind = k
      BY <2>1, <2>4 DEF Ok, At
    <3> QED BY <2>2, <3>1 DEF Failing
  <2>5. ASSUME NEW i \in DOMAIN events, events[i].kind = k, ~events[i].ok PROVE Failing(k)'
    BY <2>2, <2>5 DEF Failing
  <2>6. ASSUME NEW u \in Task, u # t, task[u].at = "failed", task[u].kind = k PROVE Failing(k)'
    BY <2>3, <2>6 DEF Failing, At
  <2> QED BY <1>f, <2>4, <2>5, <2>6
<1>7. ASSUME Handling
      PROVE  \/ Failing(k)'
             \/ k = "save" /\ late'
             \/ k = "rotate" /\ misread'
             \/ k \notin {"save", "rotate"}
  <2>1. /\ events \in Seq(Report) /\ events # <<>> /\ events' = Tail(events) /\ task' = task
        /\ late' <=> (late \/ (Head(events).kind = "save" /\ ~Head(events).ok))
        /\ misread' <=> (misread \/ (Head(events).kind = "rotate" /\ ~Head(events).ok))
    BY <1>7 DEF Types, FieldTypes, Handling, channelVars
  <2>2. /\ 1 \in DOMAIN events /\ Head(events) = events[1]
        /\ \A i \in DOMAIN events : i # 1 => i - 1 \in DOMAIN events' /\ events'[i - 1] = events[i]
    BY <2>1, HandleFacts
  <2>3. ASSUME NEW t \in Task, task[t].at = "failed", task[t].kind = k PROVE Failing(k)'
    BY <2>1, <2>3 DEF Failing, At
  <2>4. ASSUME NEW i \in DOMAIN events, i # 1, events[i].kind = k, ~events[i].ok PROVE Failing(k)'
    <3>1. i - 1 \in DOMAIN events' /\ events'[i - 1] = events[i]
      BY <2>2, <2>4
    <3> QED BY <2>4, <3>1 DEF Failing
  <2>5. ASSUME events[1].kind = k, ~events[1].ok
        PROVE  (k = "save" /\ late') \/ (k = "rotate" /\ misread') \/ k \notin {"save", "rotate"}
    BY <2>1, <2>2, <2>5
  <2> QED BY <1>f, <2>3, <2>4, <2>5
<1>8. ASSUME Worker PROVE Failing(k)'
  <2>1. events' = events
    BY <1>8 DEF Worker, windowVars
  <2>2. CASE WorkerTakes
    BY <1>1, <2>1, <2>2 DEF WorkerTakes
  <2>3. CASE WorkerReplies
    BY <1>1, <2>1, <2>3, ReplyFacts
  <2> QED BY <1>8, <2>2, <2>3 DEF Worker
<1>9. ASSUME Lost PROVE Failing(k)'
  BY <1>1, <1>9, LostFacts DEF Lost, windowVars
<1>10. ASSUME Serve \/ Quiet PROVE Failing(k)'
  <2>1. task' = task /\ events' = events
    BY <1>10, ServeFacts DEF Serve, Quiet, channelVars, windowVars
  <2> QED BY <1>1, <2>1
<1>11. ~Gone
  BY DEF Gone
<1> QED BY <1>2, <1>3, <1>4, <1>5, <1>6, <1>7, <1>8, <1>9, <1>10, <1>11, Steps

\* A flag of the history that is raised stays.
LEMMA StoryStays ==
  ASSUME Types, Calls, FlagsExact, [Next]_vars
  PROVE  /\ late => late'
         /\ misread => misread'
         /\ crossed => crossed'
         /\ mixed => mixed'
         /\ blind => blind'
<1>1. Clicked => (late => late') /\ (misread => misread') /\ (crossed => crossed') /\ (mixed => mixed') /\ (blind => blind')
  BY DEF Clicked
<1>2. Handling => (late => late') /\ (misread => misread') /\ (crossed => crossed') /\ (mixed => mixed') /\ (blind => blind')
  BY DEF Handling
<1>3. Between => UNCHANGED <<late, misread, crossed, mixed, blind>>
  BY BetweenFacts
<1>4. Refresh \/ Gone \/ (\E t \in Task : Resume(t)) => UNCHANGED <<late, misread, crossed, mixed, blind>>
  BY DEF Refresh, Gone, Resume, storyVars
<1> QED BY <1>1, <1>2, <1>3, <1>4, Steps DEF Between

\* A window that is open was open.
LEMMA WasOpen ==
  ASSUME Types, Calls, FlagsExact, [Next]_vars, open'
  PROVE  open /\ ~Gone
<1>1. ~Gone
  BY DEF Gone
<1>2. open' = open \/ open
  BY <1>1, BetweenFacts, Steps DEF Between, Clicked, Click, Refresh, Handling, Resume
<1> QED BY <1>1, <1>2

\* A request nobody waits for any more was, or will be, reported as failed.
LEMMA FailuresStep ==
  ASSUME Types, Calls, FlagsExact, Carriers, Failures, [Next]_vars
  PROVE  Failures'
<1>s. SUFFICES ASSUME open'
               PROVE  /\ Abandoned("save")' => late' \/ Failing("save")'
                      /\ Abandoned("rotate")' => misread' \/ Failing("rotate")'
  BY DEF Failures
<1>1. open
  BY <1>s, WasOpen
<1>2. ASSUME NEW k, k # "refresh", Abandoned(k)' PROVE Abandoned(k) \/ Failing(k)'
  BY <1>s, <1>2, WireFacts DEF Failing, At
<1>3. ASSUME Abandoned("save")' PROVE late' \/ Failing("save")'
  BY <1>1, <1>2, <1>3, <1>s, FailingStep, StoryStays DEF Failures
<1>4. ASSUME Abandoned("rotate")' PROVE misread' \/ Failing("rotate")'
  BY <1>1, <1>2, <1>4, <1>s, FailingStep, StoryStays DEF Failures
<1> QED BY <1>3, <1>4

-----------------------------------------------------------------------------
(* The token *)

\* A request is carried until its report is handled.
LEMMA CarriedStays ==
  ASSUME Types, Calls, FlagsExact, [Next]_vars, NEW k, Carried(k)
  PROVE  Carried(k)' \/ Gone \/ (Handling /\ k = Head(events).kind)
<1>1. ASSUME Clicked PROVE Carried(k)'
  BY <1>1, ClickCarried DEF Clicked
<1>2. ASSUME Refresh PROVE Carried(k)'
  <2>1. ~Busy(0) /\ 0 \in Task /\ events' = events
    BY <1>2, PollFacts DEF Busy, At, Refresh
  <2>2. task'[0].kind = "refresh" /\ task'[0].at # "none" /\ \A u \in Task : u # 0 => task'[u] = task[u]
    BY <1>2, PollFacts, CallFacts
  <2> QED BY <2>1, <2>2, StartCarried
<1>3. ASSUME Between PROVE Carried(k)'
  BY <1>3, BetweenCarried
<1>4. ASSUME NEW t \in Task, Resume(t) PROVE Carried(k)'
  BY <1>4, ResumeCarried
<1>5. ASSUME Handling PROVE Carried(k)' \/ k = Head(events).kind
  BY <1>5, HandleCarried
<1> QED BY <1>1, <1>2, <1>3, <1>4, <1>5, Steps DEF Between

\* A token is asked for and rotated at the same time only if this is recorded.
LEMMA CrossedStep ==
  ASSUME Types, Calls, FlagsExact, Tokens, [Next]_vars
  PROVE  UnderWay("reveal")' /\ UnderWay("rotate")' => crossed'
<1>1. UnderWay("reveal") /\ UnderWay("rotate") => crossed
  BY DEF Tokens
<1>2. ASSUME Clicked, UnderWay("reveal")', UnderWay("rotate")' PROVE crossed'
  <2>1. PICK kind \in Kind \ {"refresh"}, arg \in Arg :
          /\ Click(kind, arg)
          /\ crossed' <=> (crossed \/ (kind = "reveal" /\ UnderWay("rotate")) \/ (kind = "rotate" /\ UnderWay("reveal")))
    BY <1>2 DEF Clicked
  <2>2. ASSUME NEW k, UnderWay(k)' PROVE UnderWay(k) \/ k = kind
    BY <2>1, <2>2, ClickCarried, UnderWayParts
  <2> QED BY <1>1, <1>2, <2>1, <2>2
<1>3. CASE ~Clicked
  BY <1>1, <1>3, UnderWayStep, StoryStays
<1> QED BY <1>2, <1>3

\* An answer to reveal holds the token, unless it was rotated beside it.
AnswersTrue ==
  /\ \A t \in Task : task[t].kind = "reveal" /\ Ok(t) => task[t].got.token = token
  /\ \A i \in DOMAIN events : events[i].kind = "reveal" /\ events[i].ok => events[i].val = token
  /\ worker # NoCall /\ worker.kind = "reveal" /\ pipe = "response" => reply.token = token

\* It is so after every step.
LEMMA AnswersStep ==
  ASSUME Types, Calls, FlagsExact, Tokens, [Next]_vars, ~crossed'
  PROVE  AnswersTrue'
<1>c. ~crossed /\ AnswersTrue
  BY StoryStays DEF Tokens, AnswersTrue
<1>a. /\ \A t \in Task : task[t].kind = "reveal" /\ task[t].at = "answered" /\ task[t].got.ok => task[t].got.token = token
      /\ \A i \in DOMAIN events : events[i].kind = "reveal" /\ events[i].ok => events[i].val = token
      /\ worker # NoCall /\ worker.kind = "reveal" /\ pipe = "response" => reply.token = token
  BY <1>c DEF AnswersTrue, Ok, At
<1>1. ASSUME UNCHANGED <<events, token>>,
             \A t \in Task : task'[t] = task[t] \/ task'[t].at # "answered",
             (worker' # NoCall /\ pipe' = "response")
               => (worker # NoCall /\ pipe = "response" /\ worker'.kind = worker.kind /\ reply' = reply)
      PROVE  AnswersTrue'
  BY <1>a, <1>1 DEF AnswersTrue, Ok, At
<1>2. ASSUME Clicked PROVE AnswersTrue'
  <2>1. PICK kind \in Kind \ {"refresh"}, arg \in Arg : Click(kind, arg)
    BY <1>2 DEF Clicked
  <2>2. PICK n \in Task : /\ task'[n] = [at |-> "spawned", kind |-> kind, arg |-> arg, got |-> NoReply]
                          /\ \A u \in Task : u # n => task'[u] = task[u]
    BY <2>1, ClickFacts
  <2>3. UNCHANGED <<events, token, worker, pipe, reply>>
    BY <2>1 DEF Click, wireVars
  <2> QED BY <1>1, <2>2, <2>3
<1>3. ASSUME NEW t \in Task, NEW kind \in Kind, NEW arg \in Arg, CallWorker(t, kind, arg), UNCHANGED <<events, token>>
      PROVE  AnswersTrue'
  <2>1. /\ \A u \in Task : u # t => task'[u] = task[u]
        /\ task'[t].at \in {"waiting", "full", "failed"} /\ UNCHANGED <<worker, pipe, reply>>
    BY <1>3, CallFacts
  <2> QED BY <1>1, <1>3, <2>1
<1>4. ASSUME Refresh PROVE AnswersTrue'
  BY <1>3, <1>4, PollFacts DEF Refresh
<1>5. ASSUME NEW t \in Task, SubmitTask(t) PROVE AnswersTrue'
  BY <1>3, <1>5, SubmitFacts
<1>6. ASSUME NEW t \in Task, TimeoutTask(t) PROVE AnswersTrue'
  <2>1. UNCHANGED <<events, token>> /\ Timeout(t)
    BY <1>6 DEF TimeoutTask, windowVars
  <2>2. /\ \A u \in Task : u # t => task'[u] = task[u]
        /\ task'[t].at = "failed" /\ UNCHANGED <<pipe, reply>> /\ (worker' = NoCall <=> worker = NoCall)
        /\ worker # NoCall => worker'.kind = worker.kind
    BY <2>1, TimeoutFacts
  <2> QED BY <1>1, <2>1, <2>2
<1>7. ASSUME NEW t \in Task, Resume(t) PROVE AnswersTrue'
  <2>1. PICK e \in Report :
          /\ events' = Append(events, e) /\ e.kind = task[t].kind
          /\ e.kind # "refresh" => (e.ok <=> Ok(t))
          /\ e.kind = "reveal" /\ e.ok => e.val = task[t].got.token
    BY <1>7, ResumeFacts
  <2>2. PICK n \in DOMAIN events' :
          /\ events'[n] = e /\ DOMAIN events' = DOMAIN events \cup {n}
          /\ \A i \in DOMAIN events : events'[i] = events[i]
    BY <2>1, QueueFacts DEF Types, FieldTypes
  <2>3. (\A u \in Task : u # t => task'[u] = task[u]) /\ task'[t].at = "none"
    BY <1>7, ResumeFacts
  <2>4. UNCHANGED <<worker, pipe, reply, token>>
    BY <1>7 DEF Resume, wireVars
  <2>5. e.kind = "reveal" /\ e.ok => e.val = token
    BY <1>a, <2>1 DEF Ok, At
  <2>6. \A i \in DOMAIN events' : events'[i].kind = "reveal" /\ events'[i].ok => events'[i].val = token
    BY <1>a, <2>2, <2>5
  <2> QED BY <1>a, <2>3, <2>4, <2>6 DEF AnswersTrue, Ok, At
<1>8. ASSUME Handling PROVE AnswersTrue'
  <2>1. events \in Seq(Report) /\ events # <<>> /\ events' = Tail(events) /\ UNCHANGED <<task, worker, pipe, reply, token>>
    BY <1>8 DEF Types, FieldTypes, Handling, channelVars, wireVars
  <2>2. \A i \in DOMAIN events' : i + 1 \in DOMAIN events /\ events'[i] = events[i + 1]
    BY <2>1, HandleFacts
  <2>3. \A i \in DOMAIN events' : events'[i].kind = "reveal" /\ events'[i].ok => events'[i].val = token
    BY <1>a, <2>2
  <2> QED BY <1>a, <2>1, <2>3 DEF AnswersTrue, Ok, At
<1>9. ASSUME Gone PROVE AnswersTrue'
  <2>1. events' = <<>> /\ DOMAIN <<>> = {}
    BY <1>9, EmptySeq, LenProperties DEF Gone
  <2> QED BY <1>9, <1>a, <2>1, GoneFacts DEF AnswersTrue, Ok, At
<1>10. ASSUME Worker PROVE AnswersTrue'
  <2>1. UNCHANGED <<events, token>>
    BY <1>10 DEF Worker, windowVars
  <2>2. CASE WorkerTakes
    BY <1>1, <2>1, <2>2 DEF WorkerTakes
  <2>3. CASE WorkerReplies
    BY <1>a, <2>1, <2>3, ReplyFacts DEF AnswersTrue, Ok, At
  <2> QED BY <1>10, <2>2, <2>3 DEF Worker
<1>11. ASSUME Lost PROVE AnswersTrue'
  <2>1. UNCHANGED <<events, token>>
    BY <1>11 DEF Lost, windowVars
  <2>2. /\ \A t \in Task : /\ task'[t].kind = task[t].kind /\ task'[t].got = task[t].got
                           /\ task'[t].at = "answered" => task[t].at = "answered"
        /\ worker' = NoCall
    BY <1>11, LostFacts DEF Lost
  <2> QED BY <1>a, <2>1, <2>2 DEF AnswersTrue, Ok, At
<1>12. ASSUME Quiet PROVE AnswersTrue'
  BY <1>1, <1>12 DEF Quiet, channelVars, wireVars
<1>13. ASSUME Serve PROVE AnswersTrue'
  <2>1. /\ worker # NoCall /\ UNCHANGED <<task, worker>> /\ pipe' = "response" /\ reply'.token = token
        /\ worker.kind # "rotate" => token' = token
        /\ events' = events
    BY <1>13, ServeFacts DEF Serve, windowVars
  <2>2. CASE worker.kind = "rotate"
    <3>1. OnWire("rotate")'
      BY <2>1, <2>2 DEF OnWire
    <3>2. ~UnderWay("reveal")'
      BY <3>1, CrossedStep, UnderWayParts
    <3>3. ~Carried("reveal")'
      BY <3>2, UnderWayParts
    <3> QED BY <2>1, <2>2, <3>3 DEF AnswersTrue, Carried, Busy, Ok, At
  <2>3. CASE worker.kind # "rotate"
    BY <1>a, <2>1, <2>3 DEF AnswersTrue, Ok, At
  <2> QED BY <2>2, <2>3
<1> QED BY <1>2, <1>4, <1>5, <1>6, <1>7, <1>8, <1>9, <1>10, <1>11, <1>12, <1>13, Steps

\* A token on the screen is the daemon's or goes with a report on its way.
LEMMA ShownStep ==
  ASSUME Types, Calls, FlagsExact, Failures, Tokens, [Next]_vars, open', ~crossed', ~misread'
  PROVE  shown' \in {NoToken, token'} \/ Carried("rotate")'
<1>o. open /\ ~Gone /\ ~crossed /\ ~misread
  BY WasOpen, StoryStays
<1>s. shown \in {NoToken, token} \/ Carried("rotate")
  BY <1>o DEF Tokens
<1>1. ASSUME Handling PROVE shown' \in {NoToken, token'} \/ Carried("rotate")'
  <2>1. /\ events # <<>> /\ token' = token
        /\ misread' <=> (misread \/ (Head(events).kind = "rotate" /\ ~Head(events).ok))
        /\ \/ shown' = NoToken
           \/ shown' = shown /\ ~(Head(events).kind = "rotate" /\ Head(events).ok)
           \/ shown' = Head(events).val /\ Head(events).kind = "reveal" /\ Head(events).ok
    BY <1>1 DEF Handling
  <2>2. 1 \in DOMAIN events /\ Head(events) = events[1]
    BY <2>1, HandleFacts DEF Types, FieldTypes
  <2>3. Head(events).kind = "reveal" /\ Head(events).ok => Head(events).val = token
    BY <1>o, <2>2 DEF Tokens
  <2>4. CASE shown' = shown /\ ~(Head(events).kind = "rotate" /\ Head(events).ok)
    <3>1. Head(events).kind # "rotate"
      BY <2>1, <2>4
    <3>2. Carried("rotate") => Carried("rotate")'
      BY <1>o, <3>1, CarriedStays
    <3> QED BY <1>s, <2>1, <2>4, <3>2
  <2> QED BY <2>1, <2>3, <2>4
<1>2. ASSUME ~Handling, UNCHANGED <<shown, token>> PROVE shown' \in {NoToken, token'} \/ Carried("rotate")'
  BY <1>2, <1>o, <1>s, CarriedStays
<1>3. ASSUME Serve, ~Handling, token' # token PROVE Carried("rotate")'
  <2>1. worker \in Call /\ worker # NoCall /\ worker.kind = "rotate"
    BY <1>3, ServeFacts
  <2>2. Carried("rotate")
    <3>1. CASE worker.live
      <4>1. worker.by \in Task /\ Awaited(worker, worker.by)
        BY <2>1, <3>1, Constants DEF Awaited
      <4>2. At(worker.by, "waiting") /\ task[worker.by].kind = "rotate"
        BY <2>1, <4>1 DEF Calls
      <4> QED BY <4>1, <4>2 DEF Carried, Busy, At
    <3>2. CASE ~worker.live
      <4>1. Abandoned("rotate")
        BY <2>1, <3>2 DEF Abandoned
      <4>2. Failing("rotate")
        BY <1>o, <4>1 DEF Failures
      <4> QED BY <4>2 DEF Failing, Carried, Busy, At
    <3> QED BY <3>1, <3>2
  <2> QED BY <1>3, <1>o, <2>2, CarriedStays
<1>4. ~Serve => token' = token \/ Handling
  BY <1>o, Steps DEF Clicked, Click, Refresh, Handling, Worker, Lost, Quiet, SubmitTask, TimeoutTask, Resume
<1>5. shown' = shown \/ Handling
  BY <1>o, Steps DEF Clicked, Click, Refresh, Handling, Worker, Serve, Lost, Quiet, SubmitTask, TimeoutTask, Resume,
     windowVars, boxVars
<1> QED BY <1>1, <1>2, <1>3, <1>4, <1>5

\* The token.
LEMMA TokensStep ==
  ASSUME Types, Calls, FlagsExact, Failures, Tokens, [Next]_vars
  PROVE  Tokens'
<1>1. UnderWay("reveal")' /\ UnderWay("rotate")' => crossed'
  BY CrossedStep
<1>2. ~crossed' => AnswersTrue'
  BY AnswersStep
<1>3. open' /\ ~crossed' /\ ~misread' => shown' \in {NoToken, token'} \/ Carried("rotate")'
  BY ShownStep
<1> QED BY <1>1, <1>2, <1>3 DEF Tokens, AnswersTrue

-----------------------------------------------------------------------------
(* The tables on their way *)

\* No step but Serve brings a table that was not there.
LEMMA AmongStep ==
  ASSUME Types, Calls, FlagsExact, [Next]_vars, NEW S, Among(S), Serve => daemon'.table \in S
  PROVE  Among(S)'
<1>a. /\ \A t \in Task : task[t].at = "answered" /\ task[t].kind \notin {"reveal", "export"} /\ task[t].got.ok
           /\ t \notin overtaken => task[t].got.state.table \in S
      /\ pipe = "response" => reply.state.table \in S
      /\ open /\ ~behind => view.table \in S
  BY DEF Among, HasState, At
<1>o. open' => open
  BY WasOpen
<1>1. ASSUME UNCHANGED <<view, overtaken, behind>>,
             \A t \in Task : task'[t].at = "answered" =>
               task[t].at = "answered" /\ task'[t].kind = task[t].kind /\ task'[t].got = task[t].got,
             pipe' = "response" => pipe = "response" /\ reply' = reply
      PROVE  Among(S)'
  BY <1>a, <1>o, <1>1 DEF Among, HasState, At
<1>2. ASSUME Clicked PROVE Among(S)'
  <2>1. PICK kind \in Kind \ {"refresh"}, arg \in Arg : Click(kind, arg)
    BY <1>2 DEF Clicked
  <2>2. PICK n \in Task : /\ task'[n] = [at |-> "spawned", kind |-> kind, arg |-> arg, got |-> NoReply]
                          /\ \A u \in Task : u # n => task'[u] = task[u]
    BY <2>1, ClickFacts
  <2>3. UNCHANGED <<view, overtaken, behind, pipe, reply>>
    BY <2>1 DEF Click, wireVars, orderVars
  <2> QED BY <1>1, <2>2, <2>3
<1>3. ASSUME NEW t \in Task, NEW kind \in Kind, NEW arg \in Arg, CallWorker(t, kind, arg),
             UNCHANGED <<view, overtaken, behind>>
      PROVE  Among(S)'
  <2>1. /\ \A u \in Task : u # t => task'[u] = task[u]
        /\ task'[t].at \in {"waiting", "full", "failed"} /\ UNCHANGED <<pipe, reply>>
    BY <1>3, CallFacts
  <2> QED BY <1>1, <1>3, <2>1
<1>4. ASSUME Refresh PROVE Among(S)'
  BY <1>3, <1>4, PollFacts DEF Refresh, orderVars
<1>5. ASSUME NEW t \in Task, SubmitTask(t) PROVE Among(S)'
  BY <1>3, <1>5, SubmitFacts DEF orderVars
<1>6. ASSUME NEW t \in Task, TimeoutTask(t) PROVE Among(S)'
  <2>1. UNCHANGED <<view, overtaken, behind>> /\ Timeout(t)
    BY <1>6 DEF TimeoutTask, windowVars, orderVars
  <2>2. /\ \A u \in Task : u # t => task'[u] = task[u]
        /\ task'[t].at = "failed" /\ UNCHANGED <<pipe, reply>>
    BY <2>1, TimeoutFacts
  <2> QED BY <1>1, <2>1, <2>2
<1>7. ASSUME NEW t \in Task, Resume(t) PROVE Among(S)'
  <2>1. /\ task'[t].at = "none" /\ \A u \in Task : u # t => task'[u] = task[u]
        /\ HasState(t) => view' = task[t].got.state
        /\ ~HasState(t) => view' = view
    BY <1>7, ResumeFacts
  <2>2. /\ UNCHANGED <<pipe, reply>> /\ overtaken' = (overtaken \ {t}) \cup ahead[t]
        /\ HasState(t) => (behind' <=> t \in overtaken)
        /\ ~HasState(t) => behind' = behind
    BY <1>7 DEF Resume, wireVars
  <2>3. \A u \in Task : task'[u].at = "answered" /\ task'[u].kind \notin {"reveal", "export"} /\ task'[u].got.ok
          /\ u \notin overtaken' => task'[u].got.state.table \in S
    BY <1>a, <2>1, <2>2
  <2>4. open' /\ ~behind' => view'.table \in S
    <3>1. CASE HasState(t)
      BY <2>1, <2>2, <3>1 DEF Among
    <3>2. CASE ~HasState(t)
      BY <1>a, <1>o, <2>1, <2>2, <3>2
    <3> QED BY <3>1, <3>2
  <2> QED BY <1>a, <2>2, <2>3, <2>4 DEF Among, HasState, At
<1>8. ASSUME Worker PROVE Among(S)'
  <2>1. UNCHANGED <<view, overtaken, behind>>
    BY <1>8 DEF Worker, windowVars
  <2>2. CASE WorkerTakes
    BY <1>1, <2>1, <2>2 DEF WorkerTakes
  <2>3. CASE WorkerReplies
    BY <1>a, <1>o, <2>1, <2>3, ReplyFacts DEF Among, HasState, At
  <2> QED BY <1>8, <2>2, <2>3 DEF Worker
<1>9. ASSUME Lost PROVE Among(S)'
  <2>1. UNCHANGED <<view, overtaken, behind>>
    BY <1>9 DEF Lost, windowVars, orderVars
  <2> QED BY <1>1, <1>9, <2>1, LostFacts DEF Lost
<1>10. ASSUME Serve PROVE Among(S)'
  <2>1. UNCHANGED <<view, overtaken, behind, task>> /\ reply'.state = daemon'
    BY <1>10, ServeFacts DEF Serve, windowVars, orderVars
  <2> QED BY <1>a, <1>o, <1>10, <2>1 DEF Among, HasState, At
<1>11. ASSUME Handling \/ Quiet PROVE Among(S)'
  <2>1. UNCHANGED <<view, overtaken, behind, task, pipe, reply>>
    BY <1>11 DEF Handling, Quiet, channelVars, wireVars, orderVars
  <2> QED BY <1>1, <2>1
<1>12. ASSUME Gone PROVE Among(S)'
  BY <1>12, <1>a, GoneFacts DEF Among, HasState, At
<1> QED BY <1>2, <1>4, <1>5, <1>6, <1>7, <1>8, <1>9, <1>10, <1>11, <1>12, Steps

\* Only a save that is served changes the daemon's table.
LEMMA TableStep ==
  ASSUME Types, Calls, [Next]_vars
  PROVE  \/ daemon'.table = daemon.table
         \/ Serve /\ OnWire("save") /\ worker # NoCall /\ worker.kind = "save"
<1>1. Serve => \/ daemon'.table = daemon.table
               \/ OnWire("save") /\ worker # NoCall /\ worker.kind = "save"
  BY ServeFacts DEF OnWire
<1>2. ~Serve => daemon'.table = daemon.table
  BY Steps DEF Clicked, Click, Refresh, Gone, Handling, Worker, Lost, Quiet, SubmitTask, TimeoutTask, Resume
<1> QED BY <1>1, <1>2

-----------------------------------------------------------------------------
(* Saves *)

\* While a save is carried by a task that has been sent, or by an event, no
\* other is to be sent.
LEMMA NoneUnsent ==
  ASSUME Types, Carriers
  PROVE  /\ \A t \in Task : task[t].kind = "save" /\ task[t].at \notin {"none", "spawned"} => ~Unsent("save")
         /\ \A i \in DOMAIN events : events[i].kind = "save" => ~Unsent("save")
<1>1. "save" \in Flags
  BY DEF Flags
<1> QED BY <1>1 DEF Carriers, Unsent, Busy, At

\* The save at the worker.
LEMMA SaveServedStep ==
  ASSUME Types, Calls, FlagsExact, Carriers, Saves, [Next]_vars
  PROVE  SaveServed'
<1>s. worker # NoCall /\ worker.kind = "save" /\ worker.live =>
        /\ queue # NoCall => queue.kind # "save"
        /\ pipe = "response" /\ reply.ok => daemon.table = worker.arg /\ reply.state.table = worker.arg
  BY DEF Saves, SaveServed
<1>1. ASSUME worker' # NoCall =>
               /\ worker # NoCall /\ worker'.kind = worker.kind /\ worker'.arg = worker.arg /\ (worker'.live => worker.live),
             queue' # NoCall => queue # NoCall /\ queue'.kind = queue.kind,
             UNCHANGED <<pipe, reply>>, daemon'.table = daemon.table
      PROVE  SaveServed'
  BY <1>s, <1>1 DEF SaveServed
<1>2. ASSUME NEW t \in Task, NEW kind \in Kind, NEW arg \in Arg, CallWorker(t, kind, arg), daemon' = daemon,
             kind = "save" => Unsent("save")
      PROVE  SaveServed'
  <2>1. /\ UNCHANGED <<worker, pipe, reply>>
        /\ \/ queue' = queue
           \/ queue' = [by |-> t, kind |-> kind, arg |-> arg, live |-> TRUE]
    BY <1>2, CallFacts
  <2>2. ASSUME worker # NoCall, worker.kind = "save", worker.live PROVE kind # "save"
    <3>1. worker.by \in Task /\ Awaited(worker, worker.by)
      BY <2>2, Constants DEF Types, WireTypes, Awaited
    <3>2. task[worker.by].at = "waiting" /\ task[worker.by].kind = "save"
      BY <2>2, <3>1 DEF Calls, At
    <3> QED BY <1>2, <3>1, <3>2, NoneUnsent
  <2> QED BY <1>s, <1>2, <2>1, <2>2 DEF SaveServed
<1>3. ASSUME Refresh PROVE SaveServed'
  BY <1>2, <1>3, PollFacts DEF Refresh
<1>4. ASSUME NEW t \in Task, SubmitTask(t) PROVE SaveServed'
  <2>1. task[t].kind = "save" => Unsent("save")
    BY <1>4, SubmitFacts DEF Unsent, At
  <2> QED BY <1>2, <1>4, <2>1, SubmitFacts
<1>5. ASSUME NEW t \in Task, TimeoutTask(t) PROVE SaveServed'
  <2>1. Timeout(t) /\ daemon' = daemon
    BY <1>5 DEF TimeoutTask
  <2> QED BY <1>1, <2>1, TimeoutFacts
<1>6. ASSUME Gone PROVE SaveServed'
  BY <1>6, GoneFacts DEF SaveServed
<1>7. ASSUME Worker PROVE SaveServed'
  BY <1>7 DEF Worker, WorkerTakes, WorkerReplies, SaveServed
<1>8. ASSUME Lost PROVE SaveServed'
  BY <1>8, LostFacts DEF Lost, SaveServed
<1>9. ASSUME Serve PROVE SaveServed'
  BY <1>9, <1>s, ServeFacts DEF SaveServed
<1>10. ASSUME Clicked \/ Handling \/ Quiet \/ \E t \in Task : Resume(t) PROVE SaveServed'
  <2>1. UNCHANGED <<queue, worker, pipe, reply>> /\ daemon'.table = daemon.table
    BY <1>10 DEF Clicked, Click, Handling, Quiet, Resume, channelVars, wireVars
  <2> QED BY <1>1, <2>1
<1> QED BY <1>3, <1>4, <1>5, <1>6, <1>7, <1>8, <1>9, <1>10, Steps

\* A save that was answered.
LEMMA SaveAnsweredStep ==
  ASSUME Types, Calls, FlagsExact, Carriers, Saves, [Next]_vars
  PROVE  SaveAnswered'
<1>a. \A t \in Task : task[t].at = "answered" /\ task[t].kind = "save" =>
        /\ ~OnWire("save") /\ ~Unsent("save")
        /\ task[t].got.ok =>
             /\ daemon.table = task[t].arg /\ task[t].got.state.table = task[t].arg
             /\ \A u \in Task : HasState(u) /\ u \notin overtaken /\ u \notin ahead[t] =>
                  task[u].got.state.table = task[t].arg
             /\ pipe = "response" => reply.state.table = task[t].arg
  BY NoneUnsent DEF Saves, SaveAnswered, Ok, At
<1>w. \A t \in Task : task[t].at = "answered" /\ task[t].kind = "save" => ~OnWire("save")'
  BY <1>a, WireFacts
<1>d. \A t \in Task : task[t].at = "answered" /\ task[t].kind = "save" => daemon'.table = daemon.table
  BY <1>a, TableStep
<1>1. ASSUME \A t \in Task : task'[t].at = "answered" =>
               /\ task[t].at = "answered" /\ task'[t].kind = task[t].kind /\ task'[t].arg = task[t].arg
               /\ task'[t].got = task[t].got,
             UNCHANGED <<overtaken, ahead>>,
             pipe' = "response" => (pipe = "response" /\ reply' = reply) \/ reply'.state.table = daemon'.table
      PROVE  SaveAnswered'
  <2>1. ASSUME NEW u \in Task, HasState(u)' PROVE HasState(u) /\ task'[u].got = task[u].got
    BY <1>1, <2>1 DEF HasState, At
  <2>2. ASSUME NEW t \in Task, task'[t].at = "answered", task'[t].kind = "save", task'[t].got.ok
        PROVE  /\ daemon'.table = task'[t].arg /\ task'[t].got.state.table = task'[t].arg
               /\ \A u \in Task : HasState(u)' /\ u \notin overtaken' /\ u \notin ahead'[t] =>
                    task'[u].got.state.table = task'[t].arg
               /\ pipe' = "response" => reply'.state.table = task'[t].arg
    <3>1. task[t].at = "answered" /\ task[t].kind = "save" /\ task[t].got.ok /\ task'[t].arg = task[t].arg
          /\ task'[t].got = task[t].got
      BY <1>1, <2>2
    <3>2. \A u \in Task : HasState(u)' /\ u \notin overtaken' /\ u \notin ahead'[t] =>
            task'[u].got.state.table = task'[t].arg
      BY <1>1, <1>a, <2>1, <3>1
    <3>3. daemon'.table = task'[t].arg /\ task'[t].got.state.table = task'[t].arg
      BY <1>a, <1>d, <3>1
    <3>4. pipe' = "response" => reply'.state.table = task'[t].arg
      BY <1>1, <1>a, <3>1, <3>3
    <3> QED BY <3>2, <3>3, <3>4
  <2>3. \A t \in Task : task'[t].at = "answered" /\ task'[t].kind = "save" => ~OnWire("save")'
    BY <1>1, <1>w
  <2> QED BY <2>2, <2>3 DEF SaveAnswered, Ok, At
<1>2. ASSUME Clicked PROVE SaveAnswered'
  <2>1. PICK kind \in Kind \ {"refresh"}, arg \in Arg : Click(kind, arg)
    BY <1>2 DEF Clicked
  <2>2. PICK n \in Task : /\ task'[n] = [at |-> "spawned", kind |-> kind, arg |-> arg, got |-> NoReply]
                          /\ \A u \in Task : u # n => task'[u] = task[u]
    BY <2>1, ClickFacts
  <2>3. UNCHANGED <<overtaken, ahead, pipe, reply>>
    BY <2>1 DEF Click, wireVars, orderVars
  <2> QED BY <1>1, <2>2, <2>3
<1>3. ASSUME NEW t \in Task, NEW kind \in Kind, NEW arg \in Arg, CallWorker(t, kind, arg), UNCHANGED <<overtaken, ahead>>
      PROVE  SaveAnswered'
  <2>1. /\ \A u \in Task : u # t => task'[u] = task[u]
        /\ task'[t].at \in {"waiting", "full", "failed"} /\ UNCHANGED <<pipe, reply>>
    BY <1>3, CallFacts
  <2> QED BY <1>1, <1>3, <2>1
<1>4. ASSUME Refresh PROVE SaveAnswered'
  BY <1>3, <1>4, PollFacts DEF Refresh, orderVars
<1>5. ASSUME NEW t \in Task, SubmitTask(t) PROVE SaveAnswered'
  BY <1>3, <1>5, SubmitFacts DEF orderVars
<1>6. ASSUME NEW t \in Task, TimeoutTask(t) PROVE SaveAnswered'
  <2>1. UNCHANGED <<overtaken, ahead>> /\ Timeout(t)
    BY <1>6 DEF TimeoutTask, orderVars
  <2>2. /\ \A u \in Task : u # t => task'[u] = task[u]
        /\ task'[t].at = "failed" /\ UNCHANGED <<pipe, reply>>
    BY <2>1, TimeoutFacts
  <2> QED BY <1>1, <2>1, <2>2
<1>7. ASSUME NEW v \in Task, Resume(v) PROVE SaveAnswered'
  <2>1. task'[v].at = "none" /\ \A u \in Task : u # v => task'[u] = task[u]
    BY <1>7, ResumeFacts
  <2>2. /\ UNCHANGED <<pipe, reply>> /\ overtaken' = (overtaken \ {v}) \cup ahead[v]
        /\ \A u \in Task : u # v => ahead'[u] = ahead[u] \ {v}
    BY <1>7 DEF Resume, wireVars
  <2>3. \A u \in Task : HasState(u)' => u # v /\ HasState(u) /\ task'[u] = task[u]
    BY <2>1 DEF HasState, At
  <2>4. \A t \in Task : task'[t].at = "answered" /\ task'[t].kind = "save" =>
          /\ t # v /\ task[t].at = "answered" /\ task[t].kind = "save" /\ task'[t] = task[t]
    BY <2>1
  <2>5. ASSUME NEW t \in Task, task'[t].at = "answered", task'[t].kind = "save", task'[t].got.ok
        PROVE  /\ daemon'.table = task'[t].arg /\ task'[t].got.state.table = task'[t].arg
               /\ \A u \in Task : HasState(u)' /\ u \notin overtaken' /\ u \notin ahead'[t] =>
                    task'[u].got.state.table = task'[t].arg
               /\ pipe' = "response" => reply'.state.table = task'[t].arg
    <3>1. t # v /\ task[t].at = "answered" /\ task[t].kind = "save" /\ task'[t] = task[t] /\ task[t].got.ok
      BY <2>4, <2>5
    <3>2. \A u \in Task : HasState(u)' /\ u \notin overtaken' /\ u \notin ahead'[t] =>
            task'[u].got.state.table = task'[t].arg
      BY <1>a, <2>2, <2>3, <3>1
    <3> QED BY <1>a, <1>d, <2>2, <3>1, <3>2
  <2> QED BY <1>w, <2>4, <2>5 DEF SaveAnswered, Ok, At
<1>8. ASSUME Worker PROVE SaveAnswered'
  <2>1. overtaken' = overtaken
    BY <1>8 DEF Worker
  <2>2. CASE WorkerTakes /\ UNCHANGED ahead
    BY <1>1, <2>1, <2>2 DEF WorkerTakes
  <2>3. CASE /\ WorkerReplies
             /\ ahead' = IF worker.live /\ reply.ok /\ worker.kind \notin {"reveal", "export"}
                         THEN [ahead EXCEPT ![worker.by] = { t \in Task : HasState(t) }] ELSE ahead
    <3>1. CASE ~worker.live
      <4>1. task' = task /\ ahead' = ahead /\ pipe' = "empty"
        BY <2>3, <3>1, ReplyFacts
      <4> QED BY <1>1, <2>1, <4>1
    <3>2. CASE worker.live
      <4> DEFINE b == worker.by
      <4>1. /\ worker # NoCall /\ pipe = "response" /\ pipe' = "empty" /\ b \in Task
            /\ task[b].at = "waiting" /\ task'[b].at = "answered" /\ task'[b].kind = worker.kind /\ task'[b].arg = worker.arg
            /\ task'[b].got = reply /\ worker' = NoCall /\ queue' = queue
            /\ \A u \in Task : u # b => task'[u] = task[u]
        BY <2>3, <3>2, ReplyFacts
      <4>2. \A u \in Task : u # b => ahead'[u] = ahead[u]
        BY <2>3, <4>1 DEF Types, StoryTypes
      <4>3. reply.ok /\ worker.kind = "save" => ahead'[b] = { t \in Task : HasState(t) }
        BY <2>3, <3>2, <4>1 DEF Types, StoryTypes
      <4>s. SaveServed
        BY DEF Saves
      <4> HIDE DEF b
      <4>4. \A u \in Task : HasState(u)' /\ u # b => HasState(u) /\ task'[u] = task[u]
        BY <4>1 DEF HasState, At
      <4>5. ASSUME worker.kind = "save"
            PROVE  /\ ~OnWire("save")'
                   /\ reply.ok => /\ daemon'.table = worker.arg /\ reply.state.table = worker.arg
                                  /\ \A u \in Task : HasState(u)' /\ u \notin ahead'[b] => u = b
        <5>1. queue # NoCall => queue.kind # "save"
          BY <3>2, <4>1, <4>5, <4>s DEF SaveServed
        <5>2. ~OnWire("save")'
          BY <4>1, <5>1 DEF OnWire
        <5>3. reply.ok => daemon.table = worker.arg /\ reply.state.table = worker.arg
          BY <3>2, <4>1, <4>5, <4>s DEF SaveServed
        <5>4. daemon'.table = daemon.table
          BY <1>8 DEF Worker
        <5>5. reply.ok => \A u \in Task : HasState(u)' /\ u \notin ahead'[b] => u = b
          BY <4>3, <4>4, <4>5
        <5> QED BY <5>2, <5>3, <5>4, <5>5
      <4>6. ASSUME NEW t \in Task, t # b, task[t].at = "answered", task[t].kind = "save", task[t].got.ok
            PROVE  /\ daemon'.table = task[t].arg /\ task[t].got.state.table = task[t].arg
                   /\ \A u \in Task : HasState(u)' /\ u \notin overtaken' /\ u \notin ahead'[t] =>
                        task'[u].got.state.table = task[t].arg
        BY <1>a, <1>d, <2>1, <4>1, <4>2, <4>4, <4>6
      <4>7. \A t \in Task : task'[t].at = "answered" /\ task'[t].kind = "save" => ~OnWire("save")'
        BY <1>w, <4>1, <4>5
      <4>8. ASSUME NEW t \in Task, task'[t].at = "answered", task'[t].kind = "save", task'[t].got.ok
            PROVE  /\ daemon'.table = task'[t].arg /\ task'[t].got.state.table = task'[t].arg
                   /\ \A u \in Task : HasState(u)' /\ u \notin overtaken' /\ u \notin ahead'[t] =>
                        task'[u].got.state.table = task'[t].arg
        <5>1. CASE t = b
          BY <4>1, <4>5, <4>8, <5>1
        <5>2. CASE t # b
          BY <4>1, <4>6, <4>8, <5>2
        <5> QED BY <5>1, <5>2
      <4> QED BY <4>1, <4>7, <4>8 DEF SaveAnswered, Ok, At
    <3> QED BY <3>1, <3>2
  <2> QED BY <1>8, <2>2, <2>3 DEF Worker
<1>9. ASSUME Lost PROVE SaveAnswered'
  <2>1. UNCHANGED <<overtaken, ahead>>
    BY <1>9 DEF Lost, orderVars
  <2> QED BY <1>1, <1>9, <2>1, LostFacts DEF Lost
<1>10. ASSUME Serve PROVE SaveAnswered'
  <2>1. UNCHANGED <<overtaken, ahead, task>> /\ reply'.state = daemon'
    BY <1>10, ServeFacts DEF Serve, orderVars
  <2> QED BY <1>1, <2>1
<1>11. ASSUME Handling \/ Quiet PROVE SaveAnswered'
  <2>1. UNCHANGED <<overtaken, ahead, task, pipe, reply>>
    BY <1>11 DEF Handling, Quiet, channelVars, wireVars, orderVars
  <2> QED BY <1>1, <2>1
<1>12. ASSUME Gone PROVE SaveAnswered'
  BY <1>12, GoneFacts DEF SaveAnswered, At
<1> QED BY <1>2, <1>4, <1>5, <1>6, <1>7, <1>8, <1>9, <1>10, <1>11, <1>12, Steps

\* A save that will be reported.
LEMMA SaveReportedStep ==
  ASSUME Types, Calls, FlagsExact, Carriers, Saves, [Next]_vars
  PROVE  SaveReported'
<1>r. \A i \in DOMAIN events : events[i].kind = "save" /\ events[i].ok =>
        ~OnWire("save") /\ ~Unsent("save") /\ daemon.table = events[i].val /\ Among({events[i].val})
  BY NoneUnsent DEF Saves, SaveReported, Fresh
<1>1. ASSUME NEW i \in DOMAIN events, events[i].kind = "save", events[i].ok, ~Gone, NEW v, v = events[i].val
      PROVE  ~OnWire("save")' /\ daemon'.table = v /\ Among({v})'
  <2>1. ~OnWire("save")'
    BY <1>1, <1>r, WireFacts
  <2>2. daemon'.table = v
    BY <1>1, <1>r, TableStep
  <2>3. Among({v})'
    BY <1>1, <1>r, <2>2, AmongStep
  <2> QED BY <2>1, <2>2, <2>3
<1>2. ASSUME ~Gone, \A i \in DOMAIN events' : \E j \in DOMAIN events : events'[i] = events[j]
      PROVE  SaveReported'
  <2>1. SUFFICES ASSUME NEW i \in DOMAIN events', events'[i].kind = "save", events'[i].ok, NEW v, v = events'[i].val
                 PROVE  ~OnWire("save")' /\ daemon'.table = v /\ Among({v})'
    BY DEF SaveReported, Fresh, Among
  <2>2. PICK j \in DOMAIN events : events'[i] = events[j]
    BY <1>2
  <2> QED BY <1>1, <1>2, <2>1, <2>2
<1>3. ASSUME NEW t \in Task, Resume(t), ~Gone PROVE SaveReported'
  <2>1. PICK e \in Report :
          /\ events' = Append(events, e) /\ e.kind = task[t].kind
          /\ e.kind # "refresh" => (e.ok <=> Ok(t))
          /\ e.kind = "save" /\ e.ok => e.val = task[t].arg
    BY <1>3, ResumeFacts
  <2>2. PICK n \in DOMAIN events' :
          /\ events'[n] = e /\ DOMAIN events' = DOMAIN events \cup {n}
          /\ \A i \in DOMAIN events : events'[i] = events[i]
    BY <2>1, QueueFacts DEF Types, FieldTypes
  <2>3. SUFFICES ASSUME NEW i \in DOMAIN events', events'[i].kind = "save", events'[i].ok, NEW v, v = events'[i].val
                 PROVE  ~OnWire("save")' /\ daemon'.table = v /\ Among({v})'
    BY DEF SaveReported, Fresh, Among
  <2>4. CASE i # n
    BY <1>1, <1>3, <2>2, <2>3, <2>4
  <2>5. CASE i = n
    <3>1. task[t].kind = "save" /\ Ok(t) /\ v = task[t].arg /\ task[t].at = "answered" /\ HasState(t)
      BY <2>1, <2>2, <2>3, <2>5 DEF Ok, HasState, At
    <3>2. /\ ~OnWire("save") /\ daemon.table = v /\ task[t].got.state.table = v
          /\ \A u \in Task : HasState(u) /\ u \notin overtaken \cup ahead[t] => task[u].got.state.table = v
          /\ pipe = "response" => reply.state.table = v
      BY <3>1 DEF Saves, SaveAnswered, At
    <3>3. /\ view' = task[t].got.state /\ overtaken' = (overtaken \ {t}) \cup ahead[t]
          /\ task'[t].at = "none" /\ \A u \in Task : u # t => task'[u] = task[u]
      BY <1>3, <3>1, ResumeFacts DEF Resume
    <3>4. UNCHANGED <<queue, worker, pipe, reply, daemon>>
      BY <1>3 DEF Resume, wireVars
    <3>5. \A u \in Task : HasState(u)' => u # t /\ HasState(u) /\ task'[u] = task[u]
      BY <3>3 DEF HasState, At
    <3>6. \A u \in Task : HasState(u)' /\ u \notin overtaken' => task'[u].got.state.table \in {v}
      BY <3>2, <3>3, <3>5
    <3>7. Among({v})'
      BY <3>2, <3>3, <3>4, <3>6 DEF Among
    <3>8. ~OnWire("save")'
      BY <3>2, <3>4 DEF OnWire
    <3> QED BY <3>2, <3>4, <3>7, <3>8
  <2> QED BY <2>4, <2>5
<1>4. ASSUME Handling, ~Gone PROVE SaveReported'
  <2>1. events \in Seq(Report) /\ events # <<>> /\ events' = Tail(events)
    BY <1>4 DEF Types, FieldTypes, Handling
  <2>2. \A i \in DOMAIN events' : i + 1 \in DOMAIN events /\ events'[i] = events[i + 1]
    BY <2>1, HandleFacts
  <2> QED BY <1>2, <1>4, <2>2
<1>5. ASSUME Gone PROVE SaveReported'
  <2>1. events' = <<>> /\ DOMAIN <<>> = {}
    BY <1>5, EmptySeq, LenProperties DEF Gone
  <2> QED BY <2>1 DEF SaveReported
<1>6. ASSUME Clicked \/ Refresh \/ Between, ~Gone PROVE SaveReported'
  <2>1. events' = events
    BY <1>6, BetweenFacts DEF Clicked, Click, Refresh
  <2> QED BY <1>2, <1>6, <2>1
<1> QED BY <1>3, <1>4, <1>5, <1>6, Steps DEF Between

\* Saves.
LEMMA SavesStep ==
  ASSUME Types, Calls, FlagsExact, Carriers, Saves, [Next]_vars
  PROVE  Saves'
BY SaveServedStep, SaveAnsweredStep, SaveReportedStep DEF Saves

\* While no save is pending and none was reported as failed, none is anywhere.
LEMMA NoSave ==
  ASSUME Types, Calls, FlagsExact, Failures, open, "save" \notin pending, ~late
  PROVE  ~UnderWay("save") /\ Calm
<1>1. ~Carried("save")
  BY DEF FlagsExact, Carried, Flags
<1>2. ~Abandoned("save")
  BY <1>1 DEF Failures, Failing, Carried, Busy, At
<1>3. ASSUME NEW c \in {queue, worker}, c # NoCall, c.kind = "save" PROVE FALSE
  <2>1. c.live /\ c.by \in Task
    BY <1>2, <1>3, Constants DEF Abandoned, Types, WireTypes
  <2>2. task[c.by].at = "waiting" /\ task[c.by].kind = "save"
    BY <1>3, <2>1 DEF Calls, Awaited, At
  <2> QED BY <1>1, <2>1, <2>2 DEF Carried, Busy, At
<1>4. ~OnWire("save")
  BY <1>3 DEF OnWire
<1>5. Calm
  BY <1>1, <1>4 DEF Calm, Carried, OnWire, Busy, At
<1> QED BY <1>1, <1>4, <1>5, UnderWayParts

\* The window hears of a save only when its task resumes with a success.
LEMMA CalmStep ==
  ASSUME Types, Calls, FlagsExact, Failures, [Next]_vars, open', Calm', ~Calm
  PROVE  \E t \in Task : Resume(t) /\ task[t].kind = "save" /\ Ok(t)
<1>o. open /\ ~Gone /\ ~late /\ ~late'
  BY WasOpen, StoryStays DEF Calm
<1>c. /\ \A t \in Task : task'[t].kind = "save" => task'[t].at \notin {"answered", "full", "failed"}
      /\ \A i \in DOMAIN events' : events'[i].kind = "save" => events'[i].ok
      /\ worker' # NoCall /\ worker'.kind = "save" => pipe' # "response"
  BY DEF Calm
<1>f. ~Failing("save")
  BY <1>o, <1>c, FailingStep DEF Failing, At
<1>1. ASSUME NEW t \in Task, task[t].kind = "save", task[t].at \in {"answered", "full", "failed"}
      PROVE  \E u \in Task : Resume(u) /\ task[u].kind = "save" /\ Ok(u)
  <2>1. Resume(t)
    <3>1. ASSUME UNCHANGED task PROVE FALSE
      BY <1>1, <1>c, <3>1
    <3>2. ASSUME NEW u \in Task, u # t, \A v \in Task : v # u => task'[v] = task[v] PROVE FALSE
      BY <1>1, <1>c, <3>2
    <3>3. ~Clicked
      <4> SUFFICES ASSUME Clicked PROVE FALSE
        OBVIOUS
      <4>1. PICK kind \in Kind \ {"refresh"}, arg \in Arg : Click(kind, arg)
        BY DEF Clicked
      <4>2. PICK n \in Task : ~Busy(n) /\ \A u \in Task : u # n => task'[u] = task[u]
        BY <4>1, ClickFacts
      <4> QED BY <1>1, <3>2, <4>2 DEF Busy, At
    <3>4. ~Refresh
      BY <1>1, <3>2, PollFacts, CallFacts
    <3>5. ~(Handling \/ Serve \/ Quiet)
      BY <3>1, ServeFacts DEF Handling, Quiet, channelVars
    <3>6. ~Worker
      <4>1. ~WorkerTakes
        BY <3>1 DEF WorkerTakes
      <4>2. ~WorkerReplies
        BY <1>1, <3>1, <3>2, ReplyFacts
      <4> QED BY <4>1, <4>2 DEF Worker
    <3>7. ~Lost
      BY <1>1, <1>c, LostFacts DEF Lost
    <3>8. ASSUME NEW u \in Task PROVE ~SubmitTask(u) /\ ~TimeoutTask(u)
      <4>1. ~SubmitTask(u)
        BY <1>1, <3>2, SubmitFacts, CallFacts
      <4>2. ~TimeoutTask(u)
        BY <1>1, <3>2, TimeoutFacts DEF TimeoutTask
      <4> QED BY <4>1, <4>2
    <3>9. ASSUME NEW u \in Task, Resume(u) PROVE u = t
      BY <3>2, <3>9, ResumeFacts
    <3> QED BY <1>o, <3>3, <3>4, <3>5, <3>6, <3>7, <3>8, <3>9, Steps
  <2>2. PICK e \in Report : events' = Append(events, e) /\ e.kind = "save" /\ (e.ok <=> Ok(t))
    BY <1>1, <2>1, ResumeFacts
  <2>3. e.ok
    BY <1>c, <2>2, QueueFacts DEF Types, FieldTypes
  <2> QED BY <1>1, <2>1, <2>2, <2>3
<1>2. \A i \in DOMAIN events : events[i].kind = "save" => events[i].ok
  BY <1>f DEF Failing
<1>3. ASSUME worker # NoCall, worker.kind = "save", pipe = "response"
      PROVE  FALSE
  <2>1. worker.live /\ worker.by \in Task
    BY <1>3, <1>f, <1>o, Constants DEF Failures, Abandoned, Types, WireTypes
  <2>2. task[worker.by].at = "waiting" /\ task[worker.by].kind = "save"
    BY <1>3, <2>1 DEF Calls, Awaited, At
  <2>3. ASSUME UNCHANGED <<worker, pipe>> PROVE FALSE
    BY <1>3, <1>c, <2>3
  <2>4. ~(Clicked \/ Handling \/ Quiet \/ \E t \in Task : Resume(t))
    BY <2>3 DEF Clicked, Click, Handling, Quiet, Resume, channelVars, wireVars
  <2>5. ~Refresh
    BY <2>3, PollFacts, CallFacts
  <2>6. ~Serve
    BY <1>3, ServeFacts
  <2>7. ~Worker
    <3>1. ~WorkerTakes
      BY <1>3 DEF WorkerTakes
    <3>2. ~WorkerReplies
      BY <1>c, <2>1, <2>2, ReplyFacts
    <3> QED BY <3>1, <3>2 DEF Worker
  <2>8. ~Lost
    BY <1>c, <2>1, <2>2, LostFacts DEF Lost
  <2>9. ASSUME NEW u \in Task PROVE ~SubmitTask(u) /\ ~TimeoutTask(u)
    <3>1. ~SubmitTask(u)
      BY <2>3, SubmitFacts, CallFacts
    <3>2. ~TimeoutTask(u)
      BY <1>3, <1>c, TimeoutFacts DEF TimeoutTask
    <3> QED BY <3>1, <3>2
  <2> QED BY <1>o, <2>4, <2>5, <2>6, <2>7, <2>8, <2>9, Steps
<1> QED BY <1>o, <1>1, <1>2, <1>3 DEF Calm

\* The copy is as current as the answers on their way.
LEMMA CurrentStep ==
  ASSUME Types, Calls, FlagsExact, Carriers, Failures, Saves, Current, [Next]_vars
  PROVE  Current'
<1>s. SUFFICES ASSUME open', Calm', NEW T, T = daemon'.table PROVE Among({T})'
  BY DEF Current, Fresh, Among
<1>o. open /\ ~Gone
  BY <1>s, WasOpen
<1>1. CASE Calm
  <2>1. daemon'.table = daemon.table
    <3>1. ASSUME Serve, worker.kind = "save", worker # NoCall PROVE FALSE
      BY <1>s, <3>1, ServeFacts DEF Calm
    <3> QED BY <3>1, TableStep
  <2>2. Among({T})
    BY <1>1, <1>o, <1>s, <2>1 DEF Current, Fresh
  <2> QED BY <1>o, <1>s, <2>2, AmongStep
<1>2. CASE ~Calm
  <2>1. PICK t \in Task : Resume(t) /\ task[t].kind = "save" /\ Ok(t)
    BY <1>2, <1>s, CalmStep
  <2>2. PICK e \in Report : events' = Append(events, e) /\ e.kind = "save" /\ e.ok
    BY <2>1, ResumeFacts
  <2>3. PICK n \in DOMAIN events' : events'[n] = e
    BY <2>2, QueueFacts DEF Types, FieldTypes
  <2>4. T = e.val /\ Fresh(e.val)'
    BY <1>s, <2>2, <2>3, SaveReportedStep DEF SaveReported, Fresh, Among
  <2> QED BY <2>4 DEF Fresh
<1> QED BY <1>1, <1>2

-----------------------------------------------------------------------------
(* Promises *)

\* More tables, and still all of them.
LEMMA TablesGrow ==
  ASSUME NEW R, NEW S, R \subseteq S, Tables(R)
  PROVE  Tables(S)
<1>1. Among(S)
  BY DEF Tables, Among
<1> QED BY <1>1 DEF Tables

\* Only a click that saves brings a table that was not there.
LEMMA TablesStep ==
  ASSUME Types, Calls, FlagsExact, [Next]_vars, NEW S, Tables(S),
         \A table \in Arg : Click("save", table) => table \in S
  PROVE  Tables(S)'
<1>t. /\ daemon.table \in S
      /\ \A t \in Task : task[t].at # "none" /\ task[t].kind = "save" => task[t].arg \in S
      /\ queue # NoCall /\ queue.kind = "save" => queue.arg \in S
      /\ worker # NoCall /\ worker.kind = "save" => worker.arg \in S
      /\ Among(S)
  BY DEF Tables, Busy, At
<1>d. daemon'.table \in S
  <2>1. CASE Serve
    BY <1>t, <2>1, ServeFacts
  <2>2. CASE ~Serve
    BY <1>t, <2>2, TableStep
  <2> QED BY <2>1, <2>2
<1>a. Among(S)'
  BY <1>t, <1>d, AmongStep
<1>1. ASSUME \A t \in Task : task'[t].at # "none" /\ task'[t].kind = "save" => task'[t].arg \in S,
             queue' # NoCall /\ queue'.kind = "save" => queue'.arg \in S,
             worker' # NoCall /\ worker'.kind = "save" => worker'.arg \in S
      PROVE  Tables(S)'
  BY <1>a, <1>d, <1>1 DEF Tables, Busy, At
<1>2. ASSUME Clicked PROVE Tables(S)'
  <2>1. PICK kind \in Kind \ {"refresh"}, arg \in Arg : Click(kind, arg)
    BY <1>2 DEF Clicked
  <2>2. PICK n \in Task : /\ task'[n] = [at |-> "spawned", kind |-> kind, arg |-> arg, got |-> NoReply]
                          /\ \A u \in Task : u # n => task'[u] = task[u]
    BY <2>1, ClickFacts
  <2>3. UNCHANGED <<queue, worker>> /\ (kind = "save" => arg \in S)
    BY <2>1 DEF Click, wireVars
  <2> QED BY <1>1, <1>t, <2>2, <2>3
<1>3. ASSUME Refresh PROVE Tables(S)'
  <2>1. /\ task'[0].kind = "refresh" /\ (\A u \in Task : u # 0 => task'[u] = task[u]) /\ worker' = worker
        /\ \/ queue' = [by |-> 0, kind |-> "refresh", arg |-> NoArg, live |-> TRUE]
           \/ queue' = queue
    BY <1>3, PollFacts, CallFacts
  <2> QED BY <1>1, <1>t, <2>1
<1>4. ASSUME NEW t \in Task, SubmitTask(t) PROVE Tables(S)'
  <2>1. task[t].at # "none"
    BY <1>4, SubmitFacts
  <2>2. /\ task'[t].kind = task[t].kind /\ task'[t].arg = task[t].arg /\ worker' = worker
        /\ \A u \in Task : u # t => task'[u] = task[u]
        /\ \/ queue' = [by |-> t, kind |-> task[t].kind, arg |-> task[t].arg, live |-> TRUE]
           \/ queue' = queue
    BY <1>4, SubmitFacts, CallFacts
  <2> QED BY <1>1, <1>t, <2>1, <2>2
<1>5. ASSUME NEW t \in Task, TimeoutTask(t) PROVE Tables(S)'
  BY <1>5, <1>1, <1>t, TimeoutFacts DEF TimeoutTask
<1>6. ASSUME NEW t \in Task, Resume(t) PROVE Tables(S)'
  <2>1. task'[t].at = "none" /\ \A u \in Task : u # t => task'[u] = task[u]
    BY <1>6, ResumeFacts
  <2>2. UNCHANGED <<queue, worker>>
    BY <1>6 DEF Resume, wireVars
  <2> QED BY <1>1, <1>t, <2>1, <2>2
<1>7. ASSUME Gone PROVE Tables(S)'
  BY <1>7, <1>1, <1>t, GoneFacts
<1>8. ASSUME Worker PROVE Tables(S)'
  <2>1. \A t \in Task : task'[t].at # "none" /\ task'[t].kind = "save" => task'[t].arg \in S
    BY <1>8, <1>t, BetweenFacts DEF Between
  <2>2. CASE WorkerTakes
    BY <1>1, <1>t, <2>1, <2>2 DEF WorkerTakes
  <2>3. CASE WorkerReplies
    BY <1>1, <1>t, <2>1, <2>3 DEF WorkerReplies
  <2> QED BY <1>8, <2>2, <2>3 DEF Worker
<1>9. ASSUME Lost PROVE Tables(S)'
  <2>1. \A t \in Task : task'[t].at # "none" /\ task'[t].kind = "save" => task'[t].arg \in S
    BY <1>9, <1>t, BetweenFacts DEF Between
  <2> QED BY <1>9, <1>1, <2>1, LostFacts DEF Lost
<1>10. ASSUME Serve \/ Handling \/ Quiet PROVE Tables(S)'
  <2>1. UNCHANGED <<task, queue, worker>>
    BY <1>10, ServeFacts DEF Handling, Quiet, channelVars, wireVars
  <2> QED BY <1>1, <1>t, <2>1
<1> QED BY <1>2, <1>3, <1>4, <1>5, <1>6, <1>7, <1>8, <1>9, <1>10, Steps

\* What the window reports as saved is what everybody has.
LEMMA ReportKept ==
  ASSUME Types, Calls, FlagsExact, Carriers, Saves, Handling, Head(events).kind = "save", Head(events).ok,
         NEW v, v = Head(events).val
  PROVE  /\ v \in Table /\ daemon.table = v /\ ~OnWire("save") /\ Among({v})
         /\ \A t \in Task : ~(Busy(t) /\ task[t].kind = "save")
<1>1. events \in Seq(Report) /\ events # <<>>
  BY DEF Types, FieldTypes, Handling
<1>2. 1 \in DOMAIN events /\ Head(events) = events[1]
  BY <1>1, HandleFacts
<1>3. v \in Table
  BY <1>2 DEF Types, FieldTypes, ValOf
<1>4. daemon.table = v /\ ~OnWire("save") /\ Among({v})
  BY <1>2 DEF Saves, SaveReported, Fresh
<1>5. \A t \in Task : ~(Busy(t) /\ task[t].kind = "save")
  BY <1>2 DEF Carriers, Flags
<1> QED BY <1>3, <1>4, <1>5

\* What was reported as saved is kept.
LEMMA PromisesStep ==
  ASSUME Types, Calls, FlagsExact, Carriers, Saves, Promises, [Next]_vars
  PROVE  Promises'
<1>s. SUFFICES ASSUME ~blind', NEW S, S = Keeping(promised') PROVE Tables(S)'
  BY DEF Promises, Tables, Among
<1>b. ~blind /\ Tables(Keeping(promised))
  BY <1>s, StoryStays DEF Promises
<1>1. CASE Handling /\ Head(events).kind = "save" /\ Head(events).ok
  <2>1. PICK v : v = Head(events).val
    OBVIOUS
  <2>2. /\ v \in Table /\ daemon.table = v /\ ~OnWire("save") /\ Among({v})
        /\ \A t \in Task : ~(Busy(t) /\ task[t].kind = "save")
    BY <1>1, <2>1, ReportKept
  <2>3. promised' = v /\ daemon' = daemon /\ UNCHANGED <<task, queue, worker>>
    BY <1>1, <2>1 DEF Handling, channelVars, wireVars
  <2>4. v \in S
    BY <1>s, <2>2, <2>3 DEF Keeping
  <2>5. Among({v})'
    BY <2>2, <2>3, AmongStep
  <2>6. Among(S)'
    BY <2>4, <2>5 DEF Among
  <2> QED BY <2>2, <2>3, <2>4, <2>6 DEF Tables, OnWire, Busy, At
<1>2. CASE Clicked
  <2>1. PICK kind \in Kind \ {"refresh"}, arg \in Arg :
          /\ ArgOf(kind, arg) /\ Click(kind, arg)
          /\ blind' <=> (blind \/ (kind \in {"save", "apply"} /\ behind))
          /\ kind # "save" => promised' = promised
          /\ kind = "save" => \A a \in Actions : \/ promised'[a] = NoPromise
                                                 \/ promised'[a] = promised[a] /\ arg[a] = view.table[a]
    BY <1>2 DEF Clicked
  <2>2. Keeping(promised) \subseteq S
    <3>1. CASE kind # "save"
      BY <1>s, <2>1, <3>1
    <3>2. CASE kind = "save"
      <4>1. \A a \in Actions : promised'[a] = NoPromise \/ promised'[a] = promised[a]
        BY <2>1, <3>2
      <4> QED BY <1>s, <4>1 DEF Keeping
    <3> QED BY <3>1, <3>2
  <2>3. Tables(S)
    BY <1>b, <2>2, TablesGrow
  <2>4. ASSUME NEW table \in Arg, Click("save", table) PROVE table \in S
    <3>1. kind = "save" /\ arg = table
      <4>1. PICK n \in Task : /\ n = clicks + 1
              /\ task'[n] = [at |-> "spawned", kind |-> kind, arg |-> arg, got |-> NoReply]
        BY <2>1, ClickFacts
      <4>2. "save" \in Kind
        BY DEF Kind, Flags
      <4>3. PICK m \in Task : /\ m = clicks + 1
              /\ task'[m] = [at |-> "spawned", kind |-> "save", arg |-> table, got |-> NoReply]
        BY <2>4, <4>2, ClickFacts
      <4>4. task'[n].kind = kind /\ task'[n].arg = arg /\ task'[n].kind = "save" /\ task'[n].arg = table
        BY <4>1, <4>3
      <4> QED BY <4>4
    <3>2. table \in Table /\ open /\ ~behind
      BY <1>s, <2>1, <3>1 DEF ArgOf, Click
    <3>3. view.table \in Keeping(promised)
      BY <1>b, <3>2 DEF Tables, Among
    <3>4. \A a \in Actions : promised'[a] \in {NoPromise, table[a]}
      BY <2>1, <3>1, <3>3 DEF Keeping
    <3> QED BY <1>s, <3>2, <3>4 DEF Keeping
  <2> QED BY <2>3, <2>4, TablesStep
<1>3. CASE ~Clicked /\ ~(Handling /\ Head(events).kind = "save" /\ Head(events).ok)
  <2>1. promised' = promised
    <3>1. Handling => promised' = promised
      BY <1>3 DEF Handling
    <3>2. Between => promised' = promised
      BY BetweenFacts
    <3> QED BY <1>3, <3>1, <3>2, Steps DEF Between, Refresh, Gone, Resume, storyVars
  <2>2. ASSUME NEW table \in Arg PROVE ~Click("save", table)
    <3> SUFFICES ASSUME Click("save", table) PROVE FALSE
      OBVIOUS
    <3>1. "save" \in Kind
      BY DEF Kind, Flags
    <3>2. PICK n \in Task : /\ ~Busy(n) /\ clicks' = clicks + 1
            /\ task'[n] = [at |-> "spawned", kind |-> "save", arg |-> table, got |-> NoReply]
      BY <3>1, ClickFacts
    <3>3. task[n].at = "none" /\ task'[n].at = "spawned" /\ task'[n].kind = "save" /\ open'
      BY <3>2 DEF Busy, At, Click
    <3>4. ~Between
      BY <3>3, BetweenFacts
    <3>5. ~Refresh
      BY <3>3, PollFacts, CallFacts
    <3>6. ~(Handling \/ Gone)
      BY <3>3 DEF Handling, Gone, channelVars
    <3>7. \A t \in Task : ~Resume(t)
      BY <3>3, ResumeFacts
    <3> QED BY <1>3, <3>4, <3>5, <3>6, <3>7, Steps DEF Between
  <2> QED BY <1>b, <1>s, <2>1, <2>2, TablesStep
<1> QED BY <1>1, <1>2, <1>3

-----------------------------------------------------------------------------
(* Drafts and publications *)

\* The drafts against the daemon's table.
LEMMA DraftsStep ==
  ASSUME Types, Calls, FlagsExact, Carriers, Failures, Saves, Drafts, [Next]_vars
  PROVE  Drafts'
<1>s. SUFFICES ASSUME open', "save" \notin pending', ~late', ~blind', NEW a \in Configured(daemon'.table),
                      drafts'[a] # daemon'.table[a].phrase
               PROVE  a \in typed'
  BY DEF Drafts, Configured
<1>o. open /\ ~Gone /\ ~late /\ ~blind
  BY <1>s, WasOpen, StoryStays
<1>a. a \in Actions
  BY DEF Configured
<1>1. CASE Handling /\ Head(events).kind = "save" /\ Head(events).ok
  <2>1. PICK v : v = Head(events).val
    OBVIOUS
  <2>2. daemon.table = v /\ Among({v})
    BY <1>1, <2>1, ReportKept
  <2>3. ~behind /\ drafts' = DraftsOf(view.table) /\ daemon' = daemon
    BY <1>1, <1>s DEF Handling
  <2>4. view.table = daemon'.table
    BY <1>o, <2>2, <2>3 DEF Among
  <2>5. daemon'.table[a] # Absent
    BY DEF Configured
  <2>6. drafts'[a] = daemon'.table[a].phrase
    BY <1>a, <2>3, <2>4, <2>5 DEF DraftsOf
  <2> QED BY <1>s, <2>6
<1>2. CASE ~(Handling /\ Head(events).kind = "save" /\ Head(events).ok)
  <2>1. "save" \notin pending
    <3>1. Handling => "save" \notin pending
      BY <1>2, <1>s DEF Handling
    <3>2. Between => "save" \notin pending
      BY <1>s, BetweenFacts
    <3>3. Clicked => "save" \notin pending
      BY <1>s DEF Clicked, Click
    <3>4. Refresh => "save" \notin pending
      BY <1>s DEF Refresh
    <3>5. \A t \in Task : Resume(t) => "save" \notin pending
      BY <1>s DEF Resume, boxVars
    <3> QED BY <1>o, <3>1, <3>2, <3>3, <3>4, <3>5, Steps DEF Between
  <2>2. ~UnderWay("save")
    BY <1>o, <2>1, NoSave
  <2>3. daemon'.table = daemon.table
    BY <2>2, TableStep, UnderWayParts
  <2>4. a \notin typed' => a \notin typed /\ drafts'[a] = drafts[a]
    <3>1. Handling => UNCHANGED <<drafts, typed>>
      BY <1>2 DEF Handling
    <3>2. Quiet => (a \notin typed' => a \notin typed /\ drafts'[a] = drafts[a])
      BY <1>a DEF Quiet
    <3>3. Clicked => UNCHANGED <<drafts, typed>>
      BY DEF Clicked
    <3>4. Refresh \/ Worker \/ Serve \/ Lost \/ (\E t \in Task : SubmitTask(t) \/ TimeoutTask(t) \/ Resume(t))
            => UNCHANGED <<drafts, typed>>
      BY DEF Refresh, Worker, Serve, Lost, SubmitTask, TimeoutTask, Resume, windowVars, boxVars, storyVars
    <3> QED BY <1>o, <3>1, <3>2, <3>3, <3>4, Steps
  <2> QED BY <1>o, <1>s, <2>1, <2>3, <2>4 DEF Drafts
<1> QED BY <1>1, <1>2

\* Only the Apply button brings a table to publish.
LEMMA PublishStep ==
  ASSUME Types, Calls, FlagsExact, [Next]_vars, NEW T, Publishing(T),
         Clicked => \E kind \in Kind \ {"refresh"}, arg \in Arg : Click(kind, arg) /\ (kind = "apply" => arg = T)
  PROVE  Publishing(T)'
<1>t. /\ \A t \in Task : task[t].at \notin {"none", "answered"} /\ task[t].kind = "apply" => task[t].arg = T
      /\ queue # NoCall /\ queue.kind = "apply" => queue.arg = T
      /\ worker # NoCall /\ worker.kind = "apply" => worker.arg = T
  BY DEF Publishing, Busy, At
<1>1. ASSUME \A t \in Task : task'[t].at \notin {"none", "answered"} /\ task'[t].kind = "apply" => task'[t].arg = T,
             queue' # NoCall /\ queue'.kind = "apply" => queue'.arg = T,
             worker' # NoCall /\ worker'.kind = "apply" => worker'.arg = T
      PROVE  Publishing(T)'
  BY <1>1 DEF Publishing, Busy, At
<1>2. ASSUME Clicked PROVE Publishing(T)'
  <2>1. PICK kind \in Kind \ {"refresh"}, arg \in Arg : Click(kind, arg) /\ (kind = "apply" => arg = T)
    BY <1>2
  <2>2. PICK n \in Task : /\ task'[n] = [at |-> "spawned", kind |-> kind, arg |-> arg, got |-> NoReply]
                          /\ \A u \in Task : u # n => task'[u] = task[u]
    BY <2>1, ClickFacts
  <2>3. UNCHANGED <<queue, worker>>
    BY <2>1 DEF Click, wireVars
  <2> QED BY <1>1, <1>t, <2>1, <2>2, <2>3
<1>3. ASSUME Refresh PROVE Publishing(T)'
  <2>1. /\ task'[0].kind = "refresh" /\ (\A u \in Task : u # 0 => task'[u] = task[u]) /\ worker' = worker
        /\ \/ queue' = [by |-> 0, kind |-> "refresh", arg |-> NoArg, live |-> TRUE]
           \/ queue' = queue
    BY <1>3, PollFacts, CallFacts
  <2> QED BY <1>1, <1>t, <2>1
<1>4. ASSUME NEW t \in Task, SubmitTask(t) PROVE Publishing(T)'
  <2>1. task[t].at = "spawned"
    BY <1>4, SubmitFacts
  <2>2. /\ task'[t].kind = task[t].kind /\ task'[t].arg = task[t].arg /\ worker' = worker
        /\ \A u \in Task : u # t => task'[u] = task[u]
        /\ \/ queue' = [by |-> t, kind |-> task[t].kind, arg |-> task[t].arg, live |-> TRUE]
           \/ queue' = queue
    BY <1>4, SubmitFacts, CallFacts
  <2> QED BY <1>1, <1>t, <2>1, <2>2
<1>5. ASSUME NEW t \in Task, TimeoutTask(t) PROVE Publishing(T)'
  BY <1>5, <1>1, <1>t, TimeoutFacts DEF TimeoutTask
<1>6. ASSUME NEW t \in Task, Resume(t) PROVE Publishing(T)'
  <2>1. task'[t].at = "none" /\ \A u \in Task : u # t => task'[u] = task[u]
    BY <1>6, ResumeFacts
  <2>2. UNCHANGED <<queue, worker>>
    BY <1>6 DEF Resume, wireVars
  <2> QED BY <1>1, <1>t, <2>1, <2>2
<1>7. ASSUME Gone PROVE Publishing(T)'
  BY <1>7, <1>1, <1>t, GoneFacts
<1>8. ASSUME Worker PROVE Publishing(T)'
  <2>1. CASE WorkerTakes
    BY <1>1, <1>t, <2>1 DEF WorkerTakes
  <2>2. CASE WorkerReplies
    BY <1>1, <1>t, <2>2, ReplyFacts
  <2> QED BY <1>8, <2>1, <2>2 DEF Worker
<1>9. ASSUME Lost PROVE Publishing(T)'
  BY <1>9, <1>1, <1>t, LostFacts DEF Lost
<1>10. ASSUME Serve \/ Handling \/ Quiet PROVE Publishing(T)'
  <2>1. UNCHANGED <<task, queue, worker>>
    BY <1>10, ServeFacts DEF Handling, Quiet, channelVars, wireVars
  <2> QED BY <1>1, <1>t, <2>1
<1> QED BY <1>2, <1>3, <1>4, <1>5, <1>6, <1>7, <1>8, <1>9, <1>10, Steps

\* A save and an Apply are under way together only if this is recorded.
LEMMA MixedStep ==
  ASSUME Types, Calls, FlagsExact, Failures, Applies, [Next]_vars
  PROVE  UnderWay("apply")' /\ UnderWay("save")' => late' \/ mixed'
<1>1. UnderWay("apply") /\ UnderWay("save") => late \/ mixed
  BY DEF Applies
<1>2. ASSUME Clicked, UnderWay("apply")', UnderWay("save")' PROVE late' \/ mixed'
  <2>1. PICK kind \in Kind \ {"refresh"}, arg \in Arg :
          /\ Click(kind, arg) /\ (mixed' <=> (mixed \/ (kind = "save" /\ UnderWay("apply")))) /\ late' = late
          /\ kind = "apply" => "save" \notin pending
    BY <1>2 DEF Clicked
  <2>2. ASSUME NEW k, UnderWay(k)' PROVE UnderWay(k) \/ k = kind
    BY <2>1, <2>2, ClickCarried, UnderWayParts
  <2>3. CASE kind = "apply"
    <3>1. ~late => ~UnderWay("save")
      BY <2>1, <2>3, NoSave DEF Click
    <3>2. UnderWay("save")
      BY <1>2, <2>2, <2>3
    <3> QED BY <2>1, <3>1, <3>2
  <2>4. CASE kind # "apply"
    BY <1>1, <1>2, <2>1, <2>2, <2>4
  <2> QED BY <2>3, <2>4
<1>3. CASE ~Clicked
  BY <1>1, <1>3, UnderWayStep, StoryStays
<1> QED BY <1>2, <1>3

\* An Apply under way will publish what was on the screen.
LEMMA AppliesStep ==
  ASSUME Types, Calls, FlagsExact, Failures, Current, Applies, [Next]_vars
  PROVE  Applies'
<1>1. UnderWay("apply")' /\ UnderWay("save")' => late' \/ mixed'
  BY MixedStep
<1>2. SUFFICES ASSUME ~late', ~mixed', ~blind', NEW T, T = daemon'.table PROVE ~astray' /\ Publishing(T)'
  BY <1>1 DEF Applies, Publishing
<1>3. ~late /\ ~mixed /\ ~blind /\ ~astray /\ Publishing(daemon.table)
  BY <1>2, StoryStays DEF Applies
<1>4. CASE daemon'.table = daemon.table
  <2>1. Clicked => \E kind \in Kind \ {"refresh"}, arg \in Arg : Click(kind, arg) /\ (kind = "apply" => arg = T)
    <3> SUFFICES ASSUME Clicked
                 PROVE  \E kind \in Kind \ {"refresh"}, arg \in Arg : Click(kind, arg) /\ (kind = "apply" => arg = T)
      OBVIOUS
    <3>1. PICK kind \in Kind \ {"refresh"}, arg \in Arg :
            /\ Click(kind, arg)
            /\ blind' <=> (blind \/ (kind \in {"save", "apply"} /\ behind))
            /\ kind = "apply" => arg = view.table /\ "save" \notin pending
      BY DEF Clicked
    <3>2. ASSUME kind = "apply" PROVE arg = T
      <4>1. open /\ ~behind /\ "save" \notin pending
        BY <1>2, <3>1, <3>2 DEF Click
      <4>2. Calm
        BY <1>3, <4>1, NoSave
      <4>3. view.table = daemon.table
        BY <4>1, <4>2 DEF Current, Fresh, Among
      <4> QED BY <1>2, <1>4, <3>1, <3>2, <4>3
    <3> QED BY <3>1, <3>2
  <2>2. Publishing(T)'
    BY <1>2, <1>3, <1>4, <2>1, PublishStep
  <2>3. ~astray'
    <3>1. CASE Serve
      BY <1>3, <3>1, ServeFacts DEF Publishing
    <3>2. CASE ~Serve
      <4>1. astray' = astray
        BY <3>2, Steps DEF Clicked, Refresh, Gone, Handling, Worker, Lost, Quiet, SubmitTask, TimeoutTask, Resume, storyVars
      <4> QED BY <1>3, <4>1
    <3> QED BY <3>1, <3>2
  <2> QED BY <2>2, <2>3
<1>5. CASE daemon'.table # daemon.table
  <2>1. Serve /\ worker # NoCall /\ worker.kind = "save"
    BY <1>5, TableStep
  <2>2. ~astray' /\ worker' = worker
    BY <1>3, <2>1, ServeFacts
  <2>3. OnWire("save")'
    BY <2>1, <2>2 DEF OnWire
  <2>4. ~UnderWay("apply")'
    BY <1>1, <1>2, <2>3, UnderWayParts
  <2>5. ~Carried("apply")' /\ ~OnWire("apply")'
    BY <2>4, UnderWayParts
  <2>6. Publishing(T)'
    BY <2>5 DEF Publishing, Carried, OnWire
  <2> QED BY <2>2, <2>6
<1> QED BY <1>4, <1>5

-----------------------------------------------------------------------------
(* The theorems *)

\* When the window opens, nothing is under way and the copy is current.
LEMMA WindowStarts ==
  ASSUME Init
  PROVE  WindowInd
<1>1. /\ link = TRUE /\ task = [t \in Task |-> NoTask] /\ queue = NoCall /\ worker = NoCall /\ pipe = "empty"
      /\ open = TRUE /\ token = 0 /\ view = daemon /\ pending = {} /\ events = <<>> /\ clicks = 0 /\ shown = NoToken
      /\ daemon = [table |-> FirstTable, listener |-> TRUE, startup |-> FALSE, needsApply |-> TRUE]
      /\ checked = [listener |-> view.listener, startup |-> view.startup] /\ drafts = DraftsOf(view.table)
      /\ typed = {} /\ ahead = [t \in Task |-> {}] /\ overtaken = {} /\ promised = [a \in Actions |-> NoPromise]
  BY DEF Init, ChannelInit
<1>2. behind = FALSE /\ blind = FALSE /\ late = FALSE /\ mixed = FALSE /\ astray = FALSE /\ crossed = FALSE /\ misread = FALSE
  BY DEF Init
<1>3. \A t \in Task : task[t].at = "none" /\ task[t].kind = "none"
  BY <1>1 DEF NoTask
<1>4. daemon \in State /\ daemon.table = FirstTable /\ FirstTable \in [Actions -> Entry \cup {Absent}]
      /\ daemon.listener = TRUE /\ daemon.startup = FALSE
  BY <1>1, Constants DEF State, Table
<1>5. DOMAIN events = {} /\ events \in Seq(Report)
  BY <1>1, EmptySeq, LenProperties
<1>6. drafts = [a \in Actions |-> IF FirstTable[a] = Absent THEN NoPhrase ELSE FirstTable[a].phrase]
  BY <1>1, <1>4 DEF DraftsOf
<1>7. TaskTypes
  BY <1>1, <1>3, Constants DEF TaskTypes, Busy, At
<1>8. WireTypes
  BY <1>1 DEF WireTypes
<1>9. checked \in [{"listener", "startup"} -> BOOLEAN]
  <2>1. checked = [listener |-> TRUE, startup |-> FALSE]
    BY <1>1, <1>4
  <2>2. DOMAIN checked = {"listener", "startup"}
    BY <2>1, SMT
  <2>3. checked = [box \in {"listener", "startup"} |-> checked[box]]
    BY <2>1, <2>2
  <2>4. checked["listener"] = TRUE /\ checked["startup"] = FALSE
    BY <2>1
  <2> QED BY <2>2, <2>3, <2>4
<1>10. drafts \in [Actions -> Phrases \cup {NoPhrase}]
  BY <1>4, <1>6 DEF Entry
<1>11. clicks \in 0 .. MaxClicks /\ token \in Nat
  BY <1>1, Constants
<1>12. open \in BOOLEAN /\ link \in BOOLEAN /\ pending \subseteq Flags /\ shown \in Nat \cup {NoToken} /\ typed \subseteq Actions
       /\ promised \in [Actions -> Entry \cup {Absent, NoPromise}] /\ view \in State
  BY <1>1, <1>4
<1>13. FieldTypes
  BY <1>4, <1>5, <1>9, <1>10, <1>11, <1>12 DEF FieldTypes
<1>14. StoryTypes
  BY <1>1, <1>2 DEF StoryTypes
<1>15. Calls /\ Carriers
  BY <1>1, <1>3, <1>5 DEF Calls, Carriers, Awaited, Busy, At
<1>16. \A k : ~Carried(k) /\ ~OnWire(k) /\ ~Abandoned(k)
  BY <1>1, <1>3, <1>5 DEF Carried, OnWire, Abandoned, Busy, At
<1>17. FlagsExact
  BY <1>1, <1>16 DEF FlagsExact, Carried
<1>18. Failures
  BY <1>16 DEF Failures
<1>19. Tokens
  BY <1>1, <1>3, <1>5, <1>16, UnderWayParts DEF Tokens, Ok, At
<1>20. \A S : FirstTable \in S => Among(S)
  BY <1>1, <1>3, <1>4 DEF Among, HasState, At
<1>21. Saves
  BY <1>1, <1>3, <1>5 DEF Saves, SaveServed, SaveAnswered, SaveReported, At
<1>22. Current
  BY <1>4, <1>20 DEF Current, Fresh
<1>23. FirstTable \in Keeping(promised)
  BY <1>1, Constants DEF Keeping
<1>24. Promises
  BY <1>1, <1>3, <1>4, <1>20, <1>23 DEF Promises, Tables, Busy, At
<1>25. Drafts
  BY <1>4, <1>6 DEF Drafts, Configured
<1>26. Applies
  BY <1>1, <1>2, <1>3, <1>16, UnderWayParts DEF Applies, Publishing, Busy, At
<1> QED
  BY <1>7, <1>8, <1>13, <1>14, <1>15, <1>17, <1>18, <1>19, <1>21, <1>22, <1>24, <1>25, <1>26 DEF WindowInd, Types

\* Every step keeps the inductive invariant.
LEMMA WindowStep ==
  ASSUME WindowInd, [Next]_vars
  PROVE  WindowInd'
<1>1. /\ Types /\ Calls /\ Carriers /\ FlagsExact /\ Failures
      /\ Tokens /\ Saves /\ Current /\ Promises /\ Drafts /\ Applies
  BY DEF WindowInd
<1>2. Types' /\ Calls' /\ Carriers' /\ FlagsExact' /\ Failures'
  BY <1>1, TypesStep, CallsStep, CarriersStep, FlagsStep, FailuresStep
<1>3. Tokens' /\ Saves' /\ Current'
  BY <1>1, TokensStep, SavesStep, CurrentStep
<1>4. Promises' /\ Drafts' /\ Applies'
  BY <1>1, PromisesStep, DraftsStep, AppliesStep
<1> QED BY <1>2, <1>3, <1>4 DEF WindowInd

\* The inductive invariant holds.
THEOREM WindowInductive == Spec => []WindowInd
<1>1. Init => WindowInd
  BY WindowStarts
<1>2. WindowInd /\ [Next]_vars => WindowInd'
  BY WindowStep
<1> QED BY <1>1, <1>2, PTL DEF Spec

\* What the inductive invariant says of a state.
LEMMA WindowFacts ==
  ASSUME WindowInd
  PROVE  WindowInv /\ DraftsAreTyped /\ PublishedAsShown /\ TokenCurrent
<1>1. /\ Types /\ Calls /\ Carriers /\ FlagsExact /\ Failures
      /\ Tokens /\ Saves /\ Current /\ Promises /\ Drafts /\ Applies
  BY DEF WindowInd
<1>2. ChannelOK
  <2>1. link \in BOOLEAN /\ \A t \in Task : task[t].at \in Place
    BY <1>1 DEF Types, TaskTypes, FieldTypes, TaskRecord
  <2> QED BY <1>1, <2>1 DEF Calls, ChannelOK
<1>3. TypeOK
  <2>1. daemon.table \in Table /\ view.table \in Table
    BY <1>1 DEF Types, FieldTypes, State
  <2> QED BY <1>1, <1>2, <2>1 DEF Types, FieldTypes, TypeOK
<1>4. SavedStays
  BY <1>1 DEF Promises, Tables, Keeping, SavedStays
<1>5. DraftsAreTyped
  <2> SUFFICES ASSUME open, "save" \notin pending, ~late, ~blind, ~behind
               PROVE  \A a \in Configured(view.table) : drafts[a] # view.table[a].phrase => a \in typed
    BY DEF DraftsAreTyped
  <2>1. Calm
    BY <1>1, NoSave
  <2>2. view.table = daemon.table
    BY <1>1, <2>1 DEF Current, Fresh, Among
  <2> QED BY <1>1, <2>2 DEF Drafts
<1>6. PublishedAsShown
  BY <1>1 DEF Applies, PublishedAsShown
<1>7. TokenCurrent
  BY <1>1, UnderWayParts DEF Tokens, TokenCurrent
<1> QED BY <1>1, <1>3, <1>4, <1>5, <1>6, <1>7 DEF WindowInv

\* For any number of acts of the user, actions and phrases: the channel keeps
\* calls and answers together, a button is off exactly while its request is
\* under way, and what the window reports as saved stays saved unless it was
\* edited from a copy that was applied in the wrong order.
THEOREM SavedStaysSaved == Spec => []WindowInv
<1>1. WindowInd => WindowInv
  BY WindowFacts
<1> QED BY <1>1, WindowInductive, PTL

\* A draft differs from the copy only by the user's hand, although every
\* success of a save rebuilds all drafts from a copy that any task may have
\* replaced.
THEOREM DraftsTyped == Spec => []DraftsAreTyped
<1>1. WindowInd => DraftsAreTyped
  BY WindowFacts
<1> QED BY <1>1, WindowInductive, PTL

\* Apply publishes what was on the screen, although the request carries no table
\* and the daemon publishes its own.
THEOREM AppliesAsShown == Spec => []PublishedAsShown
<1>1. WindowInd => PublishedAsShown
  BY WindowFacts
<1> QED BY <1>1, WindowInductive, PTL

\* The token on the screen is the daemon's, whenever it is asked for, rotated,
\* timed out or answered late.
THEOREM TokenOnScreen == Spec => []TokenCurrent
<1>1. WindowInd => TokenCurrent
  BY WindowFacts
<1> QED BY <1>1, WindowInductive, PTL

=============================================================================
