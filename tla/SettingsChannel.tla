-------------------------- MODULE SettingsChannel --------------------------
(***************************************************************************)
(* The management channel between the Settings process and the daemon      *)
(* (daemon/src/adapters/windows_management.rs and daemon/src/management.rs):*)
(* SettingsClient with its queue of one call, its worker thread and the    *)
(* pipe.  One Settings process is followed from its first snapshot to its  *)
(* end.  What the calls ask for, and what the daemon makes of them, is the *)
(* business of SettingsWindow.                                             *)
(*                                                                         *)
(* Every operation of the window is a task of its own.  It is spawned,     *)
(* puts a call into the queue, waits up to 30 seconds on a channel made    *)
(* for that call, and resumes on whatever thread is free.  The worker      *)
(* writes one request and reads one response at a time, also for calls     *)
(* nobody waits for any more.                                              *)
(*                                                                         *)
(* A frame is read whole or the channel ends; its length and its JSON are  *)
(* left out.                                                               *)
(***************************************************************************)
EXTENDS Naturals, Sequences

CONSTANTS
  Task,     \* tasks that may be spawned
  NoCall,   \* no call, in the queue or at the worker
  NoArg,    \* the argument of a request without one
  NoReply   \* no response

VARIABLES
  link,     \* the pipe is connected
  task,     \* the tasks of the Settings process
  queue,    \* calls: a queue of one (MAX_PENDING_REQUESTS)
  worker,   \* the call whose response the worker reads
  pipe,     \* what is in the pipe: nothing, a request or a response
  reply     \* that response

wireVars == <<queue, worker, pipe, reply>>
channelVars == <<link, task, wireVars>>

Place == {"none", "spawned", "waiting", "answered", "full", "failed"}

NoTask == [at |-> "none", kind |-> "none", arg |-> NoArg, got |-> NoReply]

At(t, place) == task[t].at = place

Moved(t, place) == [task EXCEPT ![t].at = place]

\* A task that has not reported back yet.
Busy(t) == ~At(t, "none")

-----------------------------------------------------------------------------
(* Settings: the tasks *)

\* Handle::spawn, with the request the task will make.
Spawned(t, kind, arg) ==
  [task EXCEPT ![t] = [at |-> "spawned", kind |-> kind, arg |-> arg, got |-> NoReply]]

\* call_worker: try_send into the queue of one, or an error at once.
CallWorker(t, kind, arg) ==
  LET free == link /\ queue = NoCall
  IN /\ queue' = IF free THEN [by |-> t, kind |-> kind, arg |-> arg, live |-> TRUE] ELSE queue
     /\ task' = [task EXCEPT ![t] =
          [at |-> IF free THEN "waiting" ELSE IF link THEN "full" ELSE "failed",
           kind |-> kind, arg |-> arg, got |-> NoReply]]
     /\ UNCHANGED <<link, worker, pipe, reply>>

\* A spawned task gets to its call.
Submit(t) ==
  /\ At(t, "spawned")
  /\ CallWorker(t, task[t].kind, task[t].arg)

\* Nobody waits for t's call any more: its reply channel is closed.
Dead(call, t) == IF call # NoCall /\ call.by = t THEN [call EXCEPT !.live = FALSE] ELSE call

\* recv_timeout: RPC_TIMEOUT has passed.
Timeout(t) ==
  /\ At(t, "waiting")
  /\ task' = Moved(t, "failed")
  /\ queue' = Dead(queue, t) /\ worker' = Dead(worker, t)
  /\ UNCHANGED <<link, pipe, reply>>

-----------------------------------------------------------------------------
(* Settings: client_worker *)

\* The worker takes a call and writes its request.
WorkerTakes ==
  /\ link /\ worker = NoCall /\ queue # NoCall
  /\ worker' = queue /\ queue' = NoCall
  /\ pipe' = "request"
  /\ UNCHANGED <<link, task, reply>>

\* Faulty variant: the response goes to whoever waits.
WorkerRepliesAny ==
  /\ link /\ pipe = "response"
  /\ \/ \E t \in Task :
          At(t, "waiting") /\ task' = [task EXCEPT ![t].at = "answered", ![t].got = reply]
     \/ (\A t \in Task : ~At(t, "waiting")) /\ UNCHANGED task
  /\ worker' = NoCall /\ pipe' = "empty" /\ reply' = NoReply
  /\ UNCHANGED <<link, queue>>

\* It reads the response and hands it to the call it belongs to.
WorkerReplies ==
  /\ link /\ pipe = "response"
  /\ task' = IF worker.live
             THEN [task EXCEPT ![worker.by].at = "answered", ![worker.by].got = reply]
             ELSE task
  /\ worker' = NoCall /\ pipe' = "empty" /\ reply' = NoReply
  /\ UNCHANGED <<link, queue>>

-----------------------------------------------------------------------------
(* Ends of the channel *)

\* The daemon's channel thread has written response r.
Answer(r) ==
  /\ pipe = "request"
  /\ pipe' = "response" /\ reply' = r
  /\ UNCHANGED <<link, task, queue, worker>>

\* The daemon ends, or the pipe breaks: every waiting call fails, and the
\* worker thread stops.
Disconnect ==
  /\ link
  /\ link' = FALSE
  /\ task' = [t \in Task |-> IF At(t, "waiting") THEN [task[t] EXCEPT !.at = "failed"] ELSE task[t]]
  /\ queue' = NoCall /\ worker' = NoCall /\ pipe' = "empty" /\ reply' = NoReply

\* The Settings process ends and its tasks with it; a request that was written
\* is still served.
Exit ==
  /\ task' = [t \in Task |-> NoTask]
  /\ queue' = NoCall
  /\ worker' = IF worker = NoCall THEN NoCall ELSE [worker EXCEPT !.live = FALSE]
  /\ UNCHANGED <<link, pipe, reply>>

ChannelInit ==
  /\ link = TRUE
  /\ task = [t \in Task |-> NoTask]
  /\ queue = NoCall /\ worker = NoCall /\ pipe = "empty" /\ reply = NoReply

-----------------------------------------------------------------------------

Awaited(call, t) == call # NoCall /\ call.by = t /\ call.live

\* A task waits exactly while one live call, its own, is on its way (the
\* channel call_worker makes for each call), and what is in the pipe belongs to
\* the worker's call.
ChannelOK ==
  /\ link \in BOOLEAN
  /\ \A t \in Task : task[t].at \in Place
  /\ (worker = NoCall) <=> (pipe = "empty")
  /\ \A t \in Task : At(t, "waiting") <=> (Awaited(queue, t) \/ Awaited(worker, t))

=============================================================================
