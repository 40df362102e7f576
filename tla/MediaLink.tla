----------------------------- MODULE MediaLink -----------------------------
(***************************************************************************)
(* A spoken command end to end: MediaControl on the ESP, Dispatcher on the *)
(* PC, and the connection between them.  Each POST has a TLS connection of *)
(* its own, which delivers its request to at most one handler, at once or  *)
(* late, or loses it; the ESP may have given up by then.  A reply reaches  *)
(* the ESP only while it still reads from that connection.                 *)
(***************************************************************************)
EXTENDS MediaControl, Dispatcher

ASSUME LinkAssumption ==
  /\ Intents = Requests
  /\ CommandLifetime = Lifetime
  /\ \A r \in Requests : r.expires = r.issued + Lifetime

VARIABLES
  link     \* requests written and not yet read by the daemon

linkVars == <<vars, espVars, link>>

\* The ESP reads from the connection that carries request r.
Reading(r) == step = "posted" /\ sending = r

-----------------------------------------------------------------------------

\* What happens on the ESP beside its media worker.
Esp ==
  /\ \/ \E r \in Intents : Recognize(r, now) \/ RecognizeUndated(r)
     \/ \E r \in Intents : Submit(r, now) \/ Drop(r)
     \/ ServiceStart \/ WifiChanges \/ ClockSet \/ Restart
  /\ UNCHANGED <<vars, link>>

\* The media worker; what it posts is on its way.
EspWorker ==
  /\ \/ /\ Take(now) \/ GiveUp(now) \/ ConnectFailed(now) \/ ReadAnswer \/ ReadFailed
        /\ UNCHANGED link
     \/ Post(now) /\ link' = link \cup {sending}
  /\ UNCHANGED vars

\* The daemon accepts the connection and reads the request.
Deliver(t, r) ==
  /\ r \in link
  /\ link' = link \ {r}
  /\ Receive(t, r)
  /\ UNCHANGED espVars

\* The request is lost on its way, or its connection is over the limit.
Lose(r) ==
  /\ r \in link
  /\ link' = link \ {r}
  /\ UNCHANGED <<vars, espVars>>

\* The reply is written; an ESP that still reads gets it, or it is lost.
Respond(t) ==
  /\ Close(t)
  /\ answer' \in (IF Reading(req[t]) THEN {result[t], NoAnswer} ELSE {answer})
  /\ UNCHANGED <<ready, wifi, offset, age, fate, waiting, sending, step, link>>

\* Faulty variant: the ESP is as patient as the daemon.
EspGivesUpFirstNot(t) == TRUE

\* The ESP stops reading after one second (MEDIA_READ_TIMEOUT_MS), before the
\* handler's two seconds are over.
EspGivesUpFirst(t) == ~Reading(req[t])

\* What the daemon does by itself.
Daemon ==
  /\ \/ \E t \in Task : Admit(t) \/ Reserve(t) \/ Execute(t) \/ Finish(t) \/ ElevatedTimeout(t)
     \/ \E t \in Conns : EspGivesUpFirst(t) /\ HttpTimeout(t)
     \/ \E j \in jobs, v \in Outcome : JobEnds(j, v)
     \/ \E c \in Configs : ReplaceBegin(c)
     \/ ReplaceInstall \/ ReplaceCancelled
  /\ UNCHANGED <<espVars, link>>

Time ==
  /\ Tick
  /\ age' = Aged
  /\ UNCHANGED <<ready, wifi, offset, fate, waiting, sending, step, answer, link>>

LinkInit ==
  /\ Init
  /\ MediaInit
  /\ link = {}

LinkNext ==
  \/ Esp
  \/ EspWorker
  \/ \E r \in Requests : Lose(r)
  \/ \E t \in Conns, r \in Requests : Deliver(t, r)
  \/ \E t \in Conns : Respond(t)
  \/ Daemon
  \/ Time

LinkSpec == LinkInit /\ [][LinkNext]_linkVars

\* The two workers of the ESP run; the daemon and the network owe nothing.  Each
\* of these steps changes what its subscript names.
LinkFairSpec ==
  /\ LinkSpec
  /\ WF_<<fate, step>>(EspWorker)
  /\ \A r \in Intents :
       WF_fate((Submit(r, now) \/ Drop(r)) /\ UNCHANGED <<vars, link>>)

-----------------------------------------------------------------------------
(* Properties *)

\* Every variable of the ESP has its type, and an answer is one of the daemon's.
LinkTypeOK ==
  /\ TypeOK /\ MediaTypeOK
  /\ link \subseteq Requests
  /\ answer \in Result \cup {NoAnswer}

\* A spoken command runs at most once, although the daemon alone could run a
\* request twice that is late enough (see NoReplayInWindow): the worker never
\* repeats a POST, whatever became of it (send_intent, send_custom_action).
SpokenRunsOnce == \A r \in Intents : started[r] <= 1

\* Nothing runs twice, over values of their types.
LinkInv == LinkTypeOK /\ SpokenRunsOnce

\* The white LED tells the truth: a command shown as executed was started by
\* the daemon's executor (media_classify_response, send_custom_action).
WhiteMeansRun == \A r \in Intents : fate[r] = "executed" => started[r] > 0

\* A media command reported as rejected was not run and never will be, not even
\* by a handler that is still on its way (send_intent: 4xx is Rejected, anything
\* that may have run is Unknown).
RejectedNeverRuns ==
  \A r \in Intents :
    fate[r] = "rejected" /\ r.route = "media" =>
      /\ started[r] = 0
      /\ r \notin link
      /\ \A t \in Conns : req[t] = r => pc[t] \in {"idle", "replied"}

\* What the LED says of a command is so.
ReportTrue == WhiteMeansRun /\ RejectedNeverRuns

\* Every command handed to the media worker is reported in the end, unless a
\* restart forgets it, although the daemon may accept the connection and never
\* answer: the only worker comes back to its queue (the timeouts of send_intent
\* and send_custom_action).  A command that was only heard is handed over and
\* reported, or the voice worker drops it without a LED (voice_worker).
Reported ==
  \A r \in Intents :
    /\ (fate[r] \in {"queued", "active"}) ~> (fate[r] \in Final)
    /\ (fate[r] \in {"spoken", "undated"}) ~> (fate[r] \in Final \cup {"dropped"})

=============================================================================
