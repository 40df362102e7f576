------------------------------ MODULE TrayHost -----------------------------
(***************************************************************************)
(* The background process from its start to its end (run, DaemonSignals    *)
(* and create_tray in daemon/src/adapters/windows_app.rs, windows_host.rs, *)
(* acquire_single_instance in windows_runtime.rs), with the supervisor it  *)
(* drives, and the launches of the executable that find it running.        *)
(*                                                                         *)
(* The main thread handles one Windows message at a time.  A message for   *)
(* the tray icon or its menu ends in the channel of DaemonEvents, one from *)
(* a second launch in the flag OPEN_REQUESTED; both are looked at when the *)
(* message has been dispatched.  While the context menu is open, Windows   *)
(* dispatches messages from a loop of its own: window procedures are       *)
(* called as usual, and thread messages - WAKE - are dropped.              *)
(*                                                                         *)
(* Toggling the listener is an operation of DaemonRuntime.                 *)
(***************************************************************************)
EXTENDS SettingsSupervisor

CONSTANTS
  MaxAsks,   \* bound of the model: clicks on the tray and launches
  MaxLives   \* bound of the model: background processes ever started

ASSUME HostAssumption == MaxAsks \in Nat /\ MaxLives \in Nat \ {0}

VARIABLES
  main,       \* where the main thread is
  messages,   \* its message queue
  requested,  \* OPEN_REQUESTED
  events,     \* the channel of DaemonEvents
  quitting,   \* run's local flag
  second,     \* a second launch looks for the host window
  asks,       \* clicks and launches so far
  lives,      \* background processes started so far
  asked,      \* history: Settings was asked for and not shown since
  missed      \* history: the last ask came to nothing

loopVars == <<messages, requested, events, quitting>>
askVars == <<asked, missed>>
hostVars == <<main, loopVars, second, asks, lives, askVars>>
allVars == <<vars, hostVars>>

Messages == {"left", "menu", "settings", "listener", "quit", "open", "wake"}

\* The host window is there from MessageHost::new to the end of run.
HostExists == main \notin {"starting", "ended"}

\* The icon is there when create_tray has returned.
TrayExists == main \notin {"starting", "hosted", "ended"}

Ask == asks < MaxAsks /\ asks' = asks + 1

\* Settings is asked for, if b.
Wanted(b) ==
  /\ asked' = (asked \/ b)
  /\ missed' = (missed /\ ~b)

-----------------------------------------------------------------------------
(* Start and end *)

\* acquire_single_instance got the mutex; load, the saved listener, and then
\* the host window.
HostCreated ==
  /\ main = "starting"
  /\ main' = "hosted"
  /\ UNCHANGED <<vars, loopVars, second, asks, lives, askVars>>

\* create_tray and SettingsSupervisor::start.
LoopBegins ==
  /\ main = "hosted"
  /\ main' = "top"
  /\ SupervisorStart
  /\ UNCHANGED <<loopVars, second, asks, lives, askVars>>

\* The process ends: after quit, because a step of its start failed, or
\* unexpectedly.  Its windows, its queues and the mutex go with it.
ProcessEnds ==
  /\ DaemonEnds
  /\ main' = "ended"
  /\ messages' = <<>> /\ requested' = FALSE /\ events' = <<>> /\ quitting' = FALSE
  /\ asked' = (second = "looking") /\ missed' = FALSE
  /\ UNCHANGED <<second, asks, lives>>

\* The executable is launched: the mutex is free, or it exists already.
Launch ==
  /\ Ask
  /\ \/ /\ main = "ended" /\ second = "none" /\ lives < MaxLives
        /\ main' = "starting" /\ daemon' = "runs" /\ lives' = lives + 1
        /\ UNCHANGED <<sup, child, commands, procVars, chans, spawned, born, wronged, second, askVars>>
     \/ /\ main # "ended" /\ second = "none"
        /\ second' = "looking" /\ Wanted(TRUE)
        /\ UNCHANGED <<vars, main, lives>>
  /\ UNCHANGED loopVars

\* activate_existing_instance finds the host window and posts OPEN_SETTINGS.
SecondFinds ==
  /\ second = "looking" /\ HostExists
  /\ messages' = Append(messages, "open")
  /\ second' = "none"
  /\ UNCHANGED <<vars, main, requested, events, quitting, asks, lives, askVars>>

\* Its forty tries have met no host window: it ends, silently.
SecondGivesUp ==
  /\ second = "looking" /\ ~HostExists
  /\ second' = "none" /\ missed' = asked
  /\ UNCHANGED <<vars, main, loopVars, asks, lives, asked>>

-----------------------------------------------------------------------------
(* The user at the tray *)

\* The left button is released over the icon, or the right one is.
TrayClick(m) ==
  /\ TrayExists /\ Ask
  /\ messages' = Append(messages, m)
  /\ Wanted(m = "left")
  /\ UNCHANGED <<vars, main, requested, events, quitting, second, lives>>

\* The menu is closed, with a choice or without, and the message that opened it
\* has been dispatched.
MenuCloses(choice) ==
  /\ main = "menu"
  /\ main' = "top"
  /\ messages' = messages \o choice
  /\ Wanted(choice = <<"settings">>)
  /\ UNCHANGED <<vars, requested, events, quitting, second, asks, lives>>

-----------------------------------------------------------------------------
(* The main thread *)

\* What a window procedure does with message m: window_proc for OPEN_SETTINGS,
\* tray_event and menu_event for the others; a sent event posts WAKE.
Handled(m, rest) ==
  /\ requested' = (requested \/ m = "open")
  /\ IF m \in {"left", "settings", "listener", "quit"}
     THEN /\ events' = Append(events, IF m = "left" THEN "settings" ELSE m)
          /\ messages' = Append(rest, "wake")
     ELSE /\ messages' = rest
          /\ UNCHANGED events
  /\ UNCHANGED <<vars, quitting, second, asks, lives, askVars>>

\* dispatch_message: GetMessage waits for a message, and it is dispatched.
Dispatch ==
  /\ main = "wait" /\ messages # <<>>
  /\ main' = IF Head(messages) = "menu" THEN "menu" ELSE "top"
  /\ Handled(Head(messages), Tail(messages))

\* The menu's own loop dispatches a message.
MenuPumps ==
  /\ main = "menu" /\ messages # <<>>
  /\ Handled(Head(messages), Tail(messages))
  /\ UNCHANGED main

\* Faulty variant: the flag is looked at when there are events, too.
TakeOpenRequestLate ==
  /\ main = "top"
  /\ main' = "drain"
  /\ IF requested /\ events # <<>> THEN SendOpen /\ requested' = FALSE ELSE UNCHANGED <<vars, requested>>
  /\ UNCHANGED <<messages, events, quitting, second, asks, lives, askVars>>

\* take_open_request, at the top of the loop.
TakeOpenRequest ==
  /\ main = "top"
  /\ main' = "drain"
  /\ requested' = FALSE
  /\ IF requested THEN SendOpen ELSE UNCHANGED vars
  /\ UNCHANGED <<messages, events, quitting, second, asks, lives, askVars>>

\* try_recv: every event that was sent is handled, also after Quit.
TakeEvent ==
  /\ main = "drain" /\ events # <<>>
  /\ events' = Tail(events)
  /\ quitting' = (quitting \/ Head(events) = "quit")
  /\ IF Head(events) = "settings" THEN SendOpen ELSE UNCHANGED vars
  /\ UNCHANGED <<main, messages, requested, second, asks, lives, askVars>>

\* The channel is empty: quit, or wait for the next message.
EventsTaken ==
  /\ main = "drain" /\ events = <<>>
  /\ IF quitting THEN main' = "quit" /\ SendQuit ELSE main' = "wait" /\ UNCHANGED vars
  /\ UNCHANGED <<loopVars, second, asks, lives, askVars>>

-----------------------------------------------------------------------------

\* The child has a window, or will have one, and its channel is served.
Showable == child \in chans \ shut

\* An Open is handled: it answers whoever asked before, unless all it met is a
\* child on its way out.
OpenHandled ==
  /\ Opens
  /\ IF OpenReveals /\ ~Showable
     THEN missed' = asked /\ UNCHANGED asked
     ELSE asked' = FALSE /\ missed' = FALSE

\* The supervisor's steps.
SupervisorSteps ==
  /\ \/ OpenHandled
     \/ /\ Assign \/ AssignFails \/ ChildGone \/ QuitAsks \/ QuitEnds
        /\ UNCHANGED askVars
  /\ UNCHANGED <<main, loopVars, second, asks, lives>>

Children ==
  /\ DialogClosed \/ \E p \in Pid : Child(p)
  /\ UNCHANGED hostVars

Init ==
  /\ SupervisorInit
  /\ main = "starting" /\ messages = <<>> /\ requested = FALSE /\ events = <<>>
  /\ quitting = FALSE /\ second = "none" /\ asks = 0 /\ lives = 1
  /\ asked = FALSE /\ missed = FALSE

MainSteps ==
  HostCreated \/ LoopBegins \/ Dispatch \/ MenuPumps \/ TakeOpenRequest \/ TakeEvent \/ EventsTaken

Next ==
  \/ MainSteps \/ SupervisorSteps \/ Children \/ ProcessEnds
  \/ Launch \/ SecondFinds \/ SecondGivesUp
  \/ \E m \in {"left", "menu"} : TrayClick(m)
  \/ \E choice \in {<<>>, <<"settings">>, <<"listener">>, <<"quit">>} : MenuCloses(choice)

Spec == Init /\ [][Next]_allVars

\* The two threads run, a second launch gets on with its tries, and a window
\* that is not blocked reacts to the loss of its channel and to a request to
\* close.  Nothing is assumed of the user.
FairSpec ==
  /\ Spec
  /\ WF_allVars(MainSteps)
  /\ WF_allVars(SupervisorSteps)
  /\ WF_allVars(SecondFinds \/ SecondGivesUp)
  /\ \A p \in Pid : WF_allVars(ProcEnds(p) /\ UNCHANGED hostVars)

-----------------------------------------------------------------------------
(* Properties *)

\* Types; only running processes are in a job object, and only those are ever
\* blocked in a picker; the supervisor lives inside the loop.
TypeOK ==
  /\ SupervisorTypeOK
  /\ main \in {"starting", "hosted", "top", "drain", "wait", "menu", "quit", "ended"}
  /\ messages \in Seq(Messages) /\ requested \in BOOLEAN
  /\ events \in Seq({"settings", "listener", "quit"})
  /\ second \in {"none", "looking"} /\ asked \in BOOLEAN /\ missed \in BOOLEAN
  /\ ~TrayExists => sup = "ended"

\* One window at a time, and none is killed while it is served.
HostInv == TypeOK /\ OneSettings /\ ServedNotKilled

\* windows-media-daemon.md: "Repeated tray clicks or launching the executable
\* again activate the existing Settings process".  Whoever asks for Settings
\* gets it, although WAKE is lost while the menu is open and a second launch
\* has nothing but a flag (run, take_open_request) - unless the menu or the
\* message box of a failed start is left open, or the background process is
\* ending.  Two asks come to nothing that the sentence does not except: a
\* launch that meets no host window for a second (activate_existing_instance),
\* and one that meets a child on its way out, which lives and has no window to
\* reveal (supervisor_loop, reveal_settings).
OpenHonoured ==
  asked ~> (~asked \/ missed \/ main \in {"menu", "quit", "ended"} \/ sup = "dialog")

\* Quit gets its reply from the supervisor even while a file picker blocks the
\* window, unless a message box is left open; then the tray stops waiting.
QuitAnswered == (daemon = "quits") ~> (sup \in {"ended", "dialog"})

\* No Settings process outlives the daemon, however it ended: not one that is
\* blocked, and not one that was started and not yet in the job object.
NoOrphan == \A p \in Pid : (daemon = "ended" /\ p \in procs) ~> p \notin procs

\* The end of the background process is orderly, whatever holds it up.
EndsOrderly == QuitAnswered /\ NoOrphan

=============================================================================
