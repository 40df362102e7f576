------------------------- MODULE SettingsSupervisor ------------------------
(***************************************************************************)
(* The life of the Settings process: SettingsSupervisor and spawn_settings *)
(* (daemon/src/adapters/windows_management.rs).  TrayHost sends the        *)
(* commands.                                                               *)
(*                                                                         *)
(* The supervisor thread owns the child, and one channel thread per child  *)
(* ends when the pipe does and then reports the child's process id.  The   *)
(* child ends by itself at any moment, except while a native file picker   *)
(* blocks it.  A job object ends it with the daemon, once it has been      *)
(* assigned.                                                               *)
(*                                                                         *)
(* Process ids are not reused here.                                        *)
(***************************************************************************)
EXTENDS Naturals, Sequences, FiniteSets

CONSTANTS
  NoChild,    \* the supervisor has no child
  MaxSpawns   \* bound of the model: Settings processes ever started

ASSUME SupervisorAssumption == NoChild \notin Nat /\ MaxSpawns \in Nat \ {0}

Pid == 1 .. MaxSpawns

VARIABLES
  daemon,    \* the background process: "runs", "quits", "ended"
  sup,       \* the supervisor thread: "loop", "assign", "dialog", "closing", "ended"
  child,     \* its child
  commands,  \* the channel to it
  procs,     \* Settings processes that run
  owned,     \* those in a job object
  modal,     \* those blocked in a native file picker
  shut,      \* those whose window is gone, and that have not exited yet
  chans,     \* channel threads that run
  spawned,   \* Settings processes started so far
  born,      \* of these, the ones an earlier daemon started
  wronged    \* history: a child was killed whose channel still served it

procVars == <<procs, owned, modal, shut>>
vars == <<daemon, sup, child, commands, procVars, chans, spawned, born, wronged>>

Open == [op |-> "open", pid |-> NoChild]
Quit == [op |-> "quit", pid |-> NoChild]
Gone(p) == [op |-> "gone", pid |-> p]

\* A process ends, whoever ended it.
Ended(ps) ==
  /\ procs' = procs \ ps
  /\ owned' = owned \ ps
  /\ modal' = modal \ ps
  /\ shut' = shut \ ps

-----------------------------------------------------------------------------
(* SettingsSupervisor, as its owner sees it *)

\* start: the thread runs, with nothing to do.
SupervisorStart ==
  /\ sup' = "loop" /\ child' = NoChild /\ commands' = <<>>
  /\ born' = spawned
  /\ UNCHANGED <<daemon, procVars, chans, spawned, wronged>>

\* open.
SendOpen ==
  /\ commands' = Append(commands, Open)
  /\ UNCHANGED <<daemon, sup, child, procVars, chans, spawned, born, wronged>>

\* quit: the command is sent, and the caller waits for the reply.
SendQuit ==
  /\ daemon' = "quits"
  /\ commands' = Append(commands, Quit)
  /\ UNCHANGED <<sup, child, procVars, chans, spawned, born, wronged>>

\* Faulty variant: the job object does not end what it holds.
DaemonEndsAlone ==
  /\ daemon # "ended"
  /\ daemon' = "ended" /\ sup' = "ended" /\ chans' = {} /\ commands' = <<>>
  /\ UNCHANGED <<child, procVars, spawned, born, wronged>>

\* The process ends - after the reply or three seconds, or unexpectedly - and
\* Windows closes its job object.
DaemonEnds ==
  /\ daemon # "ended"
  /\ daemon' = "ended" /\ sup' = "ended" /\ chans' = {} /\ commands' = <<>>
  /\ Ended(owned)
  /\ UNCHANGED <<child, spawned, born, wronged>>

-----------------------------------------------------------------------------
(* supervisor_loop *)

Command(op) == sup = "loop" /\ commands # <<>> /\ Head(commands).op = op

\* try_wait at the end of a turn: an exited child is forgotten.
Reaped(c) == IF c \in procs THEN c ELSE NoChild

\* Open with a living child reveals its window, if it has one (reveal_settings).
OpenReveals ==
  /\ Command("open") /\ child \in procs
  /\ commands' = Tail(commands)
  /\ UNCHANGED <<daemon, sup, child, procVars, chans, spawned, born, wronged>>

\* Faulty variant: a second window is opened.
OpenSpawnsAlways ==
  /\ Command("open")
  /\ spawned < MaxSpawns
  /\ commands' = Tail(commands)
  /\ spawned' = spawned + 1
  /\ child' = spawned'
  /\ procs' = procs \cup {spawned'}
  /\ sup' = "assign"
  /\ UNCHANGED <<daemon, owned, modal, shut, chans, born, wronged>>

\* Open without one starts a process, which has no job yet.
OpenSpawns ==
  /\ Command("open") /\ child \notin procs
  /\ spawned < MaxSpawns
  /\ commands' = Tail(commands)
  /\ spawned' = spawned + 1
  /\ child' = spawned'
  /\ procs' = procs \cup {spawned'}
  /\ sup' = "assign"
  /\ UNCHANGED <<daemon, owned, modal, shut, chans, born, wronged>>

\* The process cannot be started: a message box blocks the thread.
OpenFails ==
  /\ Command("open") /\ child \notin procs
  /\ commands' = Tail(commands)
  /\ child' = NoChild
  /\ sup' = "dialog"
  /\ UNCHANGED <<daemon, procVars, chans, spawned, born, wronged>>

\* The user closes it.
DialogClosed ==
  /\ sup = "dialog"
  /\ sup' = "loop"
  /\ UNCHANGED <<daemon, child, commands, procVars, chans, spawned, born, wronged>>

\* SettingsJob::assign, and the channel thread is started.
Assign ==
  /\ sup = "assign"
  /\ owned' = owned \cup ({child} \cap procs)
  /\ chans' = chans \cup {child}
  /\ sup' = "loop"
  /\ child' = Reaped(child)
  /\ UNCHANGED <<daemon, commands, procs, modal, shut, spawned, born, wronged>>

\* The job, the pipes or the thread cannot be had: the process is killed, by
\* hand or by the job object that is dropped, and the message box is shown.
AssignFails ==
  /\ sup = "assign"
  /\ Ended({child})
  /\ sup' = "dialog"
  /\ child' = NoChild
  /\ UNCHANGED <<daemon, commands, chans, spawned, born, wronged>>

\* Faulty variant: whichever child there is, it is ended.
ChildGoneAny ==
  /\ Command("gone")
  /\ commands' = Tail(commands)
  /\ wronged' = (wronged \/ child \in procs \cap chans)
  /\ Ended({child})
  /\ child' = NoChild
  /\ UNCHANGED <<daemon, sup, chans, spawned, born>>

\* ChildDisconnected: the child with that id is ended; an older one is none of
\* the supervisor's business any more.
ChildGone ==
  /\ Command("gone")
  /\ commands' = Tail(commands)
  /\ IF Head(commands).pid = child
     THEN /\ wronged' = (wronged \/ child \in procs \cap chans)
          /\ Ended({child})
          /\ child' = NoChild
     ELSE /\ UNCHANGED <<procVars, wronged>>
          /\ child' = Reaped(child)
  /\ UNCHANGED <<daemon, sup, chans, spawned, born>>

\* Quit: the window is asked to close.
QuitAsks ==
  /\ Command("quit")
  /\ commands' = Tail(commands)
  /\ sup' = "closing"
  /\ UNCHANGED <<daemon, child, procVars, chans, spawned, born, wronged>>

\* Faulty variant: the supervisor waits as long as it takes.
QuitEndsPatient ==
  /\ sup = "closing" /\ child \notin procs
  /\ Ended({child})
  /\ sup' = "ended"
  /\ UNCHANGED <<daemon, child, commands, chans, spawned, born, wronged>>

\* It has exited, or SHUTDOWN_TIMEOUT has passed and it is killed; the reply is
\* sent and the thread ends.
QuitEnds ==
  /\ sup = "closing"
  /\ Ended({child})
  /\ sup' = "ended"
  /\ UNCHANGED <<daemon, child, commands, chans, spawned, born, wronged>>

-----------------------------------------------------------------------------
(* The children and their channels *)

\* A window - which had its first snapshot, so its channel was started - blocks
\* in a native file picker, or the user leaves the picker.
Picker(p) ==
  /\ p \in owned \ shut
  /\ modal' = (modal \ {p}) \cup ({p} \ modal)
  /\ UNCHANGED <<daemon, sup, child, commands, procs, owned, shut, chans, spawned, born, wronged>>

\* The user closes the window, or its start or its event loop fails: the process
\* has its runtime to shut down before it exits.
WindowCloses(p) ==
  /\ p \in procs \ (modal \cup shut)
  /\ shut' = shut \cup {p}
  /\ UNCHANGED <<daemon, sup, child, commands, procs, owned, modal, chans, spawned, born, wronged>>

\* The process exits: its window was closed, was asked to close, or has lost its
\* channel and closes itself.
ProcEnds(p) ==
  /\ p \in procs \ modal
  /\ \/ p \in shut
     \/ daemon = "ended"
     \/ p \notin chans /\ sup # "assign"
     \/ sup = "closing" /\ p = child
  /\ Ended({p})
  /\ UNCHANGED <<daemon, sup, child, commands, chans, spawned, born, wronged>>

\* The channel thread meets the end of the pipe, or a frame it cannot read.
ChannelEnds(p) ==
  /\ p \in chans
  /\ chans' = chans \ {p}
  /\ commands' = IF sup = "ended" THEN commands ELSE Append(commands, Gone(p))
  /\ UNCHANGED <<daemon, sup, child, procVars, spawned, born, wronged>>

-----------------------------------------------------------------------------

\* The process runs and has not come to its supervisor yet.
SupervisorInit ==
  /\ daemon = "runs" /\ sup = "ended" /\ child = NoChild /\ commands = <<>>
  /\ procs = {} /\ owned = {} /\ modal = {} /\ shut = {} /\ chans = {}
  /\ spawned = 0 /\ born = 0 /\ wronged = FALSE

Opens == OpenReveals \/ OpenSpawns \/ OpenFails

Supervisor == Opens \/ Assign \/ AssignFails \/ ChildGone \/ QuitAsks \/ QuitEnds

Child(p) == Picker(p) \/ WindowCloses(p) \/ ProcEnds(p) \/ ChannelEnds(p)

-----------------------------------------------------------------------------
(* Properties *)

\* Types; only running processes are in a job object, and only those with a
\* window are ever blocked in a picker.
SupervisorTypeOK ==
  /\ daemon \in {"runs", "quits", "ended"}
  /\ sup \in {"loop", "assign", "dialog", "closing", "ended"}
  /\ child \in Pid \cup {NoChild}
  /\ commands \in Seq([op: {"open", "quit", "gone"}, pid: Pid \cup {NoChild}])
  /\ procs \subseteq 1 .. spawned /\ owned \subseteq procs /\ modal \subseteq owned
  /\ shut \subseteq procs \ modal
  /\ chans \subseteq 1 .. spawned /\ wronged \in BOOLEAN

\* windows-media-daemon.md: "only one Settings window under repeated opens",
\* although opens, exits and late disconnection reports cross.  A process that
\* an earlier daemon left behind without its first snapshot has no window.
OneSettings ==
  /\ Cardinality(procs \ (1 .. born)) <= 1
  /\ Cardinality(owned) <= 1

\* A late report of an earlier child never ends a window that is being served
\* (supervisor_loop compares the process id).
ServedNotKilled == ~wronged

=============================================================================
