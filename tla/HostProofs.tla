----------------------------- MODULE HostProofs ----------------------------
(***************************************************************************)
(* Proofs about TrayHost and its SettingsSupervisor: there is one Settings *)
(* window, and no late report ends one that is served, for any number of   *)
(* clicks, launches, Settings processes and background processes.          *)
(*                                                                         *)
(* HostInv is not inductive.  That a report of a lost channel cannot hit   *)
(* the child depends on the reports still in the command queue, and that   *)
(* there is one window on the supervisor never forgetting a process that   *)
(* runs.  HostInd adds both: SupervisorInd for the supervisor, whoever     *)
(* commands it, and LoopInd for the main thread around it.                 *)
(***************************************************************************)
EXTENDS TrayHost, SequenceTheorems, FiniteSetTheorems, TLAPS

-----------------------------------------------------------------------------
(* The inductive invariant *)

\* The commands of the supervisor.
Commands == [op: {"open", "quit", "gone"}, pid: Pid \cup {NoChild}]

\* The counters, which SupervisorTypeOK leaves to the bounds.
Counted == spawned \in 0 .. MaxSpawns /\ born \in 0 .. spawned

\* Every process of this daemon that runs is the supervisor's child, and the
\* job object holds no other.
Windows == procs \ (1 .. born) \subseteq {child} /\ owned \subseteq {child}

\* The children whose channel runs or is about to be started.
Serving == chans \cup (IF sup = "assign" THEN {child} ELSE {})

\* The reports among cs are about children up to n, none of them in s.
Told(cs, n, s) == \A i \in DOMAIN cs : cs[i].op = "gone" => cs[i].pid \in (1 .. n) \ s

\* A report in the queue is about a channel that has ended, and the channel of
\* a new child has not run yet.
Reports ==
  /\ Told(commands, spawned, Serving)
  /\ sup = "assign" => child \in (1 .. spawned) \ chans
  /\ ~wronged

\* The supervisor's part.
SupervisorInd == SupervisorTypeOK /\ Counted /\ Windows /\ Reports

\* The main thread's part: types, and without the tray there is no supervisor
\* and no job object.
LoopInd ==
  /\ main \in {"starting", "hosted", "top", "drain", "wait", "menu", "quit", "ended"}
  /\ messages \in Seq(Messages) /\ requested \in BOOLEAN
  /\ events \in Seq({"settings", "listener", "quit"})
  /\ second \in {"none", "looking"} /\ asked \in BOOLEAN /\ missed \in BOOLEAN
  /\ ~TrayExists => sup = "ended" /\ owned = {}

\* The inductive invariant.
HostInd == SupervisorInd /\ LoopInd

-----------------------------------------------------------------------------
(* The command queue *)

\* Reports stay good when more children are known and fewer are served.
LEMMA ToldKept ==
  ASSUME NEW cs \in Seq(Commands), NEW n \in Nat, NEW m \in Nat, n <= m, NEW s, NEW s1,
         s1 \cap (1 .. n) \subseteq s, Told(cs, n, s)
  PROVE  /\ Told(cs, m, s1)
         /\ cs # <<>> => /\ Tail(cs) \in Seq(Commands) /\ Told(Tail(cs), m, s1)
                         /\ Head(cs) \in Commands
                         /\ Head(cs).op = "gone" => Head(cs).pid \in (1 .. n) \ s
<1>1. Told(cs, m, s1)
  BY DEF Told
<1>2. ASSUME cs # <<>>
      PROVE  /\ Tail(cs) \in Seq(Commands) /\ Head(cs) \in Commands
             /\ 1 \in DOMAIN cs /\ Head(cs) = cs[1]
             /\ \A i \in DOMAIN Tail(cs) : i + 1 \in DOMAIN cs /\ Tail(cs)[i] = cs[i + 1]
  <2>1. /\ Tail(cs) \in Seq(Commands) /\ Head(cs) \in Commands
        /\ Len(Tail(cs)) = Len(cs) - 1 /\ Len(cs) \in Nat \ {0}
        /\ \A i \in 1 .. Len(Tail(cs)) : Tail(cs)[i] = cs[i + 1]
    BY <1>2, HeadTailProperties, EmptySeq, LenProperties
  <2> QED BY <2>1, LenProperties
<1> QED BY <1>1, <1>2 DEF Told

\* A command sent keeps the reports good when it is no report, or a good one.
LEMMA ToldSent ==
  ASSUME NEW cs \in Seq(Commands), NEW n \in Nat, NEW s, NEW c \in Commands, Told(cs, n, s),
         c.op = "gone" => c.pid \in (1 .. n) \ s
  PROVE  Append(cs, c) \in Seq(Commands) /\ Told(Append(cs, c), n, s)
<1>1. /\ Append(cs, c) \in Seq(Commands)
      /\ Len(Append(cs, c)) = Len(cs) + 1 /\ Len(cs) \in Nat
      /\ \A i \in 1 .. Len(cs) : Append(cs, c)[i] = cs[i]
      /\ Append(cs, c)[Len(cs) + 1] = c
  BY AppendProperties, LenProperties
<1> QED BY <1>1, LenProperties DEF Told

\* No command is a report, for any child.
LEMMA NoReports ==
  /\ <<>> \in Seq(Commands) /\ \A n, s : Told(<<>>, n, s)
  /\ Open \in Commands /\ Open.op = "open" /\ Quit \in Commands /\ Quit.op = "quit"
<1>1. <<>> \in Seq(Commands) /\ DOMAIN <<>> = {}
  BY EmptySeq, LenProperties
<1> QED BY <1>1 DEF Told, Open, Quit, Commands
-----------------------------------------------------------------------------
(* The supervisor *)

\* Nothing of what the invariant is about changes; whether the daemon runs is
\* not.
LEMMA SupervisorStutters ==
  ASSUME SupervisorInd, daemon' \in {"runs", "quits", "ended"},
         UNCHANGED <<sup, child, commands, procVars, chans, spawned, born, wronged>>
  PROVE  SupervisorInd'
BY Zenon DEF SupervisorInd, SupervisorTypeOK, Counted, Windows, Reports, Serving, procVars

\* Processes end: the rest is as it was, and the child may be given up when it
\* is among them or had ended before.
LEMMA ProcessesEnd ==
  ASSUME SupervisorInd, NEW ps, Ended(ps), UNCHANGED <<spawned, born>>,
         child' \in {child, NoChild}, child' = child \/ child \in ps \/ child \notin procs
  PROVE  /\ procs' \subseteq 1 .. spawned' /\ owned' \subseteq procs' /\ modal' \subseteq owned'
         /\ shut' \subseteq procs' \ modal'
         /\ Counted' /\ Windows' /\ child' \in Pid \cup {NoChild}
<1>1. owned \subseteq procs
  BY DEF SupervisorInd, SupervisorTypeOK
<1> QED BY <1>1 DEF SupervisorInd, SupervisorTypeOK, Counted, Windows, Ended

\* start.
LEMMA StartStep ==
  ASSUME SupervisorInd, SupervisorStart, owned = {}
  PROVE  SupervisorInd'
<1>1. /\ commands' \in Seq(Commands) /\ Told(commands', spawned', Serving')
  BY NoReports DEF SupervisorStart
<1>2. SupervisorTypeOK' /\ Counted' /\ Windows'
  BY <1>1 DEF SupervisorInd, SupervisorTypeOK, Commands, Counted, Windows, SupervisorStart, procVars
<1>3. Reports'
  BY <1>1 DEF SupervisorInd, Reports, SupervisorStart
<1> QED BY <1>2, <1>3 DEF SupervisorInd

\* A command that is no report is sent.
LEMMA SendStep ==
  ASSUME SupervisorInd, NEW c \in {Open, Quit}, commands' = Append(commands, c),
         daemon' \in {"runs", "quits", "ended"},
         UNCHANGED <<sup, child, procVars, chans, spawned, born, wronged>>
  PROVE  SupervisorInd'
<1>1. commands \in Seq(Commands) /\ spawned \in Nat /\ Told(commands, spawned, Serving)
  BY DEF SupervisorInd, SupervisorTypeOK, Commands, Counted, Reports
<1>2. c \in Commands /\ c.op # "gone"
  BY NoReports
<1>3. commands' \in Seq(Commands) /\ Told(commands', spawned, Serving)
  BY <1>1, <1>2, ToldSent
<1>4. Serving' = Serving
  BY DEF Serving
<1>5. SupervisorTypeOK' /\ Counted' /\ Windows'
  BY <1>3 DEF SupervisorInd, SupervisorTypeOK, Commands, Counted, Windows, procVars
<1>6. Reports'
  BY <1>3, <1>4 DEF SupervisorInd, Reports
<1> QED BY <1>5, <1>6 DEF SupervisorInd

\* The process ends and its job object with it.
LEMMA EndStep ==
  ASSUME SupervisorInd, DaemonEnds
  PROVE  SupervisorInd' /\ owned' = {}
<1>1. /\ commands' \in Seq(Commands) /\ Told(commands', spawned', Serving')
  BY NoReports DEF DaemonEnds
<1>2. /\ procs' \subseteq 1 .. spawned' /\ owned' \subseteq procs' /\ modal' \subseteq owned'
         /\ shut' \subseteq procs' \ modal'
      /\ Counted' /\ Windows' /\ child' \in Pid \cup {NoChild}
  BY ProcessesEnd DEF DaemonEnds
<1>3. SupervisorTypeOK'
  BY <1>1, <1>2 DEF SupervisorInd, SupervisorTypeOK, Commands, DaemonEnds
<1>4. Reports'
  BY <1>1 DEF SupervisorInd, Reports, DaemonEnds
<1>5. owned' = {}
  BY DEF DaemonEnds, Ended
<1> QED BY <1>2, <1>3, <1>4, <1>5 DEF SupervisorInd

\* A command is taken from the queue: the reports left are good, also for fewer
\* served children and more known ones.
LEMMA Taken ==
  ASSUME SupervisorInd, NEW op, Command(op), commands' = Tail(commands)
  PROVE  /\ commands' \in Seq(Commands) /\ sup = "loop" /\ Serving = chans
         /\ Head(commands) \in Commands /\ Head(commands).op = op
         /\ op = "gone" => Head(commands).pid \in (1 .. spawned) \ chans
         /\ \A m \in Nat : \A s : m >= spawned /\ s \cap (1 .. spawned) \subseteq chans =>
              Told(commands', m, s)
<1>1. commands \in Seq(Commands) /\ spawned \in Nat /\ Told(commands, spawned, Serving)
  BY DEF SupervisorInd, SupervisorTypeOK, Commands, Counted, Reports
<1>2. sup = "loop" /\ commands # <<>> /\ Head(commands).op = op
  BY DEF Command
<1>3. Serving = chans
  BY <1>2 DEF Serving
<1>4. ASSUME NEW m \in Nat, NEW s, m >= spawned, s \cap (1 .. spawned) \subseteq chans
      PROVE  Told(commands', m, s)
  BY <1>1, <1>2, <1>3, <1>4, ToldKept
<1>5. /\ Tail(commands) \in Seq(Commands) /\ Head(commands) \in Commands
      /\ Head(commands).op = "gone" => Head(commands).pid \in (1 .. spawned) \ Serving
  <2>1. Serving \cap (1 .. spawned) \subseteq Serving /\ spawned <= spawned
    BY <1>1
  <2> QED BY <1>1, <1>2, <2>1, ToldKept
<1> QED BY <1>2, <1>3, <1>4, <1>5

\* Open, in its three outcomes.
LEMMA OpenStep ==
  ASSUME SupervisorInd, Opens
  PROVE  SupervisorInd'
<1>0. Command("open") /\ commands' = Tail(commands)
  BY DEF Opens, OpenReveals, OpenSpawns, OpenFails
<1>1. /\ commands' \in Seq(Commands) /\ sup = "loop"
      /\ \A m \in Nat : \A s : m >= spawned /\ s \cap (1 .. spawned) \subseteq chans =>
           Told(commands', m, s)
  BY <1>0, Taken
<1>2. spawned \in Nat /\ MaxSpawns \in Nat
  BY SupervisorAssumption DEF SupervisorInd, Counted
<1>3. ASSUME OpenReveals PROVE SupervisorInd'
  <2>1. SupervisorTypeOK' /\ Counted' /\ Windows'
    BY <1>1, <1>3 DEF SupervisorInd, SupervisorTypeOK, Commands, Counted, Windows, OpenReveals, procVars
  <2>2. Serving' = chans /\ spawned' = spawned /\ sup' = "loop" /\ wronged' = wronged
    BY <1>1, <1>3 DEF Serving, OpenReveals
  <2>3. Reports'
    BY <1>1, <1>2, <2>2 DEF SupervisorInd, Reports
  <2> QED BY <2>1, <2>3 DEF SupervisorInd
<1>4. ASSUME OpenSpawns PROVE SupervisorInd'
  <2>1. spawned' = spawned + 1 /\ child' = spawned + 1 /\ spawned + 1 \in Pid
    BY <1>2, <1>4 DEF OpenSpawns, Pid
  <2>2. spawned + 1 \notin chans /\ owned = {} /\ procs \subseteq 1 .. spawned /\ chans \subseteq 1 .. spawned
        /\ procs \ (1 .. born) = {}
    BY <1>2, <1>4 DEF SupervisorInd, SupervisorTypeOK, Windows, OpenSpawns
  <2>3. SupervisorTypeOK'
    BY <1>1, <1>2, <1>4, <2>1, <2>2 DEF SupervisorInd, SupervisorTypeOK, Commands, OpenSpawns
  <2>4. Counted'
    BY <1>2, <1>4, <2>1 DEF SupervisorInd, Counted, OpenSpawns
  <2>5. Windows'
    BY <1>4, <2>1, <2>2 DEF Windows, OpenSpawns
  <2>6. Serving' \cap (1 .. spawned) \subseteq chans /\ spawned' \in Nat /\ spawned' >= spawned
    BY <1>2, <1>4, <2>1 DEF Serving, OpenSpawns
  <2>7. Told(commands', spawned', Serving')
    BY <1>1, <2>6
  <2>8. Reports'
    BY <1>2, <1>4, <2>1, <2>2, <2>7 DEF SupervisorInd, Reports, OpenSpawns
  <2> QED BY <2>3, <2>4, <2>5, <2>8 DEF SupervisorInd
<1>5. ASSUME OpenFails PROVE SupervisorInd'
  <2>1. SupervisorTypeOK' /\ Counted' /\ Windows'
    BY <1>1, <1>5 DEF SupervisorInd, SupervisorTypeOK, Commands, Counted, Windows, OpenFails, procVars
  <2>2. Serving' = chans /\ spawned' = spawned /\ sup' = "dialog" /\ wronged' = wronged
    BY <1>5 DEF Serving, OpenFails
  <2>3. Reports'
    BY <1>1, <1>2, <2>2 DEF SupervisorInd, Reports
  <2> QED BY <2>1, <2>3 DEF SupervisorInd
<1> QED BY <1>3, <1>4, <1>5 DEF Opens

\* The reports stay good when no command is sent or taken, and no channel
\* starts but that of the child being assigned.
LEMMA ReportsKept ==
  ASSUME SupervisorInd, UNCHANGED <<commands, spawned, wronged>>, Serving' \subseteq Serving,
         sup' # "assign" \/ UNCHANGED <<sup, child, chans>>
  PROVE  Reports'
<1>1. commands \in Seq(Commands) /\ spawned \in Nat /\ Told(commands, spawned, Serving)
  BY DEF SupervisorInd, SupervisorTypeOK, Commands, Counted, Reports
<1>2. Serving' \cap (1 .. spawned) \subseteq Serving /\ spawned <= spawned
  BY <1>1
<1>3. Told(commands, spawned, Serving')
  BY <1>1, <1>2, ToldKept
<1> QED BY <1>3 DEF SupervisorInd, Reports

\* The child gets its job object and its channel, or is killed.
LEMMA AssignStep ==
  ASSUME SupervisorInd, Assign \/ AssignFails
  PROVE  SupervisorInd'
<1>1. sup = "assign" /\ child \in (1 .. spawned) \ chans
  BY DEF SupervisorInd, Reports, Assign, AssignFails
<1>2. CASE Assign
  <2>1. SupervisorTypeOK' /\ Counted'
    BY <1>1, <1>2 DEF SupervisorInd, SupervisorTypeOK, Counted, Assign, Reaped
  <2>2. Windows'
    BY <1>2 DEF SupervisorInd, SupervisorTypeOK, Windows, Assign, Reaped
  <2>3. Serving' \subseteq Serving
    BY <1>1, <1>2 DEF Serving, Assign
  <2>4. Reports'
    BY <1>2, <2>3, ReportsKept DEF Assign
  <2> QED BY <2>1, <2>2, <2>4 DEF SupervisorInd
<1>3. CASE AssignFails
  <2>1. /\ procs' \subseteq 1 .. spawned' /\ owned' \subseteq procs' /\ modal' \subseteq owned'
         /\ shut' \subseteq procs' \ modal'
        /\ Counted' /\ Windows' /\ child' \in Pid \cup {NoChild}
    BY <1>3, ProcessesEnd DEF AssignFails
  <2>2. SupervisorTypeOK'
    BY <1>3, <2>1 DEF SupervisorInd, SupervisorTypeOK, AssignFails
  <2>3. Serving' \subseteq Serving
    BY <1>3 DEF Serving, AssignFails
  <2>4. Reports'
    BY <1>3, <2>3, ReportsKept DEF AssignFails
  <2> QED BY <2>1, <2>2, <2>4 DEF SupervisorInd
<1> QED BY <1>2, <1>3

\* A report ends the child it names, which nobody serves any more.
LEMMA ChildGoneStep ==
  ASSUME SupervisorInd, ChildGone
  PROVE  SupervisorInd'
<1>1. /\ commands' \in Seq(Commands) /\ sup = "loop" /\ spawned \in Nat
      /\ Head(commands).pid \in (1 .. spawned) \ chans
      /\ \A m \in Nat : \A s : m >= spawned /\ s \cap (1 .. spawned) \subseteq chans =>
           Told(commands', m, s)
  BY Taken DEF ChildGone, SupervisorInd, Counted
<1>2. Serving' = chans /\ spawned' = spawned /\ sup' = "loop" /\ chans' = chans
  BY <1>1 DEF Serving, ChildGone
<1>3. Told(commands', spawned', Serving')
  BY <1>1, <1>2
<1>4. CASE Head(commands).pid = child
  <2>1. /\ procs' \subseteq 1 .. spawned' /\ owned' \subseteq procs' /\ modal' \subseteq owned'
         /\ shut' \subseteq procs' \ modal'
        /\ Counted' /\ Windows' /\ child' \in Pid \cup {NoChild}
    BY <1>4, ProcessesEnd DEF ChildGone
  <2>2. wronged' \in BOOLEAN /\ ~wronged'
    <3>1. wronged' = (wronged \/ child \in procs \cap chans)
      BY <1>4 DEF ChildGone
    <3>2. ~wronged /\ child \notin procs \cap chans
      BY <1>1, <1>4 DEF SupervisorInd, Reports
    <3> QED BY <3>1, <3>2
  <2>3. SupervisorTypeOK'
    BY <1>1, <2>1, <2>2 DEF SupervisorInd, SupervisorTypeOK, Commands, ChildGone
  <2>4. Reports'
    BY <1>2, <1>3, <2>2 DEF SupervisorInd, Reports
  <2> QED BY <2>1, <2>3, <2>4 DEF SupervisorInd
<1>5. CASE Head(commands).pid # child
  <2>1. SupervisorTypeOK' /\ Counted'
    BY <1>1, <1>5 DEF SupervisorInd, SupervisorTypeOK, Commands, Counted, ChildGone, Reaped, procVars
  <2>2. Windows'
    BY <1>5 DEF SupervisorInd, SupervisorTypeOK, Windows, ChildGone, Reaped, procVars
  <2>3. Reports'
    BY <1>2, <1>3, <1>5 DEF SupervisorInd, Reports, ChildGone
  <2> QED BY <2>1, <2>2, <2>3 DEF SupervisorInd
<1> QED BY <1>4, <1>5

\* Quit, and the message box of a failed start.
LEMMA QuitStep ==
  ASSUME SupervisorInd, QuitAsks \/ QuitEnds \/ DialogClosed
  PROVE  SupervisorInd'
<1>1. CASE QuitAsks
  <2>1. /\ commands' \in Seq(Commands) /\ sup = "loop" /\ spawned \in Nat
        /\ \A m \in Nat : \A s : m >= spawned /\ s \cap (1 .. spawned) \subseteq chans =>
             Told(commands', m, s)
    BY <1>1, Taken DEF QuitAsks, SupervisorInd, Counted
  <2>2. Serving' = chans /\ spawned' = spawned /\ sup' = "closing" /\ wronged' = wronged
    BY <1>1 DEF Serving, QuitAsks
  <2>3. SupervisorTypeOK' /\ Counted' /\ Windows'
    BY <1>1, <2>1 DEF SupervisorInd, SupervisorTypeOK, Commands, Counted, Windows, QuitAsks, procVars
  <2>4. Reports'
    BY <2>1, <2>2 DEF SupervisorInd, Reports
  <2> QED BY <2>3, <2>4 DEF SupervisorInd
<1>2. CASE QuitEnds
  <2>1. /\ procs' \subseteq 1 .. spawned' /\ owned' \subseteq procs' /\ modal' \subseteq owned'
         /\ shut' \subseteq procs' \ modal'
        /\ Counted' /\ Windows' /\ child' \in Pid \cup {NoChild}
    BY <1>2, ProcessesEnd DEF QuitEnds
  <2>2. SupervisorTypeOK'
    BY <1>2, <2>1 DEF SupervisorInd, SupervisorTypeOK, QuitEnds
  <2>3. Serving' \subseteq Serving
    BY <1>2 DEF Serving, QuitEnds
  <2>4. Reports'
    BY <1>2, <2>3, ReportsKept DEF QuitEnds
  <2> QED BY <2>1, <2>2, <2>4 DEF SupervisorInd
<1>3. CASE DialogClosed
  <2>1. SupervisorTypeOK' /\ Counted' /\ Windows'
    BY <1>3 DEF SupervisorInd, SupervisorTypeOK, Counted, Windows, DialogClosed, procVars
  <2>2. Serving' \subseteq Serving
    BY <1>3 DEF Serving, DialogClosed
  <2>3. Reports'
    BY <1>3, <2>2, ReportsKept DEF DialogClosed
  <2> QED BY <2>1, <2>3 DEF SupervisorInd
<1> QED BY <1>1, <1>2, <1>3

\* The children and their channels.
LEMMA ChildStep ==
  ASSUME SupervisorInd, NEW p \in Pid, Child(p)
  PROVE  SupervisorInd'
<1>1. CASE Picker(p)
  <2>1. SupervisorTypeOK' /\ Counted' /\ Windows'
    BY <1>1 DEF SupervisorInd, SupervisorTypeOK, Counted, Windows, Picker
  <2>2. Serving' \subseteq Serving
    BY <1>1 DEF Serving, Picker
  <2>3. Reports'
    BY <1>1, <2>2, ReportsKept DEF Picker
  <2> QED BY <2>1, <2>3 DEF SupervisorInd
<1>0. CASE WindowCloses(p)
  <2>1. SupervisorTypeOK' /\ Counted' /\ Windows'
    BY <1>0 DEF SupervisorInd, SupervisorTypeOK, Counted, Windows, WindowCloses
  <2>2. Serving' \subseteq Serving
    BY <1>0 DEF Serving, WindowCloses
  <2>3. Reports'
    BY <1>0, <2>2, ReportsKept DEF WindowCloses
  <2> QED BY <2>1, <2>3 DEF SupervisorInd
<1>2. CASE ProcEnds(p)
  <2>1. /\ procs' \subseteq 1 .. spawned' /\ owned' \subseteq procs' /\ modal' \subseteq owned'
         /\ shut' \subseteq procs' \ modal'
        /\ Counted' /\ Windows' /\ child' \in Pid \cup {NoChild}
    <3>1. Ended({p}) /\ UNCHANGED <<child, spawned, born>>
      BY <1>2 DEF ProcEnds
    <3> QED BY <3>1, ProcessesEnd
  <2>2. SupervisorTypeOK'
    BY <1>2, <2>1 DEF SupervisorInd, SupervisorTypeOK, ProcEnds
  <2>3. Serving' \subseteq Serving
    BY <1>2 DEF Serving, ProcEnds
  <2>4. Reports'
    BY <1>2, <2>3, ReportsKept DEF ProcEnds
  <2> QED BY <2>1, <2>2, <2>4 DEF SupervisorInd
<1>3. CASE ChannelEnds(p)
  <2>1. commands \in Seq(Commands) /\ spawned \in Nat /\ Told(commands, spawned, Serving)
        /\ chans \subseteq 1 .. spawned
    BY DEF SupervisorInd, SupervisorTypeOK, Commands, Counted, Reports
  <2>2. p \in 1 .. spawned /\ p \notin Serving' /\ Serving' \subseteq Serving
    BY <1>3, <2>1 DEF SupervisorInd, Reports, ChannelEnds, Serving
  <2>3. Told(commands, spawned, Serving')
    BY <2>1, <2>2, ToldKept
  <2>4. Gone(p) \in Commands /\ Gone(p).pid = p
    BY DEF Gone, Commands
  <2>5. Append(commands, Gone(p)) \in Seq(Commands) /\ Told(Append(commands, Gone(p)), spawned, Serving')
    BY <2>1, <2>2, <2>3, <2>4, ToldSent
  <2>6. commands' \in Seq(Commands) /\ Told(commands', spawned, Serving')
    BY <1>3, <2>1, <2>3, <2>5 DEF ChannelEnds
  <2>7. SupervisorTypeOK' /\ Counted' /\ Windows'
    BY <1>3, <2>6 DEF SupervisorInd, SupervisorTypeOK, Commands, Counted, Windows, ChannelEnds, procVars
  <2>8. Reports'
    BY <1>3, <2>6 DEF SupervisorInd, Reports, ChannelEnds
  <2> QED BY <2>7, <2>8 DEF SupervisorInd
<1> QED BY <1>0, <1>1, <1>2, <1>3 DEF Child

\* Every step of the supervisor and of its children keeps its invariant.
LEMMA SupervisorSteady ==
  ASSUME SupervisorInd,
         \/ Opens \/ Assign \/ AssignFails \/ ChildGone \/ QuitAsks \/ QuitEnds \/ DialogClosed
         \/ \E p \in Pid : Child(p)
  PROVE  SupervisorInd'
BY OpenStep, AssignStep, ChildGoneStep, QuitStep, ChildStep

-----------------------------------------------------------------------------
(* The main thread *)

\* Sequences stay sequences: of messages and of events.
LEMMA QueuesStay ==
  ASSUME NEW T, NEW q \in Seq(T)
  PROVE  /\ <<>> \in Seq(T) /\ \A m \in T : Append(q, m) \in Seq(T)
         /\ q # <<>> => Head(q) \in T /\ Tail(q) \in Seq(T)
<1>1. <<>> \in Seq(T)
  BY EmptySeq
<1>2. ASSUME NEW m \in T PROVE Append(q, m) \in Seq(T)
  BY <1>2, AppendProperties
<1>3. q # <<>> => Head(q) \in T /\ Tail(q) \in Seq(T)
  BY HeadTailProperties
<1> QED BY <1>1, <1>2, <1>3

\* While the tray is there or stays away with no supervisor, the main thread
\* may go anywhere.
LEMMA LoopStep == HostInd /\ [Next]_allVars => LoopInd'
<1> SUFFICES ASSUME HostInd, [Next]_allVars PROVE LoopInd'
  OBVIOUS
<1>t. /\ main \in {"starting", "hosted", "top", "drain", "wait", "menu", "quit", "ended"}
      /\ messages \in Seq(Messages) /\ requested \in BOOLEAN
      /\ events \in Seq({"settings", "listener", "quit"})
      /\ second \in {"none", "looking"} /\ asked \in BOOLEAN /\ missed \in BOOLEAN
      /\ main \in {"starting", "hosted", "ended"} => sup = "ended" /\ owned = {}
  BY DEF HostInd, LoopInd, TrayExists
<1> DEFINE Event == {"settings", "listener", "quit"}
<1>q. /\ <<>> \in Seq(Messages) /\ <<>> \in Seq(Event)
      /\ \A m \in Messages : Append(messages, m) \in Seq(Messages)
      /\ messages # <<>> => Head(messages) \in Messages /\ Tail(messages) \in Seq(Messages)
      /\ \A m \in Event : Append(events, m) \in Seq(Event)
      /\ events # <<>> => Head(events) \in Event /\ Tail(events) \in Seq(Event)
  BY <1>t, QueuesStay
<1> HIDE DEF Event
<1>1. ASSUME HostCreated \/ (\E m \in {"left", "menu"} : TrayClick(m)) \/ SecondFinds \/ SecondGivesUp
             \/ Launch
      PROVE  LoopInd'
  BY <1>1, <1>t, <1>q DEF HostCreated, TrayClick, SecondFinds, SecondGivesUp, Launch, Ask, Wanted, LoopInd, TrayExists,
     Messages, askVars, loopVars, vars, procVars
<1>2. ASSUME LoopBegins PROVE LoopInd'
  BY <1>2, <1>t DEF LoopBegins, SupervisorStart, LoopInd, askVars, TrayExists, loopVars
<1>3. ASSUME ProcessEnds PROVE LoopInd'
  <2>1. sup' = "ended" /\ owned' = {}
    BY <1>3, EndStep DEF HostInd, ProcessEnds, DaemonEnds
  <2> QED BY <1>3, <1>t, <1>q, <2>1 DEF ProcessEnds, LoopInd, Event
<1>4. ASSUME NEW choice \in {<<>>, <<"settings">>, <<"listener">>, <<"quit">>}, MenuCloses(choice)
      PROVE  LoopInd'
  <2>1. choice \in Seq(Messages)
    <3>1. /\ <<>> \in Seq(Messages) /\ <<"settings">> \in Seq(Messages)
          /\ <<"listener">> \in Seq(Messages) /\ <<"quit">> \in Seq(Messages)
      BY DEF Messages
    <3> QED BY <3>1, <1>4, Zenon
  <2>2. messages' \in Seq(Messages) /\ asked' \in BOOLEAN /\ missed' \in BOOLEAN
    BY <1>4, <1>t, <2>1, ConcatProperties DEF MenuCloses, Wanted
  <2> QED BY <1>4, <1>t, <2>2 DEF MenuCloses, LoopInd, TrayExists, vars, procVars
<1>5. ASSUME messages # <<>>, Handled(Head(messages), Tail(messages)), main \in {"wait", "menu"},
             main' \in {"menu", "top"}
      PROVE  LoopInd'
  <2>1. Head(messages) \in Messages /\ Tail(messages) \in Seq(Messages)
    BY <1>5, <1>q
  <2>2. messages' \in Seq(Messages)
    BY <1>5, <2>1, QueuesStay DEF Handled, Messages
  <2>3. events' \in Seq(Event)
    BY <1>5, <1>t, <1>q, <2>1 DEF Handled, Event, Messages
  <2>4. requested' \in BOOLEAN
    BY <1>5, <1>t DEF Handled
  <2> QED BY <1>5, <1>t, <2>2, <2>3, <2>4 DEF Handled, LoopInd, askVars, TrayExists, Event
<1>6. ASSUME TakeOpenRequest PROVE LoopInd'
  BY <1>6, <1>t DEF TakeOpenRequest, LoopInd, askVars, TrayExists
<1>7. ASSUME TakeEvent PROVE LoopInd'
  BY <1>7, <1>t, <1>q DEF TakeEvent, LoopInd, askVars, TrayExists, Event
<1>8. ASSUME EventsTaken PROVE LoopInd'
  BY <1>8, <1>t DEF EventsTaken, LoopInd, askVars, TrayExists, loopVars
<1>9. ASSUME SupervisorSteps PROVE LoopInd'
  <2>1. sup # "ended"
    BY <1>9 DEF SupervisorSteps, OpenHandled, Opens, OpenReveals, OpenSpawns, OpenFails, Command, Assign, AssignFails,
                ChildGone, QuitAsks, QuitEnds
  <2>2. asked' \in BOOLEAN /\ missed' \in BOOLEAN
    BY <1>9, <1>t DEF SupervisorSteps, OpenHandled, askVars
  <2> QED BY <1>9, <1>t, <2>1, <2>2 DEF SupervisorSteps, LoopInd, askVars, TrayExists, loopVars
<1>10. ASSUME Children PROVE LoopInd'
  <2>1. (sup = "ended" => sup' = "ended") /\ (owned = {} => owned' = {})
    BY <1>10 DEF Children, DialogClosed, Child, Picker, WindowCloses, ProcEnds, ChannelEnds, Ended, procVars
  <2> QED BY <1>10, <1>t, <2>1 DEF Children, LoopInd, askVars, TrayExists, hostVars, loopVars
<1>11. ASSUME UNCHANGED allVars PROVE LoopInd'
  BY <1>11, <1>t DEF LoopInd, askVars, TrayExists, allVars, hostVars, loopVars, vars, procVars
<1>12. Dispatch \/ MenuPumps => LoopInd'
  BY <1>5 DEF Dispatch, MenuPumps
<1> QED
  BY <1>1, <1>2, <1>3, <1>4, <1>6, <1>7, <1>8, <1>9, <1>10, <1>11, <1>12 DEF Next, MainSteps

\* No step of the process disturbs the supervisor's invariant.
LEMMA CommandStep == HostInd /\ [Next]_allVars => SupervisorInd'
<1> SUFFICES ASSUME HostInd, [Next]_allVars PROVE SupervisorInd'
  OBVIOUS
<1>0. SupervisorInd /\ daemon \in {"runs", "quits", "ended"}
  BY DEF HostInd, SupervisorInd, SupervisorTypeOK
<1>1. ASSUME UNCHANGED vars PROVE SupervisorInd'
  BY <1>0, <1>1, SupervisorStutters DEF vars
<1>2. ASSUME SendOpen \/ SendQuit PROVE SupervisorInd'
  BY <1>0, <1>2, SendStep DEF SendOpen, SendQuit
<1>3. ASSUME LoopBegins PROVE SupervisorInd'
  <2>1. owned = {}
    BY <1>3 DEF HostInd, LoopInd, LoopBegins, TrayExists
  <2> QED BY <1>0, <1>3, <2>1, StartStep DEF LoopBegins
<1>4. ASSUME Launch PROVE SupervisorInd'
  BY <1>0, <1>1, <1>4, SupervisorStutters DEF Launch
<1>5. ASSUME SupervisorSteps \/ Children PROVE SupervisorInd'
  BY <1>0, <1>5, SupervisorSteady DEF SupervisorSteps, OpenHandled, Children
<1>6. ASSUME ProcessEnds PROVE SupervisorInd'
  BY <1>0, <1>6, EndStep DEF ProcessEnds
<1>7. ASSUME HostCreated \/ Dispatch \/ MenuPumps \/ TakeOpenRequest \/ TakeEvent \/ EventsTaken
             \/ SecondFinds \/ SecondGivesUp
      PROVE  SupervisorInd'
  BY <1>1, <1>2, <1>7 DEF HostCreated, Dispatch, MenuPumps, Handled, TakeOpenRequest, TakeEvent, EventsTaken,
     SecondFinds, SecondGivesUp
<1>8. ASSUME (\E m \in {"left", "menu"} : TrayClick(m))
             \/ \E choice \in {<<>>, <<"settings">>, <<"listener">>, <<"quit">>} : MenuCloses(choice)
      PROVE  SupervisorInd'
  BY <1>1, <1>8 DEF TrayClick, MenuCloses
<1>9. UNCHANGED allVars => SupervisorInd'
  BY <1>1 DEF allVars
<1> QED
  BY <1>3, <1>4, <1>5, <1>6, <1>7, <1>8, <1>9 DEF Next, MainSteps

-----------------------------------------------------------------------------
(* The theorem *)

\* The first state of a background process.
LEMMA HostStart == Init => HostInd
<1> SUFFICES ASSUME Init PROVE HostInd
  OBVIOUS
<1>1. commands \in Seq(Commands) /\ Told(commands, spawned, Serving)
  BY NoReports DEF Init, SupervisorInit
<1>2. MaxSpawns \in Nat
  BY SupervisorAssumption
<1>3. SupervisorTypeOK
  BY <1>1 DEF Init, SupervisorInit, SupervisorTypeOK, Commands
<1>4. Counted /\ Windows
  BY <1>2 DEF Init, SupervisorInit, Counted, Windows
<1>5. Reports
  BY <1>1 DEF Init, SupervisorInit, Reports
<1>6. messages \in Seq(Messages) /\ events \in Seq({"settings", "listener", "quit"})
  BY EmptySeq DEF Init
<1>7. LoopInd
  BY <1>6 DEF Init, SupervisorInit, LoopInd, TrayExists
<1> QED BY <1>3, <1>4, <1>5, <1>7 DEF HostInd, SupervisorInd

\* A set with at most one member has at most that cardinality.
LEMMA AtMostOne ==
  ASSUME NEW s, NEW e, s \subseteq {e}
  PROVE  Cardinality(s) <= 1
<1>1. s = {} \/ s = {e}
  OBVIOUS
<1>2. Cardinality({}) = 0 /\ Cardinality({e}) = 1
  BY FS_EmptySet, FS_Singleton
<1> QED BY <1>1, <1>2

\* windows-media-daemon.md: "only one Settings window under repeated opens",
\* and no late report of a lost channel ends a window that is being served,
\* however clicks, launches, exits and reports cross (supervisor_loop, run).
THEOREM OneWindow == Spec => []HostInv
<1>1. HostInd /\ [Next]_allVars => HostInd'
  BY LoopStep, CommandStep DEF HostInd
<1>2. HostInd => HostInv
  <2> SUFFICES ASSUME HostInd PROVE HostInv
    OBVIOUS
  <2>1. TypeOK
    BY DEF HostInd, SupervisorInd, LoopInd, TypeOK
  <2>2. OneSettings
    <3>1. procs \ (1 .. born) \subseteq {child} /\ owned \subseteq {child}
      BY DEF HostInd, SupervisorInd, Windows
    <3> QED BY <3>1, AtMostOne DEF OneSettings
  <2>3. ServedNotKilled
    BY DEF HostInd, SupervisorInd, Reports, ServedNotKilled
  <2> QED BY <2>1, <2>2, <2>3 DEF HostInv
<1> QED BY <1>1, <1>2, HostStart, PTL DEF Spec

=============================================================================
