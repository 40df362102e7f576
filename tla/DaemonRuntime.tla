--------------------------- MODULE DaemonRuntime ---------------------------
(***************************************************************************)
(* WindowsRuntime (daemon/src/adapters/windows_runtime.rs): the operations *)
(* of the Settings window and the tray, and the two voice-config handlers  *)
(* of the HTTPS listener (daemon/src/http.rs), which share its state.      *)
(*                                                                         *)
(* The configuration lives in three places - the file, the dispatcher's    *)
(* copy and the shared in-memory copy - and every operation updates them   *)
(* in that order while it holds the lifecycle mutex:                       *)
(*                                                                         *)
(*    clone memory -> save file -> replace_config().await -> write memory  *)
(*                                                                         *)
(* The holder of the mutex is `op'; its steps are separate actions, so a   *)
(* crash, a failed save or bind, a dispatch that delays replace_config, or *)
(* the cancellation of an acknowledgement by the two-second HTTP timeout   *)
(* can fall between any two of them.  An operation that still waits for    *)
(* the mutex has done nothing yet.                                         *)
(*                                                                         *)
(* Files are replaced atomically (temporary file, sync, rename).  A file   *)
(* that is there may still be unusable to load(): it cannot be read,       *)
(* parsed, validated or unprotected.  Secrets are reduced to the host the  *)
(* certificate is for and the generations of the CA and of the token.      *)
(***************************************************************************)
EXTENDS AppConfig

CONSTANTS
  ActionLists,   \* lists of actions Settings may save
  NoFile,        \* a file that does not exist
  NoListener,    \* no listener task
  MaxGen         \* bound of the model: credentials made for the user or
                 \* after a file could not be used

Config ==
  [ listener: BOOLEAN, host: LocalHosts, start: BOOLEAN,
    actions: ActionLists \cup {DefaultConfig.actions}, actRev: 0 .. MaxRevision,
    pub: [ revision: 0 .. MaxRevision, actRev: 0 .. MaxRevision,
           commands: SUBSET VoiceCommand ],
    ack: 0 .. MaxRevision ]

Secrets == [host: LocalHosts, ca: Nat, token: Nat]

ASSUME RuntimeAssumption ==
  /\ \A list \in ActionLists :
       DOMAIN list \subseteq ActionIds /\ \A a \in DOMAIN list : list[a] \in Action
  /\ NoFile \notin Config \cup Secrets
  /\ NoListener \notin Secrets
  /\ MaxGen \in Nat \ {0}

VARIABLES
  up,        \* the daemon process runs
  mem,       \* WindowsRuntime.config, shared with the listener
  disp,      \* Dispatcher.config
  disk,      \* config.json
  secMem,    \* WindowsRuntime.secrets
  secDisk,   \* secrets.dpapi
  run,       \* the Run registry value of start_after_login exists
  listener,  \* WindowsRuntime.listener: the credentials it serves with
  op,        \* the operation that holds the lifecycle mutex
  cand,      \* its candidate configuration
  prevSec,   \* the secrets it would restore
  reading,   \* a dispatch holds the dispatcher's lifecycle read lock
  gen,       \* last credential generation handed out
  fell,      \* history: load() could not use config.json, which still holds
             \* what was saved before
  unread,    \* history: the last load() could not use secrets.dpapi
  served,    \* history: voice tables sent to the ESP from the configuration
             \* in the file or an earlier version of it
  acked      \* history: revisions answered "active", likewise

confVars == <<mem, disp, disk>>
secVars  == <<secMem, secDisk, prevSec, gen>>
histVars == <<fell, unread, served, acked>>
vars == <<up, confVars, secVars, run, listener, op, cand, reading, histVars>>

Idle == [name |-> "none", step |-> "idle"]

At(name, step) == [name |-> name, step |-> step]

\* new_secrets: certificate, CA and token are all fresh.
NewSecrets(host, g) == [host |-> host, ca |-> g, token |-> g]

\* Faulty variant: the token is renewed with the certificate.
RotateTlsAndToken(sec, host, g) == [sec EXCEPT !.host = host, !.ca = g, !.token = g]

\* rotate_tls: a fresh CA and certificate for the host, the token is kept.
RotateTls(sec, host, g) == [sec EXCEPT !.host = host, !.ca = g]

\* What start_listener binds with.
ListenerFor(c) == [host |-> c.host, ca |-> secMem.ca, token |-> secMem.token]

Running == listener # NoListener

\* A listener answers from the moment it is bound, before set_listener has
\* stored it.
Serving == Running \/ op = At("on", "save_on")

\* An operation returns and releases the lifecycle mutex.
Return == op' = Idle

\* The user asks for new credentials only while the bound allows it.  load()
\* may need one more generation than that after each of them.
Fresh == gen < MaxGen

-----------------------------------------------------------------------------
(* The shared tail: save the file, replace the dispatcher's copy, write    *)
(* memory.                                                                 *)

\* Write config.json.  A configuration that load() made up replaces the saved
\* one here: voice revisions start again at 1.
WriteFile(c) ==
  /\ disk' = c
  /\ fell' = FALSE
  /\ IF fell THEN served' = {} /\ acked' = {} ELSE UNCHANGED <<served, acked>>
  /\ UNCHANGED unread

\* Faulty variant: a failed save is ignored.
SaveConfigIgnored ==
  /\ op.step = "save"
  /\ \/ WriteFile(cand) /\ op' = [op EXCEPT !.step = "replace"] /\ UNCHANGED run
     \/ \* The save failed: set_start_after_login tries to restore the registry.
        /\ op' = [op EXCEPT !.step = "replace"]
        /\ run' \in IF op.name = "start" THEN {run, mem.start} ELSE {run}
        /\ UNCHANGED <<disk, histVars>>
  /\ UNCHANGED <<up, mem, disp, secVars, listener, cand, reading>>

SaveConfig ==
  /\ op.step = "save"
  /\ \/ WriteFile(cand) /\ op' = [op EXCEPT !.step = "replace"] /\ UNCHANGED run
     \/ \* The save failed: set_start_after_login tries to restore the registry.
        /\ Return
        /\ run' \in IF op.name = "start" THEN {run, mem.start} ELSE {run}
        /\ UNCHANGED <<disk, histVars>>
  /\ UNCHANGED <<up, mem, disp, secVars, listener, cand, reading>>

\* replace_config: the write lock is granted once no dispatch reads.
ReplaceConfig ==
  /\ op.step = "replace"
  /\ ~reading
  /\ disp' = cand
  /\ op' = [op EXCEPT !.step = "commit"]
  /\ UNCHANGED <<up, mem, disk, secVars, run, listener, cand, reading, histVars>>

Commit ==
  /\ op.step = "commit"
  /\ mem' = cand
  /\ Return
  /\ acked' = IF op.name = "ack" THEN acked \cup {cand.ack} ELSE acked
  /\ UNCHANGED <<up, disp, disk, secVars, run, listener, cand, reading, fell, unread, served>>

\* Start an operation whose only effect is the candidate configuration.
Edit(name, c) ==
  /\ up /\ op = Idle
  /\ op' = At(name, "save")
  /\ cand' = c
  /\ UNCHANGED <<up, confVars, secVars, listener, reading, histVars>>

SaveActions(acts) ==
  /\ mem.actRev < MaxRevision
  /\ Valid(WithActions(mem, acts))
  /\ Edit("actions", WithActions(mem, acts))
  /\ UNCHANGED run

ApplyVoiceConfig ==
  /\ mem.pub.revision < MaxRevision
  /\ CommandsValid(Commands(mem, Spoken(mem)))
  /\ Valid(Published(mem))
  /\ Edit("apply", Published(mem))
  /\ UNCHANGED run

\* configure_startup writes the registry before the file is saved.
SetStartAfterLogin(enabled) ==
  /\ Edit("start", [mem EXCEPT !.start = enabled])
  /\ run' = enabled

-----------------------------------------------------------------------------
(* The voice-config handlers of the running listener *)

\* GET /v1/voice-config: only a current table is served.
FetchVoiceConfig ==
  /\ up /\ Serving
  /\ TableCurrent(mem)
  /\ served' = served \cup {mem.pub}
  /\ UNCHANGED <<up, confVars, secVars, run, listener, op, cand, reading, fell, unread, acked>>

\* Faulty variant: "active" is answered before the file is saved.
VoiceConfigAckEarly(rev) ==
  /\ Running
  /\ TableCurrent(mem) /\ mem.pub.revision = rev
  /\ \/ /\ mem.ack = rev
        /\ up /\ op = Idle
        /\ acked' = acked \cup {rev}
        /\ UNCHANGED <<up, confVars, secVars, run, listener, op, cand, reading,
                       fell, unread, served>>
     \/ /\ mem.ack # rev
        /\ up /\ op = Idle
        /\ op' = At("ack", "save")
        /\ cand' = [mem EXCEPT !.ack = rev]
        /\ acked' = acked \cup {rev}
        /\ UNCHANGED <<up, confVars, secVars, run, listener, reading, fell, unread, served>>

\* POST /v1/voice-config/ack, from the moment it holds the mutex.  A revision
\* already acknowledged is answered at once; a stale one is refused.
VoiceConfigAck(rev) ==
  /\ Running
  /\ TableCurrent(mem) /\ mem.pub.revision = rev
  /\ \/ /\ mem.ack = rev
        /\ up /\ op = Idle
        /\ acked' = acked \cup {rev}
        /\ UNCHANGED <<up, confVars, secVars, run, listener, op, cand, reading,
                       fell, unread, served>>
     \/ /\ mem.ack # rev
        /\ Edit("ack", [mem EXCEPT !.ack = rev])
        /\ UNCHANGED run

\* TimeoutLayer drops the acknowledgement while it waits for the write lock:
\* the file has the acknowledgement, memory has not.
AckTimeout ==
  /\ op = At("ack", "replace")
  /\ reading
  /\ Return
  /\ UNCHANGED <<up, confVars, secVars, run, listener, cand, reading, histVars>>

\* A dispatch takes and leaves the read lock; a waiting writer keeps it out.
DispatchBegin ==
  /\ up /\ ~reading /\ op.step # "replace"
  /\ reading' = TRUE
  /\ UNCHANGED <<up, confVars, secVars, run, listener, op, cand, histVars>>

DispatchEnd ==
  /\ reading
  /\ reading' = FALSE
  /\ UNCHANGED <<up, confVars, secVars, run, listener, op, cand, histVars>>

-----------------------------------------------------------------------------
(* set_listener *)

\* Nothing to do only if the preference and the task both agree already.
SetListener(enabled) ==
  /\ up /\ op = Idle
  /\ ~(mem.listener = enabled /\ Running = enabled)
  /\ cand' = [mem EXCEPT !.listener = enabled]
  /\ op' = IF enabled THEN At("on", "bind") ELSE At("off", "stop")
  /\ UNCHANGED <<up, confVars, secVars, run, listener, reading, histVars>>

\* start_listener; if it fails the listener is saved as paused.
BindListener ==
  /\ op = At("on", "bind")
  /\ \/ op' = At("on", "save_on") /\ UNCHANGED cand
     \/ op' = At("on", "save") /\ cand' = [cand EXCEPT !.listener = FALSE]
  /\ UNCHANGED <<up, confVars, secVars, run, listener, reading, histVars>>

\* The preference is saved once the listener is bound; if that fails it is
\* stopped again.
SaveListening ==
  /\ op = At("on", "save_on")
  /\ \/ /\ WriteFile(cand)
        /\ listener' = ListenerFor(cand)
        /\ op' = At("on", "replace")
     \/ Return /\ UNCHANGED <<disk, listener, histVars>>
  /\ UNCHANGED <<up, mem, disp, secVars, run, cand, reading>>

\* The listener is taken out first; its task may end with an error.
StopListener ==
  /\ op = At("off", "stop")
  /\ listener' = NoListener
  /\ \/ op' = At("off", "save")
     \/ Running /\ Return
  /\ UNCHANGED <<up, confVars, secVars, run, cand, reading, histVars>>

-----------------------------------------------------------------------------
(* rotate_credentials *)

RotateBegin ==
  /\ up /\ op = Idle
  /\ op' = At(IF Running THEN "rotate_running" ELSE "rotate", "rotate")
  /\ listener' = NoListener
  /\ UNCHANGED <<up, confVars, secVars, run, cand, reading, histVars>>

\* The old listener has stopped; new secrets are made and put into memory.
RotateNew ==
  /\ op.step = "rotate"
  /\ \/ /\ Fresh
        /\ gen' = gen + 1
        /\ prevSec' = secMem
        /\ secMem' = NewSecrets(mem.host, gen + 1)
        /\ op' = [op EXCEPT !.step = "save_secrets"]
     \/ /\ op.name = "rotate_running"    \* stop() failed
        /\ Return
        /\ UNCHANGED <<gen, prevSec, secMem>>
     \/ /\ op' = [op EXCEPT !.step = "restore"]   \* new_secrets failed
        /\ UNCHANGED <<gen, prevSec, secMem>>
  /\ UNCHANGED <<up, confVars, secDisk, run, listener, cand, reading, histVars>>

RotateSave ==
  /\ op.step = "save_secrets"
  /\ \/ /\ secDisk' = secMem
        /\ op' = [op EXCEPT !.step = "restart"]
        /\ UNCHANGED secMem
     \/ /\ secMem' = prevSec
        /\ op' = [op EXCEPT !.step = "restore"]
        /\ UNCHANGED secDisk
  /\ UNCHANGED <<up, confVars, prevSec, gen, run, listener, cand, reading, histVars>>

\* Bring the listener back if there was one.  After a successful rotation a
\* failed bind is saved as paused; on an error path it is simply reported.
RotateRestart ==
  /\ op.step \in {"restart", "restore"}
  /\ \/ /\ op.name = "rotate"
        /\ Return
        /\ UNCHANGED <<listener, cand>>
     \/ /\ op.name = "rotate_running"
        /\ listener' = ListenerFor(mem)
        /\ Return
        /\ UNCHANGED cand
     \/ /\ op.name = "rotate_running" /\ op.step = "restore"
        /\ Return
        /\ UNCHANGED <<listener, cand>>
     \/ /\ op.name = "rotate_running" /\ op.step = "restart"
        /\ cand' = [mem EXCEPT !.listener = FALSE]
        /\ op' = [op EXCEPT !.step = "save"]
        /\ UNCHANGED listener
  /\ UNCHANGED <<up, confVars, secVars, run, reading, histVars>>

-----------------------------------------------------------------------------
(* reconfigure *)

\* Faulty variant: the listener need not be paused.
ReconfigureRunning(host) ==
  /\ up /\ op = Idle
  /\ Valid([mem EXCEPT !.host = host])
  /\ cand' = [mem EXCEPT !.host = host]
  /\ prevSec' = secMem
  /\ \/ secMem.host = host /\ UNCHANGED <<secMem, gen>>
     \/ /\ secMem.host # host /\ Fresh
        /\ gen' = gen + 1
        /\ secMem' = RotateTls(secMem, host, gen + 1)
  /\ op' = At("reconfigure", "save_tls")
  /\ UNCHANGED <<up, confVars, secDisk, run, listener, reading, histVars>>

\* Only while paused.  The secrets are rotated in memory when the host changes.
Reconfigure(host) ==
  /\ up /\ op = Idle /\ ~Running
  /\ Valid([mem EXCEPT !.host = host])
  /\ cand' = [mem EXCEPT !.host = host]
  /\ prevSec' = secMem
  /\ \/ secMem.host = host /\ UNCHANGED <<secMem, gen>>
     \/ /\ secMem.host # host /\ Fresh
        /\ gen' = gen + 1
        /\ secMem' = RotateTls(secMem, host, gen + 1)
  /\ op' = At("reconfigure", "save_tls")
  /\ UNCHANGED <<up, confVars, secDisk, run, listener, reading, histVars>>

ReconfigureSaveTls ==
  /\ op = At("reconfigure", "save_tls")
  /\ \/ /\ secDisk' = secMem
        /\ op' = At("reconfigure", "save_host")
        /\ UNCHANGED secMem
     \/ /\ secMem' = prevSec
        /\ Return
        /\ UNCHANGED secDisk
  /\ UNCHANGED <<up, confVars, prevSec, gen, run, listener, cand, reading, histVars>>

\* A failed save puts the old secrets back, in memory and as far as possible
\* in the file.
ReconfigureSaveHost ==
  /\ op = At("reconfigure", "save_host")
  /\ \/ /\ WriteFile(cand)
        /\ op' = At("reconfigure", "replace")
        /\ UNCHANGED <<secMem, secDisk>>
     \/ /\ secMem' = prevSec
        /\ secDisk' \in {secDisk, prevSec}
        /\ Return
        /\ UNCHANGED <<disk, histVars>>
  /\ UNCHANGED <<up, mem, disp, prevSec, gen, run, listener, cand, reading>>

-----------------------------------------------------------------------------
(* Process life *)

\* The configuration load() continues with; bad: the file cannot be used.
LoadedConfig(bad) == IF disk = NoFile \/ bad THEN DefaultConfig ELSE disk

\* The secrets load() continues with: the file's, re-issued for the configured
\* host if it names another, or new ones.
LoadedSecrets(c, bad) ==
  IF secDisk = NoFile \/ bad THEN NewSecrets(c.host, gen + 1)
  ELSE IF secDisk.host # c.host THEN RotateTls(secDisk, c.host, gen + 1)
  ELSE secDisk

\* Faulty variant: load() also writes the configuration it fell back to.
FileAlways(c) == c

\* config.json after load(): written only if there was none.
FileAfterLoad(c) == IF disk = NoFile THEN c ELSE disk

\* load() and the start of a listener that was enabled.  The configuration is
\* written only if there was no file, so the one load() falls back to when it
\* cannot use the file stays in memory; the secrets are always written.
LoadWith(badConf, badSec) ==
  LET c == LoadedConfig(badConf)
      s == LoadedSecrets(c, badSec)
  IN /\ ~up
     /\ badConf => disk # NoFile
     /\ badSec => secDisk # NoFile
     /\ (badConf \/ badSec) /\ s # secDisk => Fresh
     /\ up' = TRUE
     /\ mem' = c /\ disp' = c
     /\ disk' = FileAfterLoad(c)
     /\ secMem' = s /\ secDisk' = s
     /\ gen' = IF s = secDisk THEN gen ELSE gen + 1
     /\ cand' = c
     /\ op' = IF c.listener THEN At("on", "bind") ELSE Idle
     /\ fell' = badConf /\ unread' = badSec
     /\ UNCHANGED <<prevSec, run, listener, reading, served, acked>>

\* load() returns an error and the process ends: no credentials could be made,
\* or a save failed, the configuration's or, after it, that of the secrets.
LoadFails ==
  /\ ~up
  /\ disk = NoFile /\ disk' = LoadedConfig(FALSE)
  /\ UNCHANGED <<up, mem, disp, secVars, run, listener, op, cand, reading, histVars>>

Load == LoadFails \/ \E badConf, badSec \in BOOLEAN : LoadWith(badConf, badSec)

\* The memory of a process that has not loaded anything yet.
Blank ==
  /\ mem' = DefaultConfig /\ disp' = DefaultConfig /\ cand' = DefaultConfig
  /\ secMem' = NewSecrets(Loopback, 0) /\ prevSec' = NewSecrets(Loopback, 0)

\* The process ends, by Quit or by a crash, wherever it is.
Stop ==
  /\ up
  /\ up' = FALSE
  /\ Blank
  /\ listener' = NoListener
  /\ reading' = FALSE
  /\ Return
  /\ fell' = FALSE /\ unread' = FALSE
  /\ UNCHANGED <<disk, secDisk, gen, run, served, acked>>

-----------------------------------------------------------------------------

Init ==
  /\ up = FALSE
  /\ mem = DefaultConfig /\ disp = DefaultConfig /\ cand = DefaultConfig
  /\ disk = NoFile
  /\ secMem = NewSecrets(Loopback, 0) /\ prevSec = NewSecrets(Loopback, 0)
  /\ secDisk = NoFile
  /\ run = FALSE
  /\ listener = NoListener
  /\ op = Idle
  /\ reading = FALSE
  /\ gen = 0
  /\ fell = FALSE /\ unread = FALSE
  /\ served = {} /\ acked = {}

Proceed ==
  \/ SaveConfig \/ ReplaceConfig \/ Commit
  \/ BindListener \/ SaveListening \/ StopListener
  \/ RotateNew \/ RotateSave \/ RotateRestart
  \/ ReconfigureSaveTls \/ ReconfigureSaveHost

Begin ==
  \/ \E acts \in ActionLists : SaveActions(acts)
  \/ ApplyVoiceConfig
  \/ \E b \in BOOLEAN : SetStartAfterLogin(b) \/ SetListener(b)
  \/ RotateBegin
  \/ \E h \in LocalHosts : Reconfigure(h)

Next ==
  \/ Proceed
  \/ Begin
  \/ FetchVoiceConfig
  \/ \E rev \in 1 .. MaxRevision : VoiceConfigAck(rev)
  \/ AckTimeout
  \/ DispatchBegin \/ DispatchEnd
  \/ Load \/ Stop

Spec == Init /\ [][Next]_vars

-----------------------------------------------------------------------------
(* Properties *)

TypeOK ==
  /\ up \in BOOLEAN /\ run \in BOOLEAN /\ reading \in BOOLEAN
  /\ fell \in BOOLEAN /\ unread \in BOOLEAN
  /\ mem \in Config /\ disp \in Config /\ cand \in Config
  /\ disk = NoFile \/ disk \in Config
  /\ secMem \in Secrets /\ prevSec \in Secrets
  /\ secDisk = NoFile \/ secDisk \in Secrets
  /\ listener = NoListener \/ listener \in Secrets
  /\ gen \in Nat
  /\ op = Idle => ~up \/ Valid(mem)

\* Between operations the dispatcher, memory and the file hold the same
\* configuration, whichever saves, binds or waits failed on the way.  There are
\* two exceptions.  After an acknowledgement the HTTP timeout cut short the file
\* may know of an acknowledgement that memory does not.  And after a load()
\* that could not use the file, memory and dispatcher hold the default
\* configuration while the file keeps the saved one, until the first save.
CopiesAgree ==
  up /\ op = Idle =>
    /\ disp = mem
    /\ \/ ~fell /\ [disk EXCEPT !.ack = mem.ack] = mem
       \/ fell /\ mem = DefaultConfig

\* A running listener is the one the settings describe: it is bound to the
\* configured address, its certificate is for that address, and it accepts the
\* current token and no earlier one (rotate_credentials, reconfigure,
\* set_listener).
ListenerCurrent ==
  up /\ op = Idle /\ Running =>
    /\ mem.listener
    /\ listener = ListenerFor(mem)
    /\ secMem.host = mem.host

\* Between operations the copies of the configuration agree, and so do the
\* configuration and the listener.
RuntimeInv == TypeOK /\ CopiesAgree /\ ListenerCurrent

\* A voice revision names one table, across failed saves, crashes and restarts,
\* also those where load() could not use the file: an ESP that compares
\* revisions never keeps an outdated mapping.  Only a save made after such a
\* load() starts the revisions again and with them this promise (WriteFile).
RevisionNamesTable ==
  \A p, q \in served : p.revision = q.revision => p = q

\* An acknowledgement answered "active" is never lost again, neither to a later
\* save of Settings nor to a crash, as long as the configuration it belongs to
\* has not been replaced by the default one of a load() that could not use it.
AcksDurable == \A r \in acked : disk.ack >= r

\* windows-media-daemon.md: "the token is unchanged by an address change".
\* Once issued, the token changes only in rotate_credentials and in a load()
\* that cannot use secrets.dpapi, not when a crash between the two saves of
\* reconfigure, or a configuration file that cannot be used, makes load()
\* re-issue the certificate.
TokenKept ==
  [][ secDisk # NoFile /\ secDisk'.token # secDisk.token
        => op.step = "save_secrets" \/ (~up /\ up' /\ unread') ]_vars

=============================================================================
