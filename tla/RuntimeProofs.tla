--------------------------- MODULE RuntimeProofs ---------------------------
(***************************************************************************)
(* Theorems about DaemonRuntime for every set of hosts, action lists and   *)
(* revisions: the copies of the configuration and the listener agree       *)
(* between operations, a voice revision names one table, an                *)
(* acknowledgement answered is never lost, and only rotate_credentials     *)
(* replaces the token - each with the exception that a load() which could  *)
(* not use a file brings.                                                  *)
(*                                                                         *)
(* None of them is inductive: each speaks of the moments between two       *)
(* operations.  RuntimeInd says what holds inside them, in layers that are *)
(* proved one after the other: the shape of the running operation (OpOK),  *)
(* where the candidate has arrived (Copies), which secrets are whose       *)
(* (Creds), what the listener serves (Listens), and that both the file and *)
(* memory cover what the ESP was told (History).                           *)
(***************************************************************************)
EXTENDS DaemonRuntime, FiniteSetTheorems, TLAPS

-----------------------------------------------------------------------------
(* The inductive invariant *)

\* The operations that reach the shared tail with an edited configuration.
Editors == {"actions", "apply", "start", "ack", "on", "off", "rotate_running"}

\* The steps of rotate_credentials before its tail.
Rotating == {"rotate", "save_secrets", "restart", "restore"}

\* TypeOK without its last conjunct, which Copies implies.
Types ==
  /\ up \in BOOLEAN /\ run \in BOOLEAN /\ reading \in BOOLEAN
  /\ fell \in BOOLEAN /\ unread \in BOOLEAN
  /\ mem \in Config /\ disp \in Config /\ cand \in Config
  /\ disk = NoFile \/ disk \in Config
  /\ secMem \in Secrets /\ prevSec \in Secrets
  /\ secDisk = NoFile \/ secDisk \in Secrets
  /\ listener = NoListener \/ listener \in Secrets
  /\ gen \in Nat

\* Which operation can be at which step; none runs while the process is down.
OpOK ==
  /\ op = [name |-> op.name, step |-> op.step]
  /\ \/ op.step = "idle" /\ op.name = "none"
     \/ op.step = "save" /\ op.name \in Editors
     \/ op.step \in {"replace", "commit"} /\ op.name \in Editors \cup {"reconfigure"}
     \/ op.step \in {"bind", "save_on"} /\ op.name = "on"
     \/ op.step = "stop" /\ op.name = "off"
     \/ op.step \in Rotating /\ op.name \in {"rotate", "rotate_running"}
     \/ op.step \in {"save_tls", "save_host"} /\ op.name = "reconfigure"
  /\ ~up => op = Idle /\ ~Running
  /\ up => disk # NoFile /\ secDisk # NoFile

\* The operation has a candidate.
Editing == op.step \notin {"idle"} \cup Rotating

\* The same configuration up to the acknowledgement.
Alike(c, d) == [c EXCEPT !.ack = d.ack] = d

\* What holds of the candidate c of an operation, m being the configuration in
\* memory.
CandidateOK(name, c, m) ==
  /\ Valid(c)
  /\ name # "reconfigure" => c.host = m.host
  /\ name = "ack" => Alike(c, m)
  /\ c.ack >= m.ack
  /\ c.pub = m.pub \/ c.pub.revision > m.pub.revision

\* Where the candidate has arrived: in the file from `replace' on, in the
\* dispatcher from `commit' on.  A load() that fell back left the default
\* configuration in memory and the saved one in the file.
Copies ==
  /\ disk # NoFile => Valid(disk)
  /\ up =>
       /\ Valid(mem)
       /\ op.step \in {"replace", "commit"} => disk = cand /\ ~fell
       /\ op.step \notin {"replace", "commit"} /\ ~fell => Alike(disk, mem) /\ disk.ack >= mem.ack
       /\ fell => mem = DefaultConfig
       /\ disp = IF op.step = "commit" THEN cand ELSE mem
  /\ Editing => CandidateOK(op.name, cand, mem)

\* Which host the secrets in memory are for, and that every copy of them has
\* the token of the file except while rotate_credentials saves a new one.
Creds ==
  /\ up /\ op.name # "reconfigure" => secMem.host = mem.host
  /\ op.name = "reconfigure" => secMem.host = cand.host
  /\ op.step \in {"save_secrets", "save_tls", "save_host"} =>
       prevSec.host = mem.host /\ prevSec.token = secDisk.token
  /\ up /\ op.step # "save_secrets" => secMem.token = secDisk.token

\* A listener runs only in operations that leave it alone or have just bound
\* it, and serves what memory describes.
Listens ==
  /\ op.name = "rotate_running" /\ op.step \in Rotating => mem.listener
  /\ op.step \in {"bind", "save_on"} => cand.listener
  /\ up /\ Running =>
       /\ listener = ListenerFor(mem)
       /\ \/ op.name \in {"none", "actions", "apply", "start", "ack"}
               /\ mem.listener /\ (Editing => cand.listener)
          \/ op.name = "on" /\ op.step \in {"replace", "commit"} /\ cand.listener
          \/ op.step = "stop"

\* c covers every table served: none is newer than its own.
NamedBy(c) ==
  \A p \in served :
    /\ p.revision \in Nat /\ p.revision <= c.pub.revision
    /\ p.revision = c.pub.revision => p = c.pub

\* c covers every acknowledgement answered.
AckedBy(c) == \A r \in acked : r \in Nat /\ c.ack >= r

\* The file covers what the ESP was told, and so does memory while it comes from
\* the file.
History ==
  /\ disk = NoFile => served = {} /\ acked = {}
  /\ disk # NoFile => NamedBy(disk) /\ AckedBy(disk)
  /\ up /\ ~fell => NamedBy(mem) /\ AckedBy(mem)

RuntimeInd ==
  Types /\ OpOK /\ Copies /\ Creds /\ Listens /\ History /\ RevisionNamesTable

-----------------------------------------------------------------------------
(* The configuration value *)

\* Values of the default configuration.
LEMMA Bounds == 0 \in 0 .. MaxRevision /\ Loopback \in LocalHosts
BY ConfigAssumption

\* The fields of a configuration have their types.
LEMMA ConfigFields ==
  ASSUME NEW c \in Config
  PROVE  /\ c.listener \in BOOLEAN /\ c.host \in LocalHosts /\ c.start \in BOOLEAN
         /\ c.actRev \in Nat /\ c.ack \in Nat /\ c.pub.revision \in Nat /\ c.pub.actRev \in Nat
BY ConfigAssumption DEF Config

\* The default configuration.
LEMMA DefaultOK == DefaultConfig \in Config /\ Valid(DefaultConfig)
<1>1. DefaultConfig \in Config
  BY Bounds DEF DefaultConfig, Config, NotPublished
<1>2. DOMAIN DefaultConfig.actions = {}
  BY DEF DefaultConfig
<1>3. Voiced(DefaultConfig) = {} /\ Spoken(DefaultConfig) = {}
  BY <1>2 DEF Voiced, Spoken
<1>4. Commands(DefaultConfig, {}) = {}
  BY DEF Commands
<1>5. Cardinality({}) = 0
  BY FS_EmptySet
<1>6. DraftsValid({})
  BY DEF DraftsValid
<1>7. 0 <= MaxActions /\ 0 <= MaxVoiceActions
  BY ConfigAssumption
<1>8. DefaultConfig.host = Loopback /\ DefaultConfig.pub.revision = 0 /\ DefaultConfig.ack = 0
  BY DEF DefaultConfig, NotPublished
<1> QED BY <1>1, <1>2, <1>3, <1>4, <1>5, <1>6, <1>7, <1>8, Bounds DEF Valid

\* Validity looks at the actions, the table and the acknowledgement only.
LEMMA ValidAlike ==
  ASSUME NEW c \in Config, NEW d \in Config, Valid(c),
         d.actions = c.actions, d.actRev = c.actRev, d.pub = c.pub,
         d.ack = c.ack \/ d.ack = d.pub.revision
  PROVE  Valid(d)
<1>1. Voiced(d) = Voiced(c) /\ Spoken(d) = Spoken(c)
  BY DEF Voiced, Spoken
<1>2. Commands(d, Voiced(d)) = Commands(c, Voiced(c))
  BY <1>1 DEF Commands
<1>3. d.host \in LocalHosts /\ d.pub.revision <= d.pub.revision
  <2>1. d.pub.revision \in Nat /\ d.host \in LocalHosts
    BY ConfigFields
  <2> QED BY <2>1
<1>4. d.ack # 0 => d.pub.revision # 0 /\ d.ack <= d.pub.revision
  BY <1>3 DEF Valid
<1> QED BY <1>1, <1>2, <1>3, <1>4 DEF Valid

\* The edits of the operations keep a configuration.
LEMMA EditsTyped ==
  ASSUME NEW c \in Config
  PROVE  /\ \A b \in BOOLEAN : [c EXCEPT !.listener = b] \in Config
         /\ \A b \in BOOLEAN : [c EXCEPT !.start = b] \in Config
         /\ \A h \in LocalHosts : [c EXCEPT !.host = h] \in Config
         /\ \A r \in 0 .. MaxRevision : [c EXCEPT !.ack = r] \in Config
         /\ \A acts \in ActionLists : c.actRev < MaxRevision => WithActions(c, acts) \in Config
<1>1. ASSUME NEW acts \in ActionLists, c.actRev < MaxRevision PROVE WithActions(c, acts) \in Config
  <2>1. c.actRev + 1 \in 0 .. MaxRevision
    BY <1>1, ConfigAssumption DEF Config
  <2> QED BY <2>1 DEF Config, WithActions
<1> QED BY <1>1 DEF Config

\* publish_voice_config makes a configuration out of one: every command it
\* publishes has a phrase.
LEMMA PublishTyped ==
  ASSUME NEW c \in Config, c.pub.revision < MaxRevision
  PROVE  Published(c) \in Config
<1>1. ASSUME NEW a \in Spoken(c) PROVE [phrase |-> c.actions[a].phrase, action |-> a] \in VoiceCommand
  <2>1. a \in DOMAIN c.actions /\ c.actions[a].phrase # NoPhrase
    BY DEF Spoken, Voiced
  <2>2. c.actions \in ActionLists
    BY <2>1 DEF Config, DefaultConfig
  <2>3. a \in ActionIds /\ c.actions[a] \in Action
    BY <2>1, <2>2, RuntimeAssumption
  <2> QED BY <2>1, <2>3 DEF Action, VoiceCommand
<1>2. Commands(c, Spoken(c)) \in SUBSET VoiceCommand
  BY <1>1 DEF Commands
<1>3. c.pub.revision + 1 \in 0 .. MaxRevision /\ c.actRev \in 0 .. MaxRevision
  BY ConfigAssumption DEF Config
<1> QED BY <1>2, <1>3 DEF Published, Config

\* What Alike says of two configurations.
LEMMA AlikeOK ==
  ASSUME NEW c \in Config
  PROVE  /\ Alike(c, c) /\ c.ack >= c.ack
         /\ \A r \in 0 .. MaxRevision : Alike([c EXCEPT !.ack = r], c)
         /\ \A d \in Config : Alike(d, c) => d.pub = c.pub
<1>1. c.ack \in Nat
  BY ConfigFields
<1>2. c.ack >= c.ack
  BY <1>1
<1>3. Alike(c, c) /\ \A r \in 0 .. MaxRevision : Alike([c EXCEPT !.ack = r], c)
  BY DEF Alike, Config
<1>4. \A d \in Config : Alike(d, c) => d.pub = c.pub
  BY DEF Alike, Config
<1> QED BY <1>2, <1>3, <1>4

\* Every edit of a valid configuration makes a candidate.
LEMMA CandidateEdits ==
  ASSUME NEW m \in Config, Valid(m), NEW name \in Editors \ {"ack"}
  PROVE  /\ CandidateOK(name, m, m)
         /\ \A b \in BOOLEAN : CandidateOK(name, [m EXCEPT !.listener = b], m)
         /\ \A b \in BOOLEAN : CandidateOK(name, [m EXCEPT !.start = b], m)
<1>r. m.ack \in Nat /\ m.ack >= m.ack
  <2>1. m.ack \in Nat
    BY ConfigFields
  <2> QED BY <2>1
<1>n. name # "reconfigure" /\ name # "ack"
  BY DEF Editors
<1>1. CandidateOK(name, m, m)
  BY <1>r, <1>n DEF CandidateOK
<1>2. ASSUME NEW d \in Config,
             d.host = m.host, d.actions = m.actions, d.actRev = m.actRev, d.pub = m.pub, d.ack = m.ack
      PROVE  CandidateOK(name, d, m)
  <2>1. Valid(d)
    BY <1>2, ValidAlike
  <2> QED BY <1>2, <1>r, <1>n, <2>1 DEF CandidateOK
<1>3. ASSUME NEW b \in BOOLEAN PROVE CandidateOK(name, [m EXCEPT !.listener = b], m)
  <2>1. [m EXCEPT !.listener = b] \in Config
    BY EditsTyped
  <2> QED BY <1>2, <2>1 DEF Config
<1>4. ASSUME NEW b \in BOOLEAN PROVE CandidateOK(name, [m EXCEPT !.start = b], m)
  <2>1. [m EXCEPT !.start = b] \in Config
    BY EditsTyped
  <2> QED BY <1>2, <2>1 DEF Config
<1> QED BY <1>1, <1>3, <1>4

\* The candidates of save_actions and apply_voice_config, which validate them.
LEMMA CandidateTable ==
  ASSUME NEW m \in Config, NEW name \in {"actions", "apply"}
  PROVE  /\ \A acts : Valid(WithActions(m, acts)) => CandidateOK(name, WithActions(m, acts), m)
         /\ Valid(Published(m)) => CandidateOK(name, Published(m), m)
<1>1. m.ack \in Nat /\ m.pub.revision \in Nat
  BY ConfigFields
<1>2. m.ack >= m.ack /\ m.pub.revision + 1 > m.pub.revision
  BY <1>1
<1>3. \A acts : WithActions(m, acts).host = m.host /\ WithActions(m, acts).ack = m.ack
                /\ WithActions(m, acts).pub = m.pub
  BY DEF WithActions, Config
<1>4. Published(m).host = m.host /\ Published(m).ack = m.ack
        /\ Published(m).pub.revision = m.pub.revision + 1
  BY DEF Published, Config
<1> QED BY <1>2, <1>3, <1>4 DEF CandidateOK

\* The candidate of reconfigure, which validates it.
LEMMA CandidateHost ==
  ASSUME NEW m \in Config, NEW host \in LocalHosts, Valid([m EXCEPT !.host = host])
  PROVE  CandidateOK("reconfigure", [m EXCEPT !.host = host], m)
<1>1. m.ack \in Nat
  BY ConfigFields
<1>2. m.ack >= m.ack
  BY <1>1
<1>3. [m EXCEPT !.host = host].ack = m.ack /\ [m EXCEPT !.host = host].pub = m.pub
  BY DEF Config
<1> QED BY <1>2, <1>3 DEF CandidateOK

\* The candidate of an acknowledgement: it never goes back.
LEMMA CandidateAck ==
  ASSUME NEW m \in Config, Valid(m), NEW rev \in 1 .. MaxRevision, m.pub.revision = rev
  PROVE  CandidateOK("ack", [m EXCEPT !.ack = rev], m)
<1> DEFINE d == [m EXCEPT !.ack = rev]
<1>0. rev \in 0 .. MaxRevision /\ m.ack \in Nat /\ rev \in Nat
  BY ConfigFields
<1>1. d \in Config /\ Alike(d, m)
  BY <1>0, EditsTyped, AlikeOK
<1>2. d.host = m.host /\ d.actions = m.actions /\ d.actRev = m.actRev /\ d.pub = m.pub /\ d.ack = rev
  BY DEF Config
<1> HIDE DEF d
<1>3. Valid(d)
  BY <1>1, <1>2, ValidAlike
<1>4. rev >= m.ack
  BY <1>0 DEF Valid
<1> QED BY <1>1, <1>2, <1>3, <1>4 DEF CandidateOK, d

\* A bind that failed only pauses the candidate.
LEMMA CandidatePaused ==
  ASSUME NEW c \in Config, NEW m \in Config, CandidateOK("on", c, m)
  PROVE  CandidateOK("on", [c EXCEPT !.listener = FALSE], m)
<1> DEFINE d == [c EXCEPT !.listener = FALSE]
<1>1. d \in Config
  BY EditsTyped
<1>2. d.host = c.host /\ d.actions = c.actions /\ d.actRev = c.actRev /\ d.pub = c.pub /\ d.ack = c.ack
  BY DEF Config
<1> HIDE DEF d
<1>3. Valid(d)
  BY <1>1, <1>2, ValidAlike DEF CandidateOK
<1> QED BY <1>2, <1>3 DEF CandidateOK, d

-----------------------------------------------------------------------------
(* Secrets and load() *)

\* What new_secrets and rotate_tls make, and that rotate_tls keeps the token.
LEMMA SecretsMade ==
  ASSUME NEW sec \in Secrets, NEW host \in LocalHosts, NEW g \in Nat
  PROVE  /\ NewSecrets(host, g + 1) \in Secrets /\ RotateTls(sec, host, g + 1) \in Secrets
         /\ NewSecrets(host, g + 1).host = host /\ RotateTls(sec, host, g + 1).host = host
         /\ RotateTls(sec, host, g + 1).token = sec.token
<1>1. g + 1 \in Nat
  OBVIOUS
<1>2. NewSecrets(host, g + 1) \in Secrets /\ NewSecrets(host, g + 1).host = host
  BY <1>1 DEF Secrets, NewSecrets
<1>3. RotateTls(sec, host, g + 1) \in Secrets
  BY <1>1 DEF Secrets, RotateTls
<1>4. RotateTls(sec, host, g + 1).host = host /\ RotateTls(sec, host, g + 1).token = sec.token
  BY DEF Secrets, RotateTls
<1> QED BY <1>2, <1>3, <1>4

\* start_listener binds with secrets.
LEMMA ListenerTyped ==
  ASSUME NEW c \in Config, secMem \in Secrets
  PROVE  ListenerFor(c) \in Secrets
<1>1. c.host \in LocalHosts
  BY ConfigFields
<1> QED BY <1>1 DEF Secrets, ListenerFor

\* load() continues with a valid configuration.
LEMMA LoadedConfigOK ==
  ASSUME Types, disk # NoFile => Valid(disk), NEW bad \in BOOLEAN
  PROVE  LoadedConfig(bad) \in Config /\ Valid(LoadedConfig(bad))
BY DefaultOK DEF LoadedConfig, Types

\* load() continues with secrets for the configured host, and with the old token
\* if it could use the file.
LEMMA LoadedOK ==
  ASSUME Types, NEW c \in Config, NEW bad \in BOOLEAN
  PROVE  /\ LoadedSecrets(c, bad) \in Secrets /\ LoadedSecrets(c, bad).host = c.host
         /\ secDisk # NoFile /\ ~bad => LoadedSecrets(c, bad).token = secDisk.token
<1>1. c.host \in LocalHosts
  BY ConfigFields
<1>2. CASE secDisk = NoFile \/ bad
  BY <1>1, <1>2, SecretsMade DEF LoadedSecrets, Types
<1>3. CASE secDisk # NoFile /\ ~bad
  BY <1>1, <1>3, SecretsMade DEF LoadedSecrets, Types
<1> QED BY <1>2, <1>3

\* What a completed load() does, without its LET.
LEMMA LoadUp ==
  ASSUME NEW bc \in BOOLEAN, NEW bs \in BOOLEAN, LoadWith(bc, bs)
  PROVE  /\ ~up /\ up' /\ up' = TRUE
         /\ mem' = LoadedConfig(bc) /\ disp' = LoadedConfig(bc) /\ cand' = LoadedConfig(bc)
         /\ disk' = IF disk = NoFile THEN LoadedConfig(bc) ELSE disk
         /\ secMem' = LoadedSecrets(LoadedConfig(bc), bs) /\ secDisk' = LoadedSecrets(LoadedConfig(bc), bs)
         /\ gen' \in {gen, gen + 1}
         /\ UNCHANGED <<prevSec, run, listener, reading, served, acked>>
         /\ op' = Idle \/ (op' = At("on", "bind") /\ LoadedConfig(bc).listener)
         /\ fell' = bc /\ unread' = bs /\ (bc => disk # NoFile)
BY DEF LoadWith, FileAfterLoad

-----------------------------------------------------------------------------
(* Every step keeps every layer *)

\* Every step keeps the types.
LEMMA TypesStep ==
  ASSUME RuntimeInd, Next
  PROVE  Types'
<1> USE DEF Types, confVars, secVars, histVars, Return
<1>t. Types
  BY DEF RuntimeInd
<1>h. mem.host \in LocalHosts
  BY <1>t, ConfigFields
<1>1. CASE SaveConfig
  <2>1. run' \in BOOLEAN
    BY <1>1, <1>t, ConfigFields DEF SaveConfig
  <2> QED BY <1>1, <1>t, <2>1 DEF SaveConfig, WriteFile
<1>2. CASE ReplaceConfig \/ Commit
  BY <1>2, <1>t DEF ReplaceConfig, Commit
<1>3. CASE BindListener
  BY <1>3, <1>t, EditsTyped DEF BindListener
<1>4. CASE SaveListening \/ StopListener \/ RotateBegin
  BY <1>4, <1>t, ListenerTyped DEF SaveListening, WriteFile, StopListener, RotateBegin
<1>5. CASE RotateNew
  BY <1>5, <1>t, <1>h, SecretsMade DEF RotateNew
<1>6. CASE RotateSave \/ ReconfigureSaveTls \/ ReconfigureSaveHost
  BY <1>6, <1>t DEF RotateSave, ReconfigureSaveTls, ReconfigureSaveHost, WriteFile
<1>7. CASE RotateRestart
  BY <1>7, <1>t, ListenerTyped, EditsTyped DEF RotateRestart
<1>8. ASSUME NEW acts \in ActionLists, SaveActions(acts) PROVE Types'
  BY <1>8, <1>t, EditsTyped DEF SaveActions, Edit
<1>9. CASE ApplyVoiceConfig
  BY <1>9, <1>t, PublishTyped DEF ApplyVoiceConfig, Edit
<1>10. ASSUME NEW b \in BOOLEAN, SetStartAfterLogin(b) \/ SetListener(b) PROVE Types'
  BY <1>10, <1>t, EditsTyped DEF SetStartAfterLogin, SetListener, Edit
<1>11. ASSUME NEW h \in LocalHosts, Reconfigure(h) PROVE Types'
  BY <1>11, <1>t, EditsTyped, SecretsMade DEF Reconfigure
<1>12. ASSUME NEW rev \in 1 .. MaxRevision, VoiceConfigAck(rev) PROVE Types'
  <2>1. rev \in 0 .. MaxRevision
    OBVIOUS
  <2> QED BY <1>12, <1>t, <2>1, EditsTyped DEF VoiceConfigAck, Edit
<1>13. CASE FetchVoiceConfig \/ AckTimeout \/ DispatchBegin \/ DispatchEnd
  BY <1>13, <1>t DEF FetchVoiceConfig, AckTimeout, DispatchBegin, DispatchEnd
<1>14. CASE Stop
  <2>1. NewSecrets(Loopback, 0) \in Secrets
    BY Bounds DEF NewSecrets, Secrets
  <2> QED BY <1>14, <1>t, <2>1, DefaultOK DEF Stop, Blank
<1>15. ASSUME NEW bc \in BOOLEAN, NEW bs \in BOOLEAN, LoadWith(bc, bs) PROVE Types'
  <2>1. LoadedConfig(bc) \in Config
    BY <1>t, LoadedConfigOK DEF RuntimeInd, Copies
  <2>2. LoadedSecrets(LoadedConfig(bc), bs) \in Secrets
    BY <1>t, <2>1, LoadedOK
  <2>3. gen' = gen \/ gen' = gen + 1
    BY <1>15, LoadUp
  <2>4. gen' \in Nat
    BY <1>t, <2>3
  <2>5. mem' \in Config /\ disp' \in Config /\ cand' \in Config /\ disk' \in Config
    BY <1>15, <1>t, <2>1, LoadUp
  <2>6. secMem' \in Secrets /\ secDisk' \in Secrets
    BY <1>15, <2>2, LoadUp
  <2>7. up' \in BOOLEAN /\ fell' \in BOOLEAN /\ unread' \in BOOLEAN
    BY <1>15, LoadUp
  <2>8. UNCHANGED <<prevSec, run, listener, reading>>
    BY <1>15, LoadUp
  <2> QED BY <1>t, <2>4, <2>5, <2>6, <2>7, <2>8
<1>16. CASE LoadFails
  BY <1>16, <1>t, DefaultOK DEF LoadFails, LoadedConfig
<1> HIDE DEF Types
<1> QED
  BY <1>1, <1>2, <1>3, <1>4, <1>5, <1>6, <1>7, <1>8, <1>9, <1>10, <1>11, <1>12, <1>13, <1>14, <1>15, <1>16
  DEF Next, Proceed, Begin, Load

\* Every step leaves a possible operation, and the files exist while it runs.
LEMMA OpStep ==
  ASSUME RuntimeInd, Next
  PROVE  OpOK'
<1> USE DEF OpOK, confVars, secVars, histVars, Return, Idle, At, Running, Editors, Rotating
<1>t. Types /\ OpOK
  BY DEF RuntimeInd
<1>n. \A c \in Config : c # NoFile
  BY RuntimeAssumption
<1>s. \A c \in Secrets : c # NoFile
  BY RuntimeAssumption
<1>1. CASE SaveConfig
  BY <1>1, <1>t, <1>n DEF SaveConfig, WriteFile, Types
<1>2. CASE ReplaceConfig \/ Commit
  BY <1>2, <1>t DEF ReplaceConfig, Commit
<1>3. CASE BindListener
  BY <1>3, <1>t DEF BindListener
<1>4. CASE SaveListening
  BY <1>4, <1>t, <1>n DEF SaveListening, WriteFile, Types
<1>5. CASE StopListener \/ RotateBegin
  BY <1>5, <1>t DEF StopListener, RotateBegin
<1>6. CASE RotateNew
  BY <1>6, <1>t DEF RotateNew
<1>7. CASE RotateSave
  BY <1>7, <1>t, <1>s DEF RotateSave, Types
<1>8. CASE ReconfigureSaveTls
  BY <1>8, <1>t, <1>s DEF ReconfigureSaveTls, Types
<1>9. CASE ReconfigureSaveHost
  BY <1>9, <1>t, <1>n, <1>s DEF ReconfigureSaveHost, WriteFile, Types
<1>10. CASE RotateRestart
  BY <1>10, <1>t DEF RotateRestart
<1>11. ASSUME NEW acts \in ActionLists, SaveActions(acts) PROVE OpOK'
  BY <1>11, <1>t DEF SaveActions, Edit
<1>12. CASE ApplyVoiceConfig
  BY <1>12, <1>t DEF ApplyVoiceConfig, Edit
<1>13. ASSUME NEW b \in BOOLEAN, SetStartAfterLogin(b) \/ SetListener(b) PROVE OpOK'
  BY <1>13, <1>t DEF SetStartAfterLogin, SetListener, Edit
<1>14. ASSUME NEW h \in LocalHosts, Reconfigure(h) PROVE OpOK'
  BY <1>14, <1>t DEF Reconfigure
<1>15. ASSUME NEW rev \in 1 .. MaxRevision, VoiceConfigAck(rev) PROVE OpOK'
  BY <1>15, <1>t DEF VoiceConfigAck, Edit
<1>16. CASE FetchVoiceConfig \/ AckTimeout \/ DispatchBegin \/ DispatchEnd \/ Stop
  BY <1>16, <1>t DEF FetchVoiceConfig, AckTimeout, DispatchBegin, DispatchEnd, Stop
<1>17. ASSUME NEW bc \in BOOLEAN, NEW bs \in BOOLEAN, LoadWith(bc, bs) PROVE OpOK'
  <2>1. LoadedConfig(bc) \in Config
    BY <1>t, LoadedConfigOK DEF RuntimeInd, Copies
  <2>2. LoadedSecrets(LoadedConfig(bc), bs) \in Secrets
    BY <1>t, <2>1, LoadedOK
  <2>3. disk' # NoFile /\ secDisk' # NoFile
    BY <1>17, <1>n, <1>s, <2>1, <2>2, LoadUp
  <2>4. op' = Idle \/ op' = At("on", "bind")
    BY <1>17, LoadUp
  <2>5. up'
    BY <1>17, LoadUp
  <2> QED BY <2>3, <2>4, <2>5
<1>18. CASE LoadFails
  BY <1>18, <1>t DEF LoadFails
<1> HIDE DEF OpOK
<1> QED
  BY <1>1, <1>2, <1>3, <1>4, <1>5, <1>6, <1>7, <1>8, <1>9, <1>10, <1>11, <1>12, <1>13, <1>14,
     <1>15, <1>16, <1>17, <1>18
  DEF Next, Proceed, Begin, Load

\* Every step keeps track of where the candidate has arrived.
LEMMA CopiesStep ==
  ASSUME RuntimeInd, Next
  PROVE  Copies'
<1> USE DEF Copies, confVars, secVars, histVars, Return, Idle, At, Editing, Rotating
<1>t. Types /\ OpOK /\ Copies
  BY DEF RuntimeInd
<1>1. CASE SaveConfig
  <2>1. Valid(cand) /\ up /\ Editing /\ op.name # "none"
    BY <1>1, <1>t DEF SaveConfig, OpOK, CandidateOK, Editors
  <2> QED BY <1>1, <1>t, <2>1 DEF SaveConfig, WriteFile, OpOK
<1>2. CASE ReplaceConfig
  BY <1>2, <1>t DEF ReplaceConfig, OpOK
<1>3. CASE Commit
  <2>1. Alike(cand, cand) /\ cand.ack >= cand.ack /\ Valid(cand) /\ disk = cand /\ disp = cand
    BY <1>3, <1>t, AlikeOK DEF Commit, Types, CandidateOK, OpOK
  <2> QED BY <1>3, <1>t, <2>1 DEF Commit
<1>4. CASE BindListener
  <2>1. Editing /\ CandidateOK("on", cand, mem)
    BY <1>4, <1>t DEF BindListener
  <2>2. CandidateOK("on", [cand EXCEPT !.listener = FALSE], mem)
    BY <1>t, <2>1, CandidatePaused DEF Types
  <2>3. CASE op' = At("on", "save") /\ cand' = [cand EXCEPT !.listener = FALSE]
    BY <1>4, <1>t, <2>2, <2>3 DEF BindListener
  <2>4. CASE op' = At("on", "save_on") /\ cand' = cand
    BY <1>4, <1>t, <2>1, <2>4 DEF BindListener
  <2> QED BY <1>4, <2>3, <2>4 DEF BindListener
<1>5. CASE SaveListening
  <2>1. Valid(cand) /\ CandidateOK("on", cand, mem)
    BY <1>5, <1>t DEF SaveListening, CandidateOK
  <2> QED BY <1>5, <1>t, <2>1 DEF SaveListening, WriteFile
<1>6. CASE StopListener \/ RotateBegin
  BY <1>6, <1>t DEF StopListener, RotateBegin
<1>7. CASE RotateNew \/ RotateSave
  BY <1>7, <1>t DEF RotateNew, RotateSave, OpOK
<1>8. CASE RotateRestart
  <2>1. CASE cand' = [mem EXCEPT !.listener = FALSE] /\ op' = [op EXCEPT !.step = "save"]
             /\ op.name = "rotate_running" /\ op.step = "restart"
    <3>1. Valid(mem) /\ "rotate_running" \in Editors \ {"ack"} /\ up
      BY <1>t, <2>1 DEF OpOK, Editors
    <3>2. CandidateOK("rotate_running", cand', mem)
      BY <1>t, <2>1, <3>1, CandidateEdits DEF Types
    <3> QED BY <1>8, <1>t, <2>1, <3>1, <3>2 DEF RotateRestart, OpOK
  <2> QED BY <1>8, <1>t, <2>1 DEF RotateRestart
<1>9. CASE ReconfigureSaveTls
  BY <1>9, <1>t DEF ReconfigureSaveTls
<1>10. CASE ReconfigureSaveHost
  <2>1. Valid(cand) /\ CandidateOK("reconfigure", cand, mem)
    BY <1>10, <1>t DEF ReconfigureSaveHost, CandidateOK
  <2> QED BY <1>10, <1>t, <2>1 DEF ReconfigureSaveHost, WriteFile
<1>11. ASSUME NEW name \in Editors, NEW c, Edit(name, c), CandidateOK(name, c, mem) PROVE Copies'
  BY <1>11, <1>t DEF Edit, Editors
<1>12. ASSUME NEW acts \in ActionLists, SaveActions(acts) PROVE Copies'
  <2>1. CandidateOK("actions", WithActions(mem, acts), mem)
    BY <1>12, <1>t, CandidateTable DEF SaveActions, Types
  <2> QED BY <1>11, <1>12, <2>1 DEF SaveActions, Editors
<1>13. CASE ApplyVoiceConfig
  <2>1. CandidateOK("apply", Published(mem), mem)
    BY <1>13, <1>t, CandidateTable DEF ApplyVoiceConfig, Types
  <2> QED BY <1>11, <1>13, <2>1 DEF ApplyVoiceConfig, Editors
<1>14. ASSUME NEW b \in BOOLEAN, SetStartAfterLogin(b) PROVE Copies'
  <2>1. CandidateOK("start", [mem EXCEPT !.start = b], mem)
    BY <1>14, <1>t, CandidateEdits DEF SetStartAfterLogin, Edit, Types, Editors
  <2> QED BY <1>11, <1>14, <2>1 DEF SetStartAfterLogin, Editors
<1>15. ASSUME NEW b \in BOOLEAN, SetListener(b) PROVE Copies'
  <2>1. Valid(mem) /\ "on" \in Editors \ {"ack"} /\ "off" \in Editors \ {"ack"}
    BY <1>15, <1>t DEF SetListener, Editors
  <2>2. /\ CandidateOK("on", [mem EXCEPT !.listener = b], mem)
        /\ CandidateOK("off", [mem EXCEPT !.listener = b], mem)
    BY <1>t, <2>1, CandidateEdits DEF Types
  <2> QED BY <1>15, <1>t, <2>2 DEF SetListener
<1>16. ASSUME NEW h \in LocalHosts, Reconfigure(h) PROVE Copies'
  <2>1. CandidateOK("reconfigure", [mem EXCEPT !.host = h], mem)
    BY <1>16, <1>t, CandidateHost DEF Reconfigure, Types
  <2> QED BY <1>16, <1>t, <2>1 DEF Reconfigure
<1>17. ASSUME NEW rev \in 1 .. MaxRevision, VoiceConfigAck(rev) PROVE Copies'
  <2>1. CASE mem.ack = rev
    BY <1>17, <1>t, <2>1 DEF VoiceConfigAck
  <2>2. CASE mem.ack # rev
    <3>1. CandidateOK("ack", [mem EXCEPT !.ack = rev], mem)
      BY <1>17, <1>t, <2>2, CandidateAck DEF VoiceConfigAck, Edit, Types
    <3> QED BY <1>11, <1>17, <2>2, <3>1 DEF VoiceConfigAck, Editors
  <2> QED BY <2>1, <2>2
<1>18. CASE AckTimeout
  BY <1>18, <1>t DEF AckTimeout, CandidateOK
<1>19. CASE FetchVoiceConfig \/ DispatchBegin \/ DispatchEnd
  BY <1>19, <1>t DEF FetchVoiceConfig, DispatchBegin, DispatchEnd
<1>20. CASE Stop
  BY <1>20, <1>t DEF Stop
<1>21. ASSUME NEW bc \in BOOLEAN, NEW bs \in BOOLEAN, LoadWith(bc, bs) PROVE Copies'
  <2> DEFINE c == LoadedConfig(bc)
  <2>1. c \in Config /\ Valid(c)
    BY <1>t, LoadedConfigOK
  <2>2. CandidateOK("on", c, c) /\ Alike(c, c) /\ c.ack >= c.ack
    BY <2>1, CandidateEdits, AlikeOK DEF Editors
  <2>3. /\ mem' = c /\ disp' = c /\ cand' = c /\ disk' = IF disk = NoFile THEN c ELSE disk
        /\ op' = Idle \/ op' = At("on", "bind")
        /\ fell' = bc
    BY <1>21, LoadUp
  <2>4. ~bc => disk' = c
    BY <2>3 DEF LoadedConfig
  <2>5. bc => c = DefaultConfig
    BY DEF LoadedConfig
  <2>6. Valid(disk')
    BY <1>t, <2>1, <2>3
  <2> HIDE DEF c
  <2>7. op'.step \in {"idle", "bind"} /\ (op'.step = "bind" => op'.name = "on")
    BY <2>3
  <2>8. fell' => mem' = DefaultConfig
    BY <2>3, <2>5
  <2>9. ~fell' => Alike(disk', mem') /\ disk'.ack >= mem'.ack
    BY <2>2, <2>3, <2>4
  <2> QED BY <2>1, <2>2, <2>3, <2>6, <2>7, <2>8, <2>9
<1>22. CASE LoadFails
  BY <1>22, <1>t, DefaultOK DEF LoadFails, LoadedConfig, OpOK
<1> HIDE DEF Copies
<1> QED
  BY <1>1, <1>2, <1>3, <1>4, <1>5, <1>6, <1>7, <1>8, <1>9, <1>10, <1>12, <1>13, <1>14,
     <1>15, <1>16, <1>17, <1>18, <1>19, <1>20, <1>21, <1>22
  DEF Next, Proceed, Begin, Load

\* Every step keeps the secrets' hosts and tokens in order.
LEMMA CredsStep ==
  ASSUME RuntimeInd, Next
  PROVE  Creds'
<1> USE DEF Creds, confVars, secVars, histVars, Return, Idle, At, Rotating, Editors
<1>t. Types /\ OpOK /\ Copies /\ Creds
  BY DEF RuntimeInd
<1>m. mem \in Config /\ cand \in Config /\ secMem \in Secrets /\ gen \in Nat /\ mem.host \in LocalHosts
  BY <1>t, ConfigFields DEF Types
<1>c. up /\ Editing => (op.name # "reconfigure" => cand.host = mem.host)
  BY <1>t DEF Copies, CandidateOK
<1>1. CASE SaveConfig
  BY <1>1, <1>t DEF SaveConfig, OpOK
<1>2. CASE ReplaceConfig
  BY <1>2, <1>t DEF ReplaceConfig, OpOK
<1>3. CASE Commit
  BY <1>3, <1>t, <1>c DEF Commit, OpOK, Editing
<1>4. CASE BindListener \/ SaveListening
  BY <1>4, <1>t DEF BindListener, SaveListening
<1>5. CASE StopListener \/ RotateBegin
  BY <1>5, <1>t DEF StopListener, RotateBegin
<1>6. CASE RotateNew
  BY <1>6, <1>t, <1>m, SecretsMade DEF RotateNew, OpOK
<1>7. CASE RotateSave
  BY <1>7, <1>t DEF RotateSave, OpOK
<1>8. CASE RotateRestart
  BY <1>8, <1>t DEF RotateRestart, OpOK
<1>9. CASE ReconfigureSaveTls
  BY <1>9, <1>t DEF ReconfigureSaveTls, OpOK
<1>10. CASE ReconfigureSaveHost
  BY <1>10, <1>t DEF ReconfigureSaveHost, OpOK
<1>11. ASSUME NEW name \in Editors, NEW c, Edit(name, c) PROVE Creds'
  BY <1>11, <1>t DEF Edit
<1>12. CASE \E acts \in ActionLists : SaveActions(acts)
  BY <1>11, <1>12 DEF SaveActions
<1>13. CASE ApplyVoiceConfig
  BY <1>11, <1>13 DEF ApplyVoiceConfig
<1>14. ASSUME NEW b \in BOOLEAN, SetStartAfterLogin(b) \/ SetListener(b) PROVE Creds'
  <2>1. CASE SetStartAfterLogin(b)
    BY <1>11, <2>1 DEF SetStartAfterLogin
  <2>2. CASE SetListener(b)
    BY <1>t, <2>2 DEF SetListener
  <2> QED BY <1>14, <2>1, <2>2
<1>15. ASSUME NEW h \in LocalHosts, Reconfigure(h) PROVE Creds'
  <2>1. cand'.host = h /\ op' = At("reconfigure", "save_tls")
    BY <1>15, <1>m DEF Reconfigure, Config
  <2>2. secMem'.host = h /\ secMem'.token = secMem.token
    BY <1>15, <1>m, SecretsMade DEF Reconfigure
  <2>3. /\ secMem.host = mem.host /\ secMem.token = secDisk.token /\ prevSec' = secMem
        /\ mem' = mem /\ secDisk' = secDisk
    BY <1>15, <1>t DEF Reconfigure
  <2> QED BY <2>1, <2>2, <2>3
<1>16. ASSUME NEW rev \in 1 .. MaxRevision, VoiceConfigAck(rev) PROVE Creds'
  <2>1. CASE mem.ack = rev
    BY <1>16, <1>t, <2>1 DEF VoiceConfigAck
  <2>2. CASE mem.ack # rev
    BY <1>11, <1>16, <2>2 DEF VoiceConfigAck
  <2> QED BY <2>1, <2>2
<1>17. CASE AckTimeout \/ FetchVoiceConfig \/ DispatchBegin \/ DispatchEnd
  BY <1>17, <1>t DEF AckTimeout, FetchVoiceConfig, DispatchBegin, DispatchEnd
<1>18. CASE Stop
  BY <1>18, <1>t DEF Stop
<1>19. ASSUME NEW bc \in BOOLEAN, NEW bs \in BOOLEAN, LoadWith(bc, bs) PROVE Creds'
  <2>1. LoadedConfig(bc) \in Config
    BY <1>t, LoadedConfigOK DEF Copies
  <2>2. LoadedSecrets(LoadedConfig(bc), bs).host = LoadedConfig(bc).host
    BY <1>t, <2>1, LoadedOK
  <2>3. /\ mem' = LoadedConfig(bc) /\ secMem' = LoadedSecrets(LoadedConfig(bc), bs) /\ secDisk' = secMem'
        /\ op' = Idle \/ op' = At("on", "bind")
    BY <1>19, LoadUp
  <2> QED BY <2>2, <2>3
<1>20. CASE LoadFails
  BY <1>20, <1>t DEF LoadFails, OpOK
<1> HIDE DEF Creds
<1> QED
  BY <1>1, <1>2, <1>3, <1>4, <1>5, <1>6, <1>7, <1>8, <1>9, <1>10, <1>12, <1>13, <1>14,
     <1>15, <1>16, <1>17, <1>18, <1>19, <1>20
  DEF Next, Proceed, Begin, Load

\* Every step keeps the listener current.
LEMMA ListensStep ==
  ASSUME RuntimeInd, Next
  PROVE  Listens'
<1> USE DEF Listens, confVars, secVars, histVars, Return, Idle, At, Rotating, Editors, Editing, Running
<1>t. Types /\ OpOK /\ Copies /\ Listens
  BY DEF RuntimeInd
<1>m. mem \in Config /\ cand \in Config
  BY <1>t DEF Types
<1>c. up /\ Editing => (op.name # "reconfigure" => cand.host = mem.host)
  BY <1>t DEF Copies, CandidateOK
<1>1. CASE SaveConfig
  BY <1>1, <1>t DEF SaveConfig, OpOK, ListenerFor
<1>2. CASE ReplaceConfig
  BY <1>2, <1>t DEF ReplaceConfig, OpOK, ListenerFor
<1>3. CASE Commit
  BY <1>3, <1>t, <1>c DEF Commit, OpOK, ListenerFor
<1>4. CASE BindListener
  BY <1>4, <1>t DEF BindListener, ListenerFor
<1>5. CASE SaveListening
  <2>1. cand.listener /\ cand.host = mem.host /\ op.name = "on"
    BY <1>5, <1>t, <1>c DEF SaveListening, OpOK
  <2> QED BY <1>5, <1>t, <2>1 DEF SaveListening, ListenerFor
<1>6. CASE StopListener
  BY <1>6, <1>t DEF StopListener, ListenerFor
<1>7. CASE RotateBegin
  BY <1>7, <1>t DEF RotateBegin
<1>8. CASE RotateNew
  BY <1>8, <1>t DEF RotateNew, OpOK
<1>9. CASE RotateSave
  BY <1>9, <1>t DEF RotateSave, OpOK
<1>10. CASE RotateRestart
  BY <1>10, <1>t DEF RotateRestart, OpOK, ListenerFor
<1>11. CASE ReconfigureSaveTls
  BY <1>11, <1>t DEF ReconfigureSaveTls
<1>12. CASE ReconfigureSaveHost
  BY <1>12, <1>t DEF ReconfigureSaveHost
<1>13. ASSUME NEW name \in {"actions", "apply", "start", "ack"}, NEW c, Edit(name, c), c.listener = mem.listener
       PROVE  Listens'
  BY <1>13, <1>t DEF Edit, ListenerFor
<1>14. ASSUME NEW acts \in ActionLists, SaveActions(acts) PROVE Listens'
  <2>1. WithActions(mem, acts).listener = mem.listener
    BY <1>m DEF WithActions, Config
  <2> QED BY <1>13, <1>14, <2>1 DEF SaveActions
<1>15. CASE ApplyVoiceConfig
  <2>1. Published(mem).listener = mem.listener
    BY <1>m DEF Published, Config
  <2> QED BY <1>13, <1>15, <2>1 DEF ApplyVoiceConfig
<1>16. ASSUME NEW b \in BOOLEAN, SetStartAfterLogin(b) PROVE Listens'
  <2>1. [mem EXCEPT !.start = b].listener = mem.listener
    BY <1>m DEF Config
  <2> QED BY <1>13, <1>16, <2>1 DEF SetStartAfterLogin
<1>17. ASSUME NEW b \in BOOLEAN, SetListener(b) PROVE Listens'
  <2>1. [mem EXCEPT !.listener = b].listener = b
    BY <1>m DEF Config
  <2> QED BY <1>17, <1>t, <2>1 DEF SetListener, ListenerFor
<1>18. ASSUME NEW h \in LocalHosts, Reconfigure(h) PROVE Listens'
  BY <1>18, <1>t DEF Reconfigure
<1>19. ASSUME NEW rev \in 1 .. MaxRevision, VoiceConfigAck(rev) PROVE Listens'
  <2>1. [mem EXCEPT !.ack = rev].listener = mem.listener
    BY <1>m DEF Config
  <2>2. CASE mem.ack = rev
    BY <1>19, <1>t, <2>2 DEF VoiceConfigAck, ListenerFor
  <2>3. CASE mem.ack # rev
    BY <1>13, <1>19, <2>1, <2>3 DEF VoiceConfigAck
  <2> QED BY <2>2, <2>3
<1>20. CASE AckTimeout
  BY <1>20, <1>t DEF AckTimeout, ListenerFor
<1>21. CASE FetchVoiceConfig \/ DispatchBegin \/ DispatchEnd
  BY <1>21, <1>t DEF FetchVoiceConfig, DispatchBegin, DispatchEnd, ListenerFor
<1>22. CASE Stop
  BY <1>22, <1>t DEF Stop
<1>23. ASSUME NEW bc \in BOOLEAN, NEW bs \in BOOLEAN, LoadWith(bc, bs) PROVE Listens'
  <2>1. ~Running'
    BY <1>23, <1>t, LoadUp DEF OpOK
  <2>2. op' = Idle \/ (op' = At("on", "bind") /\ cand'.listener)
    BY <1>23, LoadUp
  <2> QED BY <2>1, <2>2
<1>24. CASE LoadFails
  BY <1>24, <1>t DEF LoadFails, OpOK
<1> HIDE DEF Listens
<1> QED
  BY <1>1, <1>2, <1>3, <1>4, <1>5, <1>6, <1>7, <1>8, <1>9, <1>10, <1>11, <1>12, <1>14,
     <1>15, <1>16, <1>17, <1>18, <1>19, <1>20, <1>21, <1>22, <1>23, <1>24
  DEF Next, Proceed, Begin, Load

\* A candidate names the tables memory names and keeps what it acknowledged.
LEMMA Carried ==
  ASSUME NEW c \in Config, NEW m \in Config, NEW name, CandidateOK(name, c, m), NamedBy(m), AckedBy(m)
  PROVE  NamedBy(c) /\ AckedBy(c)
<1>1. c.ack \in Nat /\ m.ack \in Nat /\ c.pub.revision \in Nat /\ m.pub.revision \in Nat
  BY ConfigFields
<1>2. c.ack >= m.ack /\ (c.pub = m.pub \/ c.pub.revision > m.pub.revision)
  BY DEF CandidateOK
<1>3. AckedBy(c)
  BY <1>1, <1>2 DEF AckedBy
<1>4. CASE c.pub = m.pub
  BY <1>3, <1>4 DEF NamedBy
<1>5. CASE c.pub.revision > m.pub.revision
  BY <1>1, <1>3, <1>5 DEF NamedBy
<1> QED BY <1>2, <1>3, <1>4, <1>5

\* While memory comes from the file, the file is level with it or ahead of it.
LEMMA DiskAhead ==
  ASSUME RuntimeInd, up, ~fell
  PROVE  disk.ack >= mem.ack /\ (disk.pub = mem.pub \/ disk.pub.revision > mem.pub.revision)
<1>t. Types /\ OpOK /\ Copies
  BY DEF RuntimeInd
<1>1. CASE op.step \in {"replace", "commit"}
  BY <1>1, <1>t DEF Copies, CandidateOK, Editing, Rotating
<1>2. CASE op.step \notin {"replace", "commit"}
  <2>1. Alike(disk, mem) /\ disk.ack >= mem.ack /\ disk \in Config /\ mem \in Config
    BY <1>2, <1>t DEF Copies, Types, OpOK
  <2> QED BY <2>1, AlikeOK
<1> QED BY <1>1, <1>2

\* The default configuration has no table: nothing is served or acknowledged
\* from it.
LEMMA DefaultSilent == ~TableCurrent(DefaultConfig)
BY DEF TableCurrent, DefaultConfig, NotPublished

\* Every step keeps the file and memory covering what the ESP was told.
LEMMA HistoryStep ==
  ASSUME RuntimeInd, Next
  PROVE  History'
<1>t. Types /\ OpOK /\ Copies /\ History
  BY DEF RuntimeInd
<1>m. mem \in Config /\ cand \in Config /\ (disk # NoFile => disk \in Config) /\ cand # NoFile
  BY <1>t, RuntimeAssumption DEF Types
<1>1. ASSUME disk' = disk, mem' = mem, served' = served, acked' = acked, fell' = fell, up' => up
      PROVE  History'
  BY <1>1, <1>t DEF History, NamedBy, AckedBy
<1>2. ASSUME WriteFile(cand), mem' = mem, up' = up, up, Editing
      PROVE  History'
  <2>1. CandidateOK(op.name, cand, mem)
    BY <1>2, <1>t DEF Copies
  <2>2. CASE fell
    <3>1. disk' = cand /\ served' = {} /\ acked' = {}
      BY <1>2, <2>2 DEF WriteFile
    <3> QED BY <1>m, <3>1 DEF History, NamedBy, AckedBy
  <2>3. CASE ~fell
    <3>1. disk' = cand /\ served' = served /\ acked' = acked
      BY <1>2, <2>3 DEF WriteFile
    <3>2. NamedBy(mem) /\ AckedBy(mem)
      BY <1>2, <1>t, <2>3 DEF History
    <3>3. NamedBy(cand) /\ AckedBy(cand)
      BY <1>m, <2>1, <3>2, Carried
    <3> QED BY <1>2, <1>m, <3>1, <3>2, <3>3 DEF History, NamedBy, AckedBy
  <2> QED BY <2>2, <2>3
<1> USE DEF confVars, secVars, histVars, Return, Idle, At, Rotating, Editing
<1>3. CASE SaveConfig
  BY <1>1, <1>2, <1>3, <1>t DEF SaveConfig, OpOK
<1>4. CASE SaveListening
  BY <1>1, <1>2, <1>4, <1>t DEF SaveListening, OpOK
<1>5. CASE ReconfigureSaveHost
  BY <1>1, <1>2, <1>5, <1>t DEF ReconfigureSaveHost, OpOK
<1>6. CASE ReplaceConfig
  BY <1>1, <1>6 DEF ReplaceConfig
<1>7. CASE Commit
  <2>0. up /\ disk = cand /\ ~fell
    BY <1>7, <1>t DEF Commit, Copies, OpOK
  <2>1. CandidateOK(op.name, cand, mem) /\ NamedBy(mem) /\ AckedBy(mem) /\ disk = cand /\ up
    BY <1>7, <1>t, <2>0 DEF Commit, Copies, History
  <2>2. NamedBy(cand) /\ AckedBy(cand)
    BY <1>m, <2>1, Carried
  <2>3. cand.ack \in Nat
    BY <1>m, ConfigFields
  <2>4. mem' = cand /\ disk' = cand /\ served' = served /\ acked' \subseteq acked \cup {cand.ack}
    BY <1>7, <2>1 DEF Commit
  <2>5. NamedBy(cand)'
    BY <1>7, <2>2 DEF NamedBy, Commit
  <2>6. \A r \in acked' : r \in Nat /\ cand.ack >= r
    BY <2>2, <2>3, <2>4 DEF AckedBy
  <2>7. NamedBy(disk)' /\ NamedBy(mem)'
    BY <2>2, <2>4 DEF NamedBy
  <2> QED BY <1>m, <2>4, <2>6, <2>7 DEF History, AckedBy
<1>8. CASE BindListener \/ StopListener \/ RotateBegin
  BY <1>1, <1>8 DEF BindListener, StopListener, RotateBegin
<1>9. CASE RotateNew \/ RotateSave \/ RotateRestart \/ ReconfigureSaveTls
  BY <1>1, <1>9 DEF RotateNew, RotateSave, RotateRestart, ReconfigureSaveTls
<1>10. CASE Begin
  BY <1>1, <1>8, <1>10
  DEF Begin, SaveActions, ApplyVoiceConfig, SetStartAfterLogin, SetListener, Reconfigure, Edit
<1>11. CASE FetchVoiceConfig
  <2>1. up /\ served' = served \cup {mem.pub} /\ UNCHANGED <<disk, mem, acked, up>> /\ ~fell
    BY <1>11, <1>t, DefaultSilent DEF FetchVoiceConfig, Copies
  <2>2. mem.pub.revision \in Nat /\ disk # NoFile /\ disk.pub.revision \in Nat
    BY <1>t, <1>m, <2>1, ConfigFields DEF OpOK
  <2>3. disk.pub = mem.pub \/ disk.pub.revision > mem.pub.revision
    BY <2>1, DiskAhead
  <2>4. NamedBy(disk)'
    BY <1>t, <2>1, <2>2, <2>3 DEF History, NamedBy
  <2>5. NamedBy(mem)'
    BY <1>t, <2>1, <2>2 DEF History, NamedBy
  <2> QED BY <1>t, <2>1, <2>2, <2>4, <2>5 DEF History, AckedBy
<1>12. ASSUME NEW rev \in 1 .. MaxRevision, VoiceConfigAck(rev) PROVE History'
  <2>1. CASE mem.ack = rev
    <3>1. up /\ acked' = acked \cup {rev} /\ UNCHANGED <<disk, mem, served, up>> /\ ~fell
      BY <1>12, <1>t, <2>1, DefaultSilent DEF VoiceConfigAck, Copies
    <3>2. disk.ack >= rev /\ disk # NoFile /\ rev \in Nat /\ mem.ack >= rev
      BY <1>t, <2>1, <3>1, DiskAhead DEF OpOK
    <3>3. AckedBy(disk)' /\ AckedBy(mem)'
      BY <1>t, <3>1, <3>2 DEF History, AckedBy
    <3> QED BY <1>t, <3>1, <3>2, <3>3 DEF History, NamedBy
  <2>2. CASE mem.ack # rev
    BY <1>1, <1>12, <2>2 DEF VoiceConfigAck, Edit
  <2> QED BY <2>1, <2>2
<1>13. CASE AckTimeout \/ DispatchBegin \/ DispatchEnd
  BY <1>1, <1>13 DEF AckTimeout, DispatchBegin, DispatchEnd
<1>14. CASE Stop
  <2>1. ~up' /\ disk' = disk /\ served' = served /\ acked' = acked
    BY <1>14 DEF Stop
  <2> QED BY <1>t, <2>1 DEF History, NamedBy, AckedBy
<1>15. ASSUME NEW bc \in BOOLEAN, NEW bs \in BOOLEAN, LoadWith(bc, bs) PROVE History'
  <2>1. LoadedConfig(bc) \in Config /\ LoadedConfig(bc) # NoFile
    BY <1>t, LoadedConfigOK, RuntimeAssumption DEF Copies
  <2>2. served' = served /\ acked' = acked /\ mem' = LoadedConfig(bc) /\ fell' = bc
    BY <1>15, LoadUp
  <2>3. CASE disk = NoFile
    <3>1. served' = {} /\ acked' = {} /\ disk' # NoFile
      BY <1>15, <1>t, <2>1, <2>2, <2>3, LoadUp DEF History
    <3> QED BY <3>1 DEF History, NamedBy, AckedBy
  <2>4. CASE disk # NoFile
    <3>1. disk' = disk /\ (~bc => mem' = disk)
      BY <1>15, <2>2, <2>4, LoadUp DEF LoadedConfig
    <3> QED BY <1>t, <2>2, <2>4, <3>1 DEF History, NamedBy, AckedBy
  <2> QED BY <2>3, <2>4
<1>16. CASE LoadFails
  <2>1. served' = {} /\ acked' = {} /\ disk' # NoFile /\ UNCHANGED <<up, mem, fell>>
    BY <1>16, <1>t, DefaultOK, RuntimeAssumption DEF LoadFails, LoadedConfig, History
  <2> QED BY <2>1 DEF History, NamedBy, AckedBy
<1> QED
  BY <1>3, <1>4, <1>5, <1>6, <1>7, <1>8, <1>9, <1>10, <1>11, <1>12, <1>13, <1>14, <1>15, <1>16
  DEF Next, Proceed, Load

\* Only GET /v1/voice-config adds a table, and memory covers the earlier ones;
\* only the first save after a load() that fell back forgets them.
LEMMA TablesStep ==
  ASSUME RuntimeInd, Next
  PROVE  RevisionNamesTable'
<1>1. served' = served \/ served' = {} \/ FetchVoiceConfig
  BY DEF Next, Proceed, Begin, SaveConfig, ReplaceConfig, Commit, BindListener, SaveListening, StopListener,
         RotateNew, RotateSave, RotateRestart, ReconfigureSaveTls, ReconfigureSaveHost, SaveActions,
         ApplyVoiceConfig, SetStartAfterLogin, SetListener, RotateBegin, Reconfigure, Edit, VoiceConfigAck,
         AckTimeout, DispatchBegin, DispatchEnd, Load, LoadFails, LoadWith, Stop, WriteFile, histVars
<1>2. CASE served' = served \/ served' = {}
  BY <1>2 DEF RuntimeInd, RevisionNamesTable
<1>3. CASE FetchVoiceConfig
  <2>1. up /\ served' = served \cup {mem.pub} /\ ~fell
    BY <1>3, DefaultSilent DEF FetchVoiceConfig, RuntimeInd, Copies
  <2>2. \A p \in served : p.revision = mem.pub.revision => p = mem.pub
    BY <2>1 DEF RuntimeInd, History, NamedBy
  <2> QED BY <2>1, <2>2 DEF RuntimeInd, RevisionNamesTable
<1> QED BY <1>1, <1>2, <1>3

-----------------------------------------------------------------------------

(* The theorems *)

\* The first start of the daemon.
LEMMA RuntimeInit == Init => RuntimeInd
<1> SUFFICES ASSUME Init PROVE RuntimeInd
  OBVIOUS
<1>1. NewSecrets(Loopback, 0) \in Secrets
  BY Bounds DEF NewSecrets, Secrets
<1>2. Types
  BY <1>1, DefaultOK DEF Init, Types
<1>3. OpOK
  BY DEF Init, OpOK, Idle, Running
<1>4. Copies /\ Creds /\ Listens
  BY DEF Init, Copies, Creds, Listens, Idle, Editing, Rotating, Running
<1>5. History
  BY DEF Init, History
<1>6. RevisionNamesTable
  BY DEF Init, RevisionNamesTable
<1> QED BY <1>2, <1>3, <1>4, <1>5, <1>6 DEF RuntimeInd

\* One step of the daemon.
LEMMA RuntimeNext == RuntimeInd /\ [Next]_vars => RuntimeInd'
<1> SUFFICES ASSUME RuntimeInd, [Next]_vars PROVE RuntimeInd'
  OBVIOUS
<1>1. CASE Next
  BY <1>1, TypesStep, OpStep, CopiesStep, CredsStep, ListensStep, HistoryStep, TablesStep DEF RuntimeInd
<1>2. CASE UNCHANGED vars
  <2> USE <1>2 DEF RuntimeInd, vars, confVars, secVars, histVars
  <2>1. Types' /\ OpOK'
    BY DEF Types, OpOK, Running
  <2>2. Copies' /\ Creds'
    BY DEF Copies, Creds, Editing
  <2>3. Listens'
    BY DEF Listens, Running, ListenerFor, Editing
  <2>4. History'
    BY DEF History, NamedBy, AckedBy
  <2>5. RevisionNamesTable'
    BY DEF RevisionNamesTable
  <2> QED BY <2>1, <2>2, <2>3, <2>4, <2>5
<1> QED BY <1>1, <1>2

\* RuntimeInd is an invariant.
LEMMA RuntimeAlways == Spec => []RuntimeInd
BY RuntimeInit, RuntimeNext, PTL DEF Spec

\* Between operations the dispatcher, memory and the file hold the same
\* configuration, and a running listener is bound to its address, with a
\* certificate for it and the current token, whichever saves, binds or waits
\* failed and wherever the process was stopped - but for the default
\* configuration a load() continues with when it cannot use the file.
THEOREM CopiesAlwaysAgree == Spec => []RuntimeInv
<1>1. RuntimeInd => RuntimeInv
  <2> SUFFICES ASSUME RuntimeInd PROVE RuntimeInv
    OBVIOUS
  <2>1. TypeOK
    BY DEF RuntimeInd, TypeOK, Types, Copies
  <2>2. CopiesAgree
    BY DEF RuntimeInd, Copies, CopiesAgree, Alike, Idle
  <2>3. ListenerCurrent
    BY DEF RuntimeInd, Listens, Creds, ListenerCurrent, Idle
  <2> QED BY <2>1, <2>2, <2>3 DEF RuntimeInv
<1> QED BY <1>1, RuntimeAlways, PTL

\* No two tables are ever served under one voice revision, across failed saves,
\* crashes, restarts and loads that fall back, unless what such a load() made
\* up replaced the file in between.
THEOREM RevisionsNameTables == Spec => []RevisionNamesTable
<1>1. RuntimeInd => RevisionNamesTable
  BY DEF RuntimeInd
<1> QED BY <1>1, RuntimeAlways, PTL

\* A revision answered "active" stays acknowledged in the file: no later save
\* of Settings, cancelled acknowledgement, crash or load() that falls back takes
\* it back; only a save made after such a load() does.
THEOREM AcksKept == Spec => []AcksDurable
<1>1. RuntimeInd => AcksDurable
  BY DEF RuntimeInd, History, AckedBy, AcksDurable
<1> QED BY <1>1, RuntimeAlways, PTL

\* The token in the file changes only where rotate_credentials saves its new
\* secrets and in a load() that cannot use the old ones: reconfigure, its failed
\* saves, and a load() that re-issues the certificate all keep it.
THEOREM TokenOnlyRotated == Spec => TokenKept
<1>1. ASSUME RuntimeInd, [Next]_vars, secDisk # NoFile, secDisk'.token # secDisk.token
      PROVE  op.step = "save_secrets" \/ (~up /\ up' /\ unread')
  <2>t. Types /\ OpOK /\ Copies /\ Creds
    BY <1>1 DEF RuntimeInd
  <2>1. secDisk' # secDisk
    BY <1>1
  <2>2. Load \/ RotateSave \/ ReconfigureSaveTls \/ ReconfigureSaveHost
    BY <1>1, <2>1
    DEF Next, Proceed, Begin, SaveConfig, ReplaceConfig, Commit, BindListener, SaveListening, StopListener,
        RotateNew, RotateRestart, SaveActions, ApplyVoiceConfig, SetStartAfterLogin, SetListener, RotateBegin,
        Reconfigure, Edit, VoiceConfigAck, FetchVoiceConfig, AckTimeout, DispatchBegin, DispatchEnd, Stop,
        vars, secVars
  <2>3. CASE Load
    <3>1. PICK bc \in BOOLEAN, bs \in BOOLEAN : LoadWith(bc, bs)
      BY <2>1, <2>3 DEF Load, LoadFails, secVars
    <3>2. LoadedConfig(bc) \in Config
      BY <2>t, LoadedConfigOK DEF Copies
    <3>3. ~bs => LoadedSecrets(LoadedConfig(bc), bs).token = secDisk.token
      BY <1>1, <2>t, <3>2, LoadedOK
    <3> QED BY <1>1, <3>1, <3>3, LoadUp
  <2>4. CASE RotateSave
    BY <2>4 DEF RotateSave
  <2>5. CASE ReconfigureSaveTls \/ ReconfigureSaveHost
    <3>1. up /\ prevSec.token = secDisk.token /\ secMem.token = secDisk.token
      BY <2>t, <2>5 DEF ReconfigureSaveTls, ReconfigureSaveHost, OpOK, Creds, At, Idle
    <3> QED BY <1>1, <2>5, <3>1 DEF ReconfigureSaveTls, ReconfigureSaveHost
  <2> QED BY <2>2, <2>3, <2>4, <2>5
<1> QED BY <1>1, RuntimeAlways, PTL DEF Spec, TokenKept

=============================================================================
