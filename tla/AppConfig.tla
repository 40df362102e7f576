----------------------------- MODULE AppConfig -----------------------------
(***************************************************************************)
(* The daemon's configuration value (daemon/src/config.rs) and the pure    *)
(* functions on it: validation, publishing a voice table, and the edits    *)
(* the Settings window makes.  A configuration is a record:                *)
(*                                                                         *)
(*   listener  listener_enabled                                            *)
(*   host      bind_address (the port always travels with it)              *)
(*   start     start_after_login                                           *)
(*   actions   the configured actions: action id -> [kind, enabled, phrase]*)
(*   actRev    actions_revision, bumped by every save of the actions       *)
(*   pub       published_voice; revision 0 stands for None                 *)
(*   ack       acknowledged_voice_revision; 0 stands for None              *)
(*                                                                         *)
(* Revision 0 is rejected by validate in both places, so the encoding of   *)
(* None is unambiguous.  Phrases are already lower-cased model values: the *)
(* character rules of validate_voice_command_drafts decide membership of   *)
(* Phrases, what is left here is uniqueness and the built-in words.        *)
(***************************************************************************)
EXTENDS Naturals, FiniteSets

CONSTANTS
  ActionIds,       \* identifiers a custom action may have
  Phrases,         \* phrases made of legal characters, lower-cased
  Reserved,        \* the built-in words among them
  NoPhrase,        \* the action has no spoken phrase
  LocalHosts,      \* private, loopback or link-local IPv4 addresses
  Loopback,        \* 127.0.0.1, the default bind address
  MaxActions,      \* MAX_ACTIONS
  MaxVoiceActions, \* MAX_VOICE_ACTIONS
  MaxRevision      \* u64::MAX, where checked_add gives up

ASSUME ConfigAssumption ==
  /\ Reserved \subseteq Phrases
  /\ NoPhrase \notin Phrases
  /\ Loopback \in LocalHosts
  /\ MaxActions \in Nat /\ MaxVoiceActions \in Nat /\ MaxRevision \in Nat

-----------------------------------------------------------------------------

\* Executor kinds of a configured action: Media, Launch, Launch with
\* run_as_admin, and the two script types (Batch and PowerShell).
ActionKind == {"media", "launch", "elevated", "script"}

Action == [kind: ActionKind, enabled: BOOLEAN, phrase: Phrases \cup {NoPhrase}]

VoiceCommand == [phrase: Phrases, action: ActionIds]

NotPublished == [revision |-> 0, actRev |-> 0, commands |-> {}]

\* AppConfig::default.
DefaultConfig ==
  [ listener |-> FALSE,
    host     |-> Loopback,
    start    |-> FALSE,
    actions  |-> [a \in {} |-> {}],
    actRev   |-> 0,
    pub      |-> NotPublished,
    ack      |-> 0 ]

-----------------------------------------------------------------------------

\* The voice command every action with a phrase would publish.
Commands(c, which) ==
  { [phrase |-> c.actions[a].phrase, action |-> a] : a \in which }

Voiced(c)  == { a \in DOMAIN c.actions : c.actions[a].phrase # NoPhrase }
Spoken(c)  == { a \in Voiced(c) : c.actions[a].enabled }

\* validate_voice_command_drafts: no built-in word, no phrase twice, no action
\* twice.
DraftsValid(commands) ==
  /\ \A v \in commands : v.phrase \notin Reserved
  /\ \A v, w \in commands :
       v.phrase = w.phrase \/ v.action = w.action => v = w

\* validate_voice_commands: the same, and no more than the firmware can hold.
CommandsValid(commands) ==
  /\ Cardinality(commands) <= MaxVoiceActions
  /\ DraftsValid(commands)

\* AppConfig::validate.
Valid(c) ==
  /\ c.host \in LocalHosts
  /\ Cardinality(DOMAIN c.actions) <= MaxActions
  /\ Cardinality(Spoken(c)) <= MaxVoiceActions
  /\ DraftsValid(Commands(c, Voiced(c)))
  /\ c.pub.revision # 0 =>
       /\ c.pub.actRev <= c.actRev
       /\ CommandsValid(c.pub.commands)
  /\ c.ack # 0 => c.pub.revision # 0 /\ c.ack <= c.pub.revision

\* The edit of save_actions: a new list of actions under the next revision.
WithActions(c, acts) ==
  [c EXCEPT !.actions = acts, !.actRev = @ + 1]

\* Faulty variant: publishing again keeps the revision.
PublishedSame(c) ==
  [c EXCEPT !.pub = [ revision |-> IF c.pub.revision = 0 THEN 1 ELSE c.pub.revision,
                      actRev   |-> c.actRev,
                      commands |-> Commands(c, Spoken(c)) ]]

\* publish_voice_config: the enabled actions that have a phrase, under the next
\* voice revision.  The acknowledgement is left as it was.
Published(c) ==
  [c EXCEPT !.pub = [ revision |-> c.pub.revision + 1,
                      actRev   |-> c.actRev,
                      commands |-> Commands(c, Spoken(c)) ]]

\* A published table is current while no action has been edited since.
TableCurrent(c) == c.pub.revision # 0 /\ c.pub.actRev = c.actRev

=============================================================================
