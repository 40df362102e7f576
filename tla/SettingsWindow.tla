--------------------------- MODULE SettingsWindow --------------------------
(***************************************************************************)
(* The Settings window (SettingsApp and UiSignals,                         *)
(* daemon/src/adapters/windows_app.rs) over its channel, and the daemon's  *)
(* end of it (dispatch_request, windows_management.rs).                    *)
(*                                                                         *)
(* The window draws from two kinds of state: SettingsClient.state, the     *)
(* copy of the daemon's state that any task replaces on any thread when    *)
(* its response comes, and its own fields - check boxes, drafts, pending   *)
(* flags, the token on the screen - which only the UI thread changes, when *)
(* the user acts and when it handles the event that a task queued at its   *)
(* end.  Between the two, and between a click and the request it spawns,   *)
(* anything may happen.                                                    *)
(*                                                                         *)
(* Actions are reduced to their phrase and their flag (Enabled stands for  *)
(* run_as_admin too); the text of the status line, the tabs, the address   *)
(* fields and the activity list are left out.  The two confirmation        *)
(* dialogs are part of the click they confirm: they ask, and change        *)
(* nothing else.                                                           *)
(***************************************************************************)
EXTENDS SettingsChannel

CONSTANTS
  Actions,      \* actions the user may have
  Phrases,      \* phrases the user may type
  NoPhrase,     \* the empty phrase
  Absent,       \* an action that is not configured
  NoToken,      \* no token on the screen
  NoPromise,    \* the user was told nothing
  FirstTable,   \* the daemon's actions when the window opens
  MaxClicks     \* bound of the model: what the user does

Entry == [phrase: Phrases \cup {NoPhrase}, enabled: BOOLEAN]

Table == [Actions -> Entry \cup {Absent}]

Flags == {"save", "listener", "apply", "startup", "refresh"}

\* Operations without a pending flag; "other" is test_action and reconfigure,
\* which are answered with the state and change nothing of it that is kept here.
Unflagged == {"other", "export", "reveal", "rotate"}

\* Call, as the window makes it.
Call == [by: Task, kind: Flags \cup Unflagged, arg: Table \cup BOOLEAN \cup {NoArg}, live: BOOLEAN]

\* The poll is task 0; the n-th act of the user spawns task n.
ASSUME WindowAssumption ==
  /\ MaxClicks \in Nat /\ Task = 0 .. MaxClicks
  /\ FirstTable \in Table
  /\ Absent \notin Entry /\ NoPromise \notin Entry \cup {Absent}
  /\ NoToken \notin Nat /\ NoCall \notin Call

VARIABLES
  open,       \* the window is there
  daemon,     \* the daemon's state: what a DaemonSnapshot holds, and voice_needs_apply
  token,      \* the daemon's API token, by generation
  view,       \* SettingsClient.state
  pending,    \* actions_pending, listener_pending, voice_apply_pending, startup_pending, refresh_pending
  checked,    \* the check boxes: listener_enabled, start_after_login
  drafts,     \* phrase_drafts
  shown,      \* pairing_token
  events,     \* UiSignals: events not yet handled
  clicks,     \* what the user has done so far, as a count
  typed,      \* history: actions whose draft the user has typed
  ahead,      \* history: for each task, those whose state came earlier and still waits
  overtaken,  \* history: tasks with a state where a later one was applied
  behind,     \* history: view is older than one it replaced
  blind,      \* history: the user acted on such a view, or the drafts were made from it
  promised,   \* history: what the user was told of each action
  late,       \* history: a save was reported as failed, whether or not it happens
  mixed,      \* history: a save was asked for while a publication was under way
  astray,     \* history: what was published is not what was on the screen
  crossed,    \* history: a token was asked for and rotated at the same time
  misread     \* history: a rotation was reported as failed

boxVars == <<pending, checked, drafts, shown>>
orderVars == <<ahead, overtaken, behind>>
storyVars == <<typed, blind, promised, late, mixed, astray, crossed, misread>>
windowVars == <<open, view, boxVars, events, clicks>>
vars == <<channelVars, windowVars, daemon, token, orderVars, storyVars>>

Configured(t) == { a \in Actions : t[a] # Absent }

\* candidate.validate(): no phrase twice.
ValidTable(t) ==
  \A a, b \in Configured(t) :
    a # b /\ t[a].phrase = t[b].phrase => t[a].phrase = NoPhrase

\* phrase_drafts as ActionsSaved and SettingsApp::new build it from a table.
DraftsOf(t) == [a \in Actions |-> IF t[a] = Absent THEN NoPhrase ELSE t[a].phrase]

PhrasesDirty == \E a \in Configured(view.table) : drafts[a] # view.table[a].phrase

\* A request of this kind is on its way: from the click to the event handled.
UnderWay(kind) ==
  \/ \E t \in Task : Busy(t) /\ task[t].kind = kind
  \/ \E i \in DOMAIN events : events[i].kind = kind
  \/ queue # NoCall /\ queue.kind = kind
  \/ worker # NoCall /\ worker.kind = kind

-----------------------------------------------------------------------------
(* The user *)

\* The user does something, which spawns a request.
Click(kind, arg) ==
  /\ open /\ clicks < MaxClicks
  /\ clicks' = clicks + 1
  /\ task' = Spawned(clicks', kind, arg)
  /\ pending' = pending \cup ({kind} \cap Flags)
  /\ UNCHANGED <<link, wireVars, open, daemon, token, view, shown, events, orderVars>>

\* save_actions, with a table made from the copy.  Every button that saves is
\* off while actions_pending is set.
SaveActions(table, touched) ==
  /\ "save" \notin pending
  /\ ValidTable(table)
  /\ Click("save", table)
  /\ promised' = [a \in Actions |-> IF a \in touched THEN NoPromise ELSE promised[a]]
  /\ blind' = (blind \/ behind)
  /\ mixed' = (mixed \/ UnderWay("apply"))
  /\ UNCHANGED <<checked, drafts, typed, late, astray, crossed, misread>>

\* add_action: one more than the copy has, from the form.
AddAction(a, phrase) ==
  /\ view.table[a] = Absent
  /\ SaveActions([view.table EXCEPT ![a] = [phrase |-> phrase, enabled |-> TRUE]], {a})

\* The Remove button.
RemoveAction(a) ==
  /\ view.table[a] # Absent
  /\ SaveActions([view.table EXCEPT ![a] = Absent], {a})

\* The Enabled and run_as_admin boxes of an action.
ToggleAction(a) ==
  /\ view.table[a] # Absent
  /\ SaveActions([view.table EXCEPT ![a].enabled = ~@], {a})

\* save_phrases: the copy with every phrase as drafted.
SavePhrases ==
  /\ PhrasesDirty
  /\ SaveActions([a \in Actions |-> IF view.table[a] = Absent THEN Absent
                                    ELSE [view.table[a] EXCEPT !.phrase = drafts[a]]],
                 { a \in Configured(view.table) : drafts[a] # view.table[a].phrase })

\* The user types a phrase.
TypePhrase(a, phrase) ==
  /\ open /\ clicks < MaxClicks
  /\ "save" \notin pending /\ view.table[a] # Absent /\ drafts[a] # phrase
  /\ clicks' = clicks + 1
  /\ drafts' = [drafts EXCEPT ![a] = phrase]
  /\ typed' = typed \cup {a}
  /\ UNCHANGED <<channelVars, open, daemon, token, view, pending, checked, shown, events,
                 orderVars, blind, promised, late, mixed, astray, crossed, misread>>

\* Faulty variant: a save under way does not keep Apply off.
ApplyVoiceConfigSaving ==
  /\ view.needsApply /\ ~PhrasesDirty
  /\ "apply" \notin pending
  /\ Click("apply", view.table)
  /\ blind' = (blind \/ behind)
  /\ UNCHANGED <<checked, drafts, typed, promised, late, mixed, astray, crossed, misread>>

\* Apply to ESP publishes what the daemon has when the request is served; the
\* argument is what was on the screen.  The button is on while no table was
\* published at the copy's actions_revision, also when the tables are the same.
ApplyVoiceConfig ==
  /\ view.needsApply /\ ~PhrasesDirty
  /\ pending \cap {"save", "apply"} = {}
  /\ Click("apply", view.table)
  /\ blind' = (blind \/ behind)
  /\ UNCHANGED <<checked, drafts, typed, promised, late, mixed, astray, crossed, misread>>

\* request_listener and set_startup: the box shows what was asked for at once.
ToggleBox(box) ==
  /\ box \notin pending
  /\ Click(box, ~checked[box])
  /\ checked' = [checked EXCEPT ![box] = ~@]
  /\ UNCHANGED <<drafts, storyVars>>

\* Test is on for an enabled action, Apply address while the listener shows as
\* paused.
OtherOn ==
  \/ "save" \notin pending /\ \E a \in Configured(view.table) : view.table[a].enabled
  \/ "listener" \notin pending /\ ~checked["listener"]

\* The buttons that export the CA, show the token or rotate it, test an action
\* or apply an address.
Press(kind) ==
  /\ kind = "other" => OtherOn
  /\ Click(kind, NoArg)
  /\ crossed' = (crossed \/ (kind = "reveal" /\ UnderWay("rotate"))
                         \/ (kind = "rotate" /\ UnderWay("reveal")))
  /\ UNCHANGED <<checked, drafts, typed, blind, promised, late, mixed, astray, misread>>

\* The window polls every two seconds; refresh_pending keeps a second poll away.
\* A poll has nothing to read between the timer and its call.
Refresh ==
  /\ open /\ "refresh" \notin pending
  /\ CallWorker(0, "refresh", NoArg)
  /\ pending' = pending \cup {"refresh"}
  /\ UNCHANGED <<open, daemon, token, view, checked, drafts, shown, events, clicks,
                 orderVars, storyVars>>

-----------------------------------------------------------------------------
(* The tasks *)

SubmitTask(t) ==
  /\ Submit(t)
  /\ UNCHANGED <<windowVars, daemon, token, orderVars, storyVars>>

TimeoutTask(t) ==
  /\ Timeout(t)
  /\ UNCHANGED <<windowVars, daemon, token, orderVars, storyVars>>

Ok(t) == At(t, "answered") /\ task[t].got.ok

\* The response carries a state (Snapshot, Applied, ActionCancelled).
HasState(t) == At(t, "answered") /\ task[t].kind \notin {"reveal", "export"} /\ task[t].got.ok

\* The event a task queues: a poll that met a full queue is none the worse, and
\* a listener that could not be changed is what the copy says.
EventOf(t, state) ==
  [ kind |-> task[t].kind,
    ok   |-> Ok(t) \/ (task[t].kind = "refresh" /\ At(t, "full")),
    val  |-> IF task[t].kind = "listener" THEN IF Ok(t) THEN task[t].arg ELSE state.listener
             ELSE IF task[t].kind = "reveal" /\ Ok(t) THEN task[t].got.token
             ELSE IF task[t].kind = "save" /\ Ok(t) THEN task[t].arg
             ELSE NoArg ]

\* Faulty variant: polls do not replace the state.
ResumeOps(t) ==
  /\ task[t].at \in {"answered", "full", "failed"}
  /\ view' = IF HasState(t) /\ t # 0 THEN task[t].got.state ELSE view
  /\ events' = Append(events, EventOf(t, view'))
  /\ task' = [task EXCEPT ![t] = NoTask]
  /\ ahead' = [u \in Task |-> IF u = t THEN {} ELSE ahead[u] \ {t}]
  /\ overtaken' = (overtaken \ {t}) \cup ahead[t]
  /\ behind' = IF HasState(t) THEN t \in overtaken ELSE behind
  /\ UNCHANGED <<link, wireVars, open, daemon, token, boxVars, clicks, storyVars>>

\* call_raw resumes: replace_state, and wake queues the event.
Resume(t) ==
  /\ task[t].at \in {"answered", "full", "failed"}
  /\ view' = IF HasState(t) THEN task[t].got.state ELSE view
  /\ events' = Append(events, EventOf(t, view'))
  /\ task' = [task EXCEPT ![t] = NoTask]
  /\ ahead' = [u \in Task |-> IF u = t THEN {} ELSE ahead[u] \ {t}]
  /\ overtaken' = (overtaken \ {t}) \cup ahead[t]
  /\ behind' = IF HasState(t) THEN t \in overtaken ELSE behind
  /\ UNCHANGED <<link, wireVars, open, daemon, token, boxVars, clicks, storyVars>>

-----------------------------------------------------------------------------
(* The UI thread: SettingsApp::update handles the queued events in turn *)

Event(kind) == open /\ events # <<>> /\ Head(events).kind = kind

Handled == events' = Tail(events)

\* ListenerState: the box shows what the task says.
OnListener ==
  /\ Event("listener") /\ Handled
  /\ pending' = pending \ {"listener"}
  /\ checked' = [checked EXCEPT !["listener"] = Head(events).val]
  /\ UNCHANGED <<channelVars, open, daemon, token, view, drafts, shown, clicks, orderVars, storyVars>>

\* Faulty variant: the drafts are left as they are.
OnSavedKeepsDrafts ==
  /\ Event("save") /\ Handled
  /\ pending' = pending \ {"save"}
  /\ IF Head(events).ok
     THEN /\ typed' = {}
          /\ blind' = (blind \/ behind)
          /\ promised' = Head(events).val
          /\ UNCHANGED <<drafts, late>>
     ELSE late' = TRUE /\ UNCHANGED <<drafts, typed, blind, promised>>
  /\ UNCHANGED <<channelVars, open, daemon, token, view, checked, shown, clicks, orderVars,
                 mixed, astray, crossed, misread>>

\* ActionsSaved: after a success all drafts are rebuilt from the copy, also
\* those the save was not about.
OnSaved ==
  /\ Event("save") /\ Handled
  /\ pending' = pending \ {"save"}
  /\ IF Head(events).ok
     THEN /\ drafts' = DraftsOf(view.table)
          /\ typed' = {}
          /\ blind' = (blind \/ behind)
          /\ promised' = Head(events).val
          /\ UNCHANGED late
     ELSE late' = TRUE /\ UNCHANGED <<drafts, typed, blind, promised>>
  /\ UNCHANGED <<channelVars, open, daemon, token, view, checked, shown, clicks, orderVars,
                 mixed, astray, crossed, misread>>

\* VoiceConfigApplied.
OnApplied ==
  /\ Event("apply") /\ Handled
  /\ pending' = pending \ {"apply"}
  /\ UNCHANGED <<channelVars, open, daemon, token, view, checked, drafts, shown, clicks, orderVars,
                 storyVars>>

\* StartupState: the box shows the copy.
OnStartup ==
  /\ Event("startup") /\ Handled
  /\ pending' = pending \ {"startup"}
  /\ checked' = [checked EXCEPT !["startup"] = view.startup]
  /\ UNCHANGED <<channelVars, open, daemon, token, view, drafts, shown, clicks, orderVars, storyVars>>

\* Faulty variant: the token stays on the screen.
OnRotatedKeeps ==
  /\ Event("rotate") /\ Handled
  /\ checked' = [checked EXCEPT !["listener"] = view.listener]
  /\ misread' = (misread \/ ~Head(events).ok)
  /\ UNCHANGED <<channelVars, open, daemon, token, view, pending, drafts, shown, clicks, orderVars,
                 typed, blind, promised, late, mixed, astray, crossed>>

\* CredentialsRotated: the token on the screen is no longer good.
OnRotated ==
  /\ Event("rotate") /\ Handled
  /\ shown' = IF Head(events).ok THEN NoToken ELSE shown
  /\ checked' = [checked EXCEPT !["listener"] = view.listener]
  /\ misread' = (misread \/ ~Head(events).ok)
  /\ UNCHANGED <<channelVars, open, daemon, token, view, pending, drafts, clicks, orderVars,
                 typed, blind, promised, late, mixed, astray, crossed>>

\* PairingToken.
OnRevealed ==
  /\ Event("reveal") /\ Handled
  /\ shown' = IF Head(events).ok THEN Head(events).val ELSE NoToken
  /\ UNCHANGED <<channelVars, open, daemon, token, view, pending, checked, drafts, clicks, orderVars,
                 storyVars>>

\* ActionTestResult, ConfigState and CaExported only tell the user.
OnTold(kind) ==
  /\ Event(kind) /\ Handled
  /\ UNCHANGED <<channelVars, open, daemon, token, view, boxVars, clicks, orderVars, storyVars>>

\* SnapshotUpdated: the boxes follow the copy unless the user has just clicked.
OnSnapshot ==
  /\ Event("refresh") /\ Head(events).ok /\ Handled
  /\ pending' = pending \ {"refresh"}
  /\ checked' = [box \in DOMAIN checked |->
                   IF box \in pending THEN checked[box]
                   ELSE IF box = "listener" THEN view.listener ELSE view.startup]
  /\ UNCHANGED <<channelVars, open, daemon, token, view, drafts, shown, clicks, orderVars, storyVars>>

\* The process ends; its fields go with it, and what is queued is dropped.
Gone ==
  /\ open' = FALSE
  /\ Exit
  /\ events' = <<>> /\ clicks' = MaxClicks
  /\ pending' = {} /\ shown' = NoToken /\ typed' = {}
  /\ ahead' = [t \in Task |-> {}] /\ overtaken' = {} /\ behind' = FALSE
  /\ UNCHANGED <<daemon, token, view, checked, drafts, blind, promised, late, mixed, astray, crossed,
                 misread>>

\* Disconnected: a poll failed, and the window closes itself.
OnDisconnected == Event("refresh") /\ ~Head(events).ok /\ Gone

\* The user closes the window.
Close == open /\ Gone

Handle ==
  \/ OnListener \/ OnSaved \/ OnApplied \/ OnStartup \/ OnRotated \/ OnRevealed
  \/ \E kind \in {"other", "export"} : OnTold(kind)
  \/ OnSnapshot \/ OnDisconnected

-----------------------------------------------------------------------------
(* The daemon: dispatch_request *)

After(s, k, ok) == [state |-> s, token |-> k, ok |-> ok]

\* save_actions: every save has a new actions_revision.
WithActions(table) ==
  [ table |-> table, listener |-> daemon.listener, startup |-> daemon.startup, needsApply |-> TRUE ]

\* What the daemon's state and token may be after a request.  A listener that
\* cannot be bound is paused; a rotation fails before it has done anything, or
\* when the listener does not come back with the new credentials, and then the
\* pause is saved or not.
Outcomes(kind, arg) ==
  {After(daemon, token, kind = "refresh")} \cup
  CASE kind = "save"     -> {After(WithActions(arg), token, TRUE)}
    [] kind = "apply"    -> {After([daemon EXCEPT !.needsApply = FALSE], token, TRUE)}
    [] kind = "startup"  -> {After([daemon EXCEPT !.startup = arg], token, TRUE)}
    [] kind = "listener" -> {After([daemon EXCEPT !.listener = arg], token, TRUE),
                             After([daemon EXCEPT !.listener = FALSE], token, FALSE)}
    [] kind = "rotate"   -> {After(daemon, token + 1, TRUE),
                             After(daemon, token + 1, FALSE),
                             After([daemon EXCEPT !.listener = FALSE], token + 1, FALSE)}
    [] OTHER             -> {After(daemon, token, TRUE)}

Serve ==
  /\ pipe = "request"
  /\ \E o \in Outcomes(worker.kind, worker.arg) :
       /\ daemon' = o.state /\ token' = o.token
       /\ Answer([ok |-> o.ok, state |-> o.state, token |-> token])
       /\ astray' = (astray \/ (worker.kind = "apply" /\ o.ok /\ daemon.table # worker.arg))
  /\ UNCHANGED <<windowVars, orderVars, typed, blind, promised, late, mixed, crossed, misread>>

\* The tray's Pause / resume.
TrayToggles ==
  /\ clicks < MaxClicks
  /\ clicks' = clicks + 1
  /\ daemon' = [daemon EXCEPT !.listener = ~@]
  /\ UNCHANGED <<channelVars, open, token, view, boxVars, events, orderVars, storyVars>>

-----------------------------------------------------------------------------

\* The worker's steps; a response with a state takes its place in the order.
Worker ==
  /\ \/ WorkerTakes /\ UNCHANGED ahead
     \/ /\ WorkerReplies
        /\ ahead' = IF worker.live /\ reply.ok /\ worker.kind \notin {"reveal", "export"}
                    THEN [ahead EXCEPT ![worker.by] = { t \in Task : HasState(t) }] ELSE ahead
  /\ UNCHANGED <<windowVars, daemon, token, overtaken, behind, storyVars>>

Lost ==
  /\ Disconnect
  /\ UNCHANGED <<windowVars, daemon, token, orderVars, storyVars>>

\* connect has fetched the first snapshot.
Init ==
  /\ ChannelInit
  /\ open = TRUE
  /\ daemon = [table |-> FirstTable, listener |-> TRUE, startup |-> FALSE, needsApply |-> TRUE]
  /\ token = 0 /\ view = daemon
  /\ pending = {} /\ checked = [listener |-> view.listener, startup |-> view.startup]
  /\ drafts = DraftsOf(view.table) /\ shown = NoToken /\ events = <<>> /\ clicks = 0
  /\ typed = {} /\ ahead = [t \in Task |-> {}] /\ overtaken = {} /\ behind = FALSE /\ blind = FALSE
  /\ promised = [a \in Actions |-> NoPromise]
  /\ late = FALSE /\ mixed = FALSE /\ astray = FALSE /\ crossed = FALSE /\ misread = FALSE

User ==
  \/ \E a \in Actions : RemoveAction(a) \/ ToggleAction(a)
  \/ \E a \in Actions, p \in Phrases : AddAction(a, p)
  \/ \E a \in Actions, p \in Phrases \cup {NoPhrase} : TypePhrase(a, p)
  \/ SavePhrases \/ ApplyVoiceConfig
  \/ \E box \in {"listener", "startup"} : ToggleBox(box)
  \/ \E kind \in Unflagged : Press(kind)

Run(t) == SubmitTask(t) \/ TimeoutTask(t) \/ Resume(t)

Next ==
  \/ User \/ Refresh \/ Close
  \/ \E t \in Task : Run(t)
  \/ Handle
  \/ Worker \/ Serve \/ TrayToggles \/ Lost

Spec == Init /\ [][Next]_vars

\* Threads run, the window is redrawn, the timeout of a call fires, and the
\* daemon serves what it reads.  Each of these steps changes what its subscript
\* names.
FairSpec ==
  /\ Spec
  /\ WF_<<task, events>>(Refresh \/ Run(0) \/ Handle)
  /\ WF_task(\E t \in Task \ {0} : Run(t))
  /\ WF_pipe(Worker \/ Serve)

-----------------------------------------------------------------------------
(* Properties *)

TypeOK ==
  /\ ChannelOK
  /\ open \in BOOLEAN /\ token \in Nat /\ clicks \in 0 .. MaxClicks
  /\ daemon.table \in Table /\ view.table \in Table
  /\ pending \subseteq Flags
  /\ drafts \in [Actions -> Phrases \cup {NoPhrase}]
  /\ shown \in Nat \cup {NoToken}
  /\ typed \subseteq Actions

\* A flag is set exactly while its request is on its way to the window's next
\* frame: no button is dead for good, and none lets a second request out.
FlagsExact ==
  open => \A kind \in Flags :
    kind \in pending <=>
      \/ \E t \in Task : Busy(t) /\ task[t].kind = kind
      \/ \E i \in DOMAIN events : events[i].kind = kind

\* What the window reports as saved stays saved until the user changes it,
\* whatever calls timed out, were refused or answered late in between - unless
\* it was edited from a copy that two tasks had brought back by applying their
\* responses in the wrong order (call_raw).
SavedStays ==
  ~blind => \A a \in Actions : promised[a] \in {NoPromise, daemon.table[a]}

\* The channel keeps calls and answers together, a flag is set exactly while
\* its request is under way, and what was reported as saved stays saved.
WindowInv == TypeOK /\ FlagsExact /\ SavedStays

\* Save phrases changes no phrase that the user did not type: a draft differs
\* from the copy only by the user's hand - unless a save was reported as failed
\* (it may have happened after all, and this is not said of those that did not)
\* or the drafts were rebuilt from an older copy (ActionsSaved rebuilds them from
\* SettingsClient.state).
DraftsAreTyped ==
  open /\ "save" \notin pending /\ ~late /\ ~blind /\ ~behind =>
    \A a \in Configured(view.table) : drafts[a] # view.table[a].phrase => a \in typed

\* Apply to ESP publishes what was on the screen when it was clicked - unless
\* the user saved something else before it was done, the screen was behind, or
\* a save was reported as failed, which may happen after all (actions()).
PublishedAsShown == astray => late \/ mixed \/ blind

\* A token on the screen is the one clients must use, once no rotation is under
\* way - unless the token was asked for while it was being rotated, or the
\* rotation was reported as failed and took place (CredentialsRotated clears
\* it only on success).
TokenCurrent ==
  open /\ ~UnderWay("rotate") /\ ~crossed /\ ~misread => shown \in {NoToken, token}

\* Once the user stops, the window agrees with the daemon in the end, in its
\* copy and in its boxes, even if responses were applied in the wrong order or
\* a save timed out and was carried out later (refresh).
ViewCatchesUp ==
  <>[](open /\ link => view = daemon /\ checked = [listener |-> daemon.listener,
                                                   startup |-> daemon.startup])

=============================================================================
