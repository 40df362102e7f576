# A TLA+ model of esp32-pc-remote

esp32-pc-remote wakes, reboots and controls a Windows PC from an ESP32. The ESP
takes commands from MQTT (a web dashboard), from Telegram and from a microphone;
spoken commands are sent over HTTPS to a Rust daemon on the PC, which executes
them and is configured from a Settings window.

This directory holds TLA+ modules for the parts of that system that keep state,
TLC configurations that check them on small instances, and TLAPS proofs of their
safety properties. `PROJECT.json` lists components, runs, the source lines each
definition models (`map`), the hazards the properties are aimed at, the findings,
and for every property a mutation of the code that breaks it.

    tlc -config MCDispatcher_Replay.cfg MCDispatcher     # one run
    tlapm DispatcherProofs.tla                           # one module of proofs

## 1. The system

| Part | Source (under `src/`) | State | Operations | Module |
|---|---|---|---|---|
| Dispatcher, HTTPS handlers | `daemon/src/application.rs`, `http.rs` | duplicate cache, lifecycle lock, installed configuration | media, custom_action, test_action, replace_config, timeout | `Dispatcher` |
| Configuration document | `daemon/src/config.rs` | a value: actions, revisions, published and acknowledged voice table | validate, publish, save actions | `AppConfig` |
| Executor | `daemon/src/adapters/windows_executor.rs` | one permit per guarded kind, running jobs | execute; a job ends; build a command line | `Executor`, `CommandLine` |
| Runtime | `daemon/src/adapters/windows_runtime.rs`, `http.rs` | three copies of the configuration, two of the secrets, the listener | save, publish, acknowledge, rotate, start, stop, reconfigure, load | `DaemonRuntime` |
| Settings channel | `daemon/src/management.rs`, `adapters/windows_management.rs` | queue of one call, pipe, the call under way | submit, time out, take, answer, disconnect | `SettingsChannel` |
| Settings window | `daemon/src/adapters/windows_app.rs` | copy of the daemon's state, drafts, boxes, pending flags, token on the screen, queued events | every button, the poll, every event, close | `SettingsWindow` |
| Settings supervisor | `daemon/src/adapters/windows_management.rs` | child process, job object, channel threads, commands | open, exited, disconnected, quit | `SettingsSupervisor` |
| Tray, single instance | `daemon/src/adapters/windows_app.rs`, `windows_host.rs`, `windows_runtime.rs` | message queue, event channel, `OPEN_REQUESTED`, instance mutex | start, click, menu, second launch, dispatch, quit | `TrayHost` |
| MQTT service | `src/services/mqtt_service.cpp` | two open confirmations, a pending wake, the retained state | every command, wake poll, expiry, reconnection | `MqttService` |
| Voice service | `src/services/voice_service.cpp` | two NVS slots, active table, recognizer, session, event queue | callback, session, staging, activation | `VoiceService` |
| Media control | `src/services/media_control_service.cpp` | queue of one intent, the request under way | queue, check, send, classify | `MediaControl` |
| Telegram bot, wake tracker | `src/services/telegram_service.cpp`, `wake_service.cpp` | offsets in RAM and NVS, wake fields shared by two tasks | fetch, handle, move offset, wake poll | `TelegramWake` |
| OTA | `src/services/ota_service.cpp`, `ota_policy.h` | button gate, window, transfer | sample, open, transfer, close | `OtaService` |
| LED indicator | `src/services/indicator_service.cpp`, `indicator_policy.h` | queue of requests, shown state | post, apply | `Indicator` |
| Dashboard | `dashboard/src` | dialog, token, countdown, last reply | clicks, replies, timers, reconnection | `Dashboard` |

The exact files and lines of each definition are in `PROJECT.json` under `map`.

How the parts interact:

- **dashboard <-> ESP**: MQTT through a broker. Commands have QoS 1 and may be
  repeated; replies have QoS 0 and one topic, so every dashboard sees every
  client's replies and none arrives while it is away.
- **ESP -> daemon**: one HTTPS request per spoken command, with an id and an
  expiry from the ESP's own clock. The ESP fetches voice tables from the daemon
  and acknowledges the ones it has activated.
- **inside the ESP**: FreeRTOS tasks joined by queues (voice events, one media
  intent, LED requests) and, between Telegram and the main loop, by plain fields
  without a lock.
- **inside the daemon**: tasks of a multi-threaded runtime, sharing a fair
  read-write lock, a mutex for the cache and a lifecycle mutex for the runtime.
- **Settings window <-> daemon**: two processes and a pipe; the daemon
  supervises the window's process. Every operation of the window is a task that
  replaces the shared copy of the daemon's state and then queues an event.
- **second launch -> background process**: a mutex, a window found by its class,
  one posted message and one flag.

What is hard: handlers that read the clock long before they use it; a cancelled
handler whose job still runs; three copies of one configuration with a failure
or crash between any two writes; confirmations over a network that repeats and
delays; tables switched under a running recognizer with power loss; an update
handled before its offset is saved; a button that is not sampled during a
transfer; an answer that arrives after its caller has given up, or is applied
after a later one; a window that publishes what the daemon has and not what is on
the screen; a report about a process that has been replaced; a menu that swallows
the message that should wake its owner. `hazards` in `PROJECT.json` lists these at the
line where they bite, with the properties that would notice.

## 2. Modules

**`AppConfig`, `Executor`, `Dispatcher`.** A connection is a task whose `pc`
follows its handler: read the clock, validate, `try_read` the lifecycle lock,
check the configuration, reserve the id, execute, answer. Any two of these may be
separated by other threads; only the wait for the executor can be cancelled by
the two-second timeout, which abandons the job (its owner becomes `Detached`) and
leaves its permit with it. Ids live in `cache` with their expiry and `reserve`
purges with the caller's own reading. `ReplaceInstall` waits for readers, and a
waiting writer keeps new readers out (tokio's RwLock is fair). A configuration is
a record; the revision 0, which the code rejects, stands for `None`. The wall
clock may be set back (`ClockSetBack`); `latest` remembers how far it had come.

**`CommandLine`.** The two ways the executor builds a command line, and the two
programs that take it apart again: the argument parser of a Windows program, and
cmd.exe. Characters are one of each kind a reader treats in its own way. This is
a pure conversion and is compared with its inverse for every short argument list;
`ArgumentsKept` states it of the jobs that run.

**`DaemonRuntime`.** The holder of the lifecycle mutex is `op`; clone memory, save
the file, `replace_config`, write memory are separate steps. A save or bind may
fail, the process may end, and an acknowledgement may be cancelled between any
two. Secrets are generations: equal generations are equal secrets. `load` may find
a `config.json` it cannot use, and goes on with the default configuration while the
file keeps the saved one (`fell`), or a `secrets.dpapi` it cannot use, and makes and
saves new secrets (`unread`). `MaxGen` bounds the generations made for a user, and
those made for such a `load`.

**`Confirmation`, `MqttService`, `Dashboard`.** `Confirmation` is the abstract
two-step command: one open offer, accepted once, in its lifetime. `MqttService`
is the loop task of the ESP with 32-bit `millis()` modulo `Wrap`, and implements
`Confirmation` twice, for wake and for reboot. `Dashboard` puts the page and the
broker in front of the same abstraction; the product with the whole of
`MqttService` exceeds twenty million states, which is why the refinement is
stated separately and the page uses the abstract side of it. The page ignores a
reply whose id it has handled (nothing ever clears that set), and a forced wake of
another client, answered without a token, reaches it like its own.

**`VoiceService`.** Recognizer, voice worker and media worker. What is said is a
position in the table the recognizer was built with; what it means is found in
the active table. Activation is: stage in the spare slot, stop, build, switch the
slot, commit, with restoration or the built-in table when a step fails.

**`MediaControl`, `MediaLink`.** The ESP's media worker, then its composition with
the unchanged `Dispatcher` over a link that delays and loses, with two clocks.
The voice service runs before the media worker exists (`ServiceStart`), and a
restart keeps the clock unless power was lost. What was heard is handed over or
dropped without a LED (`Drop`): the voice worker does so when its queue is full or
reset, the session is over, the mode cannot be set back or the table has changed.

**`TelegramWake`.** The poll task and the wake poll, field by field where the code
shares fields without a lock. **`Indicator`, `OtaService`.** The LED queue is a
module of its own, extended by the service that uses it most; the other users are
a constant set.

**`SettingsChannel`, `SettingsWindow`.** The channel knows tasks, calls and the
pipe and nothing of their meaning; the window extends it with everything the user
can do, the events the UI thread handles, and the daemon's `dispatch_request`.
Between a click, its request, its response, the copy it replaces and the event
that is handled, any other step may come. Of a copy that two tasks put in the
wrong order (`behind`), of a save that was reported as failed
(`late`, whether or not it happened) and the like, history variables keep the record, because the properties
have to name them.

**`SettingsSupervisor`, `TrayHost`.** The supervisor thread and the processes it
starts; and the main thread that drives it, from the start of the background
process to its end, with the launches that find it running. While the tray menu
is open Windows dispatches messages from a loop of its own: window procedures run,
thread messages (`WAKE`) are lost. A Settings process closes its window first and
exits later (`shut`): an `Open` in between finds a process and nothing to reveal. A
message box blocks the supervisor thread, as
it does in the code.

Data is abstracted to what the properties tell apart: topics, texts, JSON, HTTP
headers and cryptography are left out; an id, a token, a phrase or an address is a
model value. The code outside the repository (tokio's lock, ArduinoOTA, ESP-SR,
PubSubClient, NVS, Windows) is modelled from how the code uses it, and marked
external in the map.

## 3. What is checked

`*` marks a property that is also proved (section 6). A name in brackets is the
part of an invariant `XInv` that is worth its name; the other part is the
module's type invariant.

| Run | Properties | Instance |
|---|---|---|
| `dispatch_replay` | `RememberedThroughWindow`*, `NoReplayInWindow`* | 2 connections, clock 0..3 set back once, lifetime 2, skew 1, cache of 2 ids, 5 requests |
| `dispatch_config` | `DispatchMatchesConfig`*, `OneJobPerPermit`*, `ArgumentsKept`, `ReplaceServed`, `Answered` | a connection and a local test, actions of every kind, 3 configurations; all argument lists of up to 2 arguments of up to 3 characters |
| `runtime` | `RuntimeInv`* (`CopiesAgree`, `ListenerCurrent`), `RevisionNamesTable`*, `AcksDurable`*, `TokenKept`* | one action with two phrases, revisions up to 2, two addresses, two generations of credentials, files that cannot be used at a start |
| `mqtt_confirm` | `MqttInv`* (`OneWake`), `RetainedCurrent`*, `Confirmed`* | 2 tokens, lifetimes 0, 1 and one above the cap, a clock of 6 that wraps |
| `voice_sync` | `VoiceInv`* (`ActiveStored`, `RecognizerMatches`, `AckedIsStored`), `HeardAsMeant`*, `UpdateKept`* | 2 actions, 2 published tables, event queue of 2 |
| `telegram_wake` | `TelegramInv`* (`NoneSkipped`), `HandledOnce`*, `PromiseTracked`*, `WakeEnds` | 2 chats, 3 updates, 1 fault |
| `ota_window` | `OtaInv`* (`ListenerMatches`), `InstalledInTime`*, `LedTruthful`*, `HoldOpens`*, `WindowCloses` | hold 2, window 2, transfer 2, LED queue of 2 with two other users |
| `media_end_to_end` | `LinkInv`* (`SpokenRunsOnce`), `ReportTrue`* (`WhiteMeansRun`, `RejectedNeverRuns`), `Reported` | 2 commands, 2 connections, an ESP clock ahead of or behind the PC's |
| `settings_window` | `WindowInv`* (`FlagsExact`, `SavedStays`), `DraftsAreTyped`*, `PublishedAsShown`*, `TokenCurrent`*, `ViewCatchesUp` | 2 actions, a phrase, 2 acts of the user beside the poll |
| `tray_host` | `HostInv`* (`OneSettings`, `ServedNotKilled`), `OpenHonoured`, `EndsOrderly` (`QuitAnswered`, `NoOrphan`) | 2 Settings processes, 4 clicks or launches, 2 background processes |
| `web_cancel` | `PageInv`* (`TokenCurrent`, `TokenStays`), `CancelHolds`*, `SuccessTrue`* | 2 tokens, 3 commands, a clock of 1 and a lifetime of 1, 1 fault |
| `web_reboot` | `RebootHappens`, refuted | 1 command, connections that stay up |

What the less obvious of them say:

- `NoReplayInWindow`: no request starts a second time before the wall clock has
  once left its window, however often and to however many connections it is
  delivered, and also when the clock was set back inside the window.
- `ArgumentsKept`: a program that was started with administrator rights, or a
  batch file, was given exactly the arguments of its action.
- `DispatchMatchesConfig`: from the checks of a dispatch until it returns, the
  configuration it was checked against stays installed.
- `OneJobPerPermit`: permits and running jobs add up, also for abandoned jobs.
- `CopiesAgree`: file, dispatcher and memory have one configuration between
  operations; after a start that could not use the file, memory and dispatcher have
  the default one until a save replaces it. `RevisionNamesTable`: over crashes and
  failed saves, one voice revision never names two tables, which is what the ESP
  relies on when it compares revisions. `AcksDurable`: an answered acknowledgement
  is on disk. Both start anew with the save that replaces a file that could not be
  used, for the revisions do.
- `TokenKept`: only rotation changes the API token an ESP is paired with, also
  when a crash makes the next start re-issue the certificate, and a start that
  cannot use the saved secrets.
- `Confirmed`: `MqttService` implements `Confirmation`, once for wake and once for
  reboot.
- `HeardAsMeant`: a command is the one the phrase had in the table it was
  recognized with, and belongs to the session it is handled in.
- `UpdateKept`: the table for which the media worker waits without a timeout is
  in exactly one place until the wait is over.
- `PromiseTracked`: a chat that was asked to wait is the one the tracker watches
  for, unless the wake was started while another was being ended.
- `HoldOpens`: a window is opened by a press that lasted the hold time and has
  fired for no earlier window and no failed activation (`spent`), unless the gate
  was blind to it during a transfer.
- `Reported`: every command handed to the media worker gets its LED in the end,
  although the daemon may take the request and never answer. A command the voice
  worker drops gets none.
- `SavedStays`: what the window reports as saved stays saved, unless it was edited
  from a copy that two answers had put in the wrong order. `DraftsAreTyped`: Save
  phrases changes only phrases the user typed. `PublishedAsShown`: Apply publishes
  what was on the screen. `TokenCurrent`: a token on the screen is the daemon's.
  Each names the interleavings in which the code does otherwise. `FlagsExact`: a
  button is off exactly while its request is under way.
- `OpenHonoured`: a click or a second launch opens or reveals Settings, although
  nothing but a flag or a lost `WAKE` may speak for it. Excepted are a launch that
  gives up before it has found a host window and an ask that meets a Settings
  process on its way out (`missed`).
- `TokenStays`: the countdown of the wake dialog is never shorter than what the ESP
  still grants, however old the state message it was computed from.
- `CancelHolds`: once the ESP has handled what was sent, a cancelled wake has left
  neither a token nor a pending wake, although commands are repeated.

The qualifications (`unless ...`) are history variables of the models: each
marks an interleaving in which the code really does otherwise.

The bounds are the smallest at which the interesting cases happen. Two handlers,
two tokens, two tables or two clients are what a race needs; a third update or
a second process lets one be replaced while a report about another is on its way. Clocks
are long enough for a lifetime to end while a handler that read it is still at
work. Lifetimes keep their order, and one is above its cap. Each property of a
passing run is violated, at the same bounds, by a plausible mutation of the code
(`mutants`), so none holds because its case is out of the instance. Symmetry is
used only for interchangeable model values in runs without liveness. `runtime` and
`web_cancel` also have a `VIEW`, which tells states apart by the values that may
still be read: an operation that has returned keeps its candidate in the model, and
a page that will not reconnect its unacknowledged commands.

Deadlock is checked, except where a process may really end (Settings window and
background process) and in `web_reboot`, which stops at its bounds.

## 4. Fairness

| Module | Assumed weakly fair | Why | Not assumed |
|---|---|---|---|
| `Dispatcher` | each task's step and timeout, the end of a media job, `ReplaceInstall` | tokio runs ready tasks and timers, its RwLock is fair, a key press returns | that a UAC prompt or a script ends, that requests come |
| `TelegramWake` | poll task, wake poll, clock | tasks and time | updates, connections |
| `OtaService` | worker steps, waiting, progress or end of a transfer | ArduinoOTA has an idle timeout | the button, the sender |
| `MediaLink` | the media worker's steps, the voice worker's submission or drop of what was heard | FreeRTOS tasks; every wait of `send_intent` has a timeout | the daemon, the link, the clocks |
| `SettingsWindow` | the poll and the UI thread, the other tasks, worker and serving | threads, timeouts, a window that is redrawn every two seconds | the user, the pipe |
| `TrayHost` | the main thread, the supervisor thread, a second launch's tries, an unblocked window's end | threads; the window loop looks at its channel | the user, the menu, file pickers, message boxes |
| `Dashboard` | the page, the ESP's receipt | event loop, loop task | clicks, other clients |

The other modules state safety only.

## 5. Where the code and what is said of it differ

`web_reboot` refutes the text of the reboot dialog ("The controller will
disconnect briefly and reconnect automatically."): the dashboard sends
`reboot_request` and no part of it ever sends `reboot_confirm`.

More differences were met while modelling. The properties say what holds in
spite of them:

- Past its window, a duplicate may run twice: `reserve` purges with its caller's
  own clock reading, so a handler that read the clock before the expiry can
  reserve again after another's later reading has purged the id
  (`application.rs:100`). So may one whose window opens again because the wall
  clock is set back into it (`http.rs:293`). Hence the window in
  `NoReplayInWindow`.
- The deadline of a confirmation is compared with `>` and not subtracted
  (`mqtt_service.cpp:290`): a token that is open when `millis()` wraps is accepted
  long after its lifetime. The refinement counts it as offered again (`Lapse`).
- The button is not sampled during a transfer (`ota_policy.h:43`): a press being
  timed when it began opens a window after it, although `docs/ota.md` says "A fresh
  hold is required after a failed or expired window". `HoldOpens` exempts it
  (`blind`) and says that it is the only exception.
- A `config.json` that cannot be read, parsed or validated is not an error: the
  daemon runs with the default configuration, and the first save replaces the file
  (`windows_runtime.rs:94`). Revisions then start again at 1, which an ESP may
  already hold for another table. A `secrets.dpapi` that cannot be used is replaced
  at once (`windows_runtime.rs:106`), and every paired ESP is locked out.
- A command may be heard and dropped without a LED: the event queue is full
  (`voice_service.cpp:212`) or reset (`160`), it comes after its session (`298`), the
  recognizer does not change its mode (`311`) or its table is gone (`337`).
- A `wake_confirm` without a token that meets a pending wake clears its
  `wake_id` (`mqtt_service.cpp:272`), by which `docs/grafana.md` groups records.
- The countdown of the wake dialog is computed from a state message that may be a
  minute old (`reply-handlers.ts:22`) and may outlast the token; after a restart of
  the ESP it may also be too short (`restarted` in `TokenStays`).
- A `wake_request` that the broker repeats is answered with a second token under the
  same id, which the page ignores (`index.tsx:62`): it shows a token the ESP no
  longer takes (`missed` in the dashboard's `TokenCurrent`).
- A forced wake sends the packet at once and is answered without a token
  (`mqtt_service.cpp:223`); a page that sees the reply announces a token and starts a
  countdown, with nothing to confirm (`reply-handlers.ts:19`).
- Two tasks of the Settings window may apply their responses in the wrong order
  (`windows_management.rs:177`); an edit made from the older copy undoes a change
  that was reported as saved (`blind` in `SavedStays`).
- A save that timed out may be served later and be published by an Apply that never
  showed it (`late` in `PublishedAsShown`).
- A rotation whose listener does not come back is reported as failed although the
  token has changed, and the old token stays on the screen (`windows_app.rs:947`,
  `misread` in `TokenCurrent`).
- `docs/windows-media-daemon.md` says that clicks and launches "activate the existing
  Settings process". A second launch during the last moments of the background
  process, or before its host window exists for more than a second, ends without a
  word (`windows_host.rs:83`); and an `Open` that meets a Settings process whose
  window is closed and which has not exited finds no window, and does nothing
  (`windows_management.rs:309`, `windows_app.rs:205`).

## 6. Proofs

Eight modules hold theorems, about the modules they extend and for every value
of the constants that satisfies the assumptions named there. They bound nothing
that the runs bound for size: tokens, tables, chats, clicks, processes, lifetimes,
queues and clocks are arbitrary. The safety properties are the ones the runs check.

| Module | Assumptions | Theorem | States |
|---|---|---|---|
| `DispatcherProofs` | `ConfigAssumption`, `DetachedAssumption`, `DispatcherAssumption` | `TypeCorrect` | types, and the owner of a job waits for it |
| | | `WindowRemembered` | `RememberedThroughWindow` |
| | | `NoReplay` | `NoReplayInWindow` |
| | | `CacheSafe` | `CacheBounded` |
| | | `ConfigStable` | `DispatchMatchesConfig` |
| | | `PermitsConserved` | `OneJobPerPermit` |
| | and `MediaAssumption`, `LinkAssumption` | `SpokenOnce` | `LinkInv` |
| | | `LedTellsTheTruth` | `ReportTrue` |
| | | `DispatcherBehindLink` | `MediaLink` implements `Dispatcher` |
| `RuntimeProofs` | `ConfigAssumption`, `RuntimeAssumption` | `CopiesAlwaysAgree` | `RuntimeInv` |
| | | `RevisionsNameTables` | `RevisionNamesTable` |
| | | `AcksKept` | `AcksDurable` |
| | | `TokenOnlyRotated` | `TokenKept` |
| `MqttProofs` | `MqttAssumption` | `OneWakeAtATime` | `MqttInv` |
| | | `RetainedTrue` | `RetainedCurrent` |
| | | `ConfirmationsImplemented` | `Confirmed` |
| | `DashboardAssumption` | `TokenOnPage` | `PageInv` |
| | | `CancellationHolds` | `CancelHolds` |
| | | `SuccessReported` | `SuccessTrue` |
| `VoiceProofs` | `VoiceAssumption` | `OneTable` | `VoiceInv` |
| | | `PhrasesKeepTheirMeaning` | `HeardAsMeant` |
| | | `TableNotLost` | `UpdateKept` |
| `TelegramProofs` | `TelegramAssumption` | `UpdatesHandledOnce` | `HandledOnce` |
| | | `UpdatesNotSkipped` | `TelegramInv` |
| | | `PromisesTracked` | `PromiseTracked` |
| `OtaProofs` | `OtaAssumption`, `IndicatorAssumption` | `PortFollowsPolicy` | `OtaInv` |
| | | `DeadlineKept` | `InstalledInTime` |
| | | `LedCatchesUp` | `LedTruthful` |
| | | `OnlyHoldsOpen` | `HoldOpens` |
| `WindowProofs` | `WindowAssumption` | `SavedStaysSaved` | `WindowInv` |
| | | `DraftsTyped` | `DraftsAreTyped` |
| | | `AppliesAsShown` | `PublishedAsShown` |
| | | `TokenOnScreen` | `TokenCurrent` |
| `HostProofs` | `SupervisorAssumption`, `HostAssumption` | `OneWindow` | `HostInv` |

Hardly any of these properties is inductive as it stands. What each needs
besides, and why:

- **Duplicate cache** (`ReplayInv`). A purge with an arbitrary reading could drop an
  id that is still in its window. `ReadingsPast`: no handler's reading is later than
  the latest time the clock has shown, so a purge drops only what the clock has once
  passed. `SoleReservation`: an unexpired reservation that has not reached the
  executor is the only one of its id, which makes the start of a job the first one.
  `OwnersWait` is what lets the end of a job find its owner, and `CacheInv` adds that
  the cache is finite, without which its cardinality means nothing.
- **Spoken commands** (`LinkInd`). `LinkImplements` shows that each step of the
  composition is one of the daemon or leaves it alone, so the daemon's theorems carry
  over. `EspInd`: what the worker has not posted, nobody knows. `OneCopy`: a request
  is on the link or with one handler. `ResultsTrue` and `AnswerTrue`: what a
  handler's result, and later the answer on the wire, say of the execution; a result
  of the two-second timeout, which may be wrong, finds nobody reading.
- **Runtime** (`RuntimeInd`). The properties speak of the moments between two
  operations, so the invariant says what holds inside them, in layers: which
  operation can be at which step (`OpOK`), where its candidate has arrived
  (`Copies`), whose secrets are where (`Creds`), what the listener serves
  (`Listens`), and that file and memory both cover what the ESP was told
  (`History`), which is what a crash between the two writes must not undo, and what
  memory need not do after a start on the default configuration (`fell`).
- **MQTT** (`MqttInd`, `WakeExact`, `RebootExact`). `TokensDrawn`: what is on offer
  or accepted was drawn. `DeadlineExact`: until `millis()` wraps, a deadline agrees
  with the true time left, so that the handlers' comparison is the one of
  `Confirmation`. The refinement has one step per handler: each is a step of
  `Confirmation` or a stutter, once under the mapping of the wake and once under that
  of the reboot.
- **Dashboard** (`PageInd`). The page acts on what was sent long ago, so the invariant
  is about everything on its way. `Answers`: what a reply or a state message says is
  so, for the reply to look at and for every message that will arrive; a new token is
  one nobody holds, which keeps the old replies true. `Newest`: the last reply on its
  way that brings a token brings the open one, or none does and the page has it
  already - until a reply that brings one is lost, overtaken or ignored (`missed`). `StateFirst`: a state message comes before any reply, and with `Countdown`
  (that message is of the past) the time the page computes is not too short.
  `Cancelling`: a cancellation is the last command on its way to the ESP, or was
  handled, and the commands that may be repeated end in it as well. `Receives` sums up
  in one lemma what the ESP's handlers do to the token and what they publish.
- **Voice** (`VoiceInd`). `Handed`: how far an activation has come and what is in
  flash by then. `Waiting`: where the awaited table is. `Sessions` rests on the order
  of the queue (`InOrder`): the recognizer reports wake words in one mode and commands
  in the other, and only the worker changes the mode, so no command of an earlier
  session is behind the wake word that opens one. `Meanings`: every queued command
  has the action it has in the active table.
- **Telegram** (`QueueInd`, `WakeInd`). `Offsets` orders the three offsets, `Owed`
  counts how often an update that may come again was handled, and `Watched` says
  where the two tasks can be at the same time.
- **OTA and LED** (`PolicyInd`, `GateInd`, `LedInd`). The last event of each sort in
  the LED queue tells the current state (`OtaPending`, `VoicePending`). A press is
  timed twice, by the gate from its samples and by the history from the button;
  `Timed` relates the two between a turn of the loop and the sample that follows.
- **Settings window** (`WindowInd`). `Calls` follows a call from the queue to the task
  that waits for it; `Carriers` counts who will report a request; `Failures` says
  that a call nobody waits for is reported as failed, which is how the exceptions
  `late` and `misread` come to be set in time. `Saves`: a save that somebody waits for
  has no other behind it, and a save that was answered is the last one the daemon has
  served. From these `Current` tells when the copy is the daemon's, up to the answers
  on their way, and that is what `Promises`, `Drafts` and `Applies` stand on.
- **Tray** (`HostInd`). `Windows`: the supervisor never forgets a process that runs.
  `Reports`: a report in its queue is about a channel that has ended, hence not about
  the child it has now.

Only model-checked, because the prover does not reach them: the liveness properties
(`Answered`, `ReplaceServed`, `WakeEnds`, `WindowCloses`, `Reported`,
`ViewCatchesUp`, `OpenHonoured`, `EndsOrderly`; `RebootHappens` is refuted), which
need fairness and `ENABLED`, and `ArgumentsKept`, which compares recursive functions
over command lines and would need induction over them. Every other property of a
passing run is a theorem.

## 7. Not modelled

- `log_service`: a queue of wake events and an HTTP sender. What does not fit or
  cannot be sent is dropped, by intent, and nothing reads it.
- The order of services in the firmware's `loop()`, and the watchdog. Wi-Fi is a
  connection that comes and goes at any moment, and start-up is modelled as far as
  the voice service can run ahead of the media worker.
- Drawing, tabs, form fields, icons and feeds of the Settings window and the
  dashboard.
- Frame lengths and JSON of the Settings channel: a frame is read whole or the
  channel ends.
- Certificates, DPAPI, HMACs and constant-time comparison: secrets are
  generations.
- What an action does to Windows once it has started.
- The test server, the upload script and the speech models.

## 8. Plan

The order was chosen by what the rest depends on; steps 1 to 11 are done, and step 12
is what a next version would add.

1. `AppConfig`, `Executor`, `Dispatcher`, with their proofs
2. `DaemonRuntime`
3. `Confirmation`, `MqttService` and the refinement
4. `VoiceService`
5. `TelegramWake`
6. `Indicator`, `OtaService`
7. `MediaControl`, composed with `Dispatcher` in `MediaLink`
8. `SettingsChannel`, `SettingsSupervisor`, `Dashboard`
9. `SettingsWindow` over the channel, `TrayHost` over the supervisor, `CommandLine`
10. A wall clock that is set back, start-up of the media worker, and that every
    spoken command is reported
11. Theorems: the safety properties of every module, that `MqttService` implements
    `Confirmation`, and that `MediaLink` implements `Dispatcher` (section 6)
12. A spoken phrase from one end to the other: `VoiceService` with the tables
    `DaemonRuntime` publishes and the configuration `Dispatcher` checks
