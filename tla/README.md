# AttaNest in TLA+

A verification development kept beside AttaNest: TLA+ modules translated from
the Rust sources, TLC configurations that check them on small instances, and
theorems checked by TLAPS. Paths are relative to the repository root; module
names refer to this directory. `PROJECT.json` lists the components, the runs,
the hazards with their lines, the findings and, for every definition, the lines
it is translated from.

## 1. The system

AttaNest is a desktop and server shell around the AttaCore engine. Browsers and
native clients reach it over one multiplexed websocket or over separate HTTP
channels; it authenticates them, decides what they may call, and puts between
them and the engine a *hub* that owns the turns of a session, observes it once
and for all, and lets any number of clients catch up with it.

    client -- admission/handshake --> transport session (credential, faces)
       |                                    |  rpc
       v                                    v
    authorization gate (method table) --> hub --> engine (external)
                                       |-> built-ins (store, settings, files, packages)
    hub -- nest.event / nest.* notifications --> clients' sinks

| component | state | operations | interacts through |
|---|---|---|---|
| hub: turn loop and queue (`crates/hub/src/turns.rs`) | per session `running_turn`, `queue` | send, interrupt, queue_remove, close, delete; the driver task (open, run_turn, settle, push_queue) | engine calls awaited with no lock held; one mutex over all sessions |
| hub: catch-up and fan-out (`hub/src/session.rs`, `clients.rs`) | `seq`, `replay`, `watchers`, `subscribed`, `history_total_before_turn`, `pending_prompts`; the sinks of the clients | attach, detach, route_event, add_client, remove_client, answering a prompt | the same mutex; frames go into the sinks inside the critical section |
| hub: buffer (`hub/src/replay.rs`) | frames, byte count, `truncated` | push, merge_delta, clear, snapshot | called by the two above |
| hub: dispatch (`hub/src/lib.rs`) | contributions, clients | dispatch, hello, set_ui_contributions | every RPC enters here |
| authorization (`authz/src/lib.rs`, `table.rs`, `app/src/methods.rs`) | the method table, filled at assembly | decide | asked before each call |
| devices and pairing (`authz/src/devices.rs`, `app/src/devices.rs`) | pending pairing windows and paired devices, in the memory of the process | begin, complete, revoke, sweep, bootstrap | two mutexes, taken one after the other |
| audit (`authz/src/audit.rs`, `app/src/audit_log.rs`) | ring of entries; a sink that appends to session logs | record, recent | called after each decision and before the call runs; the sink spawns tasks |
| admission and handshake (`transport/src/admission.rs`, `handshake.rs`) | outstanding challenges | issue, redeem, pair, admit | devices, then a transport session |
| channels (`transport/src/session.rs`, `ws.rs`, `split.rs`) | live credentials, faces with subscriptions and queues, permits of calls in flight | establish, subscribe, rpc, stream, end | hub through add_client, remove_client, dispatch |
| bulk, statics, routing (`transport/src/bulk.rs`, `statics.rs`, `lib.rs`) | the packages the static face serves; the listeners | upload, set_packages, read, serve | built-ins, which hold the upload grants |
| contribution registry (`contrib/src`) | registered methods, catalog of texts | register, call | filled at assembly, asked by the hub's dispatch |
| store and workspaces (`builtin/src/store.rs`, `workspaces.rs`) | one document in memory and its file | open, update; workspaces create, update, reorder, remove; sessions rename, archive; prefs | the engine is asked first, then the store is locked |
| settings (`builtin/src/settings.rs`) | one JSON file per tier | describe, set | files shared with the engine and hand edits, no lock |
| files and uploads (`builtin/src/files.rs`) | upload grants, a directory of uploads | upload.begin, claim, projects.create, list | bulk channel, store |
| plugins and packages (`builtin/src/plugins.rs`, `packages.rs`, `app/src/main.rs`) | what the faces were told of the packages | upload, install, uninstall, enable, disable, reload, refresh | the engine has the packages; the refresh is a callback that sets the static face and spawns a task into the hub |
| recordings, search (`builtin/src`) | none | read | files |
| process assembly (`app/src/main.rs`, `paths.rs`, `assembly/src`) | how far a start has come: engine, store, registry, admission, listeners, scratch directory | start, build, assemble, bind, stop | makes all of the above and wires them |
| browser interface (`ui/`) | the session on view: its blocks and the last number taken | open a session, take a frame, boot again after a drop | attach, detach and session.history; frames of the watched sessions |
| engine | sessions in memory and on disk, one running turn per session | session.*, run_turn, interrupt, subscribe | external: a git submodule outside these sources |

### What is hard here

The hub has one mutex and holds it across no `await`. Every call is therefore a
chain of short critical sections with engine calls and other reads between them,
and what one section read is old by the next. The send path has four (does the
session exist, watch, is it busy, enqueue or open), settlement has four (read
the log's depth, settle, announce, push the queue), attach has five. Clients
come and go between any two of them. Frames are numbered in one section and, for
two kinds, sent in another. The transcript is written by the engine at a moment
the hub does not control. And close removes the state under everybody's feet.

Outside the hub the same shape recurs on a smaller scale: a device is read
before an awaited redeem, the settings are read, changed and written with no
lock through one temporary file, contributions are refreshed by tasks that are
not ordered, a connection ends while its calls are in flight, an upload is
installed while it is written. And there are the two places where something
outlives the process, the store's file and the session logs: a crash may fall
between the change in memory, the temporary file and the rename.

### What makes each component correct

* Turn loop: every message a send accepts is run once, in order, or dropped by
  somebody's explicit word; `running_turn` is never left set with nobody to
  clear it; a session with a queue has a driver; promised turns are reported.
* Catch-up: the reply of an attach and the frames that follow it are one gapless
  sequence; the buffer holds the running turn from its start; a session with
  watchers is subscribed; history and replay together show each turn once.
* Buffer: a snapshot has no hole in the middle, and says so when its start is cut.
* Prompts: an ask is shown once, answered once, and gone everywhere then.
* Pairing, admission: a code pairs one device, at most three guesses, only in
  time; a revoked device has no live channel; a challenge is used once.
* Channels: every accepted call is answered or its connection is ended; a
  credential dies with its session; at most one reader per stream.
* Store, workspaces: what was answered is on disk; a restart serves what was last
  saved, or nothing where it cannot read it, never half of it; one workspace per path; no row for a session that never was.
* Settings: a set changes its key and no other; a set's answer shows what it set.
* Packages: what is served and told is what is installed once refreshes are over;
  an upload grant stores one file, of the size granted.
* Authorization, audit: what passes the gate is in the table, what is in the table has
  an answer, and no call runs unrecorded.
* Assembly: a node the network reaches has TLS and paired admission.
* Browser: what is drawn is the open session's, all of it, once and in order.

## 2. The modules

| module | models | extends |
|---|---|---|
| `TurnLedger` | what the hub promises about the messages of one session: an abstract specification | - |
| `HubTurns` | the turn loop and queue of one session, one action per critical section or engine reply | - |
| `ReplayBuffer` | the catch-up buffer as pure operators | - |
| `ReplayPushes` | the buffer as a state machine driven by numbered events | `ReplayBuffer` |
| `HubFrames` | catch-up and fan-out: the turn loop *with* what each of its critical sections does to the other fields of `SessionState`, and attach, detach, events, disconnects, the engine's log | `HubTurns`, `ReplayBuffer` |
| `DeviceBook` | what the list of paired devices promises: an abstract specification | - |
| `Pairing` | pairing windows, guesses, expiry and revocation, one action per critical section | instantiates `DeviceBook` |
| `Channels` | challenges, handshakes, credentials, event streams, calls in flight and the end of a connection | instantiates `DeviceBook` |
| `DurableDocument` | what a document kept in one file promises across restarts: an abstract specification | - |
| `Overlay` | the store, workspaces, session notes and preferences, with crashes, failing writes and a file that cannot be read | instantiates `DurableDocument` |
| `Settings` | the settings files, one action per read, open, fill and rename | - |
| `Packages` | upload grants and POSTs, plugin calls, refreshes, what is served and told | - |
| `Methods` | the method table and the order of dispatch, as constants and operators | - |
| `Startup` | a process from flags to listeners to its end | `Methods` |
| `Process` | `Startup` composed with the calls it takes: gate, audit ring, timeline | `Startup` |
| `ClientView` | what the browser draws of a session, over the steps of the hub that a client can tell apart | - |
| `HubProofs` | theorems about the buffer, the turn loop, and catch-up and fan-out, with the lemmas about `Push`, `Trim` and queues they rest on | `HubFrames`, `ReplayPushes` |
| `ClientViewProofs` | theorems about what the browser draws, and lemmas about sets of numbers in order | `ClientView` |
| `PairingProofs`, `ChannelsProofs`, `OverlayProofs`, `SettingsProofs`, `PackagesProofs`, `ProcessProofs` | theorems | the modules they are about |
| `MCHubTurns`, `MCHubFrames`, `MCReplayPushes`, `MCPairing`, `MCChannels`, `MCOverlay`, `MCSettings`, `MCPackages`, `MCProcess`, `MCClientView` | symmetry sets and the values of constants for TLC | the modules they check |

### HubTurns

One session. A *task* is one call (`Sends`, `Stops`, `Removals`, `Closes`), and
`pc[t]` says which critical section it has reached; an `await` or a release of
the mutex is a boundary between actions and nothing else is. A send that finds
the session idle does not end: `start_turn` spawns the loop, and the task of
the send goes on as that loop (a *driver*), going round once for each message.
A turn is named by the message it runs, since `new_id` makes both names fresh.

| action | code |
|---|---|
| `SendGet`, `SendWatch`, `SendReadBusy`, `SendEnqueue` | `Hub::send`: `session.get`; watch; read `running_turn`; queue. The busy check and the queueing are two critical sections in the code and two actions here. |
| `OpenTurn`, `AnnounceOpened` | `open_turn`: set `running_turn` under the lock; announce under the next |
| `RunTurn`, `RunTurnBusy`, `EngineReturns` | `run_turn`: taken, refused with `SESSION_BUSY`, and back again, whether the turn succeeded or failed |
| `SettleTurn`, `AnnounceSettled`, `ReadQueue`, `PushAndGoOn` | `settle_turn` and the loop around it: clear `running_turn`, take the head of the queue; announce; read the queue to push; push it and go on |
| `PushQueue` | `push_queue` for the calls that end with it |
| `InterruptEngine`, `InterruptClear` | `interrupt`: the engine first, then the queue |
| `QueueRemove` | `queue_remove` |
| `CloseEngine`, `CloseRemove` | `close_or_delete`: the engine first, then the `SessionState` |
| `CallDropped` | a call that is an HTTP request of its own (`HttpCalls`) runs inside the request's handler (`split.rs`, `rpc`); when the client goes away the future is dropped at whichever await it stands. A send leaves that future only when `start_turn` spawns the loop, which is after `open_turn`; up to there its turn is `"lost"`. The websocket spawns its calls and drops none. |

`settled`, `dropped`, `refused`, `late` and `stopped` are history variables: no
guard reads them. `shown` is the queue as the watchers last had it.

### TurnLedger and the refinement

`TurnLedger` forgets tasks, engine and locks. A message is taken on once, waits
in order, is held by exactly one turn, and is reported finished once; or it is
withdrawn while it waits, or lost while held. `HubTurns` implements it under

    waiting <- queue   held <- Held   finished <- settled   gone <- dropped

where `Held` are the messages some driver answers for. It would fail if a
settlement could double or lose a message, if an interrupt dropped one already
taken, or if a message overtook another.

### ReplayBuffer and ReplayPushes

An event is its kind, the length of its text and the length its text gains when
JSON escapes it: that is all `push` looks at. `Push` is the method: a delta that
merges into the last frame returns before trimming, everything else is appended
and the front trimmed. `ReplayPushes` pushes events of any turn and clears at any
moment, with a log of what was pushed as history.

### HubFrames

Extends `HubTurns` and conjoins to each of its actions what the same critical
section does to `seq`, `replay`, `watchers`, `subscribed` and `before`
(`history_total_before_turn`). The depth of the transcript, which `open_turn` and
`settle_turn` read before they lock, is a step of its own (`ReadDepth`). Attach
has one action for each stretch between awaits: `AttachGet`,
`AttachReadSubscribed`, `AttachSubscribe`, `AttachResume`, `AttachMark`,
`AttachCount`, `AttachRegister`, and `AttachFails` for an engine call that fails.
`RouteEvent` numbers, buffers and fans out in one step; the opening of a turn is
numbered in `OpenNumbered` and sent in `FanOutOpening`, as the code does it.
A client that disconnects leaves its calls under way (`Disconnect`); an attach
that is an HTTP request (`HttpClients`) may end at any of its awaits, and
`DropCall` is `CallDropped` with the frame a dropped send had yet to fan out.
Two history variables tell what a close does to an attach: `crossed` are the clients
whose attach was past its subscribe when a close went through one of its halves, and `deaf`
is set when such an attach ends, or when a close is dropped between its halves, until the
engine is subscribed to again or the state is removed.

*The engine is external.* What is assumed of it, from how the hub uses it: it
runs one turn per session and answers `SESSION_BUSY` to a second; only a loaded
session has subscribers, and a closed one loses them; events of a turn arrive in
order, to subscribers, while the turn runs; a turn is written to the log once, at
some moment after it began, also after `run_turn` returned; `session.history`
may fail, which `history_total` counts as an empty transcript.

### DeviceBook and Pairing

`DeviceBook` has two steps: a device never enrolled before is enrolled, an
enrolled one is revoked. `Pairing` implements it with `enrolled <- paired`.

The calls of `nest.devices.*` and `POST /pair` hold no `await`, but run on several
threads, and `pending` and `paired` are behind a mutex each: `Sweep` is the
sweep every call begins with, `BeginPairing`, `CompleteMatches` or
`CompleteRefused`, and `Revoke` the critical section after it, and `CompletePairs` the
second lock of `complete_pairing`. A call goes by the time it read before it
locked, and `SystemTime` may go backwards, so that time is any. A code is named by the
call that minted it and a device by its code, as its id is a hash of it. A window's handle
is a hash of the time: two windows opened at one moment share it, and the later
replaces the earlier.

### Channels

A credential is named by the handshake that made it. `AdmitDevice` looks the
device up and reads the clock, `Redeem` spends the challenge and checks the signature,
`AddClient`, `RecordCredential` and `RecordSink` are the three locks of
`Sessions::establish`. The read loop of a websocket ends its credential in
`EndSinks`, `EndCredential` and `RemoveClient`; split streams never end theirs.
`StreamGet`, `StreamSubscribe` and `StreamTake` are `stream_for`. A call arrives
(`CallArrives`, with the permit of a websocket), may register its client as a
watcher (`CallWatches`) and replies, also after its connection has ended: a spawned
call is not stopped. `RequestDropped` is an HTTP request going away with its client at
any of its awaits. Devices come and go by the steps of `DeviceBook`. The loopback
listener, which admits on the token alone and keeps no state for it, is left out.
This module is where `HubFrames`' `Disconnect` comes from, and why it leaves calls
under way.

### DurableDocument and Overlay

`DurableDocument` is a document that changes, is saved as a whole, may be lost while
the process is down, and comes back as saved; or, where it cannot be read, blank, with what
was saved kept until the next save replaces it (`RestartBlind`). `Overlay` implements it with `saved` as
what a start would make of `state.json` (`Loaded`).

`Store::update` is `Update` (the closure, under the lock), `PersistWrites` (the
temporary file) and `PersistRenames`, with the lock held from the first to the last;
`PersistFails` is a write or rename that fails and is only logged. A call that looks
at something before it locks has an action for each: `CreateChecks` (`is_dir`) and
`CreateEnters`; `ProjectChecks`, `ProjectMakes` and `ProjectEnters` for
`projects_create`; `NoteAsks` (`session_must_exist`) and `SessionRename` or
`SessionArchive`. `WorkspacesUpdate`, `WorkspacesReorder`, `WorkspacesRemove` and
`PrefsSet` only take the lock. `Crash` and `Open` are an end of the process anywhere
and a start: `OpenReads` from what the disk holds, or `OpenBlind`, when the file is there
and the read of it fails (`store.rs:100`): fresh, with no backup. `Damage` is a hand that
breaks the file while the process is down, which `OpenReads` renames out of the way, if that
works. `unsaved` is history: memory is known to differ from the disk. Directories
and engine sessions come and go meanwhile (`World`). A workspace's id is the call
that made it.

### Settings

`settings_set` is `SetChecks`, `SetReads`, `SetOpens` (the temporary file is truncated),
`SetFills`, `SetRenames`, `SetReloads`, and then `DescribeReads` once for each tier:
`settings_describe`, which ends the call. `SetFails` and `SetDropped` are its ways
out. Two sets of one tier have one temporary name; `held` says under which name the file a
set has open is found by then, so a set may write into a file that another has
already renamed into place. `Edit` is an edit in one piece, by hand or by the engine
for `setProvider`. A read that fails counts as an empty document (`settings.rs:226`,
`MayNotRead`). `want`, `blind`, `lost`, `raced` and `crossed` are history: each tier as the
edits say, in order; the sets whose read failed, and the keys their renames took out; where
and for whom two were at one tier.

### Packages

`Grants` is `nest.upload.begin` and `nest.plugins.upload`; a POST is `PutClaims`,
`PutOpens`, `PutFills`. A plugin call asks the engine (`Installs`, `Manages`), takes the
lock of the callback (`RefreshLocks`), lists (`RefreshLists`) and applies
(`RefreshApplies`: the static face at once, the hub in a spawned task, `Tells`); its
request may go away at either await (`ChangeDropped`). The start itself does the first
refresh. What matters of a manifest is, for each module, the API it declares and whether
its file is there. A `Headless` face answers nothing, while hello tells the same.
`owing` is history: the changes that no listing has followed yet.

### Methods, Startup and Process

`Methods` has the names as the code lists them, the table (`Table`, `Decide`) and who
answers a name (`Answers`). `Startup` takes one action for each part of `main`:
`Starts` (flags over profile), `BuildsEngine` (scenes, a credential or a provider),
`OpensStore`, `Assembles` (devices' methods, admission, pairing code), `Binds` for one
listener after the other, and the ways it ends: `AssemblyFails`, `ServeFails`, `Stops`,
`Crashes`. Only `Stops` removes the uploads of its start. Devices and codes are in
memory and go with the process.

`Process` runs calls through the gate: `Asks` on any listener, `Sinks` (the sink, under its
lock), `Rings` (the ring, under the other, then the call runs or is refused),
`Answered`, and `TimelineWrites` for the spawned append. When the process ends the
ring, the calls and the appends under way end with it (`CallsEnd`).

### ClientView

A call of `openSession` is `Opening` (`resetSession` and the first calls), then at the hub
`CountsHistory`, which reads the depth of the transcript with no lock held, and `Attaches`,
which makes the client a watcher and makes up the reply under the lock; then `TakesReply`,
and for each page `ReadsPage` at the engine and `DrawsPage`. The last page draws the replay
and the asks in the same step, as no await lies between. An attach or a page may fail
(`AttachFails`, `PageFails`). `TakesFrame` is `handleNotification` of a `nest.event`.
`ConnectionDrops` rejects what is under way; `Reconnects` begins `boot`, whose calls end in
`Boots`, an `Opening` of whatever is open then, or in `BootFails`. A call and a reply travel on
their own: a detach may overtake an attach, a reply a frame, and the other way round.

Of the hub it has what a client can tell apart, each in the critical section it has in the
code: `ReadsDepth`, before a turn opens and before it settles; `OpensTurn`; `Says`, `Asks` and
`Finishes`, the events of a turn; `Logs`, the engine's write of the transcript, at any moment
after the turn's last event; and `Settles`, which clears the buffer only if the depth it read had
grown. So an attach may count a transcript that lacks a turn and reply after that turn has
settled, or count it and be replayed it too. `untold` and `again` of a reply are history: the
messages it tells by neither the depth nor the buffer, and those it tells by both. Against
`HubFrames` it has one turn at a time, no close, and numbers that are sent as they are
assigned.

An event that draws a block is a number, the same in the transcript, the replay and the
frames, so that what is drawn can be compared with what was said. `rivals` and
`overtaken` are history: the older opens of the same session that were under way when the
view was emptied, and the messages that were drawn ahead of what the load had yet to draw.

## 3. The runs

A run that passes is a state space TLC exhausts. Under each property some
mutation of the mapped code (the definitions commented `Mutant`) breaks it.

| run | instance | shows |
|---|---|---|
| `turns` | 3 sends, 1 interrupt, 1 removal, 1 close, all HTTP | a message has exactly one place; busy means driven; only a message queued on a stale check is left behind, unless a driver was lost with its send; the loop implements `TurnLedger` |
| `turns-live` | 3 sends, 1 interrupt, all HTTP | a promised turn is reported; a queue with a driver is worked off |
| `frames` | 2 sends, 1 HTTP client, failing reads, a buffer of 2 frames, events up to number 4 | what follows the reply of an attach continues it; the buffer holds the running turn from its opening |
| `frames-close` | 1 send, 1 HTTP close, 2 clients, one of them HTTP | the hub is deaf to a session someone is attached to, or that is marked subscribed, only after a close fell into an attach past its subscribe or stopped half way |
| `replay` | 2 turns, 2 kinds, texts to 2, 5 events, 2 frames, 7 bytes | a snapshot has no hole; `truncated` says exactly when its start is missing; nothing is dropped while it fits |
| `pairing` | 2 codes, 3 guesses, 1 revocation, 3 times, a window of 1, 2 attempts | a code pairs one device, in time; it burns at the limit and not before; a revocation is final |
| `channels` | 1 websocket, 1 split-streams handshake, 2 streams, 2 calls, 1 device, 2 challenges, 1 permit | a challenge admits once, and only while its time was not over; a face has one reader and is queued for it; an ended connection leaves nothing but what a late call watches; a client has a credential |
| `store` | 2 creates, 1 project, 1 note, 1 edit, 1 path, 1 session, 1 crash, 1 fault (a write, a rename or the read of a start) | the store implements `DurableDocument`; what was answered is on disk unless the last write failed or the process began blank over a file it could not read; the list stays well formed; a reorder moves one |
| `settings` | 2 sets, 1 edit, 2 keys, 2 values, the global and project tiers, reads that fail | where no two were at a tier at once, each key shows its last edit, or nothing since a set that could not read the file; a set's answer shows its value |
| `packages` | 1 plugin with 2 builds, 2 changes, 1 token, 2 POSTs, ceilings 1 and 2, sizes to 3 | the static face follows the engine; where the task of the last refresh ran last, hello tells of the modules that load, and each can be imported; a grant is spent once, and its file is what was sent |
| `process` | 3 profiles, 5 sets of flags, 3 environments, 1 device, 2 starts, 3 calls, a ring of 2 | a remote listener has TLS and paired admission; table and dispatch agree; no call runs unrecorded |
| `client` | 2 sessions, 2 opens at a time, pages of 1 and 2 of them at an open, a conversation of one turn that goes on to event 4 | of the conversation the view shows the open session's only; of what the hub told nothing is missed but what is announced as cut or older than an open loads, and an ask that waits has a card; with no rival open, the messages are in order and each once, but for those that came while the open was loading and those the reply told twice |

The type invariants of `Pairing`, `Overlay`, `Settings` and `Packages` are defined and
proved (see 4), and are not among the runs' properties.

*Why these bounds.* Two sends are what a stale check needs; with the third there
is a queue of two, so that order, removal from the middle and a second driver
finding a non-empty queue all happen. A second interrupt or close would only
repeat an action that is enabled in every state anyway. One client is enough for
the catch-up properties, which speak of one client and the session at a time;
clients only meet in `watchers`, a set. Two frames of buffer make trimming happen
within one turn, and 4 numbers let a turn open, emit and be followed by another.
`replay` lets three kinds of weight meet a ceiling of 7 in every order of five.
In `frames` the sends are not HTTP calls: a send dropped after its opening was
numbered leaves its watchers without that number, so `FramesFollowTheReply` speaks
of sends that are carried through. In `pairing` an attempt limit of 2 with 3 guesses lets a code be burned, be missed by
one, and be guessed at after it was spent; a window of 1 among times 0 to 2 has a time
before, at and after its end. In `channels` two handshakes race for either challenge, two
streams for one face, two calls for one permit. `MaxSeq` bounds engine events only (`HubFrames`) or all pushes (`ReplayPushes`).
In `store` two creates race for one path while a project makes the same path, the
single edit is any of update, reorder, remove and prefs.set, and the one fault can be followed
by a write that works, by a crash, or by both; a second crash would start from a file that a
first one can leave already. In `settings` two sets are what one temporary file can be
shared by, and the third writer is the edit; the tier left out (`scene`) is one that has no
path. In `packages` the two builds have one entry of each kind: one that loads, one that
declares no API, one that declares another, one without a file; three refreshes with the
one at startup leave two tasks to overtake one another; a body can be below, at and above
the smaller ceiling. In `process` the flags are none, each half of
TLS, both, and a host of their own; a ring of 2 with three calls drops one; the second
start finds what a first one left. In `client` an open begins again as soon as it has ended and
the connection drops as often as it likes, so a view is left and come back to while an
older open of it is still loading; only one session talks (`Talking`), the other is what
the view moves to; its events are those of a turn said and written before the start and of
a second that runs, settles and is written meanwhile, so an attach falls into every gap between
these. Its transcript of two messages fits the two pages, so that pages are read one by one
while it grows; with `PagesAtOpen = 1` it outgrows what an open loads, and the run passes too (1.8
million states), also with reads that fail (`HistoryMayFail = TRUE`, 6.9 million). In `frames-close` nothing
but the close and the attaches can make the hub deaf; the send is there for the state that is
made anew without an attach, and the second client for an attach that repairs what another left.
`MaxCrashes`, `MaxFaults` and `MaxStarts` bound what
would otherwise go on for ever.

*Symmetry* is used in the safety runs only, over calls of one kind and over
clients, whose names no guard compares. (`store` permutes the creates, whose names are
workspace ids: two of them are compared for equality only.) `KeepsThePromise`,
`KeepsTheDocument` and the other properties of steps are safety properties too.

*Deadlock* is off but in `replay` and `client`, which never stop: when every call has
returned, and every start has ended, the system rests.

*Fairness* (`HubTurns!Fairness`) is weak fairness of each task that has begun:
tokio goes on scheduling a spawned or awaited task whose future is ready, the
mutex is held over no `await`, and `run_turn` is assumed to return, since the hub
has no timeout of its own on it. Nothing is assumed of calls that have not begun:
no client need ever call, and no interrupt need ever come. A dropped call is
never forced either, and a call that was dropped has nothing left to schedule.

## 4. The proofs

Every safety property of every run is a theorem, for every value of the
constants the assumptions admit.

### The buffer (`HubProofs`, first part)

For any ceilings, turns, kinds and events: `PushesTypesHold`, `SnapshotsHaveNoHole`,
`HolesAreAlwaysReported`, `NothingIsDroppedInVain`. The invariant `PushesInv` relates
the buffer to the log of what was pushed: the frames are `Contiguous` up to the last
number, none begins before the one in front of it (`Rising`), each has all the text of the
numbers it carries (`TellsAll`), the cut is marked or there is none (`CutIsMarked`), and the
byte count is never above what the frames weigh. `Trim` drops the *least* number of
frames that brings the buffer under its ceilings, and what the buffer weighs is a sum
over a sequence. Neither can be had by an induction whose predicate is a parameter (no installed
prover instantiates those), so both go over sets of numbers: `LeastNumber` follows from
`WFMin`, `NumberInduction` from it, and what is to be shown of every `n` is put as a set
of numbers. Assumptions: `BufferBounds`, `PushesBounds` (numbers, and ceilings above 0).

### The turn loop (`HubProofs`, second part)

For any number of sends, interrupts, removals and closes: `TypeCorrect`,
`MessagesHaveOnePlace`, `BusySessionsAreDriven`, `StrandingIsStale` and, by
refinement, `HubKeepsThePromise`.

The properties are not inductive on their own. That a message is in one place
says nothing of a driver whose `cur` is stale, and a settlement could then take a
second message while holding a first. The inductive invariant `IInv` adds `Shape`:
a driver has a next message only from its settlement on, it never has the message
it is settling as the next one too, a send that was not taken on answers for
nothing but itself, and a send never stands where only an interrupt or a close can. `IInv` is the type invariant, `Shape`, one place, busy means
driven, and stranding, which lean on one another: that a settlement clears
`running_turn` safely needs both the first and the last. `InvStep` has one step
per action; `DriveFrame` says once what a step that moves no driver leaves alone. `LedgerStep` maps each action to a step of `TurnLedger` or a stutter.

Assumption: `TasksAreDistinct` (the calls are distinct tasks, and `None` is not one).

### Catch-up and fan-out (`HubProofs`, third part)

`FramesImplementTurns`: with frames, attaches and
disconnects added, every behaviour is still one of `HubTurns`, so each theorem
above carries over (`FramesKeepOnePlace`).

`FramesTypeCorrect` and `RunningTurnsAreBuffered` rest on `FramesInv`: the types of
the frame side (`FieldsInv`) and `BufferInv`, the frames continue each other up to the last number and, while nothing was cut, begin
with the message of the running turn. They hold whatever the calls, closes and dropped
requests.

`HubIsDeafOnlyThroughAClose`: whatever the calls, closes, dropped requests and clients, the hub is
subscribed at the engine to a session that someone is attached to or that is marked
subscribed, unless a close did it (`deaf`). `ListenInv` says what each stage of an attach
has established that no close fell into (`crossed`): the engine is subscribed to, or a close is
between its halves, or `deaf` is set.
With no close excepted, as the comment in `replay.rs` has it, the property is false
(`AttachedMeansListening`, `MCHubFramesStaleAttach.cfg`).

`AttachedMissNothing`, for `FramesFollowTheReply`: what a client got since its reply, with what is under way to it,
is every number assigned since, each once, and events come in order. Its
premises are those of the run: no close, which resets `seq`
(`MCHubFramesReopened.cfg`), and no send that is dropped with its request
(`HttpCalls \cap Sends = {}`), since one dropped between numbering an opening
and sending it leaves its watchers without that number for good. The invariant
`FollowInv` adds that openings under way are told apart by their numbers and
belong to a driver that stands before its fan-out, and that an attached client
watches. `FollowKept` serves all steps that touch none of it.

Assumption besides those above: `ClientsAreNotNone`.

### The doors (`PairingProofs`, `ChannelsProofs`)

`PairingProofs` proves, for any calls, times, window and limit, `CodesPairOnce`,
`GuessesBurn`, `GoodCodesAreKept` and, by refinement, `RevokedStaysRevoked`. What
makes them inductive is `WindowsTellTheTruth`: an open window belongs to a code that was
shown and not spent, has the handle and expiry of the time it was opened at, and as many
attempts as the code saw wrong guesses (so at most one window has a given code);
`FreshCodesAreUnguessed` starts that count, and `DevicesHavePaired` says that a
device has a completing call that went through both locks, which is why a call between
them can only enrol a device for the first time. Assumptions: `CallsAreDistinct`,
`PairingNumbers` (the limit is at least 1).

`ChannelsProofs` proves `TypeCorrect` and `ChallengesAreSpentOnce`. `ChallengesAdmitOnce`,
that it was in time included, needs that whoever has a client or a credential never looks at another challenge
(`Settled`), that a handshake redeems a challenge minted here (`Redeeming`), and that
a credential is recorded only for one that has its client (`Recording`). `GoingOn` and
`AsideStep` say once what steps that admit no one leave alone.

On top of that invariant, `Places` says what each stage of a handshake, a call and a
stream may have left in the hub and in the maps of the sessions (`PlacedAt`,
`CarriedAt`, `ReadAt`): a sink stands exactly while the connection is established, a
call's connection was established once, whoever reads a face took its receiver. From it follow `OneReaderPerFace`,
`EndsAreClean` and `ClientsAreReachable`. Assumption: `ChannelsAreDistinct`.

### What is kept (`OverlayProofs`, `SettingsProofs`, `PackagesProofs`)

`OverlayProofs` proves `AnsweredChangesAreSaved` and, by refinement,
`StoreKeepsTheDocument`, for any calls, sessions, crashes and faults, the read of a start that fails
among them (`OpenBlind` maps to `RestartBlind`). `PersistInv` says
what the lock buys: one call at most is writing or renaming, only in a process that runs,
what a renaming call wrote is what is in memory still, and a free lock means saved or
marked unsaved. `StepsOfCalls` sorts all calls by what they do to the store, so
that the invariant is shown once for `Update`, `Persist` and steps aside.

`NotesStayWellFounded` and `StoreTypesHold` need the same of all three documents, in
memory, on disk and in the temporary file, as a restart may serve any of them
(`NotesInv`); a workspace's name is that of a call past its lock (`Entered`), which is
why a call that enters one brings a new name, and what a call learnt before its lock
still holds when it takes it (`Asked`). `ReordersMoveOne` is a property of one step: what
`retain` and `insert` make of any list. Assumptions: `CallsAreDistinct`, `NoneIsNoValue`.

`SettingsProofs` proves `KeysShowTheirLastEdits`, reads that fail included. `QuietInv` says, of a tier nobody raced
for, that one set at most is at it, that the document it made up is the tier as it still stands
with its change, or its change alone if it could not read it, and that the temporary file is its own. `WritesAreShown` follows the other
ghost, `crossed`: a set nobody crossed is alone at its tier until it has renamed (`Alone`), and
from then on its value stands in the file until it is read, and then in the answer (`Stands`),
whatever is edited at the other two tiers meanwhile. Assumption: `ConstantsAreApart`.

`PackagesProofs` proves `StaticFaceIsCurrent`, `PackagesTypeOK`, `GrantsAreSpentOnce` and
`ToldModulesAreServed`. For the
first, `RefreshInv`: refreshes are one at a time (`OneAtATime`, which is the lock), and the
listing of a refresh under way is what the engine has, but for changes that are still owing
(`Fresh`, `Books`). For the third, `Spent` and `Alone`: a token some POST got past the claim with
is granted no more, and no two POSTs are past it with one token, so what one writes nobody
else touches. For the last, `TellInv`: the task of the last refresh carries the modules of what is installed and
enabled unless a listing is owed (`TaskIsCurrent`), and so does hello once it has
run (`ToldIsCurrent`); it speaks of nodes with an interface and without. Assumption: `PackagesAssumption`.

### The process (`ProcessProofs`)

`NetworkIsGuarded` and `TableIsTheDispatch` rest on `Assembled`: nothing listens before
everything is assembled, and what is assembled is what the address asks for. That no
name of the registry is also refused, passed through or answered by the hub
(`NamesAreApart`) is a fact about the lists of `Methods`, checked name by name.
`EveryCallIsRecorded` needs `CallsInv`: a call's entry is as far from the end of the
ring as there are newer ones, however many starts and whatever the ring's size.
Assumptions: `StartupAssumption`, `CallsAssumption` (the ring has room for one).

### The browser (`ClientViewProofs`)

For any sessions, opens, page sizes and events. `OnlyTheOpenSessionIsDrawn` rests on `Safe`: the
hub's log and the wire keep their numbers in order (`HubInv`), and each stage of an open
holds a reply and a page that fit its session's log, whether or not that session is
still open (`TaskFits`, `OpenFits`, `BlocksFit`).

`NothingIsEverMissed` cannot be shown by looking at the last open alone. `openSession` sets
`state.seq` back to its reply's number, so that a frame passed over before may have been drawn
by nobody, and frames on the wire that are above the cursor now may not be then. `Cover`
says who owes what. A wanted number is *settled* when it is drawn, warned of, older than
what an open loads, or told by the hub in no reply (`Untold`), and a live open *owes* it when its reply's replay or asks, or a page it has still
to read, will draw it. `Told`: up to the number the hub told an open, all that is wanted is
settled, or owed by that open or the last one. `Covered`: while the hub has the client for a
watcher, all that is wanted is settled, on its way above the cursor, or owed by a live open.
Their premise `Going` leaves out opens that failed in between: such a one took its reply,
set the cursor, and never drew what it was to draw, which is the property's own premise.

`MessagesStandInOrder` rests on `Order`: in the view of an open without rivals (`Alone`), the messages
drawn so far are `InPlace`: of two, the one that stands first has the lower number, or was drawn
ahead of its turn (`overtaken`), or both were told twice (`again`). Those of the pages are in the transcript before the
place the open has reached, and once it has drawn, none but the overtaken is above the cursor, so that the
next frame goes below them all. What `Ascending` makes of a set of numbers (each once, least first) is had
from `WFMin` and from injections between finite sets, not by recursion.
Neither theorem assumes anything of when the engine writes, when
the hub settles, or whether its reads work. Assumption: `ClientAssumption` (numbers, a page of one at least, finitely many calls of `openSession`).

### Only model-checked

All liveness (`PromisedTurnsSettle`, `DriversEmptyTheQueue`) and the properties of section 5: the
prover handles neither fairness nor `ENABLED`, and what is false has no proof.

## 5. Where the code and its words part

These are stated in the modules, with a configuration each, outside the listed runs;
`tlc -config MCHubTurnsStranded.cfg MCHubTurns` and the like show them.

| property | configuration | what happens |
|---|---|---|
| `NoSessionStaysBusy` | `MCHubTurnsBusy.cfg` | a send's HTTP request is dropped between the critical section that sets `running_turn` and the spawn of the loop: nothing ever settles that turn, and every later send is queued behind it |
| `QueuedIsSent` | `MCHubTurnsStranded.cfg` | a send that read "busy" queues after the last driver looked at the queue; its message waits for an unrelated later send |
| `StopAbandonsTheQueue` | `MCHubTurnsStop.cfg` | the interrupted turn settles and takes the next message before the interrupt clears the queue |
| `CaughtUpAtLeastOnce` | `MCHubFramesNowhere.cfg` | an attach that reads the transcript before the engine writes it and replies after the turn settled gets the turn neither from history nor from replay |
| `RevokedDevicesLoseTheirChannels` | `MCChannelsRevoked.cfg` | revoking a device removes it from the list and writes a log line; its credentials and connections go on |
| `EngineNeverRefuses` | `MCHubTurnsRefused.cfg` | two sends that both read "idle" become two drivers; the engine refuses the second turn |
| `QueueShownIsCurrent` | `MCHubTurnsShown.cfg` | two whole-queue pushes leave in the other order than they were read; the older one stays |
| `CaughtUpAtMostOnce` | `MCHubFramesTwice.cfg` | between the engine's log write and settlement an attach gets a turn both from history and from replay |
| `AttachedMeansListening` | `MCHubFramesStaleAttach.cfg` | a close between an attach's steps leaves a state marked subscribed that is not, and no later attach repairs it |
| `FinishedTurnIsSomewhere` | `MCHubFramesLateLog.cfg` | the next opening clears a turn not yet on disk |
| `NumbersAreNotReused` | `MCHubFramesReopened.cfg` | close resets `seq` while a client goes on |
| `WatchedTurnsAreObserved` | `MCHubFramesUnobserved.cfg` | a send without an attach watches a session nobody subscribed to |

These have no configuration of their own: take the one named, without its `SYMMETRY`,
`INVARIANT` and `PROPERTY` lines, and add the property as its one `INVARIANT`
(`ReplacedIsBackedUp` as its one `PROPERTY`).

| property | of | what the sources say, and what happens |
|---|---|---|
| `SeqNeverGoesBack` | `MCHubFrames.cfg` | an opening is overtaken by a later number |
| `UnderTheByteCeiling` | `MCReplayPushes.cfg` | "the byte ceiling over them" (`hub/src/replay.rs:21`): merged deltas are not trimmed |
| `EndedWatchesNothing` | `MCChannels.cfg` | a call in flight when its connection ended registers a watcher whose client is gone |
| `InOrder` | `MCClientView.cfg` | "history first, replay second" (`ui/shell/session.js:5`) is kept, but a frame that comes while the pages load is drawn above them, and what history and replay both tell is drawn twice |
| `AsksAreDrawnOnce` | `MCClientView.cfg` | an ask that waits is in the replay and in `pending_prompts`, and `openSession` draws both: a refresh shows two cards |
| `EditsSurvive` | `MCSettings.cfg` | "a hand edit or an engine write must survive this" (`builtin/src/settings.rs:220`): one that falls between a set's read and its rename does not; nor does any, with nobody else there, when that read fails and counts as an empty file (line 226) |
| `ReplacedIsBackedUp` | `MCOverlay.cfg` | "an unreadable or unparsable one is backed up and replaced" (`builtin/src/store.rs:83`): one that is there but cannot be read is not backed up (line 100), and the first change replaces it |
| `InstallShows` | `MCPackages.cfg` | a package need not wait for a restart to appear (`builtin/src/plugins.rs:112`): the task of an earlier refresh runs after that of a later one, and hello goes on telling the older list |
| `CredentialsAreTold` | `MCProcess.cfg` | "Whether a usable credential was found at startup" (`assembly/src/engine.rs:80`): with a provider in the settings and no key in the environment it was, and the flag is false |
| `SettingsTakeTheDefaultScene` | `MCProcess.cfg` | a call that names no scene falls back "to the engine's own default" (`builtin/src/settings.rs:65`): it takes the first of a list that `engine.rs` has sorted by name |
| `OwnPageConnects` | `MCProcess.cfg` | the origins a socket accepts are those of this machine (`transport/src/lib.rs:176`), also when the node serves its interface to another |
| `ConsequentialLands` | `MCProcess.cfg` | "a device paired or revoked, an extension installed" belong in the timeline (`app/src/audit_log.rs:18`): those calls name no session and are filed nowhere |
| `TimelineKeepsTheOrder` | `MCProcess.cfg` | "in order with every other entry" (`app/src/audit_log.rs:5`): each append is a task of its own |

A comment that no model is about: `app/src/main.rs:66` says "Loopback only for now" of the bind
address, which `--host` sets to any, with TLS and paired admission then (`RemoteIsGuarded` in `process`).

## 6. Plan

What is here, and what comes next to it:

1. `HubTurns`, `TurnLedger`: done, proved but for liveness.
2. `HubFrames`, `ReplayBuffer`, `ReplayPushes`: done and proved.
3. Next, `HubPrompts` over the attach of `HubFrames`: `pending_prompts`, answering, two
   first attaches that both fetch the engine's pending prompts. Property: an
   answered prompt is gone everywhere in the end, and is answered once.
4. `Pairing`, `DeviceBook`: done and proved.
5. `Channels`: done and proved; next its outbound queues, with the promise that a call
   carried by a living connection is answered once.
6. `Overlay`, `DurableDocument`, `Settings`, `Packages`: done and proved.
7. `Methods`, `Startup`, `Process`: done and proved.
8. `ClientView`: done with the hub's steps a client can tell apart, and proved; next its composition with
   `HubFrames`, and the streams of `split_streams`, which reconnect without an attach.

## 7. Not modelled

How `pending_prompts` is fetched and shared, and the outbound queues of a transport
session, are left by the plan. Of the browser interface what is around the conversation is left out:
the queue, the settlement notes, the request envelope, the panels and the contributions;
so is the growth of one block by several deltas. Recordings, search, `nest.plugins.list`, file
listings, `recentProjects`, hello and the catalog only read, and what they read is
abstracted away elsewhere. Of the assembly, ports, models, tracing and the directories of
`paths.rs` are left out, of the static face the interface files built into the binary
and the export. One process is assumed to have a state root to itself: the code takes no lock on
it, and two of them on one `state.json` are no configuration it documents. The wording
of errors, the content of events, messages, archives and settings are abstracted to
what the properties tell apart. The engine is external. One session of the hub is
modelled at a time: sessions share nothing but the mutex, whose exclusion is what
an action is. `Overlay`, `Settings`, `Packages` and `Process` share no state in the code
beyond what each models of its surroundings (a directory, a session, a task to the
hub), and are checked apart.
