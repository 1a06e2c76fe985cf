# Verification of zskins

TLA+ models of the concurrent and stateful parts of zskins: `zofi` (a launcher),
`zofi-clipd` (its clipboard daemon), `zwindows` (a foreign-toplevel client),
`zbar` (a status bar) and `ztheme` (the shared theme). Paths below are relative
to the repository.

## 1. The system

| component | state | operations | talks to |
|---|---|---|---|
| clipboard database `zofi-clipd/src/db.rs` | SQLite tables `items`, `mimes` | `record`, `touch`, `prune`, `get`, `list` | the daemon, `zofi clipd import`, the launcher (reads) |
| clipboard daemon `zofi-clipd/src/daemon.rs` | `pending`, `offer_mimes`, `held_source/mime/content` | event loop, Dispatch handlers, `process_offer`, IPC `Activate`/`SetSelection` | compositor (data-control protocol), applications (pipes), launchers (Unix socket), database |
| daemon start-up `pidfile.rs`, `sources/clipboard.rs` | pid file, lock, socket | probe, spawn, wait, acquire, bind | launcher processes, daemon processes |
| foreign-toplevel client `zwindows/src/client.rs`, `registry.rs` | `registry`, `handles` | Dispatch handlers, `emit` (blocking), `activate` | compositor, windows source (bounded channel) |
| windows source `zofi/src/sources/windows.rs` | `items`, `last_active`, icon memo, thumbnails | `apply_event`, `filter`, `weight`, `activate`, capture thread | zwindows, launcher (pulse channel) |
| union source `zofi/src/sources/union.rs` | `routing`, `active_child` | `filter`, `route`, `set_sub_filter`, `take_pulse` | its children, launcher |
| launcher `zofi/src/launcher.rs` | slots, `filtered`, cursors, panes, `last_query`, peek | keys, clicks, tabs, prefix switch, pulses, confirm | sources, text input, usage tracker |
| text input `zofi/src/input.rs` | `content`, `selected_range`, `marked_range` | edits, IME, `set_text` | launcher (observer, callback) |
| usage tracker `zofi/src/usage.rs` | counts in memory and in SQLite | `record`, `frecency_bonus` | launcher, sources, other launchers |
| theme `ztheme/src/lib.rs`, `watcher.rs` | current theme; watcher thread | `load`, `watch`, drop | file system, GPUI |
| tray `zbar/src/modules/tray.rs`, `tray_menu.rs` | items, open menu; per-item tasks | register, owner lost, activate, menu, theme change | D-Bus, GPUI (bounded channels) |
| workspaces `zbar/src/backend/*`, `modules/workspaces.rs` | builders, last snapshot, sinks | Dispatch handlers, `run`, `activate`, reconnect | compositor or sway, one module per bar |
| brightness, volume `zbar/src/modules/{brightness,volume}.rs` | target, echo channel | set, poll, worker, reconnect | sysfs, ddcutil, pactl |
| network, bluetooth, quick settings `zbar/src/net_info.rs`, `bluetooth.rs`, `modules/network_popup.rs`, `modules/quicksettings/*` | interface tables, snapshots, command queue, sliders, OSD windows, pills | netlink worker, BlueZ loop, panels, probes and commands | netlink, D-Bus, processes |
| popups `zbar/src/popup_catcher.rs`, `modules/settings.rs`, `modules/network.rs`, `tray_menu.rs` | open popup and catchers of each module, relay channels | toggle, dismiss others, catcher click, escape | each other, through a registry of channels |
| window capture `zwindows/src/toplevel_capture.rs`, `screencopy.rs` | one session per window | `capture_toplevels` with a deadline | compositor |
| window title, clock, battery, cpu | one value each | poll or event stream | sysfs, sway, niri |
| compositor queries, icons, highlighting, files source | none | one request, or file lookup | sway, Hyprland, file system |

What is hard in this code: a single-threaded loop whose reads run nested event
dispatch (the daemon); a chain of threads and bounded channels of which some
block and some drop (windows to launcher, tray, workspaces, brightness); index
arithmetic against lists that another thread changes (launcher, union);
deferred closures and observers that run after the handler that queued them
(launcher and its input); select loops that drop the branch that lost (tray);
workers behind a channel of one slot and polls that race what they read
(brightness, bluetooth, pills); processes that share a database or a socket
(daemon, import, launchers), or die half way to it.

What makes each component correct:

* database: an item always has its primary content, no duplicates, no orphans,
  what is stored does not change, pruning takes the oldest;
* daemon: every copy is remembered, what the daemon owns it can serve, a paste
  gets the content of the selection it was made from, the daemon never waits on
  itself, every launcher is answered; one daemon listens, however many start;
* windows: the list equals the compositor's windows once things calm down, each
  window once, never after it closed, no wakeup lost;
* launcher: indices in range, the row that is activated is one of the view, the
  input and the filter agree;
* text input: every offset it keeps is one the text has;
* usage: no activation of one launcher is lost to another;
* theme: the last theme written is the last one applied;
* tray: every registered item is shown until its owner goes, in the colour of
  the theme, and popups exclude each other;
* workspaces: every bar ends with the last snapshot, also after a reconnect;
* brightness, volume, network, bluetooth, pills, title: what is shown ends up as
  what is there, the last level asked for is the one written, and no worker and
  no window stays behind;
* capture: whatever way a capture ends, the compositor is told to let it go.

## 2. Modules

| module | models | composes |
|---|---|---|
| `ClipStore` | the database as an abstract specification: one action per transaction | |
| `ClipDaemon` | the daemon, compositor, applications, clients, importer | extends `ClipStore` and implements its `StoreSpec` |
| `DaemonStart` | pid file, lock and socket between launchers and daemons that start and die | |
| `WindowLifecycle` | abstract: a window is shown at most once | |
| `ToplevelFeed` | zwindows thread, event channel, windows thread, pulse forwarder, launcher task | implements `WindowLifecycle` |
| `Launcher` | launcher, its input's observer, registry, union and windows list | |
| `TextInput` | the text field: keys, mouse, composing | |
| `Usage` | the counts of several launchers and their database | |
| `Capture` | `capture_toplevels` and the protocol objects it makes | |
| `WorkspaceBar` | the workspaces module of each bar, its channel, the optimistic highlight of a click | |
| `SwayBackend` | sway, one IPC session per bar, the click threads | extends `WorkspaceBar` |
| `ExtWorkspace` | compositor, the one Wayland session, sinks and replay, the main thread | extends `WorkspaceBar` |
| `Tray` | notifier watcher, session loop, item tasks, the module, applications | |
| `Popups` | the four kinds of popup, their catchers and relays | |
| `ThemeWatch`, `Brightness`, `Volume`, `NetInfo`, `Bluetooth`, `QuickPanel`, `Pills`, `WindowTitle` | one part of zbar each, with its threads and the outside it follows | |
| `ClipStore_proofs`, `ClipDaemon_proofs`, `ToplevelFeed_proofs`, `Launcher_proofs`, `Workspaces_proofs` | theorems | each extends the module it is named after (`Workspaces_proofs`: both backends) |
| `Zofi_proofs`, `Tray_proofs`, `Bar_proofs` | theorems about `Usage`, `DaemonStart`, `Capture`, `TextInput`; about `Tray` and `Popups`; about the eight parts of zbar | each extends its instance: `MCZofi` (with `ClipStore_proofs`, `Launcher_proofs`), `MCTray`, `MCBar` |
| `MCClipDaemon`, `MCToplevelFeed`, `MCWorkspaces` | instances for TLC | |
| `MCZofi`, `MCTray`, `MCBar` | instances that are sums of parts (section 3) | `ClipStore`, `Launcher`, `TextInput`, `Usage`, `DaemonStart`, `Capture`; `Tray`, `Popups`; the eight parts of zbar |

### ClipStore

`items` and `rows` are the two tables. A hash is its content (blake3 is taken
as injective), so `hash` holds the bytes. `RecordHit`, `RecordMiss`, `Touch` and
`Prune` are the transactions of `record_with_ts`, `touch` and `prune`; the clock
value of each is any member of `Time`, since `unix_now()` is the wall clock and
`import` passes its own timestamps. `minted` remembers the uuids drawn: a v4 uuid
is never drawn twice. Equal timestamps are ordered by SQLite as it likes.

### ClipDaemon

`pc` is where `run()` and `process_offer()` stand: `dispatch` (dispatch_pending,
line 151), `roundtrip` (inside `receive`, line 439), `record`, `finish` (back in
`run()`: forget the offer, prune), `poll`, `ipc` (the accept loop). The
compositor's events for the daemon are one queue, `events`, the first `nread` of
which the daemon has read off its socket; a handler consumes one of them in
`dispatch` or, nested, in `roundtrip`. Requests travel the other way in `reqs`,
in order, so the compositor may have moved on when it handles them. A source and
the offer the compositor makes of it share a name. `served` records the last
`Send` answered.

Sources that never close their pipe and clients that never write their request
are not modelled (the daemon has no timeout against either, see the hazards);
neither are file descriptors.

### ToplevelFeed

One variable per hop: `wire` (protocol events), `registry`, `handles` and `out`
(the event `send_blocking` holds while the channel is full), `chan`, `items` and
`last_active`, then the two one-slot pulse channels with the forwarder between
them, and the launcher's task. `SessionError` ends the zwindows thread for good:
the code has no reconnect. `fresh` says whether the launcher has filtered the
rows as they are.

### Launcher

The main thread handles one event at a time and flushes its `effects`: observer
calls, queued at most once, and the closure `finish_slot_switch` defers. The
rows of the windows source change at any moment, also between the two halves of
`confirm` (`ReadKey`, `Activate`), which take the source's lock separately.
`drawn` is what the last frame showed, which is what a click refers to. `by` and
`activated` are histories for the properties. What matches a query and how it
ranks is a parameter.

### WorkspaceBar, SwayBackend, ExtWorkspace

A bar has `shown` (`WorkspacesModule.state`) and `chan`, the bounded channel its
backend sends to with a blocking send; `Drained` is what it shows once it has
applied all that is in it. A snapshot is a set of entries: both backends build
an ordered list, and the order never decides anything. `Optimistic` is the
highlight a click makes before the backend is asked.

`SwayBackend`: `pc` is where `run_session` of a bar stands, `sub` its
subscription, `got` the event it is about to send, `cmds` the threads of
`activate`, which overtake each other. An event that does not parse ends the
session (`?` on `classify_event`), is reported as `Disconnected` and repaired by
the reconnect and its fetch; the design document
(docs/superpowers/specs/2026-04-11-zbar-design.md, section 7) wants it dropped
instead. The growth of the reconnect delay is not modelled: `Reconnect` happens
after any time.

`ExtWorkspace`: `wire` is what the compositor sent, each change a batch closed by
`done`, in the orders the protocol leaves open; `builders`, `groups` and
`outputs` are the session's mirror; `by_key`, `session`, `sinks` and `last` are
shared with the main thread, `task` is where each bar's task is and `xpc` the
session thread. `CloneSinks` is a step of its own because `broadcast` runs after
the lock of `last_snapshot` is released, and `PushSink` and `Replay` are two
because `run` takes the two locks one after the other. A workspace handle is its
protocol id; a group is named by its output. Outputs that appear after a session
started are not modelled (the session binds those of its first registry).

### TextInput

`sel` is `selected_range` with `selection_reversed`, `marked` is `marked_range`,
both byte offsets; a text is a sequence of characters whose lengths in bytes and
in UTF-16 units are parameters, and a character is a grapheme. `Octets[s][k]` and
`Units[s][k]` are the lengths of the first `k` characters of `s`, recursive
functions of `k`. `hits` are the
offsets the layout last painted can yield: `MouseDown` and `MouseMove` take one
of them, or an end of the text, as `index_for_mouse_position` does, while the
text may have changed since. Slicing off a boundary panics, so an edit is only
enabled on one; `OffsetsOnText` says that it always is, except after `misplaced`.

### Usage, DaemonStart, Capture

`Usage`: `trackers[t]` is the map of launcher `t` and whether its database is on
disk or in memory (`open_in_memory` is the fallback). `CountUse` is the UPSERT;
it may fail, and the launcher ends either way.

`DaemonStart`: `procs[p]` is how far the daemon with id `p` has come through
`DaemonLock::acquire` and `run`, one system call per step; an id is used again
once its process is dead (`OtherStarts`). The lock is flock's: it goes with the
process, the files stay. The launcher's side is `Load`, `Waits`, `Quits`.

`Capture`: `objects` are the protocol objects that exist, `capturing` where
`capture_one_toplevel` is; each wait looks at the deadline (`late`) before it
blocks. A window announced while the list is being stopped reaches a throw-away
`State::default()` and its handle is dropped without a destroy (`dropped`).

### Tray, Popups

`Tray`: the session loop of `tray.rs:787` is a race of futures: each branch is a
little state (`watchWork`, `reqWork`) that advances one await at a time, and a
branch that completes, or a tick of the executor, drops the others with what
they had taken from their channels (`DropOthers`). `metas` and `tasks` are the
session's, `items` and `menu` the module's, `msgs` the channel between them.
`registered` is the watcher's table. Applications publish, die and register of
themselves; one whose process is gone does not come back, another is another
item. `missed` remembers what they published while nothing listened. `add_item`
is `StartAdd`, `ProxyBuilt`, `PropsFetched` and `AddSent`, or `AddFails`: an
address that it cannot parse or reach returns an empty meta which its callers
insert all the same. Those entries of `item_metas` are kept apart from `metas`,
in `hollow`: they have no item, no task and no menu, but `TakeEvent` finds them
and does not add the item again.

`Popups`: `popup[k]` is what module `k` believes, `window[k]` and `catchers[k]`
what exists; `relay[k]` are the close signals on their way to it.

### The parts of zbar

* `ThemeWatch`: `watcher` is where the thread of `ztheme::watch` stands,
  `wevents` the file events it has not taken, `themeQueue` the channel to the
  GUI thread. A click writes the file and shows the theme at once (`saving`).
* `Brightness`: per monitor a `target` (the atomic), a `wake` of one slot and a
  `worker` thread; a backlight has processes instead (`procs`) and a poll. `hw`
  is in a device's own units, up to its `scale`: `read_ddc` and `read_backlight`
  divide by it (`ReadPercent`), `brightnessctl` multiplies (`Share`), and the
  worker of a monitor writes the percentage raw, of which the monitor takes what
  it can (`Taken`). Writes, processes and reads fail.
* `Volume`: `pactl subscribe` with its lines, a read for each, a reconnect.
* `NetInfo`: the kernel's links and addresses, the worker's multicast socket
  with its limit (`overrun`), its two caches, the popup with its selection.
* `Bluetooth`: the client's loop over commands, signals and calls; snapshots go
  into a channel that all panels receive from, also the closed ones whose task
  still waits (`waiters`). A snapshot reads one device after the other while they
  change; a device is read right, listed as disconnected (its `connected()`
  failed) or left out, and the snapshot is sent (`DeviceRead`, `DeviceMisread`),
  or it fails as a whole. Without a bus, or when a stream of signals ends, the
  client ends (`gone`). `btLost` remembers what became of the last snapshot.
* `QuickPanel`: sliders, their OSD windows, the release timers, the Wi-Fi scan.
  `bound` is the drag the closures of the last frame captured.
* `Pills`: clicks, the processes they start, the poll that reads the system with
  three processes, one after the other (`probe`). nmcli may be missing or silent
  and rfkill may list no radio: what they then answer is a constant, the fallback
  of `read_from_system`, and a click brings nothing about.
* `WindowTitle`: niri's event stream folded by `NiriTitleTracker`, sway's window
  events filtered by `parse_window_event`, sessions that end and reconnect.

## 3. Runs

| run | instance | properties | shows |
|---|---|---|---|
| `clip_races` | 3 selections, 2 contents, 1 mime, an import | `HeldServesSelection`, `ServedRight`, `NoSelfRead`, `NoPendingEventsExit` | ownership and pastes while selections replace each other |
| `clip_mimes` | 2 selections, 3 mimes, empty and oversized contents, failing database | `JobFromOneOffer`, `IpcReached`, `StoreSpec` | draining several mimes, clients reached, refinement of `ClipStore` |
| `clip_remember` | 2 selections | `CopyRemembered` (violated) | a copy announced during a roundtrip stays unrecorded |
| `feed_pair` | 2 windows, channel of 1 | `FeedConsistent`, `RowHasHandle`, `LastActiveShown`, `ShownOnce` | consistency along the chain, refinement of `WindowLifecycle` |
| `feed_live` | 1 window, all fields, session may fail | `TypeOK`, `NoLostPulse`, `IdleUpToDate`, `Converges` | no lost wakeup, what is listed at rest, convergence |
| `zofi` | store: 4 uuids, 2 mimes, 2 contents, 2 times, ring of 1; launcher: union of windows (2) and apps (1), clipboard (1 entry of 2 mimes); text: 2 characters of 1 and 4 bytes, length 2; usage: 2 launchers, 2 keys, 2 uses; start: 3 ids, 2 launchers, 2 deaths; capture: 2 windows | `TypeOK`, `StoreSound`, `StoredBytesStable`, `NewestKept`, `ViewAgrees`, `ActivatesFromView`, `OffsetsOnText`, `CountsAddUp`, `SocketIsHolders`, `CaptureReleased` | each part of zofi alone, over every order of its operations |
| `launcher_prefix` | same | `EmptyInputShowsAll` (violated) | the list stays filtered by the prefix character |
| `workspaces` | either backend, chosen at start as `detect_backend` does; 2 bars for ext-workspace, 1 for sway, 2 names, 2 outputs, channel of 1 | `SwayFollows`, `MirrorsCompositor`, `KeysFresh`, `BarsAgree` | bars follow the compositor through clicks, replays, suppressed snapshots and reconnects |
| `workspaces_noop` | 1 bar, 1 output | `SuppressedIsNoOp` (violated) | a suppressed snapshot leaves an optimistic highlight that is wrong |
| `tray` | tray: 1 application with all that can happen to it, or 2 that register and end, all channels of 1; popups: 4 kinds, 1 menu, 1 display | `TypeOK`, `MetasShown`, `IconFresh`, `PopupsSound` | the session and the module agree, icons end in the current colour, popups exclude each other |
| `tray_registered` | same, watcher channel of 2 | `RegisteredShown` (violated) | a registration is dropped with the branch that took it |
| `bar` | 2 themes, 4 writes; 1 monitor of maximum 50 or a backlight, 2 levels, 3 moves; 3 volumes; 2 links; 1 device, 2 panels, channels of 1; 1 display; 2 radios; 2 windows, 2 titles | `TypeOK`, `ReadersSettle`, `HardwareFollows`, `RowsSettle`, `OsdOwned`, `WorkerEnds`, `PollsSettle` | each part of zbar alone, with what it reads changing under it; what is polled ends up right whatever fails on the way; a netlink worker ends |

Sums of parts. In `zofi`, `tray` and `bar` a variable `part` chooses which
component runs; the others keep their initial state. The components share no
variable in the code either (one process draws zbar's modules, each with its own
threads and channels; zofi's parts meet in the launcher, whose effect on each is
a nondeterministic step of that part), so a behaviour of the system projected on
one of them is a behaviour of that one, and interleaving them would add states
but nothing to check. The instance is the sum of theirs, not the product.

Several properties are conjunctions, one per part: `ReadersSettle`
(`ThemeSettles`, `VolumeSettles`, `NetSettles`, `SelectedListed`,
`TitleFollows`), `PollsSettle` (`BacklightSettles`, `PillsSettle`, `RowsFollow`), `PopupsSound`
(`PopupsExclusive`, `PopupsTracked`) and `ViewAgrees` (the five invariants of
`Launcher` before it).

Bounds. The daemon's loop can hold one offer in work, one pending and one held:
three sources cover a selection replaced twice while an earlier one is in work.
`MaxEvents` and `MaxWire` bound the queues only when a new external event is
added, so everything the code answers with still fits; with `MaxEvents = 3` an
offer, its selection and a cancellation are in flight together, and the daemon
may read any prefix of them. A channel of one slot is where `send_blocking`
blocks soonest, and the interesting case (blocked on a full channel while the
window closes) happens with two windows. The database's instance is small
because its three properties are proved for every size. The launcher's registry
is the one `main.rs` builds; two windows are enough for a removal to shift a row
into the place of another. A character of four bytes has two UTF-16 units, which
tells all three counts apart, and two characters give an inside, two ends and a
selection in both directions. Two launchers may each start a daemon, the third
id lets a dead one's be used again, and two deaths kill a holder and its
successor. Sway bars have a session each and share nothing but sway, so one
is enough; ext-workspace bars share the sinks, and the second one registers
while the first is being served. `MaxSwayChanges` (5) and `MaxExtChanges` (3)
bound what compositor and user do of themselves, not what the code answers:
three changes reach a monitor unplugged, its workspaces adopted and a click, and
with `MaxHandle = 3` a workspace is replaced twice. `MaxWire = 1` lets the
compositor start a batch while one event of the last is unread. The session
thread's handlers other than `Flush` touch only its own mirror, so they commute
with every other step but the compositor's own appends to the tail of the
wire; `MCWorkspaces` runs them without
interleaving until a `done` is next (`Private`). In `tray`, `MaxAdds = 2` lets
both items be added, and channels of one slot are full at once; `MaxNews`,
`MaxThemes` and `MaxReqs` bound what applications and user do. In `bar` the
bounds `MaxWrites`, `MaxSets`, `MaxVolumes`, `MaxKernel`, `MaxOutside`,
`MaxClicks`, `MaxPanels`, `MaxReleases`, `MaxOsd`, `MaxPillClicks` and
`MaxTitleEvents` count what happens outside; a second write arrives at each
point of the first's way through the thread, two panels share one receiver, and
a timer of an older release runs beside a later drag. A monitor whose maximum is
50 takes the level 40 as it is and not the level 100, so what is written, what is
taken and what would be read back are three numbers; each monitor has a worker of
its own, and that several do not mix is part of the theorem (`WorkersFollow`).
`RowsSettle` speaks of a
view that was left before it was drawn again: a Bluetooth view that is shown asks
for a snapshot with every draw and is drawn with every snapshot, so there the
client rests only after a snapshot was lost, and that its rows are right again
and again is `RowsFollow`. Symmetry is used for
sources and contents, windows, or workspace names, in runs without liveness
properties only.

`CHECK_DEADLOCK FALSE` is set everywhere: each system rests when its
environment does, and the launcher ends.

Fairness. `ClipDaemon`: weak fairness of the daemon's thread as a whole (it is
one thread that runs whenever it can) and of the compositor handling requests;
none for applications and clients. `ToplevelFeed`: weak fairness of each thread
and of GPUI's executor, none for compositor and user. `Converges` assumes that
the compositor eventually has nothing to say and that the session lives. `MCBar`
(`BarFair`): weak fairness of the GUI's tasks, of the brightnessctl and radio
processes that were started, of the polls' timers, of the BlueZ client and of the
netlink worker, which never waits longer than the second its poll(2) is given
(`net_info.rs:9`, `744`); strong fairness for the answer to its dump of the
counters and for the read of a Bluetooth device, which may fail but not for ever.

## 4. What the runs found

* `clip_remember`: `receive()` dispatches events in its roundtrip, so a newer
  selection may be set in `pending` after `run()` took the older one; the loop
  then polls without looking (`daemon.rs:153-170`). The README says the daemon
  "remembers what you've copied".
* `launcher_prefix`: a prefix character typed inside one registry entry filters
  the list by itself and the observer's early return keeps it so.
* `workspaces_noop`: a click highlights its target in one bar at once; when the
  compositor ignores the request, the next `done` brings the snapshot that was
  sent last, which `flush_state` suppresses (`ext_workspace.rs:152-156`: "no-op
  updates"), and the bar keeps the wrong highlight. `BarsAgree` says how far a bar
  can be off: by the highlight of its own last click.
* `tray_registered`: `futures_lite::future::or` drops `add_item` in the middle
  of its calls when any other branch completes, after `ItemAdded` was taken from
  the channel; the item stays registered and is never shown (`tray.rs:787`).

Seen while modelling, without a run of their own:

* The DDC worker echoes a level also after a write that failed
  (`brightness.rs:305-308`), although `brightness.rs:51-53` says "after every
  successful setvcp"; monitors are not polled, so the bar goes on showing a level
  that the monitor does not have. `HardwareFollows` therefore speaks of what the
  monitor has only if the last write succeeded, and of what is shown always.
* The panels' tasks share one receiver, and that of a closed panel learns of it
  only with a snapshot in its hands (`panel.rs:85-98`). The panel that is open,
  and asked for it, then gets none and shows no list until it is drawn once more
  (`btLost` in `Bluetooth`).
* `ExtWorkspaceBackend::run` replays the last snapshot with a blocking send on
  the main thread, under the lock of `last_snapshot`; a channel that filled
  between the two statements would block it for good (64 broadcasts between two
  statements).
* A click on a row carries its index in the last frame (`launcher.rs:700`): after
  a pulse in between it activates the neighbour.
* `probe` takes any process with the pid in the file for a daemon, and the pid is
  written before the socket is bound: a launcher may find the daemon running and
  its socket refusing.
* `panel.rs:976` says that every OSD is torn down "when the panel itself is
  dismissed"; `dismiss` only removes the window. And the timer of an older
  release clears the value a later drag has cached (`panel.rs:321-332`).
* `volume.rs:142` and the echo of `brightness.rs:308` are `try_send`s: a burst
  can drop the newest value, which is then shown with the next change only; the
  properties excuse exactly that (`owed`, `echoLost`).
* The worker of a monitor writes the percentage as the monitor's level
  (`brightness.rs:304`), while `read_ddc` takes the level for a share of its
  maximum (496): on a monitor whose maximum is not 100 the level set is another
  one than the level shown. `HardwareFollows` therefore says which number is
  written and which is shown, and does not call them the same brightness.
* An address that `add_item` could not reach stays in `item_metas` (`tray.rs:808`),
  so registering it again does not add it (799) until its owner goes (`hollow`).
* When a signal stream ends, the BlueZ client returns (`bluetooth.rs:191`) and is
  never started again: rows that are clicked then wait until the panel is closed.
* `net_info.rs:809`: after `ENOBUFS` the worker does not dump again (`netLost`).
* `network_popup.rs:88`: `hovered` may name an interface that is gone, which
  leaves the details blank until the pointer moves.
* A sway title session never clears the title, and a session that reconnects
  keeps the old one until sway says something (`window_title.rs:211`).
* `capture_one_toplevel` looks at its deadline before a `blocking_dispatch` that
  has none, and leaves source and session behind when the buffer cannot be made.
* `WatcherHandle::drop` would join a thread that waits for a sender the handle
  still owns; both programs keep their handle for ever.

## 5. What is proved

Every theorem holds for all values of the constants that satisfy the named
assumptions of the modules (`StoreAssumption`, `DaemonAssumption`, ...). These
say what a parameter is: capacities are positive, as in the code; a marker like
`None` is not one of the values it is told apart from; `PickOrder` lists text
types if there are any; `Output` is finite. TLC evaluates each on the instances
above. Every component states a specification of its own (`UsageSpec`,
`StartSpec`, `ThemeSpec`, ...), of whose steps the instances of section 3 take
one component's at a time; most theorems are about these. Three lemmas
(`ZofiParts`, `MCTrayParts`, `BarParts`) show that each behaviour of an instance is
one of every component in it: a step is a step of one component and leaves the
variables of the others alone. So `ZofiTyped`, `TrayAndPopupsTyped`, `BarTyped`
(each `TypeOK`) and `BarReadersSettle` hold of the instances themselves, and every
safety invariant a passing run checks is proved.

A safety invariant is proved from an inductive one, whose conjuncts are named
and say what the code relies on without writing it down:

* `ClipStore_proofs`. `StoreSound` is inductive together with `StoreTypeOK`: the
  key lemmas say what `InsertMimes` adds (nothing under a mime that is already
  there) and what a set of survivors keeps. `StoredBytes` and `NewestStays`, the
  two action properties, follow from the invariant and the transactions.
* `ClipDaemon_proofs`, from `DaemonInv`. That no roundtrip reads an offer of the
  daemon itself, and that a paste is answered from the source it was made for,
  both rest on the two queues: `OffersRight` (the mimes kept for an offer are
  those of its source), `SetHeld` (a `set_selection` on its way names the held
  source, or one whose destroy is behind it), `QueueEmptied` (where the thread
  records, finishes or polls, nothing it has read is undispatched), `OneReceive`,
  `OneDone` and `PipeRead` (one pipe at a time, of the offer in work, and what is
  read from it is what that offer has under the mime asked for). `DaemonImplementsStore` maps the tables to themselves: every
  handler, and each `import`, is one `ClipStore` transaction or a stutter, so
  `DaemonStoreSound` follows from `StoreIsSound`.
* `ToplevelFeed_proofs`, from `FeedInv`. The five hops of the chain are put in
  line as one `Queue` of events: `TailSound` says that the last event queued about
  a window tells what the registry has of it, `RowsAgree` that a window with none
  queued is shown as the registry has it, `ClosedLast` and `RemovedLast` that
  nothing about a window follows its end. `ListAgrees` and `RowsActivatable`
  follow, and `ShowsOnce` is the refinement of `WindowLifecycle`: each step of
  the feed hides, shows or closes one window, or stutters. `SettlesRight`, the
  safety half of `Converges`, also needs `Truth`, which ties the registry to the
  compositor: the last event of a kind about an open window carries the field as
  it is (`WordsTrue`), a field with no event left is in the registry (`RestTold`),
  nothing of a window precedes its announcement (`AnnouncedFirst`) and what has a
  handle and is not open has its closed event on the wire (`EndAnnounced`).
* `Launcher_proofs`, from `LauncherInv`: the lists a filter leaves are covered by
  the routing table (`Listings`), the cursors are on rows or on none (`Cursors`),
  what a frame drew and what a click still refers to (`Frame`), what was read
  between the two halves of `confirm` (`Endings`).
* `Zofi_proofs`. `UsesAddUp`: the table counts what every launcher recorded, for
  any number of launchers. `OneDaemonListens`: who holds the lock wrote the pid
  file, and who is ready made the socket. `CapturesReleased`: what exists is
  accounted for by where the capture stands (`Accounted`). `OffsetsStayOnText`,
  from `TextInv`: selection and mark are boundaries of the text. `Measurable` gives
  what `Octets` and `Units` compute (by induction along the text, see below),
  `Grows` that a longer prefix is longer, since no character is empty; from it
  follows `Converts`, that a boundary goes to UTF-16 and back to itself.
  `SamePiece` says that a piece of a text is as long in another text, so what is
  put in place of a range (`ReplacedKeeps`) starts and ends on boundaries of the
  new text, whatever followed the range.
* `Workspaces_proofs`. For sway, `SwayInv` says what a session tracks: unless a
  fetch is due, the view of its bar with the current focus put on is the truth,
  and once it has read everything it is the truth itself, or a click's command is
  under way (`Tracks`). For ext-workspace, `MirrorInv` says where the wire
  leads: handling what is on it takes the session's mirror to one that
  `Matches` the compositor. `Reach` runs the handlers over a sequence of
  messages; each kind of batch of the compositor, in each order it may have, has
  a lemma that it `Carries` the mirror along, and so has the burst a new session
  is told. `CastInv` says that a bar the broadcast under way has passed is at
  the last snapshot. The highlights commute as needed by `Highlights` and
  `ClickOvertaken`.
* `Tray_proofs`, from `TrayInv`: what the session holds for an item it reached is
  shown or queued (`QueueInv`), the items it gave up on are others (`hollow`), an item has one set of tasks (`TaskInv`), and a newer
  colour or version is on its way to whoever knows an old one (`FreshInv`).
  `PopupsStaySound` is inductive with the popups' shapes.
* `Bar_proofs`: `OverlaysOwned`, inductive with the shapes of the module's
  variables; `RowsSettleAlways`, since whatever lets the client come to rest puts
  a snapshot in the channel, finds it full or loses one (`BtStep`), and a click or
  a draw leaves a command in a channel that is not empty (`Queued`);
  `WorkersFollow`, from `BrightInv`: a target not taken has a wake-up on its way
  (`TargetTaken`), and a number that was taken is in its worker's hands, or
  written, and echoed last (`AnswerOf`), whatever the maxima are; and the readers
  of the outside world, each from an invariant that says what every thread between the
  source and the screen holds:
  - `ThemeFollowsFile`, from `ThemeInv`: unless a write is queued for the thread
    or owed, the newest theme that is coming (in the channel, else about to be
    saved by a click, else shown) is the file's (`ThemeDue`);
  - `VolumeFollowsSink`, from `VolumeInv`: unless a line is unread or a read owed,
    the newest volume in the channel, else the one shown, is the sink's;
  - `NetFollowsKernel`, from `NetInv`: the last message about an interface tells
    how it is, and of an interface no message is about the caches do, once its
    dump was taken (`NetCurrent`): dumps after joining lose nothing, and an older
    message replayed over a newer dump is never the last. `Published` says that
    the newest snapshot sent, else the list, is the caches' merge;
  - `TitleFollowsFocus`, from `TitleInv`: what is still on niri's stream takes the
    session's tracker to the compositor's windows with a title and its focus
    (`NiriDue`; `Leads` is a run of the tracker over a sequence of events), and the
    last of sway's events that speaks says the focused title (`SwayDue`).

The library's induction theorems take an operator, which the prover cannot
instantiate. Where a theorem needs that a fact holds along a sequence
(`Workspaces_proofs`, `Climb`; `Zofi_proofs`, `Reaches`), the proof takes the
least index at which it would fail, which the library gives for any set of
numbers; so it is proved that the lengths of a text exist, add up and grow.

Only model-checked: liveness under fairness (`IpcReached`, `Converges`,
`WorkerEnds`, `PollsSettle`), which is outside the prover (that the feed comes to
rest is checked, that it is right when it does is proved), and the four properties
that are violated, of which TLC shows the behaviours.

## 6. Not modelled

* Pixel formats, icons, fonts, layout, JSON and .desktop parsing, D-Bus and
  Wayland wire encoding, netlink's message format.
* The clock, battery and CPU modules, which read a file and show it; the
  compositor queries and `sway_tree.rs`, which ask once and parse the answer;
  `screencopy.rs`, the older capture of a whole output.
* The files source, which `main.rs` does not register; applications are a fixed
  list, since reading .desktop files happens once, before the window opens.
* Thumbnails and peek images of the windows source; frecency's arithmetic, which
  only changes the order of rows (`Rank` is a parameter of `Launcher`).
* The entries and submenus of the tray's menus, which a session fetches and
  draws; `Tray` has the menu as a whole.
* Tearing down `ztheme`'s watcher, which neither program ever does.

## 7. Plan

All components that keep state are modelled, and every safety invariant and
action property of the passing runs is proved. What is left is outside the
prover: liveness would need proofs from fairness, by hand. When the code changes,
change the action its lines are mapped to, run the instance, and prove the
lemma of that action again; each step of an invariant has one.
