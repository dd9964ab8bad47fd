# monux in TLA+

TLA+ specifications of monux (this repository), a software KVM for Wayland: a
*server* machine grabs its keyboards and mice and forwards their input over
QUIC to one *client* machine at a time, and all machines share one clipboard.
TLC checks the specifications on small instances, TLAPS proves the theorems for
every instance.

- [The system](#the-system): components, state, operations, interactions
- [What is hard here](#what-is-hard-here)
- [The modules](#the-modules) and how they correspond to the code
- [The runs](#the-runs), their bounds, the fairness they assume
- [The theorems](#the-theorems)
- [What the code does otherwise than it says](#what-the-code-does-otherwise-than-it-says)
- [Not modelled](#not-modelled)
- [Plan](#plan)

`PROJECT.json` is the machine-readable index: components, runs, the mutant that
shows each property to be falsifiable, the source lines of every definition,
findings, hazards, theorems.

## The system

Paths are below `src/`.

| component | state it keeps | operations | talks to |
|---|---|---|---|
| **rotation** `src/rotation.rs` | `Rotation`: sorted `clients`, `current_client`, `paused`, `removed_current_client`, `silenced_endpoint`, `liveness`, `pending_resume_fingerprint`, the `active_client` file, `clipboard_target`, debounce maps, pending motion, pending clipboard requests | `accept(RotationEvent)`, `send_input_events`, `ping_tick`, `flush_pending_motion`, `flush_pending_local_clipboard`, `sample_link_quality` | one events stream and one bulk queue per client; `grab_tx` to the device tasks; the local clipboard |
| **server loops** `src/server.rs` | `next_conn_token`, one task per connection | accept loop, `handle_connection`, `handle_event_messages`, the events loop that owns the rotation | queue of `RotationEvent`s to the rotation |
| **client session** `src/client.rs` | `Connection`: `active`, `fresh_activation`, `pending_deactivate`, `pending_fetches`, last motion sequence and mask, inferred edges | `step`: one `select!` over streams, datagrams, clipboard, edge | streams and datagrams to the server; clipboard; uinput |
| **clipboard serving** `src/clipboard/*.rs` | `LocalClipboard`: `local_types`, `serving_remote_clipboard`; shared reader with an epoch | announce, fetch, serve, invalidate | Wayland threads, client session or rotation |
| **Wayland clipboard** `src/clipboard/wayland/` | seats, offers, our own source | type watcher, reader, writer | compositor |
| **clipboard conversion** `src/clipboard/convert.rs` | none | transcode images and text | |
| **device input** `src/device/{input,handles,watch,util}.rs` | one task per evdev device, its grab | apply grab transitions, read, match chords | `grab_tx`, rotation |
| **shortcuts** `src/device/shortcut.rs` | which chord keys are held | `check_combo` | device input |
| **device output** `src/device/output/uinput.rs` | pressed keys per virtual device | `write`, `release_all` | kernel |
| **messages** `src/msgs/*.rs` | none, but `MotionDatagram::apply` holds the loss accounting | encode, decode, apply | both ends |
| **edge switching** `src/edge.rs` | dwell timer, re-arm, resolved targets | poll the cursor, fire a switch | rotation, client session |
| **pacing and link quality** `src/network/{throttle,link_quality}.rs` | pacing debt; tier and hysteresis counters | `pace`, `sample` | bulk writers, motion flush interval |
| **transport, certificates, approval** `src/network/*.rs` | known certificates, fingerprint slot of the verifier | TLS verification, approval prompt | accept loop |
| **discovery** `src/discovery.rs` | mDNS registration | register, browse | network |
| **control, command line** `src/{control,main,lib}.rs` | socket | status and switch requests; client reconnect loop | rotation |
| **single instance** `src/single_instance.rs` | lock file | acquire, take over | processes |
| **updates** `src/{autoupdate,update}.rs` | update state | check, install, restart gate | process |
| **tray indicator** `src/{indicator,indicator_spawn}.rs` | child process | supervise | control socket |
| **setup, removal, logging, notifications** | none | one-off | system |

The life of a key press: device task (grabbed) → chord matcher → rotation
(`send_input_events`) → `ServerEvent::Input` on the current client's events
stream → client session → uinput.  The life of a copy: compositor → type
watcher → `ClipboardUpdateSource` (server), or `set_local_clipboard`, deferred
until the machine is deactivated, then `ClientEvent::ClipboardTypes` (client) →
rotation's `clipboard_target` → `ServerEvent::ClipboardTypes` to whoever is
active → the compositor there; contents are fetched on paste.

## What is hard here

- **A handler is not atomic in its failures.**  The rotation is one task and
  handles one event at a time, but a handler awaits several stream writes; each
  may fail, remove a client (the one being switched to included), clear the
  clipboard and write to every other client, with more failures, before the
  handler continues.
- **Two queues, no order between them.**  Arrivals, departures and messages of a
  connection are reported by different tasks; a departure can arrive after a
  newer connection took the same address.
- **Ways to move the input.**  Chord, tray, control socket, screen edge of the
  client, silence detector, its recovery, removal, reconnect from the same IP,
  resume after a server restart: all end in one funnel, and a user's choice has
  to win over every automatic one.
- **Inference from adjacency.**  A client tells a key release from a switch only
  by `Switch(false)` and `Switch(true)` being adjacent on its stream, and decides
  from what was *not* pushed to it whether its clipboard is still the newest.
- **Unreliable motion.**  Deltas travel as datagrams that are lost, duplicated
  and reordered, next to an ordered stream that activates and deactivates.
- **Restarts.**  The server's file and the client's clipboard outlive the
  processes and the connections that wrote them.

`PROJECT.json` lists these, each at the line where it bites, with the properties
that would catch it going wrong.

## The modules

### Rotation

The `Rotation` struct and the server's events loop.  `rot` is the struct (with
what its writes left at the clients: the last `Switch` of each stream and
whether keys forwarded on it are still pressed), `accepted` and `nextToken` the
accept loop's side, `since` a history variable: how the input came to be on the
local machine.

The events loop handles one event at a time, so one action is one whole handler.
A handler's writes may fail at every `await`; the helpers are therefore
*operators from a state to the set of states the helper may leave*, one for each
choice of failing writes, and a handler is their composition in the code's
order: `UNION {Second(t) : t \in First(s)}`.  This keeps the order of writes,
removals and clears without a program counter.  `HandleRemoval`, `DropAll`,
`SendEvent`, `SetAndGrab`, `UpdateCurrent` ... carry the names of the functions
they stand for.

| action | code |
|---|---|
| `AddClientEvent`, `RemoveClientEvent` | `add_client`, `remove_client_and_clear_clipboard`, with the tokens of `run_server_connections_loop` |
| `SwitchNext`, `SwitchPrev`, `SwitchTo` | `next_client`, `prev_client`, `set_client` |
| `PauseToggle`, `SetPaused` | `toggle_pause`, `set_paused` |
| `InputBatch` | `send_input_events`, for a batch that leaves a key pressed |
| `ClientHeardFrom`, `SwitchRequest` | `note_client_heard`, `switch_request_from_client` |
| `PingTick` | `ping_tick`: silence detector, hysteresis, pings; `late` is a tick after a stall |
| `ClipboardUpdateSource`, `ClipboardDeadline` | `clipboard_update_source`, `flush_pending_local_clipboard` |
| `BulkQueueFull` | `send_bulk` on a queue that is full or closed |
| `GoesQuiet`, `CooldownElapses`, `DebounceElapses`, ... | the passing of one deadline each |
| `Restart` | process exit and `load_pending_resume` |

Time is abstract: a deadline is a flag that a step of the environment lets pass
at any moment, so every order of two deadlines is explored.  Data is abstract:
an input batch is "keys remain pressed", a clipboard is its owner.

### RotationProofs

The theorems about `Rotation`, of its states and of its steps; see [below](#the-theorems).

### Clipboards, ClipboardHandoff, ClipboardFetch, ClipboardProofs

The clipboard is two models: `ClipboardHandoff` says who offers it, and
`ClipboardFetch` how a paste gets its content.  `Clipboards` has the constants they
share (machines, connections, copies), `ClipboardState` the state of
`ClipboardFetch` and what is required of it, so that `ClipboardProofs` can extend
both halves.

### ClipboardHandoff

The clients' half of the clipboard, composed with the clipboard half of the
rotation over what really lies between them: two ordered streams per connection.
`server` is the rotation's clipboard state with its outgoing streams, `client`
each machine's session and compositor clipboard, `up` the announcements in
flight.  Here writes succeed and a connection is lost as a whole, with whatever
was in flight; `Rotation` explores the failing writes.  A clipboard is the
number of the copy that made it, so "newer" is `>`.

| action | code |
|---|---|
| `UserSwitch` | `update_current_client`, or `release_current_target_keys` when the target is current already |
| `CopyOnServer`, `CopyOnClient` | an application copies (environment) |
| `ServerTypesChanged`, `ClientTypesChanged` | the watchers of `clipboard/server.rs` and of `Connection::step` |
| `ClientReceives` | one message in `Connection::handle_event_messages` |
| `ServerReceives` | `clipboard_update_source` for a client's announcement |
| `Connect`, `Disconnect`, `RemoveClientEvent` | `Connection::new` with `add_client`; the end of `client::run`; its later removal |

The 300 ms debounce per source is left out: its window for a client is dropped
with the client's entry (`handle_client_removal`), so it cannot absorb the first
announcement of a new connection, which is what `PreDropCopySurvives` is about.
The silence detector is left out: its `Switch(false)` is a switch home.

### ClipboardFetch

How a paste gets its content.  `host` is what each machine has: the selection of
an application (`app`) or our own advertisement with its cache (`offer`), the
watcher's news, the client's `local_types` and `serving_remote_clipboard`, and the
reader's two caches and mutex.  `rotation` is the rotation's clipboard state, `link`
each connection with its two bulk queues and the client's pending fetches,
`fetch` each fetch: its requester's side and the task that serves it.  `made`
is history, as are the fields `tag` (which fetch a message belongs to), `wrong`,
`stale`, `unread` and `lost`.

| action | code |
|---|---|
| `CopyAt` | an application copies (environment), the compositor replaces our selection |
| `ServerTypesChanged`, `ClientTypesChanged`, `ClientAnnounces` | the watchers, `set_local_clipboard`, and `clipboard_update_source` |
| `FocusMoves` | `update_current_client_clipboard` after any switch |
| `Paste`, `FetchTimesOut` | `serve_send` or `spawn_fetch` with `fetch_clipboard_data`; its timeout |
| `ClientTakesFetch`, `RotationTakesFetch` | the `fetch_rx` branch of `Connection::step`; `clipboard_request_content` for the server's own fetch |
| `RotationReceives` | `clipboard_request_content`, or `clipboard_send_content_from_client`, with all they call |
| `ClientReceives` | `Connection::handle_bulk_messages` |
| `ServeBegins`, `ServeReads`, `ServeEnds`, `ServeFromCache`, `ServeNothing`, `ServeTimesOut` | the serving task and `SharedClipboardReader::read` |
| `Connect`, `Disconnect`, `ServerNoticesLoss` | `add_client`; the end of `client::run` with `clear_remote_clipboard`; `remove_client_and_clear_clipboard` |

As in `Rotation` a handler is an operator from a state to a state (`Route`,
`SendBulk`, `ReplyEmpty`, `FailFetch`, `RemoveClient`, `ClipboardClear` ...); the
queues that refuse a frame are chosen by the action.  The epoch of the reader is
not a number: an entry of an older epoch is never used again, so `Invalidate`
drops the entries and marks the read under way as no longer `fresh`.

Left to the other modules: when clipboards are announced (`ClipboardHandoff`), so
announcements arrive with the handler that makes them and the input moves at any
time; the debounce (`Rotation`).  Left out: several types on one clipboard, size
limits, the cap on concurrent serves, and the chunks that a frame arrives in.
Every connection has an address of its own.  Where the client's own bulk queue
refuses a request the session ends, which is `Disconnect`; the
`RemoveClient` event a serving task of the server sends is handled at once.

### Motion, MotionDelivery and MotionProofs

Pointer motion from the rotation to the clients.  A move of the server's pointer
is a number; the accumulator and a frame are the *set* of moves summed into
them, which is what makes "twice", "lost" and "on the wrong machine" expressible
(that a sum may cancel out is a choice of the flush).  `server` holds the motion
fields of `Rotation`, `client` those of each `Connection`, `wire` the datagrams in
flight, `stream` what the ordered events stream holds of switches and of motion
that fell back to it.  `cursor` counts how often each machine's pointer made each
move: it belongs to the machine and survives its connections.  `past` is a
history variable.  `applied_mask` is the set of ages whose bits are on.

| action | code |
|---|---|
| `MoveCoalesced`, `MoveAtFullRate` | `accumulate_motion`; the `--motion-hz 0` arm of `send_input_events` |
| `Flush` | `flush_pending_motion` with each outcome of `try_send_motion_datagram` |
| `SwitchTo`, `ReleaseKeys`, `Pause`, `Resume` | what a switch, a switch to the current target, and `toggle_pause` do to motion and to the streams |
| `Reconnect` | `handle_client_removal`, or the in-place replacement of `add_client`, and `Connection::new` |
| `ClientReceives` | `Switch` and `Input` in `handle_event_messages` |
| `DatagramArrives` | `handle_motion_datagram` and `MotionDatagram::apply` |
| `DatagramLost` | the network |

Any datagram in flight may arrive next, so reordering needs no action of its
own.  The model decides switches more freely than `Rotation`: any target at any
time, while paused too.  Frame numbers are `u64` in the code and unbounded here;
at 1 kHz they wrap after half a billion years.  The arithmetic of the deltas
(`saturating_add` of `i32`) is left out.

`MotionDelivery` is what this is for: moves are made, and delivered at most once,
to the machine that had the input.

### InputPath and DeviceProofs

One physical device on the server, from the watcher that finds its node to what
the rotation does with a batch.  Four parties take turns: the user and the
kernel (`down`, `node`, `grab`, `raw`, `unread`), the watcher (`watcher`,
`notices`), the reader task (`reader`) and the rotation loop (`queue`, `rot`,
`state`, `held`).  An ungrabbed device is seen by the compositor *and* by the
reader, a grabbed one by the reader alone; that is the whole difficulty.  The
rotation is reduced to "paused" and "a client is current".

| action | code |
|---|---|
| `Start`, `SeeState`, `Retry`, `ReadFrame`, `ReadError` | `read_device_or_grab_events`: its first grab, then the branches of its `select!`; `handle_input_event` with every `ComboState` |
| `Quiet`, `GiveUpWaiting`, `GrabKeyboard` | `grab_keyboard_when_quiescent`: the wait, its time-out, the ioctl |
| `Scan`, `Created`, `Opened`, `NotOpened`, `Deleted` | `watch_loop`, `handle_device_event`, `open_device_with_retry`; `Add` is `DeviceHandles::add` |
| `HandleInput`, `HandleSwitch`, `HandlePause`, `PeerChanges` | `send_input_events`, `next_client`, `toggle_pause` and `set_paused`, `set_and_grab_current_client` |
| `Type`, `Unplug`, `Plug`, `Udev`, `Steal`, `LetGo` | the user, the kernel, udev, another process (environment) |

`missed`, `cut`, `late` and `uneasy` are history: they mark the behaviours in
which the code gives no guarantee (a dropped file event, a device that vanished
with a key down, a release that another process's grab swallowed while its press
was still unread, an ungrab behind its broadcast, a grab forced by its time-out),
and are listed with the findings below.  Left out: which devices are compatible,
the scaling of axes, the cap of 32 events per batch.

### VirtualDevices, DeviceOutput and DeviceProofs

The virtual devices of a machine and the session that writes to them.
`VirtualDevices` is `uinput.rs`: an *output* is `VirtualUInputDevices` with what each
of the three kernel devices has pressed.  A write fails as a whole or after any
number of events: `Emit`, `EmitRouted`, `Write` and `ReleaseAll` are operators from
an output to the set of their outcomes, and the loops over a batch are recursive
functions over its length.  `DeviceOutput` is the session: `out` is its output,
`pending` is `pending_input`.

| action | code |
|---|---|
| `Input`, `Flush` | `ServerEvent::Input` and the end of a chunk in `handle_event_messages` |
| `SwitchOn`, `SwitchOff` | `Switch` there, with `release_all` |
| `Datagram` | `handle_motion_datagram` |
| `Lose` | the end of a session: `release_all` in `main.rs` before the next one |
| `Tick` | `RepeatCoalescer`: the shortest time between two repeats passes |

### EdgeGeometry, EdgeSwitch and EdgeProofs

`EdgeGeometry` is the arithmetic of `edge.rs` as operators: the layout a reply of
the compositor describes (`LogicalLayout`: transforms, scales and their rounding),
the stretches of its outline (`ExposedSegments`: `Sweep` passes over the abutting
intervals in their sorted order, as the loop of the code does), the dead zones at
corners, `ZoneContains`, and which client a target means (`Resolve`).

`EdgeSwitch` is `run_inner`: `dirs` has the debouncer, dwell timer and latch of
each mapped direction, `feed` the positions its poller thread queued, `phase` and
`due` where the manager is while it awaits a name, a layout or room in the
rotation's queue.  Time is counted in ticks.  `seen` is an observer that only
looks at polls and firings; the properties compare the manager with it.

| action | code |
|---|---|
| `PollCursor`, `HandlePosition` | `run_cursor_poller`; the position branch with `EdgeDebounce::poll` and `DwellTimer::enter` |
| `Tick`, `FireDue`, `ResolveTarget`, `SubmitSwitch`, `RequestReturn` | the deadlines, and what a completed dwell does on a server and on a client |
| `StartRequery`, `FinishRequery` | the layout query, which resets every direction |
| `LoseConnection`, `Respawn` | the end of a client's manager and the next one |
| `TakeRequest`, `ChangeClients` | `Connection::step`; `publish_edge_clients` |
| `MoveCursor`, `ChangeScreen` | the user and the compositor (environment) |

### Session and SessionProofs

From a client's first packet to a member of the rotation that knows its return
edges.  `conn` is one record per connection with the stage the server has
reached, `machine` the reconnect loop of each client program, `slot` the one slot
that carries a verified fingerprint from the TLS verifier to the accept loop,
`prompt`, `known` and `disk` the approval of certificates.  It extends
`EdgeGeometry` for `Resolve`.

| action | code |
|---|---|
| `Connect`, `ConnectFails`, `SessionEnds`, `Discover` | the loop of `main.rs` `client`, `discover_server` after `Rediscover` failures |
| `VerifyKnown`, `VerifyRefused`, `VerifyAsks`, `Approve`, `Disapprove` | `verify_cert`, `prompt_unknown_cert`, `write_approved_cert`; `StoreFingerprint` is `verify_client_cert` |
| `HandshakeFails`, `TakeFingerprint`, `ExchangeVersions` | `run_server_connections_loop`, `handle_connection` |
| `AddClient`, `RemoveClient` | `add_client`, `handle_client_removal`, each with `advertise_edge_info` |
| `HandleEdgeInfo` | `EdgeInference::apply` and `::revoke` |
| `Lose`, `RestartServer` | the network; a new server process, maybe at another address |

### Lifecycle, InstanceGuard and LifecycleProofs

How daemons start, take over from each other, update and restart, on a machine
with the server and one with a client.  `proc` is every process with its image;
`lock` and `pid` are the lock file's flock and contents, `port` the server's
socket, `disk` the installed release, `gate` the recorded protocol version of the
server, `manual` an update by hand.

| action | code |
|---|---|
| `TakeLock`, `ReadPid`, `Ask`, `WritePid`, `GiveUp` | `single_instance::acquire` from one look at the flock to the next |
| `ProbeServer`, `ProbeEnds`, `ManualUpdate` | `live_holder` and the rest of `monux system update` |
| `ServerRuns`, `ClientRuns`, `Bind`, `Handshake`, `Refused` | the start-up in `main.rs`, `bind_server_with_retry`, a client's version exchange, and one that ends in a refusal |
| `CloseLoops`, `Exit`, `Reexec`, `Command` | `close_loops`, the end of `main`, `reexec_after_update`, exit and restart by command or signal |
| `Check`, `Pull`, `Build`, `ScheduleRestart` | `autoupdate::run` around `update::run`, `refresh_protocol_constraint`, `server_protocol_constraint_fresh` |
| `Start`, `Crash`, `Publish`, `Drained` | the user, a release (environment) |
| `GateExpires` | the age of a record in `server_protocol_constraint_fresh` |

The record's age counts from the last write of the file, which is a handshake,
once per connection, or an answered look-up.  So `GateExpires` may happen at any
moment to any record, also of a server that the client is connected to, in those
settings where records expire (the others stand for a machine that handshakes, or
is answered, at least every 48 hours).

Clocks are left out, under two assumptions: the 5 s a contender waits
(`TAKEOVER_TIMEOUT`) are enough for a holder that is shutting down, and the
server's ten retries to bind are enough for the socket of the one before it.
Also assumed: pids are not reused, a machine runs one kind of daemon, cargo's lock
serialises builds, the remote's HEAD only advances (so `AlreadyCurrent` cannot be
met), `exec` does not fail, the client is started with a host.  The control
socket's file is not modelled.

`InstanceGuard` is what this is for: an instance gets the keyboards and virtual
devices of its machine only when nobody has them.

### LinkFidelity and LinkProofs

What a measured link earns: `tracker` is `LinkQuality` of each end, `cell` its
`SharedThrottle`; on the server `current`, `tick` (the tier whose rate the motion
timer runs at), `mirror` (the published state); on a client `monitor`
(`LinkMonitor`), `writer` (`BulkThrottle` with what is left of its sleep) and
`backlog`, what the queues below the stream hold.  The two sides share no state,
so a behaviour follows one of them (`mode.side`).

| action | code |
|---|---|
| `AddClient`, `RemoveClient`, `Switch` | what those functions of the rotation do to trackers, cells and the mirror |
| `QualityTick`, `OtherIteration`, `RefreshIsDue` | the ticks of `run_server_events_loop` with `sample_link_quality` and `update_diagnostics` |
| `MonitorLink`, `Reconnect` | `monitor_link` with `LinkMonitor::check`; the next session |
| `WriteFrame` | `spawn_bulk_writer` with `BulkThrottle::charge`, a write and its charge in one step |

A sample is a verdict on the round trip, on the loss, and whether the window had
enough packets to count.  The queues drain at the paced rate, and are empty by
the time a session has been replaced.

### MC modules

`MCRotation` fixes three endpoints: 1 and 2 are two ports of one machine (same
IP, same certificate), 3 is another machine.  `MCMotion` adds the symmetry of the
clients, `MCClipboardFetch` says which machine copies what and where pastes
happen; `MCClipboardHandoff` adds nothing.  `MCInputPath`, `MCEdgeSwitch`,
`MCSession` and `MCLifecycle` list *settings*: who there is, how the programs were
started and what may go wrong; a behaviour begins in one of them, so that one run
covers them all.  `MCDeviceOutput` has a key, a button of two pointer devices, a
touchpad's own button and an axis; `MCLinkFidelity` two clients and five samples.

## The runs

| run | asks | bounds |
|---|---|---|
| `rotation` | one client has the input, nobody keeps a key, grab and file agree, input moves only for a reason, late reports of replaced connections take nothing: through switching, pausing, silence and its recovery, arrivals, late removals, copies, restarts and every failed write | 3 endpoints, ports reused, 3 connections; endpoint 1 may go silent and copy; 1 pong |
| `rotation_liveness` | the ping timer's liveness | 2 endpoints, one may go silent; 2 pongs; copies on the server |
| `handoff` | clipboard ownership over ordered streams | 2 machines, 2 connections, 2 copies, 3 switches by hand |
| `fetch` | a paste gets the answer to its own request, nothing older than was advertised, and an answer at once if there is none | 1 machine that copies, 1 that pastes, the server does both; 2 connections, one of which may be lost, 2 copies, 2 fetches, the first may time out; queues of 1 frame |
| `motion` | at most once, on the right machine, and nothing lost that could be made up for | 2 clients, 4 moves, 3 switches, pauses or lost connections; 1 repeated frame, window 2 |
| `input_path` | no key left down, the compositor sees pairs, the grab settles | 7 scenarios of `MCInputPath`; 1 unread frame, event queue of 2, file events 2 |
| `output` | what is held can be released, and is | chunks of 2 events, messages of 2 |
| `edge` | how often and for what contact the manager asks for a switch; the zones are the outline | 4 settings; dwell 2 ticks, cooldown 3, 2 queued positions, room for 1 request |
| `session` | admission, identity, return edges, coming back | 2 machines, 3 endpoints, at most 2 lost connections, 1 restart; discovery after 3 failures |
| `lifecycle` | one instance at a time, somebody runs, updates take effect, protocols meet | 10 settings, one of them with records that expire and a server that does not update itself; at most 3 processes per machine, 3 releases, 1 crash, 1 command, 1 failed build |
| `link` | raised rates are earned, pacing keeps queues short, the published state follows | 2 clients; frames of 1 and 3 units, `MIN_SLEEP` 5 units, cooldown of 5 samples |
| `v_reuse_activated` | that a client that reconnects from its old port is told that it is current: the code does not keep it | the smallest instance that shows it |

Every property of a passing run is falsifiable by a plausible bug: `PROJECT.json`
names the mutant that TLC refutes it with.  The invariants whose name ends in
`Inv` conjoin named parts (`RotationInv` is `TypeOK`, `GrabFollowsTarget`,
`ClientsWatched` and `RecoveryMeansLocal`, and so on).

Why the bounds are enough.  Every rule of the rotation relates at most two
clients (old and new target, owner and requester, silenced and chosen) or a
client and its reconnect; three endpoints with two on one machine have all of
these at once.  `ReactivatePongs` only distinguishes "not yet", "one short" and
"enough": 1 in `rotation`, 2 in `rotation_liveness`, 3 in the code.  `MaxConns`
bounds arrivals, not departures or switches, which go on for ever.  In `handoff`
two copies suffice to be stale and newer, two connections to be a pre-drop one
and its successor, or those of two machines; three switches make there, back and
there again; the streams are unbounded within that.  In `motion` the repeated
history and the window keep the code's order (32 repeated frames < 64 tracked) at
sizes where frames are truncated from the history and bits shifted out of the
mask within four moves; three control steps make "there, back, and there again"
with datagrams of the first visit still in flight.  The proof covers all other
sizes.  In `fetch` two fetches are a late answer and the retry it must not
complete, or two readers of one mutex; two copies are the one a read began with
and the one that replaced it; two machines and the server have every route; the
one connection lost is the owner's or the requester's, which may come back; with
one frame a queue is full as soon as anything waits in it.

In `input_path` two keys make a chord, a shorter chord inside it, and a key of
each kind; the scenarios separate what would only multiply (repeats, hotplug, a
thief of the grab, commands); one unread frame is one too many for a grab, two
queued events are a chord behind its own input or a full queue.  Two unread frames
take longer than a run may; the proof covers every length of both queues.  In `output` two
events are the smallest chunk of two devices, and a failing write stops before,
between or after them; the proof covers batches of any length.  In `edge` two ticks of dwell and three of cooldown keep
the code's order of 40 ms polls, dwell and 1 s cooldown; layouts of one to three
monitors have every way to abut (flush, off by one pixel, lower, turned, scaled,
disabled, empty); the proof of the outline covers all that do not overlap.  In `session` three endpoints are two handshakes that cross and
one more, or one machine that reconnects while its old connection is still
there.  In `lifecycle` three processes are a holder and two contenders; three
releases are one that installs while another is published.  In `link` 3 samples
are `PROMOTE_SAMPLES` as in the code; the cooldown of 5 samples stands for the 20
of the code (300 s at 15 s), longer than a promotion as there; a frame of 3 at
the slower rate exceeds `MIN_SLEEP` and one of 1 does not.

Fairness.  `Rotation!FairSpec` assumes that the ping timer keeps firing on time
often enough (`tokio::time::interval` in the events loop, with
`MissedTickBehavior::Delay`, so a late tick is followed by one on time) and that
time passes for the cooldown.  It does not force writes to fail or to succeed
for ever: a tick that loses no client is taken eventually if it stays possible.
Nothing about the user, the network or the clients is fair, except in
`SilencedClientRecovers`, whose premise `LinkHolds` says so.
`ClipboardHandoff!FairSpec` assumes that QUIC streams deliver while the
connection lasts and that both ends' loops run; nobody is obliged to switch,
copy or reconnect.  `InputPath!FairSpec`: the tasks run, a ready branch of a
`select!` is taken (tokio polls them in random order), timers end, udev finishes,
and a process that took the grab lets go; nothing is assumed of the user.
`EdgeSwitch!FairSpec`: threads are scheduled, queries and look-ups return (at the
latest on their time-outs), and the rotation takes what it is sent; a completed
dwell is acted on by a `select!` that positions may pre-empt, hence the strong
fairness of `FireDue`.  `Session!FairSpec`: the programs keep running, prompts
end, and mDNS finds a server that is asked for again and again (strong fairness,
as each attempt may fail).  `Lifecycle!FairSpec`: every process goes on, a client
that a server refuses tries again, a probe ends; no session has to end, no record
has to be written again while one lasts, and nobody has to start, stop, crash or
publish.  `LinkFidelity!FairSpec`: the events loop goes round, as
its ping timer makes it.  `Motion` and `DeviceOutput` have no fairness: they
promise nothing that must happen.  Nor has `ClipboardFetch`: that a fetch is
answered is stated as safety, by `UnderWay` (a fetch that is waited for is in a
queue, or served, or was lost with a connection or a refused frame; it is never
just forgotten).

`CHECK_DEADLOCK FALSE` in the `handoff`, `motion` and `lifecycle` configurations:
with their bounds used up, nothing more happens (every stream is drained; every
process was stopped).

## The theorems

`RotationProofs` proves, for every finite or infinite behaviour and every set of
endpoints, IPs, fingerprints and bounds that satisfies the assumptions named in
`Rotation` (endpoints are numbers and finitely many, `None` and `Local` are not
endpoints, `ReactivatePongs >= 1`):

| theorem | |
|---|---|
| `Invariance` | `Spec => []IInv` |
| `TypeCorrectness` | `TypeOK`: above all, the current client is connected, whatever fails |
| `OneActive` | `SingleActive` |
| `KeysReleased` | `NoStuckKeys` |
| `GrabAgrees` | `GrabFollowsTarget` |
| `AllWatched` | `ClientsWatched` |
| `RecoveryArmedAtHome` | `RecoveryMeansLocal` |
| `StructSound` | `RotationInv` |
| `CurrentTold` | `~ReusePorts /\ Spec => []CurrentActivated` |

The invariants are not inductive through a handler: in the middle of a switch
two clients are active.  `Tidy(s, old)` weakens them by `old`, the client that
was left and is not deactivated yet; it is what every *helper* preserves, and
`Tidy(rot, None)` is what holds between events.  For each helper one lemma says
what it may change (`Loses`: failed writes only take clients away; `Switched`,
`Joined`, `Settled`: what a switch, an arrival and a whole handler do), for each
handler one lemma composes them, and `NextIInv` has one step per action.
`IInv` adds the origin of every listed client: it is an accepted connection, the
newest of its endpoint (`Newest`).  `CurrentTold` needs the first, as without reused
ports an arriving client is not listed yet; the second is what makes the late
removal of a replaced connection harmless (`LateReport`), and so `Joined` and
`Settled` carry the token of the client that arrived.
With reused ports the theorem is false; `v_reuse_activated` is the counterexample.

It also proves what the handlers do to the session file, the clipboard's owner and the target:

| theorem | |
|---|---|
| `FileFollows` | `Spec => []FileFollowsTarget` |
| `OwnersForgotten` | `Spec => OwnerLossClears` |
| `Hatch` | `Spec => EscapeHatch` |
| `UserOverSilence` | `Spec => SilenceYieldsToUser` |
| `FocusKept` | `Spec => NoFocusTheft` |

The file is written in the middle of a switch, while writes that follow may
still lose the new target; so between the calls of a handler it is only right
for a target that is connected, and for the local machine (`Filed`).  `Keeps` says
what a call preserves: that, the session to resume, and that a lost owner is
forgotten (`Disowned`); `Stays`, that a call moves input nowhere but home.  Each
helper has a lemma with these two, each handler one that composes them, and
`Remembers`, which adds to `Filed` that a client is recorded as silenced only while
that is why input is local (`Waits`), is inductive together with `IInv`.
`NoFocusTheft` has two parts: nobody takes the input from a client that has it
(`InputIsMovedByHand`), and the report of a connection's end that arrives when a
newer one has its addr:port changes nothing (`ReplacedTakesNothing`).

`MotionProofs` proves, for every set of clients, every number of moves and
control steps and every `HistoryLen < Window`:

| theorem | |
|---|---|
| `TypeCorrect` | `Spec => []TypeOK` |
| `Invariance` | `~ReusePorts /\ Spec => []IInv` |
| `Implementation` | `~ReusePorts /\ Spec => DeliversOnce`: the refinement of `MotionDelivery` |
| `ExactPositions` | `~ReusePorts /\ Spec => []MotionInv`: once the newest datagram has arrived, nothing that is still repeated is missing |

At most once does not follow from the mask alone: a client knows a frame by its
number only, and a datagram states one number for all its entries.  `IInv`
therefore says of every datagram in flight *and* of the rotation's memory, from
which the next one is made, that its i-th entry is frame `seq + 1 - i`
(`Carries`), that this frame was made for the client, and that whatever of it
the client's pointer has made is marked in the mask or too old (`Applied`).
`Apart`, `Waiting` and `Streamed` say that no move is in two frames, or in a
frame and in the accumulator or on a stream.  Steps of the server only append
frames, so `Kept` carries all datagrams over; a new one is built from the memory
(`NewDatagram`); what a datagram makes is made once since frames are disjoint
(`NewEntries`, `CountOnce`).  With reused ports `Remembering` fails, and so does
the theorem: `MovedOnce`, below, is violated.

That nothing is lost (`ExactPositions`) is a second invariant on top, `Exact`.
Each move since the last switch or pause is somewhere (`Located`): accumulated, on
the stream, in a frame, or made.  A frame that holds such a move and is recent
enough is still in the rotation's memory (`Repeated`) and in every datagram in
flight that states the newest number (`Newest`), and a client that has had that
number has marked every such frame (`Seen`); what is marked has been made
(`Marked`).  The memory is one shorter than the datagram made from it, hence the
two bounds; a mark falls out of the window no sooner than its frame is no longer
repeated, which is where `HistoryLen < Window` is used.

`LifecycleProofs` proves, for any number of processes per machine, any sequence
of releases and any settings that satisfy `LifecycleAssumption` and
`SettingsAssumption`:

| theorem | |
|---|---|
| `Invariance` | `Spec => []IInv` |
| `SocketAndLock` | `Spec => []LifecycleInv`: the port is with the lock's holder, or with one past its shutdown |
| `Implementation` | `Spec => OneAtATime`: the refinement of `InstanceGuard` |

Two daemons of a machine could only have its devices together if both had its
lock.  `LockHeld` says that every stage from taking the lock to the end of the
shutdown has it; it is not inductive without the rest: a probe of `live_holder`
holds the flock like a process (`ProbeHolds`), nobody asks itself to leave, and
only a server that serves or did has the socket (`AllSound`, `PortHeld`).  A step
of the implementation then begins an instance when none runs (`Alone`,
`NobodyYet`), ends one, or leaves the set as it is (`StepMaps`).

`EdgeProofs` proves, for every layout, set of zones and edge map, and every
length of the dwell and of the cooldown (`EdgeAssumption`, `ScreensAssumption`):

| theorem | |
|---|---|
| `Invariance` | `Spec => []IInv` |
| `OncePerVisit` | `Spec => OneSwitchPerVisit` |
| `Meant` | `Spec => SwitchIsMeant` |
| `Outline` | for every finite set of outputs that do not overlap, `OutlineExact` |
| `ZonesRight` | `DisjointScreens => (Spec => []EdgeInv)` |

The properties speak of an observer that sees polls and firings, the manager
acts on a debounced state and three timers.  `IInv` relates the two for each
direction by itself: a pending change is one poll of the other kind
(`Debounces`), a dwell is no longer than the contact and began with the pointer
away before and the cooldown over (`Dwells`), the latch and the cooldown remember
the last firing (`Rearms`), and the last poll stands for a zone in force as long
as anything depends on it (`Sees`), which a change of the layout can only break by
resetting the direction.

`Outline` is about the geometry alone: the zones computed by the sweep, with its
tolerance of a pixel and its trimming, are the pixels with nothing beyond them
but the corners.  `Swept` is what holds after the sweep has passed a set of
abutting intervals: the cursor is the furthest end (`Reached`), and the segments
are exactly the gaps between them (`Gap`).  The set may be of any size; `SweepGaps`
takes a least set for which it fails and passes its last interval (`PassSweeps`).
With the rest of the edge the segments are the maximal stretches no interval
covers (`SegmentsAreGaps`); a pixel is in such a stretch exactly if no output is
within the tolerance beyond it (`ExposedPixel`); the stretch around an exposed pixel
is the gap it is in (`GapAround`, `GapIsRun`); and trimming by a share of the length
is counting pixels at both ends (`TrimIsCount`).  `ZonesRight` adds the types of the
manager's state (`Holds`), which need nothing of the outline.

`DisjointScreens` is a hypothesis, not an assumption: the compositor is free to
put one output over another, and the code then takes a boundary that the other
one covers, without ending near it, for exposed.  TLC checks that it holds of the
settings of `MCEdgeSwitch`, among which are rounded sizes that leave a gap of a pixel.

`LinkProofs` proves, for any number of clients, any frames, rates and lengths of
streaks and cooldowns that satisfy `FidelityAssumption`:

| theorem | |
|---|---|
| `Invariance` | `Spec => []IInv` |
| `Earned` | `Spec => []LinkInv` |
| `ShortQueue` | `Spec => []QueueStaysShort` |

`Fair(e)` ties the tier, the streak and the rate of an end to what its samples
have earned.  `Surfacing` bounds how long a wrong notification has stood by the age
of that notification.  `Pacing` is why queues stay short: they hold no more than
the writer still waits for, the rest of its sleep or the debt that idle time has
not paid, and a debt that reaches `MIN_SLEEP` is slept off at once.

`SessionProofs` proves, for any machines, endpoints and settings that satisfy
`SessionAssumption`, with any number of losses and restarts:

| theorem | |
|---|---|
| `Invariance` | `Spec => []IInv` |
| `Admitted` | `Spec => []SessionInv` |
| `Identified` | `Spec => []RightIdentity` |
| `WayBack` | `Spec => []EdgesAgree` |

`Admission` follows a connection through its stages.  `Handover` says that, until
`raced`, one connection at a time has a fingerprint stored, which is in the slot
unless a crossing handshake has removed it; so whoever takes a fingerprint takes
its own.  For the edges `Tells` says what a client will watch once it has handled its
stream: for each direction the last message about it decides, and what it watches
already if there is none (`Hears`).  What is revoked and told then makes up the
difference to what was sent before (`Told`), and handling a message changes
nothing (`Inferred`); the rest is that the same members, under the same names,
resolve to the same edges (`Aimed`).

`DeviceProofs` proves about `InputPath`, for any keys and chords, devices and queue lengths that
satisfy `ChordAssumption`, `ScenarioAssumption` and `CapacityAssumption`, whatever
users, commands and other processes do:

| theorem | |
|---|---|
| `Invariance` | `Spec => []IInv` |
| `GrabbedClean` | `Spec => []InputInv`: a grabbed keyboard leaves no key pressed in the compositor, and more |
| `AllKeysUp` | `Spec => []KeysComeUp`: a key that is let go of comes up on every virtual keyboard |

A press waits in the kernel's buffer, then in the event queue, then a machine
holds it, and a chord may swallow frames in between.  `Sticks` says what the last
two have in common: a press with nothing behind it that lifts it.  `KeyOwed`
says that the reader has yet to see the release of each such key and will pass
it on (`Owed`: it has the grab, the release is unread or still to come, and no
chord that fired will take it); `Waits`, that an unread press has its release
behind it or its key is down; `PairsSeen`, what the compositor was left with at a
grab.  The attempt to prove it found that `KeysComeUp` failed beyond the bounds of
its run: with two unread frames, a press may be read under a grab that was lost
to another process and won back, its release having gone to that process.  The
code cannot see this (no `SYN_DROPPED` is made for it), so `cut` now marks it.

It proves about `DeviceOutput`, for any finite set of codes, any devices that satisfy
`SupportsAssumption`, batches of any length and every way a write can fail:

| theorem | |
|---|---|
| `DevicesInvariance` | `O!Spec => []DevicesInv` |
| `OutputTracked` | `O!Spec => []OutputInv`: what a device holds of a key of its own is in the set `release_all` works from |
| `IdleLetsGo` | `O!Spec => []IdleHoldsNothing`: a session that was left, and whose release went through, holds no key of its own anywhere |

`O` is `DeviceOutput`, an instance over the same constants as `VirtualDevices`, whose
operators the properties are stated with (`SameOutput`: they are the same).  The set
of pressed keys is updated by the whole batch before any of it is written
(`Tracked`), the devices one after the other by their parts of it.  So in the middle
of a write the two disagree: `Loose` says what the devices written so far may hold
if any part of their writes was lost, what is pressed now or was let go of in this
batch; `Tight`, that they hold exactly what is pressed if none was.  `Tracks` and
`Close` are what is left of the two between writes.  `NoStrayRepeat`, that no device
repeats a key it does not hold, is only promised as long as no write failed.

The loops over a batch (`Kernel`, `Tracking`) are recursive functions on
`0 .. Len(events)`, and the sweep above is one on the subsets of a finite set.  That
they satisfy their recursion at all (`KernelSteps`, `TrackingSteps`, `SweepSteps`), and
every fact about all their values (`AlongBatch`, `SweepGaps`), is proved from the
least argument it would fail for (`WFMin` of the library): its induction theorems
take an operator as a parameter, which the provers cannot instantiate.

`ClipboardProofs` proves about `ClipboardHandoff`, for any machines and any numbers of connections, copies
and switches that satisfy `HandoffAssumption`:

| theorem | |
|---|---|
| `Invariance` | `Spec => []IInv` |
| `Handover` | `Spec => []HandoffInv` |
| `PasteWhatIsOffered` | `Spec => []PasteIsTarget`: the active machine pastes the clipboard the rotation has as its target, once its stream is drained |
| `NewsOnly` | `Spec => OnlyNewsAnnounced`: a key release announces nothing, and an activation nothing older than what the rotation had |

What a client will be is decided by its queue: the last `Switch` in it or the
present state (`WillBe`), the last `ClipboardTypes` in it or the present
clipboard (`WillPaste`).  `Agreed` says that this is what the server believes of a
connection, between any two *writes* of a handler: a switch, for instance, first
deactivates, then announces, then activates.  `FirstActivates` is the inference of
`client.rs`: a client that was never activated gets its clipboard, if the rotation
had one, before its first `Switch`.  Each write has a lemma for what it appends
(`SwitchWritten`, `TypesWritten`, `FirstWritten`), each read one for what it takes
(`PasteRead`, `FirstIsRead`), and each handler composes them.  `MadeHere` adds that
what a machine calls its own was copied there.

It proves about `ClipboardFetch`, for any machines, types, connections, losses,
fetches and timeouts, and queues of any capacity:

| theorem | |
|---|---|
| `FetchesInvariance` | `F!FetchAssumption /\ F!Spec => []FetchesInv` |
| `AnswersRight` | `F!FetchAssumption /\ F!Spec => []RightAnswer`: nobody gets the answer to another fetch |
| `PastesFresh` | `F!FetchAssumption /\ F!Spec => []PasteNotStale`: no cache gives a paste what is older than its advertisement |
| `FetchesTracked` | `F!FetchAssumption /\ F!Spec => []FetchInv`: no fetch is just forgotten, no mutex left behind |

`F` is `ClipboardFetch`, as an instance: the module extends the other half, so the
assumptions on the constants are a hypothesis.  One of them is about the encoding
alone: that `None` is not a serve.  `HandoffAssumption`, which the module inherits,
adds nothing but a number of switches, which no fetch depends on.

A handler is a composition of operators on a *world* (the four variables), so
the invariant, `Consistent`, is a property of worlds with a set of fetches in
hand, and each operator has a lemma: `Route` and `SendContent` take a fetch that is
in hand and put it in a queue, in the hands of a serving task, or end it.  The
parts of `Consistent`:

- `Alone`, `Tracked`: a fetch is in at most one place, a queue, the request channel
  or a serving task, and in one if somebody waits for it and it was not lost.
- `Mail`, `Serves`: an identifier in a frame or a task is *expected* (`Expects`) by the
  table it belongs to: there it stands for this fetch, or for none, and it will
  not be given out again.  That identifiers only grow is what makes a late answer
  harmless after a timeout; the tables may forget only what nobody waits for
  (`Forgets`).  A connection that was lost keeps its machine, so what is left of its
  frames cannot meet the table of its successor.
- `Cached`, `Sources`, `OfferSound`, `FetchSound`: whatever of a machine's copies is
  *published* (the target of the rotation, an advertisement, a fetch under way), the
  caches of its reader that may still be used, and the read under way if it is
  fresh, are not older.  This is where the order of the code matters: the watcher
  invalidates the reader before anybody can hear of the new copy.

`Settles` says what most operations do to a world: they end fetches, drop table
entries, advertisements and caches, and publish nothing that a cache could be
older than.  It is transitive, so a handler that writes to many clients is one
step of it.  Only a handful of operations move frames (`Wrote`, `TookUp`, `TookDown`,
`Taken`).

Identifiers are natural numbers in the model; the code's are `u64` and wrap, which
the argument would notice only if a fetch were still waited for 2^64 fetches later.

Model-checked only: liveness, which is beyond the prover.  These are
`SilentClientIsLeft`, `SilencedClientRecovers`, `PreDropCopySurvives`, `GrabSettles`,
`DwellEnds`, `ComesBack`, `SomeoneRuns`, `UpdateTakesEffect`, `ProtocolsMeetAgain` and
`MirrorCatchesUp`.  Every invariant and every action property of the runs that pass is
stated by a theorem, and so are both refinements.

## What the code does otherwise than it says

`v_reuse_activated` shows the first of these; the others are stated in their
modules as properties that TLC finds violated, without a run of their own.

- `CurrentActivated` (`rotation.rs:1201`): a reconnect from the *same* addr:port
  as the current client replaces its entry in place; the switch that follows is
  a no-op, so the new connection is never activated and drops its pointer motion.
- `UserChoiceWins` (`rotation.rs:1510`): `README.md:155` says that choosing the
  local machine by hand wins over automatic recovery.  When input is local
  already the request is a no-op, and recovery after a loss stays armed.
- `MovedOnce` (`rotation.rs:1201`): the same replacement keeps the frames the old
  connection had applied; if the new connection is activated after all, by a
  chord for the current client, the pointer makes up to 32 frames again.
- `NoStaleShadow` (`client.rs:668`): the announcement a client deferred goes out
  when the next message arrives, even if that message brings a newer copy, and
  takes the clipboard back.
- `CopyIsAnnounced` (`client.rs:722`): after a real deactivation nothing need
  ever be sent to that client again, and its deferred announcement waits.
- `NextPasteRequests` (`clipboard/wayland/writer.rs:282`): an empty answer to a
  read that failed or was too slow is cached by the advertisement, so the next
  paste does not request again.
- `StuckNowhere` (`uinput.rs:556`): a button that two devices have goes to the
  device with more of the batch; its release, in another batch, may go to the
  other, and the first keeps it pressed although `release_all` succeeded.
- `NoMidDesktopTrigger` (`edge.rs:610`): `zone_contains` has no far bound: any
  pointer at the height of a zone and beyond its line is on it, also one in the
  middle of an output further out (`README.md:139` has "only the exposed parts of
  an edge count").
- `StartsMeetAnother` (`single_instance.rs:7`, `:209`): a start that finds the lock
  held by an instance that exits before `/proc` is read, or by the probe of
  `live_holder`, is refused, and nobody runs.
- `MeetsEveryServer` (`update.rs:217`, `:247`): the record "so a client never installs
  a build its server couldn't talk to" is written once per connection, or when mDNS
  answers, and its age counts from there; "an older record means this machine has
  not acted as a client in days" is not so for one in a session of more than 48
  hours that mDNS does not answer.  It builds the next release, and if its server
  does not update itself the two never meet again.  `ProtocolsMeetAgain`, which is
  checked, excuses exactly this client (`Overtook`), and only where records expire
  and the server does not update itself.
- `TickFollowsTier` (`server.rs:242`): the motion timer is rebuilt only when a
  sample changes the current client's tier, not on a switch, a reconnect in place
  or the return home, so it may run at the rate of another client's link
  (`rotation.rs:33`, `link_quality.rs:4`).
- `SilencedIsConnected`, `OwnerIsConnected` (in `Rotation`): the endpoint recorded as
  silenced may have been removed by the very write that left it; an owner that
  was removed may be announced by a message still in the queue.

Met while modelling, and kept out of the properties or marked by a history
variable:

- *Rotation.*  The replacement in place leaves `edge_info_sent` (only
  `handle_client_removal` clears it), so the new connection is never sent its
  edges and loses its way back.  A silenced client that is replaced in place does
  not recover.
- *Input.*  Frames that arrive while a keyboard waits for its grab are read after
  it and routed as grabbed, though the compositor has seen them; a grab is retried
  without another look at the held keys (`input.rs:24`); a mouse is grabbed with a
  button down; an ungrab behind its broadcast, a device unplugged with a key down
  and a reader displaced at start-up each leave the key pressed on a virtual
  device; the event that makes a batch exceed 32 is dropped (`input.rs:294`); a
  failed ungrab is retried every 5 s for ever when the grab had failed; a full
  queue of file events drops a `Created`, and the node is not read.
- *Edge.*  The latch is implied by the other fields of a direction.  A pointer that
  rests on an edge since the cooldown fires only after it left.
- *Session.*  The comment in `verify_client_cert` speaks of three clients; two
  suffice if one retries at once, and a mix-up is passed on to the next
  handshakes.  After a client's deliberate close no `RemoveClient` is sent: its
  entry stays until a write fails.
- *Lifecycle.*  `last_attempted` is set after a transient failure too, so an
  outdated client is not retried until the remote moves.  A restart that falls
  due while `exit` closes the loops re-executes after all.  A shutdown during a
  build waits for it.  A pid read before its holder wrote it gives the message
  about a different user.
- *Link.*  The last refresh of a burst is skipped by the rate limit, and the
  published state lags until the next iteration, up to the 2 s of the ping timer.
  The cooldown of notifications does not hold across reconnects.
- *Indicator* (read, not modelled).  A re-executed daemon's indicator inherits
  `MONUX_RESTARTED` and yields to the one it should replace; `show` racing `hide`
  or the supervisor's end can lose or orphan a child.

## Not modelled

Formatting, encoding and conversion of data (`clipboard/convert.rs`, `msgs` but
for motion and the identifiers of fetches), the framing of the bulk stream in
chunks, QUIC and TLS themselves, mDNS and D-Bus, the compositor's protocol
objects, the tray indicator (a desktop icon and the supervisor of its process:
D-Bus and process I/O), setup and removal of the system configuration, logging
and notifications: they hold no state a property of ours depends on, or talk to
something outside the repository.  Real time is abstracted everywhere: a deadline
passes at any moment, or time is counted in a few ticks.

## Plan

Every part of the program that keeps state of its own is modelled, except for the
tray indicator and the framing of the bulk stream.  What would come next:

1. **BulkFraming** (`client.rs` and `server.rs`, `handle_bulk_messages`): headers and
   payloads arrive in chunks cut anywhere; both ends stay in step with the frames.
2. **Indicator** (`indicator_spawn.rs`): show, hide, respawn and the end of the
   supervisor in any order leave no orphan and no missing icon.
3. An abstract specification **Focus** (members, holder, who believes to hold)
   that `Rotation` implements: so far its promises are proved one by one.
