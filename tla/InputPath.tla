------------------------------ MODULE InputPath ------------------------------
(***************************************************************************)
(* The way of one physical input device through the server: the watcher    *)
(* that finds its node, the reader task that grabs it and looks for        *)
(* chords, the event queue, and what the rotation loop does with a batch.  *)
(*                                                                         *)
(* Four parties run concurrently: the user and the kernel, the watcher     *)
(* (device/watch.rs, device/handles.rs), the reader of the device          *)
(* (device/input.rs, device/shortcut.rs) and the rotation loop.  Grab      *)
(* states come back to the reader through a watch channel, which keeps     *)
(* only the newest value.  An ungrabbed device is seen by the compositor   *)
(* AND by the reader; a grabbed one by the reader alone.                   *)
(*                                                                         *)
(* A frame is one key event and its SYN_REPORT.  Which machine is current  *)
(* is reduced to "a client" or "the local machine": the Rotation module    *)
(* has the rest of that loop.                                              *)
(***************************************************************************)
EXTENDS Naturals, Sequences, FiniteSets, SequencesExt

CONSTANTS
    Key,        \* the keys of the device
    Chord,      \* the shortcuts: records [keys, action]
    Scenario,   \* what the environment may do: see Budget
    MaxUnread,  \* bound: frames in the kernel's buffer of the reader's fd
    MaxQueue,   \* capacity of the rotation's event queue
    MaxNotices  \* capacity of the watcher's queue of file events

Action == {"switch", "pause"}
Class == {"keyboard", "toggled"}

\* How often things outside the program happen in a behaviour.
Budget == [class : Class,    \* the device's class
           repeats : BOOLEAN,\* whether held keys repeat
           plugs : Nat,      \* times the device is plugged in again
           commands : Nat,   \* pause and resume commands
           peers : Nat,      \* times a client joins or is lost
           thieves : Nat]    \* times another process takes the grab

ASSUME ChordAssumption ==
    /\ IsFiniteSet(Key) /\ IsFiniteSet(Chord)
    /\ \A c \in Chord : c.keys \subseteq Key /\ c.keys # {} /\ c.action \in Action
ASSUME ScenarioAssumption == Scenario \subseteq Budget
ASSUME CapacityAssumption ==
    MaxUnread \in Nat \ {0} /\ MaxQueue \in Nat \ {0} /\ MaxNotices \in Nat \ {0}

VARIABLES
    budget,     \* what the environment may still do
    down,       \* keys the user holds
    node,       \* the device node: absent, locked (udev has not given it its
                \* permissions yet) or open
    grab,       \* who holds the kernel grab: nobody, the reader, another
    raw,        \* keys the compositor saw pressed on the device itself
    unread,     \* frames in the reader's kernel buffer
    notices,    \* device_event_rx: file events the watcher has not handled
    watcher,    \* watch_loop: before its scan, idle, or opening a node
    reader,     \* the reader task: see Reader
    queue,      \* event_rx: what the rotation loop has not handled
    rot,        \* the rotation loop: paused, a client is current, connected
    state,      \* the grab state last broadcast
    held,       \* keys pressed on the virtual keyboard of each machine
    missed,     \* history: a node was never opened, or a file event dropped
    cut,        \* history: a reader ended before it read a release, or did
                \* not get it, the grab being another's
    late,       \* history: the ungrab came after presses that were routed to
                \* the local machine since the broadcast, or are about to be
    uneasy      \* history: a keyboard was grabbed while, or after, a key went
                \* down: the compositor misses its release

env == <<budget, down, node>>
device == <<grab, raw, unread>>
loop == <<queue, rot, state, held>>
history == <<missed, cut, late, uneasy>>
vars == <<env, device, notices, watcher, reader, loop, history>>

-----------------------------------------------------------------------------
(* Chords.                                                                 *)

Frame == [key : Key, value : 0 .. 2]
Fresh == [c \in Chord |-> [pressed |-> {}, fired |-> FALSE]]

\* The pressed keys of a chord after an event.
PressedAfter(c, s, f) ==
    IF f.key \notin c.keys THEN s.pressed
    ELSE IF f.value = 0 THEN s.pressed \ {f.key} ELSE s.pressed \union {f.key}

\* check_combo: a fresh press of the last missing key fires the chord, once
\* or, with the other keys still held, again.
Fires(c, s, f) ==
    /\ f.key \in c.keys /\ f.value = 1
    /\ PressedAfter(c, s, f) = c.keys
    /\ s.fired => f.key \notin s.pressed

\* check_combo: once fired, every event of the chord's keys is swallowed.
Consumes(c, s, f) == f.key \in c.keys /\ (s.fired \/ Fires(c, s, f))

\* The ComboState after an event: armed again once all its keys are up.
ComboAfter(c, s, f) ==
    LET pressed == PressedAfter(c, s, f)
    IN  [pressed |-> pressed,
         fired |-> Fires(c, s, f) \/ (s.fired /\ (f.key \in c.keys => pressed # {}))]

\* Only a device that has a shortcut's key is a keyboard.
Armed == IF budget.class = "keyboard" THEN Chord ELSE {}

\* The chords that act on an event: of several that fire only the longest.
Longest(combos, f) ==
    LET fired == {c \in Armed : Fires(c, combos[c], f)}
    IN  {c \in fired : \A d \in fired : Cardinality(d.keys) <= Cardinality(c.keys)}

-----------------------------------------------------------------------------
(* The reader task.                                                        *)

\* phase: none (no task, or it returned), start, waiting for quiescence,
\* trying to grab a keyboard, or in its select loop.  alive: its node is
\* still the one it opened.  grabbed: DeviceInfo.is_grabbed.  pending:
\* pending_grab.  changed: a broadcast it has not looked at.
Reader == [phase : {"none", "start", "waiting", "grabbing", "running"},
           alive : BOOLEAN, grabbed : BOOLEAN,
           pending : {"none", "grab", "ungrab"}, changed : BOOLEAN,
           combos : [Chord -> [pressed : SUBSET Key, fired : BOOLEAN]]]

NoReader == [phase |-> "none", alive |-> FALSE, grabbed |-> FALSE,
             pending |-> "none", changed |-> FALSE,
             combos |-> Fresh]
NewReader == [NoReader EXCEPT !.phase = "start", !.alive = TRUE]

Queued == [kind : {"input"}, frame : Frame, grabbed : BOOLEAN]
             \union [kind : {"chord"}, action : Action]
             \union [kind : {"set"}, paused : BOOLEAN]

\* class_grabbed: a keyboard is grabbed unless input is paused, any other
\* device while a client is active too.
ClassGrabbed(s) == ~s.paused /\ (budget.class = "keyboard" \/ s.client)

\* handle_grab_event's ioctl: a grab succeeds on a live node nobody else
\* grabbed; an ungrab succeeds for the holder, and on a node that is gone.
GrabWorks == reader.alive /\ grab = "free"
UngrabWorks == ~reader.alive \/ grab = "reader"

\* apply_grab_transition, with r the reader as it is without the transition.
\* A keyboard is first waited for; anything else is tried at once.
Transition(r, want) ==
    \/ /\ want /\ budget.class = "keyboard"
       /\ reader' = [r EXCEPT !.phase = "waiting", !.pending = "none"]
       /\ uneasy' = (uneasy /\ raw # {})
       /\ UNCHANGED <<grab, late>>
    \/ /\ want /\ budget.class # "keyboard" /\ GrabWorks
       /\ reader' = [r EXCEPT !.phase = "running", !.pending = "none", !.grabbed = TRUE]
       /\ grab' = "reader"
       /\ UNCHANGED <<late, uneasy>>
    \/ /\ want /\ budget.class # "keyboard" /\ ~GrabWorks
       /\ reader' = [r EXCEPT !.phase = "running", !.pending = "grab"]
       /\ UNCHANGED <<grab, late, uneasy>>
    \/ /\ ~want /\ UngrabWorks
       /\ reader' = [r EXCEPT !.phase = "running", !.pending = "none", !.grabbed = FALSE]
       /\ grab' = IF grab = "reader" THEN "free" ELSE grab
       /\ late' = (late \/ held["local"] # {}
                        \/ \E i \in DOMAIN queue :
                              queue[i].kind = "input" /\ queue[i].grabbed)
       /\ UNCHANGED uneasy
    \/ /\ ~want /\ ~UngrabWorks
       /\ reader' = [r EXCEPT !.phase = "running", !.pending = "ungrab"]
       /\ UNCHANGED <<grab, late, uneasy>>

\* read_device_or_grab_events begins by applying the current grab state.
Start ==
    /\ reader.phase = "start"
    /\ LET r == [reader EXCEPT !.changed = FALSE]
       IN  IF ClassGrabbed(state) THEN Transition(r, TRUE)
           ELSE /\ reader' = [r EXCEPT !.phase = "running"]
                /\ UNCHANGED <<grab, late, uneasy>>
    /\ UNCHANGED <<env, raw, unread, notices, watcher, loop, missed, cut>>

\* Mutant of Quiet: the keyboard is grabbed whatever is held.
QuietAtOnce ==
    /\ reader.phase = "waiting"
    /\ reader' = [reader EXCEPT !.phase = "grabbing"]
    /\ UNCHANGED <<env, device, notices, watcher, loop, history>>

\* grab_keyboard_when_quiescent: no key is held, or the query failed.
Quiet ==
    /\ reader.phase = "waiting"
    /\ down = {} \/ ~reader.alive
    /\ reader' = [reader EXCEPT !.phase = "grabbing"]
    /\ UNCHANGED <<env, device, notices, watcher, loop, history>>

\* GRAB_QUIESCENT_TIMEOUT passes with a key held: grab anyway.
GiveUpWaiting ==
    /\ reader.phase = "waiting"
    /\ down # {}
    /\ reader' = [reader EXCEPT !.phase = "grabbing"]
    /\ uneasy' = TRUE
    /\ UNCHANGED <<env, device, notices, watcher, loop, missed, cut, late>>

\* The grab itself: a failure is retried after GRAB_RETRY_INTERVAL, without
\* another look at the held keys, at unread frames or at the grab state.
GrabKeyboard ==
    /\ reader.phase = "grabbing"
    /\ GrabWorks
    /\ reader' = [reader EXCEPT !.phase = "running", !.grabbed = TRUE]
    /\ grab' = "reader"
    /\ UNCHANGED <<env, raw, unread, notices, watcher, loop, history>>

\* Mutant of SeeState: a state that differs from what the device has is
\* ignored while a transition is pending.
SeeStateUnlessPending ==
    /\ reader.phase = "running" /\ reader.changed
    /\ LET r == [reader EXCEPT !.changed = FALSE]
           want == ClassGrabbed(state)
       IN  IF want # r.grabbed /\ r.pending = "none" THEN Transition(r, want)
           ELSE /\ reader' = r
                /\ UNCHANGED <<grab, late, uneasy>>
    /\ UNCHANGED <<env, raw, unread, notices, watcher, loop, missed, cut>>

\* select!: state_rx.changed().
SeeState ==
    /\ reader.phase = "running" /\ reader.changed
    /\ LET r == [reader EXCEPT !.changed = FALSE]
           want == ClassGrabbed(state)
       IN  IF want # r.grabbed \/ r.pending # "none" THEN Transition(r, want)
           ELSE /\ reader' = r
                /\ UNCHANGED <<grab, late, uneasy>>
    /\ UNCHANGED <<env, raw, unread, notices, watcher, loop, missed, cut>>

\* select!: retry_interval.tick(), with the target that failed before.
Retry ==
    /\ reader.phase = "running" /\ reader.pending # "none"
    /\ Transition(reader, reader.pending = "grab")
    /\ UNCHANGED <<env, raw, unread, notices, watcher, loop, missed, cut>>

\* select!: next_event() gives a frame, which handle_input_event checks
\* against every chord and sends on, then what fired.
ReadFrame ==
    /\ reader.phase = "running" /\ unread # <<>> /\ Len(queue) < MaxQueue
    /\ LET f == Head(unread)
           combos == reader.combos
           batch == IF \E c \in Armed : Consumes(c, combos[c], f) THEN <<>>
                    ELSE <<[kind |-> "input", frame |-> f, grabbed |-> reader.grabbed]>>
       IN  /\ \E fired \in SetToSeqs(Longest(combos, f)) :
                  queue' = queue \o batch \o
                        [i \in DOMAIN fired |-> [kind |-> "chord", action |-> fired[i].action]]
           /\ reader' = [reader EXCEPT !.combos =
                            [c \in Chord |-> ComboAfter(c, combos[c], f)]]
    /\ unread' = Tail(unread)
    /\ UNCHANGED <<env, grab, raw, notices, watcher, rot, state, held, history>>

\* select!: next_event() fails, the node is gone: the task returns.
ReadError ==
    /\ reader.phase = "running" /\ ~reader.alive
    /\ reader' = NoReader
    /\ UNCHANGED <<env, device, notices, watcher, loop, history>>

-----------------------------------------------------------------------------
(* The watcher.                                                            *)

\* Ending a task closes its fd, which lets go of the grab a little later.
\* What its fd had not been read of is lost, and so are the releases of keys
\* that are down.
EndReader ==
    /\ grab' = IF grab = "reader" THEN "other" ELSE grab
    /\ unread' = <<>>
    /\ cut' = (cut \/ (reader.phase # "none" /\ (unread # <<>> \/ down # {})))

\* DeviceHandles::add: a new reader, which displaces an old one.
Add ==
    /\ reader' = NewReader
    /\ EndReader

\* watch_loop: the watch is set up, now the nodes that are there.
Scan ==
    /\ watcher = "scan"
    /\ watcher' = "idle"
    /\ IF node = "open" THEN Add
       ELSE UNCHANGED <<reader, grab, unread, cut>>
    /\ missed' = (missed \/ (node = "locked" /\ notices = <<>>))
    /\ UNCHANGED <<env, raw, notices, loop, late, uneasy>>

\* handle_device_event, Created: open the node, now or once udev is done.
Created ==
    /\ watcher = "idle" /\ notices # <<>> /\ Head(notices) = "created"
    /\ notices' = Tail(notices)
    /\ watcher' = IF node = "locked" THEN "opening" ELSE "idle"
    /\ IF node = "open" THEN Add
       ELSE UNCHANGED <<reader, grab, unread, cut>>
    /\ UNCHANGED <<env, raw, loop, missed, late, uneasy>>

\* open_device_with_retry gets the node, or finds it gone again.
Opened ==
    /\ watcher = "opening" /\ node # "locked"
    /\ watcher' = "idle"
    /\ IF node = "open" THEN Add
       ELSE UNCHANGED <<reader, grab, unread, cut>>
    /\ UNCHANGED <<env, raw, notices, loop, missed, late, uneasy>>

\* open_device_with_retry runs out of attempts.
NotOpened ==
    /\ watcher = "opening" /\ node = "locked"
    /\ watcher' = "idle"
    /\ missed' = TRUE
    /\ UNCHANGED <<env, device, notices, reader, loop, cut, late, uneasy>>

\* handle_device_event, Deleted: abort whichever reader the path has.
Deleted ==
    /\ watcher = "idle" /\ notices # <<>> /\ Head(notices) = "deleted"
    /\ notices' = Tail(notices)
    /\ reader' = NoReader
    /\ EndReader
    /\ UNCHANGED <<env, raw, watcher, loop, missed, late, uneasy>>

-----------------------------------------------------------------------------
(* The rotation loop.                                                      *)

\* broadcast_grab_state, with the loop's state as it will be.
Broadcast(r) ==
    /\ rot' = r
    /\ state' = [client |-> r.client, paused |-> r.paused]
    /\ reader' = [reader EXCEPT !.changed = reader.phase # "none"]

Current == IF rot.client THEN "client" ELSE "local"

\* What a virtual keyboard holds after a frame.
Apply(keys, f) ==
    CASE f.value = 0 -> keys \ {f.key}
      [] f.value = 1 -> keys \union {f.key}
      [] OTHER -> keys

\* send_input_events: only what the compositor has not seen goes on.
HandleInput ==
    /\ queue # <<>> /\ Head(queue).kind = "input"
    /\ held' = IF rot.paused \/ ~Head(queue).grabbed THEN held
               ELSE [held EXCEPT ![Current] = Apply(@, Head(queue).frame)]
    /\ queue' = Tail(queue)
    /\ UNCHANGED <<env, device, notices, watcher, reader, rot, state, history>>

\* Mutant of HandleSwitch: a switch that goes nowhere cleans nothing up.
HandleSwitchNoCleanup ==
    /\ queue # <<>> /\ Head(queue) = [kind |-> "chord", action |-> "switch"]
    /\ queue' = Tail(queue)
    /\ \/ /\ ~rot.paused /\ (rot.client \/ rot.connected)
          /\ held' = [held EXCEPT ![Current] = {}]
          /\ Broadcast([rot EXCEPT !.client = ~rot.client])
       \/ /\ rot.paused \/ ~rot.client
          /\ UNCHANGED <<held, rot, state, reader>>
    /\ UNCHANGED <<env, device, notices, watcher, history>>

\* next_client and prev_client: ignored while paused; otherwise the machine
\* that was current drops its keys, whether the switch happens, has no
\* target, or comes within SWITCH_DEBOUNCE (never on the way home).
HandleSwitch ==
    /\ queue # <<>> /\ Head(queue) = [kind |-> "chord", action |-> "switch"]
    /\ queue' = Tail(queue)
    /\ \/ /\ ~rot.paused /\ (rot.client \/ rot.connected)
          /\ held' = [held EXCEPT ![Current] = {}]
          /\ Broadcast([rot EXCEPT !.client = ~rot.client])
       \/ /\ ~rot.paused /\ ~rot.client
          /\ held' = [held EXCEPT ![Current] = {}]
          /\ UNCHANGED <<rot, state, reader>>
       \/ /\ rot.paused
          /\ UNCHANGED <<held, rot, state, reader>>
    /\ UNCHANGED <<env, device, notices, watcher, history>>

\* toggle_pause, and set_paused unless it asks for what is so already.
HandlePause ==
    /\ queue # <<>>
    /\ LET e == Head(queue)
           toggles == \/ e = [kind |-> "chord", action |-> "pause"]
                      \/ e.kind = "set" /\ e.paused # rot.paused
       IN  /\ e.kind = "set" \/ toggles
           /\ IF toggles
              THEN /\ held' = IF rot.paused THEN held ELSE [held EXCEPT ![Current] = {}]
                   /\ Broadcast([rot EXCEPT !.paused = ~rot.paused])
              ELSE UNCHANGED <<held, rot, state, reader>>
    /\ queue' = Tail(queue)
    /\ UNCHANGED <<env, device, notices, watcher, history>>

\* A client joins, or the only one is lost and with it what it held.
PeerChanges ==
    /\ budget.peers > 0
    /\ budget' = [budget EXCEPT !.peers = @ - 1]
    /\ IF rot.client
       THEN /\ held' = [held EXCEPT !["client"] = {}]
            /\ Broadcast([rot EXCEPT !.client = FALSE, !.connected = FALSE])
       ELSE /\ rot' = [rot EXCEPT !.connected = ~rot.connected]
            /\ UNCHANGED <<held, state, reader>>
    /\ UNCHANGED <<down, node, device, notices, watcher, queue, history>>

\* A pause or resume command of the control socket, or a switch requested by
\* a signal or by another device's chord, joins the queue.
Command ==
    /\ budget.commands > 0 /\ Len(queue) < MaxQueue
    /\ budget' = [budget EXCEPT !.commands = @ - 1]
    /\ \E e \in [kind : {"set"}, paused : BOOLEAN]
                 \union {[kind |-> "chord", action |-> "switch"]} :
           queue' = Append(queue, e)
    /\ UNCHANGED <<down, node, device, notices, watcher, reader, rot, state, held, history>>

-----------------------------------------------------------------------------
(* The user and the kernel.                                                *)

\* The kernel hands a frame to the fds that may see it.
Deliver(f) ==
    /\ raw' = IF grab = "free" THEN Apply(raw, f) ELSE raw
    /\ unread' = IF reader.alive /\ grab \in {"free", "reader"}
                 THEN Append(unread, f) ELSE unread

\* The user presses, holds or releases a key.
Type ==
    /\ node # "absent" /\ Len(unread) < MaxUnread
    /\ \E f \in Frame :
          /\ (f.value = 1) = (f.key \notin down)
          /\ f.value = 2 => budget.repeats
          /\ down' = Apply(down, f)
          /\ Deliver(f)
          /\ cut' = (cut \/ (grab = "other" /\ f.value = 0
                               /\ \E i \in DOMAIN unread : unread[i].key = f.key))
    /\ uneasy' = (uneasy \/ reader.phase = "grabbing")
    /\ UNCHANGED <<budget, node, grab, notices, watcher, reader, loop, missed, late>>

\* send_device_events: try_send drops what finds the queue full.
Notify(event) ==
    IF Len(notices) < MaxNotices
    THEN /\ notices' = Append(notices, event)
         /\ UNCHANGED missed
    ELSE /\ missed' = (missed \/ event = "created")
         /\ UNCHANGED notices

\* The device is pulled out.  The compositor drops its keys; what the reader
\* has not read is lost.
Unplug ==
    /\ node # "absent" /\ budget.plugs > 0
    /\ node' = "absent"
    /\ down' = {} /\ raw' = {} /\ unread' = <<>> /\ grab' = "free"
    /\ reader' = [reader EXCEPT !.alive = FALSE]
    /\ cut' = (cut \/ down # {} \/ unread # <<>>)
    /\ Notify("deleted")
    /\ UNCHANGED <<budget, watcher, loop, late, uneasy>>

\* The device is plugged in: udev opens the node's permissions later.
Plug ==
    /\ node = "absent" /\ budget.plugs > 0
    /\ node' = "locked"
    /\ budget' = [budget EXCEPT !.plugs = @ - 1]
    /\ Notify("created")
    /\ UNCHANGED <<down, device, watcher, reader, loop, cut, late, uneasy>>

\* udev gives the node its group and mode.
Udev ==
    /\ node = "locked"
    /\ node' = "open"
    /\ UNCHANGED <<budget, down, device, notices, watcher, reader, loop, history>>

\* Another process grabs the idle device for a while.
Steal ==
    /\ budget.thieves > 0 /\ node = "open" /\ grab = "free" /\ raw = {}
    /\ budget' = [budget EXCEPT !.thieves = @ - 1]
    /\ grab' = "other"
    /\ UNCHANGED <<down, node, raw, unread, notices, watcher, reader, loop, history>>

\* The other holder of the grab, or an ended reader's fd, lets go.
LetGo ==
    /\ grab = "other"
    /\ grab' = "free"
    /\ UNCHANGED <<env, raw, unread, notices, watcher, reader, loop, history>>

-----------------------------------------------------------------------------
Init ==
    /\ budget \in Scenario
    /\ node \in IF budget.plugs > 0 THEN {"absent", "locked", "open"} ELSE {"locked", "open"}
    /\ down \in IF node = "open" THEN {{}} \union {{k} : k \in Key} ELSE {{}}
    /\ raw = down
    /\ grab = "free" /\ unread = <<>> /\ notices = <<>>
    /\ watcher = "scan" /\ reader = NoReader
    /\ queue = <<>>
    /\ rot = [paused |-> FALSE, client |-> FALSE, connected |-> FALSE]
    /\ state = [paused |-> FALSE, client |-> FALSE]
    /\ held = [m \in {"local", "client"} |-> {}]
    /\ missed = FALSE /\ cut = FALSE /\ late = FALSE /\ uneasy = FALSE

ReaderSteps ==
    Start \/ Quiet \/ GiveUpWaiting \/ GrabKeyboard \/ SeeState \/ Retry
    \/ ReadFrame \/ ReadError
WatcherSteps == Scan \/ Created \/ Opened \/ NotOpened \/ Deleted
LoopSteps == HandleInput \/ HandleSwitch \/ HandlePause
EnvSteps ==
    PeerChanges \/ Command \/ Type \/ Unplug \/ Plug \/ Udev \/ Steal \/ LetGo

Next == ReaderSteps \/ WatcherSteps \/ LoopSteps \/ EnvSteps
Spec == Init /\ [][Next]_vars

\* The tasks run; a timer ends; a branch of select! that stays ready is taken
\* (tokio polls the branches in random order); udev finishes; a process that
\* holds the grab lets go.  Nothing is assumed of the user.
Fairness ==
    /\ WF_vars(Start) /\ WF_vars(Quiet) /\ WF_vars(GiveUpWaiting) /\ WF_vars(GrabKeyboard)
    /\ WF_vars(SeeState) /\ WF_vars(Retry) /\ WF_vars(ReadError)
    /\ WF_vars(WatcherSteps) /\ WF_vars(LoopSteps)
    /\ WF_vars(Udev) /\ WF_vars(LetGo)
FairSpec == Spec /\ Fairness

-----------------------------------------------------------------------------
(* Properties.                                                             *)

\* Types, and whose the grab is: never that of a task that has ended.
TypeOK ==
    /\ budget \in Budget /\ down \subseteq Key
    /\ node \in {"absent", "locked", "open"}
    /\ grab \in {"free", "reader", "other"}
    /\ raw \subseteq Key /\ unread \in Seq(Frame)
    /\ notices \in Seq({"created", "deleted"})
    /\ watcher \in {"scan", "idle", "opening"}
    /\ reader \in Reader
    /\ queue \in Seq(Queued)
    /\ rot \in [paused : BOOLEAN, client : BOOLEAN, connected : BOOLEAN]
    /\ state \in [paused : BOOLEAN, client : BOOLEAN]
    /\ held \in [{"local", "client"} -> SUBSET Key]
    /\ {missed, cut, late, uneasy} \subseteq BOOLEAN
    /\ grab = "reader" => reader.alive /\ reader.grabbed

\* A key the user has let go of is up everywhere once its release has been
\* handled: no chord, switch, pause, resume or hotplug leaves a key pressed
\* on a virtual keyboard.  Left out are a device that vanishes with a key
\* down, a reader displaced at start-up by the file event of the node it has
\* found already, and an ungrab that lags behind its broadcast: a press in
\* between is emitted, its release arrives as ungrabbed and is dropped.  So
\* are a press still unread when another process takes the grab, and its
\* release with it.
KeysComeUp ==
    (down = {} /\ unread = <<>> /\ queue = <<>> /\ ~cut /\ ~late)
        => \A m \in DOMAIN held : held[m] = {}

\* A grabbed keyboard leaves the compositor with no key down: it has seen
\* the release of every press it saw, unless the quiescence check timed out
\* or was followed by a press before the grab took hold.
CompositorSeesPairs ==
    (budget.class = "keyboard" /\ grab = "reader" /\ ~uneasy) => raw = {}

\* Both states of the node, as the run checks them.
InputInv == TypeOK /\ CompositorSeesPairs

\* When the grab state and the node stay as they are, the device ends up
\* read, and grabbed exactly if its class asks for it: no broadcast, failed
\* ioctl, retry or hotplug leaves a device behind (unless its file event was
\* dropped, or udev took longer than the open retries).
GrabSettles ==
    \A s \in [paused : BOOLEAN, client : BOOLEAN] :
        <>[](state = s /\ node = "open" /\ ~missed)
            => <>[](/\ reader.phase = "running" /\ reader.alive
                    /\ reader.grabbed = ClassGrabbed(s)
                    /\ reader.grabbed = (grab = "reader"))

=============================================================================
