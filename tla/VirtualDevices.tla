--------------------------- MODULE VirtualDevices ---------------------------
(***************************************************************************)
(* The virtual devices of a machine, device/output/uinput.rs, and what has *)
(* to hold of them and of the session that writes to them (DeviceOutput).  *)
(*                                                                         *)
(* VirtualUInputDevices is one OutputHandler before three kernel devices.  *)
(* It keeps one set of held keys for the three, by code; which device an   *)
(* event goes to is decided per batch.  A write to a device fails as a     *)
(* whole or after a few events, and what came before it stays written.     *)
(***************************************************************************)
EXTENDS Naturals, Sequences, FiniteSets

CONSTANTS
    Code,       \* the codes that arrive: keys, buttons and axes
    Button,     \* those of them that are held and let go of
    Repeating,  \* those of them a device repeats while they are held
    Supports,   \* Supports[d]: the codes virtual device d was created with
    MaxPending, \* bound: events of one chunk
    MaxBatch    \* bound: events of one message

Device == {"keyboard", "mouse", "touchpad"}

\* route_event: the devices an event may go to.
Homes(c) == {d \in Device : c \in Supports[d]}

\* Codes are 16 bits wide.
ASSUME CodeAssumption ==
    IsFiniteSet(Code) /\ Repeating \subseteq Button /\ Button \subseteq Code
ASSUME SupportsAssumption ==
    /\ Supports \in [Device -> SUBSET Code]
    /\ \A c \in Code : Homes(c) \in {{"keyboard"}, {"mouse"}, {"touchpad"},
                                    {"keyboard", "mouse"}, {"mouse", "touchpad"}}

ASSUME BoundsAssumption == MaxPending \in Nat /\ MaxBatch \in Nat

\* The value of an axis is never 0 here: nothing depends on it.
Event == {e \in [code : Code, value : 0 .. 2] :
            /\ e.code \notin Button => e.value = 1
            /\ e.value = 2 => e.code \in Repeating}

\* pressed: pressed_keys.  recent: the keys a repeat was delivered for less
\* than REPEAT_MIN_INTERVAL ago.  down: what each kernel device has pressed.
\* stray: history, a device was sent a repeat of a key it does not hold.
Output == [pressed : SUBSET Button, recent : SUBSET Button,
           down : [Device -> SUBSET Button], stray : BOOLEAN]

-----------------------------------------------------------------------------
(* Writing to them.                                                        *)

\* The kernel device after one event.
Put(o, d, e) ==
    CASE e.code \notin Button -> o
      [] e.code \in Button /\ e.value = 0 -> [o EXCEPT !.down[d] = @ \ {e.code}]
      [] e.code \in Button /\ e.value = 1 -> [o EXCEPT !.down[d] = @ \union {e.code}]
      [] OTHER -> [o EXCEPT !.stray = @ \/ (Homes(e.code) = {d} /\ e.code \notin o.down[d])]

\* It after those events of a batch that stand at the places of a part of it.
Kernel(o, d, events, part) ==
    LET after[i \in 0 .. Len(events)] ==
            IF i = 0 THEN o
            ELSE IF i \in part THEN Put(after[i - 1], d, events[i]) ELSE after[i - 1]
    IN  after
PutAll(o, d, events, part) == Kernel(o, d, events, part)[Len(events)]

\* emit_events: one writev, of everything or of the first few events.
Emit(o, d, events, part) ==
    IF part = {} THEN {[out |-> o, ok |-> TRUE]}
    ELSE {[out |-> PutAll(o, d, events, part), ok |-> TRUE]}
           \union {[out |-> PutAll(o, d, events, {i \in part : i <= n}), ok |-> FALSE] :
                      n \in 0 .. Len(events)}

\* The places of those events a device could take, of the ones to be sent.
Takes(d, events, sent) == {i \in sent : d \in Homes(events[i].code)}
CountFor(d, events, sent) == Cardinality(Takes(d, events, sent))

\* The device of one code of a batch that no single device can take: its
\* only one, or of two the one with more of the batch, the first on a draw.
Dest(c, events, sent) ==
    LET n(d) == CountFor(d, events, sent)
    IN  CASE Cardinality(Homes(c)) = 1 -> CHOOSE d \in Homes(c) : TRUE
          [] Homes(c) = {"keyboard", "mouse"} ->
                 IF n("keyboard") >= n("mouse") THEN "keyboard" ELSE "mouse"
          [] OTHER -> IF n("mouse") >= n("touchpad") THEN "mouse" ELSE "touchpad"

\* emit_routed_events: to the first device that takes the whole batch, or in
\* parts to the three in turn, until one fails.
EmitRouted(o, events, sent) ==
    LET all(d) == CountFor(d, events, sent) = Cardinality(sent)
        part(d) == {i \in sent : Dest(events[i].code, events, sent) = d}
        Then(results, d) ==
            UNION {IF r.ok THEN Emit(r.out, d, events, part(d)) ELSE {r} : r \in results}
    IN  CASE all("keyboard") -> Emit(o, "keyboard", events, sent)
          [] ~all("keyboard") /\ all("mouse") -> Emit(o, "mouse", events, sent)
          [] ~all("keyboard") /\ ~all("mouse") /\ all("touchpad") ->
                 Emit(o, "touchpad", events, sent)
          [] OTHER -> Then(Then(Emit(o, "keyboard", events, part("keyboard")), "mouse"),
                           "touchpad")

\* A repeat is dropped for a key that is not pressed, and when it comes too
\* fast after the last.
Deliverable(o, e) ==
    e.code \in Button /\ e.value = 2 => e.code \in o.pressed /\ e.code \notin o.recent

\* The bookkeeping of write for one event of its batch.
Track(o, e) ==
    CASE e.code \notin Button -> o
      [] e.code \in Button /\ e.value = 0 -> [o EXCEPT !.pressed = @ \ {e.code}]
      [] e.code \in Button /\ e.value = 1 -> [o EXCEPT !.pressed = @ \union {e.code}]
      [] OTHER -> IF Deliverable(o, e) THEN [o EXCEPT !.recent = @ \union {e.code}] ELSE o

\* All of it, after each of the events: the output, the places of the events
\* to send, and the keys a release was taken out of the set for.
Note(t, events, i) ==
    [out |-> Track(t.out, events[i]),
     sent |-> t.sent \union (IF Deliverable(t.out, events[i]) THEN {i} ELSE {}),
     removed |-> IF events[i].value = 0
                 THEN t.removed \union ({events[i].code} \intersect t.out.pressed)
                 ELSE t.removed]
Tracking(o, events) ==
    LET after[i \in 0 .. Len(events)] ==
            IF i = 0 THEN [out |-> o, sent |-> {}, removed |-> {}]
            ELSE Note(after[i - 1], events, i)
    IN  after
Tracked(o, events) == Tracking(o, events)[Len(events)]

\* Mutant of Write: a failed write leaves the keys it released forgotten.
WriteForgets(o, events) ==
    LET t == Tracked(o, events) IN EmitRouted(t.out, events, t.sent)

\* write: the set of its outcomes.  If the kernel refuses, the keys released
\* by the batch are put back among the pressed ones.
Write(o, events) ==
    LET t == Tracked(o, events)
    IN  {IF r.ok THEN r ELSE [r EXCEPT !.out.pressed = @ \union t.removed] :
            r \in EmitRouted(t.out, events, t.sent)}

\* release_all: a release of every pressed key, in the map's order.
Releases(o) ==
    LET places == 1 .. Cardinality(o.pressed)
    IN  {[i \in places |-> [code |-> keys[i], value |-> 0]] :
            keys \in {f \in [places -> o.pressed] : \A c \in o.pressed : \E i \in places : f[i] = c}}
ReleaseAll(o) == UNION {Write(o, releases) : releases \in Releases(o)}

-----------------------------------------------------------------------------
(* The state of the session.                                               *)

VARIABLES
    out,        \* VirtualUInputDevices: see Output
    pending,    \* pending_input: events of this chunk not written yet
    active,     \* the session is switched to
    unreleased, \* history: the last release_all failed
    failed      \* history: some write has failed

-----------------------------------------------------------------------------
(* Properties.                                                             *)

\* Types of the devices, of what waits for them and of the session.
OutputTypeOK ==
    /\ out \in Output
    /\ pending \in Seq(Event) /\ Len(pending) <= MaxPending
    /\ {active, unreleased, failed} \subseteq BOOLEAN

Held(c) == {d \in Device : c \in out.down[d]}
OneHome == {c \in Button : Cardinality(Homes(c)) = 1}

\* What a kernel device holds is in the set release_all works from, so that
\* it can be released: also after a write that failed half way through a
\* mixed batch, on any of the devices.  (Codes of two devices are another
\* matter: see StuckNowhere.)
HeldIsTracked == \A c \in OneHome : Held(c) # {} => c \in out.pressed

\* A machine that is not active holds no key, unless the write that should
\* have released it failed: switches, lost sessions and chunks with a press
\* and a switch in them included.
IdleHoldsNothing ==
    (~active /\ ~unreleased) => \A c \in OneHome : Held(c) = {}

\* No device repeats a key that it does not hold, as after a switch with a
\* key held: the press went to another machine.
NoStrayRepeat == ~failed => ~out.stray

\* The set and the devices agree, as the run checks it.
OutputInv == OutputTypeOK /\ HeldIsTracked /\ NoStrayRepeat

\* What output/mod.rs says of release_all ("Releases all keys/buttons
\* currently held on the output devices"), for every code: once it has
\* succeeded no device holds anything.
StuckNowhere == (~active /\ ~failed) => \A c \in Button : Held(c) = {}

=============================================================================
