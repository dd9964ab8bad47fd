----------------------------- MODULE EdgeSwitch -----------------------------
(***************************************************************************)
(* The edge manager (edge.rs run_inner): the task that watches the mapped  *)
(* screen edges of one machine and asks for the input to move.  A poller   *)
(* thread queues the pointer's position every 40 ms, whether the manager   *)
(* is handling positions or waiting for a name to resolve, for a layout or *)
(* for room in the rotation's queue.  Of each mapped direction the manager *)
(* keeps a debouncer, a dwell timer and a latch.  On a server a completed  *)
(* dwell sends Event::SwitchTo with the fingerprint its target resolves    *)
(* to; on a client it asks the server to take the input back.              *)
(*                                                                         *)
(* Time is counted in ticks, and an age stops growing where nothing        *)
(* distinguishes it from a larger one.                                     *)
(***************************************************************************)
EXTENDS EdgeGeometry

CONSTANTS
    Dwell,      \* --edge-dwell-ms, in ticks
    Cooldown,   \* REARM_COOLDOWN, in ticks
    Settings,   \* the settings to check: see Init
    MaxFeed,    \* bound: positions queued by the poller
    Capacity    \* positions of the rotation's event queue this task can fill

ASSUME EdgeAssumption ==
    /\ Dwell \in Nat /\ Cooldown \in Nat /\ None \notin Nat
    /\ Capacity \in Nat \ {0} /\ MaxFeed \in Nat

\* A compositor has finitely many monitors, with integer places and sizes.
Monitors == [x : Int, y : Int, width : Int, height : Int, scale : Int, transform : Int,
             disabled : BOOLEAN]
ASSUME ScreensAssumption ==
    \A s \in Settings : \A m \in s.screens : m \subseteq Monitors /\ IsFiniteSet(m)

StablePolls == 2

VARIABLES
    setting,    \* what the machine and its environment are: fixed by Init
    screen,     \* the compositor's monitors
    cursor,     \* where the pointer is
    clients,    \* the server's connected clients (the watch channel's value)
    feed,       \* positions polled and not handled yet
    layout,     \* current_layout, and with it the zones
    lastPos,    \* last_pos
    dirs,       \* DirState of every mapped direction
    phase,      \* what the manager waits for
    due,        \* directions whose completed dwell is still to be acted on
    chosen,     \* the fingerprint being sent to the rotation
    requests,   \* what it sent and nobody took yet
    seen        \* what an observer saw of every direction: see Observed

vars == <<setting, screen, cursor, clients, feed, layout, lastPos, dirs, phase, due, chosen, requests, seen>>
world == <<setting, screen, cursor, clients>>

Mapped == DOMAIN setting.target

\* The debouncer (its candidate can only be the opposite of the committed
\* state), the dwell timer (the deadline is set and cleared with entered) and
\* the latch.
FreshDir == [on |-> FALSE, streak |-> 0, entered |-> None, fired |-> None, latched |-> FALSE]

\* An observer of the polls the manager handled and of its firings: the last
\* poll, for how long it had seen two polls on the edge with no two off it
\* after them, whether it saw two polls off the edge since the last firing,
\* and how long ago that was.
FreshSeen == [poll |-> FALSE, contact |-> None, away |-> TRUE, since |-> None]

Zones == [m \in {DOMAIN s.target : s \in Settings} |->
             [l \in {LogicalLayout(n) : n \in UNION {s.screens : s \in Settings}} |-> EdgeZones(m, l)]]
InZone(d, pos) == pos # None /\ OnEdge(d, Zones[Mapped][layout], pos)

\* A setting: who the manager works for, the mapped directions and their
\* targets, the monitors and the client lists that occur, and the positions
\* the pointer visits.  Without a layout the manager ends at once.
Init ==
    /\ setting \in Settings
    /\ screen \in setting.screens /\ LogicalLayout(screen) # {}
    /\ cursor \in setting.positions
    /\ clients \in setting.clientLists
    /\ feed = <<>> /\ layout = LogicalLayout(screen) /\ lastPos = None
    /\ dirs = [d \in Mapped |-> FreshDir]
    /\ phase = "idle" /\ due = {} /\ chosen = None /\ requests = <<>>
    /\ seen = [d \in Mapped |-> FreshSeen]

-----------------------------------------------------------------------------
(* The world.                                                              *)

MoveCursor ==
    /\ cursor' \in setting.positions \ {cursor}
    /\ UNCHANGED <<setting, screen, clients, feed, layout, lastPos, dirs, phase, due, chosen, requests, seen>>

ChangeScreen ==
    /\ screen' \in setting.screens \ {screen}
    /\ UNCHANGED <<setting, cursor, clients, feed, layout, lastPos, dirs, phase, due, chosen, requests, seen>>

\* publish_edge_clients.
ChangeClients ==
    /\ clients' \in setting.clientLists \ {clients}
    /\ UNCHANGED <<setting, screen, cursor, feed, layout, lastPos, dirs, phase, due, chosen, requests, seen>>

\* run_cursor_poller: one poll; one that fails queues nothing.
PollCursor ==
    /\ phase # "gone" /\ Len(feed) < MaxFeed
    /\ feed' = Append(feed, cursor)
    /\ UNCHANGED <<world, layout, lastPos, dirs, phase, due, chosen, requests, seen>>

Older(age, limit) == IF age = None THEN None ELSE Sooner(age + 1, limit)
Tick ==
    /\ dirs' = [d \in Mapped |-> [dirs[d] EXCEPT !.entered = Older(@, Dwell), !.fired = Older(@, Cooldown)]]
    /\ seen' = [d \in Mapped |-> [seen[d] EXCEPT !.contact = Older(@, Dwell), !.since = Older(@, Cooldown + Dwell)]]
    /\ UNCHANGED <<world, feed, layout, lastPos, phase, due, chosen, requests>>

-----------------------------------------------------------------------------
(* Handling a polled position.                                             *)

\* EdgeDebounce::poll: the state of a direction after an outcome, and whether
\* the committed state changed.
Commits(s, on) == on # s.on /\ s.streak + 1 >= StablePolls
Debounced(s, on) ==
    IF on = s.on THEN [s EXCEPT !.streak = 0]
    ELSE IF Commits(s, on) THEN [s EXCEPT !.on = on, !.streak = 0]
    ELSE [s EXCEPT !.streak = @ + 1]

\* DwellTimer::enter: ignored while the cooldown of the last firing runs.
Enter(s) == IF s.fired # None /\ s.fired < Cooldown THEN s ELSE [s EXCEPT !.entered = 0]

Polled(s, on) ==
    LET t == Debounced(s, on) IN
    IF ~Commits(s, on) THEN t
    ELSE IF ~on THEN [t EXCEPT !.latched = FALSE, !.entered = None]
    ELSE IF t.latched THEN t
    ELSE Enter(t)

Observed(w, on) ==
    LET twice == w.poll = on IN
    [w EXCEPT !.poll = on,
              !.contact = IF ~twice THEN @ ELSE IF ~on THEN None ELSE IF @ = None THEN 0 ELSE @,
              !.away = @ \/ (twice /\ ~on)]

HandlePosition ==
    /\ phase = "idle" /\ feed # <<>>
    /\ lastPos' = Head(feed)
    /\ feed' = Tail(feed)
    /\ LET on(d) == InZone(d, Head(feed)) IN
       /\ dirs' = [d \in Mapped |-> Polled(dirs[d], on(d))]
       /\ seen' = [d \in Mapped |-> Observed(seen[d], on(d))]
    /\ UNCHANGED <<world, layout, phase, due, chosen, requests>>

-----------------------------------------------------------------------------
(* A completed dwell.                                                      *)

Completed == {d \in Mapped : dirs[d].entered # None /\ dirs[d].entered >= Dwell}

\* The deadline branch: every completed timer fires, starts its cooldown and
\* latches.  Of those whose last position has left the zone nothing more
\* becomes; the others are acted on one after the other.  (The loop fires
\* each timer just before acting on it, with one reading of the clock for
\* all; nothing reads the states in between.)
\* Mutant of Fire: the timer is not reset.
FireAgain(s) == [s EXCEPT !.fired = 0, !.latched = TRUE]
Fire(s) == [s EXCEPT !.entered = None, !.fired = 0, !.latched = TRUE]
\* Mutant of FireDue: no fresh contact is required.
FireDueAnyway ==
    /\ phase = "idle" /\ Completed # {}
    /\ dirs' = [d \in Mapped |-> IF d \in Completed THEN Fire(dirs[d]) ELSE dirs[d]]
    /\ due' = Completed
    /\ phase' = "acting"
    /\ seen' = [d \in Mapped |-> IF d \in Completed THEN [seen[d] EXCEPT !.away = FALSE, !.since = 0] ELSE seen[d]]
    /\ UNCHANGED <<world, feed, layout, lastPos, chosen, requests>>
FireDue ==
    /\ phase = "idle" /\ Completed # {}
    /\ dirs' = [d \in Mapped |-> IF d \in Completed THEN Fire(dirs[d]) ELSE dirs[d]]
    /\ due' = {d \in Completed : InZone(d, lastPos)}
    /\ phase' = IF due' = {} THEN "idle" ELSE "acting"
    /\ seen' = [d \in Mapped |-> IF d \in Completed THEN [seen[d] EXCEPT !.away = FALSE, !.since = 0] ELSE seen[d]]
    /\ UNCHANGED <<world, feed, layout, lastPos, chosen, requests>>

\* Server: the name is resolved on a blocking thread, against the list of
\* the moment it starts.
ResolveTarget(d) ==
    /\ phase = "acting" /\ setting.mode = "server" /\ d \in due
    /\ due' = due \ {d}
    /\ chosen' = Resolve(setting.target[d], clients, [c \in clients |-> c])
    /\ phase' = IF chosen' # None THEN "sending" ELSE IF due' = {} THEN "idle" ELSE "acting"
    /\ UNCHANGED <<world, feed, layout, lastPos, dirs, requests, seen>>

\* event_tx.send waits for room.
SubmitSwitch ==
    /\ phase = "sending" /\ Len(requests) < Capacity
    /\ requests' = Append(requests, chosen)
    /\ chosen' = None
    /\ phase' = IF due = {} THEN "idle" ELSE "acting"
    /\ UNCHANGED <<world, feed, layout, lastPos, dirs, due, seen>>

\* Client: the request goes to an unbounded queue (of which a bound keeps
\* Capacity).
RequestReturn(d) ==
    /\ phase = "acting" /\ setting.mode = "client" /\ d \in due
    /\ Len(requests) < Capacity
    /\ requests' = Append(requests, "return")
    /\ due' = due \ {d}
    /\ phase' = IF due' = {} THEN "idle" ELSE "acting"
    /\ UNCHANGED <<world, feed, layout, lastPos, dirs, chosen, seen>>

\* The rotation's loop, or the connection's, takes a request.
TakeRequest ==
    /\ requests # <<>>
    /\ requests' = Tail(requests)
    /\ UNCHANGED <<world, feed, layout, lastPos, dirs, phase, due, chosen, seen>>

-----------------------------------------------------------------------------
(* The layout is asked for every 30 s, on a blocking thread.               *)

StartRequery ==
    /\ phase = "idle" /\ phase' = "asking"
    /\ UNCHANGED <<world, feed, layout, lastPos, dirs, due, chosen, requests, seen>>

\* A changed layout makes what was measured against the old one meaningless;
\* the cooldown stays.
\* Mutant of Forget: the timer is made anew.
ForgetCooldown(s) == FreshDir
Forget(s) == [s EXCEPT !.on = FALSE, !.streak = 0, !.entered = None, !.latched = FALSE]
FinishRequery ==
    /\ phase = "asking" /\ phase' = "idle"
    /\ layout' \in {layout} \cup ({LogicalLayout(screen)} \ {{}})     \* the query may fail
    /\ IF layout' = layout THEN UNCHANGED <<dirs, seen>>
       ELSE /\ dirs' = [d \in Mapped |-> Forget(dirs[d])]
            /\ seen' = [d \in Mapped |-> [FreshSeen EXCEPT !.since = seen[d].since]]
    /\ UNCHANGED <<world, feed, lastPos, due, chosen, requests>>

\* Client: the connection and with it the receiver is gone.  The manager
\* notices at the next select, or at its next request.
LoseConnection ==
    /\ setting.mode = "client" /\ phase \in {"idle", "acting"}
    /\ phase' = "gone"
    /\ feed' = <<>> /\ lastPos' = None /\ due' = {} /\ requests' = <<>>
    /\ dirs' = [d \in Mapped |-> FreshDir]
    /\ seen' = [d \in Mapped |-> FreshSeen]
    /\ UNCHANGED <<world, layout, chosen>>

\* A new connection, or another EdgeInfo, starts a manager of its own.
Respawn ==
    /\ phase = "gone"
    /\ LogicalLayout(screen) # {}
    /\ phase' = "idle" /\ layout' = LogicalLayout(screen)
    /\ UNCHANGED <<world, feed, lastPos, dirs, due, chosen, requests, seen>>

Manager == HandlePosition \/ FireDue \/ SubmitSwitch \/ FinishRequery
           \/ \E d \in due : ResolveTarget(d) \/ RequestReturn(d)
World == MoveCursor \/ ChangeScreen \/ ChangeClients
Next == \/ World \/ PollCursor \/ Tick \/ TakeRequest \/ Manager
        \/ StartRequery \/ LoseConnection \/ Respawn

Spec == Init /\ [][Next]_vars

\* The threads are scheduled; queries and look-ups return, at the latest on
\* their timeouts; the rotation and the connection take what they are sent.
FairSpec == /\ Spec /\ WF_vars(Tick) /\ WF_vars(TakeRequest)
            /\ WF_vars(FinishRequery) /\ WF_vars(SubmitSwitch)
            /\ WF_vars(\E d \in due : ResolveTarget(d)) /\ WF_vars(\E d \in due : RequestReturn(d))
            /\ SF_vars(FireDue)

-----------------------------------------------------------------------------
(* Properties.                                                             *)

Ages(n) == {None} \cup 0..n
TypeOK ==
    /\ setting \in Settings /\ screen \in setting.screens
    /\ layout \in {LogicalLayout(m) : m \in setting.screens} \ {{}}
    /\ cursor \in setting.positions /\ lastPos \in setting.positions \cup {None}
    /\ clients \in setting.clientLists
    /\ feed \in SeqOf(setting.positions, MaxFeed)
    /\ dirs \in [Mapped -> [on : BOOLEAN, streak : 0..StablePolls - 1, entered : Ages(Dwell),
                             fired : Ages(Cooldown), latched : BOOLEAN]]
    /\ phase \in {"idle", "acting", "sending", "asking", "gone"}
    /\ due \subseteq Mapped /\ Len(requests) <= Capacity
    \* a direction with a dwell under way is on its edge, and not latched
    /\ \A d \in Mapped : dirs[d].entered # None => dirs[d].on /\ ~dirs[d].latched
    /\ phase # "gone" => (phase = "sending") = (chosen # None)

\* Edge resistance (edge.rs 364-376, 840-845): a machine moves the input at
\* most once per visit to an edge.  Two firings of one direction are a whole
\* cooldown and a whole dwell apart, whatever layout changes came between,
\* and between them two polls in a row were off the edge or the layout
\* changed.
OneSwitchPerVisit ==
    [][\A d \in Mapped : seen'[d].since = 0 /\ seen[d].since # 0 =>
          /\ seen[d].away
          /\ seen[d].since \in {None, Cooldown + Dwell}]_vars

\* Nothing is asked for by a graze (edge.rs 693-696, 983-989): a direction is
\* acted on only when the polls had put the pointer on its edge twice in a
\* row at least a dwell ago, never twice in a row off it since, and the last
\* one has it there, on the zones of the layout in force.
SwitchIsMeant ==
    [][\A d \in due' \ due :
          /\ seen[d].contact # None /\ seen[d].contact >= Dwell
          /\ seen[d].poll /\ InZone(d, lastPos)']_vars

\* A dwell that has begun ends, in a firing, a departure or a layout change:
\* neither a slow look-up nor a full queue of the rotation leaves it hanging.
DwellUnderWay(d) == d \in Mapped /\ phase # "gone" /\ dirs[d].entered # None
DwellEnds == \A d \in Directions : DwellUnderWay(d) ~> ~DwellUnderWay(d)

\* The zones are the outline (exposed_segments, trim_corner_dead_zones): a
\* pixel of an output's edge is on a zone's line exactly if nothing lies
\* beyond it, up to the tolerance for rounded sizes, and it is none of the
\* corner pixels trimmed off its stretch.
OutlineExact(l) ==
    \A o \in Visible(l), d \in Directions :
        LET pixels == Along(o, d)[1]..(Along(o, d)[2] - 1)
            exposed == {k \in pixels : PixelExposed(o, d, k, l)}
            stretch(k) == {j \in exposed : Sooner(j, k)..Later(j, k) \subseteq exposed}
            inner(k) == LET s == stretch(k)
                            ends == (Cardinality(s) * CornerTrimPercent) \div 100
                        IN  /\ Cardinality({j \in s : j < k}) >= ends
                            /\ Cardinality({j \in s : j > k}) >= ends
            zones == {z \in EdgeZones(Directions, l) : z.output = o /\ z.direction = d}
        IN  \A k \in pixels : (\E z \in zones : ZoneContains(z, EdgePixel(o, d, k, 0)))
                                 <=> (k \in exposed /\ inner(k))
\* (Stated where a manager starts: every layout of a setting is one.)
ZonesAreOutline == lastPos = None /\ feed = <<>> /\ phase = "idle" => OutlineExact(layout)

\* What the outline is exact for: no monitor shows what another one shows.
DisjointScreens == \A s \in Settings : \A m \in s.screens : Disjoint(LogicalLayout(m))

\* The manager's state is consistent and its zones right, as the run checks it.
EdgeInv == TypeOK /\ ZonesAreOutline

\* README.md:139 has "only the exposed parts of an edge count": the pointer
\* is never acted on for direction d while it is inside the desktop, more of
\* its own output lying beyond it in that direction.
NoMidDesktopTrigger ==
    \A d \in due : ~Interior(d, lastPos, layout)
=============================================================================
