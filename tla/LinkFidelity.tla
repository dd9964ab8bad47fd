---------------------------- MODULE LinkFidelity ----------------------------
(***************************************************************************)
(* What a measured link earns: the tiers of network/link_quality.rs, the   *)
(* pacing of clipboard transfers of network/throttle.rs, the pointer's     *)
(* flush rate and the published status of the server's events loop, and    *)
(* the link monitor of a client.                                           *)
(*                                                                         *)
(* The server samples the links of all its clients on one timer; a client  *)
(* samples its own.  The two share no state, so a behaviour follows one of *)
(* them: the trackers and the tick on the server, the tracker, the monitor *)
(* and the bulk writer on a client.  The server's bulk writers run the     *)
(* same code.  A sample is what it says of the round trip and of the loss; *)
(* time is counted by what waits on it (see each variable).                *)
(***************************************************************************)
EXTENDS Naturals, FiniteSets, FiniteSetsExt

CONSTANTS
    Client,         \* the endpoints of clients
    Home,           \* the server's own machine, as a target of input
    Own,            \* a client's own end of its connection
    None, Adaptive,
    Sightings,      \* what a sample may see
    Frame,          \* the sizes of the messages on the bulk stream
    MinSleep,       \* MIN_SLEEP
    NotifyCooldown  \* LINK_NOTIFY_COOLDOWN, in samples

Grade == {"good", "fair", "bad"}
Tier == {"normal", "proximity"}

\* Units of time that the writer owes for a unit of a frame: 40 and 160 Mbps.
Rate == {0, 1, 4}
Unthrottled == 0

ASSUME FidelityAssumption ==
    /\ {Home, Own, None, Adaptive} \cap (Client \cup Nat) = {} /\ Cardinality({Home, Own, None}) = 3
    /\ Sightings \subseteq [rtt : Grade, loss : Grade, busy : BOOLEAN]
    /\ Frame \subseteq Nat \ {0} /\ MinSleep \in Nat \ {0} /\ NotifyCooldown \in Nat \ {0}

End == Client \cup {Own}

VARIABLES
    mode,       \* how the program was started: see Init
    joined,     \* the ends that have a connection
    tracker,    \* LinkQuality of each end
    cell,       \* SharedThrottle of each end, as what a unit costs
    earned,     \* history: for each end, see Judged
    current,    \* server: current_client, Home for none
    tick,       \* server: the tier whose rate motion_tick runs at
    mirror,     \* server: the state published to the control socket
    recent,     \* server: was the mirror refreshed less than 100ms ago?
    monitor,    \* client: LinkMonitor
    unsaid,     \* history: samples since what the user knows of the link is wrong
    writer,     \* client: BulkThrottle and what is left of its sleep
    backlog     \* history: client: what the queues below the stream hold

server == <<current, tick, mirror, recent>>
client == <<monitor, unsaid, writer, backlog>>
vars == <<mode, joined, tracker, cell, earned, server, client>>

OnServer == mode.side = "server"
OnClient == mode.side = "client"

-----------------------------------------------------------------------------
(* The tiers.                                                              *)

PromoteSamples == 3
NewTracker == [tier |-> "normal", streak |-> 0]

\* A window with few packets has no loss rate: 0.0, which is good.
Loss(sighting) == IF sighting.busy THEN sighting.loss ELSE "good"
Verdict(sighting) ==
    CASE "bad" \in {sighting.rtt, Loss(sighting)} -> "bad"
      [] {sighting.rtt, Loss(sighting)} = {"good"} -> "good"
      [] OTHER -> "fair"

\* Mutant: a middling sample keeps the streak.
SampledInDeadband(quality, verdict) ==
    IF verdict = "fair" THEN quality
      ELSE IF verdict = "bad" THEN NewTracker
        ELSE LET streak == Min({quality.streak + 1, PromoteSamples})
             IN [tier |-> IF streak = PromoteSamples THEN "proximity" ELSE quality.tier,
                 streak |-> streak]

\* LinkQuality::sample.  The streak only has to be told apart below the bar.
Sampled(quality, verdict) ==
    IF verdict # "good"
      THEN [tier |-> IF verdict = "bad" THEN "normal" ELSE quality.tier, streak |-> 0]
      ELSE LET streak == Min({quality.streak + 1, PromoteSamples})
           IN [tier |-> IF streak = PromoteSamples THEN "proximity" ELSE quality.tier,
               streak |-> streak]

\* effective_throttle_mbps.
Effective(tier) ==
    IF mode.throttle = Adaptive THEN (IF tier = "normal" THEN 4 ELSE 1) ELSE mode.throttle

\* The cell is written on a transition only.
Paced(e, quality) == IF quality.tier # tracker[e].tier THEN Effective(quality.tier) ELSE cell[e]

\* The history: how many good samples in a row a connection has had, and
\* whether it has had enough of them since the last bad one.
NotJudged == [good |-> 0, close |-> FALSE]
Judged(history, verdict) ==
    LET good == IF verdict = "good" THEN Min({history.good + 1, PromoteSamples}) ELSE 0
    IN [good |-> good, close |-> verdict # "bad" /\ (history.close \/ good = PromoteSamples)]

Sample(ends, seen) ==
    /\ tracker' = [e \in End |-> IF e \in ends THEN Sampled(tracker[e], Verdict(seen[e])) ELSE tracker[e]]
    /\ cell' = [e \in End |-> IF e \in ends THEN Paced(e, Sampled(tracker[e], Verdict(seen[e]))) ELSE cell[e]]
    /\ earned' = [e \in End |-> IF e \in ends THEN Judged(earned[e], Verdict(seen[e])) ELSE earned[e]]

\* A connection starts with a tracker and a cell of its own.
Connected(e) ==
    /\ joined' = joined \cup {e}
    /\ tracker' = [tracker EXCEPT ![e] = NewTracker]
    /\ cell' = [cell EXCEPT ![e] = Effective("normal")]
    /\ earned' = [earned EXCEPT ![e] = NotJudged]

-----------------------------------------------------------------------------
(* The server's events loop.                                               *)

\* motion_flush_interval, as the tier whose rate it is.  With --motion-hz it
\* is the same for all tiers.
CurrentTier == IF current = Home THEN "normal" ELSE tracker[current].tier
FlushTier == IF mode.motion = "pinned" THEN "normal" ELSE CurrentTier

\* server_state: of the published state, current_target and the clients.
ServerState(target, clients) == [target |-> target, clients |-> clients]

\* update_diagnostics, at the end of each iteration.
Refreshed(target, clients) ==
    /\ mirror' = IF recent THEN mirror ELSE ServerState(target, clients)
    /\ recent' = TRUE

\* A new client, or a new connection in the place of one that is still listed.
AddClient(c) ==
    /\ OnServer
    /\ Connected(c)
    /\ Refreshed(current, joined')
    /\ UNCHANGED <<mode, current, tick, client>>

\* The tracker goes away with the client, and the input comes home.
RemoveClient(c) ==
    /\ OnServer
    /\ c \in joined
    /\ joined' = joined \ {c}
    /\ tracker' = [tracker EXCEPT ![c] = NewTracker]
    /\ cell' = [cell EXCEPT ![c] = Effective("normal")]
    /\ earned' = [earned EXCEPT ![c] = NotJudged]
    /\ current' = IF current = c THEN Home ELSE current
    /\ Refreshed(current', joined')
    /\ UNCHANGED <<mode, tick, client>>

\* Input is switched to a client or home.
Switch(target) ==
    /\ OnServer
    /\ target \in joined \cup {Home} /\ target # current
    /\ current' = target
    /\ Refreshed(target, joined)
    /\ UNCHANGED <<mode, joined, tracker, cell, earned, tick, client>>

\* quality_tick: motion_tick is built anew when the tier of the current
\* client has just changed.
QualityTick ==
    /\ OnServer
    /\ UNCHANGED <<mode, joined, current, client>>
    /\ \E seen \in [joined -> Sightings] : Sample(joined, seen)
    /\ tick' = IF current \in joined /\ tracker'[current].tier # tracker[current].tier
                 THEN FlushTier' ELSE tick
    /\ Refreshed(current, joined)

\* Mutant: only what changes the state refreshes the mirror.
IterationUnseen == UNCHANGED vars

\* ping_tick, status_tick, input: the loop goes round.
OtherIteration ==
    /\ OnServer
    /\ Refreshed(current, joined)
    /\ UNCHANGED <<mode, joined, tracker, cell, earned, current, tick, client>>

\* 100ms have passed since the last refresh.
RefreshIsDue ==
    /\ OnServer
    /\ recent
    /\ recent' = FALSE
    /\ UNCHANGED <<mode, joined, tracker, cell, earned, current, tick, mirror, client>>

ServerNext ==
    \/ \E c \in Client : AddClient(c) \/ RemoveClient(c)
    \/ \E target \in Client \cup {Home} : Switch(target)
    \/ QualityTick \/ OtherIteration \/ RefreshIsDue

-----------------------------------------------------------------------------
(* A client: the link monitor and the bulk writer.                         *)

\* degraded: what the user was told last.  since: samples since that
\* notification, up to the cooldown; None before the first one.
NewMonitor == [degraded |-> FALSE, since |-> None]

\* LinkMonitor::check.
Checked(verdict) ==
    LET since == IF monitor.since = None THEN None ELSE Min({monitor.since + 1, NotifyCooldown})
        changed == (verdict = "bad") # monitor.degraded
    IN IF changed /\ since \in {None, NotifyCooldown}
         THEN [degraded |-> verdict = "bad", since |-> 0]
         ELSE [monitor EXCEPT !.since = since]

\* One round of monitor_link.
MonitorLink ==
    /\ OnClient
    /\ \E sighting \in Sightings :
         /\ Sample({Own}, [e \in {Own} |-> sighting])
         /\ monitor' = Checked(Verdict(sighting))
         /\ unsaid' = IF monitor'.degraded = (Verdict(sighting) = "bad") THEN 0
                        ELSE Min({unsaid + 1, NotifyCooldown + 1})
    /\ UNCHANGED <<mode, joined, server, writer, backlog>>

\* debt: debt_secs.  idle: the time since last, as far as it can matter.
\* sleep: what is left of the wait before the next frame.
NewWriter == [debt |-> 0, idle |-> 0, sleep |-> 0]

\* Mutant: idle time is credited to the frame that ends it.
ChargedWithCredit(w, len, cost) ==
    LET debt == IF w.idle >= w.debt + len * cost THEN 0 ELSE w.debt + len * cost - w.idle
    IN CASE cost = Unthrottled -> NewWriter
         [] cost # Unthrottled /\ debt < MinSleep -> [debt |-> debt, idle |-> 0, sleep |-> 0]
         [] OTHER -> [debt |-> 0, idle |-> 0, sleep |-> debt]

\* BulkThrottle::charge.
Charged(w, len, cost) ==
    LET debt == (IF w.idle >= w.debt THEN 0 ELSE w.debt - w.idle) + len * cost
    IN CASE cost = Unthrottled -> NewWriter
         [] cost # Unthrottled /\ debt < MinSleep -> [debt |-> debt, idle |-> 0, sleep |-> 0]
         [] OTHER -> [debt |-> 0, idle |-> 0, sleep |-> debt]

\* The writer task takes a frame from its queue, writes it whole, and sleeps.
WriteFrame(len) ==
    /\ OnClient
    /\ writer.sleep = 0
    /\ writer' = Charged(writer, len, cell[Own])
    /\ backlog' = backlog + len * cell[Own]
    /\ UNCHANGED <<mode, joined, tracker, cell, earned, server, monitor, unsaid>>

\* A unit of time.  The queues below drain at the rate the link is paced for.
Elapse ==
    /\ OnClient
    /\ writer.sleep > 0 \/ writer.idle < MinSleep \/ backlog > 0
    /\ writer' = [writer EXCEPT !.sleep = IF @ > 0 THEN @ - 1 ELSE 0, !.idle = Min({@ + 1, MinSleep})]
    /\ backlog' = IF backlog > 0 THEN backlog - 1 ELSE 0
    /\ UNCHANGED <<mode, joined, tracker, cell, earned, server, monitor, unsaid>>

\* A session ends and the next one starts, with everything of its own.
Reconnect ==
    /\ OnClient
    /\ Connected(Own)
    /\ monitor' = NewMonitor /\ unsaid' = 0 /\ writer' = NewWriter /\ backlog' = 0
    /\ UNCHANGED <<mode, server>>

ClientNext ==
    \/ MonitorLink \/ Elapse \/ Reconnect
    \/ \E len \in Frame : WriteFrame(len)

-----------------------------------------------------------------------------

\* --motion-hz and --bulk-throttle-mbps, adaptive or pinned.
Init ==
    /\ mode \in [side : {"server", "client"}, motion : {"adaptive", "pinned"},
                 throttle : {Adaptive} \cup {Unthrottled, 4}]
    /\ joined = IF mode.side = "client" THEN {Own} ELSE {}
    /\ tracker = [e \in End |-> NewTracker]
    /\ cell = [e \in End |-> Effective("normal")]
    /\ earned = [e \in End |-> NotJudged]
    /\ current = Home /\ tick = "normal" /\ recent = TRUE
    /\ mirror = ServerState(Home, {})
    /\ monitor = NewMonitor /\ unsaid = 0 /\ writer = NewWriter /\ backlog = 0

Next == ServerNext \/ ClientNext

Spec == Init /\ [][Next]_vars

\* The loop's timers keep it going round.
FairSpec == Spec /\ WF_vars(OtherIteration) /\ WF_vars(RefreshIsDue)

-----------------------------------------------------------------------------
(* Properties.                                                             *)

\* Every variable has its type.
TypeOK ==
    /\ mode \in [side : {"server", "client"}, motion : {"adaptive", "pinned"},
                 throttle : {Adaptive} \cup Rate]
    /\ joined \subseteq End
    /\ tracker \in [End -> [tier : Tier, streak : 0 .. PromoteSamples]]
    /\ cell \in [End -> Rate]
    /\ current \in (joined \cap Client) \cup {Home}
    /\ mirror.clients \subseteq Client /\ mirror.target \in mirror.clients \cup {Home}
    /\ tick \in Tier /\ recent \in BOOLEAN
    /\ monitor \in [degraded : BOOLEAN, since : {None} \cup 0 .. NotifyCooldown]
    /\ writer.debt \in 0 .. MinSleep - 1 /\ writer.idle \in 0 .. MinSleep /\ writer.sleep \in Nat
    /\ backlog \in Nat

\* Clipboard transfers are paced for the tier of their own connection, also
\* after a connection replaced another at the same endpoint (the cell is
\* written on transitions only).
CellFollowsTier == \A e \in joined : cell[e] = Effective(tracker[e].tier)

\* A link counts as close only from the third good sample in a row of this
\* connection, and until its first bad one (link_quality.rs:1-7).
RaisedIsEarned == \A e \in joined : tracker[e].tier = "proximity" <=> earned[e].close

\* What the user was told of the link is not wrong for a whole cooldown: a
\* change that the cooldown suppressed is told when it is over (client.rs,
\* LinkMonitor).
SurfacesInTime == unsaid < NotifyCooldown

\* The four together, the invariant of the trackers and what hangs on them.
LinkInv == TypeOK /\ CellFollowsTier /\ RaisedIsEarned /\ SurfacesInTime

\* Whenever the writer is free to write, the queues below the stream hold less
\* than MIN_SLEEP of data, at the rates the frames were charged: what pacing
\* is for (throttle.rs, BulkThrottle), whatever the sizes of the frames, the
\* pauses between them and the changes of the rate in mid-transfer.
QueueStaysShort == writer.sleep = 0 => backlog < MinSleep

\* The published state follows the rotation's: the rate limit of
\* update_diagnostics may skip the refresh of the last event before a pause,
\* but not for good.
MirrorCatchesUp ==
    \A target \in Client \cup {Home}, clients \in SUBSET Client :
        LET now == ServerState(current, joined)
            then == ServerState(target, clients)
        IN  OnServer /\ now = then ~> mirror = then \/ now # then

\* What rotation.rs:33-34 says of the adaptive mode: 250 Hz normally, raised
\* to 500 Hz while the current client's link measures in the proximity tier.
\* It does not hold: a switch between clients does not rebuild motion_tick,
\* and a sample rebuilds it only when the tier of the current client changes
\* just then.
TickFollowsTier == OnServer /\ mode.motion = "adaptive" => tick = FlushTier

=============================================================================
