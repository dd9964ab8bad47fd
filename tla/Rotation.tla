------------------------------ MODULE Rotation ------------------------------
(***************************************************************************)
(* The server's rotation loop: which machine receives the grabbed input.   *)
(*                                                                         *)
(* The Rotation struct is owned by one task, which handles one event at a  *)
(* time, so a whole handler is one action here.  A handler writes to       *)
(* client streams on its way and every write may fail, which removes the   *)
(* client and can cascade (clipboard clear, further failed writes).  The   *)
(* helpers below are therefore functions from a state of the struct to the *)
(* SET of states the helper can leave behind, one for every choice of      *)
(* which writes fail, and the handlers compose them in the code's order.   *)
(*                                                                         *)
(* Time is abstracted: a deadline is a flag, and a step of the environment *)
(* lets it pass.                                                           *)
(***************************************************************************)
EXTENDS Naturals, FiniteSets, Functions

CONSTANTS
    Endpoint,       \* client addr:port pairs, ordered as the clients vector is
    IpOf,           \* the IP of an endpoint
    FpOf,           \* the certificate fingerprint seen at an endpoint
    Local,          \* the server machine, as a clipboard source
    None,           \* Rust's None: the local machine, no clipboard, no record
    ReactivatePongs,\* REACTIVATE_PONGS
    MaxConns,       \* bound: connections accepted by one server process
    ReusePorts,     \* may a connection come from an addr:port used before?
    Quieters,       \* bound: endpoints whose link may go silent
    Copiers,        \* bound: machines on which something gets copied
    Restarts        \* bound: may the server process restart?

Fingerprint == {FpOf[e] : e \in Endpoint}

ASSUME EndpointAssumption == Endpoint \subseteq Nat /\ IsFiniteSet(Endpoint)
ASSUME NoneAssumption ==
    /\ None \notin Endpoint /\ None \notin Fingerprint
    /\ Local \notin Endpoint /\ Local # None
ASSUME BoundsAssumption ==
    /\ ReactivatePongs \in Nat \ {0} /\ MaxConns \in Nat
    /\ ReusePorts \in BOOLEAN /\ Restarts \in BOOLEAN
    /\ Quieters \subseteq Endpoint
    /\ Copiers \subseteq Endpoint \union {Local}

VARIABLES
    rot,            \* the Rotation struct and what its writes left outside it
    accepted,       \* <<endpoint, conn_token>> of every connection accepted
    nextToken,      \* next_conn_token of the accept loop
    since           \* history: why input is on the local machine; a client
                    \* was silenced ("silence"), the user then asked for the
                    \* local machine by hand ("home"), or anything else

vars == <<rot, accepted, nextToken, since>>

-----------------------------------------------------------------------------
(* The parts of the struct.                                                *)

\* A clients entry: the connection it belongs to, the last Switch its stream
\* carried, and whether keys forwarded on it are still pressed there.
Entry == [token : Nat, active : BOOLEAN, keys : BOOLEAN]

\* LivenessState: has the miss limit been reached, is the client silenced and
\* has the cooldown passed since, and the pongs counted while silenced (only
\* "some" and "enough" matter, so the counter stops at ReactivatePongs).
Liveness == [quiet : BOOLEAN, silenced : {"no", "cooling", "cooled"},
             pongs : 0 .. ReactivatePongs]

Heard == [quiet |-> FALSE, silenced |-> "no", pongs |-> 0]

\* removed_current_client: the lost endpoint, and whether
\* REMOVED_CLIENT_RECOVERY_DEADLINE is still ahead.
Defunct == [endpoint : Endpoint, recoverable : BOOLEAN]

\* The Rotation struct.
Struct(clients, live) == [
    clients  : {clients},     \* clients, as a map from endpoints
    live     : {live},        \* liveness
    current  : Endpoint \union {None},        \* current_client
    paused   : BOOLEAN,
    grab     : [client : BOOLEAN, paused : BOOLEAN],  \* grab_tx's value
    file     : Fingerprint \union {None},     \* the active_client file
    pending  : Fingerprint \union {None},     \* pending_resume_fingerprint
    removed  : Defunct \union {None},         \* removed_current_client
    silenced : Endpoint \union {None},        \* silenced_endpoint
    recent   : BOOLEAN,       \* last_switch_at within SWITCH_DEBOUNCE
    clip     : Endpoint \union {Local, None}, \* clipboard_target.source
    window   : SUBSET (Endpoint \union {Local}),
                              \* sources within CLIPBOARD_UPDATE_DEBOUNCE
    held     : BOOLEAN,       \* pending_local_clipboard
    keys     : BOOLEAN]       \* keys pressed on the local uinput devices

Typed(s) ==
    /\ s \in Struct(s.clients, s.live)
    /\ DOMAIN s.clients \subseteq Endpoint
    /\ s.clients \in [DOMAIN s.clients -> Entry]
    /\ DOMAIN s.live \subseteq Endpoint
    /\ s.live \in [DOMAIN s.live -> Liveness]

\* Rotation::new, with the fingerprint load_pending_resume found.
Boot(file) ==
    [clients |-> [e \in {} |-> 0], live |-> [e \in {} |-> 0],
     current |-> None, paused |-> FALSE,
     grab |-> [client |-> FALSE, paused |-> FALSE],
     file |-> file, pending |-> file, removed |-> None, silenced |-> None,
     recent |-> FALSE, clip |-> None, window |-> {}, held |-> FALSE,
     keys |-> FALSE]

-----------------------------------------------------------------------------
(* Helpers of the handlers, in the order the code calls them.              *)

\* Mutant of SetAndGrab: coming home leaves the active_client file behind.
SetAndGrabKeepsFile(s, client) ==
    [s EXCEPT
        !.keys = s.keys /\ ~(s.current = None /\ client # None),
        !.current = client,
        !.live = IF client = None THEN s.live
                 ELSE [e \in DOMAIN s.live \union {client} |->
                          IF e = client THEN Heard ELSE s.live[e]],
        !.silenced = IF client = None THEN s.silenced ELSE None,
        !.file = IF client \in DOMAIN s.clients THEN FpOf[client] ELSE s.file,
        !.grab = [client |-> client # None, paused |-> s.paused]]

\* set_and_grab_current_client: the one funnel for current_client.
SetAndGrab(s, client) ==
    [s EXCEPT
        !.keys = s.keys /\ ~(s.current = None /\ client # None),
        !.current = client,
        !.live = IF client = None THEN s.live
                 ELSE [e \in DOMAIN s.live \union {client} |->
                          IF e = client THEN Heard ELSE s.live[e]],
        !.silenced = IF client = None THEN s.silenced ELSE None,
        !.file = CASE client = None -> None
                   [] client \in DOMAIN s.clients -> FpOf[client]
                   [] OTHER -> s.file,
        !.grab = [client |-> client # None, paused |-> s.paused]]

\* handle_client_removal, for every endpoint of a set: the callers that remove
\* several call it once for each.
HandleRemoval(s, gone) ==
    LET lost == gone \intersect DOMAIN s.clients
        wasCurrent == s.current \in lost
        wasSilenced == ~wasCurrent /\ s.silenced \in lost
        t == [s EXCEPT
                !.live = Restrict(s.live, DOMAIN s.live \ gone),
                !.clients = Restrict(s.clients, DOMAIN s.clients \ gone),
                !.window = s.window \ lost,
                !.removed =
                    CASE wasCurrent ->
                            [endpoint |-> s.current, recoverable |-> TRUE]
                      [] wasSilenced ->
                            [endpoint |-> s.silenced, recoverable |-> TRUE]
                      [] OTHER -> s.removed,
                !.silenced = IF wasSilenced THEN None ELSE s.silenced]
    IN  IF wasCurrent THEN SetAndGrab(t, None) ELSE t

\* clipboard_clear: forgets the target and tells every client, losing those
\* the write fails for (send_event_all).
ClipboardClear(s) ==
    {HandleRemoval([s EXCEPT !.clip = None], gone) :
        gone \in SUBSET DOMAIN s.clients}

\* Mutant of DropAll: the failed write forgets the clipboard it owned.
DropAllKeepsClip(s, gone) == {HandleRemoval(s, gone)}

\* What every failed write does: remove the clients, and clear the clipboard
\* if one of them owned it.
DropAll(s, gone) ==
    LET t == HandleRemoval(s, gone)
    IN  IF s.clip \in gone \intersect DOMAIN s.clients
        THEN ClipboardClear(t) ELSE {t}

Drop(s, e) == DropAll(s, {e})

\* send_event of a message that leaves the struct as "sent" when it goes out.
SendEvent(s, e, sent) ==
    IF e \in DOMAIN s.clients THEN {sent} \union Drop(s, e) ELSE {s}

\* The entry of a client whose stream carried Switch(enabled): it releases the
\* keys it holds when it is deactivated.
TakesSwitch(entry, enabled) ==
    [entry EXCEPT !.active = enabled, !.keys = entry.keys /\ enabled]

\* send_event of Switch(enabled).
SendSwitch(s, e, enabled) ==
    SendEvent(s, e, [s EXCEPT !.clients =
        [s.clients EXCEPT ![e] = TakesSwitch(s.clients[e], enabled)]])

\* send_event_to_remote_client: a current client that is not in the list is
\* recovered from by switching to the local machine.
SendToCurrent(s, sent) ==
    CASE s.current = None -> {s}
      [] s.current \in DOMAIN s.clients -> SendEvent(s, s.current, sent)
      [] OTHER -> {SetAndGrab(s, None)}

\* update_current_client_clipboard: tells the active client about a clipboard
\* that is not its own.  (The local machine is told without a write.)
UpdateCurrentClipboard(s) ==
    IF s.clip = None \/ s.clip = s.current THEN {s} ELSE SendToCurrent(s, s)

\* apply_clipboard_source.
ApplyClipboardSource(s, source) ==
    UpdateCurrentClipboard([s EXCEPT !.clip = source])

\* flush_pending_local_clipboard.  A held update equal to the current target
\* is dropped; which types are equal is left open.
FlushPendingLocal(s) ==
    LET t == [s EXCEPT !.held = FALSE]
    IN  IF ~s.held THEN {s}
        ELSE ApplyClipboardSource(
                [t EXCEPT !.window = @ \union {Local}], Local)
             \union (IF s.clip = Local THEN {t} ELSE {})

\* The Switch(true) to the client just made current.
Activate(s, client) ==
    IF client = None \/ s.current = None THEN {s}
    ELSE IF s.current \in DOMAIN s.clients
         THEN SendSwitch(s, s.current, TRUE)
         ELSE {SetAndGrab(s, None)}

\* The Switch(false) to the client that was current before.
Deactivate(s, old) == IF old = None THEN {s} ELSE SendSwitch(s, old, FALSE)

\* Mutant of ChangeCurrent: nobody tells the old client.
ChangeCurrentNoDeactivate(s, client) ==
    UNION {Activate(t, client) :
              t \in UpdateCurrentClipboard(SetAndGrab(s, client))}

\* The part of update_current_client after its no-op check: clipboard types,
\* then Switch(true) to the new client, then Switch(false) to the old one.
ChangeCurrent(s, client) ==
    UNION {UNION {Deactivate(u, s.current) : u \in Activate(t, client)} :
              t \in UpdateCurrentClipboard(SetAndGrab(s, client))}

\* update_current_client.
UpdateCurrent(s, client) ==
    UNION {LET u == [t EXCEPT !.removed = None]
           IN  IF client = u.current THEN {u} ELSE ChangeCurrent(u, client) :
              t \in FlushPendingLocal(s)}

\* release_current_target_keys.
ReleaseCurrentTargetKeys(s) ==
    IF s.current = None THEN {[s EXCEPT !.keys = FALSE]}
    ELSE UNION {SendSwitch(t, s.current, TRUE) :
                   t \in SendSwitch(s, s.current, FALSE)}

-----------------------------------------------------------------------------
(* The handlers of the events loop.                                        *)

\* add_client, up to the re-activation rules: the entry (in place of one for
\* the same endpoint), its liveness, and the clipboard types pushed to it
\* unless the clipboard is owned from its IP.
InsertClient(s, e, token) ==
    LET t == [s EXCEPT
                !.clients = [x \in DOMAIN s.clients \union {e} |->
                    IF x = e
                    THEN [token |-> token, active |-> FALSE, keys |-> FALSE]
                    ELSE s.clients[x]],
                !.live = [x \in DOMAIN s.live \union {e} |->
                    IF x = e THEN Heard ELSE s.live[x]]]
    IN  IF s.clip = None \/ (s.clip # Local /\ IpOf[s.clip] = IpOf[e])
        THEN {t} ELSE SendEvent(t, e, t)

\* Mutant of ReplaceCurrent: any new client replaces the current one.
ReplaceAnyCurrent(s, e) ==
    IF s.current # None THEN UpdateCurrent(s, e) ELSE {s}

\* Re-activation rule 1: the current client has the new client's IP.
ReplaceCurrent(s, e) ==
    IF s.current # None /\ IpOf[s.current] = IpOf[e]
    THEN UpdateCurrent(s, e) ELSE {s}

\* Re-activation rule 2: the client lost last had the new client's IP.
RecoverRemoved(s, e) ==
    IF s.removed = None THEN {s}
    ELSE IF ~s.removed.recoverable THEN {[s EXCEPT !.removed = None]}
    ELSE IF IpOf[s.removed.endpoint] = IpOf[e] THEN UpdateCurrent(s, e)
    ELSE {s}

\* Re-activation rule 3: the new client was active when the previous server
\* process stopped.
ResumeSession(s, e) ==
    IF s.pending = FpOf[e]
    THEN UpdateCurrent([s EXCEPT !.pending = None], e) ELSE {s}

AddClient(s, e, token) ==
    UNION {UNION {UNION {ResumeSession(v, e) : v \in RecoverRemoved(u, e)} :
              u \in ReplaceCurrent(t, e)} : t \in InsertClient(s, e, token)}

\* Mutant of RemoveClient: the report names an endpoint, whichever connection.
RemoveAnyConnection(s, e, token) == Drop(s, e)

\* remove_client_and_clear_clipboard: a removal that names another connection
\* than the entry's is stale.
RemoveClient(s, e, token) ==
    IF e \in DOMAIN s.clients /\ s.clients[e].token # token
    THEN {s} ELSE Drop(s, e)

\* The last and the first of a set of endpoints, None of an empty one.
Last(S) == IF \E x \in S : \A y \in S : y <= x
           THEN CHOOSE x \in S : \A y \in S : y <= x ELSE None
First(S) == IF \E x \in S : \A y \in S : x <= y
            THEN CHOOSE x \in S : \A y \in S : x <= y ELSE None

\* prev_target_in and next_target_in.  For a current client that is not in
\* the list they start from where it would be inserted.
PrevTarget(s) ==
    Last(IF s.current = None THEN DOMAIN s.clients
         ELSE {e \in DOMAIN s.clients : e < s.current})

NextTarget(s) ==
    LET above == {e \in DOMAIN s.clients : e > s.current}
    IN  CASE s.current = None -> First(DOMAIN s.clients)
          [] s.current \in DOMAIN s.clients -> First(above)
          [] OTHER -> First(above \ {First(above)})

\* Mutant of SwitchAllowed: the debounce has no exemption.
SwitchAllowedNoHatch(s, target) == ~s.recent

\* switch_allowed: a switch to the local machine is never debounced.
SwitchAllowed(s, target) == target = None \/ ~s.recent

\* prev_client and next_client, once their target is known.  The manual
\* action disarms silence recovery before anything else.
SwitchClient(s, target) ==
    LET t == [s EXCEPT !.silenced = None]
    IN  IF s.paused THEN {s}
        ELSE IF target = s.current \/ ~SwitchAllowed(s, target)
             THEN ReleaseCurrentTargetKeys(t)
             ELSE UpdateCurrent([t EXCEPT !.recent = TRUE], target)

\* Mutant of SetClient: an explicit request leaves silence recovery armed.
SetClientKeepsSilenced(s, wanted) ==
    LET matching == {e \in DOMAIN s.clients : FpOf[e] \in wanted}
        targets == IF wanted = {} THEN {None} ELSE matching
    IN  IF s.paused THEN {s}
        ELSE IF Cardinality(targets) = 1 /\ s.current \notin targets
             THEN UNION {UpdateCurrent(s, target) : target \in targets}
             ELSE ReleaseCurrentTargetKeys(s)

\* set_client.  "wanted" is the set of fingerprints the request is a prefix
\* of, empty for the request "" (the local machine).
SetClient(s, wanted) ==
    LET t == [s EXCEPT !.silenced = None]
        matching == {e \in DOMAIN s.clients : FpOf[e] \in wanted}
        targets == IF wanted = {} THEN {None} ELSE matching
    IN  IF s.paused THEN {s}
        ELSE IF Cardinality(targets) = 1 /\ s.current \notin targets
             THEN UNION {UpdateCurrent(t, target) : target \in targets}
             ELSE ReleaseCurrentTargetKeys(t)

\* Mutants of TogglePause: keys held while pausing stay held; the pause is
\* not broadcast to the device tasks.
TogglePauseKeepsKeys(s) ==
    {[s EXCEPT !.paused = ~s.paused,
               !.grab = [client |-> s.current # None, paused |-> ~s.paused]]}

TogglePauseUnsent(s) ==
    {[t EXCEPT !.paused = ~s.paused] :
        t \in IF s.paused THEN {s} ELSE ReleaseCurrentTargetKeys(s)}

\* toggle_pause.  Pausing first releases the keys held on the target.
TogglePause(s) ==
    {[t EXCEPT !.paused = ~s.paused,
               !.grab = [client |-> t.current # None, paused |-> ~s.paused]] :
        t \in IF s.paused THEN {s} ELSE ReleaseCurrentTargetKeys(s)}

\* The entry of a client on which a forwarded key is pressed.
HoldsKeys(entry) == [entry EXCEPT !.keys = TRUE]

\* send_input_events, for a batch with a key press, read from a device that
\* was grabbed or not.
SendInputEvents(s, grabbed) ==
    IF s.paused \/ ~grabbed THEN {s}
    ELSE IF s.current = None THEN {[s EXCEPT !.keys = TRUE]}
    ELSE SendToCurrent(s, [s EXCEPT !.clients =
            [s.clients EXCEPT ![s.current] = HoldsKeys(s.clients[s.current])]])

\* note_client_heard.
NoteClientHeard(s, e) ==
    LET l == s.live[e]
        pongs == IF l.pongs < ReactivatePongs THEN l.pongs + 1 ELSE l.pongs
        complete == pongs = ReactivatePongs /\ l.silenced = "cooled"
        Noted(entry) == [s EXCEPT !.live = [s.live EXCEPT ![e] = entry]]
    IN  IF e \notin DOMAIN s.live THEN {s}
        ELSE IF l.silenced = "no" THEN {Noted([l EXCEPT !.quiet = FALSE])}
        ELSE IF ~complete
             THEN {Noted([l EXCEPT !.quiet = FALSE, !.pongs = pongs])}
        ELSE IF s.current = None /\ s.silenced = e
             THEN UpdateCurrent(Noted(Heard), e)
        ELSE {Noted(Heard)}

\* switch_request_from_client: only the current client may hand input back.
SwitchRequestFrom(s, e) ==
    IF s.current = e THEN UpdateCurrent(s, None) ELSE {s}

\* Mutant of DeclareSilence: the miss detector never fires.
DeclareSilenceNever(s) == {s}

\* ping_tick's miss detector: the current client is declared silent, input
\* comes home, and recovery is armed for it.
DeclareSilence(s) ==
    IF s.current # None /\ s.current \in DOMAIN s.live
          /\ s.live[s.current].quiet
    THEN {[t EXCEPT !.silenced = s.current] :
             t \in UpdateCurrent(
                [s EXCEPT !.live = [s.live EXCEPT ![s.current] =
                    [@ EXCEPT !.silenced = "cooling", !.pongs = 0]]], None)}
    ELSE {s}

\* Mutant of ResetRecovering: every tick restarts a recovery.
ResetRecoveringAlways(s) ==
    [s EXCEPT !.live = [e \in DOMAIN s.live |->
        [s.live[e] EXCEPT !.pongs = 0]]]

\* ping_tick's hysteresis: a fresh miss restarts a recovery.
ResetRecovering(s) ==
    [s EXCEPT !.live = [e \in DOMAIN s.live |->
        IF s.live[e].silenced # "no" /\ s.live[e].quiet
        THEN [s.live[e] EXCEPT !.pongs = 0] ELSE s.live[e]]]

\* ping_tick's pings, to the current client and to the silenced ones.
SendPings(s) ==
    LET targets == {e \in DOMAIN s.live : s.live[e].silenced # "no"}
                        \union {s.current}
    IN  UNION {DropAll(s, gone) :
                  gone \in SUBSET (targets \intersect DOMAIN s.clients)}

\* ping_tick.  A late tick skips the evaluation and refreshes every window.
PingTickOf(s, late) ==
    IF late
    THEN SendPings([s EXCEPT !.live = [e \in DOMAIN s.live |->
                       [s.live[e] EXCEPT !.quiet = FALSE]]])
    ELSE UNION {SendPings(ResetRecovering(t)) : t \in DeclareSilence(s)}

\* clipboard_update_source, for an update that carries types or a clear.  An
\* update inside the source's debounce window is held (local) or dropped;
\* one equal to the current target is ignored.
ClipboardUpdate(s, source, empty) ==
    IF empty
    THEN ClipboardClear([s EXCEPT !.window = s.window \ {source},
                                  !.held = s.held /\ source # Local])
    ELSE IF source \in s.window
    THEN {[s EXCEPT !.held = s.held \/ source = Local]}
    ELSE (IF s.clip = source THEN {s} ELSE {})
           \union ApplyClipboardSource(
                    [s EXCEPT !.window = s.window \union {source},
                              !.held = s.held /\ source # Local], source)

-----------------------------------------------------------------------------
(* The events of the loop (server.rs), one action per kind.                *)

Init ==
    /\ rot = Boot(None)
    /\ accepted = {} /\ nextToken = 1
    /\ since = "other"

\* A handler that is not a switch made by hand.
Handle(outcomes) ==
    /\ rot' \in outcomes
    /\ since' = IF rot'.current # None THEN "other" ELSE since

\* A switch made by hand: chord, edge, tray or control socket; "home" if it
\* asks for the local machine by name.
HandleManual(outcomes, home) ==
    /\ rot' \in outcomes
    /\ since' = IF rot.paused \/ (home /\ since = "home") THEN since
                ELSE IF home /\ since = "silence" THEN "home" ELSE "other"

\* A connection completes its handshake and version exchange.
AddClientEvent(e) ==
    /\ nextToken <= MaxConns
    /\ ReusePorts \/ \A c \in accepted : c[1] # e
    /\ Handle(AddClient(rot, e, nextToken))
    /\ accepted' = accepted \union {<<e, nextToken>>}
    /\ nextToken' = nextToken + 1

\* A connection task or its bulk writer reports the end of the connection:
\* at any time after its client was added, and possibly more than once.
RemoveClientEvent(c) ==
    /\ Handle(RemoveClient(rot, c[1], c[2]))
    /\ UNCHANGED <<accepted, nextToken>>

SwitchNext ==
    /\ HandleManual(SwitchClient(rot, NextTarget(rot)), FALSE)
    /\ UNCHANGED <<accepted, nextToken>>

SwitchPrev ==
    /\ HandleManual(SwitchClient(rot, PrevTarget(rot)), FALSE)
    /\ UNCHANGED <<accepted, nextToken>>

SwitchTo(wanted) ==
    /\ HandleManual(SetClient(rot, wanted), wanted = {})
    /\ UNCHANGED <<accepted, nextToken>>

PauseToggle ==
    /\ Handle(TogglePause(rot))
    /\ UNCHANGED <<accepted, nextToken>>

\* set_paused acts only on a change, and then as the toggle does.
SetPaused(paused) ==
    /\ rot.paused # paused
    /\ PauseToggle

InputBatch(grabbed) ==
    /\ Handle(SendInputEvents(rot, grabbed))
    /\ UNCHANGED <<accepted, nextToken>>

\* A chunk is read from a connection that is or was in the rotation.
ClientHeardFrom(e) ==
    /\ \E c \in accepted : c[1] = e
    /\ Handle(NoteClientHeard(rot, e))
    /\ UNCHANGED <<accepted, nextToken>>

\* The cursor reached the return edge on a client.
SwitchRequest(e) ==
    /\ \E c \in accepted : c[1] = e
    /\ Handle(SwitchRequestFrom(rot, e))
    /\ UNCHANGED <<accepted, nextToken>>

PingTick(late) ==
    /\ rot' \in PingTickOf(rot, late)
    /\ since' = IF rot'.silenced # rot.silenced THEN "silence" ELSE since
    /\ UNCHANGED <<accepted, nextToken>>

\* Something is copied, or a selection vanishes, on the server or on a client
\* whose connection task announces it.
ClipboardUpdateSource(source, empty) ==
    /\ source = Local \/ \E c \in accepted : c[1] = source
    /\ Handle(ClipboardUpdate(rot, source, empty))
    /\ UNCHANGED <<accepted, nextToken>>

\* The trailing edge of the local debounce window.
ClipboardDeadline ==
    /\ rot.held /\ Local \notin rot.window
    /\ Handle(FlushPendingLocal(rot))
    /\ UNCHANGED <<accepted, nextToken>>

\* send_bulk or an empty reply finds a client's bulk queue full or closed.
BulkQueueFull(e) ==
    /\ e \in DOMAIN rot.clients
    /\ Handle(Drop(rot, e))
    /\ UNCHANGED <<accepted, nextToken>>

-----------------------------------------------------------------------------
(* The environment: time passes, and the server process restarts.          *)

TimePasses(t) ==
    /\ rot' = t
    /\ UNCHANGED <<accepted, nextToken, since>>

\* SWITCH_DEBOUNCE has elapsed.
DebounceElapses ==
    /\ rot.recent
    /\ TimePasses([rot EXCEPT !.recent = FALSE])

\* CLIPBOARD_UPDATE_DEBOUNCE has elapsed for a source.
ClipboardWindowElapses(source) ==
    /\ source \in rot.window
    /\ TimePasses([rot EXCEPT !.window = @ \ {source}])

\* REMOVED_CLIENT_RECOVERY_DEADLINE has elapsed.
RecoveryElapses ==
    /\ rot.removed # None /\ rot.removed.recoverable
    /\ TimePasses([rot EXCEPT !.removed.recoverable = FALSE])

\* Nothing was heard from a client for pong_miss_limit intervals.
GoesQuiet(e) ==
    /\ e \in DOMAIN rot.live /\ ~rot.live[e].quiet
    /\ TimePasses([rot EXCEPT !.live[e].quiet = TRUE])

\* REACTIVATE_COOLDOWN has elapsed since a client was silenced.
CooldownElapses(e) ==
    /\ e \in DOMAIN rot.live /\ rot.live[e].silenced = "cooling"
    /\ TimePasses([rot EXCEPT !.live[e].silenced = "cooled"])

\* The server process stops, gracefully or not, and another one starts.  The
\* active_client file survives, unless it is older than ACTIVE_CLIENT_MAX_AGE.
Restart(stale) ==
    /\ Restarts
    /\ rot' = Boot(IF stale THEN None ELSE rot.file)
    /\ accepted' = {} /\ nextToken' = 1
    /\ since' = "other"

UserSwitch ==
    \/ SwitchNext
    \/ SwitchPrev
    \/ \E wanted \in SUBSET Fingerprint : SwitchTo(wanted)

Next ==
    \/ \E e \in Endpoint : AddClientEvent(e)
    \/ \E c \in accepted : RemoveClientEvent(c)
    \/ UserSwitch
    \/ PauseToggle
    \/ \E paused \in BOOLEAN : SetPaused(paused)
    \/ \E grabbed \in BOOLEAN : InputBatch(grabbed)
    \/ \E e \in Endpoint : ClientHeardFrom(e)
    \/ \E e \in Endpoint : SwitchRequest(e)
    \/ \E late \in BOOLEAN : PingTick(late)
    \/ \E source \in Copiers, empty \in BOOLEAN :
          ClipboardUpdateSource(source, empty)
    \/ ClipboardDeadline
    \/ \E e \in Endpoint : BulkQueueFull(e)
    \/ DebounceElapses
    \/ \E source \in Copiers : ClipboardWindowElapses(source)
    \/ RecoveryElapses
    \/ \E e \in Quieters : GoesQuiet(e)
    \/ \E e \in Endpoint : CooldownElapses(e)
    \/ \E stale \in BOOLEAN : Restart(stale)

Spec == Init /\ [][Next]_vars

\* What the scheduling of the server provides: the ping timer keeps firing on
\* time often enough (MissedTickBehavior::Delay), with writes that do not all
\* fail, and time passes.  Fairness must not force a failed write, hence the
\* condition on clients.
FairSpec ==
    /\ Spec
    /\ WF_vars(PingTick(FALSE) /\ DOMAIN rot'.clients = DOMAIN rot.clients)
    /\ \A e \in Endpoint : WF_vars(CooldownElapses(e))

\* A link holds: its client is never quiet again for a whole miss window, and
\* its connection task forwards the chunks it keeps reading.
LinkHolds(e) == <>[][~GoesQuiet(e)]_vars /\ WF_vars(ClientHeardFrom(e))

-----------------------------------------------------------------------------
(* Invariants.                                                             *)

\* Every part of the struct stays within its type; in particular current is
\* a connected client or the local machine.
TypeOK ==
    /\ Typed(rot)
    /\ rot.current \in DOMAIN rot.clients \union {None}
    /\ accepted \subseteq Endpoint \X Nat
    /\ nextToken \in Nat
    /\ since \in {"silence", "home", "other"}

\* Between two events at most one client believes it has the input: a stream
\* whose last Switch was Switch(true) is the current client's.  Violated by a
\* switch that forgets to deactivate the old client on one of its many paths
\* (manual, silence, removal, reconnect, resume).
SingleActive ==
    \A e \in DOMAIN rot.clients : rot.clients[e].active => e = rot.current

\* The current client has been told so: its stream's last Switch was
\* Switch(true).  A client that was not told drops its pointer motion.
CurrentActivated ==
    rot.current # None => rot.clients[rot.current].active

\* No machine holds a key pressed unless it is receiving the input: keys are
\* released on whatever stops being the target, a pause included.
NoStuckKeys ==
    /\ rot.keys => rot.current = None /\ ~rot.paused
    /\ \A e \in DOMAIN rot.clients :
          rot.clients[e].keys => e = rot.current /\ ~rot.paused

\* The devices are grabbed for what the rotation decided: the last broadcast
\* agrees with the target and the pause flag, whichever failure moved it.
GrabFollowsTarget ==
    rot.grab = [client |-> rot.current # None, paused |-> rot.paused]

\* A crash at any moment resumes the right session: the active_client file
\* names the current client, and on the local machine it is gone or is the
\* one this process has not resumed yet.
FileFollowsTarget ==
    IF rot.current # None THEN rot.file = FpOf[rot.current]
    ELSE rot.file \in {None, rot.pending}

\* No connected client escapes the silence detector.
ClientsWatched == DOMAIN rot.clients \subseteq DOMAIN rot.live

\* Automatic recovery is armed, after a silence or after a loss, only while
\* input is on the local machine: it can never move input off a client.
RecoveryMeansLocal ==
    rot.silenced # None \/ rot.removed # None => rot.current = None

\* What every handler and every failed write leaves intact, as the runs check
\* it: the struct is well typed, no client escapes the silence detector,
\* recovery is armed only at home, and the devices are grabbed accordingly.
RotationInv ==
    /\ TypeOK
    /\ GrabFollowsTarget
    /\ ClientsWatched
    /\ RecoveryMeansLocal

-----------------------------------------------------------------------------
(* Action properties.                                                      *)

\* The escape hatch: a hand-made switch whose target is the local machine
\* ungrabs in that very step, debounce window or not.
EscapeHatch ==
    [][~rot.paused =>
          /\ SwitchNext /\ NextTarget(rot) = None => rot'.current = None
          /\ SwitchPrev /\ PrevTarget(rot) = None => rot'.current = None
          /\ SwitchTo({}) => rot'.current = None]_vars

\* Whichever write or removal loses the clipboard's owner, the target is
\* cleared in the same step: no later fetch is sent to a client that left.
OwnerLossClears ==
    [][rot.clip \in DOMAIN rot.clients \ DOMAIN rot'.clients
          => rot'.clip # rot.clip]_vars

\* A client that answers again takes the input back only if nobody switched
\* by hand since it was silenced, a deliberate stay on the local machine
\* included.
SilenceYieldsToUser ==
    [][(\E e \in Endpoint : ClientHeardFrom(e)) /\ rot.current = None
          /\ rot'.current # None => since = "silence"]_vars

\* Input moves from one client straight to another only by hand, or because
\* the new one is a reconnect from the same IP or the session to resume.
InputIsMovedByHand ==
    [][rot.current # None /\ rot'.current \notin {None, rot.current}
          => \/ UserSwitch
             \/ IpOf[rot'.current] = IpOf[rot.current]
             \/ rot.pending = FpOf[rot'.current]]_vars

\* A connection's end may be reported long after the same machine was accepted
\* again from the same addr:port.  As long as that newer client is in the
\* rotation, the report takes nothing from it: not its entry, not the input,
\* not the clipboard it owns.
ReplacedTakesNothing ==
    [][\A c, d \in accepted :
          /\ c[1] = d[1] /\ c[2] < d[2] /\ d[1] \in DOMAIN rot.clients
          /\ RemoveClientEvent(c)
          => UNCHANGED rot]_vars

\* Nobody takes the input from a client that has it: neither another client
\* that arrives or talks, nor a predecessor of its own.
NoFocusTheft == InputIsMovedByHand /\ ReplacedTakesNothing

-----------------------------------------------------------------------------
(* Liveness, under FairSpec.                                               *)

\* A current client whose link black-holed does not keep the input.
SilentClientIsLeft ==
    \A e \in Endpoint :
        rot.current = e /\ rot.live[e].quiet
            ~> rot.current # e \/ ~rot.live[e].quiet

\* Once a silenced client's link holds, it gets the input back, unless it is
\* superseded by hand or its connection ends.
SilencedClientRecovers ==
    \A e \in Endpoint :
        LinkHolds(e) =>
            (rot.silenced = e /\ e \in DOMAIN rot.clients
                ~> rot.silenced # e \/ e \notin DOMAIN rot.clients)

-----------------------------------------------------------------------------
(* What the code's comments and documentation say, and the code does not   *)
(* always keep.                                                            *)

\* rotation.rs: "Automatic re-activation only fires for the specific silenced
\* endpoint", which is dropped from the record when the client is removed, so
\* that the reconnect recovers the session instead.
SilencedIsConnected == rot.silenced \in DOMAIN rot.clients \union {None}

\* rotation.rs, on a request that finds no owner: "This may mean that the
\* serving client disconnected, but we should have cleared the status."
OwnerIsConnected == rot.clip \in DOMAIN rot.clients \union {Local, None}

\* README.md: "Switching by hand in the meantime - to another client, or
\* deliberately to the local machine - always wins".
UserChoiceWins ==
    [][rot.current = None /\ rot'.current # None /\ since = "home"
          => UserSwitch]_vars

=============================================================================
