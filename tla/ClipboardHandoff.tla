-------------------------- MODULE ClipboardHandoff --------------------------
(***************************************************************************)
(* Who offers the clipboard: the server's clipboard_target on one side,    *)
(* the clients' deferred announcements on the other, and between them two  *)
(* ordered streams per connection.                                         *)
(*                                                                         *)
(* Rotation explores the server alone with every failed write; here the    *)
(* server's writes succeed, a connection is lost as a whole, and what      *)
(* matters is the order of messages in flight.  The update debounce (300ms *)
(* per source) and the silence detector are left out.  A clipboard is the  *)
(* number of the copy that made it, 0 when it was cleared; two copies      *)
(* never have equal types.                                                 *)
(***************************************************************************)
EXTENDS Clipboards

CONSTANT MaxSwitches  \* bound: switches and key releases by hand

ASSUME HandoffAssumption ==
    /\ IsFiniteSet(Machine) /\ None \notin Machine /\ None \notin Int
    /\ MaxConns \in Nat /\ MaxCopies \in Nat /\ MaxSwitches \in Nat

VARIABLES
    server,   \* the rotation's clipboard state, and the streams it writes
    client,   \* for each machine, its clipboard and its session
    up,       \* for each connection, announcements on their way to the server
    copies,   \* history: on which machine each copy was made
    switches  \* counts what MaxSwitches bounds

vars == <<server, client, up, copies, switches>>

-----------------------------------------------------------------------------
(* A machine's own clipboard, as the compositor keeps it.                  *)

\* "copy" is what an application pastes, "own" whether another application of
\* this machine offers it, "news" the types the watcher has not delivered yet.
Clipboard == [copy : 0 .. MaxCopies, own : BOOLEAN,
              news : 0 .. MaxCopies \union {None}]

\* store_types: offer a clipboard of another machine.  Setting no types takes
\* the selection away; the watcher reports that if an application owned it.
StoreTypes(box, copy) ==
    [box EXCEPT !.copy = copy, !.own = FALSE,
                !.news = IF copy = 0 /\ box.own THEN 0 ELSE box.news]

\* An application copies.
Copied(box, copy) == [box EXCEPT !.copy = copy, !.own = TRUE, !.news = copy]

-----------------------------------------------------------------------------
(* The server.                                                             *)

\* "seen" and "pair" are history: the newest copy the rotation knew when it
\* wrote the message, and whether it is half of a key release.
Switch(enabled, seen, pair) ==
    [kind |-> "switch", enabled |-> enabled, seen |-> seen, pair |-> pair]
Types(copy) == [kind |-> "types", copy |-> copy]
EdgeInfo == [kind |-> "info"]

\* The newest copy the rotation knows.
Seen(s) == IF s.target = None THEN 0 ELSE s.target.copy

\* A write to a listed connection; one whose peer is gone takes it nowhere.
Send(s, c, msg) ==
    IF c \in s.listed /\ c \in s.open
    THEN [s EXCEPT !.down[c] = Append(@, msg)] ELSE s

SendAll(s, conns, msg) ==
    [s EXCEPT !.down = [c \in DOMAIN s.down |->
        IF c \in conns \intersect s.listed \intersect s.open
        THEN Append(s.down[c], msg) ELSE s.down[c]]]

\* update_current_client_clipboard.
UpdateCurrentClipboard(s) ==
    IF s.target = None THEN s
    ELSE IF s.current # Local
         THEN IF s.target.source = s.current THEN s
              ELSE Send(s, s.current, Types(s.target.copy))
    ELSE IF s.target.source = Local THEN s
         ELSE [s EXCEPT !.host = StoreTypes(@, s.target.copy)]

\* Mutant of SwitchTo: Switch(true) overtakes the clipboard types.
SwitchToTypesLast(s, c) ==
    LET t == [s EXCEPT !.removed = None, !.current = c]
    IN  IF c = s.current THEN [s EXCEPT !.removed = None]
        ELSE Send(UpdateCurrentClipboard(Send(t, c, Switch(TRUE, Seen(s), FALSE))),
                  s.current, Switch(FALSE, 0, FALSE))

\* update_current_client: the types, then Switch(true), then Switch(false).
SwitchTo(s, c) ==
    LET t == [s EXCEPT !.removed = None, !.current = c]
    IN  IF c = s.current THEN [s EXCEPT !.removed = None]
        ELSE Send(Send(UpdateCurrentClipboard(t), c, Switch(TRUE, Seen(s), FALSE)),
                  s.current, Switch(FALSE, 0, FALSE))

\* Mutant of ReleaseKeys: the second write is forgotten.
ReleaseKeysHalf(s) == Send(s, s.current, Switch(FALSE, 0, TRUE))

\* release_current_target_keys.
ReleaseKeys(s) ==
    Send(Send(s, s.current, Switch(FALSE, 0, TRUE)),
         s.current, Switch(TRUE, Seen(s), TRUE))

\* clipboard_clear.
ClipboardClear(s) ==
    SendAll([s EXCEPT !.target = None, !.host = StoreTypes(@, 0)],
            s.listed, Types(0))

\* Mutant of UpdateSource: the active side learns of it at the next switch.
UpdateSourceUnannounced(s, source, copy) ==
    IF copy = 0 THEN ClipboardClear(s)
    ELSE [s EXCEPT !.target = [source |-> source, copy |-> copy]]

\* clipboard_update_source.
UpdateSource(s, source, copy) ==
    IF copy = 0 THEN ClipboardClear(s)
    ELSE IF s.target = [source |-> source, copy |-> copy] THEN s
    ELSE UpdateCurrentClipboard(
            [s EXCEPT !.target = [source |-> source, copy |-> copy]])

\* add_client, for a connection from machine m: edge information to any of
\* the others, the clipboard unless its owner has the same IP, and the two
\* rules that hand the input back to a machine that reconnects.
AddClient(s, c, m, told) ==
    LET s1 == SendAll([s EXCEPT !.listed = @ \union {c}, !.open = @ \union {c},
                                !.machine = Append(@, m)], told, EdgeInfo)
        foreign == s.target # None
                   /\ (s.target.source = Local
                       \/ s.machine[s.target.source] # m)
        s2 == IF foreign THEN Send(s1, c, Types(s.target.copy)) ELSE s1
        s3 == IF s.current # Local /\ s.machine[s.current] = m
              THEN SwitchTo(s2, c) ELSE s2
    IN  IF s3.removed = m THEN SwitchTo(s3, c) ELSE s3

\* remove_client_and_clear_clipboard: input comes home without a switch.
RemoveClient(s, c) ==
    LET t == [s EXCEPT !.listed = @ \ {c},
                       !.current = IF @ = c THEN Local ELSE @,
                       !.removed = IF s.current = c THEN s.machine[c] ELSE @]
    IN  IF s.target # None /\ s.target.source = c THEN ClipboardClear(t) ELSE t

-----------------------------------------------------------------------------
(* The client.                                                             *)

\* LocalClipboard.local_types when there are some: the copy this machine would
\* announce.  "conn" is Local while the machine has no connection.
Session == [conn : 0 .. MaxConns, active : BOOLEAN, fresh : BOOLEAN,
            deferred : BOOLEAN, local : 0 .. MaxCopies \union {None},
            serving : BOOLEAN]

\* A new session, or with Local none; the machine's clipboard outlives it.
Restarted(m, conn) ==
    [m EXCEPT !.conn = conn, !.active = FALSE, !.fresh = TRUE, !.deferred = FALSE]

\* set_remote_clipboard.
SetRemoteClipboard(m, copy) ==
    [m EXCEPT !.box = StoreTypes(@, copy), !.local = None, !.serving = TRUE]

\* set_local_clipboard.
SetLocalClipboard(m) == [m EXCEPT !.local = m.box.news, !.serving = FALSE]

\* clear_remote_clipboard.
ClearRemoteClipboard(m) ==
    IF m.serving
    THEN [m EXCEPT !.box = StoreTypes(@, 0), !.local = None, !.serving = FALSE]
    ELSE m

\* The announcement of the local types, if there are any.
Announcement(m) == IF m.local = None THEN <<>> ELSE <<m.local>>

\* Mutant of OnSwitch: no activation announces anything.
OnSwitchForgets(m, enabled) ==
    [to   |-> [m EXCEPT !.active = enabled, !.fresh = @ /\ ~enabled,
                        !.deferred = ~enabled],
     says |-> <<>>]

\* handle_event_messages, Switch: "to" is the client after it, "says" what it
\* announces.
OnSwitch(m, enabled) ==
    [to   |-> [m EXCEPT !.active = enabled, !.fresh = @ /\ ~enabled,
                        !.deferred = ~enabled],
     says |-> IF enabled /\ m.fresh /\ ~m.deferred
              THEN Announcement(m) ELSE <<>>]

\* handle_event_messages, any other message: the deferred announcement goes
\* out first.
OnOther(m, msg) ==
    [to   |-> IF msg.kind = "types"
              THEN SetRemoteClipboard([m EXCEPT !.deferred = FALSE], msg.copy)
              ELSE [m EXCEPT !.deferred = FALSE],
     says |-> IF m.deferred THEN Announcement(m) ELSE <<>>]

Handled(m, msg) ==
    IF msg.kind = "switch" THEN OnSwitch(m, msg.enabled) ELSE OnOther(m, msg)

-----------------------------------------------------------------------------
(* Steps.                                                                  *)

Init ==
    /\ server = [listed |-> {}, open |-> {}, machine |-> <<>>,
                 current |-> Local, target |-> None, removed |-> None,
                 host |-> [copy |-> 0, own |-> FALSE, news |-> None],
                 down |-> [c \in Conn |-> <<>>]]
    /\ client = [m \in Machine |->
                    [conn |-> Local, active |-> FALSE, fresh |-> TRUE,
                     deferred |-> FALSE, local |-> None, serving |-> FALSE,
                     box |-> [copy |-> 0, own |-> FALSE, news |-> None]]]
    /\ up = [c \in Conn |-> <<>>]
    /\ copies = <<>>
    /\ switches = 0

\* The user switches, to a client or home; a switch to where the input is
\* releases the keys held there.
UserSwitch(c) ==
    /\ switches < MaxSwitches
    /\ switches' = switches + 1
    /\ server' = IF c = server.current THEN ReleaseKeys(server)
                 ELSE SwitchTo(server, c)
    /\ UNCHANGED <<client, up, copies>>

\* An application copies on the server, or on a client machine.
CopyOnServer ==
    /\ Len(copies) < MaxCopies
    /\ copies' = Append(copies, Local)
    /\ server' = [server EXCEPT !.host = Copied(@, Len(copies'))]
    /\ UNCHANGED <<client, up, switches>>

CopyOnClient(m) ==
    /\ Len(copies) < MaxCopies
    /\ copies' = Append(copies, m)
    /\ client' = [client EXCEPT ![m].box = Copied(@, Len(copies'))]
    /\ UNCHANGED <<server, up, switches>>

\* The server's watcher delivers new types.
ServerTypesChanged ==
    /\ server.host.news # None
    /\ server' = UpdateSource([server EXCEPT !.host.news = None],
                              Local, server.host.news)
    /\ UNCHANGED <<client, up, copies, switches>>

\* The client's watcher delivers new types: kept until the machine is
\* deactivated, ignored on an inactive one.
ClientTypesChanged(m) ==
    /\ client[m].conn # Local /\ client[m].box.news # None
    /\ client' = [client EXCEPT ![m] =
            [(IF @.active THEN SetLocalClipboard(@) ELSE @)
                EXCEPT !.box.news = None]]
    /\ UNCHANGED <<server, up, copies, switches>>

\* The client handles the next message of its events stream.
ClientReceives(m) ==
    LET c == client[m].conn
    IN  /\ c # Local /\ server.down[c] # <<>>
        /\ LET h == Handled(client[m], Head(server.down[c]))
           IN  /\ client' = [client EXCEPT ![m] = h.to]
               /\ up' = [up EXCEPT ![c] = @ \o h.says]
        /\ server' = [server EXCEPT !.down[c] = Tail(@)]
        /\ UNCHANGED <<copies, switches>>

\* The rotation handles the next announcement of a connection.
ServerReceives(c) ==
    /\ up[c] # <<>>
    /\ up' = [up EXCEPT ![c] = Tail(@)]
    /\ server' = UpdateSource(server, c, Head(up[c]))
    /\ UNCHANGED <<client, copies, switches>>

\* A machine without a connection makes one.
Connect(m, told) ==
    LET c == Len(server.machine) + 1
    IN  /\ client[m].conn = Local /\ c \in Conn
        /\ server' = AddClient(server, c, m, told)
        /\ client' = [client EXCEPT ![m] = Restarted(@, c)]
        /\ UNCHANGED <<up, copies, switches>>

\* A machine loses its connection: what it has not received is lost, and any
\* end of what it sent.
Disconnect(m) ==
    LET c == client[m].conn
    IN  /\ c # Local
        /\ client' = [client EXCEPT ![m] = Restarted(ClearRemoteClipboard(@), Local)]
        /\ \E n \in 0 .. Len(up[c]) :
              up' = [up EXCEPT ![c] = SubSeq(@, 1, n)]
        /\ server' = [server EXCEPT !.open = @ \ {c}, !.down[c] = <<>>]
        /\ UNCHANGED <<copies, switches>>

\* The server notices, at any later time.
RemoveClientEvent(c) ==
    /\ c \in server.listed \ server.open
    /\ server' = RemoveClient(server, c)
    /\ UNCHANGED <<client, up, copies, switches>>

\* REMOVED_CLIENT_RECOVERY_DEADLINE passes.
RecoveryElapses ==
    /\ server.removed # None
    /\ server' = [server EXCEPT !.removed = None]
    /\ UNCHANGED <<client, up, copies, switches>>

Next ==
    \/ \E c \in server.listed \union {Local} : UserSwitch(c)
    \/ CopyOnServer
    \/ \E m \in Machine : CopyOnClient(m)
    \/ ServerTypesChanged
    \/ \E m \in Machine : ClientTypesChanged(m)
    \/ \E m \in Machine : ClientReceives(m)
    \/ \E c \in Conn : ServerReceives(c)
    \/ \E m \in Machine, told \in SUBSET server.listed : Connect(m, told)
    \/ \E m \in Machine : Disconnect(m)
    \/ \E c \in Conn : RemoveClientEvent(c)
    \/ RecoveryElapses

Spec == Init /\ [][Next]_vars

\* Streams deliver and the loops at both ends keep running.
FairSpec ==
    /\ Spec
    /\ \A m \in Machine : WF_vars(ClientReceives(m))
    /\ \A c \in Conn : WF_vars(ServerReceives(c))
    /\ WF_vars(ServerTypesChanged)

-----------------------------------------------------------------------------
(* Properties.                                                             *)

TypeOK ==
    /\ server.listed \subseteq Conn /\ server.open \subseteq server.listed
    /\ server.current \in server.listed \union {Local}
    /\ server.removed \in Machine \union {None}
    /\ server.host \in Clipboard
    /\ \A m \in Machine :
          /\ client[m].box \in Clipboard
          /\ client[m].conn \in server.open \union {Local}
    /\ \A c \in Conn : up[c] \in Seq(0 .. MaxCopies)

\* The messages of a kind that a client has not received yet.
InFlight(queue, kind) == {i \in DOMAIN queue : queue[i].kind = kind}

\* What a client will make of "active" when it has received the queue.
WillBe(queue, active, value) ==
    \/ InFlight(queue, "switch") = {} /\ active = value
    \/ \E i \in InFlight(queue, "switch") :
          /\ queue[i].enabled = value
          /\ \A j \in InFlight(queue, "switch") : j <= i

\* Once its stream is drained a client is active exactly if it is the
\* rotation's current one, whatever pairs, reconnects and switches crossed.
StreamsAgree ==
    \A m \in Machine : client[m].conn # Local =>
        WillBe(server.down[client[m].conn], client[m].active,
               server.current = client[m].conn)

\* A clipboard is announced, and routed to, only by the machine that made the
\* copy: what the server pushes to a client never comes back as its own.
OwnerMadeIt ==
    /\ \A c \in Conn : \A i \in DOMAIN up[c] :
          up[c][i] # 0 => copies[up[c][i]] = server.machine[c]
    /\ server.target # None =>
          copies[server.target.copy] =
              IF server.target.source = Local THEN Local
              ELSE server.machine[server.target.source]

\* What the two ends of the streams agree on, as the runs check it.
HandoffInv == TypeOK /\ StreamsAgree /\ OwnerMadeIt

\* When nothing is in flight, an application on the current client pastes the
\* rotation's target, unless the target or a newer copy is its own.
PasteIsTarget ==
    \A m \in Machine :
        LET c == client[m].conn
        IN  c # Local /\ server.current = c /\ server.down[c] = <<>>
                /\ server.target # None /\ server.target.source # c
            => client[m].box.own \/ client[m].box.copy = server.target.copy

\* An activation announces a copy only when it is news: a key release, which
\* is a deactivation undone at once, moves no ownership, and the announcement
\* made at the first activation of a connection shadows no newer copy, for
\* none was known when the client was activated.
OnlyNewsAnnounced ==
    [][\A m \in Machine : ClientReceives(m) =>
          LET msg == Head(server.down[client[m].conn])
          IN  msg.kind = "switch" /\ up' # up =>
                 /\ ~(msg.enabled /\ msg.pair)
                 /\ client[m].local # 0 => client[m].local >= msg.seen]_vars

\* A copy made before a connection dropped is offered again once the client
\* is activated on the next one, unless something newer replaced it.
PreDropCopySurvives ==
    \A c \in Conn, k \in 1 .. MaxCopies :
        LET Holds == \E m \in Machine :
                        client[m].conn = c /\ client[m].local = k
            Fresh == \E m \in Machine :
                        client[m].conn = c /\ client[m].fresh
        IN  Holds /\ Fresh /\ server.current = c
                ~> \/ server.target # None /\ server.target.copy >= k
                   \/ ~Holds \/ server.current # c

-----------------------------------------------------------------------------
(* What the comments say, and the code does not keep.                      *)

\* rotation.rs: a client "broadcasts its clipboard shortly after being told
\* its no longer active".
CopyIsAnnounced ==
    \A m \in Machine :
        client[m].deferred /\ client[m].local # None
            ~> ~client[m].deferred \/ client[m].local = None

\* rotation.rs: "a stale clipboard must never shadow a genuinely newer one".
NoStaleShadow ==
    [][server.target # None /\ server'.target # None
          => server'.target.copy >= server.target.copy]_vars

=============================================================================
