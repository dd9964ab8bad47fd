------------------------------- MODULE Motion -------------------------------
(***************************************************************************)
(* Pointer motion from the rotation to a client.  Moves are coalesced into *)
(* frames, frames travel in datagrams that may get lost or overtake each   *)
(* other, and each datagram repeats the frames before it so that the       *)
(* client can make up for lost ones.  Switches travel on the ordered       *)
(* stream, which datagrams overtake too.                                   *)
(*                                                                         *)
(* A move is a number, a frame the set of moves summed into it; sums that  *)
(* cancel out are a choice of the flush.  The rotation decides switches as *)
(* in Rotation, of which only what touches motion is kept here.            *)
(***************************************************************************)
EXTENDS Naturals, Sequences, FiniteSets

CONSTANTS
    Client,      \* the client machines
    None,        \* Rust's None: input is on the local machine
    HistoryLen,  \* MOTION_HISTORY_LEN
    Window,      \* MOTION_APPLY_WINDOW
    ReusePorts,  \* may a client reconnect from the addr:port it had?
    MaxMoves,    \* bound: moves made
    MaxControls  \* bound: switches, pauses and lost connections

ASSUME MotionAssumption ==
    /\ None \notin Client
    /\ HistoryLen \in Nat \ {0} /\ Window \in Nat \ {0} /\ MaxMoves \in Nat
    /\ MaxControls \in Nat /\ ReusePorts \in BOOLEAN
\* The client tracks more frames than a datagram carries (64 against 33).
ASSUME WindowAssumption == HistoryLen < Window

Move == 1 .. MaxMoves

VARIABLES
    server,     \* the motion fields of the Rotation struct
    client,     \* for each machine, the motion fields of its Connection
    wire,       \* for each machine, the datagrams on their way to it
    stream,     \* for each machine, its events stream, as far as motion goes
    aimed,      \* for each move made, the machine that had the input then
    cursor,     \* for each machine and move, how often its pointer made it
    past        \* history: what PositionExact speaks about

vars == <<server, client, wire, stream, aimed, cursor, past>>

-----------------------------------------------------------------------------
(* The server.                                                             *)

\* motion_history with a new front, as a datagram carries it.
WithFrame(frame, history) ==
    [i \in 1 .. Len(history) + 1 |->
        IF i = 1 THEN frame ELSE history[i - 1]]

\* Mutant of Remembered: room for as many frames as the client tracks.
RememberedSparse(frame, history) ==
    IF Len(history) < HistoryLen THEN WithFrame(frame, history) ELSE history

\* push_front and truncate.
Remembered(frame, history) ==
    LET len == IF Len(history) < HistoryLen
               THEN Len(history) + 1 ELSE HistoryLen
    IN  [i \in 1 .. len |-> WithFrame(frame, history)[i]]

\* What a switch and a pause do to motion.
Forget(s) == [s EXCEPT !.pending = {}, !.history = <<>>]

Enabled(on) == [kind |-> "switch", enabled |-> on]
Input(frame) == [kind |-> "input", frame |-> frame]

\* The switches written to the streams: the new client's, then the old one's.
Announced(out, new, old) ==
    [c \in Client |->
        IF c = new THEN Append(out[c], Enabled(TRUE))
        ELSE IF c = old THEN Append(out[c], Enabled(FALSE))
        ELSE out[c]]

\* release_current_target_keys.
Released(out, c) ==
    IF c = None THEN out
    ELSE [out EXCEPT ![c] = Append(Append(@, Enabled(FALSE)), Enabled(TRUE))]

\* Mutant of Retried: the deltas taken out of the accumulator are lost.
RetriedLost(s, frame) == s

\* The send buffer is full: the deltas taken out go back.
Retried(s, frame) == [s EXCEPT !.pending = frame]

-----------------------------------------------------------------------------
(* The client.                                                             *)

Fresh == [active |-> FALSE, last |-> 0, mask |-> {}]

\* applied_mask, as the ages of the frames applied, moved on to frame "last".
Shifted(c, last) ==
    {age + last - c.last : age \in c.mask} \intersect 0 .. Window - 1

\* MotionDatagram::apply: the client after it, and the entries of the history
\* that are applied now.
Apply(c, datagram) ==
    LET last == IF datagram.seq > c.last THEN datagram.seq ELSE c.last
        mask == Shifted(c, last)
        Age(i) == last - (datagram.seq + 1 - i)
        new == {i \in DOMAIN datagram.history :
                   /\ i <= datagram.seq /\ Age(i) < Window
                   /\ Age(i) \notin mask}
    IN  [client |-> [c EXCEPT !.last = last,
                              !.mask = mask \union {Age(i) : i \in new}],
         new |-> new]

-----------------------------------------------------------------------------
(* Steps.                                                                  *)

Init ==
    /\ server \in [current : {None}, paused : {FALSE}, coalesce : BOOLEAN,
                   pending : {{}}, history : {<<>>}, seq : {0},
                   datagrams : {Client}]
    /\ client = [c \in Client |-> Fresh]
    /\ wire = [c \in Client |-> {}]
    /\ stream = [c \in Client |-> <<>>]
    /\ aimed = <<>>
    /\ cursor = [c \in Client |-> [m \in Move |-> 0]]
    /\ past = [frames |-> <<>>, live |-> {}, controls |-> 0]

\* try_send_motion_datagram, Sent: frame number seq + 1, and frames before it.
SendDatagram(frame, history) ==
    /\ server.current \in server.datagrams
    /\ wire' = [wire EXCEPT ![server.current] = @ \union
                   {[seq |-> server.seq + 1, history |-> history]}]
    /\ UNCHANGED stream

\* Fallback: a peer that cannot do datagrams gets it on the stream, now and
\* from now on.
SendOnStream(frame) ==
    /\ stream' = [stream EXCEPT ![server.current] = Append(@, Input(frame))]
    /\ UNCHANGED wire

\* A move while a client has the input.
Moves ==
    /\ server.current # None /\ ~server.paused /\ Len(aimed) < MaxMoves
    /\ aimed' = Append(aimed, server.current)
    /\ UNCHANGED <<client, cursor>>

\* It is accumulated, when coalescing, ...
MoveCoalesced ==
    /\ server.coalesce /\ Moves
    /\ server' = [server EXCEPT !.pending = @ \union {Len(aimed')}]
    /\ past' = [past EXCEPT !.live = @ \union {Len(aimed')}]
    /\ UNCHANGED <<wire, stream>>

\* ... and otherwise sent at once, in a datagram that repeats nothing, or
\* skipped if the send buffer is full.
MoveAtFullRate ==
    /\ ~server.coalesce /\ Moves
    /\ LET frame == {Len(aimed')}
       IN  \/ /\ SendDatagram(frame, <<frame>>)
              /\ server' = [server EXCEPT !.seq = @ + 1]
              /\ past' = [past EXCEPT !.frames = Append(@, frame)]
           \/ UNCHANGED <<server, wire, stream, past>>
           \/ /\ SendOnStream(frame)
              /\ server' = [server EXCEPT !.datagrams = @ \ {server.current}]
              /\ UNCHANGED past

\* flush_pending_motion, on its timer or before other input.  The deltas are
\* taken out; then they are sent, go back, are sent on the stream, or turn out
\* to cancel and are done with.
Flush ==
    /\ server.pending # {}
    /\ LET frame == server.pending
           taken == [server EXCEPT !.pending = {}]
       IN  \/ /\ SendDatagram(frame, WithFrame(frame, server.history))
              /\ server' = [taken EXCEPT
                    !.seq = @ + 1, !.history = Remembered(frame, @)]
              /\ past' = [past EXCEPT !.frames = Append(@, frame)]
           \/ /\ server' = Retried(taken, frame)
              /\ UNCHANGED <<wire, stream, past>>
           \/ /\ SendOnStream(frame)
              /\ server' = [taken EXCEPT !.datagrams = @ \ {server.current}]
              /\ UNCHANGED past
           \/ /\ server' = taken
              /\ past' = [past EXCEPT !.live = @ \ frame]
              /\ UNCHANGED <<wire, stream>>
    /\ UNCHANGED <<client, aimed, cursor>>

\* What MaxControls bounds; a switch or a pause ends the life of what moved
\* before.
Control(live) ==
    /\ past.controls < MaxControls
    /\ past' = [past EXCEPT !.live = live, !.controls = @ + 1]
    /\ UNCHANGED <<aimed, cursor>>

\* update_current_client, for whatever reason.
SwitchTo(new) ==
    /\ Control({})
    /\ new # server.current
    /\ server' = [Forget(server) EXCEPT !.current = new]
    /\ stream' = Announced(stream, new, server.current)
    /\ UNCHANGED <<client, wire>>

\* release_current_target_keys for a switch to the current client: motion is
\* left alone.
ReleaseKeys ==
    /\ Control(past.live)
    /\ server.current # None
    /\ stream' = Released(stream, server.current)
    /\ UNCHANGED <<server, client, wire>>

\* toggle_pause: pausing releases the keys first.
Pause ==
    /\ Control({})
    /\ ~server.paused
    /\ server' = [Forget(server) EXCEPT !.paused = TRUE]
    /\ stream' = Released(stream, server.current)
    /\ UNCHANGED <<client, wire>>

Resume ==
    /\ server.paused
    /\ server' = [server EXCEPT !.paused = FALSE]
    /\ UNCHANGED <<client, wire, stream, aimed, cursor, past>>

\* A client's connection is lost with all that is in flight on it, and
\* replaced.  If it was the current one, input comes home; unless the new
\* connection comes from the same addr:port and before the loss is handled: then
\* it takes the old one's place and all else stays as it is.
Reconnect(c, inPlace) ==
    LET home == c = server.current /\ ~inPlace
    IN  /\ inPlace => ReusePorts
        /\ Control(IF home THEN {} ELSE past.live)
        /\ server' = [(IF home THEN [Forget(server) EXCEPT !.current = None]
                       ELSE server) EXCEPT !.datagrams = @ \union {c}]
        /\ client' = [client EXCEPT ![c] = Fresh]
        /\ wire' = [wire EXCEPT ![c] = {}]
        /\ stream' = [stream EXCEPT ![c] = <<>>]

\* The client handles the next message of its events stream.
ClientReceives(c) ==
    /\ stream[c] # <<>>
    /\ LET msg == Head(stream[c])
       IN  \/ /\ msg.kind = "switch"
              /\ client' = [client EXCEPT ![c].active = msg.enabled]
              /\ UNCHANGED cursor
           \/ /\ msg.kind = "input"
              /\ cursor' = [cursor EXCEPT ![c] =
                    [m \in Move |-> @[m] + IF m \in msg.frame THEN 1 ELSE 0]]
              /\ UNCHANGED client
    /\ stream' = [stream EXCEPT ![c] = Tail(@)]
    /\ UNCHANGED <<server, wire, aimed, past>>

\* handle_motion_datagram, for any datagram on the way: an inactive client
\* ignores it.
DatagramArrives(c, datagram) ==
    /\ wire' = [wire EXCEPT ![c] = @ \ {datagram}]
    /\ IF client[c].active
       THEN LET applied == Apply(client[c], datagram)
            IN  /\ client' = [client EXCEPT ![c] = applied.client]
                /\ cursor' = [cursor EXCEPT ![c] =
                      [m \in Move |-> @[m] + Cardinality(
                          {i \in applied.new : m \in datagram.history[i]})]]
       ELSE UNCHANGED <<client, cursor>>
    /\ UNCHANGED <<server, stream, aimed, past>>

DatagramLost(c, datagram) ==
    /\ wire' = [wire EXCEPT ![c] = @ \ {datagram}]
    /\ UNCHANGED <<server, client, stream, aimed, cursor, past>>

Next ==
    \/ MoveCoalesced
    \/ MoveAtFullRate
    \/ Flush
    \/ \E new \in Client \union {None} : SwitchTo(new)
    \/ ReleaseKeys
    \/ Pause
    \/ Resume
    \/ \E c \in Client :
          \/ \E inPlace \in BOOLEAN : Reconnect(c, inPlace)
          \/ ClientReceives(c)
          \/ \E datagram \in wire[c] :
                DatagramArrives(c, datagram) \/ DatagramLost(c, datagram)

Spec == Init /\ [][Next]_vars

-----------------------------------------------------------------------------
(* Properties.                                                             *)

Frame == SUBSET Move
DatagramType == [seq : Nat, history : Seq(Frame)]
Message == [kind : {"switch"}, enabled : BOOLEAN]
               \union [kind : {"input"}, frame : Frame]

TypeOK ==
    /\ server \in [current : Client \union {None}, paused : BOOLEAN,
                   coalesce : BOOLEAN, pending : Frame, history : Seq(Frame),
                   seq : Nat, datagrams : SUBSET Client]
    /\ server.pending # {} => server.current # None /\ ~server.paused
    /\ client \in [Client -> [active : BOOLEAN, last : Nat,
                             mask : SUBSET (0 .. Window - 1)]]
    /\ \A c \in Client : client[c].last <= server.seq
    /\ wire \in [Client -> SUBSET DatagramType]
    /\ \A c \in Client : \A d \in wire[c] : d.seq <= server.seq
    /\ stream \in [Client -> Seq(Message)]
    /\ aimed \in Seq(Client) /\ Len(aimed) <= MaxMoves
    /\ cursor \in [Client -> [Move -> Nat]]
    /\ past \in [frames : Seq(Frame), live : Frame, controls : Nat]
    /\ Len(past.frames) = server.seq

\* A client that has seen the newest datagram has made every move since the
\* last switch or pause, but for those still accumulated, those on its stream
\* and those in frames too old to be repeated: lost datagrams cost nothing
\* that fewer than HistoryLen of them in a row could take.
PositionExact ==
    \A c \in Client :
        server.current = c /\ server.coalesce /\ client[c].last = server.seq =>
            \A m \in past.live :
                \/ cursor[c][m] = 1
                \/ m \in server.pending
                \/ \E i \in DOMAIN stream[c] :
                      stream[c][i].kind = "input" /\ m \in stream[c][i].frame
                \/ \E n \in 1 .. server.seq - HistoryLen - 1 :
                      m \in past.frames[n]

\* Both, as the run checks them.
MotionInv == TypeOK /\ PositionExact

\* Whatever is lost or reordered, forwarding implements MotionDelivery: no
\* move is made twice, and none on a machine it was not made for.
Delivery == INSTANCE MotionDelivery
DeliversOnce == Delivery!Spec

\* The safety half of it, as MotionDatagram::apply documents it: each frame is
\* applied once, so no pointer makes a move twice.  Violated when a connection
\* is replaced in place: the rotation goes on repeating frames the old
\* connection had already applied.
MovedOnce == \A c \in Client, m \in Move : cursor[c][m] <= 1

=============================================================================
