---------------------------- MODULE MotionProofs ----------------------------
(***************************************************************************)
(* Proofs about Motion, for every number of clients and moves and every    *)
(* history shorter than the window: it implements MotionDelivery, and lost *)
(* datagrams cost nothing that a later one can make up for.                *)
(*                                                                         *)
(* The heart of it is Carries: the i-th entry of a datagram is frame       *)
(* seq + 1 - i, wherever the datagram is and whatever was flushed since;   *)
(* and a frame the client has applied is marked in its mask or too old.    *)
(***************************************************************************)
EXTENDS Motion, FiniteSetTheorems, TLAPS

\* The moves made for machine c.
AimedAt(made, c) == {m \in DOMAIN made : made[m] = c}

\* A client has applied frame n, or gave up on frames that old.
Applied(k, n) ==
    n <= k.last /\ (k.last - n >= Window \/ k.last - n \in k.mask)

\* What a datagram for c may carry.
Carries(d, c) ==
    /\ Len(d.history) <= d.seq /\ d.seq <= server.seq
    /\ \A i \in DOMAIN d.history :
          LET n == d.seq + 1 - i
          IN  /\ d.history[i] = past.frames[n]
              /\ past.frames[n] \subseteq AimedAt(aimed, c)
              /\ \A m \in past.frames[n] : cursor[c][m] # 0 => Applied(client[c], n)

Wired == \A c \in Client : \A d \in wire[c] : Carries(d, c)

\* The rotation's memory is what the next datagram carries on.
Memory == [seq |-> server.seq, history |-> server.history]

Remembering ==
    /\ server.current # None => Carries(Memory, server.current)
    /\ server.current = None \/ ~server.coalesce => server.history = <<>>

\* No move is in two frames, in a frame and accumulated, or not made yet.
Apart ==
    /\ \A n, k \in DOMAIN past.frames :
          n # k => past.frames[n] \intersect past.frames[k] = {}
    /\ \A n \in DOMAIN past.frames :
          /\ past.frames[n] \subseteq DOMAIN aimed
          /\ past.frames[n] \intersect server.pending = {}
    /\ \A c \in Client, m \in Move :
          cursor[c][m] # 0 => m \in DOMAIN aimed

\* Accumulated moves are for the current client, and not made there.
Waiting ==
    /\ server.pending # {} => server.coalesce
    /\ \A m \in server.pending :
          m \in AimedAt(aimed, server.current) /\ cursor[server.current][m] = 0

\* So are those on a stream, each of them there once and nowhere else.
IsInput(c, i) == i \in DOMAIN stream[c] /\ stream[c][i].kind = "input"

Streamed ==
    \A c \in Client, i \in Nat : IsInput(c, i) =>
        /\ stream[c][i].frame \subseteq AimedAt(aimed, c) \ server.pending
        /\ \A m \in stream[c][i].frame : cursor[c][m] = 0
        /\ \A n \in DOMAIN past.frames :
              stream[c][i].frame \intersect past.frames[n] = {}
        /\ \A j \in Nat : IsInput(c, j) /\ i # j =>
              stream[c][i].frame \intersect stream[c][j].frame = {}

IInv == TypeOK /\ Wired /\ Remembering /\ Apart /\ Waiting /\ Streamed

-----------------------------------------------------------------------------
(* Sequences.                                                              *)

\* A new front, and a bounded one, leave a history a sequence of frames.
LEMMA WithFrameType ==
    ASSUME NEW f \in Frame, NEW h \in Seq(Frame)
    PROVE  /\ WithFrame(f, h) \in Seq(Frame)
           /\ Len(WithFrame(f, h)) = Len(h) + 1
           /\ WithFrame(f, h)[1] = f
           /\ \A i \in 1 .. Len(h) : WithFrame(f, h)[i + 1] = h[i]
  BY DEF WithFrame

\* So does the bounded one that is kept for the next datagram.
LEMMA RememberedType ==
    ASSUME NEW f \in Frame, NEW h \in Seq(Frame)
    PROVE  /\ Remembered(f, h) \in Seq(Frame)
           /\ Len(Remembered(f, h)) <= Len(h) + 1
           /\ \A i \in DOMAIN Remembered(f, h) :
                 Remembered(f, h)[i] = WithFrame(f, h)[i]
<1> DEFINE n == IF Len(h) < HistoryLen THEN Len(h) + 1 ELSE HistoryLen
<1>1. n \in Nat /\ n <= Len(h) + 1
  BY MotionAssumption
<1>2. \A i \in 1 .. n : WithFrame(f, h)[i] \in Frame
  <2> DEFINE w == WithFrame(f, h)
  <2>1. w \in Seq(Frame) /\ Len(w) = Len(h) + 1
    BY WithFrameType
  <2> HIDE DEF w
  <2>2. \A i \in 1 .. n : w[i] \in Frame
    BY <1>1, <2>1
  <2> QED BY <2>2 DEF w
<1>3. Remembered(f, h) = [i \in 1 .. n |-> WithFrame(f, h)[i]]
  BY DEF Remembered
<1> HIDE DEF n
<1> QED BY <1>1, <1>2, <1>3

\* Room is kept for as many frames as are repeated.
LEMMA RememberedLength ==
    ASSUME NEW f \in Frame, NEW h \in Seq(Frame)
    PROVE  Len(Remembered(f, h)) =
              IF Len(h) < HistoryLen THEN Len(h) + 1 ELSE HistoryLen
<1> DEFINE n == IF Len(h) < HistoryLen THEN Len(h) + 1 ELSE HistoryLen
<1>1. n \in Nat
  BY MotionAssumption
<1>2. Remembered(f, h) = [i \in 1 .. n |-> WithFrame(f, h)[i]]
  BY DEF Remembered
<1> HIDE DEF n
<1>3. Len(Remembered(f, h)) = n
  BY <1>1, <1>2
<1> QED BY <1>3 DEF n

-----------------------------------------------------------------------------
(* Types.                                                                  *)

\* What a step does to the streams leaves them sequences of messages.
LEMMA SwitchMessages ==
    ASSUME NEW out \in [Client -> Seq(Message)],
           NEW new \in Client \union {None}, NEW old \in Client \union {None}
    PROVE  /\ Announced(out, new, old) \in [Client -> Seq(Message)]
           /\ Released(out, old) \in [Client -> Seq(Message)]
<1>1. Enabled(TRUE) \in Message /\ Enabled(FALSE) \in Message
  BY DEF Enabled, Message
<1>2. \A q \in Seq(Message), m \in Message : Append(q, m) \in Seq(Message)
  OBVIOUS
<1> DEFINE On(c) == Append(out[c], Enabled(TRUE))
           Off(c) == Append(out[c], Enabled(FALSE))
           Both(c) == Append(Off(c), Enabled(TRUE))
<1>3. \A c \in Client : /\ out[c] \in Seq(Message) /\ On(c) \in Seq(Message)
                        /\ Off(c) \in Seq(Message) /\ Both(c) \in Seq(Message)
  BY <1>1, <1>2
<1>4. Announced(out, new, old) =
        [c \in Client |-> IF c = new THEN On(c) ELSE IF c = old THEN Off(c)
                         ELSE out[c]]
  BY DEF Announced
<1>5. Released(out, old) = IF old = None THEN out
                           ELSE [out EXCEPT ![old] = Both(old)]
  BY DEF Released
<1> HIDE DEF On, Off, Both
<1>6. Announced(out, new, old) \in [Client -> Seq(Message)]
  BY <1>3, <1>4
<1>7. Released(out, old) \in [Client -> Seq(Message)]
  BY <1>3, <1>5
<1> QED BY <1>6, <1>7

\* Applying a datagram the client may get.
LEMMA ApplyType ==
    ASSUME NEW c \in [active : BOOLEAN, last : Nat,
                      mask : SUBSET (0 .. Window - 1)],
           NEW d \in DatagramType
    PROVE  LET a == Apply(c, d)
               last == IF d.seq > c.last THEN d.seq ELSE c.last
           IN  /\ a.client \in [active : BOOLEAN, last : Nat,
                                mask : SUBSET (0 .. Window - 1)]
               /\ a.client.last = last
               /\ a.client.mask = Shifted(c, last)
                     \union {last - (d.seq + 1 - i) : i \in a.new}
               /\ a.new = {i \in DOMAIN d.history :
                      /\ i <= d.seq /\ last - (d.seq + 1 - i) < Window
                      /\ last - (d.seq + 1 - i) \notin Shifted(c, last)}
<1> DEFINE last == IF d.seq > c.last THEN d.seq ELSE c.last
           new == {i \in DOMAIN d.history :
                      /\ i <= d.seq /\ last - (d.seq + 1 - i) < Window
                      /\ last - (d.seq + 1 - i) \notin Shifted(c, last)}
           mask == Shifted(c, last) \union {last - (d.seq + 1 - i) : i \in new}
<1>1. d.seq \in Nat /\ d.history \in Seq(Frame) /\ c.last \in Nat /\ Window \in Nat
  BY MotionAssumption DEF DatagramType
<1>2. last \in Nat /\ last >= d.seq
  BY <1>1
<1>3. \A i \in new : last - (d.seq + 1 - i) \in 0 .. Window - 1
  BY <1>1, <1>2
<1>4. mask \in SUBSET (0 .. Window - 1)
  BY <1>3 DEF Shifted
<1>5. Apply(c, d) = [client |-> [c EXCEPT !.last = last, !.mask = mask],
                     new |-> new]
  BY DEF Apply
<1> HIDE DEF last, new, mask
<1>6. Apply(c, d).client \in [active : BOOLEAN, last : Nat,
                                mask : SUBSET (0 .. Window - 1)]
  <2>1. Apply(c, d).client = [c EXCEPT !.last = last, !.mask = mask]
    BY <1>5
  <2> QED BY <1>2, <1>4, <2>1
<1>7. /\ Apply(c, d).client.last = last /\ Apply(c, d).client.mask = mask
      /\ Apply(c, d).new = new
  <2>1. Apply(c, d).client = [c EXCEPT !.last = last, !.mask = mask]
    BY <1>5
  <2>2. Apply(c, d).new = new
    BY <1>5
  <2> QED BY <2>1, <2>2
<1> QED BY <1>6, <1>7 DEF last, new, mask

\* The number of a new move and what it does to "aimed".
LEMMA MovesType ==
    ASSUME TypeOK, Moves
    PROVE  /\ server.current \in Client
           /\ aimed' \in Seq(Client) /\ Len(aimed') = Len(aimed) + 1
           /\ Len(aimed') \in Move /\ Len(aimed') <= MaxMoves
           /\ Len(aimed') \notin DOMAIN aimed
           /\ DOMAIN aimed' = DOMAIN aimed \union {Len(aimed')}
           /\ aimed'[Len(aimed')] = server.current
           /\ \A m \in DOMAIN aimed : m \in Move /\ aimed'[m] = aimed[m]
<1>1. /\ aimed \in Seq(Client) /\ MaxMoves \in Nat /\ Len(aimed) \in Nat
      /\ DOMAIN aimed = 1 .. Len(aimed) /\ Len(aimed) < MaxMoves
  BY MotionAssumption DEF TypeOK, Moves
<1>2. server.current \in Client
  BY DEF TypeOK, Moves
<1>3. aimed' = Append(aimed, server.current)
  BY DEF Moves
<1> HIDE DEF TypeOK, Moves
<1>4. /\ aimed' \in Seq(Client) /\ Len(aimed') = Len(aimed) + 1
      /\ DOMAIN aimed' = 1 .. Len(aimed) + 1
      /\ aimed'[Len(aimed) + 1] = server.current
      /\ \A m \in 1 .. Len(aimed) : aimed'[m] = aimed[m]
  BY <1>1, <1>2, <1>3
<1> QED BY <1>1, <1>2, <1>4 DEF Move

\* The next number fits the frames sent.
LEMMA FramesType ==
    ASSUME TypeOK, NEW frame \in Frame,
           past' = [past EXCEPT !.frames = Append(@, frame)]
    PROVE  /\ past' \in [frames : Seq(Frame), live : Frame, controls : Nat]
           /\ Len(past'.frames) = server.seq + 1
           /\ past'.frames[server.seq + 1] = frame
           /\ \A n \in 1 .. server.seq : past'.frames[n] = past.frames[n]
<1>1. /\ past \in [frames : Seq(Frame), live : Frame, controls : Nat]
      /\ Len(past.frames) = server.seq
  BY DEF TypeOK
<1>2. past'.frames = Append(past.frames, frame)
  BY <1>1
<1>3. past'.frames \in Seq(Frame)
  BY <1>1, <1>2
<1>4. past' \in [frames : Seq(Frame), live : Frame, controls : Nat]
  BY <1>1, <1>3
<1> QED BY <1>1, <1>2, <1>3, <1>4

\* A datagram sent to the current client.
LEMMA SentType ==
    ASSUME TypeOK, NEW frame \in Frame, NEW history \in Seq(Frame),
           SendDatagram(frame, history), server'.seq = server.seq + 1
    PROVE  /\ wire' \in [Client -> SUBSET DatagramType]
           /\ \A c \in Client : \A d \in wire'[c] : d.seq <= server'.seq
           /\ server.current \in Client
<1> DEFINE d == [seq |-> server.seq + 1, history |-> history]
<1>1. server.seq \in Nat /\ server.datagrams \subseteq Client
  BY DEF TypeOK
<1>2. server.current \in Client
  BY <1>1 DEF SendDatagram
<1>3. d \in DatagramType /\ d.seq = server'.seq
  BY <1>1 DEF DatagramType
<1>4. wire' = [wire EXCEPT ![server.current] = @ \union {d}]
  BY DEF SendDatagram
<1> HIDE DEF d
<1>5. wire \in [Client -> SUBSET DatagramType]
  BY DEF TypeOK
<1>6. wire' \in [Client -> SUBSET DatagramType]
  BY <1>2, <1>3, <1>4, <1>5
<1>7. \A c \in Client : \A x \in wire'[c] : x \in wire[c] \/ x = d
  BY <1>2, <1>4, <1>5
<1>8. \A c \in Client : \A x \in wire[c] : x.seq \in Nat /\ x.seq <= server.seq
  BY <1>5 DEF TypeOK, DatagramType
<1>9. \A c \in Client : \A x \in wire'[c] : x.seq <= server'.seq
  BY <1>1, <1>3, <1>7, <1>8
<1> QED BY <1>2, <1>6, <1>9

\* A frame sent on the current client's stream.
LEMMA StreamedType ==
    ASSUME TypeOK, NEW frame \in Frame, server.current \in Client,
           SendOnStream(frame)
    PROVE  stream' \in [Client -> Seq(Message)]
<1>1. Input(frame) \in Message
  BY DEF Input, Message
<1>2. \A q \in Seq(Message), m \in Message : Append(q, m) \in Seq(Message)
  OBVIOUS
<1>3. stream \in [Client -> Seq(Message)]
  BY DEF TypeOK
<1>4. stream' = [stream EXCEPT
                    ![server.current] = Append(@, Input(frame))]
  BY DEF SendOnStream
<1> QED BY <1>1, <1>2, <1>3, <1>4

ServerType == [current : Client \union {None}, paused : BOOLEAN,
               coalesce : BOOLEAN, pending : Frame, history : Seq(Frame),
               seq : Nat, datagrams : SUBSET Client]

\* A move leaves all types intact.
LEMMA MoveTypes ==
    ASSUME TypeOK, MoveCoalesced \/ MoveAtFullRate
    PROVE  TypeOK'
<1>1. Moves
  BY DEF MoveCoalesced, MoveAtFullRate
<1>2. server \in ServerType /\ server.seq \in Nat
  BY DEF TypeOK, ServerType
<1>3. /\ client' = client /\ cursor' = cursor
      /\ aimed' \in Seq(Client) /\ Len(aimed') <= MaxMoves
  BY <1>1, MovesType DEF Moves
<1>4. CASE MoveCoalesced
  <2>1. server' = [server EXCEPT !.pending = @ \union {Len(aimed')}]
    BY <1>4 DEF MoveCoalesced
  <2>2. server' \in ServerType /\ server'.seq = server.seq
        /\ server'.current = server.current /\ server'.paused = server.paused
    BY <1>1, <1>2, <2>1, MovesType DEF ServerType, Frame
  <2>3. past' \in [frames : Seq(Frame), live : Frame, controls : Nat]
        /\ past'.frames = past.frames
    BY <1>1, <1>4, MovesType DEF MoveCoalesced, TypeOK, Frame
  <2> QED
    BY <1>1, <1>3, <1>4, <2>2, <2>3 DEF TypeOK, ServerType, MoveCoalesced, Moves
<1>5. CASE MoveAtFullRate
  <2> DEFINE frame == {Len(aimed')}
  <2>0. frame \in Frame /\ <<frame>> \in Seq(Frame) /\ server.current \in Client
    BY <1>1, MovesType DEF Frame
  <2>1. CASE /\ SendDatagram(frame, <<frame>>)
             /\ server' = [server EXCEPT !.seq = @ + 1]
             /\ past' = [past EXCEPT !.frames = Append(@, frame)]
    <3>1. /\ server' \in ServerType /\ server'.seq = server.seq + 1
          /\ server'.pending = server.pending /\ server'.paused = server.paused
          /\ server'.current = server.current
      BY <1>2, <2>1 DEF ServerType
    <3>2. /\ wire' \in [Client -> SUBSET DatagramType]
          /\ \A c \in Client : \A d \in wire'[c] : d.seq <= server'.seq
      BY <2>0, <2>1, <3>1, SentType
    <3>3. /\ past' \in [frames : Seq(Frame), live : Frame, controls : Nat]
          /\ Len(past'.frames) = server'.seq
      BY <2>0, <2>1, <3>1, FramesType
    <3>4. stream' = stream
      BY <2>1 DEF SendDatagram
    <3>5. \A c \in Client : client[c].last \in Nat /\ client[c].last <= server'.seq
      BY <1>2, <3>1 DEF TypeOK
    <3> QED
      BY <1>3, <3>1, <3>2, <3>3, <3>4, <3>5 DEF TypeOK, ServerType
  <2>2. CASE UNCHANGED <<server, wire, stream, past>>
    BY <1>3, <2>2 DEF TypeOK
  <2>3. CASE /\ SendOnStream(frame)
             /\ server' = [server EXCEPT !.datagrams = @ \ {server.current}]
             /\ UNCHANGED past
    <3>1. /\ server' \in ServerType /\ server'.seq = server.seq
          /\ server'.pending = server.pending /\ server'.paused = server.paused
          /\ server'.current = server.current
      BY <1>2, <2>3 DEF ServerType
    <3>2. stream' \in [Client -> Seq(Message)] /\ wire' = wire
      BY <2>0, <2>3, StreamedType DEF SendOnStream
    <3> QED
      BY <1>3, <2>3, <3>1, <3>2 DEF TypeOK, ServerType
  <2> QED BY <1>5, <2>1, <2>2, <2>3 DEF MoveAtFullRate
<1> QED BY <1>4, <1>5

\* So does a flush.
LEMMA FlushTypes ==
    ASSUME TypeOK, Flush
    PROVE  TypeOK'
<1> DEFINE frame == server.pending
           taken == [server EXCEPT !.pending = {}]
<1>1. server \in ServerType /\ server.seq \in Nat
  BY DEF TypeOK, ServerType
<1>2. /\ frame \in Frame /\ server.current \in Client
      /\ server.history \in Seq(Frame)
  BY <1>1 DEF Flush, TypeOK, ServerType
<1>3. client' = client /\ aimed' = aimed /\ cursor' = cursor
  BY DEF Flush
<1>4. CASE /\ SendDatagram(frame, WithFrame(frame, server.history))
           /\ server' = [taken EXCEPT
                 !.seq = @ + 1, !.history = Remembered(frame, @)]
           /\ past' = [past EXCEPT !.frames = Append(@, frame)]
  <2>1. Remembered(frame, server.history) \in Seq(Frame)
    BY <1>2, RememberedType
  <2>2. /\ server' \in ServerType /\ server'.seq = server.seq + 1
        /\ server'.pending = {}
    <3> DEFINE kept == Remembered(frame, server.history)
    <3>1. server' = [server EXCEPT !.pending = {}, !.seq = @ + 1,
                                   !.history = kept]
      BY <1>1, <1>4 DEF ServerType
    <3>2. {} \in Frame /\ kept \in Seq(Frame)
      BY <2>1 DEF Frame
    <3> HIDE DEF kept
    <3>3. server' \in ServerType
      <4>1. server.seq + 1 \in Nat
        BY <1>1
      <4> DEFINE num == server.seq + 1
      <4>2. server' = [current |-> server.current, paused |-> server.paused,
                       coalesce |-> server.coalesce, pending |-> {},
                       history |-> kept, seq |-> num,
                       datagrams |-> server.datagrams]
        BY <1>1, <3>1 DEF ServerType
      <4>3. num \in Nat
        BY <4>1
      <4> HIDE DEF num
      <4> QED BY <1>1, <3>2, <4>2, <4>3 DEF ServerType
    <3>4. server'.seq = server.seq + 1 /\ server'.pending = {}
      BY <1>1, <3>1 DEF ServerType
    <3> QED BY <3>3, <3>4
  <2>3. /\ wire' \in [Client -> SUBSET DatagramType]
        /\ \A c \in Client : \A d \in wire'[c] : d.seq <= server'.seq
    BY <1>2, <1>4, <2>2, SentType, WithFrameType
  <2>4. /\ past' \in [frames : Seq(Frame), live : Frame, controls : Nat]
        /\ Len(past'.frames) = server'.seq
    BY <1>2, <1>4, <2>2, FramesType
  <2>5. \A c \in Client : client[c].last \in Nat /\ client[c].last <= server'.seq
    BY <1>1, <2>2 DEF TypeOK
  <2>6. stream' = stream
    BY <1>4 DEF SendDatagram
  <2> QED BY <1>3, <2>2, <2>3, <2>4, <2>5, <2>6 DEF TypeOK, ServerType
<1>5. CASE server' = Retried(taken, frame) /\ UNCHANGED <<wire, stream, past>>
  <2>1. server' = server
    BY <1>1, <1>5 DEF Retried, ServerType
  <2> QED BY <1>3, <1>5, <2>1 DEF TypeOK
<1>6. CASE /\ SendOnStream(frame)
           /\ server' = [taken EXCEPT !.datagrams = @ \ {server.current}]
           /\ UNCHANGED past
  <2>1. /\ server' \in ServerType /\ server'.seq = server.seq
        /\ server'.pending = {}
    BY <1>1, <1>6 DEF ServerType, Frame
  <2>2. stream' \in [Client -> Seq(Message)] /\ wire' = wire
    BY <1>2, <1>6, StreamedType DEF SendOnStream
  <2> QED BY <1>3, <1>6, <2>1, <2>2 DEF TypeOK, ServerType
<1>7. CASE /\ server' = taken
           /\ past' = [past EXCEPT !.live = @ \ frame]
           /\ UNCHANGED <<wire, stream>>
  <2>1. /\ server' \in ServerType /\ server'.seq = server.seq
        /\ server'.pending = {}
    BY <1>1, <1>7 DEF ServerType, Frame
  <2>2. /\ past' \in [frames : Seq(Frame), live : Frame, controls : Nat]
        /\ past'.frames = past.frames
    BY <1>7 DEF TypeOK, Frame
  <2> QED BY <1>3, <1>7, <2>1, <2>2 DEF TypeOK, ServerType
<1> QED BY <1>4, <1>5, <1>6, <1>7 DEF Flush

\* Forgetting the motion so far leaves a well-typed server.
LEMMA ForgetType ==
    ASSUME TypeOK
    PROVE  /\ Forget(server) \in ServerType
           /\ Forget(server).pending = {} /\ Forget(server).history = <<>>
           /\ Forget(server).seq = server.seq
           /\ Forget(server).current = server.current
           /\ Forget(server).coalesce = server.coalesce
<1>1. server \in ServerType /\ {} \in Frame /\ <<>> \in Seq(Frame)
  BY DEF TypeOK, ServerType, Frame
<1>2. Forget(server) = [server EXCEPT !.pending = {}, !.history = <<>>]
  BY DEF Forget
<1> QED BY <1>1, <1>2 DEF ServerType

\* What the bounded steps do to the history.
LEMMA ControlType ==
    ASSUME TypeOK, NEW live \in Frame, Control(live)
    PROVE  /\ past' \in [frames : Seq(Frame), live : Frame, controls : Nat]
           /\ past'.frames = past.frames
           /\ aimed' = aimed /\ cursor' = cursor
<1>1. past \in [frames : Seq(Frame), live : Frame, controls : Nat]
  BY DEF TypeOK
<1>2. past' = [past EXCEPT !.live = live, !.controls = @ + 1]
  BY DEF Control
<1>3. aimed' = aimed /\ cursor' = cursor
  BY DEF Control
<1>4. past'.frames = past.frames
  BY <1>1, <1>2
<1>5. past' = [frames |-> past.frames, live |-> live,
               controls |-> past.controls + 1]
  BY <1>1, <1>2
<1>6. past' \in [frames : Seq(Frame), live : Frame, controls : Nat]
  <2>1. past.frames \in Seq(Frame) /\ past.controls + 1 \in Nat
    BY <1>1
  <2> QED BY <1>5, <2>1
<1> QED BY <1>3, <1>4, <1>6

\* Switches, pauses and lost connections keep the types.
LEMMA ControlTypes ==
    ASSUME TypeOK,
           \/ \E new \in Client \union {None} : SwitchTo(new)
           \/ ReleaseKeys \/ Pause \/ Resume
           \/ \E c \in Client, inPlace \in BOOLEAN : Reconnect(c, inPlace)
    PROVE  TypeOK'
<1>1. /\ server \in ServerType /\ server.current \in Client \union {None}
      /\ stream \in [Client -> Seq(Message)]
  BY DEF TypeOK, ServerType
<1>2. {} \in Frame /\ past.live \in Frame
  BY DEF TypeOK, Frame
<1>3. ASSUME NEW new \in Client \union {None}, SwitchTo(new)
      PROVE  TypeOK'
  <2>1. /\ past' \in [frames : Seq(Frame), live : Frame, controls : Nat]
        /\ past'.frames = past.frames /\ aimed' = aimed /\ cursor' = cursor
    BY <1>2, <1>3, ControlType DEF SwitchTo
  <2>2. stream' \in [Client -> Seq(Message)]
    BY <1>1, <1>3, SwitchMessages DEF SwitchTo
  <2>3. server' = [Forget(server) EXCEPT !.current = new]
    BY <1>3 DEF SwitchTo
  <2>4. server' \in ServerType /\ server'.seq = server.seq /\ server'.pending = {}
    BY <2>3, ForgetType DEF ServerType
  <2>5. client' = client /\ wire' = wire
    BY <1>3 DEF SwitchTo
  <2> QED BY <2>1, <2>2, <2>4, <2>5 DEF TypeOK, ServerType
<1>4. CASE ReleaseKeys
  <2>1. /\ past' \in [frames : Seq(Frame), live : Frame, controls : Nat]
        /\ past'.frames = past.frames /\ aimed' = aimed /\ cursor' = cursor
    BY <1>2, <1>4, ControlType DEF ReleaseKeys
  <2>2. stream' \in [Client -> Seq(Message)]
    BY <1>1, <1>4, SwitchMessages DEF ReleaseKeys
  <2>3. client' = client /\ wire' = wire /\ server' = server
    BY <1>4 DEF ReleaseKeys
  <2> QED BY <2>1, <2>2, <2>3 DEF TypeOK
<1>5. CASE Pause
  <2>1. /\ past' \in [frames : Seq(Frame), live : Frame, controls : Nat]
        /\ past'.frames = past.frames /\ aimed' = aimed /\ cursor' = cursor
    BY <1>2, <1>5, ControlType DEF Pause
  <2>2. stream' \in [Client -> Seq(Message)]
    BY <1>1, <1>5, SwitchMessages DEF Pause
  <2>3. server' = [Forget(server) EXCEPT !.paused = TRUE]
    BY <1>5 DEF Pause
  <2>4. server' \in ServerType /\ server'.seq = server.seq /\ server'.pending = {}
    BY <2>3, ForgetType DEF ServerType
  <2>5. client' = client /\ wire' = wire
    BY <1>5 DEF Pause
  <2> QED BY <2>1, <2>2, <2>4, <2>5 DEF TypeOK, ServerType
<1>6. CASE Resume
  <2>1. /\ server' \in ServerType /\ server'.seq = server.seq
        /\ server'.pending = server.pending /\ server'.current = server.current
        /\ ~server'.paused
    BY <1>1, <1>6 DEF Resume, ServerType
  <2>2. UNCHANGED <<client, wire, stream, aimed, cursor, past>>
    BY <1>6 DEF Resume
  <2> QED BY <2>1, <2>2 DEF TypeOK, ServerType
<1>7. ASSUME NEW c \in Client, NEW inPlace \in BOOLEAN, Reconnect(c, inPlace)
      PROVE  TypeOK'
  <2>1. /\ past' \in [frames : Seq(Frame), live : Frame, controls : Nat]
        /\ past'.frames = past.frames /\ aimed' = aimed /\ cursor' = cursor
    BY <1>2, <1>7, ControlType DEF Reconnect
  <2> DEFINE home == c = server.current /\ ~inPlace
             s == IF home
                  THEN [Forget(server) EXCEPT !.current = None] ELSE server
  <2>2. /\ s \in ServerType /\ s.seq = server.seq
        /\ s.pending # {} => s.current # None /\ ~s.paused
    BY <1>1, ForgetType DEF ServerType, TypeOK
  <2>3. server' = [s EXCEPT !.datagrams = @ \union {c}]
    BY <1>7 DEF Reconnect
  <2> HIDE DEF s
  <2>4. /\ server' \in ServerType /\ server'.seq = server.seq
        /\ server'.pending # {} => server'.current # None /\ ~server'.paused
    BY <2>2, <2>3 DEF ServerType
  <2>5. Fresh \in [active : BOOLEAN, last : Nat, mask : SUBSET (0 .. Window - 1)]
        /\ Fresh.last = 0
    BY DEF Fresh
  <2>6. client' \in [Client -> [active : BOOLEAN, last : Nat,
                               mask : SUBSET (0 .. Window - 1)]]
        /\ \A k \in Client : client'[k].last <= server.seq
    BY <1>1, <1>7, <2>5 DEF Reconnect, TypeOK, ServerType
  <2>7. stream' \in [Client -> Seq(Message)]
    BY <1>1, <1>7 DEF Reconnect
  <2>8. wire' \in [Client -> SUBSET DatagramType]
        /\ \A k \in Client : wire'[k] \subseteq wire[k]
    BY <1>7 DEF Reconnect, TypeOK
  <2> QED BY <2>1, <2>4, <2>6, <2>7, <2>8 DEF TypeOK, ServerType
<1> QED BY <1>3, <1>4, <1>5, <1>6, <1>7

ClientType == [active : BOOLEAN, last : Nat, mask : SUBSET (0 .. Window - 1)]

\* The head of a stream is a message, and the rest is a stream.
LEMMA HeadType ==
    ASSUME TypeOK, NEW c \in Client, stream[c] # <<>>
    PROVE  /\ Head(stream[c]) \in Message
           /\ Tail(stream[c]) \in Seq(Message)
           /\ Head(stream[c]) = stream[c][1] /\ Len(stream[c]) >= 1
           /\ Len(Tail(stream[c])) = Len(stream[c]) - 1
           /\ \A i \in 1 .. Len(stream[c]) - 1 : Tail(stream[c])[i] = stream[c][i + 1]
<1>1. stream[c] \in Seq(Message)
  BY DEF TypeOK
<1> QED BY <1>1

\* The messages and what is in them.
LEMMA MessageType ==
    ASSUME NEW msg \in Message
    PROVE  /\ msg.kind = "switch" => msg.enabled \in BOOLEAN
           /\ msg.kind = "input" => msg.frame \in Frame
           /\ msg.kind \in {"switch", "input"}
  BY DEF Message

\* How often a move is in the entries applied is a number.
LEMMA CountType ==
    ASSUME NEW h \in Seq(Frame), NEW new \in SUBSET (DOMAIN h), NEW m
    PROVE  /\ IsFiniteSet({i \in new : m \in h[i]})
           /\ Cardinality({i \in new : m \in h[i]}) \in Nat
<1>1. IsFiniteSet(1 .. Len(h))
  BY FS_Interval
<1>2. {i \in new : m \in h[i]} \subseteq 1 .. Len(h)
  OBVIOUS
<1>3. IsFiniteSet({i \in new : m \in h[i]})
  BY <1>1, <1>2, FS_Subset
<1> QED BY <1>3, FS_CardinalityType

\* What the clients do keeps the types.
LEMMA ClientTypes ==
    ASSUME TypeOK, NEW c \in Client,
           \/ ClientReceives(c)
           \/ \E d \in wire[c] : DatagramArrives(c, d) \/ DatagramLost(c, d)
    PROVE  TypeOK'
<1>1. /\ client \in [Client -> ClientType]
      /\ \A k \in Client : client[k].last <= server.seq
      /\ wire \in [Client -> SUBSET DatagramType]
      /\ \A k \in Client : \A d \in wire[k] : d.seq <= server.seq
      /\ stream \in [Client -> Seq(Message)]
      /\ cursor \in [Client -> [Move -> Nat]] /\ server.seq \in Nat
  BY DEF TypeOK, ClientType
<1>2. CASE ClientReceives(c)
  <2> DEFINE msg == Head(stream[c])
             rest == Tail(stream[c])
  <2>1. msg \in Message /\ rest \in Seq(Message)
    BY <1>2, HeadType DEF ClientReceives
  <2>2. stream' = [stream EXCEPT ![c] = rest]
    BY <1>2 DEF ClientReceives
  <2>3. UNCHANGED <<server, wire, aimed, past>>
    BY <1>2 DEF ClientReceives
  <2>4. \/ /\ msg.kind = "switch"
           /\ client' = [client EXCEPT ![c].active = msg.enabled]
           /\ UNCHANGED cursor
        \/ /\ msg.kind = "input"
           /\ cursor' = [cursor EXCEPT ![c] =
                 [m \in Move |-> @[m] + IF m \in msg.frame THEN 1 ELSE 0]]
           /\ UNCHANGED client
    BY <1>2 DEF ClientReceives
  <2> HIDE DEF msg, rest
  <2>5. stream' \in [Client -> Seq(Message)]
    BY <1>1, <2>1, <2>2
  <2>6. /\ client' \in [Client -> ClientType]
        /\ \A k \in Client : client'[k].last = client[k].last
    <3>1. CASE UNCHANGED client
      BY <1>1, <3>1
    <3>2. CASE /\ msg.kind = "switch"
               /\ client' = [client EXCEPT ![c].active = msg.enabled]
      <4>1. msg.enabled \in BOOLEAN /\ client[c] \in ClientType
        BY <1>1, <2>1, <3>2, MessageType
      <4> DEFINE k0 == [client[c] EXCEPT !.active = msg.enabled]
      <4>2. k0 \in ClientType /\ k0.last = client[c].last
        BY <4>1 DEF ClientType
      <4>3. client' = [client EXCEPT ![c] = k0]
        BY <1>1, <3>2
      <4> HIDE DEF k0
      <4> QED BY <1>1, <4>2, <4>3
    <3> QED BY <2>4, <3>1, <3>2
  <2>7. cursor' \in [Client -> [Move -> Nat]]
    <3>1. CASE UNCHANGED cursor
      BY <1>1, <3>1
    <3>2. CASE cursor' = [cursor EXCEPT ![c] =
                 [m \in Move |-> @[m] + IF m \in msg.frame THEN 1 ELSE 0]]
      <4> DEFINE row == [m \in Move |->
                            cursor[c][m] + IF m \in msg.frame THEN 1 ELSE 0]
      <4>1. \A m \in Move : cursor[c][m] \in Nat
        BY <1>1
      <4>2. row \in [Move -> Nat]
        BY <4>1
      <4>3. cursor' = [cursor EXCEPT ![c] = row]
        BY <3>2
      <4> HIDE DEF row
      <4> QED BY <1>1, <4>2, <4>3
    <3> QED BY <2>4, <3>1, <3>2
  <2>8. \A k \in Client : client'[k].last <= server.seq
    BY <1>1, <2>6
  <2> QED BY <2>3, <2>5, <2>6, <2>7, <2>8 DEF TypeOK, ClientType
<1>3. ASSUME NEW d \in wire[c], DatagramArrives(c, d)
      PROVE  TypeOK'
  <2>1. d \in DatagramType /\ d.seq <= server.seq
    BY <1>1
  <2>2. wire' \in [Client -> SUBSET DatagramType]
        /\ \A k \in Client : wire'[k] \subseteq wire[k]
    BY <1>1, <1>3 DEF DatagramArrives
  <2>3. UNCHANGED <<server, stream, aimed, past>>
    BY <1>3 DEF DatagramArrives
  <2>4. CASE ~client[c].active
    <3>1. UNCHANGED <<client, cursor>>
      BY <1>3, <2>4 DEF DatagramArrives
    <3> QED BY <2>2, <2>3, <3>1 DEF TypeOK
  <2>5. CASE client[c].active
    <3> DEFINE a == Apply(client[c], d)
               Count(m) == Cardinality({i \in a.new : m \in d.history[i]})
    <3>1. /\ client' = [client EXCEPT ![c] = a.client]
          /\ cursor' = [cursor EXCEPT ![c] = [m \in Move |-> @[m] + Count(m)]]
      BY <1>3, <2>5 DEF DatagramArrives
    <3>2. client[c] \in ClientType /\ client[c].last <= server.seq
      BY <1>1
    <3>3. /\ a.client \in ClientType
          /\ a.client.last = IF d.seq > client[c].last THEN d.seq ELSE client[c].last
          /\ a.new \subseteq DOMAIN d.history
      BY <2>1, <3>2, ApplyType DEF ClientType
    <3>4. \A m \in Move : Count(m) \in Nat
      BY <2>1, <3>3, CountType DEF DatagramType
    <3>5. a.client.last <= server.seq
      BY <2>1, <3>2, <3>3 DEF DatagramType
    <3> HIDE DEF a, Count
    <3>6. /\ client' \in [Client -> ClientType]
          /\ \A k \in Client : client'[k].last <= server.seq
      BY <1>1, <3>1, <3>3, <3>5
    <3>7. cursor' \in [Client -> [Move -> Nat]]
      BY <1>1, <3>1, <3>4
    <3> QED BY <2>2, <2>3, <3>6, <3>7 DEF TypeOK, ClientType
  <2> QED BY <2>4, <2>5
<1>4. ASSUME NEW d \in wire[c], DatagramLost(c, d)
      PROVE  TypeOK'
  <2>1. wire' \in [Client -> SUBSET DatagramType]
        /\ \A k \in Client : wire'[k] \subseteq wire[k]
    BY <1>1, <1>4 DEF DatagramLost
  <2>2. UNCHANGED <<server, client, stream, aimed, cursor, past>>
    BY <1>4 DEF DatagramLost
  <2> QED BY <2>1, <2>2 DEF TypeOK
<1> QED BY <1>2, <1>3, <1>4

\* The initial states are well-typed.
LEMMA InitTypes ==
    ASSUME Init
    PROVE  TypeOK
<1>1. {} \in Frame /\ <<>> \in Seq(Frame) /\ <<>> \in Seq(Message)
      /\ <<>> \in Seq(Client) /\ 0 \in Nat /\ None \in Client \union {None}
  BY DEF Frame
<1>2. server \in ServerType /\ server.pending = {} /\ server.seq = 0
  BY <1>1 DEF Init, ServerType
<1>3. Fresh \in ClientType /\ Fresh.last = 0
  BY DEF Fresh, ClientType
<1>4. client \in [Client -> ClientType]
      /\ \A c \in Client : client[c].last = 0
  BY <1>3 DEF Init
<1>5. wire \in [Client -> SUBSET DatagramType]
      /\ stream \in [Client -> Seq(Message)]
      /\ \A c \in Client : wire[c] = {}
  BY <1>1 DEF Init
<1>6. aimed \in Seq(Client) /\ Len(aimed) <= MaxMoves
  BY <1>1, MotionAssumption DEF Init
<1>7. cursor \in [Client -> [Move -> Nat]]
  BY DEF Init
<1>8. past \in [frames : Seq(Frame), live : Frame, controls : Nat]
      /\ Len(past.frames) = 0
  BY <1>1 DEF Init
<1> QED BY <1>2, <1>4, <1>5, <1>6, <1>7, <1>8 DEF TypeOK, ServerType, ClientType

\* All variables keep their types: in particular no mask of applied frames
\* outgrows its window, no datagram or client is ahead of the rotation's frame
\* number, and motion is only accumulated for a client that has the input.
THEOREM TypeCorrect == Spec => []TypeOK
<1>1. Init => TypeOK
  BY InitTypes
<1>2. TypeOK /\ [Next]_vars => TypeOK'
  <2> SUFFICES ASSUME TypeOK, [Next]_vars PROVE TypeOK'
    OBVIOUS
  <2>1. CASE UNCHANGED vars
    BY <2>1 DEF TypeOK, vars
  <2>2. CASE Next
    BY <2>2, MoveTypes, FlushTypes, ControlTypes, ClientTypes DEF Next
  <2> QED BY <2>1, <2>2
<1> QED BY <1>1, <1>2, PTL DEF Spec

-----------------------------------------------------------------------------
(* What a step keeps of the invariant.                                     *)

\* Carries after a step, for a datagram that may be older than the step.
CarriesNext(d, c) ==
    /\ Len(d.history) <= d.seq /\ d.seq <= server'.seq
    /\ \A i \in DOMAIN d.history :
          LET n == d.seq + 1 - i
          IN  /\ d.history[i] = past'.frames[n]
              /\ past'.frames[n] \subseteq AimedAt(aimed', c)
              /\ \A m \in past'.frames[n] : cursor'[c][m] # 0 => Applied(client'[c], n)

\* Wired and Remembering after a step, in those terms.
LEMMA CarriesAfter ==
    /\ Wired' <=> \A c \in Client : \A d \in wire'[c] : CarriesNext(d, c)
    /\ Remembering' <=>
          /\ server'.current # None => CarriesNext(Memory', server'.current)
          /\ server'.current = None \/ ~server'.coalesce => server'.history = <<>>
<1>1. Wired' <=> \A c \in Client : \A d \in wire'[c] : CarriesNext(d, c)
  BY DEF Wired, Carries, CarriesNext
<1>2. Carries(Memory, server.current)' <=> CarriesNext(Memory', server'.current)
  BY DEF Carries, CarriesNext, Memory
<1> QED BY <1>1, <1>2 DEF Remembering

\* A datagram stays right as long as nothing happens to its client, whatever
\* is sent after it.
LEMMA Kept ==
    ASSUME NEW c \in Client, NEW d \in DatagramType, Carries(d, c),
           server.seq \in Nat, server'.seq \in Nat, server.seq <= server'.seq,
           \A n \in 1 .. server.seq : past'.frames[n] = past.frames[n],
           AimedAt(aimed, c) \subseteq AimedAt(aimed', c),
           client'[c].last = client[c].last, client'[c].mask = client[c].mask,
           \A n \in 1 .. server.seq : \A m \in past.frames[n] :
              cursor'[c][m] = cursor[c][m]
    PROVE  CarriesNext(d, c)
<1>1. d.seq \in Nat /\ d.history \in Seq(Frame) /\ DOMAIN d.history = 1 .. Len(d.history)
      /\ Len(d.history) \in Nat
  BY DEF DatagramType
<1>2. Len(d.history) <= d.seq /\ d.seq <= server'.seq
  BY <1>1 DEF Carries
<1>3. ASSUME NEW i \in DOMAIN d.history
      PROVE  LET n == d.seq + 1 - i
             IN  /\ d.history[i] = past'.frames[n]
                 /\ past'.frames[n] \subseteq AimedAt(aimed', c)
                 /\ \A m \in past'.frames[n] :
                        cursor'[c][m] # 0 => Applied(client'[c], n)
  <2> DEFINE n == d.seq + 1 - i
  <2>1. n \in 1 .. server.seq
    BY <1>1, <1>2 DEF Carries
  <2>2. /\ d.history[i] = past.frames[n] /\ past.frames[n] \subseteq AimedAt(aimed, c)
        /\ \A m \in past.frames[n] : cursor[c][m] # 0 => Applied(client[c], n)
    BY DEF Carries
  <2> HIDE DEF n
  <2>3. Applied(client[c], n) => Applied(client'[c], n)
    BY DEF Applied
  <2>4. /\ past'.frames[n] = past.frames[n]
        /\ \A m \in past.frames[n] : cursor'[c][m] = cursor[c][m]
    BY <2>1
  <2>5. \A m \in past'.frames[n] : cursor'[c][m] # 0 => Applied(client'[c], n)
    BY <2>2, <2>3, <2>4
  <2>6. /\ d.history[i] = past'.frames[n]
        /\ past'.frames[n] \subseteq AimedAt(aimed', c)
    BY <2>2, <2>4
  <2> QED BY <2>5, <2>6 DEF n
<1> QED BY <1>2, <1>3 DEF CarriesNext

\* What IInv says of the types, in handy form.
LEMMA Typed ==
    ASSUME TypeOK
    PROVE  /\ server \in ServerType /\ server.seq \in Nat
           /\ server.history \in Seq(Frame) /\ server.pending \in Frame
           /\ server.current \in Client \union {None}
           /\ Memory \in DatagramType
           /\ past.frames \in Seq(Frame)
           /\ DOMAIN past.frames = 1 .. server.seq
           /\ \A n \in 1 .. server.seq : past.frames[n] \subseteq Move
           /\ DOMAIN aimed = 1 .. Len(aimed) /\ DOMAIN aimed \subseteq Move
           /\ client \in [Client -> ClientType]
           /\ cursor \in [Client -> [Move -> Nat]]
           /\ wire \in [Client -> SUBSET DatagramType]
           /\ stream \in [Client -> Seq(Message)]
<1>1. /\ server \in ServerType /\ server.seq \in Nat
      /\ server.history \in Seq(Frame) /\ server.pending \in Frame
      /\ server.current \in Client \union {None}
  BY DEF TypeOK, ServerType
<1>2. Memory \in DatagramType
  BY <1>1 DEF Memory, DatagramType
<1>3. /\ past.frames \in Seq(Frame) /\ DOMAIN past.frames = 1 .. server.seq
  BY DEF TypeOK
<1>4. \A n \in 1 .. server.seq : past.frames[n] \subseteq Move
  <2>1. \A q \in Seq(Frame) : \A n \in 1 .. Len(q) : q[n] \in Frame
    OBVIOUS
  <2>2. Len(past.frames) = server.seq
    BY DEF TypeOK
  <2>3. \A n \in 1 .. server.seq : past.frames[n] \in Frame
    BY <1>3, <2>1, <2>2
  <2> QED BY <2>3 DEF Frame
<1>5. DOMAIN aimed = 1 .. Len(aimed) /\ DOMAIN aimed \subseteq Move
  <2>1. aimed \in Seq(Client) /\ Len(aimed) <= MaxMoves /\ MaxMoves \in Nat
    BY MotionAssumption DEF TypeOK
  <2> QED BY <2>1 DEF Move
<1>6. /\ client \in [Client -> ClientType]
      /\ cursor \in [Client -> [Move -> Nat]]
      /\ wire \in [Client -> SUBSET DatagramType]
      /\ stream \in [Client -> Seq(Message)]
  BY DEF TypeOK, ClientType
<1> QED BY <1>1, <1>2, <1>3, <1>4, <1>5, <1>6

-----------------------------------------------------------------------------
(* Moves.                                                                  *)

\* A move adds itself to those made for the current client.
LEMMA AimedGrows ==
    ASSUME TypeOK, Moves
    PROVE  /\ \A c \in Client : AimedAt(aimed, c) \subseteq AimedAt(aimed', c)
           /\ DOMAIN aimed \subseteq DOMAIN aimed'
           /\ Len(aimed') \in AimedAt(aimed', server.current)
           /\ Len(aimed') \in DOMAIN aimed' /\ Len(aimed') \notin DOMAIN aimed
           /\ Len(aimed') \in Move /\ server.current \in Client
  BY MovesType DEF AimedAt

\* Nothing has been done with a move not made yet.
LEMMA NotMade ==
    ASSUME IInv, NEW m \in Move, m \notin DOMAIN aimed
    PROVE  /\ \A c \in Client : m \notin AimedAt(aimed, c) /\ cursor[c][m] = 0
           /\ \A n \in DOMAIN past.frames : m \notin past.frames[n]
           /\ m \notin server.pending
           /\ \A c \in Client, i \in Nat :
                 IsInput(c, i) => m \notin stream[c][i].frame
<1>1. \A c \in Client : m \notin AimedAt(aimed, c) /\ cursor[c][m] = 0
  BY DEF IInv, Apart, AimedAt
<1>2. \A n \in DOMAIN past.frames : m \notin past.frames[n]
  BY DEF IInv, Apart
<1>3. m \notin server.pending
  BY DEF IInv, Waiting, AimedAt
<1>4. \A c \in Client, i \in Nat : IsInput(c, i) => m \notin stream[c][i].frame
  BY <1>1 DEF IInv, Streamed
<1> QED BY <1>1, <1>2, <1>3, <1>4

\* An accumulated move keeps the invariant.
LEMMA MoveCoalescedKeeps ==
    ASSUME IInv, MoveCoalesced
    PROVE  IInv'
<1> DEFINE mv == Len(aimed')
<1>0. TypeOK /\ Wired /\ Remembering /\ Apart /\ Waiting /\ Streamed
  BY DEF IInv
<1>1. TypeOK'
  BY <1>0, MoveTypes
<1>2. Moves
  BY DEF MoveCoalesced
<1>3. /\ client' = client /\ cursor' = cursor /\ wire' = wire
      /\ stream' = stream /\ past'.frames = past.frames
      /\ server' = [server EXCEPT !.pending = @ \union {mv}]
  BY <1>0, <1>2, Typed DEF MoveCoalesced, Moves, TypeOK
<1>4. /\ server'.seq = server.seq /\ server'.history = server.history
      /\ server'.current = server.current /\ server'.coalesce = server.coalesce
      /\ server'.pending = server.pending \union {mv}
  BY <1>0, <1>3, Typed DEF ServerType
<1>5. /\ \A c \in Client : AimedAt(aimed, c) \subseteq AimedAt(aimed', c)
      /\ DOMAIN aimed \subseteq DOMAIN aimed'
      /\ mv \in AimedAt(aimed', server.current) /\ mv \notin DOMAIN aimed
      /\ mv \in Move /\ server.current \in Client
  BY <1>0, <1>2, AimedGrows
<1>6. /\ \A c \in Client : cursor[c][mv] = 0
      /\ \A n \in DOMAIN past.frames : mv \notin past.frames[n]
      /\ \A c \in Client, i \in Nat :
            IsInput(c, i) => mv \notin stream[c][i].frame
  BY <1>5, NotMade
<1> HIDE DEF mv
<1>7. ASSUME NEW c \in Client, NEW d \in DatagramType, Carries(d, c)
      PROVE  CarriesNext(d, c)
  <2>1. /\ server.seq \in Nat /\ server'.seq \in Nat /\ server.seq <= server'.seq
        /\ \A n \in 1 .. server.seq : past.frames[n] \subseteq Move
    BY <1>0, <1>4, Typed
  <2> QED BY <1>3, <1>5, <1>7, <2>1, Kept
<1>8. Wired'
  BY <1>0, <1>3, <1>7, Typed, CarriesAfter DEF Wired
<1>9. Remembering'
  BY <1>0, <1>4, <1>5, <1>7, Typed, CarriesAfter DEF Remembering, Memory
<1>10. Apart'
  BY <1>0, <1>3, <1>4, <1>5, <1>6 DEF Apart
<1>11. Waiting'
  <2>1. server.coalesce
    BY DEF MoveCoalesced
  <2> QED BY <1>0, <1>3, <1>4, <1>5, <1>6, <2>1 DEF Waiting
<1>12. Streamed'
  <2> SUFFICES ASSUME NEW c \in Client, NEW i \in Nat, IsInput(c, i)'
               PROVE  /\ stream[c][i].frame
                            \subseteq AimedAt(aimed', c) \ server'.pending
                      /\ \A m \in stream[c][i].frame : cursor[c][m] = 0
                      /\ \A n \in DOMAIN past.frames :
                            stream[c][i].frame \intersect past.frames[n] = {}
                      /\ \A j \in Nat : IsInput(c, j)' /\ i # j =>
                            stream[c][i].frame \intersect stream[c][j].frame = {}
    BY <1>3 DEF Streamed
  <2>1. \A j \in Nat : IsInput(c, j)' => IsInput(c, j)
    BY <1>3 DEF IsInput
  <2> QED BY <1>0, <1>4, <1>5, <1>6, <2>1 DEF Streamed
<1> QED BY <1>1, <1>8, <1>9, <1>10, <1>11, <1>12 DEF IInv

-----------------------------------------------------------------------------
(* Frames sent.                                                            *)

\* A new datagram carries the new frame and what the rotation remembers.
LEMMA NewDatagram ==
    ASSUME TypeOK, Remembering, server.current \in Client,
           NEW frame \in Frame, NEW history \in Seq(Frame),
           Len(history) <= Len(server.history) + 1,
           \A i \in DOMAIN history :
              history[i] = IF i = 1 THEN frame ELSE server.history[i - 1],
           past' = [past EXCEPT !.frames = Append(@, frame)],
           server'.seq = server.seq + 1,
           client' = client, cursor' = cursor,
           frame \subseteq AimedAt(aimed', server.current),
           \A m \in frame : cursor[server.current][m] = 0,
           AimedAt(aimed, server.current) \subseteq AimedAt(aimed', server.current)
    PROVE  CarriesNext([seq |-> server.seq + 1, history |-> history],
                       server.current)
<1> DEFINE d == [seq |-> server.seq + 1, history |-> history]
           c == server.current
<1>1. /\ server.seq \in Nat /\ server.history \in Seq(Frame)
      /\ Carries(Memory, c) /\ Len(server.history) \in Nat
      /\ \A n \in 1 .. server.seq : past.frames[n] \subseteq Move
      /\ DOMAIN server.history = 1 .. Len(server.history)
  <2>1. c # None
    BY MotionAssumption
  <2> QED BY <2>1, Typed DEF Remembering
<1>2. /\ past'.frames[server.seq + 1] = frame
      /\ \A n \in 1 .. server.seq : past'.frames[n] = past.frames[n]
  BY FramesType
<1>3. Len(server.history) <= server.seq
  BY <1>1 DEF Carries, Memory
<1>4. /\ d.history = history /\ d.seq = server.seq + 1 /\ Len(history) \in Nat
      /\ DOMAIN history = 1 .. Len(history)
  OBVIOUS
<1>5. Len(d.history) <= d.seq /\ d.seq <= server'.seq
  BY <1>1, <1>3, <1>4
<1>6. ASSUME NEW i \in DOMAIN history
      PROVE  LET n == d.seq + 1 - i
             IN  /\ history[i] = past'.frames[n]
                 /\ past'.frames[n] \subseteq AimedAt(aimed', c)
                 /\ \A m \in past'.frames[n] :
                        cursor'[c][m] # 0 => Applied(client'[c], n)
  <2> DEFINE n == d.seq + 1 - i
  <2>1. CASE i = 1
    <3>1. n = server.seq + 1 /\ history[i] = frame
      BY <1>1, <1>4, <2>1
    <3> HIDE DEF n
    <3>2. past'.frames[n] = frame
      BY <1>2, <3>1
    <3> QED BY <3>1, <3>2 DEF n
  <2>2. CASE i # 1
    <3>1. i \in 1 .. Len(history) /\ i - 1 \in 1 .. Len(server.history)
      BY <1>1, <1>4, <2>2
    <3>2. history[i] = server.history[i - 1]
      BY <2>2
    <3>3. n \in 1 .. server.seq /\ n = server.seq + 1 - (i - 1)
      <4>1. /\ server.seq \in Nat /\ i \in Nat /\ Len(server.history) \in Nat
            /\ i - 1 \in 1 .. Len(server.history)
        BY <1>1, <1>4, <3>1
      <4>2. n = server.seq + 1 + 1 - i
        BY <1>4
      <4>3. \A num, len, k \in Nat : len <= num /\ k - 1 \in 1 .. len =>
               /\ num + 1 + 1 - k \in 1 .. num
               /\ num + 1 + 1 - k = num + 1 - (k - 1)
        OBVIOUS
      <4> HIDE DEF n
      <4> QED BY <1>3, <4>1, <4>2, <4>3
    <3> HIDE DEF n
    <3>4. /\ server.history[i - 1] = past.frames[n]
          /\ past.frames[n] \subseteq AimedAt(aimed, c)
          /\ \A m \in past.frames[n] : cursor[c][m] # 0 => Applied(client[c], n)
      <4>1. /\ Memory.seq = server.seq /\ Memory.history = server.history
            /\ i - 1 \in DOMAIN Memory.history
        BY <1>1, <3>1 DEF Memory
      <4> QED BY <1>1, <3>3, <4>1 DEF Carries
    <3>5. past'.frames[n] = past.frames[n]
      BY <1>2, <3>3
    <3> QED BY <3>2, <3>4, <3>5 DEF n
  <2> QED BY <2>1, <2>2
<1> QED BY <1>4, <1>5, <1>6 DEF CarriesNext

\* What carries on a history carries on every shorter one.
LEMMA Shorter ==
    ASSUME NEW c \in Client, NEW s \in Nat,
           NEW h \in Seq(Frame), NEW g \in Seq(Frame),
           CarriesNext([seq |-> s, history |-> h], c),
           Len(g) <= Len(h), \A i \in DOMAIN g : g[i] = h[i]
    PROVE  CarriesNext([seq |-> s, history |-> g], c)
<1>1. DOMAIN g \subseteq DOMAIN h /\ Len(g) \in Nat /\ Len(h) \in Nat
  OBVIOUS
<1>2. Len(g) <= s
  BY <1>1 DEF CarriesNext
<1> QED BY <1>1, <1>2 DEF CarriesNext

\* Sending a frame of moves that were waiting for it keeps the invariant.
LEMMA DatagramKeeps ==
    ASSUME IInv, TypeOK', server.current \in Client,
           NEW frame \in Frame, NEW history \in Seq(Frame),
           SendDatagram(frame, history),
           Len(history) <= Len(server.history) + 1,
           \A i \in DOMAIN history :
              history[i] = IF i = 1 THEN frame ELSE server.history[i - 1],
           past' = [past EXCEPT !.frames = Append(@, frame)],
           client' = client, cursor' = cursor,
           server'.seq = server.seq + 1, server'.current = server.current,
           server'.coalesce = server.coalesce,
           server'.pending \subseteq server.pending,
           frame \intersect server'.pending = {},
           server'.history \in Seq(Frame),
           Len(server'.history) <= Len(history),
           \A i \in DOMAIN server'.history : server'.history[i] = history[i],
           ~server.coalesce => server'.history = <<>>,
           \A c \in Client : AimedAt(aimed, c) \subseteq AimedAt(aimed', c),
           DOMAIN aimed \subseteq DOMAIN aimed',
           frame \subseteq AimedAt(aimed', server.current),
           \A m \in frame : cursor[server.current][m] = 0,
           \A n \in DOMAIN past.frames : frame \intersect past.frames[n] = {},
           \A c \in Client, i \in Nat :
              IsInput(c, i) => frame \intersect stream[c][i].frame = {}
    PROVE  IInv'
<1> DEFINE cur == server.current
           d == [seq |-> server.seq + 1, history |-> history]
<1>0. TypeOK /\ Wired /\ Remembering /\ Apart /\ Waiting /\ Streamed
  BY DEF IInv
<1>1. /\ server.seq \in Nat /\ wire \in [Client -> SUBSET DatagramType]
      /\ DOMAIN past.frames = 1 .. server.seq
      /\ \A n \in 1 .. server.seq : past.frames[n] \subseteq Move
  BY <1>0, Typed
<1>2. /\ past'.frames[server.seq + 1] = frame
      /\ \A n \in 1 .. server.seq : past'.frames[n] = past.frames[n]
      /\ DOMAIN past'.frames = 1 .. server.seq + 1
  <2>1. past'.frames \in Seq(Frame) /\ Len(past'.frames) = server.seq + 1
    BY <1>0, FramesType
  <2>2. \A q \in Seq(Frame) : DOMAIN q = 1 .. Len(q)
    OBVIOUS
  <2>3. DOMAIN past'.frames = 1 .. server.seq + 1
    BY <2>1, <2>2
  <2>4. /\ past'.frames[server.seq + 1] = frame
        /\ \A n \in 1 .. server.seq : past'.frames[n] = past.frames[n]
    BY <1>0, FramesType
  <2> QED BY <2>3, <2>4
<1>3. CarriesNext(d, cur)
  BY <1>0, NewDatagram
<1>4. ASSUME NEW c \in Client, NEW e \in DatagramType, Carries(e, c)
      PROVE  CarriesNext(e, c)
  <2>1. server'.seq \in Nat /\ server.seq <= server'.seq
    BY <1>1
  <2> QED BY <1>1, <1>2, <1>4, <2>1, Kept
<1>5. stream' = stream /\ \A c \in Client : \A e \in wire'[c] :
         e \in wire[c] \/ (c = cur /\ e = d)
  BY <1>1 DEF SendDatagram
<1> HIDE DEF d
<1>6. Wired'
  BY <1>0, <1>1, <1>3, <1>4, <1>5, CarriesAfter DEF Wired
<1>7. Remembering'
  <2>1. Memory' = [seq |-> server.seq + 1, history |-> server'.history]
    BY DEF Memory
  <2>2. CarriesNext(Memory', cur)
    <3>1. CarriesNext([seq |-> server.seq + 1, history |-> history], cur)
      BY <1>3 DEF d
    <3>2. server.seq + 1 \in Nat
      BY <1>1
    <3>3. CarriesNext([seq |-> server.seq + 1, history |-> server'.history], cur)
      BY <3>1, <3>2, Shorter
    <3> QED BY <2>1, <3>3
  <2>3. cur # None
    BY MotionAssumption
  <2> QED BY <2>2, <2>3, CarriesAfter
<1>8. Apart'
  <2>1. \A n \in DOMAIN past'.frames : n \in DOMAIN past.frames
           \/ (n = server.seq + 1 /\ n \notin DOMAIN past.frames)
    BY <1>1, <1>2
  <2>2. \A n \in DOMAIN past.frames : past'.frames[n] = past.frames[n]
    BY <1>1, <1>2
  <2>3. frame \subseteq DOMAIN aimed'
    BY DEF AimedAt
  <2>4. \A n, k \in DOMAIN past'.frames :
           n # k => past'.frames[n] \intersect past'.frames[k] = {}
    BY <1>0, <1>2, <2>1, <2>2 DEF Apart
  <2>5. \A n \in DOMAIN past'.frames :
           /\ past'.frames[n] \subseteq DOMAIN aimed'
           /\ past'.frames[n] \intersect server'.pending = {}
    BY <1>0, <1>2, <2>1, <2>2, <2>3 DEF Apart
  <2>6. \A c \in Client, m \in Move : cursor[c][m] # 0 => m \in DOMAIN aimed'
    BY <1>0 DEF Apart
  <2> QED BY <2>4, <2>5, <2>6 DEF Apart
<1>9. Waiting'
  BY <1>0 DEF Waiting
<1>10. Streamed'
  <2>1. \A c \in Client, i \in Nat : IsInput(c, i)' <=> IsInput(c, i)
    BY <1>5 DEF IsInput
  <2> SUFFICES ASSUME NEW c \in Client, NEW i \in Nat, IsInput(c, i)
               PROVE  /\ stream[c][i].frame
                            \subseteq AimedAt(aimed', c) \ server'.pending
                      /\ \A m \in stream[c][i].frame : cursor[c][m] = 0
                      /\ \A n \in DOMAIN past'.frames :
                            stream[c][i].frame \intersect past'.frames[n] = {}
                      /\ \A j \in Nat : IsInput(c, j) /\ i # j =>
                            stream[c][i].frame \intersect stream[c][j].frame = {}
    BY <1>5, <2>1 DEF Streamed
  <2>2. \A n \in DOMAIN past'.frames :
           \/ n \in DOMAIN past.frames /\ past'.frames[n] = past.frames[n]
           \/ past'.frames[n] = frame
    BY <1>1, <1>2
  <2> QED BY <1>0, <2>2 DEF Streamed
<1> QED BY <1>6, <1>7, <1>8, <1>9, <1>10 DEF IInv

\* So does putting it on the stream.
LEMMA StreamKeeps ==
    ASSUME IInv, TypeOK', server.current \in Client,
           NEW frame \in Frame, SendOnStream(frame),
           past'.frames = past.frames, client' = client, cursor' = cursor,
           server'.seq = server.seq, server'.current = server.current,
           server'.coalesce = server.coalesce,
           server'.history = server.history,
           server'.pending \subseteq server.pending,
           \A c \in Client : AimedAt(aimed, c) \subseteq AimedAt(aimed', c),
           DOMAIN aimed \subseteq DOMAIN aimed',
           frame \subseteq AimedAt(aimed', server.current) \ server'.pending,
           \A m \in frame : cursor[server.current][m] = 0,
           \A n \in DOMAIN past.frames : frame \intersect past.frames[n] = {},
           \A c \in Client, i \in Nat :
              IsInput(c, i) => frame \intersect stream[c][i].frame = {}
    PROVE  IInv'
<1> DEFINE cur == server.current
           last == Len(stream[cur]) + 1
<1>0. TypeOK /\ Wired /\ Remembering /\ Apart /\ Waiting /\ Streamed
  BY DEF IInv
<1>1. /\ server.seq \in Nat /\ wire \in [Client -> SUBSET DatagramType]
      /\ \A n \in 1 .. server.seq : past.frames[n] \subseteq Move
      /\ stream \in [Client -> Seq(Message)] /\ Memory \in DatagramType
  BY <1>0, Typed
<1>2. wire' = wire /\ stream' = [stream EXCEPT ![cur] = Append(@, Input(frame))]
  BY DEF SendOnStream
<1>3. ASSUME NEW c \in Client, NEW e \in DatagramType, Carries(e, c)
      PROVE  CarriesNext(e, c)
  <2>1. server'.seq \in Nat /\ server.seq <= server'.seq
    BY <1>1
  <2> QED BY <1>1, <1>3, <2>1, Kept
<1>4. Wired'
  BY <1>1, <1>2, <1>0, <1>3, CarriesAfter DEF Wired
<1>5. Remembering'
  <2>1. Memory' = Memory
    BY DEF Memory
  <2>2. cur # None
    BY MotionAssumption
  <2> QED BY <1>0, <1>1, <1>3, <2>1, <2>2, CarriesAfter DEF Remembering
<1>6. Apart'
  BY <1>0 DEF Apart
<1>7. Waiting'
  BY <1>0 DEF Waiting
<1>8. Streamed'
  <2>1. /\ stream[cur] \in Seq(Message) /\ stream'[cur] = Append(stream[cur], Input(frame))
        /\ \A c \in Client : c # cur => stream'[c] = stream[c]
    BY <1>1, <1>2
  <2>2. last \in Nat /\ DOMAIN stream[cur] = 1 .. last - 1
    BY <2>1
  <2>3. DOMAIN stream'[cur] = 1 .. last /\ stream'[cur][last] = Input(frame)
        /\ \A i \in 1 .. last - 1 : stream'[cur][i] = stream[cur][i]
    BY <2>1
  <2> HIDE DEF last
  <2>4. ASSUME NEW c \in Client, NEW i \in Nat, IsInput(c, i)'
        PROVE  \/ IsInput(c, i) /\ stream'[c][i] = stream[c][i]
               \/ c = cur /\ i = last /\ ~IsInput(c, i)
                  /\ stream'[c][i].frame = frame
    BY <2>1, <2>2, <2>3, <2>4 DEF IsInput, Input
  <2> SUFFICES ASSUME NEW c \in Client, NEW i \in Nat, IsInput(c, i)'
               PROVE  /\ stream'[c][i].frame
                            \subseteq AimedAt(aimed', c) \ server'.pending
                      /\ \A m \in stream'[c][i].frame : cursor[c][m] = 0
                      /\ \A n \in DOMAIN past.frames :
                            stream'[c][i].frame \intersect past.frames[n] = {}
                      /\ \A j \in Nat : IsInput(c, j)' /\ i # j =>
                            stream'[c][i].frame \intersect stream'[c][j].frame = {}
    BY DEF Streamed
  <2>5. CASE IsInput(c, i) /\ stream'[c][i] = stream[c][i]
    <3>1. /\ stream[c][i].frame \subseteq AimedAt(aimed, c) \ server.pending
          /\ \A m \in stream[c][i].frame : cursor[c][m] = 0
          /\ \A n \in DOMAIN past.frames :
                stream[c][i].frame \intersect past.frames[n] = {}
          /\ \A j \in Nat : IsInput(c, j) /\ i # j =>
                stream[c][i].frame \intersect stream[c][j].frame = {}
      BY <1>0, <2>5 DEF Streamed
    <3> QED BY <2>4, <2>5, <3>1
  <2>6. CASE /\ c = cur /\ i = last /\ ~IsInput(c, i)
             /\ stream'[c][i].frame = frame
    BY <2>4, <2>6
  <2> QED BY <2>4, <2>5, <2>6
<1> QED BY <1>4, <1>5, <1>6, <1>7, <1>8 DEF IInv

\* A move sent at once keeps the invariant.
LEMMA MoveAtFullRateKeeps ==
    ASSUME IInv, MoveAtFullRate
    PROVE  IInv'
<1> DEFINE mv == Len(aimed')
           frame == {mv}
<1>0. TypeOK /\ Wired /\ Remembering /\ Apart /\ Waiting /\ Streamed
  BY DEF IInv
<1>1. TypeOK'
  BY <1>0, MoveTypes
<1>2. Moves /\ ~server.coalesce /\ client' = client /\ cursor' = cursor
  BY DEF MoveAtFullRate, Moves
<1>3. /\ \A c \in Client : AimedAt(aimed, c) \subseteq AimedAt(aimed', c)
      /\ DOMAIN aimed \subseteq DOMAIN aimed'
      /\ mv \in AimedAt(aimed', server.current) /\ mv \notin DOMAIN aimed
      /\ mv \in Move /\ server.current \in Client
  BY <1>0, <1>2, AimedGrows
<1>4. /\ \A c \in Client : cursor[c][mv] = 0
      /\ \A n \in DOMAIN past.frames : mv \notin past.frames[n]
      /\ mv \notin server.pending
      /\ \A c \in Client, i \in Nat :
            IsInput(c, i) => mv \notin stream[c][i].frame
  BY <1>3, NotMade
<1>5. \/ /\ SendDatagram(frame, <<frame>>)
         /\ server' = [server EXCEPT !.seq = @ + 1]
         /\ past' = [past EXCEPT !.frames = Append(@, frame)]
      \/ UNCHANGED <<server, wire, stream, past>>
      \/ /\ SendOnStream(frame)
         /\ server' = [server EXCEPT !.datagrams = @ \ {server.current}]
         /\ UNCHANGED past
  BY DEF MoveAtFullRate
<1> HIDE DEF mv
<1>6. frame \in Frame /\ frame \subseteq AimedAt(aimed', server.current)
  BY <1>3 DEF Frame
<1>7. server \in ServerType /\ server.seq \in Nat
  BY <1>0, Typed
<1>8. server.history = <<>>
  BY <1>0, <1>2 DEF Remembering
<1>9. CASE /\ SendDatagram(frame, <<frame>>)
           /\ server' = [server EXCEPT !.seq = @ + 1]
           /\ past' = [past EXCEPT !.frames = Append(@, frame)]
  <2>1. /\ server'.seq = server.seq + 1 /\ server'.current = server.current
        /\ server'.coalesce = server.coalesce
        /\ server'.pending = server.pending /\ server'.history = <<>>
    BY <1>7, <1>8, <1>9 DEF ServerType
  <2> DEFINE history == <<frame>>
  <2>2. /\ history \in Seq(Frame) /\ Len(history) = 1 /\ history[1] = frame
        /\ DOMAIN history = {1}
    BY <1>6
  <2> HIDE DEF history, frame
  <2>3. /\ Len(history) <= Len(server.history) + 1
        /\ \A i \in DOMAIN history :
              history[i] = IF i = 1 THEN frame ELSE server.history[i - 1]
    BY <1>8, <2>2
  <2>4. /\ server'.history \in Seq(Frame) /\ Len(server'.history) <= Len(history)
        /\ \A i \in DOMAIN server'.history : server'.history[i] = history[i]
    BY <2>1, <2>2
  <2>5. /\ frame \intersect server'.pending = {}
        /\ \A m \in frame : cursor[server.current][m] = 0
        /\ \A n \in DOMAIN past.frames : frame \intersect past.frames[n] = {}
        /\ \A c \in Client, i \in Nat :
              IsInput(c, i) => frame \intersect stream[c][i].frame = {}
    BY <1>3, <1>4, <2>1 DEF frame
  <2>6. SendDatagram(frame, history)
    BY <1>9 DEF history
  <2> QED
    BY <1>1, <1>2, <1>3, <1>6, <1>9, <2>1, <2>2, <2>3, <2>4, <2>5, <2>6,
       DatagramKeeps
<1>10. CASE UNCHANGED <<server, wire, stream, past>>
  <2>1. /\ server' = server /\ wire' = wire /\ stream' = stream /\ past' = past
        /\ server.current # None
    BY <1>10, <1>2 DEF Moves
  <2>2. ASSUME NEW c \in Client, NEW e \in DatagramType, Carries(e, c)
        PROVE  CarriesNext(e, c)
    <3>1. /\ server'.seq \in Nat /\ server.seq <= server'.seq
          /\ \A n \in 1 .. server.seq : past.frames[n] \subseteq Move
      BY <1>0, <1>7, <2>1, Typed
    <3> QED BY <1>2, <1>3, <1>7, <2>1, <2>2, <3>1, Kept
  <2>3. Wired'
    BY <1>0, <2>1, <2>2, Typed, CarriesAfter DEF Wired
  <2>4. Remembering'
    <3>1. Memory' = Memory /\ Memory \in DatagramType
      BY <1>0, <2>1, Typed DEF Memory
    <3> QED BY <1>0, <1>3, <2>1, <2>2, <3>1, CarriesAfter DEF Remembering
  <2>5. Apart'
    BY <1>0, <1>2, <1>3, <2>1 DEF Apart
  <2>6. Waiting'
    BY <1>0, <1>2, <1>3, <2>1 DEF Waiting
  <2>7. Streamed'
    <3>1. \A c \in Client, i \in Nat : IsInput(c, i)' <=> IsInput(c, i)
      BY <2>1 DEF IsInput
    <3> QED BY <1>0, <1>2, <1>3, <2>1, <3>1 DEF Streamed
  <2> QED BY <1>1, <2>3, <2>4, <2>5, <2>6, <2>7 DEF IInv
<1>11. CASE /\ SendOnStream(frame)
            /\ server' = [server EXCEPT !.datagrams = @ \ {server.current}]
            /\ UNCHANGED past
  <2>1. /\ server'.seq = server.seq /\ server'.current = server.current
        /\ server'.coalesce = server.coalesce
        /\ server'.pending = server.pending
        /\ server'.history = server.history /\ past'.frames = past.frames
    BY <1>7, <1>11 DEF ServerType
  <2>2. /\ \A m \in frame : cursor[server.current][m] = 0
        /\ \A n \in DOMAIN past.frames : frame \intersect past.frames[n] = {}
        /\ \A c \in Client, i \in Nat :
              IsInput(c, i) => frame \intersect stream[c][i].frame = {}
    BY <1>3, <1>4
  <2>3. frame \subseteq AimedAt(aimed', server.current) \ server'.pending
    BY <1>4, <1>6, <2>1
  <2> HIDE DEF frame
  <2> QED
    BY <1>1, <1>2, <1>3, <1>6, <1>11, <2>1, <2>2, <2>3, StreamKeeps
<1> QED BY <1>5, <1>9, <1>10, <1>11

-----------------------------------------------------------------------------
(* Flushes.                                                                *)

\* Doing nothing keeps the invariant.
LEMMA StutterKeeps ==
    ASSUME IInv, UNCHANGED vars
    PROVE  IInv'
<1>1. /\ server' = server /\ client' = client /\ wire' = wire /\ stream' = stream
      /\ aimed' = aimed /\ cursor' = cursor /\ past' = past
  BY DEF vars
<1>2. TypeOK'
  BY <1>1 DEF IInv, TypeOK
<1>3. Wired' /\ Remembering'
  BY <1>1 DEF IInv, Wired, Remembering, Carries, Memory
<1>4. Apart' /\ Waiting'
  BY <1>1 DEF IInv, Apart, Waiting
<1>5. Streamed'
  BY <1>1 DEF IInv, Streamed, IsInput
<1> QED BY <1>2, <1>3, <1>4, <1>5 DEF IInv

\* A flush keeps the invariant, whatever becomes of the frame.
LEMMA FlushKeeps ==
    ASSUME IInv, Flush
    PROVE  IInv'
<1> DEFINE frame == server.pending
           taken == [server EXCEPT !.pending = {}]
<1>0. TypeOK /\ Wired /\ Remembering /\ Apart /\ Waiting /\ Streamed
  BY DEF IInv
<1>1. TypeOK'
  BY <1>0, FlushTypes
<1>2. client' = client /\ aimed' = aimed /\ cursor' = cursor
  BY DEF Flush
<1>3. /\ server \in ServerType /\ server.seq \in Nat /\ frame \in Frame
      /\ server.history \in Seq(Frame) /\ server.current \in Client
  BY <1>0, Typed DEF Flush, TypeOK
<1>4. /\ server.coalesce /\ frame \subseteq AimedAt(aimed', server.current)
      /\ \A m \in frame : cursor[server.current][m] = 0
      /\ \A n \in DOMAIN past.frames : frame \intersect past.frames[n] = {}
      /\ \A c \in Client, i \in Nat :
            IsInput(c, i) => frame \intersect stream[c][i].frame = {}
  BY <1>0, <1>2 DEF Waiting, Apart, Streamed, Flush
<1>5. /\ \A c \in Client : AimedAt(aimed, c) \subseteq AimedAt(aimed', c)
      /\ DOMAIN aimed \subseteq DOMAIN aimed'
  BY <1>2
<1>6. \/ /\ SendDatagram(frame, WithFrame(frame, server.history))
         /\ server' = [taken EXCEPT
               !.seq = @ + 1, !.history = Remembered(frame, @)]
         /\ past' = [past EXCEPT !.frames = Append(@, frame)]
      \/ /\ server' = Retried(taken, frame)
         /\ UNCHANGED <<wire, stream, past>>
      \/ /\ SendOnStream(frame)
         /\ server' = [taken EXCEPT !.datagrams = @ \ {server.current}]
         /\ UNCHANGED past
      \/ /\ server' = taken
         /\ past' = [past EXCEPT !.live = @ \ frame]
         /\ UNCHANGED <<wire, stream>>
  BY DEF Flush
<1>7. CASE /\ SendDatagram(frame, WithFrame(frame, server.history))
           /\ server' = [taken EXCEPT
                 !.seq = @ + 1, !.history = Remembered(frame, @)]
           /\ past' = [past EXCEPT !.frames = Append(@, frame)]
  <2> DEFINE history == WithFrame(frame, server.history)
  <2>1. /\ server'.seq = server.seq + 1 /\ server'.current = server.current
        /\ server'.coalesce = server.coalesce /\ server'.pending = {}
        /\ server'.history = Remembered(frame, server.history)
    BY <1>3, <1>7 DEF ServerType
  <2>2. /\ history \in Seq(Frame) /\ Len(history) = Len(server.history) + 1
        /\ \A i \in DOMAIN history :
              history[i] = IF i = 1 THEN frame ELSE server.history[i - 1]
    BY <1>3, WithFrameType DEF WithFrame
  <2>3. /\ server'.history \in Seq(Frame)
        /\ Len(server'.history) <= Len(history)
        /\ \A i \in DOMAIN server'.history : server'.history[i] = history[i]
    BY <1>3, <2>1, <2>2, RememberedType
  <2>4. Len(history) <= Len(server.history) + 1
    BY <1>3, <2>2
  <2>5. /\ SendDatagram(frame, history)
        /\ past' = [past EXCEPT !.frames = Append(@, frame)]
    BY <1>7
  <2>6. /\ server'.seq = server.seq + 1 /\ server'.current = server.current
        /\ server'.coalesce = server.coalesce
        /\ server'.pending \subseteq server.pending
        /\ frame \intersect server'.pending = {}
        /\ ~server.coalesce => server'.history = <<>>
    BY <1>4, <2>1
  <2> HIDE DEF history, frame
  <2> QED
    BY <1>1, <1>2, <1>3, <1>4, <1>5, <2>2, <2>3, <2>4, <2>5, <2>6,
       DatagramKeeps
<1>8. CASE server' = Retried(taken, frame) /\ UNCHANGED <<wire, stream, past>>
  <2>1. server' = server
    BY <1>3, <1>8 DEF Retried, ServerType
  <2>2. UNCHANGED vars
    BY <1>2, <1>8, <2>1 DEF vars
  <2> QED BY <2>2, StutterKeeps
<1>9. CASE /\ SendOnStream(frame)
           /\ server' = [taken EXCEPT !.datagrams = @ \ {server.current}]
           /\ UNCHANGED past
  <2>1. /\ server'.seq = server.seq /\ server'.current = server.current
        /\ server'.coalesce = server.coalesce /\ server'.pending = {}
        /\ server'.history = server.history /\ past'.frames = past.frames
    BY <1>3, <1>9 DEF ServerType
  <2> HIDE DEF frame
  <2> QED BY <1>1, <1>2, <1>3, <1>4, <1>5, <1>9, <2>1, StreamKeeps
<1>10. CASE /\ server' = taken
            /\ past' = [past EXCEPT !.live = @ \ frame]
            /\ UNCHANGED <<wire, stream>>
  <2>1. /\ server'.seq = server.seq /\ server'.current = server.current
        /\ server'.coalesce = server.coalesce /\ server'.pending = {}
        /\ server'.history = server.history
    BY <1>3, <1>10 DEF ServerType
  <2>2. past'.frames = past.frames /\ wire' = wire /\ stream' = stream
    BY <1>0, <1>10 DEF TypeOK
  <2>3. Wired' /\ Remembering'
    BY <1>0, <1>2, <2>1, <2>2 DEF Wired, Remembering, Carries, Memory
  <2>4. Apart' /\ Waiting'
    BY <1>0, <1>2, <2>1, <2>2 DEF Apart, Waiting
  <2>5. Streamed'
    <3>1. \A c \in Client, i \in Nat : IsInput(c, i)' <=> IsInput(c, i)
      BY <2>2 DEF IsInput
    <3> QED BY <1>0, <1>2, <2>1, <2>2, <3>1 DEF Streamed
  <2> QED BY <1>1, <2>3, <2>4, <2>5 DEF IInv
<1> QED BY <1>6, <1>7, <1>8, <1>9, <1>10

-----------------------------------------------------------------------------
(* Switches, pauses and lost connections.                                  *)

\* They leave the motion alone, or forget it.
LEMMA ControlKeeps ==
    ASSUME IInv, TypeOK', aimed' = aimed, cursor' = cursor,
           past'.frames = past.frames,
           server'.seq = server.seq, server'.coalesce = server.coalesce,
           \A c \in Client :
              \/ wire'[c] = {}
              \/ wire'[c] = wire[c] /\ client'[c] = client[c],
           \A c \in Client, i \in Nat : IsInput(c, i)' =>
              IsInput(c, i) /\ stream'[c][i] = stream[c][i],
           \/ server'.history = <<>> /\ server'.pending = {}
           \/ /\ server'.current = server.current
              /\ server'.history = server.history
              /\ server'.pending = server.pending
              /\ server.current # None =>
                    client'[server.current] = client[server.current]
    PROVE  IInv'
<1>0. TypeOK /\ Wired /\ Remembering /\ Apart /\ Waiting /\ Streamed
  BY DEF IInv
<1>1. /\ server.seq \in Nat /\ wire \in [Client -> SUBSET DatagramType]
      /\ \A n \in 1 .. server.seq : past.frames[n] \subseteq Move
      /\ Memory \in DatagramType /\ server.current \in Client \union {None}
  BY <1>0, Typed
<1>2. ASSUME NEW c \in Client, NEW e \in DatagramType, Carries(e, c),
             client'[c] = client[c]
      PROVE  CarriesNext(e, c)
  <2>1. server'.seq \in Nat /\ server.seq <= server'.seq
    BY <1>1
  <2> QED BY <1>1, <1>2, <2>1, Kept
<1>3. Wired'
  BY <1>0, <1>1, <1>2, CarriesAfter DEF Wired
<1>4. Remembering'
  <2>1. CASE server'.history = <<>> /\ server'.pending = {}
    <3>1. /\ Memory'.history = <<>> /\ Memory'.seq = server.seq
      BY <2>1 DEF Memory
    <3>2. CarriesNext(Memory', server'.current)
      BY <1>1, <3>1 DEF CarriesNext
    <3> QED BY <2>1, <3>2, CarriesAfter
  <2>2. CASE /\ server'.current = server.current
             /\ server'.history = server.history
             /\ server'.pending = server.pending
             /\ server.current # None =>
                   client'[server.current] = client[server.current]
    <3>1. Memory' = Memory
      BY <2>2 DEF Memory
    <3>2. server.current # None => server.current \in Client
      BY <1>1
    <3>3. server.current # None => CarriesNext(Memory, server.current)
      BY <1>0, <1>1, <1>2, <2>2, <3>2 DEF Remembering
    <3> QED BY <1>0, <2>2, <3>1, <3>3, CarriesAfter DEF Remembering
  <2> QED BY <2>1, <2>2
<1>5. Apart'
  BY <1>0 DEF Apart
<1>6. Waiting'
  BY <1>0 DEF Waiting
<1>7. Streamed'
  <2> SUFFICES ASSUME NEW c \in Client, NEW i \in Nat, IsInput(c, i)'
               PROVE  /\ stream'[c][i].frame
                            \subseteq AimedAt(aimed, c) \ server'.pending
                      /\ \A m \in stream'[c][i].frame : cursor[c][m] = 0
                      /\ \A n \in DOMAIN past.frames :
                            stream'[c][i].frame \intersect past.frames[n] = {}
                      /\ \A j \in Nat : IsInput(c, j)' /\ i # j =>
                            stream'[c][i].frame \intersect stream'[c][j].frame = {}
    BY DEF Streamed
  <2>1. IsInput(c, i) /\ stream'[c][i] = stream[c][i]
    OBVIOUS
  <2>2. server'.pending \subseteq server.pending
    OBVIOUS
  <2> QED BY <1>0, <2>1, <2>2 DEF Streamed
<1> QED BY <1>3, <1>4, <1>5, <1>6, <1>7 DEF IInv

\* What appending a message does to a stream.
LEMMA Appended ==
    ASSUME NEW q \in Seq(Message), NEW msg \in Message
    PROVE  /\ Append(q, msg) \in Seq(Message) /\ Len(q) \in Nat
           /\ DOMAIN q = 1 .. Len(q)
           /\ DOMAIN Append(q, msg) = 1 .. Len(q) + 1
           /\ Append(q, msg)[Len(q) + 1] = msg
           /\ \A i \in 1 .. Len(q) : Append(q, msg)[i] = q[i]
  OBVIOUS

\* Switch messages put no frames on a stream.
LEMMA NoInputs ==
    ASSUME TypeOK, NEW new \in Client \union {None},
           \/ stream' = Announced(stream, new, server.current)
           \/ stream' = Released(stream, server.current)
           \/ stream' = stream
           \/ \E k \in Client : stream' = [stream EXCEPT ![k] = <<>>]
    PROVE  \A c \in Client, i \in Nat : IsInput(c, i)' =>
              IsInput(c, i) /\ stream'[c][i] = stream[c][i]
<1> SUFFICES ASSUME NEW c \in Client, NEW i \in Nat, IsInput(c, i)'
             PROVE  IsInput(c, i) /\ stream'[c][i] = stream[c][i]
  OBVIOUS
<1>1. stream \in [Client -> Seq(Message)] /\ stream[c] \in Seq(Message)
  BY Typed
<1>2. Enabled(TRUE) \in Message /\ Enabled(FALSE) \in Message
  BY DEF Enabled, Message
<1>3. i \in DOMAIN stream'[c] /\ stream'[c][i].kind = "input"
  BY DEF IsInput
<1>4. Enabled(TRUE).kind # "input" /\ Enabled(FALSE).kind # "input"
  BY DEF Enabled
<1> DEFINE On == Enabled(TRUE)
           Off == Enabled(FALSE)
<1>5. \/ stream'[c] = stream[c]
      \/ stream'[c] = Append(stream[c], On)
      \/ stream'[c] = Append(stream[c], Off)
      \/ stream'[c] = Append(Append(stream[c], Off), On)
      \/ stream'[c] = <<>>
  BY <1>1 DEF Announced, Released
<1> HIDE DEF On, Off
<1>6. CASE stream'[c] = stream[c]
  BY <1>3, <1>6 DEF IsInput
<1>7. ASSUME NEW msg \in Message, msg.kind # "input",
             stream'[c] = Append(stream[c], msg)
      PROVE  IsInput(c, i) /\ stream'[c][i] = stream[c][i]
  <2>1. i \in 1 .. Len(stream[c]) + 1
    BY <1>1, <1>3, <1>7
  <2>2. i # Len(stream[c]) + 1
    BY <1>1, <1>3, <1>7
  <2>3. i \in DOMAIN stream[c] /\ stream'[c][i] = stream[c][i]
    BY <1>1, <1>7, <2>1, <2>2
  <2> QED BY <1>3, <2>3 DEF IsInput
<1>8. CASE stream'[c] = Append(Append(stream[c], Off), On)
  <2> DEFINE mid == Append(stream[c], Off)
  <2>1. /\ mid \in Seq(Message) /\ Len(stream[c]) \in Nat
        /\ DOMAIN stream[c] = 1 .. Len(stream[c])
        /\ DOMAIN mid = 1 .. Len(stream[c]) + 1
        /\ mid[Len(stream[c]) + 1] = Off
        /\ \A j \in 1 .. Len(stream[c]) : mid[j] = stream[c][j]
    BY <1>1, <1>2, Appended DEF Off
  <2>2. stream'[c] = Append(mid, On) /\ On \in Message
    BY <1>2, <1>8 DEF On
  <2> HIDE DEF mid
  <2>3. /\ Len(mid) \in Nat /\ DOMAIN mid = 1 .. Len(mid)
        /\ DOMAIN stream'[c] = 1 .. Len(mid) + 1
        /\ stream'[c][Len(mid) + 1] = On
        /\ \A j \in 1 .. Len(mid) : stream'[c][j] = mid[j]
    BY <2>1, <2>2, Appended
  <2>4. i \in DOMAIN mid /\ stream'[c][i] = mid[i]
    <3>1. i # Len(mid) + 1
      BY <1>3, <1>4, <2>3 DEF On
    <3>2. i \in 1 .. Len(mid)
      BY <1>3, <2>3, <3>1
    <3> QED BY <2>3, <3>2
  <2>5. i # Len(stream[c]) + 1
    BY <1>3, <1>4, <2>1, <2>4 DEF Off
  <2>6. i \in DOMAIN stream[c] /\ stream'[c][i] = stream[c][i]
    BY <2>1, <2>4, <2>5
  <2> QED BY <1>3, <2>6 DEF IsInput
<1>9. CASE stream'[c] = <<>>
  BY <1>3, <1>9
<1> QED BY <1>2, <1>4, <1>5, <1>6, <1>7, <1>8, <1>9 DEF On, Off

\* No switch, pause or lost connection breaks the invariant; a connection
\* that takes another's place would.
LEMMA ControlsKeep ==
    ASSUME IInv, ~ReusePorts,
           \/ \E new \in Client \union {None} : SwitchTo(new)
           \/ ReleaseKeys \/ Pause \/ Resume
           \/ \E c \in Client, inPlace \in BOOLEAN : Reconnect(c, inPlace)
    PROVE  IInv'
<1>0. TypeOK
  BY DEF IInv
<1>1. TypeOK'
  BY <1>0, ControlTypes
<1>2. /\ server \in ServerType /\ server.seq \in Nat
      /\ server.current \in Client \union {None}
      /\ {} \in Frame /\ past.live \in Frame
  BY <1>0, Typed DEF TypeOK, Frame
<1>3. ASSUME NEW new \in Client \union {None}, SwitchTo(new)
      PROVE  IInv'
  <2>1. aimed' = aimed /\ cursor' = cursor /\ past'.frames = past.frames
    BY <1>0, <1>2, <1>3, ControlType DEF SwitchTo
  <2>2. /\ server'.seq = server.seq /\ server'.coalesce = server.coalesce
        /\ server'.history = <<>> /\ server'.pending = {}
    BY <1>0, <1>3, ForgetType DEF SwitchTo, ServerType
  <2>3. \A c \in Client, i \in Nat : IsInput(c, i)' =>
           IsInput(c, i) /\ stream'[c][i] = stream[c][i]
    BY <1>0, <1>3, NoInputs DEF SwitchTo
  <2>4. client' = client /\ wire' = wire
    BY <1>3 DEF SwitchTo
  <2> QED BY <1>1, <2>1, <2>2, <2>3, <2>4, ControlKeeps
<1>4. CASE ReleaseKeys
  <2>1. aimed' = aimed /\ cursor' = cursor /\ past'.frames = past.frames
    BY <1>0, <1>2, <1>4, ControlType DEF ReleaseKeys
  <2>2. \A c \in Client, i \in Nat : IsInput(c, i)' =>
           IsInput(c, i) /\ stream'[c][i] = stream[c][i]
    BY <1>0, <1>4, NoInputs DEF ReleaseKeys
  <2>3. client' = client /\ wire' = wire /\ server' = server
    BY <1>4 DEF ReleaseKeys
  <2> QED BY <1>1, <2>1, <2>2, <2>3, ControlKeeps
<1>5. CASE Pause
  <2>1. aimed' = aimed /\ cursor' = cursor /\ past'.frames = past.frames
    BY <1>0, <1>2, <1>5, ControlType DEF Pause
  <2>2. /\ server'.seq = server.seq /\ server'.coalesce = server.coalesce
        /\ server'.history = <<>> /\ server'.pending = {}
    BY <1>0, <1>5, ForgetType DEF Pause, ServerType
  <2>3. \A c \in Client, i \in Nat : IsInput(c, i)' =>
           IsInput(c, i) /\ stream'[c][i] = stream[c][i]
    BY <1>0, <1>5, NoInputs DEF Pause
  <2>4. client' = client /\ wire' = wire
    BY <1>5 DEF Pause
  <2> QED BY <1>1, <2>1, <2>2, <2>3, <2>4, ControlKeeps
<1>6. CASE Resume
  <2>1. /\ server'.seq = server.seq /\ server'.coalesce = server.coalesce
        /\ server'.pending = server.pending /\ server'.current = server.current
        /\ server'.history = server.history
    BY <1>2, <1>6 DEF Resume, ServerType
  <2>2. /\ client' = client /\ wire' = wire /\ stream' = stream /\ aimed' = aimed
        /\ cursor' = cursor /\ past' = past
    BY <1>6 DEF Resume
  <2>3. \A c \in Client, i \in Nat : IsInput(c, i)' =>
           IsInput(c, i) /\ stream'[c][i] = stream[c][i]
    BY <1>0, <2>2, NoInputs
  <2> QED BY <1>1, <2>1, <2>2, <2>3, ControlKeeps
<1>7. ASSUME NEW c \in Client, Reconnect(c, FALSE)
      PROVE  IInv'
  <2>1. aimed' = aimed /\ cursor' = cursor /\ past'.frames = past.frames
    BY <1>0, <1>2, <1>7, ControlType DEF Reconnect
  <2>2. \A k \in Client :
           \/ wire'[k] = {}
           \/ wire'[k] = wire[k] /\ client'[k] = client[k]
    BY <1>0, <1>7, Typed DEF Reconnect
  <2>3. \A k \in Client, i \in Nat : IsInput(k, i)' =>
           IsInput(k, i) /\ stream'[k][i] = stream[k][i]
    BY <1>0, <1>7, NoInputs DEF Reconnect
  <2>4. CASE c = server.current
    <3> DEFINE s == [Forget(server) EXCEPT !.current = None]
    <3>1. server' = [s EXCEPT !.datagrams = @ \union {c}]
      BY <1>7, <2>4 DEF Reconnect
    <3>2. /\ s \in ServerType /\ s.seq = server.seq
          /\ s.coalesce = server.coalesce /\ s.history = <<>> /\ s.pending = {}
      BY <1>0, ForgetType DEF ServerType
    <3> HIDE DEF s
    <3>3. /\ server'.seq = server.seq /\ server'.coalesce = server.coalesce
          /\ server'.history = <<>> /\ server'.pending = {}
      BY <3>1, <3>2 DEF ServerType
    <3> QED BY <1>1, <2>1, <2>2, <2>3, <3>3, ControlKeeps
  <2>5. CASE c # server.current
    <3>1. server' = [server EXCEPT !.datagrams = @ \union {c}]
      BY <1>7, <2>5 DEF Reconnect
    <3>2. /\ server'.seq = server.seq /\ server'.coalesce = server.coalesce
          /\ server'.history = server.history
          /\ server'.pending = server.pending
          /\ server'.current = server.current
      BY <1>2, <3>1 DEF ServerType
    <3>3. server.current # None =>
             client'[server.current] = client[server.current]
      BY <1>0, <1>2, <1>7, <2>5, Typed DEF Reconnect
    <3> QED BY <1>1, <2>1, <2>2, <2>3, <3>2, <3>3, ControlKeeps
  <2> QED BY <2>4, <2>5
<1>8. \A c \in Client : ~Reconnect(c, TRUE)
  BY DEF Reconnect
<1> QED BY <1>3, <1>4, <1>5, <1>6, <1>7, <1>8

-----------------------------------------------------------------------------
(* The clients.                                                            *)

\* A client that handles the next message of its stream makes the moves of
\* that message, if it has any, and of nothing else.
LEMMA ReceivedKeeps ==
    ASSUME IInv, TypeOK', NEW c \in Client, stream[c] # <<>>,
           stream' = [stream EXCEPT ![c] = Tail(@)],
           UNCHANGED <<server, wire, aimed, past>>,
           \A k \in Client : /\ client'[k].last = client[k].last
                             /\ client'[k].mask = client[k].mask,
           NEW F \in Frame,
           F = {} \/ (IsInput(c, 1) /\ F = stream[c][1].frame),
           \A k \in Client, m \in Move :
              cursor'[k][m] = IF k = c /\ m \in F THEN cursor[k][m] + 1
                              ELSE cursor[k][m]
    PROVE  IInv'
<1>0. TypeOK /\ Wired /\ Remembering /\ Apart /\ Waiting /\ Streamed
  BY DEF IInv
<1>1. /\ server' = server /\ wire' = wire /\ aimed' = aimed /\ past' = past
      /\ server.seq \in Nat /\ wire \in [Client -> SUBSET DatagramType]
      /\ \A n \in 1 .. server.seq : past.frames[n] \subseteq Move
      /\ DOMAIN past.frames = 1 .. server.seq
      /\ Memory \in DatagramType /\ server.current \in Client \union {None}
      /\ stream \in [Client -> Seq(Message)] /\ DOMAIN aimed \subseteq Move
      /\ server.pending \subseteq Move
  BY <1>0, Typed DEF Frame
<1>2. /\ F \subseteq AimedAt(aimed, c) \ server.pending
      /\ \A n \in DOMAIN past.frames : F \intersect past.frames[n] = {}
      /\ \A j \in Nat : IsInput(c, j) /\ j # 1 =>
            F \intersect stream[c][j].frame = {}
  BY <1>0 DEF Streamed
<1>3. ASSUME NEW k \in Client, NEW e \in DatagramType, Carries(e, k)
      PROVE  CarriesNext(e, k)
  <2>1. server'.seq \in Nat /\ server.seq <= server'.seq
    BY <1>1
  <2>2. \A n \in 1 .. server.seq : \A m \in past.frames[n] :
           cursor'[k][m] = cursor[k][m]
    BY <1>1, <1>2
  <2> QED BY <1>1, <1>3, <2>1, <2>2, Kept
<1>4. Wired'
  BY <1>0, <1>1, <1>3, CarriesAfter DEF Wired
<1>5. Remembering'
  <2>1. Memory' = Memory
    BY <1>1 DEF Memory
  <2>2. server.current # None => CarriesNext(Memory, server.current)
    BY <1>0, <1>1, <1>3 DEF Remembering
  <2> QED BY <1>0, <1>1, <2>1, <2>2, CarriesAfter DEF Remembering
<1>6. Apart'
  <2>1. \A k \in Client, m \in Move : cursor'[k][m] # 0 => m \in DOMAIN aimed
    BY <1>0, <1>2 DEF Apart, AimedAt
  <2> QED BY <1>0, <1>1, <2>1 DEF Apart
<1>7. Waiting'
  <2>1. \A m \in server.pending : m \notin F /\ m \in Move
    BY <1>1, <1>2
  <2>2. server.pending # {} => server.current \in Client
    BY <1>0, <1>1 DEF TypeOK
  <2>3. \A m \in server.pending :
           cursor'[server.current][m] = cursor[server.current][m]
    BY <2>1, <2>2
  <2> QED BY <1>0, <1>1, <2>3 DEF Waiting
<1>8. Streamed'
  <2> DEFINE At(k, i) == IF k = c THEN i + 1 ELSE i
  <2>1. ASSUME NEW k \in Client, NEW i \in Nat, IsInput(k, i)'
        PROVE  /\ IsInput(k, At(k, i)) /\ stream'[k][i] = stream[k][At(k, i)]
               /\ k = c => At(k, i) # 1
    <3>1. CASE k # c
      <4>1. stream'[k] = stream[k]
        BY <1>1, <3>1
      <4> QED BY <2>1, <3>1, <4>1 DEF IsInput
    <3>2. CASE k = c
      <4> DEFINE rest == Tail(stream[c])
                 len == Len(stream[c])
      <4>1. stream'[c] = rest
        BY <1>1
      <4>2. /\ len \in Nat /\ DOMAIN rest = 1 .. len - 1
            /\ DOMAIN stream[c] = 1 .. len
            /\ \A j \in 1 .. len - 1 : rest[j] = stream[c][j + 1]
        <5>1. stream[c] \in Seq(Message)
          BY <1>1
        <5> QED BY <5>1
      <4> HIDE DEF rest, len
      <4>3. i \in 1 .. len - 1
        BY <2>1, <3>2, <4>1, <4>2 DEF IsInput
      <4>4. i + 1 \in 1 .. len /\ i + 1 # 1
        BY <4>2, <4>3
      <4>5. rest[i] = stream[c][i + 1] /\ rest[i].kind = "input"
        BY <2>1, <3>2, <4>1, <4>2, <4>3 DEF IsInput
      <4> QED BY <3>2, <4>1, <4>2, <4>4, <4>5 DEF IsInput
    <3> QED BY <3>1, <3>2
  <2>2. \A k \in Client, i, j \in Nat : i # j => At(k, i) # At(k, j)
    OBVIOUS
  <2>3. \A k \in Client, i \in Nat : At(k, i) \in Nat
    OBVIOUS
  <2> HIDE DEF At
  <2> SUFFICES ASSUME NEW k \in Client, NEW i \in Nat, IsInput(k, i)'
               PROVE  /\ stream'[k][i].frame
                            \subseteq AimedAt(aimed, k) \ server.pending
                      /\ \A m \in stream'[k][i].frame : cursor'[k][m] = 0
                      /\ \A n \in DOMAIN past.frames :
                            stream'[k][i].frame \intersect past.frames[n] = {}
                      /\ \A j \in Nat : IsInput(k, j)' /\ i # j =>
                            stream'[k][i].frame \intersect stream'[k][j].frame = {}
    BY <1>1 DEF Streamed
  <2> DEFINE G == stream[k][At(k, i)].frame
  <2>4. /\ G \subseteq AimedAt(aimed, k) \ server.pending
        /\ \A m \in G : cursor[k][m] = 0
        /\ \A n \in DOMAIN past.frames : G \intersect past.frames[n] = {}
        /\ \A j \in Nat : IsInput(k, j) /\ At(k, i) # j =>
              G \intersect stream[k][j].frame = {}
        /\ stream'[k][i].frame = G
    BY <1>0, <2>1, <2>3 DEF Streamed
  <2>5. k = c => G \intersect F = {}
    BY <1>2, <2>1, <2>3
  <2> HIDE DEF G
  <2>6. \A m \in G : cursor'[k][m] = 0
    <3>1. G \subseteq Move
      BY <1>1, <2>4 DEF AimedAt
    <3> QED BY <2>4, <2>5, <3>1
  <2>7. \A j \in Nat : IsInput(k, j)' /\ i # j =>
           G \intersect stream'[k][j].frame = {}
    <3> SUFFICES ASSUME NEW j \in Nat, IsInput(k, j)', i # j
                 PROVE  G \intersect stream'[k][j].frame = {}
      OBVIOUS
    <3>1. IsInput(k, At(k, j)) /\ stream'[k][j] = stream[k][At(k, j)]
      BY <2>1
    <3>2. At(k, i) # At(k, j) /\ At(k, j) \in Nat
      BY <2>2, <2>3
    <3> QED BY <2>4, <3>1, <3>2
  <2> QED BY <2>4, <2>6, <2>7
<1> QED BY <1>4, <1>5, <1>6, <1>7, <1>8 DEF IInv

\* The message a client handles, as a set of moves to make.
LEMMA ReceivedFrame ==
    ASSUME IInv, NEW c \in Client, ClientReceives(c)
    PROVE  \E F \in Frame :
              /\ F = {} \/ (IsInput(c, 1) /\ F = stream[c][1].frame)
              /\ IsInput(c, 1) => F = stream[c][1].frame
              /\ cursor' = [cursor EXCEPT ![c] =
                    [m \in Move |-> @[m] + IF m \in F THEN 1 ELSE 0]]
              /\ \A k \in Client : /\ client'[k].last = client[k].last
                                   /\ client'[k].mask = client[k].mask
<1> DEFINE msg == Head(stream[c])
<1>0. TypeOK
  BY DEF IInv
<1>1. /\ msg \in Message /\ msg = stream[c][1] /\ stream[c] # <<>>
      /\ 1 \in DOMAIN stream[c]
  <2>1. stream[c] # <<>> /\ stream[c] \in Seq(Message)
    BY <1>0, Typed DEF ClientReceives
  <2>2. Len(stream[c]) >= 1 /\ DOMAIN stream[c] = 1 .. Len(stream[c])
    BY <1>0, <2>1, HeadType
  <2> QED BY <1>0, <2>1, <2>2, HeadType
<1>2. /\ cursor \in [Client -> [Move -> Nat]] /\ client \in [Client -> ClientType]
  BY <1>0, Typed
<1>3. \/ /\ msg.kind = "switch"
         /\ client' = [client EXCEPT ![c].active = msg.enabled]
         /\ UNCHANGED cursor
      \/ /\ msg.kind = "input"
         /\ cursor' = [cursor EXCEPT ![c] =
               [m \in Move |-> @[m] + IF m \in msg.frame THEN 1 ELSE 0]]
         /\ UNCHANGED client
  BY DEF ClientReceives
<1> HIDE DEF msg
<1>4. CASE /\ msg.kind = "switch"
           /\ client' = [client EXCEPT ![c].active = msg.enabled]
           /\ UNCHANGED cursor
  <2>1. {} \in Frame
    BY DEF Frame
  <2>2. cursor = [cursor EXCEPT ![c] =
           [m \in Move |-> @[m] + IF m \in {} THEN 1 ELSE 0]]
    <3>1. cursor[c] = [m \in Move |-> cursor[c][m] + IF m \in {} THEN 1 ELSE 0]
      BY <1>2
    <3> QED BY <1>2, <3>1
  <2>3. \A k \in Client : /\ client'[k].last = client[k].last
                          /\ client'[k].mask = client[k].mask
    BY <1>2, <1>4 DEF ClientType
  <2>4. ~IsInput(c, 1)
    BY <1>1, <1>4 DEF IsInput
  <2> QED BY <1>4, <2>1, <2>2, <2>3, <2>4
<1>5. CASE /\ msg.kind = "input"
           /\ cursor' = [cursor EXCEPT ![c] =
                 [m \in Move |-> @[m] + IF m \in msg.frame THEN 1 ELSE 0]]
           /\ UNCHANGED client
  <2>1. msg.frame \in Frame /\ IsInput(c, 1)
    BY <1>1, <1>5, MessageType DEF IsInput
  <2> QED BY <1>1, <1>5, <2>1
<1> QED BY <1>3, <1>4, <1>5

\* The entries a datagram applies are frames the client has not applied, and
\* has applied afterwards; it forgets none it had.
LEMMA NewEntries ==
    ASSUME IInv, NEW c \in Client, NEW d \in wire[c]
    PROVE  LET a == Apply(client[c], d)
           IN  /\ \A i \in a.new :
                     /\ d.seq + 1 - i \in DOMAIN past.frames
                     /\ d.history[i] = past.frames[d.seq + 1 - i]
                     /\ d.history[i] \subseteq AimedAt(aimed, c)
                     /\ \A m \in d.history[i] : cursor[c][m] = 0
                     /\ Applied(a.client, d.seq + 1 - i)
               /\ a.new \subseteq 1 .. Len(d.history)
               /\ \A n \in DOMAIN past.frames :
                     Applied(client[c], n) => Applied(a.client, n)
<1> DEFINE k == client[c]
           a == Apply(k, d)
           last == IF d.seq > k.last THEN d.seq ELSE k.last
<1>0. TypeOK /\ Wired
  BY DEF IInv
<1>1. /\ k \in ClientType /\ d \in DatagramType /\ Carries(d, c)
      /\ DOMAIN past.frames = 1 .. server.seq /\ server.seq \in Nat
  BY <1>0, Typed DEF Wired
<1>2. /\ k.last \in Nat /\ d.seq \in Nat /\ last \in Nat
      /\ k.last <= last /\ d.seq <= last
      /\ Len(d.history) \in Nat /\ DOMAIN d.history = 1 .. Len(d.history)
      /\ Window \in Nat /\ k.mask \subseteq 0 .. Window - 1
  BY <1>1, MotionAssumption DEF ClientType, DatagramType
<1>3. /\ a.client.last = last
      /\ a.client.mask = Shifted(k, last)
            \union {last - (d.seq + 1 - i) : i \in a.new}
      /\ a.new = {i \in DOMAIN d.history :
                    /\ i <= d.seq /\ last - (d.seq + 1 - i) < Window
                    /\ last - (d.seq + 1 - i) \notin Shifted(k, last)}
  BY <1>1, ApplyType DEF ClientType
<1> HIDE DEF k, a, last
<1>4. \A n \in Nat : n <= k.last /\ last - n < Window /\ k.last - n \in k.mask
                     => last - n \in Shifted(k, last)
  <2> SUFFICES ASSUME NEW n \in Nat, n <= k.last, last - n < Window,
                      k.last - n \in k.mask
               PROVE  last - n \in Shifted(k, last)
    OBVIOUS
  <2>1. (k.last - n) + last - k.last = last - n
    BY <1>2
  <2>2. last - n \in 0 .. Window - 1
    BY <1>2
  <2> QED BY <2>1, <2>2 DEF Shifted
<1>5. ASSUME NEW i \in a.new
      PROVE  /\ d.seq + 1 - i \in DOMAIN past.frames
             /\ d.history[i] = past.frames[d.seq + 1 - i]
             /\ d.history[i] \subseteq AimedAt(aimed, c)
             /\ \A m \in d.history[i] : cursor[c][m] = 0
             /\ Applied(a.client, d.seq + 1 - i)
  <2> DEFINE n == d.seq + 1 - i
  <2>1. /\ i \in DOMAIN d.history /\ i \in 1 .. Len(d.history) /\ i <= d.seq
        /\ last - n < Window /\ last - n \notin Shifted(k, last)
    BY <1>2, <1>3
  <2>2. n \in Nat /\ n >= 1 /\ n <= d.seq
    BY <1>2, <2>1
  <2>3. d.seq <= server.seq
    BY <1>1 DEF Carries
  <2>4. /\ d.history[i] = past.frames[n]
        /\ past.frames[n] \subseteq AimedAt(aimed, c)
        /\ \A m \in past.frames[n] : cursor[c][m] # 0 => Applied(client[c], n)
    BY <1>1, <2>1 DEF Carries
  <2>5. last - n \in a.client.mask
    BY <1>3
  <2> HIDE DEF n
  <2>6. n \in DOMAIN past.frames
    BY <1>1, <1>2, <2>2, <2>3
  <2>7. ~Applied(client[c], n)
    <3> SUFFICES ASSUME n <= k.last,
                        k.last - n >= Window \/ k.last - n \in k.mask
                 PROVE  FALSE
      BY DEF Applied, k
    <3>1. CASE k.last - n >= Window
      BY <1>2, <2>1, <2>2, <3>1
    <3>2. CASE k.last - n \in k.mask
      BY <1>4, <2>1, <2>2, <3>2
    <3> QED BY <3>1, <3>2
  <2>8. Applied(a.client, n)
    <3>1. n <= a.client.last
      BY <1>2, <1>3, <2>2
    <3> QED BY <1>3, <2>5, <3>1 DEF Applied
  <2>9. \A m \in d.history[i] : cursor[c][m] = 0
    BY <2>4, <2>7
  <2> QED BY <2>4, <2>6, <2>8, <2>9 DEF n
<1>6. ASSUME NEW n \in DOMAIN past.frames, Applied(client[c], n)
      PROVE  Applied(a.client, n)
  <2>1. /\ n \in Nat /\ n <= k.last
        /\ k.last - n >= Window \/ k.last - n \in k.mask
    BY <1>1, <1>6 DEF Applied, k
  <2>2. n <= a.client.last
    BY <1>2, <1>3, <2>1
  <2>3. last - n >= Window \/ last - n \in Shifted(k, last)
    BY <1>2, <1>4, <2>1
  <2> QED BY <1>3, <2>2, <2>3 DEF Applied
<1>7. a.new \subseteq 1 .. Len(d.history)
  BY <1>2, <1>3
<1> QED BY <1>5, <1>6, <1>7 DEF a, k

\* A move is in at most one of them: the client makes it once.
LEMMA CountOnce ==
    ASSUME IInv, NEW c \in Client, NEW d \in wire[c], NEW m \in Move
    PROVE  LET new == Apply(client[c], d).new
           IN  Cardinality({i \in new : m \in d.history[i]}) =
                  IF \E i \in new : m \in d.history[i] THEN 1 ELSE 0
<1> DEFINE new == Apply(client[c], d).new
           S == {i \in new : m \in d.history[i]}
<1>0. TypeOK /\ Apart
  BY DEF IInv
<1>1. /\ new \subseteq 1 .. Len(d.history)
      /\ \A i \in new :
            /\ d.seq + 1 - i \in DOMAIN past.frames
            /\ d.history[i] = past.frames[d.seq + 1 - i]
  BY NewEntries
<1>2. d.seq \in Nat
  BY <1>0, Typed DEF DatagramType
<1> HIDE DEF new
<1>3. CASE \E i \in new : m \in d.history[i]
  <2>1. PICK i \in new : m \in d.history[i]
    BY <1>3
  <2>2. S = {i}
    <3> SUFFICES ASSUME NEW j \in new, m \in d.history[j]
                 PROVE  j = i
      BY <2>1
    <3>1. d.seq + 1 - i = d.seq + 1 - j
      BY <1>0, <1>1, <2>1 DEF Apart
    <3>2. i \in Int /\ j \in Int
      BY <1>1
    <3> QED BY <1>2, <3>1, <3>2
  <2>3. Cardinality(S) = 1
    BY <2>2, FS_Singleton
  <2> QED BY <1>3, <2>3 DEF new
<1>4. CASE ~\E i \in new : m \in d.history[i]
  <2>1. S = {}
    BY <1>4
  <2>2. Cardinality(S) = 0
    BY <2>1, FS_EmptySet
  <2> QED BY <1>4, <2>2 DEF new
<1> QED BY <1>3, <1>4

\* The moves a datagram makes.
MovesOf(c, d) ==
    {m \in Move : \E i \in Apply(client[c], d).new : m \in d.history[i]}

\* What they are.
LEMMA MovesOfDatagram ==
    ASSUME IInv, NEW c \in Client, NEW d \in wire[c], NEW m \in MovesOf(c, d)
    PROVE  /\ m \in Move /\ m \in AimedAt(aimed, c) /\ cursor[c][m] = 0
           /\ \E n \in DOMAIN past.frames :
                 /\ m \in past.frames[n]
                 /\ Applied(Apply(client[c], d).client, n)
<1>1. PICK i \in Apply(client[c], d).new : m \in d.history[i]
  BY DEF MovesOf
<1> QED BY <1>1, NewEntries DEF MovesOf

\* What an active client does with a datagram.
LEMMA ArrivalEffect ==
    ASSUME IInv, NEW c \in Client, NEW d \in wire[c], DatagramArrives(c, d),
           client[c].active
    PROVE  /\ client' = [client EXCEPT ![c] = Apply(client[c], d).client]
           /\ cursor' = [cursor EXCEPT ![c] = Delivery!Carried(@, MovesOf(c, d))]
           /\ \A k \in Client, m \in Move :
                 cursor'[k][m] = IF k = c /\ m \in MovesOf(c, d)
                                 THEN cursor[k][m] + 1 ELSE cursor[k][m]
<1> DEFINE new == Apply(client[c], d).new
           Count(m) == Cardinality({i \in new : m \in d.history[i]})
           row == [m \in Move |-> cursor[c][m] + Count(m)]
<1>1. cursor \in [Client -> [Move -> Nat]]
  BY Typed DEF IInv
<1>2. /\ client' = [client EXCEPT ![c] = Apply(client[c], d).client]
      /\ cursor' = [cursor EXCEPT ![c] = row]
  BY DEF DatagramArrives
<1>3. \A m \in Move : Count(m) = IF m \in MovesOf(c, d) THEN 1 ELSE 0
  BY CountOnce DEF MovesOf
<1> HIDE DEF Count
<1>4. row = Delivery!Carried(cursor[c], MovesOf(c, d))
  BY <1>3 DEF Delivery!Carried, Delivery!Move, Move
<1>5. \A m \in Move : row[m] = IF m \in MovesOf(c, d)
                               THEN cursor[c][m] + 1 ELSE cursor[c][m]
  BY <1>1, <1>3
<1> HIDE DEF row
<1>6. \A k \in Client, m \in Move :
         cursor'[k][m] = IF k = c /\ m \in MovesOf(c, d)
                         THEN cursor[k][m] + 1 ELSE cursor[k][m]
  BY <1>1, <1>2, <1>5
<1> QED BY <1>2, <1>4, <1>6

\* Applying a datagram keeps the invariant.
LEMMA ArrivalKeeps ==
    ASSUME IInv, NEW c \in Client, NEW d \in wire[c], DatagramArrives(c, d),
           client[c].active
    PROVE  IInv'
<1> DEFINE M == MovesOf(c, d)
           after == Apply(client[c], d).client
<1>0. TypeOK /\ Wired /\ Remembering /\ Apart /\ Waiting /\ Streamed
  BY DEF IInv
<1>1. TypeOK'
  BY <1>0, ClientTypes
<1>2. /\ server' = server /\ stream' = stream /\ aimed' = aimed /\ past' = past
      /\ wire' = [wire EXCEPT ![c] = @ \ {d}]
  BY DEF DatagramArrives
<1>3. /\ server.seq \in Nat /\ wire \in [Client -> SUBSET DatagramType]
      /\ \A n \in 1 .. server.seq : past.frames[n] \subseteq Move
      /\ DOMAIN past.frames = 1 .. server.seq
      /\ Memory \in DatagramType /\ server.current \in Client \union {None}
      /\ DOMAIN aimed \subseteq Move /\ client \in [Client -> ClientType]
      /\ server.pending \subseteq Move
  BY <1>0, Typed DEF Frame
<1>4. /\ \A m \in M : /\ m \in Move /\ m \in AimedAt(aimed, c)
                      /\ \E n \in DOMAIN past.frames :
                            m \in past.frames[n] /\ Applied(after, n)
      /\ \A n \in DOMAIN past.frames :
            Applied(client[c], n) => Applied(after, n)
  BY MovesOfDatagram, NewEntries
<1>5. /\ client' = [client EXCEPT ![c] = after]
      /\ \A k \in Client, m \in Move :
            cursor'[k][m] = IF k = c /\ m \in M
                            THEN cursor[k][m] + 1 ELSE cursor[k][m]
  BY ArrivalEffect
<1> HIDE DEF M, after
<1>6. client'[c] = after /\ \A k \in Client : k # c => client'[k] = client[k]
  BY <1>3, <1>5
<1>7. ASSUME NEW k \in Client, NEW e \in DatagramType, Carries(e, k)
      PROVE  CarriesNext(e, k)
  <2>1. CASE k # c
    <3>1. server'.seq \in Nat /\ server.seq <= server'.seq
      BY <1>2, <1>3
    <3>2. \A n \in 1 .. server.seq : \A m \in past.frames[n] :
             cursor'[k][m] = cursor[k][m]
      BY <1>3, <1>5, <2>1
    <3> QED BY <1>2, <1>3, <1>6, <1>7, <2>1, <3>1, <3>2, Kept
  <2>2. CASE k = c
    <3> SUFFICES ASSUME NEW i \in DOMAIN e.history,
                        NEW m \in past.frames[e.seq + 1 - i],
                        cursor'[c][m] # 0
                 PROVE  Applied(client'[c], e.seq + 1 - i)
      BY <1>2, <1>7, <2>2 DEF Carries, CarriesNext
    <3> DEFINE n == e.seq + 1 - i
    <3>1. n \in DOMAIN past.frames
      <4>1. /\ e.seq \in Nat /\ Len(e.history) \in Nat
            /\ DOMAIN e.history = 1 .. Len(e.history)
        BY DEF DatagramType
      <4>2. Len(e.history) <= e.seq /\ e.seq <= server.seq
        BY <1>7 DEF Carries
      <4> QED BY <1>3, <4>1, <4>2
    <3>2. cursor[c][m] # 0 => Applied(client[c], n)
      BY <1>7, <2>2 DEF Carries
    <3> HIDE DEF n
    <3>3. m \in past.frames[n] /\ m \in Move
      BY <1>3, <3>1 DEF n
    <3>4. CASE m \in M
      <4>1. PICK j \in DOMAIN past.frames :
               m \in past.frames[j] /\ Applied(after, j)
        BY <1>4, <3>4
      <4>2. j = n
        BY <1>0, <3>1, <3>3, <4>1 DEF Apart
      <4> QED BY <1>6, <4>1, <4>2 DEF n
    <3>5. CASE m \notin M
      <4>1. cursor[c][m] # 0
        BY <1>5, <3>3, <3>5
      <4>2. Applied(after, n)
        BY <1>4, <3>1, <3>2, <4>1
      <4> QED BY <1>6, <4>2 DEF n
    <3> QED BY <3>4, <3>5
  <2> QED BY <2>1, <2>2
<1>8. Wired'
  <2>1. \A k \in Client : wire'[k] \subseteq wire[k]
    BY <1>2, <1>3
  <2> QED BY <1>0, <1>3, <1>7, <2>1, CarriesAfter DEF Wired
<1>9. Remembering'
  <2>1. Memory' = Memory
    BY <1>2 DEF Memory
  <2>2. server.current # None => CarriesNext(Memory, server.current)
    BY <1>0, <1>3, <1>7 DEF Remembering
  <2> QED BY <1>0, <1>2, <2>1, <2>2, CarriesAfter DEF Remembering
<1>10. Apart'
  <2>1. \A k \in Client, m \in Move : cursor'[k][m] # 0 => m \in DOMAIN aimed
    BY <1>0, <1>4, <1>5 DEF Apart, AimedAt
  <2> QED BY <1>0, <1>2, <2>1 DEF Apart
<1>11. Waiting'
  <2>1. \A m \in server.pending : m \notin M /\ m \in Move
    BY <1>0, <1>3, <1>4 DEF Apart
  <2>2. server.pending # {} => server.current \in Client
    BY <1>0, <1>3 DEF TypeOK
  <2>3. \A m \in server.pending :
           cursor'[server.current][m] = cursor[server.current][m]
    BY <1>5, <2>1, <2>2
  <2> QED BY <1>0, <1>2, <2>3 DEF Waiting
<1>12. Streamed'
  <2> SUFFICES ASSUME NEW k \in Client, NEW i \in Nat, IsInput(k, i)'
               PROVE  /\ stream[k][i].frame
                            \subseteq AimedAt(aimed, k) \ server.pending
                      /\ \A m \in stream[k][i].frame : cursor'[k][m] = 0
                      /\ \A n \in DOMAIN past.frames :
                            stream[k][i].frame \intersect past.frames[n] = {}
                      /\ \A j \in Nat : IsInput(k, j)' /\ i # j =>
                            stream[k][i].frame \intersect stream[k][j].frame = {}
    BY <1>2 DEF Streamed
  <2>1. \A j \in Nat : IsInput(k, j)' <=> IsInput(k, j)
    BY <1>2 DEF IsInput
  <2>2. /\ stream[k][i].frame \subseteq AimedAt(aimed, k) \ server.pending
        /\ \A m \in stream[k][i].frame : cursor[k][m] = 0
        /\ \A n \in DOMAIN past.frames :
              stream[k][i].frame \intersect past.frames[n] = {}
        /\ \A j \in Nat : IsInput(k, j) /\ i # j =>
              stream[k][i].frame \intersect stream[k][j].frame = {}
    BY <1>0, <2>1 DEF Streamed
  <2>3. \A m \in stream[k][i].frame : m \in Move /\ m \notin M
    BY <1>3, <1>4, <2>2 DEF AimedAt
  <2> QED BY <1>5, <2>1, <2>2, <2>3
<1> QED BY <1>1, <1>8, <1>9, <1>10, <1>11, <1>12 DEF IInv

\* So does ignoring one, or losing it.
LEMMA IgnoredKeeps ==
    ASSUME IInv, TypeOK', NEW c \in Client, NEW d \in wire[c],
           wire' = [wire EXCEPT ![c] = @ \ {d}],
           UNCHANGED <<server, client, stream, aimed, cursor, past>>
    PROVE  IInv'
<1>0. TypeOK /\ Wired /\ Remembering /\ Apart /\ Waiting /\ Streamed
  BY DEF IInv
<1>1. /\ server' = server /\ client' = client /\ stream' = stream
      /\ aimed' = aimed /\ cursor' = cursor /\ past' = past
  OBVIOUS
<1>2. \A k \in Client : wire'[k] \subseteq wire[k]
  BY <1>0, Typed
<1>3. Wired' /\ Remembering'
  BY <1>0, <1>1, <1>2 DEF Wired, Remembering, Carries, Memory
<1>4. Apart' /\ Waiting'
  BY <1>0, <1>1 DEF Apart, Waiting
<1>5. Streamed'
  BY <1>0, <1>1 DEF Streamed, IsInput
<1> QED BY <1>3, <1>4, <1>5 DEF IInv

\* What the clients and the network do keeps the invariant.
LEMMA ClientsKeep ==
    ASSUME IInv, NEW c \in Client,
           \/ ClientReceives(c)
           \/ \E d \in wire[c] : DatagramArrives(c, d) \/ DatagramLost(c, d)
    PROVE  IInv'
<1>0. TypeOK
  BY DEF IInv
<1>1. TypeOK'
  BY <1>0, ClientTypes
<1>2. CASE ClientReceives(c)
  <2>1. PICK F \in Frame :
              /\ F = {} \/ (IsInput(c, 1) /\ F = stream[c][1].frame)
              /\ cursor' = [cursor EXCEPT ![c] =
                    [m \in Move |-> @[m] + IF m \in F THEN 1 ELSE 0]]
              /\ \A k \in Client : /\ client'[k].last = client[k].last
                                   /\ client'[k].mask = client[k].mask
    BY <1>2, ReceivedFrame
  <2>2. \A k \in Client, m \in Move :
           cursor'[k][m] = IF k = c /\ m \in F THEN cursor[k][m] + 1
                           ELSE cursor[k][m]
    BY <1>0, <2>1, Typed
  <2>3. /\ stream[c] # <<>> /\ stream' = [stream EXCEPT ![c] = Tail(@)]
        /\ UNCHANGED <<server, wire, aimed, past>>
    BY <1>2 DEF ClientReceives
  <2> QED BY <1>1, <2>1, <2>2, <2>3, ReceivedKeeps
<1>3. ASSUME NEW d \in wire[c], DatagramArrives(c, d)
      PROVE  IInv'
  <2>1. CASE client[c].active
    BY <1>3, <2>1, ArrivalKeeps
  <2>2. CASE ~client[c].active
    <3>1. /\ wire' = [wire EXCEPT ![c] = @ \ {d}]
          /\ UNCHANGED <<server, client, stream, aimed, cursor, past>>
      BY <1>3, <2>2 DEF DatagramArrives
    <3> QED BY <1>1, <3>1, IgnoredKeeps
  <2> QED BY <2>1, <2>2
<1>4. ASSUME NEW d \in wire[c], DatagramLost(c, d)
      PROVE  IInv'
  <2>1. /\ wire' = [wire EXCEPT ![c] = @ \ {d}]
        /\ UNCHANGED <<server, client, stream, aimed, cursor, past>>
    BY <1>4 DEF DatagramLost
  <2> QED BY <1>1, <2>1, IgnoredKeeps
<1> QED BY <1>2, <1>3, <1>4

-----------------------------------------------------------------------------
(* Theorems.                                                               *)

\* The invariant holds to begin with.
LEMMA InitKeeps ==
    ASSUME Init
    PROVE  IInv
<1>1. /\ server.current = None /\ server.pending = {} /\ server.history = <<>>
      /\ wire = [c \in Client |-> {}] /\ stream = [c \in Client |-> <<>>]
      /\ past.frames = <<>> /\ cursor = [c \in Client |-> [m \in Move |-> 0]]
  BY DEF Init
<1>2. TypeOK
  BY InitTypes
<1>3. Wired
  BY <1>1 DEF Wired
<1>4. Remembering
  BY <1>1 DEF Remembering
<1>5. Apart
  BY <1>1 DEF Apart
<1>6. Waiting
  BY <1>1 DEF Waiting
<1>7. Streamed
  BY <1>1 DEF Streamed, IsInput
<1> QED BY <1>2, <1>3, <1>4, <1>5, <1>6, <1>7 DEF IInv

\* And every step keeps it.
LEMMA NextKeeps ==
    ASSUME IInv, ~ReusePorts, [Next]_vars
    PROVE  IInv'
<1>1. CASE UNCHANGED vars
  BY <1>1, StutterKeeps
<1>2. CASE MoveCoalesced
  BY <1>2, MoveCoalescedKeeps
<1>3. CASE MoveAtFullRate
  BY <1>3, MoveAtFullRateKeeps
<1>4. CASE Flush
  BY <1>4, FlushKeeps
<1>5. CASE \/ \E new \in Client \union {None} : SwitchTo(new)
           \/ ReleaseKeys \/ Pause \/ Resume
           \/ \E c \in Client, inPlace \in BOOLEAN : Reconnect(c, inPlace)
  BY <1>5, ControlsKeep
<1>6. ASSUME NEW c \in Client,
             \/ ClientReceives(c)
             \/ \E d \in wire[c] : DatagramArrives(c, d) \/ DatagramLost(c, d)
      PROVE  IInv'
  BY <1>6, ClientsKeep
<1> QED BY <1>1, <1>2, <1>3, <1>4, <1>5, <1>6 DEF Next

\* Wherever a datagram is and whatever was flushed, lost or reset since, its
\* entries are the frames their positions say, made for that client, and a
\* frame the client has made is marked as applied.
THEOREM Invariance == ~ReusePorts /\ Spec => []IInv
<1>1. ASSUME ~ReusePorts PROVE Spec => []IInv
  <2>1. Init => IInv
    BY InitKeeps
  <2>2. IInv /\ [Next]_vars => IInv'
    BY <1>1, NextKeeps
  <2> QED BY <2>1, <2>2, PTL DEF Spec
<1> QED BY <1>1

\* A step of Motion is a step of MotionDelivery or none.
LEMMA Simulation ==
    ASSUME IInv, [Next]_vars
    PROVE  [Delivery!Next]_(Delivery!vars)
<1>0. TypeOK
  BY DEF IInv
<1>1. CASE Moves
  <2>1. /\ server.current \in Client /\ Len(aimed) < MaxMoves
        /\ aimed' = Append(aimed, server.current) /\ cursor' = cursor
    BY <1>0, <1>1, MovesType DEF Moves
  <2>2. Delivery!MoveMade(server.current)
    BY <2>1 DEF Delivery!MoveMade
  <2> QED BY <2>1, <2>2 DEF Delivery!Next
<1>2. ASSUME NEW c \in Client, ClientReceives(c)
      PROVE  [Delivery!Next]_(Delivery!vars)
  <2>1. PICK F \in Frame :
              /\ F = {} \/ (IsInput(c, 1) /\ F = stream[c][1].frame)
              /\ cursor' = [cursor EXCEPT ![c] =
                    [m \in Move |-> @[m] + IF m \in F THEN 1 ELSE 0]]
              /\ \A k \in Client : /\ client'[k].last = client[k].last
                                   /\ client'[k].mask = client[k].mask
    BY <1>2, ReceivedFrame
  <2>2. aimed' = aimed
    BY <1>2 DEF ClientReceives
  <2>3. \A m \in F : m \in DOMAIN aimed /\ aimed[m] = c /\ cursor[c][m] = 0
    BY <2>1 DEF IInv, Streamed, AimedAt
  <2>4. cursor' = [cursor EXCEPT ![c] = Delivery!Carried(@, F)]
    BY <2>1 DEF Delivery!Carried, Delivery!Move, Move
  <2>5. Delivery!Deliver(c, F)
    BY <2>2, <2>3, <2>4 DEF Delivery!Deliver
  <2>6. F \in SUBSET Delivery!Move
    BY <2>1 DEF Delivery!Move, Move, Frame
  <2> QED BY <2>5, <2>6 DEF Delivery!Next
<1>3. ASSUME NEW c \in Client, NEW d \in wire[c], DatagramArrives(c, d),
             client[c].active
      PROVE  [Delivery!Next]_(Delivery!vars)
  <2> DEFINE M == MovesOf(c, d)
  <2>1. aimed' = aimed
    BY <1>3 DEF DatagramArrives
  <2>2. \A m \in M : m \in DOMAIN aimed /\ aimed[m] = c /\ cursor[c][m] = 0
    BY MovesOfDatagram DEF AimedAt
  <2>3. cursor' = [cursor EXCEPT ![c] = Delivery!Carried(@, M)]
    BY <1>3, ArrivalEffect
  <2>4. M \in SUBSET Delivery!Move
    BY DEF MovesOf, Delivery!Move, Move
  <2> HIDE DEF M
  <2>5. Delivery!Deliver(c, M)
    BY <2>1, <2>2, <2>3 DEF Delivery!Deliver
  <2> QED BY <2>4, <2>5 DEF Delivery!Next
<1>4. CASE aimed' = aimed /\ cursor' = cursor
  BY <1>4 DEF Delivery!vars
<1>5. CASE \/ \E new \in Client \union {None} : SwitchTo(new)
           \/ ReleaseKeys \/ Pause \/ Resume \/ Flush
           \/ \E c \in Client, inPlace \in BOOLEAN : Reconnect(c, inPlace)
  <2>1. aimed' = aimed /\ cursor' = cursor
    BY <1>5 DEF SwitchTo, ReleaseKeys, Pause, Resume, Flush, Reconnect, Control
  <2> QED BY <1>4, <2>1
<1>6. ASSUME NEW c \in Client, NEW d \in wire[c],
             \/ DatagramArrives(c, d) /\ ~client[c].active
             \/ DatagramLost(c, d)
      PROVE  [Delivery!Next]_(Delivery!vars)
  <2>1. aimed' = aimed /\ cursor' = cursor
    BY <1>6 DEF DatagramArrives, DatagramLost
  <2> QED BY <1>4, <2>1
<1>7. CASE UNCHANGED vars
  BY <1>4, <1>7 DEF vars
<1>8. MoveCoalesced \/ MoveAtFullRate => Moves
  BY DEF MoveCoalesced, MoveAtFullRate
<1> QED BY <1>1, <1>2, <1>3, <1>5, <1>6, <1>7, <1>8 DEF Next

\* Unless a connection takes the place of another from the same addr:port,
\* forwarding implements MotionDelivery: whatever is lost, overtaken, repeated
\* or sent on the stream, and however clients come and go, no pointer makes a
\* move twice, and none makes one that was made for another machine.
THEOREM Implementation == ~ReusePorts /\ Spec => DeliversOnce
<1>1. Init => Delivery!Init
  BY DEF Init, Delivery!Init, Delivery!Move, Move
<1>2. IInv /\ [Next]_vars => [Delivery!Next]_(Delivery!vars)
  BY Simulation
<1>3. ASSUME ~ReusePorts PROVE Spec => DeliversOnce
  <2>1. Spec => []IInv
    BY <1>3, Invariance
  <2> QED BY <1>1, <1>2, <2>1, PTL DEF Spec, DeliversOnce, Delivery!Spec
<1> QED BY <1>3

-----------------------------------------------------------------------------
(* Positions.  Why a client that has seen the newest datagram is where it  *)
(* should be.                                                              *)

\* No pointer has made a move twice.
Once == \A c \in Client, m \in Move : cursor[c][m] <= 1

\* The moves of a frame marked as applied have been made.
Marked ==
    \A c \in Client, n \in DOMAIN past.frames :
        n <= client[c].last /\ client[c].last - n \in client[c].mask =>
            \A m \in past.frames[n] : cursor[c][m] # 0

\* A frame with a move made since the last switch or pause.
Lives(n) == n \in DOMAIN past.frames /\ past.frames[n] \intersect past.live # {}

\* Each such move is accumulated, on the stream, made or in a frame.
Located(c) ==
    \A m \in past.live :
        \/ m \in server.pending
        \/ \E i \in Nat : IsInput(c, i) /\ m \in stream[c][i].frame
        \/ cursor[c][m] # 0
        \/ \E n \in DOMAIN past.frames : m \in past.frames[n]

\* The next datagram will repeat every frame recent enough, ...
Repeated ==
    \A n \in Nat : Lives(n) /\ server.seq - n < HistoryLen =>
        server.seq - n < Len(server.history)

\* ... a datagram with the newest frame does ...
Complete(h) ==
    \A n \in Nat : Lives(n) /\ server.seq - n <= HistoryLen =>
        server.seq - n < Len(h)

Newest(c) == \A d \in wire[c] : d.seq = server.seq => Complete(d.history)

\* ... and a client that has had one has applied them all.
Seen(c) ==
    client[c].last = server.seq =>
        \A n \in Nat : Lives(n) /\ server.seq - n <= HistoryLen =>
            server.seq - n \in client[c].mask

Position(c) == Located(c) /\ Repeated /\ Newest(c) /\ Seen(c)

Exact ==
    /\ Once
    /\ Marked
    /\ \A c \in Client : server.current = c /\ server.coalesce => Position(c)


\* It gives what the run checks.
LEMMA ExactEnough ==
    ASSUME IInv, Exact
    PROVE  MotionInv
<1>1. TypeOK /\ Exact
  BY DEF IInv
<1>2. ASSUME NEW c \in Client, server.current = c, server.coalesce,
             client[c].last = server.seq, NEW m \in past.live
      PROVE  \/ cursor[c][m] = 1
             \/ m \in server.pending
             \/ \E i \in DOMAIN stream[c] :
                   stream[c][i].kind = "input" /\ m \in stream[c][i].frame
             \/ \E n \in 1 .. server.seq - HistoryLen - 1 : m \in past.frames[n]
  <2>1. Located(c) /\ Seen(c)
    BY <1>1, <1>2 DEF Exact, Position
  <2>2. /\ server.seq \in Nat /\ DOMAIN past.frames = 1 .. server.seq
        /\ cursor \in [Client -> [Move -> Nat]] /\ m \in Move
    BY <1>1, Typed DEF TypeOK, Frame
  <2>3. HistoryLen \in Nat
    BY MotionAssumption
  <2>4. cursor[c][m] # 0 => cursor[c][m] = 1
    <3>1. cursor[c][m] \in Nat
      BY <2>2
    <3>2. cursor[c][m] <= 1
      BY <1>1, <2>2 DEF Exact, Once
    <3> QED BY <3>1, <3>2
  <2>5. CASE \E n \in DOMAIN past.frames : m \in past.frames[n]
    <3>1. PICK n \in DOMAIN past.frames : m \in past.frames[n]
      BY <2>5
    <3>2. n \in Nat /\ n <= server.seq /\ n >= 1
      BY <2>2
    <3>3. Lives(n)
      BY <1>2, <3>1 DEF Lives
    <3>4. CASE server.seq - n <= HistoryLen
      <4>1. server.seq - n \in client[c].mask
        BY <1>2, <2>1, <3>2, <3>3, <3>4 DEF Seen
      <4>2. cursor[c][m] # 0
        BY <1>1, <1>2, <3>1, <3>2, <4>1 DEF Exact, Marked
      <4> QED BY <2>4, <4>2
    <3>5. CASE ~(server.seq - n <= HistoryLen)
      <4>1. n \in 1 .. server.seq - HistoryLen - 1
        BY <2>2, <2>3, <3>2, <3>5
      <4> QED BY <3>1, <4>1
    <3> QED BY <3>4, <3>5
  <2> QED BY <1>2, <2>1, <2>4, <2>5 DEF Located, IsInput
<1> QED BY <1>1, <1>2 DEF MotionInv, PositionExact

-----------------------------------------------------------------------------
(* What keeps the parts of it.                                             *)

\* A client that makes no move and gives up no frame stays right about those
\* it marked, whatever is sent.
LEMMA MarkedStill ==
    ASSUME IInv, Once, Marked, cursor' = cursor,
           server'.seq \in Nat, server.seq <= server'.seq,
           DOMAIN past'.frames = 1 .. server'.seq,
           \A n \in 1 .. server.seq : past'.frames[n] = past.frames[n],
           \A c \in Client :
              \/ client'[c].last = client[c].last /\ client'[c].mask = client[c].mask
              \/ client'[c].mask = {}
    PROVE  Once' /\ Marked'
<1>1. Once'
  BY DEF Once
<1>2. /\ TypeOK /\ server.seq \in Nat /\ DOMAIN past.frames = 1 .. server.seq
      /\ \A c \in Client : client[c].last \in Nat /\ client[c].last <= server.seq
  BY Typed DEF IInv, TypeOK
<1>3. ASSUME NEW c \in Client, NEW n \in DOMAIN past'.frames,
             n <= client'[c].last, client'[c].last - n \in client'[c].mask,
             NEW m \in past'.frames[n]
      PROVE  cursor'[c][m] # 0
  <2>1. client'[c].last = client[c].last /\ client'[c].mask = client[c].mask
    BY <1>3
  <2>2. n \in 1 .. server.seq
    BY <1>2, <1>3, <2>1
  <2>3. m \in past.frames[n]
    BY <1>3, <2>2
  <2> QED BY <1>2, <1>3, <2>1, <2>2, <2>3 DEF Marked
<1>4. Marked'
  BY <1>3 DEF Marked
<1> QED BY <1>1, <1>4

\* What was repeated is, as long as nothing is sent.
LEMMA RepeatedStill ==
    ASSUME NEW c \in Client, Repeated, Newest(c),
           server'.seq = server.seq, server'.history = server.history,
           wire'[c] \subseteq wire[c],
           \A n \in Nat : Lives(n)' => Lives(n)
    PROVE  Repeated' /\ Newest(c)'
<1>1. Repeated'
  BY DEF Repeated
<1>2. Newest(c)'
  BY DEF Newest, Complete
<1> QED BY <1>1, <1>2

\* What was seen is.
LEMMA SeenStill ==
    ASSUME NEW c \in Client, Seen(c), server'.seq = server.seq,
           client'[c].last = client[c].last, client'[c].mask = client[c].mask,
           \A n \in Nat : Lives(n)' => Lives(n)
    PROVE  Seen(c)'
  BY DEF Seen

\* A switch or a pause leaves nothing to be exact about.
LEMMA Anew ==
    ASSUME past'.live = {}, NEW c \in Client
    PROVE  Position(c)'
<1>1. \A n \in Nat : ~Lives(n)'
  BY DEF Lives
<1>2. Located(c)'
  BY DEF Located
<1>3. Repeated' /\ Newest(c)' /\ Seen(c)'
  BY <1>1 DEF Repeated, Newest, Complete, Seen
<1> QED BY <1>2, <1>3 DEF Position

-----------------------------------------------------------------------------
(* The steps.                                                              *)

\* A move is accumulated, or sent by itself when nothing is promised of it.
LEMMA MoveExact ==
    ASSUME IInv, Exact, MoveCoalesced \/ MoveAtFullRate, TypeOK'
    PROVE  Exact'
<1>0. TypeOK /\ Once /\ Marked
  BY DEF IInv, Exact
<1>1. /\ server \in ServerType /\ server.seq \in Nat
      /\ DOMAIN past.frames = 1 .. server.seq
      /\ past \in [frames : Seq(Frame), live : Frame, controls : Nat]
  BY <1>0, Typed DEF TypeOK
<1>2. Moves /\ client' = client /\ cursor' = cursor
  BY DEF MoveCoalesced, MoveAtFullRate, Moves
<1>3. Len(aimed') \in Move /\ Len(aimed') \notin DOMAIN aimed
  BY <1>0, <1>2, MovesType
<1>4. CASE MoveCoalesced
  <2>1. /\ server' = [server EXCEPT !.pending = @ \union {Len(aimed')}]
        /\ past' = [past EXCEPT !.live = @ \union {Len(aimed')}]
        /\ wire' = wire /\ stream' = stream
    BY <1>4 DEF MoveCoalesced
  <2>2. /\ server'.seq = server.seq /\ server'.history = server.history
        /\ server'.current = server.current
        /\ server'.coalesce = server.coalesce
        /\ server'.pending = server.pending \union {Len(aimed')}
    BY <1>1, <2>1 DEF ServerType
  <2>3. /\ past'.frames = past.frames
        /\ past'.live = past.live \union {Len(aimed')}
    BY <1>1, <2>1
  <2>4. Once' /\ Marked'
    BY <1>0, <1>1, <1>2, <2>2, <2>3, MarkedStill
  <2>5. \A n \in Nat : Lives(n)' => Lives(n)
    BY <1>3, <2>3, NotMade DEF Lives
  <2>6. ASSUME NEW c \in Client, server'.current = c, server'.coalesce
        PROVE  Position(c)'
    <3>1. Located(c) /\ Repeated /\ Newest(c) /\ Seen(c)
      BY <2>2, <2>6 DEF Exact, Position
    <3>2. Repeated' /\ Newest(c)'
      BY <2>1, <2>2, <2>5, <3>1, RepeatedStill
    <3>3. Seen(c)'
      BY <1>2, <2>2, <2>5, <3>1, SeenStill
    <3>4. Located(c)'
      BY <1>2, <2>1, <2>2, <2>3, <3>1 DEF Located, IsInput
    <3> QED BY <3>2, <3>3, <3>4 DEF Position
  <2> QED BY <2>4, <2>6 DEF Exact
<1>5. CASE MoveAtFullRate
  <2>1. ~server.coalesce
    BY <1>5 DEF MoveAtFullRate
  <2>2. server'.coalesce = server.coalesce
    BY <1>1, <1>5 DEF MoveAtFullRate, ServerType
  <2>3. /\ server'.seq \in Nat /\ server.seq <= server'.seq
        /\ DOMAIN past'.frames = 1 .. server'.seq
        /\ \A n \in 1 .. server.seq : past'.frames[n] = past.frames[n]
    <3>1. CASE /\ server' = [server EXCEPT !.seq = @ + 1]
               /\ past' = [past EXCEPT !.frames = Append(@, {Len(aimed')})]
      <4>1. server'.seq = server.seq + 1
        BY <1>1, <3>1 DEF ServerType
      <4>2. {Len(aimed')} \in Frame
        BY <1>3 DEF Frame
      <4> DEFINE frame == {Len(aimed')}
      <4> HIDE DEF frame
      <4>3. past' = [past EXCEPT !.frames = Append(@, frame)] /\ frame \in Frame
        BY <3>1, <4>2 DEF frame
      <4>4. /\ past'.frames \in Seq(Frame)
            /\ Len(past'.frames) = server.seq + 1
            /\ \A n \in 1 .. server.seq : past'.frames[n] = past.frames[n]
        BY <1>0, <4>3, FramesType
      <4> QED BY <1>1, <4>1, <4>4
    <3>2. CASE server'.seq = server.seq /\ past' = past
      BY <1>1, <3>2
    <3>3. \/ /\ server' = [server EXCEPT !.seq = @ + 1]
             /\ past' = [past EXCEPT !.frames = Append(@, {Len(aimed')})]
          \/ server'.seq = server.seq /\ past' = past
      BY <1>1, <1>5 DEF MoveAtFullRate, ServerType
    <3> QED BY <3>1, <3>2, <3>3
  <2>4. Once' /\ Marked'
    BY <1>0, <1>2, <2>3, MarkedStill
  <2> QED BY <2>1, <2>2, <2>4 DEF Exact
<1> QED BY <1>4, <1>5

\* The datagram sent repeats all that is recent enough, and will be repeated.
LEMMA SentExact ==
    ASSUME IInv, Exact, NEW frame \in Frame, frame = server.pending,
           SendDatagram(frame, WithFrame(frame, server.history)),
           server'.seq = server.seq + 1, server'.current = server.current,
           server'.coalesce = server.coalesce, server'.pending = {},
           server'.history = Remembered(frame, server.history),
           past' = [past EXCEPT !.frames = Append(@, frame)],
           client' = client, cursor' = cursor
    PROVE  Exact'
<1>0. TypeOK /\ Once /\ Marked
  BY DEF IInv, Exact
<1>1. /\ server.seq \in Nat /\ DOMAIN past.frames = 1 .. server.seq
      /\ past \in [frames : Seq(Frame), live : Frame, controls : Nat]
      /\ server.history \in Seq(Frame) /\ Len(server.history) \in Nat
      /\ wire \in [Client -> SUBSET DatagramType]
      /\ HistoryLen \in Nat \ {0}
  BY <1>0, Typed, MotionAssumption DEF TypeOK
<1>2. /\ past'.frames \in Seq(Frame) /\ Len(past'.frames) = server.seq + 1
      /\ past'.frames[server.seq + 1] = frame
      /\ \A n \in 1 .. server.seq : past'.frames[n] = past.frames[n]
  BY <1>0, FramesType
<1>3. DOMAIN past'.frames = 1 .. server'.seq /\ past'.live = past.live
  BY <1>1, <1>2
<1>4. Once' /\ Marked'
  <2>1. server'.seq \in Nat /\ server.seq <= server'.seq
    BY <1>1
  <2> QED BY <1>0, <1>2, <1>3, <2>1, MarkedStill
<1>5. \A n \in Nat : Lives(n)' => (n = server.seq + 1 \/ Lives(n)) /\ n \in 1 .. server.seq + 1
  BY <1>1, <1>2, <1>3 DEF Lives
<1>6. ASSUME NEW c \in Client, server'.current = c, server'.coalesce
      PROVE  Position(c)'
  <2>1. Located(c) /\ Repeated /\ Newest(c) /\ Seen(c)
    BY <1>6 DEF Exact, Position
  <2>2. stream' = stream /\ wire' = [wire EXCEPT ![c] = @ \union
           {[seq |-> server.seq + 1,
             history |-> WithFrame(frame, server.history)]}]
    BY <1>6 DEF SendDatagram
  <2>3. Located(c)'
    <3> SUFFICES ASSUME NEW m \in past'.live
                 PROVE  \/ m \in server'.pending
                        \/ \E i \in Nat : IsInput(c, i)' /\ m \in stream'[c][i].frame
                        \/ cursor'[c][m] # 0
                        \/ \E n \in DOMAIN past'.frames : m \in past'.frames[n]
      BY DEF Located
    <3>1. CASE m \in server.pending
      BY <1>1, <1>2, <1>3, <3>1
    <3>2. CASE \E n \in DOMAIN past.frames : m \in past.frames[n]
      BY <1>1, <1>2, <1>3, <3>2
    <3> QED BY <1>3, <2>1, <2>2, <3>1, <3>2 DEF Located, IsInput
  <2>4. Repeated'
    <3> SUFFICES ASSUME NEW n \in Nat, Lives(n)', server'.seq - n < HistoryLen
                 PROVE  server'.seq - n < Len(server'.history)
      BY DEF Repeated
    <3>1. Len(server'.history) = IF Len(server.history) < HistoryLen
                                 THEN Len(server.history) + 1 ELSE HistoryLen
      BY <1>1, RememberedLength
    <3>2. Lives(n) => server.seq - n < Len(server.history)
      BY <1>1, <2>1 DEF Repeated
    <3> QED BY <1>1, <1>5, <3>1, <3>2
  <2>5. Newest(c)'
    <3> SUFFICES ASSUME NEW d \in wire'[c], d.seq = server'.seq,
                        NEW n \in Nat, Lives(n)', server'.seq - n <= HistoryLen
                 PROVE  server'.seq - n < Len(d.history)
      BY DEF Newest, Complete
    <3>1. d.history = WithFrame(frame, server.history)
      <4>1. d \notin wire[c]
        BY <1>0, <1>1 DEF TypeOK
      <4>2. d = [seq |-> server.seq + 1,
                 history |-> WithFrame(frame, server.history)]
        BY <1>1, <2>2, <4>1
      <4> QED BY <4>2
    <3>2. Len(d.history) = Len(server.history) + 1
      <4>1. server.history \in Seq(Frame)
        BY <1>1
      <4>2. Len(WithFrame(frame, server.history)) = Len(server.history) + 1
        BY <4>1, WithFrameType
      <4> QED BY <3>1, <4>2
    <3>3. Lives(n) /\ n # server.seq + 1 => server.seq - n < Len(server.history)
      BY <1>1, <2>1 DEF Repeated
    <3> QED BY <1>1, <1>5, <3>2, <3>3
  <2>6. Seen(c)'
    <3>1. client[c].last \in Nat /\ client[c].last <= server.seq
      BY <1>0 DEF TypeOK
    <3> QED BY <1>1, <3>1 DEF Seen
  <2> QED BY <2>3, <2>4, <2>5, <2>6 DEF Position
<1> QED BY <1>4, <1>6 DEF Exact

\* Nothing changes.
LEMMA UnchangedExact ==
    ASSUME Exact, server' = server, client' = client, wire' = wire,
           stream' = stream, aimed' = aimed, cursor' = cursor, past' = past
    PROVE  Exact'
  BY DEF Exact, Once, Marked, Position, Located, Repeated, Newest, Complete,
         Seen, Lives, IsInput

\* Releasing the keys only adds to a stream.
LEMMA ReleasedAppends ==
    ASSUME TypeOK, stream' = Released(stream, server.current)
    PROVE  \A c \in Client, i \in Nat : IsInput(c, i) =>
              IsInput(c, i)' /\ stream'[c][i] = stream[c][i]
<1> SUFFICES ASSUME NEW c \in Client, NEW i \in Nat, IsInput(c, i)
             PROVE  IsInput(c, i)' /\ stream'[c][i] = stream[c][i]
  OBVIOUS
<1>1. stream \in [Client -> Seq(Message)] /\ stream[c] \in Seq(Message)
  BY Typed
<1>2. Enabled(TRUE) \in Message /\ Enabled(FALSE) \in Message
  BY DEF Enabled, Message
<1> DEFINE off == Append(stream[c], Enabled(FALSE))
           both == Append(off, Enabled(TRUE))
<1>3. off \in Seq(Message) /\ both \in Seq(Message)
  <2>1. \A q \in Seq(Message), msg \in Message : Append(q, msg) \in Seq(Message)
    BY Appended
  <2>2. off \in Seq(Message)
    BY <1>1, <1>2, <2>1
  <2> HIDE DEF off
  <2> QED BY <1>2, <2>1, <2>2
<1>4. stream'[c] = stream[c] \/ stream'[c] = both
  BY <1>1 DEF Released
<1>5. i \in 1 .. Len(stream[c])
  BY <1>1 DEF IsInput
<1>6. i \in DOMAIN off /\ off[i] = stream[c][i]
  BY <1>1, <1>2, <1>5, Appended
<1>7. i \in DOMAIN both /\ both[i] = off[i]
  <2>1. i \in 1 .. Len(off)
    BY <1>3, <1>6
  <2> HIDE DEF off
  <2> QED BY <1>2, <1>3, <2>1, Appended
<1> HIDE DEF off, both
<1>8. i \in DOMAIN stream'[c] /\ stream'[c][i] = stream[c][i]
  BY <1>1, <1>4, <1>5, <1>6, <1>7
<1> QED BY <1>8 DEF IsInput

\* Flushing keeps clients exact, however it goes.
LEMMA FlushExact ==
    ASSUME IInv, Exact, Flush
    PROVE  Exact'
<1> DEFINE frame == server.pending
           taken == [server EXCEPT !.pending = {}]
<1>0. TypeOK /\ Once /\ Marked
  BY DEF IInv, Exact
<1>1. client' = client /\ aimed' = aimed /\ cursor' = cursor
  BY DEF Flush
<1>2. /\ server \in ServerType /\ server.seq \in Nat /\ frame \in Frame
      /\ server.current \in Client /\ DOMAIN past.frames = 1 .. server.seq
      /\ past \in [frames : Seq(Frame), live : Frame, controls : Nat]
      /\ stream \in [Client -> Seq(Message)]
  BY <1>0, Typed DEF Flush, TypeOK
<1>3. \/ /\ SendDatagram(frame, WithFrame(frame, server.history))
         /\ server' = [taken EXCEPT
               !.seq = @ + 1, !.history = Remembered(frame, @)]
         /\ past' = [past EXCEPT !.frames = Append(@, frame)]
      \/ /\ server' = Retried(taken, frame)
         /\ UNCHANGED <<wire, stream, past>>
      \/ /\ SendOnStream(frame)
         /\ server' = [taken EXCEPT !.datagrams = @ \ {server.current}]
         /\ UNCHANGED past
      \/ /\ server' = taken
         /\ past' = [past EXCEPT !.live = @ \ frame]
         /\ UNCHANGED <<wire, stream>>
  BY DEF Flush
<1>4. CASE /\ SendDatagram(frame, WithFrame(frame, server.history))
           /\ server' = [taken EXCEPT
                 !.seq = @ + 1, !.history = Remembered(frame, @)]
           /\ past' = [past EXCEPT !.frames = Append(@, frame)]
  <2>1. /\ server'.seq = server.seq + 1 /\ server'.current = server.current
        /\ server'.coalesce = server.coalesce /\ server'.pending = {}
        /\ server'.history = Remembered(frame, server.history)
    BY <1>2, <1>4 DEF ServerType
  <2>2. frame \in Frame /\ frame = server.pending
    BY <1>2
  <2> HIDE DEF frame
  <2>3. /\ SendDatagram(frame, WithFrame(frame, server.history))
        /\ past' = [past EXCEPT !.frames = Append(@, frame)]
    BY <1>4
  <2> QED BY <1>1, <2>1, <2>2, <2>3, SentExact
<1>5. CASE server' = Retried(taken, frame) /\ UNCHANGED <<wire, stream, past>>
  <2>1. server' = server
    BY <1>2, <1>5 DEF Retried, ServerType
  <2>2. /\ server' = server /\ client' = client /\ wire' = wire
        /\ stream' = stream /\ aimed' = aimed /\ cursor' = cursor
        /\ past' = past
    BY <1>1, <1>5, <2>1
  <2> QED BY <2>2, UnchangedExact
<1>6. CASE \/ /\ SendOnStream(frame)
              /\ server' = [taken EXCEPT !.datagrams = @ \ {server.current}]
              /\ past' = past
           \/ /\ server' = taken
              /\ past' = [past EXCEPT !.live = @ \ frame]
              /\ wire' = wire /\ stream' = stream
  <2>1. /\ server'.seq = server.seq /\ server'.current = server.current
        /\ server'.coalesce = server.coalesce /\ server'.pending = {}
        /\ server'.history = server.history
    BY <1>2, <1>6 DEF ServerType
  <2>2. past'.frames = past.frames /\ past'.live \subseteq past.live
    BY <1>2, <1>6
  <2>3. wire' = wire
    BY <1>6 DEF SendOnStream
  <2>4. Once' /\ Marked'
    BY <1>0, <1>1, <1>2, <2>1, <2>2, MarkedStill
  <2>5. \A n \in Nat : Lives(n)' => Lives(n)
    BY <2>2 DEF Lives
  <2>6. ASSUME NEW c \in Client, server'.current = c, server'.coalesce
        PROVE  Position(c)'
    <3>1. /\ server.current = c
          /\ Located(c) /\ Repeated /\ Newest(c) /\ Seen(c)
      BY <2>1, <2>6 DEF Exact, Position
    <3>2. Repeated' /\ Newest(c)'
      BY <2>1, <2>3, <2>5, <3>1, RepeatedStill
    <3>3. Seen(c)'
      BY <1>1, <2>1, <2>5, <3>1, SeenStill
    <3>4. Located(c)'
      <4> SUFFICES ASSUME NEW m \in past'.live
                   PROVE  \/ \E i \in Nat : IsInput(c, i)' /\ m \in stream'[c][i].frame
                          \/ cursor'[c][m] # 0
                          \/ \E n \in DOMAIN past'.frames : m \in past'.frames[n]
        BY DEF Located
      <4>1. m \in past.live
        BY <2>2
      <4>2. CASE SendOnStream(frame)
        <5>1. stream'[c] = Append(stream[c], Input(frame))
          BY <1>2, <3>1, <4>2 DEF SendOnStream
        <5>2. Input(frame) \in Message /\ stream[c] \in Seq(Message)
          BY <1>2 DEF Input, Message
        <5>3. /\ Len(stream[c]) \in Nat /\ DOMAIN stream[c] = 1 .. Len(stream[c])
              /\ DOMAIN stream'[c] = 1 .. Len(stream[c]) + 1
              /\ stream'[c][Len(stream[c]) + 1] = Input(frame)
              /\ \A i \in 1 .. Len(stream[c]) : stream'[c][i] = stream[c][i]
          BY <5>1, <5>2, Appended
        <5>4. CASE m \in server.pending
          <6> DEFINE i == Len(stream[c]) + 1
          <6>1. i \in Nat /\ i \in DOMAIN stream'[c]
            BY <5>3
          <6>2. stream'[c][i].kind = "input" /\ m \in stream'[c][i].frame
            BY <5>3, <5>4 DEF Input
          <6> QED BY <6>1, <6>2 DEF IsInput
        <5>5. CASE \E i \in Nat : IsInput(c, i) /\ m \in stream[c][i].frame
          <6>1. PICK i \in Nat : IsInput(c, i) /\ m \in stream[c][i].frame
            BY <5>5
          <6>2. i \in 1 .. Len(stream[c])
            BY <5>3, <6>1 DEF IsInput
          <6>3. i \in DOMAIN stream'[c] /\ stream'[c][i] = stream[c][i]
            BY <5>3, <6>2
          <6> QED BY <6>1, <6>3 DEF IsInput
        <5> QED BY <1>1, <2>2, <3>1, <4>1, <5>4, <5>5 DEF Located
      <4>3. CASE past' = [past EXCEPT !.live = @ \ frame] /\ stream' = stream
        <5>1. m \notin server.pending
          BY <1>2, <4>3
        <5> QED BY <1>1, <2>2, <3>1, <4>1, <4>3, <5>1 DEF Located, IsInput
      <4> QED BY <1>6, <4>2, <4>3
    <3> QED BY <3>2, <3>3, <3>4 DEF Position
  <2> QED BY <2>4, <2>6 DEF Exact
<1> QED BY <1>3, <1>4, <1>5, <1>6

\* Switches and pauses start anew; the rest leaves the current client alone.
LEMMA ControlExact ==
    ASSUME IInv, Exact, ~ReusePorts,
           \/ \E new \in Client \union {None} : SwitchTo(new)
           \/ ReleaseKeys \/ Pause \/ Resume
           \/ \E c \in Client, inPlace \in BOOLEAN : Reconnect(c, inPlace)
    PROVE  Exact'
<1>0. TypeOK /\ Once /\ Marked
  BY DEF IInv, Exact
<1>1. /\ server \in ServerType /\ server.seq \in Nat
      /\ DOMAIN past.frames = 1 .. server.seq
      /\ past \in [frames : Seq(Frame), live : Frame, controls : Nat]
      /\ client \in [Client -> ClientType]
      /\ wire \in [Client -> SUBSET DatagramType]
      /\ stream \in [Client -> Seq(Message)]
      /\ Forget(server).seq = server.seq
      /\ server.current \in Client \union {None}
      /\ {} \in Frame /\ past.live \in Frame
      /\ Forget(server) \in ServerType
      /\ Forget(server).coalesce = server.coalesce
  BY <1>0, Typed, ForgetType DEF TypeOK, Frame
<1>2. cursor' = cursor /\ past'.frames = past.frames /\ server'.seq = server.seq
  <2>1. CASE Resume
    BY <1>1, <2>1 DEF Resume, ServerType
  <2>2. CASE ReleaseKeys
    BY <1>0, <1>1, <2>2, ControlType DEF ReleaseKeys
  <2>3. CASE Pause \/ \E new \in Client \union {None} : SwitchTo(new)
    BY <1>0, <1>1, <2>3, ControlType DEF Pause, SwitchTo, ServerType
  <2>4. ASSUME NEW c \in Client, NEW inPlace \in BOOLEAN, Reconnect(c, inPlace)
        PROVE  cursor' = cursor /\ past'.frames = past.frames
               /\ server'.seq = server.seq
    <3> DEFINE live == IF c = server.current /\ ~inPlace THEN {} ELSE past.live
    <3>1. Control(live) /\ live \in Frame
      BY <1>1, <2>4 DEF Reconnect
    <3>2. server'.seq = server.seq
      BY <1>1, <2>4 DEF Reconnect, ServerType
    <3> HIDE DEF live
    <3> QED BY <1>0, <3>1, <3>2, ControlType
  <2> QED BY <2>1, <2>2, <2>3, <2>4
<1>3. \A k \in Client :
         \/ client'[k].last = client[k].last /\ client'[k].mask = client[k].mask
         \/ client'[k].mask = {}
  <2>1. \A c \in Client, inPlace \in BOOLEAN : Reconnect(c, inPlace) =>
           client' = [client EXCEPT ![c] = Fresh]
    BY DEF Reconnect
  <2>2. client' = client \/ \E c \in Client : client' = [client EXCEPT ![c] = Fresh]
    BY <2>1 DEF SwitchTo, ReleaseKeys, Pause, Resume
  <2>3. Fresh.mask = {}
    BY DEF Fresh
  <2>4. \A k \in Client : client'[k] = client[k] \/ client'[k] = Fresh
    BY <1>1, <2>2
  <2> QED BY <2>3, <2>4
<1>4. Once' /\ Marked'
  BY <1>0, <1>1, <1>2, <1>3, MarkedStill
<1>5. CASE past'.live = {}
  BY <1>4, <1>5, Anew DEF Exact
<1>6. CASE past'.live = past.live /\ \A c \in Client :
              server'.current = c /\ server'.coalesce =>
                 /\ server.current = c /\ server.coalesce
                 /\ server'.pending = server.pending
                 /\ server'.history = server.history
                 /\ client'[c] = client[c] /\ wire'[c] = wire[c]
                 /\ \A i \in Nat : IsInput(c, i) =>
                       IsInput(c, i)' /\ stream'[c][i] = stream[c][i]
  <2>1. \A n \in Nat : Lives(n)' => Lives(n)
    BY <1>2, <1>6 DEF Lives
  <2>2. ASSUME NEW c \in Client, server'.current = c, server'.coalesce
        PROVE  Position(c)'
    <3>1. Located(c) /\ Repeated /\ Newest(c) /\ Seen(c)
      BY <1>6, <2>2 DEF Exact, Position
    <3>2. Repeated' /\ Newest(c)'
      BY <1>2, <1>6, <2>1, <2>2, <3>1, RepeatedStill
    <3>3. Seen(c)'
      BY <1>2, <1>6, <2>1, <2>2, <3>1, SeenStill
    <3>4. Located(c)'
      BY <1>2, <1>6, <2>2, <3>1 DEF Located
    <3> QED BY <3>2, <3>3, <3>4 DEF Position
  <2> QED BY <1>4, <2>2 DEF Exact
<1>7. CASE Resume
  <2>1. /\ server'.current = server.current /\ server'.coalesce = server.coalesce
        /\ server'.pending = server.pending /\ server'.history = server.history
        /\ client' = client /\ wire' = wire /\ stream' = stream /\ past' = past
    BY <1>1, <1>7 DEF Resume, ServerType
  <2> QED BY <1>6, <2>1 DEF IsInput
<1>8. CASE ReleaseKeys
  <2>1. /\ server' = server /\ client' = client /\ wire' = wire
        /\ stream' = Released(stream, server.current)
        /\ server.current \in Client
    BY <1>1, <1>8 DEF ReleaseKeys
  <2>2. past'.live = past.live
    BY <1>1, <1>8 DEF ReleaseKeys, Control
  <2>3. \A c \in Client, i \in Nat : IsInput(c, i) =>
           IsInput(c, i)' /\ stream'[c][i] = stream[c][i]
    BY <1>0, <2>1, ReleasedAppends
  <2> QED BY <1>6, <2>1, <2>2, <2>3
<1>9. CASE Pause \/ \E new \in Client \union {None} : SwitchTo(new)
  <2>1. past' = [past EXCEPT !.live = {}, !.controls = @ + 1]
    BY <1>9 DEF Pause, SwitchTo, Control
  <2>2. past'.live = {}
    BY <1>1, <2>1
  <2> QED BY <1>5, <2>2
<1>10. ASSUME NEW k \in Client, NEW inPlace \in BOOLEAN, Reconnect(k, inPlace)
       PROVE  Exact'
  <2>1. inPlace = FALSE
    BY <1>10 DEF Reconnect
  <2>2. CASE k = server.current
    <3>1. past' = [past EXCEPT !.live = {}, !.controls = @ + 1]
      BY <1>10, <2>1, <2>2 DEF Reconnect, Control
    <3>2. past'.live = {}
      BY <1>1, <3>1
    <3> QED BY <1>5, <3>2
  <2>3. CASE k # server.current
    <3>1. past' = [past EXCEPT !.live = past.live, !.controls = @ + 1]
      BY <1>10, <2>3 DEF Reconnect, Control
    <3>2. past'.live = past.live
      BY <1>1, <3>1
    <3>3. server' = [server EXCEPT !.datagrams = @ \union {k}]
      BY <1>10, <2>3 DEF Reconnect
    <3>4. /\ server'.current = server.current
          /\ server'.coalesce = server.coalesce
          /\ server'.pending = server.pending
          /\ server'.history = server.history
      BY <1>1, <3>3 DEF ServerType
    <3>5. /\ client' = [client EXCEPT ![k] = Fresh]
          /\ wire' = [wire EXCEPT ![k] = {}]
          /\ stream' = [stream EXCEPT ![k] = <<>>]
      BY <1>10 DEF Reconnect
    <3>6. \A c \in Client : c # k =>
             /\ client'[c] = client[c] /\ wire'[c] = wire[c]
             /\ stream'[c] = stream[c]
      BY <1>1, <3>5
    <3> QED BY <1>6, <2>3, <3>2, <3>4, <3>6 DEF IsInput
  <2> QED BY <2>2, <2>3
<1> QED BY <1>7, <1>8, <1>9, <1>10

\* Moves done once, by a client whose marks stay, are located where they were
\* or as done.
LEMMA LocatedStill ==
    ASSUME NEW c \in Client, Located(c),
           server'.pending = server.pending, past' = past,
           \A m \in past.live : cursor[c][m] # 0 => cursor'[c][m] # 0,
           \A m \in past.live, i \in Nat :
              IsInput(c, i) /\ m \in stream[c][i].frame =>
                 \/ cursor'[c][m] # 0
                 \/ \E j \in Nat : IsInput(c, j)' /\ m \in stream'[c][j].frame
    PROVE  Located(c)'
  BY DEF Located

\* A client takes a message off its stream.
LEMMA ReceivedExact ==
    ASSUME IInv, Exact, NEW c \in Client, ClientReceives(c)
    PROVE  Exact'
<1>0. TypeOK /\ Once /\ Marked
  BY DEF IInv, Exact
<1>1. /\ server.seq \in Nat /\ DOMAIN past.frames = 1 .. server.seq
      /\ cursor \in [Client -> [Move -> Nat]] /\ past.live \subseteq Move
      /\ stream \in [Client -> Seq(Message)]
      /\ \A n \in 1 .. server.seq : past.frames[n] \subseteq Move
  BY <1>0, Typed DEF TypeOK, Frame
<1>2. PICK F \in Frame :
            /\ F = {} \/ (IsInput(c, 1) /\ F = stream[c][1].frame)
            /\ IsInput(c, 1) => F = stream[c][1].frame
            /\ cursor' = [cursor EXCEPT ![c] =
                  [m \in Move |-> @[m] + IF m \in F THEN 1 ELSE 0]]
            /\ \A k \in Client : /\ client'[k].last = client[k].last
                                 /\ client'[k].mask = client[k].mask
  BY ReceivedFrame
<1>3. /\ stream[c] # <<>> /\ stream' = [stream EXCEPT ![c] = Tail(@)]
      /\ server' = server /\ wire' = wire /\ past' = past
  BY DEF ClientReceives
<1>4. \A k \in Client, m \in Move :
         cursor'[k][m] = IF k = c /\ m \in F THEN cursor[k][m] + 1
                         ELSE cursor[k][m]
  BY <1>1, <1>2
<1>5. \A m \in F : m \in Move /\ cursor[c][m] = 0
  BY <1>2 DEF IInv, Streamed, Frame
<1>6. \A k \in Client, m \in Move :
         /\ cursor[k][m] # 0 => cursor'[k][m] # 0
         /\ cursor[k][m] <= 1 => cursor'[k][m] <= 1
  <2> SUFFICES ASSUME NEW k \in Client, NEW m \in Move
               PROVE  /\ cursor[k][m] # 0 => cursor'[k][m] # 0
                      /\ cursor[k][m] <= 1 => cursor'[k][m] <= 1
    OBVIOUS
  <2>1. cursor[k][m] \in Nat
    BY <1>1
  <2>2. k = c /\ m \in F => cursor[k][m] = 0
    BY <1>5
  <2> QED BY ONLY <1>4, <2>1, <2>2
<1>7. Once'
  BY <1>0, <1>6 DEF Once
<1>8. Marked'
  <2> SUFFICES ASSUME NEW k \in Client, NEW n \in DOMAIN past.frames,
                      n <= client'[k].last,
                      client'[k].last - n \in client'[k].mask,
                      NEW m \in past.frames[n]
               PROVE  cursor'[k][m] # 0
    BY <1>3 DEF Marked
  <2>1. m \in Move
    BY <1>1
  <2>2. cursor[k][m] # 0
    BY <1>0, <1>2 DEF Marked
  <2> QED BY <1>6, <2>1, <2>2
<1>9. ASSUME NEW k \in Client, server'.current = k, server'.coalesce
      PROVE  Position(k)'
  <2>1. Located(k) /\ Repeated /\ Newest(k) /\ Seen(k)
    BY <1>3, <1>9 DEF Exact, Position
  <2>2. \A n \in Nat : Lives(n)' => Lives(n)
    BY <1>3 DEF Lives
  <2>3. Repeated' /\ Newest(k)'
    BY <1>3, <2>1, <2>2, RepeatedStill
  <2>4. Seen(k)'
    BY <1>2, <1>3, <2>1, <2>2, SeenStill
  <2>5. \A m \in past.live : cursor[k][m] # 0 => cursor'[k][m] # 0
    BY <1>1, <1>6
  <2>6. ASSUME NEW m \in past.live, NEW i \in Nat, IsInput(k, i),
               m \in stream[k][i].frame
        PROVE  \/ cursor'[k][m] # 0
               \/ \E j \in Nat : IsInput(k, j)' /\ m \in stream'[k][j].frame
    <3>1. CASE k # c
      BY <1>1, <1>3, <2>6, <3>1 DEF IsInput
    <3>2. CASE k = c /\ i = 1
      <4>1. m \in F
        BY <1>2, <2>6, <3>2
      <4> QED BY <1>1, <1>4, <1>5, <3>2, <4>1
    <3>3. CASE k = c /\ i # 1
      <4>1. /\ Len(stream'[c]) = Len(stream[c]) - 1
            /\ stream'[c] \in Seq(Message) /\ Len(stream[c]) \in Nat
            /\ \A j \in 1 .. Len(stream[c]) - 1 : stream'[c][j] = stream[c][j + 1]
        BY <1>1, <1>3, HeadType
      <4>2. i \in 1 .. Len(stream[c])
        BY <1>1, <2>6, <3>3 DEF IsInput
      <4> DEFINE j == i - 1
      <4>3. j \in Nat /\ j \in 1 .. Len(stream[c]) - 1 /\ j + 1 = i
        BY <3>3, <4>1, <4>2
      <4>4. j \in DOMAIN stream'[c] /\ stream'[c][j] = stream[c][i]
        BY <4>1, <4>3
      <4> HIDE DEF j
      <4> QED BY <2>6, <3>3, <4>3, <4>4 DEF IsInput
    <3> QED BY <3>1, <3>2, <3>3
  <2>7. Located(k)'
    <3>1. server'.pending = server.pending
      BY <1>3
    <3> QED BY <1>3, <2>1, <2>5, <2>6, <3>1, LocatedStill
  <2> QED BY <2>3, <2>4, <2>7 DEF Position
<1> QED BY <1>7, <1>8, <1>9 DEF Exact

\* What applying a datagram marks: what was marked, as long as it is in the
\* window, and the entries it applies; the newest frames it carries are among
\* those afterwards.
LEMMA Marks ==
    ASSUME IInv, NEW c \in Client, NEW d \in wire[c],
           NEW a, a = Apply(client[c], d)
    PROVE  /\ a.client.last = IF d.seq > client[c].last THEN d.seq
                              ELSE client[c].last
           /\ \A n \in 1 .. a.client.last : a.client.last - n \in a.client.mask =>
                 \/ n <= client[c].last /\ client[c].last - n \in client[c].mask
                 \/ \E i \in a.new : n = d.seq + 1 - i
           /\ \A n \in 1 .. client[c].last :
                 /\ a.client.last = client[c].last
                 /\ client[c].last - n \in client[c].mask
                 => a.client.last - n \in a.client.mask
           /\ \A n \in 1 .. d.seq :
                 /\ a.client.last = d.seq
                 /\ d.seq - n < Len(d.history) /\ d.seq - n < Window
                 => d.seq - n \in a.client.mask
<1> DEFINE k == client[c]
           last == IF d.seq > k.last THEN d.seq ELSE k.last
<1>0. TypeOK /\ Wired
  BY DEF IInv
<1>1. /\ k \in ClientType /\ d \in DatagramType
      /\ k.last \in Nat /\ k.mask \subseteq 0 .. Window - 1
      /\ d.seq \in Nat /\ d.history \in Seq(Frame) /\ Len(d.history) \in Nat
      /\ DOMAIN d.history = 1 .. Len(d.history) /\ Len(d.history) <= d.seq
      /\ Window \in Nat
  <2>1. k \in ClientType /\ d \in DatagramType
    BY <1>0, Typed
  <2>2. Carries(d, c)
    BY <1>0 DEF Wired
  <2> QED BY <2>1, <2>2, MotionAssumption DEF ClientType, DatagramType, Carries
<1>2. /\ a.client.last = last
      /\ a.client.mask = Shifted(k, last)
            \union {last - (d.seq + 1 - i) : i \in a.new}
      /\ a.new = {i \in DOMAIN d.history :
             /\ i <= d.seq /\ last - (d.seq + 1 - i) < Window
             /\ last - (d.seq + 1 - i) \notin Shifted(k, last)}
  BY <1>1, ApplyType DEF ClientType
<1>3. Shifted(k, last) = {age + last - k.last : age \in k.mask}
                         \intersect 0 .. Window - 1
  BY DEF Shifted
<1>4. last \in Nat /\ last >= k.last /\ last >= d.seq
  BY <1>1
<1>5. a.client.last = IF d.seq > client[c].last THEN d.seq ELSE client[c].last
  BY <1>2
<1> HIDE DEF k, last
<1>6. ASSUME NEW n \in 1 .. a.client.last, a.client.last - n \in a.client.mask
      PROVE  \/ n <= k.last /\ k.last - n \in k.mask
             \/ \E i \in a.new : n = d.seq + 1 - i
  <2>1. CASE last - n \in Shifted(k, last)
    <3>1. PICK age \in k.mask : last - n = age + last - k.last
      BY <1>3, <2>1
    <3>2. age \in Nat
      BY <1>1
    <3>3. age = k.last - n /\ n <= k.last
      BY <1>1, <1>2, <1>4, <1>6, <3>1, <3>2
    <3> QED BY <3>3
  <2>2. CASE last - n \in {last - (d.seq + 1 - i) : i \in a.new}
    <3>1. PICK i \in a.new : last - n = last - (d.seq + 1 - i)
      BY <2>2
    <3>2. i \in Nat
      BY <1>1, <1>2, <3>1
    <3>3. n = d.seq + 1 - i
      BY <1>1, <1>2, <1>4, <1>6, <3>1, <3>2
    <3> QED BY <3>3
  <2> QED BY <1>2, <1>6, <2>1, <2>2
<1>7. ASSUME NEW n \in 1 .. k.last, last = k.last, k.last - n \in k.mask
      PROVE  last - n \in a.client.mask
  <2>1. k.last - n = (k.last - n) + last - k.last
    BY <1>1, <1>7
  <2>2. k.last - n \in 0 .. Window - 1
    BY <1>1, <1>7
  <2>3. k.last - n \in Shifted(k, last)
    BY <1>3, <1>7, <2>1, <2>2
  <2> QED BY <1>2, <1>7, <2>3
<1>8. ASSUME NEW n \in 1 .. d.seq, last = d.seq,
             d.seq - n < Len(d.history), d.seq - n < Window
      PROVE  d.seq - n \in a.client.mask
  <2> DEFINE i == d.seq + 1 - n
  <2>1. /\ i \in DOMAIN d.history /\ i <= d.seq
        /\ last - (d.seq + 1 - i) = d.seq - n
    BY <1>1, <1>8
  <2> HIDE DEF i
  <2>2. i \in a.new \/ d.seq - n \in Shifted(k, last)
    BY <1>2, <1>8, <2>1
  <2>3. i \in a.new => d.seq - n \in {last - (d.seq + 1 - j) : j \in a.new}
    BY <2>1
  <2> QED BY <1>2, <2>2, <2>3
<1> QED BY <1>2, <1>5, <1>6, <1>7, <1>8 DEF k

\* A client that applies a datagram makes all the moves of the frames it marks,
\* and has seen all it could if the datagram is the newest.
LEMMA ArrivalExact ==
    ASSUME IInv, Exact, NEW c \in Client, NEW d \in wire[c],
           DatagramArrives(c, d), client[c].active
    PROVE  Exact'
<1> DEFINE a == Apply(client[c], d)
           M == MovesOf(c, d)
<1>0. TypeOK /\ Wired /\ Once /\ Marked
  BY DEF IInv, Exact
<1>1. /\ server.seq \in Nat /\ DOMAIN past.frames = 1 .. server.seq
      /\ cursor \in [Client -> [Move -> Nat]] /\ past.live \subseteq Move
      /\ client \in [Client -> ClientType]
      /\ wire \in [Client -> SUBSET DatagramType] /\ d \in DatagramType
      /\ \A n \in 1 .. server.seq : past.frames[n] \subseteq Move
  BY <1>0, Typed DEF TypeOK, Frame
<1>2. /\ server' = server /\ stream' = stream /\ aimed' = aimed /\ past' = past
      /\ wire' = [wire EXCEPT ![c] = @ \ {d}]
  BY DEF DatagramArrives
<1>3. /\ client' = [client EXCEPT ![c] = a.client]
      /\ \A k \in Client, m \in Move :
            cursor'[k][m] = IF k = c /\ m \in M
                            THEN cursor[k][m] + 1 ELSE cursor[k][m]
  BY ArrivalEffect
<1>4. \A m \in M : cursor[c][m] = 0 /\ m \in Move
  BY MovesOfDatagram
<1>5. \A i \in a.new : past.frames[d.seq + 1 - i] \subseteq M
  <2> SUFFICES ASSUME NEW i \in a.new, NEW m \in past.frames[d.seq + 1 - i]
               PROVE  m \in M
    OBVIOUS
  <2>1. /\ d.seq + 1 - i \in DOMAIN past.frames
        /\ d.history[i] = past.frames[d.seq + 1 - i]
    BY NewEntries
  <2>2. m \in Move /\ m \in d.history[i]
    BY <1>1, <2>1
  <2> QED BY <2>2 DEF MovesOf
<1>6. /\ a.client.last = IF d.seq > client[c].last THEN d.seq
                         ELSE client[c].last
      /\ \A n \in 1 .. a.client.last : a.client.last - n \in a.client.mask =>
            \/ n <= client[c].last /\ client[c].last - n \in client[c].mask
            \/ \E i \in a.new : n = d.seq + 1 - i
      /\ \A n \in 1 .. client[c].last :
            /\ a.client.last = client[c].last
            /\ client[c].last - n \in client[c].mask
            => a.client.last - n \in a.client.mask
      /\ \A n \in 1 .. d.seq :
            /\ a.client.last = d.seq
            /\ d.seq - n < Len(d.history) /\ d.seq - n < Window
            => d.seq - n \in a.client.mask
  BY Marks
<1> HIDE DEF a, M
<1>7. /\ client'[c] = a.client
      /\ \A k \in Client : k # c => client'[k] = client[k]
  BY <1>1, <1>3
<1>8. \A k \in Client, m \in Move :
         /\ cursor[k][m] # 0 => cursor'[k][m] # 0
         /\ cursor[k][m] <= 1 => cursor'[k][m] <= 1
         /\ k = c /\ m \in M => cursor'[k][m] # 0
  <2> SUFFICES ASSUME NEW k \in Client, NEW m \in Move
               PROVE  /\ cursor[k][m] # 0 => cursor'[k][m] # 0
                      /\ cursor[k][m] <= 1 => cursor'[k][m] <= 1
                      /\ k = c /\ m \in M => cursor'[k][m] # 0
    OBVIOUS
  <2>1. cursor[k][m] \in Nat
    BY <1>1
  <2>2. k = c /\ m \in M => cursor[k][m] = 0
    BY <1>4
  <2>3. cursor'[k][m] = IF k = c /\ m \in M THEN cursor[k][m] + 1
                        ELSE cursor[k][m]
    BY <1>3
  <2> QED BY ONLY <2>1, <2>2, <2>3
<1>9. Once'
  BY <1>0, <1>8 DEF Once
<1>10. Marked'
  <2> SUFFICES ASSUME NEW k \in Client, NEW n \in DOMAIN past.frames,
                      n <= client'[k].last,
                      client'[k].last - n \in client'[k].mask,
                      NEW m \in past.frames[n]
               PROVE  cursor'[k][m] # 0
    BY <1>2 DEF Marked
  <2>1. m \in Move
    BY <1>1
  <2>2. CASE n <= client[k].last /\ client[k].last - n \in client[k].mask
    BY <1>0, <1>8, <2>1, <2>2 DEF Marked
  <2>3. CASE k = c /\ \E i \in a.new : n = d.seq + 1 - i
    BY <1>5, <1>8, <2>1, <2>3
  <2>4. CASE k # c
    BY <1>7, <2>2, <2>4
  <2>5. CASE k = c
    <3>1. /\ client[c].last \in Nat /\ d.seq \in Nat
      BY <1>1 DEF ClientType, DatagramType
    <3>2. n \in 1 .. a.client.last /\ a.client.last - n \in a.client.mask
      BY <1>1, <1>6, <1>7, <2>5, <3>1
    <3> QED BY <1>6, <2>2, <2>3, <2>5, <3>2
  <2> QED BY <2>4, <2>5
<1>11. ASSUME NEW k \in Client, server'.current = k, server'.coalesce
       PROVE  Position(k)'
  <2>1. Located(k) /\ Repeated /\ Newest(k) /\ Seen(k)
    BY <1>2, <1>11 DEF Exact, Position
  <2>2. \A n \in Nat : Lives(n)' => Lives(n)
    BY <1>2 DEF Lives
  <2>3. Repeated' /\ Newest(k)'
    <3>1. wire'[k] \subseteq wire[k]
      BY <1>1, <1>2
    <3> QED BY <1>2, <2>1, <2>2, <3>1, RepeatedStill
  <2>4. Located(k)'
    <3>1. \A m \in past.live : cursor[k][m] # 0 => cursor'[k][m] # 0
      BY <1>1, <1>8
    <3>2. \A i \in Nat : IsInput(k, i)' <=> IsInput(k, i)
      BY <1>2 DEF IsInput
    <3>3. server'.pending = server.pending
      BY <1>2
    <3> QED BY <1>2, <2>1, <3>1, <3>2, <3>3, LocatedStill
  <2>5. Seen(k)'
    <3>1. CASE k # c
      <4>1. client'[k].last = client[k].last /\ client'[k].mask = client[k].mask
        BY <1>7, <3>1
      <4> QED BY <1>2, <2>1, <2>2, <4>1, SeenStill
    <3>2. CASE k = c
      <4> SUFFICES ASSUME client'[c].last = server.seq, NEW n \in Nat, Lives(n),
                          server.seq - n <= HistoryLen
                   PROVE  server.seq - n \in client'[c].mask
        BY <1>2, <2>2, <3>2 DEF Seen
      <4>1. n \in 1 .. server.seq
        BY <1>1 DEF Lives
      <4>2. a.client.last = server.seq
        BY <1>7
      <4>3. CASE client[c].last = server.seq
        <5>1. server.seq - n \in client[c].mask
          BY <2>1, <3>2, <4>3 DEF Seen
        <5> QED BY <1>6, <1>7, <4>1, <4>2, <4>3, <5>1
      <4>4. CASE d.seq = server.seq
        <5>1. server.seq - n < Len(d.history)
          BY <2>1, <3>2, <4>4 DEF Newest, Complete
        <5>2. server.seq - n < Window
          BY <1>1, <4>1, MotionAssumption, WindowAssumption
        <5> QED BY <1>6, <1>7, <4>1, <4>2, <4>4, <5>1, <5>2
      <4> QED BY <1>6, <4>2, <4>3, <4>4
    <3> QED BY <3>1, <3>2
  <2> QED BY <2>3, <2>4, <2>5 DEF Position
<1> QED BY <1>9, <1>10, <1>11 DEF Exact

\* Ignoring a datagram or losing it changes nothing that matters here.
LEMMA IgnoredExact ==
    ASSUME IInv, Exact, NEW c \in Client, NEW d \in wire[c],
           wire' = [wire EXCEPT ![c] = @ \ {d}], server' = server,
           client' = client, stream' = stream, cursor' = cursor, past' = past
    PROVE  Exact'
<1>1. \A k \in Client : wire'[k] \subseteq wire[k]
  BY Typed DEF IInv
<1>2. Once' /\ Marked'
  BY DEF Exact, Once, Marked
<1>3. ASSUME NEW k \in Client, server'.current = k, server'.coalesce
      PROVE  Position(k)'
  <2>1. Located(k) /\ Repeated /\ Newest(k) /\ Seen(k)
    BY <1>3 DEF Exact, Position
  <2>2. Located(k)' /\ Seen(k)'
    BY <2>1 DEF Located, Seen, Lives, IsInput
  <2>3. Repeated' /\ Newest(k)'
    BY <1>1, <2>1 DEF Repeated, Newest, Complete, Lives
  <2> QED BY <2>2, <2>3 DEF Position
<1> QED BY <1>2, <1>3 DEF Exact

\* At first nothing has moved.
LEMMA InitExact ==
    ASSUME Init
    PROVE  Exact
<1>1. /\ server.current = None /\ past.frames = <<>>
      /\ cursor = [c \in Client |-> [m \in Move |-> 0]]
  BY DEF Init
<1>2. Once /\ Marked
  BY <1>1 DEF Once, Marked
<1>3. \A c \in Client : server.current # c
  BY <1>1, MotionAssumption
<1> QED BY <1>2, <1>3 DEF Exact

\* Every step keeps clients exact.
LEMMA NextExact ==
    ASSUME IInv, Exact, ~ReusePorts, [Next]_vars
    PROVE  Exact'
<1>0. TypeOK'
  BY NextKeeps DEF IInv
<1>1. CASE UNCHANGED vars
  BY <1>1, UnchangedExact DEF vars
<1>2. CASE MoveCoalesced \/ MoveAtFullRate
  BY <1>0, <1>2, MoveExact
<1>3. CASE Flush
  BY <1>3, FlushExact
<1>4. CASE \/ \E new \in Client \union {None} : SwitchTo(new)
           \/ ReleaseKeys \/ Pause \/ Resume
           \/ \E c \in Client, inPlace \in BOOLEAN : Reconnect(c, inPlace)
  BY <1>4, ControlExact
<1>5. ASSUME NEW c \in Client, ClientReceives(c)
      PROVE  Exact'
  BY <1>5, ReceivedExact
<1>6. ASSUME NEW c \in Client, NEW d \in wire[c], DatagramArrives(c, d)
      PROVE  Exact'
  <2>1. CASE client[c].active
    BY <1>6, <2>1, ArrivalExact
  <2>2. CASE ~client[c].active
    <3>1. /\ wire' = [wire EXCEPT ![c] = @ \ {d}] /\ server' = server
          /\ client' = client /\ stream' = stream /\ cursor' = cursor
          /\ past' = past
      BY <1>6, <2>2 DEF DatagramArrives
    <3> QED BY <3>1, IgnoredExact
  <2> QED BY <2>1, <2>2
<1>7. ASSUME NEW c \in Client, NEW d \in wire[c], DatagramLost(c, d)
      PROVE  Exact'
  <2>1. /\ wire' = [wire EXCEPT ![c] = @ \ {d}] /\ server' = server
        /\ client' = client /\ stream' = stream /\ cursor' = cursor
        /\ past' = past
    BY <1>7 DEF DatagramLost
  <2> QED BY <2>1, IgnoredExact
<1> QED BY <1>1, <1>2, <1>3, <1>4, <1>5, <1>6, <1>7 DEF Next

\* Unless a connection takes the place of another from the same addr:port, the
\* client that has the newest datagram is where the pointer was moved to: lost
\* and overtaken datagrams cost nothing that fewer than HistoryLen losses in a
\* row could take.
THEOREM ExactPositions == ~ReusePorts /\ Spec => []MotionInv
<1>1. Init => Exact
  BY InitExact
<1>2. IInv /\ Exact => MotionInv
  BY ExactEnough
<1>3. ASSUME ~ReusePorts PROVE Spec => []MotionInv
  <2>1. Spec => []IInv
    BY <1>3, Invariance
  <2>2. IInv /\ Exact /\ [Next]_vars => Exact'
    BY <1>3, NextExact
  <2> QED BY <1>1, <1>2, <2>1, <2>2, PTL DEF Spec
<1> QED BY <1>3

=============================================================================
