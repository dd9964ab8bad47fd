--------------------------- MODULE ClipboardProofs ---------------------------
(***************************************************************************)
(* Proofs about the clipboard, for any machines, connections and copies:   *)
(* in ClipboardHandoff, what the ends of a connection agree on, whatever   *)
(* is still in flight between them; in ClipboardFetch, that an answer is   *)
(* for the fetch that asked for it, that nothing stale is pasted, and that *)
(* a fetch somebody waits for is somewhere on its way.                     *)
(***************************************************************************)
EXTENDS ClipboardHandoff, ClipboardState, SequenceTheorems, TLAPS

(***************************************************************************)
(* Part 1, ClipboardHandoff: who offers the clipboard.                     *)
(*                                                                         *)
(* A handler of the server writes several messages, so the argument is     *)
(* about one write at a time: what a message appended to a queue, or taken *)
(* from it, changes of what the client will be once it has drained it.     *)
(***************************************************************************)

Message == [kind : {"switch"}, enabled : BOOLEAN, seen : Copy \union {0}, pair : BOOLEAN]
           \union [kind : {"types"}, copy : Copy \union {0}]
           \union {EdgeInfo}
Target == [source : Conn \union {Local}, copy : Copy]
Server == [listed : SUBSET Conn, open : SUBSET Conn, machine : Seq(Machine),
           current : Conn \union {Local}, target : Target \union {None},
           removed : Machine \union {None}, host : Clipboard,
           down : [Conn -> Seq(Message)]]
Client == [conn : Conn \union {Local}, active : BOOLEAN, fresh : BOOLEAN,
           deferred : BOOLEAN, local : Copy \union {0, None}, serving : BOOLEAN,
           box : Clipboard]

\* The rotation's state, between any two writes of a handler.
Sound(s) ==
    /\ s \in Server
    /\ Len(s.machine) <= MaxConns
    /\ s.listed \subseteq 1 .. Len(s.machine)
    /\ s.open \subseteq s.listed
    /\ s.current \in s.listed \union {Local}
    /\ s.target # None => s.target.source \in 0 .. Len(s.machine)

-----------------------------------------------------------------------------
(* What a client will be once it has drained its queue.                    *)

\* An application will paste the copy, or owns the clipboard.
WillPaste(queue, box, copy) ==
    \/ InFlight(queue, "types") = {} /\ (box.own \/ box.copy = copy)
    \/ \E i \in InFlight(queue, "types") :
          /\ queue[i].copy = copy
          /\ \A j \in InFlight(queue, "types") : j <= i

\* The first Switch activates the client, and a clipboard that the rotation
\* knew by then comes before it, if the client has types of its own.
FirstActivates(queue, local) ==
    \A i \in InFlight(queue, "switch") :
        (\A j \in InFlight(queue, "switch") : i <= j) =>
            /\ queue[i].enabled /\ ~queue[i].pair
            /\ \/ local = None \/ queue[i].seen = 0
               \/ \E n \in InFlight(queue, "types") : n < i

\* What a server and the client at the other end of connection c agree on.
Agreed(s, c, m) ==
    /\ WillBe(s.down[c], m.active, s.current = c)
    /\ s.current = c /\ s.target # None
          => s.target.source = c \/ WillPaste(s.down[c], m.box, s.target.copy)
    /\ m.fresh => /\ ~m.active /\ ~m.deferred
                  /\ s.target # None => s.target.source # c
                  /\ FirstActivates(s.down[c], m.local)

\* Clients that have a connection, and what is there of one that is not made.
Connected ==
    /\ \A m \in Machine : client[m].conn # Local =>
          /\ client[m].conn \in server.open
          /\ server.machine[client[m].conn] = m
          /\ Agreed(server, client[m].conn, client[m])
          /\ client[m].fresh => up[client[m].conn] = <<>>
    /\ \A c \in Conn \ server.open : server.down[c] = <<>>
    /\ \A c \in Conn : up[c] # <<>> => c <= Len(server.machine)

\* A copy is where it was made, until its machine announces it.
By(whose, copy, m) == copy \in {0, None} \/ (copy <= Len(whose) /\ whose[copy] = m)
MadeHere ==
    /\ By(copies, server.host.news, Local)
    /\ server.target # None =>
          By(copies, server.target.copy, IF server.target.source = Local THEN Local
                                 ELSE server.machine[server.target.source])
    /\ \A m \in Machine : By(copies, client[m].local, m) /\ By(copies, client[m].box.news, m)
    /\ \A c \in Conn : \A i \in DOMAIN up[c] : By(copies, up[c][i], server.machine[c])

Typed ==
    /\ Sound(server)
    /\ client \in [Machine -> Client]
    /\ up \in [Conn -> Seq(Copy \union {0})]
    /\ copies \in Seq(Machine \union {Local}) /\ Len(copies) <= MaxCopies
    /\ switches \in 0 .. MaxSwitches

IInv == Typed /\ Connected /\ MadeHere

-----------------------------------------------------------------------------
(* Queues: what a message at the end, or at the head, changes.             *)

LEMMA MessageKinds ==
    /\ \A copy \in Copy \union {0} :
          Types(copy) \in Message /\ Types(copy).kind = "types" /\ Types(copy).copy = copy
    /\ \A enabled \in BOOLEAN, seen \in Copy \union {0}, pair \in BOOLEAN :
          /\ Switch(enabled, seen, pair) \in Message
          /\ Switch(enabled, seen, pair).kind = "switch"
          /\ Switch(enabled, seen, pair).enabled = enabled
          /\ Switch(enabled, seen, pair).seen = seen
          /\ Switch(enabled, seen, pair).pair = pair
    /\ EdgeInfo \in Message /\ EdgeInfo.kind = "info"
    /\ \A msg \in Message : /\ msg.kind \in {"switch", "types", "info"}
                            /\ msg.kind = "switch" => msg.enabled \in BOOLEAN
                            /\ msg.kind = "types" => msg.copy \in Copy \union {0}
                            /\ msg.kind = "switch" => msg.seen \in Copy \union {0}
BY DEF Message, Types, Switch, EdgeInfo

LEMMA Appended ==
    ASSUME NEW q \in Seq(Message), NEW msg \in Message
    PROVE  /\ Append(q, msg) \in Seq(Message)
           /\ Len(q) \in Nat /\ DOMAIN q = 1 .. Len(q)
           /\ DOMAIN Append(q, msg) = 1 .. (Len(q) + 1)
           /\ \A i \in 1 .. Len(q) : Append(q, msg)[i] = q[i]
           /\ Append(q, msg)[Len(q) + 1] = msg
<1>1. Len(q) \in Nat /\ DOMAIN q = 1 .. Len(q)
  BY LenProperties
<1>2. /\ Append(q, msg) \in Seq(Message)
      /\ Len(Append(q, msg)) = Len(q) + 1
      /\ \A i \in 1 .. Len(q) : Append(q, msg)[i] = q[i]
      /\ Append(q, msg)[Len(q) + 1] = msg
  BY AppendProperties
<1>3. DOMAIN Append(q, msg) = 1 .. (Len(q) + 1)
  BY <1>2, LenProperties
<1>4. QED
  BY <1>1, <1>2, <1>3

LEMMA NowInFlight ==
    ASSUME NEW q \in Seq(Message), NEW msg \in Message, NEW kind
    PROVE  /\ InFlight(q, kind) \subseteq 1 .. Len(q)
           /\ InFlight(Append(q, msg), kind) =
                 InFlight(q, kind) \union (IF msg.kind = kind THEN {Len(q) + 1} ELSE {})
           /\ msg.kind # kind => InFlight(Append(q, msg), kind) = InFlight(q, kind)
BY Appended DEF InFlight

\* Tail moves every message one place ahead.
LEMMA Received ==
    ASSUME NEW q \in Seq(Message), q # <<>>
    PROVE  /\ Tail(q) \in Seq(Message) /\ Head(q) \in Message /\ Head(q) = q[1]
           /\ Len(q) \in Nat /\ 1 <= Len(q) /\ DOMAIN q = 1 .. Len(q)
           /\ DOMAIN Tail(q) = 1 .. (Len(q) - 1)
           /\ \A i \in 1 .. (Len(q) - 1) : Tail(q)[i] = q[i + 1]
<1>1. Len(q) \in Nat /\ DOMAIN q = 1 .. Len(q) /\ Len(q) # 0
  BY EmptySeq, LenProperties
<1>2. /\ Tail(q) \in Seq(Message) /\ Head(q) \in Message /\ Head(q) = q[1]
      /\ Len(Tail(q)) = Len(q) - 1
      /\ \A i \in 1 .. (Len(q) - 1) : Tail(q)[i] = q[i + 1]
  BY <1>1, HeadTailProperties
<1>3. DOMAIN Tail(q) = 1 .. (Len(q) - 1)
  BY <1>2, LenProperties
<1>4. QED
  BY <1>1, <1>2, <1>3

LEMMA StillInFlight ==
    ASSUME NEW q \in Seq(Message), q # <<>>, NEW kind
    PROVE  /\ InFlight(q, kind) \subseteq 1 .. Len(q)
           /\ \A i \in Nat : i \in InFlight(Tail(q), kind) <=> i > 0 /\ i + 1 \in InFlight(q, kind)
           /\ 1 \in InFlight(q, kind) <=> Head(q).kind = kind
<1>1. InFlight(q, kind) \subseteq 1 .. Len(q)
  BY Received DEF InFlight
<1>2. ASSUME NEW i \in Nat
      PROVE  i \in InFlight(Tail(q), kind) <=> i > 0 /\ i + 1 \in InFlight(q, kind)
  <2>1. i \in 1 .. (Len(q) - 1) <=> i > 0 /\ i + 1 \in 1 .. Len(q)
    BY Received
  <2>2. i \in InFlight(Tail(q), kind) <=> i \in 1 .. (Len(q) - 1) /\ q[i + 1].kind = kind
    BY Received DEF InFlight
  <2>3. i + 1 \in InFlight(q, kind) <=> i + 1 \in 1 .. Len(q) /\ q[i + 1].kind = kind
    BY Received DEF InFlight
  <2>4. QED
    BY <2>1, <2>2, <2>3
<1>3. 1 \in InFlight(q, kind) <=> Head(q).kind = kind
  BY Received DEF InFlight
<1>4. QED
  BY <1>1, <1>2, <1>3

LEMMA SwitchWritten ==
    ASSUME NEW q \in Seq(Message), NEW msg \in Message, NEW active, msg.kind = "switch"
    PROVE  WillBe(Append(q, msg), active, msg.enabled)
<1>1. Len(q) + 1 \in InFlight(Append(q, msg), "switch")
  BY NowInFlight
<1>2. \A j \in InFlight(Append(q, msg), "switch") : j <= Len(q) + 1
  BY NowInFlight, Appended
<1>3. Append(q, msg)[Len(q) + 1] = msg
  BY Appended
<1>4. QED
  BY <1>1, <1>2, <1>3 DEF WillBe

LEMMA OtherWritten ==
    ASSUME NEW q \in Seq(Message), NEW msg \in Message, NEW active, NEW value,
           msg.kind # "switch", WillBe(q, active, value)
    PROVE  WillBe(Append(q, msg), active, value)
<1>1. /\ InFlight(q, "switch") \subseteq 1 .. Len(q)
      /\ InFlight(Append(q, msg), "switch") = InFlight(q, "switch")
  BY NowInFlight
<1>2. \A i \in InFlight(q, "switch") : Append(q, msg)[i] = q[i]
  BY <1>1, Appended
<1>3. QED
  BY <1>1, <1>2 DEF WillBe

LEMMA TypesWritten ==
    ASSUME NEW q \in Seq(Message), NEW msg \in Message, NEW box, msg.kind = "types"
    PROVE  WillPaste(Append(q, msg), box, msg.copy)
<1>1. Len(q) + 1 \in InFlight(Append(q, msg), "types")
  BY NowInFlight
<1>2. \A j \in InFlight(Append(q, msg), "types") : j <= Len(q) + 1
  BY NowInFlight, Appended
<1>3. Append(q, msg)[Len(q) + 1] = msg
  BY Appended
<1>4. QED
  BY <1>1, <1>2, <1>3 DEF WillPaste

LEMMA PasteUndisturbed ==
    ASSUME NEW q \in Seq(Message), NEW msg \in Message, NEW box, NEW copy,
           msg.kind # "types", WillPaste(q, box, copy)
    PROVE  WillPaste(Append(q, msg), box, copy)
<1>1. /\ InFlight(q, "types") \subseteq 1 .. Len(q)
      /\ InFlight(Append(q, msg), "types") = InFlight(q, "types")
  BY NowInFlight
<1>2. \A i \in InFlight(q, "types") : Append(q, msg)[i] = q[i]
  BY <1>1, Appended
<1>3. QED
  BY <1>1, <1>2 DEF WillPaste

\* Only the first Switch of a queue matters to a client not activated yet.
LEMMA FirstStays ==
    ASSUME NEW q \in Seq(Message), NEW msg \in Message, NEW local, FirstActivates(q, local),
           msg.kind # "switch" \/ InFlight(q, "switch") # {}
    PROVE  FirstActivates(Append(q, msg), local)
<1> DEFINE r == Append(q, msg)
<1>1. SUFFICES ASSUME NEW i \in InFlight(r, "switch"),
                      \A j \in InFlight(r, "switch") : i <= j
               PROVE  /\ r[i].enabled /\ ~r[i].pair
                      /\ \/ local = None \/ r[i].seen = 0
                         \/ \E n \in InFlight(r, "types") : n < i
  BY DEF FirstActivates
<1>2. /\ InFlight(q, "switch") \subseteq 1 .. Len(q) /\ Len(q) \in Nat
      /\ InFlight(q, "switch") \subseteq InFlight(r, "switch")
      /\ InFlight(q, "types") \subseteq InFlight(r, "types")
  BY NowInFlight, Appended
<1>3. i \in InFlight(q, "switch")
  <2>1. i # Len(q) + 1
    <3>1. CASE msg.kind # "switch"
      BY <1>1, <1>2, <3>1, NowInFlight
    <3>2. CASE InFlight(q, "switch") # {}
      <4>1. PICK j \in InFlight(q, "switch") : TRUE
        BY <3>2
      <4>2. i <= j /\ j <= Len(q) /\ j \in Nat
        BY <1>1, <1>2, <4>1
      <4>3. QED
        BY <1>2, <4>2
    <3>3. QED
      BY <3>1, <3>2
  <2>2. QED
    BY <1>1, <2>1, NowInFlight
<1>4. r[i] = q[i]
  BY <1>2, <1>3, Appended
<1>5. QED
  BY <1>1, <1>2, <1>3, <1>4 DEF FirstActivates

LEMMA FirstWritten ==
    ASSUME NEW q \in Seq(Message), NEW msg \in Message, NEW local,
           InFlight(q, "switch") = {}, msg.kind = "switch", msg.enabled, ~msg.pair,
           local = None \/ msg.seen = 0 \/ InFlight(q, "types") # {}
    PROVE  FirstActivates(Append(q, msg), local)
<1> DEFINE r == Append(q, msg)
<1>1. InFlight(r, "switch") = {Len(q) + 1} /\ r[Len(q) + 1] = msg
  BY NowInFlight, Appended
<1>2. InFlight(q, "types") # {} => \E n \in InFlight(r, "types") : n < Len(q) + 1
  <2>1. SUFFICES ASSUME NEW n \in InFlight(q, "types")
                 PROVE  n \in InFlight(r, "types") /\ n < Len(q) + 1
    OBVIOUS
  <2>2. QED
    BY <2>1, NowInFlight, Appended
<1>3. QED
  BY <1>1, <1>2 DEF FirstActivates

\* What is received is what the client is, no longer what it will be.
LEMMA SwitchRead ==
    ASSUME NEW q \in Seq(Message), q # <<>>, NEW active, NEW value, WillBe(q, active, value)
    PROVE  WillBe(Tail(q), IF Head(q).kind = "switch" THEN Head(q).enabled ELSE active, value)
<1> DEFINE r == Tail(q)
           now == IF Head(q).kind = "switch" THEN Head(q).enabled ELSE active
<1>1. CASE InFlight(q, "switch") = {} /\ active = value
  <2>1. Head(q).kind # "switch" /\ InFlight(r, "switch") = {}
    BY <1>1, StillInFlight, Received DEF InFlight
  <2>2. QED
    BY <1>1, <2>1 DEF WillBe
<1>2. ASSUME NEW i \in InFlight(q, "switch"), q[i].enabled = value,
             \A j \in InFlight(q, "switch") : j <= i
      PROVE  WillBe(r, now, value)
  <2>1. i \in Nat /\ i >= 1 /\ i <= Len(q) /\ Len(q) \in Nat
    BY <1>2, StillInFlight, Received
  <2>2. CASE i = 1
    <3>1. Head(q).kind = "switch" /\ Head(q).enabled = value
      BY <1>2, <2>2, StillInFlight, Received
    <3>2. InFlight(r, "switch") = {}
      <4>1. SUFFICES ASSUME NEW n \in InFlight(r, "switch") PROVE FALSE
        OBVIOUS
      <4>2. n \in Nat
        BY <4>1, Received DEF InFlight
      <4>3. n > 0 /\ n + 1 \in InFlight(q, "switch")
        BY <4>1, <4>2, StillInFlight
      <4>4. n + 1 <= 1
        BY <1>2, <2>2, <4>3
      <4>5. QED
        BY <4>2, <4>3, <4>4
    <3>3. QED
      BY <3>1, <3>2 DEF WillBe
  <2>3. CASE i # 1
    <3>1. i - 1 \in Nat /\ (i - 1) + 1 = i /\ i - 1 > 0 /\ i - 1 \in 1 .. (Len(q) - 1)
      BY <2>1, <2>3
    <3>2. i - 1 \in InFlight(r, "switch")
      BY <1>2, <3>1, StillInFlight
    <3>3. r[i - 1] = q[i]
      BY <3>1, Received
    <3>4. ASSUME NEW j \in InFlight(r, "switch") PROVE j <= i - 1
      <4>1. j \in Nat
        BY <3>4, Received DEF InFlight
      <4>2. j + 1 \in InFlight(q, "switch")
        BY <3>4, <4>1, StillInFlight
      <4>3. QED
        BY <1>2, <2>1, <4>1, <4>2
    <3>5. QED
      BY <1>2, <3>2, <3>3, <3>4 DEF WillBe
  <2>4. QED
    BY <2>2, <2>3
<1>3. QED
  BY <1>1, <1>2 DEF WillBe

LEMMA PasteRead ==
    ASSUME NEW q \in Seq(Message), q # <<>>, NEW box \in Clipboard, NEW copy,
           WillPaste(q, box, copy)
    PROVE  WillPaste(Tail(q),
                     IF Head(q).kind = "types" THEN StoreTypes(box, Head(q).copy) ELSE box, copy)
<1> DEFINE r == Tail(q)
           now == IF Head(q).kind = "types" THEN StoreTypes(box, Head(q).copy) ELSE box
<1>1. CASE InFlight(q, "types") = {} /\ (box.own \/ box.copy = copy)
  <2>1. Head(q).kind # "types" /\ InFlight(r, "types") = {}
    BY <1>1, StillInFlight, Received DEF InFlight
  <2>2. QED
    BY <1>1, <2>1 DEF WillPaste
<1>2. ASSUME NEW i \in InFlight(q, "types"), q[i].copy = copy,
             \A j \in InFlight(q, "types") : j <= i
      PROVE  WillPaste(r, now, copy)
  <2>1. i \in Nat /\ i >= 1 /\ i <= Len(q) /\ Len(q) \in Nat
    BY <1>2, StillInFlight, Received
  <2>2. CASE i = 1
    <3>1. Head(q).kind = "types" /\ Head(q).copy = copy
      BY <1>2, <2>2, StillInFlight, Received
    <3>2. InFlight(r, "types") = {}
      <4>1. SUFFICES ASSUME NEW n \in InFlight(r, "types") PROVE FALSE
        OBVIOUS
      <4>2. n \in Nat
        BY <4>1, Received DEF InFlight
      <4>3. n > 0 /\ n + 1 \in InFlight(q, "types")
        BY <4>1, <4>2, StillInFlight
      <4>4. n + 1 <= 1
        BY <1>2, <2>2, <4>3
      <4>5. QED
        BY <4>2, <4>3, <4>4
    <3>3. now.copy = copy
      BY <3>1 DEF StoreTypes, Clipboard
    <3>4. QED
      BY <3>2, <3>3 DEF WillPaste
  <2>3. CASE i # 1
    <3>1. i - 1 \in Nat /\ (i - 1) + 1 = i /\ i - 1 > 0 /\ i - 1 \in 1 .. (Len(q) - 1)
      BY <2>1, <2>3
    <3>2. i - 1 \in InFlight(r, "types")
      BY <1>2, <3>1, StillInFlight
    <3>3. r[i - 1] = q[i]
      BY <3>1, Received
    <3>4. ASSUME NEW j \in InFlight(r, "types") PROVE j <= i - 1
      <4>1. j \in Nat
        BY <3>4, Received DEF InFlight
      <4>2. j + 1 \in InFlight(q, "types")
        BY <3>4, <4>1, StillInFlight
      <4>3. QED
        BY <1>2, <2>1, <4>1, <4>2
    <3>5. QED
      BY <1>2, <3>2, <3>3, <3>4 DEF WillPaste
  <2>4. QED
    BY <2>2, <2>3
<1>3. QED
  BY <1>1, <1>2 DEF WillPaste

\* The types of another machine's clipboard leave a client none of its own.
LEMMA FirstRead ==
    ASSUME NEW q \in Seq(Message), q # <<>>, NEW local, FirstActivates(q, local),
           Head(q).kind # "switch"
    PROVE  FirstActivates(Tail(q), IF Head(q).kind = "types" THEN None ELSE local)
<1> DEFINE r == Tail(q)
           now == IF Head(q).kind = "types" THEN None ELSE local
<1>1. SUFFICES ASSUME NEW i \in InFlight(r, "switch"),
                      \A j \in InFlight(r, "switch") : i <= j
               PROVE  /\ r[i].enabled /\ ~r[i].pair
                      /\ \/ now = None \/ r[i].seen = 0
                         \/ \E n \in InFlight(r, "types") : n < i
  BY DEF FirstActivates
<1>2. i \in Nat /\ i \in 1 .. (Len(q) - 1)
  BY <1>1, Received DEF InFlight
<1>3. i + 1 \in InFlight(q, "switch") /\ r[i] = q[i + 1]
  BY <1>1, <1>2, StillInFlight, Received
<1>4. ASSUME NEW j \in InFlight(q, "switch") PROVE i + 1 <= j
  <2>1. j \in Nat /\ j # 1 /\ j >= 1
    BY <1>4, StillInFlight, Received
  <2>2. j - 1 \in Nat /\ j - 1 > 0 /\ (j - 1) + 1 = j
    BY <2>1
  <2>3. j - 1 \in InFlight(r, "switch")
    BY <1>4, <2>2, StillInFlight
  <2>4. QED
    BY <1>1, <1>2, <2>1, <2>3
<1>5. /\ q[i + 1].enabled /\ ~q[i + 1].pair
      /\ \/ local = None \/ q[i + 1].seen = 0
         \/ \E n \in InFlight(q, "types") : n < i + 1
  BY <1>3, <1>4 DEF FirstActivates
<1>6. ASSUME NEW n \in InFlight(q, "types"), n < i + 1, Head(q).kind # "types"
      PROVE  \E k \in InFlight(r, "types") : k < i
  <2>1. n \in Nat /\ n # 1 /\ n >= 1
    BY <1>6, StillInFlight, Received
  <2>2. n - 1 \in Nat /\ n - 1 > 0 /\ (n - 1) + 1 = n
    BY <2>1
  <2>3. n - 1 \in InFlight(r, "types") /\ n - 1 < i
    BY <1>2, <1>6, <2>1, <2>2, StillInFlight
  <2>4. QED
    BY <2>3
<1>7. QED
  BY <1>3, <1>5, <1>6

LEMMA FirstIsRead ==
    ASSUME NEW q \in Seq(Message), q # <<>>, NEW local, FirstActivates(q, local),
           Head(q).kind = "switch"
    PROVE  Head(q).enabled /\ ~Head(q).pair /\ (local = None \/ Head(q).seen = 0)
<1>1. 1 \in InFlight(q, "switch") /\ Head(q) = q[1]
  BY StillInFlight, Received
<1>2. InFlight(q, "switch") \subseteq Nat /\ \A j \in InFlight(q, "switch") : 1 <= j
  BY StillInFlight, Received
<1>3. ~\E n \in InFlight(q, "types") : n < 1
  BY StillInFlight, Received
<1>4. QED
  BY <1>1, <1>2, <1>3 DEF FirstActivates

-----------------------------------------------------------------------------
(* The writes of the server.                                               *)

\* Connections are as they were, and what was lost stays so; an application's
\* news may give way to the end of its selection.
Writes(s, t) ==
    /\ t.listed = s.listed /\ t.open = s.open /\ t.machine = s.machine
    /\ t.host.news \in {s.host.news, 0}
    /\ \A d \in Conn \ s.open : t.down[d] = s.down[d]

\* Nothing but the queues changes.
OnlyWrites(s, t) ==
    /\ Writes(s, t) /\ t.host = s.host /\ t.current = s.current
    /\ t.target = s.target /\ t.removed = s.removed

LEMMA Stored ==
    ASSUME NEW box \in Clipboard, NEW copy \in Copy \union {0}
    PROVE  /\ StoreTypes(box, copy) \in Clipboard
           /\ StoreTypes(box, copy).news \in {box.news, 0}
<1>1. copy \in 0 .. MaxCopies /\ 0 \in 0 .. MaxCopies
  BY HandoffAssumption DEF Copy
<1> DEFINE news == IF copy = 0 /\ box.own THEN 0 ELSE box.news
<1>2. news \in 0 .. MaxCopies \union {None} /\ news \in {box.news, 0}
  BY <1>1 DEF Clipboard
<1> HIDE DEF news
<1>3. [box EXCEPT !.copy = copy, !.own = FALSE, !.news = news] \in Clipboard
  BY <1>1, <1>2 DEF Clipboard
<1>4. [box EXCEPT !.copy = copy, !.own = FALSE, !.news = news].news = news
  BY DEF Clipboard
<1>5. QED
  BY <1>2, <1>3, <1>4 DEF StoreTypes, news

LEMMA WritesTransitive ==
    ASSUME NEW s, NEW t, NEW u, Writes(s, t), Writes(t, u)
    PROVE  Writes(s, u)
BY DEF Writes

LEMMA Sent ==
    ASSUME NEW s, Sound(s), NEW c, NEW msg \in Message
    PROVE  /\ Sound(Send(s, c, msg)) /\ OnlyWrites(s, Send(s, c, msg))
           /\ \A d \in s.open : Send(s, c, msg).down[d] =
                 IF d = c THEN Append(s.down[d], msg) ELSE s.down[d]
<1>1. CASE c \in s.listed /\ c \in s.open
  <2>1. c \in Conn /\ s.open \subseteq Conn /\ s.down \in [Conn -> Seq(Message)] /\ s \in Server
    BY <1>1 DEF Sound, Server
  <2>2. Append(s.down[c], msg) \in Seq(Message)
    BY <2>1, Appended
  <2> DEFINE down == [s.down EXCEPT ![c] = Append(s.down[c], msg)]
             t == [s EXCEPT !.down = down]
  <2>3. Send(s, c, msg) = t
    BY <1>1, <2>1 DEF Send, Server
  <2>4. down \in [Conn -> Seq(Message)]
    BY <2>1, <2>2
  <2>5. \A d \in Conn : down[d] = IF d = c THEN Append(s.down[d], msg) ELSE s.down[d]
    BY <2>1
  <2> HIDE DEF down
  <2>6. /\ t \in Server /\ t.down = down
        /\ t.listed = s.listed /\ t.open = s.open /\ t.machine = s.machine /\ t.host = s.host
        /\ t.current = s.current /\ t.target = s.target /\ t.removed = s.removed
    BY <2>1, <2>4 DEF Server
  <2> HIDE DEF t
  <2>7. Sound(t)
    BY <2>6 DEF Sound
  <2>8. OnlyWrites(s, t)
    BY <1>1, <2>5, <2>6 DEF OnlyWrites, Writes
  <2>9. QED
    BY <2>1, <2>3, <2>5, <2>6, <2>7, <2>8
<1>2. CASE ~(c \in s.listed /\ c \in s.open)
  <2>1. Send(s, c, msg) = s
    BY <1>2 DEF Send
  <2>2. c \notin s.open
    BY <1>2 DEF Sound
  <2>3. QED
    BY <2>1, <2>2 DEF OnlyWrites, Writes
<1>3. QED
  BY <1>1, <1>2

LEMMA SentToAll ==
    ASSUME NEW s, Sound(s), NEW conns, NEW msg \in Message
    PROVE  /\ Sound(SendAll(s, conns, msg)) /\ OnlyWrites(s, SendAll(s, conns, msg))
           /\ \A d \in s.open : SendAll(s, conns, msg).down[d] =
                 IF d \in conns THEN Append(s.down[d], msg) ELSE s.down[d]
<1>1. /\ s.open \subseteq Conn /\ s.down \in [Conn -> Seq(Message)] /\ s \in Server
      /\ s.open \subseteq s.listed
  BY DEF Sound, Server
<1> DEFINE down == [d \in Conn |-> IF d \in conns \intersect s.listed \intersect s.open
                                   THEN Append(s.down[d], msg) ELSE s.down[d]]
           t == [s EXCEPT !.down = down]
<1>2. SendAll(s, conns, msg) = t
  BY <1>1 DEF SendAll
<1>3. down \in [Conn -> Seq(Message)]
  BY <1>1, Appended
<1>4. /\ \A d \in Conn \ s.open : down[d] = s.down[d]
      /\ \A d \in s.open : down[d] = IF d \in conns THEN Append(s.down[d], msg) ELSE s.down[d]
  BY <1>1
<1> HIDE DEF down
<1>5. /\ t \in Server /\ t.down = down
      /\ t.listed = s.listed /\ t.open = s.open /\ t.machine = s.machine /\ t.host = s.host
      /\ t.current = s.current /\ t.target = s.target /\ t.removed = s.removed
  BY <1>1, <1>3 DEF Server
<1> HIDE DEF t
<1>6. Sound(t)
  BY <1>5 DEF Sound
<1>7. OnlyWrites(s, t)
  BY <1>4, <1>5 DEF OnlyWrites, Writes
<1>8. QED
  BY <1>2, <1>4, <1>5, <1>6, <1>7

LEMMA TargetFacts ==
    ASSUME NEW s, Sound(s)
    PROVE  /\ s.target # None => /\ s.target.copy \in Copy
                                 /\ s.target.source \in Conn \union {Local}
                                 /\ Types(s.target.copy) \in Message
           /\ Seen(s) \in Copy \union {0}
           /\ s.target = None => Seen(s) = 0
           /\ Local \notin s.listed /\ s.current \in Conn \union {Local}
           /\ s.host \in Clipboard /\ s.open \subseteq s.listed /\ s.listed \subseteq Conn
           /\ s.down \in [Conn -> Seq(Message)]
<1>1. s \in Server
  BY DEF Sound
<1>2. s.target # None => s.target \in Target
  BY <1>1 DEF Server
<1>3. /\ Local \notin s.listed /\ s.current \in Conn \union {Local} /\ s.host \in Clipboard
      /\ s.open \subseteq s.listed /\ s.listed \subseteq Conn /\ s.down \in [Conn -> Seq(Message)]
  BY <1>1 DEF Sound, Server, Local, Conn
<1>4. QED
  BY <1>2, <1>3, MessageKinds DEF Target, Seen

\* Whose turn it is gets the target's types, but for their owner.
LEMMA Pushed ==
    ASSUME NEW s, Sound(s)
    PROVE  LET t == UpdateCurrentClipboard(s)
           IN  /\ Sound(t) /\ Writes(s, t) /\ t.current = s.current
               /\ t.target = s.target /\ t.removed = s.removed
               /\ \A d \in s.open : t.down[d] =
                     IF s.target # None /\ d = s.current /\ s.target.source # d
                     THEN Append(s.down[d], Types(s.target.copy)) ELSE s.down[d]
<1> DEFINE t == UpdateCurrentClipboard(s)
<1>1. CASE t = s /\ (s.target = None \/ s.target.source = s.current)
  BY <1>1 DEF Writes
<1>2. CASE s.target # None /\ s.current # Local /\ s.target.source # s.current
  <2>1. t = Send(s, s.current, Types(s.target.copy)) /\ Types(s.target.copy) \in Message
    BY <1>2, TargetFacts DEF UpdateCurrentClipboard
  <2>2. QED
    BY <1>2, <2>1, Sent DEF OnlyWrites
<1>3. CASE s.target # None /\ s.current = Local /\ s.target.source # Local
  <2> DEFINE own == StoreTypes(s.host, s.target.copy)
  <2>1. t = [s EXCEPT !.host = own]
    BY <1>3 DEF UpdateCurrentClipboard
  <2>2. own \in Clipboard /\ own.news \in {s.host.news, 0}
    BY <1>3, Stored, TargetFacts
  <2> HIDE DEF own
  <2>3. s \in Server
    BY DEF Sound
  <2>4. /\ t \in Server /\ t.host = own /\ t.down = s.down
        /\ t.listed = s.listed /\ t.open = s.open /\ t.machine = s.machine
        /\ t.current = s.current /\ t.target = s.target /\ t.removed = s.removed
    BY <2>1, <2>2, <2>3 DEF Server
  <2> HIDE DEF t
  <2>5. Sound(t) /\ Writes(s, t)
    BY <2>2, <2>4 DEF Sound, Writes
  <2>6. s.current \notin s.open
    BY <1>3, TargetFacts
  <2>7. QED
    BY <2>4, <2>5, <2>6 DEF t
<1>4. QED
  BY <1>1, <1>2, <1>3 DEF UpdateCurrentClipboard

-----------------------------------------------------------------------------
(* The handlers of the server keep what they agree on with every client.   *)

\* Messages other than Switch, as long as they offer no other copy.
LEMMA QuietWrite ==
    ASSUME NEW s, NEW t, Sound(s), Sound(t), NEW d \in s.open, NEW m \in Client,
           Agreed(s, d, m), t.current = d <=> s.current = d, t.target \in {s.target, None},
           \/ t.down[d] = s.down[d]
           \/ \E msg \in Message : /\ t.down[d] = Append(s.down[d], msg)
                                   /\ msg.kind # "switch"
                                   /\ msg.kind = "types" /\ t.target # None
                                         => msg.copy = t.target.copy
    PROVE  Agreed(t, d, m)
<1>1. s.down[d] \in Seq(Message)
  BY TargetFacts
<1>2. CASE t.down[d] = s.down[d]
  BY <1>2 DEF Agreed
<1>3. ASSUME NEW msg \in Message, t.down[d] = Append(s.down[d], msg), msg.kind # "switch",
             msg.kind = "types" /\ t.target # None => msg.copy = t.target.copy
      PROVE  Agreed(t, d, m)
  <2>1. WillBe(t.down[d], m.active, t.current = d)
    <3>1. WillBe(s.down[d], m.active, s.current = d) /\ (t.current = d) = (s.current = d)
      BY DEF Agreed
    <3>2. QED
      BY <1>1, <1>3, <3>1, OtherWritten
  <2>2. ASSUME t.current = d, t.target # None, t.target.source # d
        PROVE  WillPaste(t.down[d], m.box, t.target.copy)
    <3>1. CASE msg.kind = "types"
      BY <1>1, <1>3, <2>2, <3>1, TypesWritten
    <3>2. CASE msg.kind # "types"
      <4>1. WillPaste(s.down[d], m.box, t.target.copy)
        BY <2>2 DEF Agreed
      <4>2. QED
        BY <1>1, <1>3, <3>2, <4>1, PasteUndisturbed
    <3>3. QED
      BY <3>1, <3>2
  <2>3. m.fresh => FirstActivates(t.down[d], m.local)
    BY <1>1, <1>3, FirstStays DEF Agreed
  <2>4. m.fresh => ~m.active /\ ~m.deferred /\ (t.target # None => t.target.source # d)
    BY DEF Agreed
  <2>5. QED
    BY <2>1, <2>2, <2>3, <2>4 DEF Agreed
<1>4. QED
  BY <1>2, <1>3

\* The client that is switched to: types of another's clipboard, then the
\* Switch that tells it whose turn it is.
LEMMA Activated ==
    ASSUME NEW s, Sound(s), NEW d \in s.open, NEW m \in Client, Agreed(s, d, m),
           s.current # d, NEW t, t.current = d, t.target = s.target, NEW q \in Seq(Message),
           q = IF s.target # None /\ s.target.source # d
               THEN Append(s.down[d], Types(s.target.copy)) ELSE s.down[d],
           t.down[d] = Append(q, Switch(TRUE, Seen(s), FALSE))
    PROVE  Agreed(t, d, m)
<1> DEFINE msg == Switch(TRUE, Seen(s), FALSE)
           p == s.down[d]
           types == Types(s.target.copy)
<1>1. /\ msg \in Message /\ msg.kind = "switch" /\ msg.enabled /\ ~msg.pair
      /\ msg.seen = Seen(s) /\ (s.target = None => msg.seen = 0)
  <2>1. Seen(s) \in Copy \union {0} /\ (s.target = None => Seen(s) = 0)
    BY TargetFacts
  <2>2. msg \in Message /\ msg.kind = "switch" /\ msg.seen = Seen(s)
    BY <2>1, MessageKinds
  <2>3. msg.enabled = TRUE /\ msg.pair = FALSE
    BY DEF Switch
  <2>4. QED
    BY <2>1, <2>2, <2>3
<1>2. p \in Seq(Message)
  BY TargetFacts
<1>3. s.target # None => /\ types \in Message /\ types.kind = "types"
                         /\ types.copy = s.target.copy
  BY MessageKinds, TargetFacts
<1> HIDE DEF msg, p, types
<1>4. t.down[d] = Append(q, msg)
  BY DEF msg
<1>5. q = IF s.target # None /\ s.target.source # d THEN Append(p, types) ELSE p
  BY DEF p, types
<1>6. WillBe(t.down[d], m.active, t.current = d)
  BY <1>1, <1>4, SwitchWritten
<1>7. ASSUME t.target # None, t.target.source # d
      PROVE  WillPaste(t.down[d], m.box, t.target.copy)
  <2>1. q = Append(p, types)
    BY <1>5, <1>7
  <2>2. WillPaste(q, m.box, t.target.copy)
    BY <1>2, <1>3, <1>7, <2>1, TypesWritten
  <2>3. QED
    BY <1>1, <1>4, <2>2, PasteUndisturbed
<1>8. ASSUME m.fresh
      PROVE  FirstActivates(t.down[d], m.local)
  <2>1. FirstActivates(p, m.local) /\ (s.target # None => s.target.source # d)
    BY <1>8 DEF Agreed, p
  <2>2. FirstActivates(q, m.local)
    BY <1>2, <1>3, <1>5, <2>1, FirstStays
  <2>3. CASE InFlight(q, "switch") # {}
    BY <1>1, <1>4, <2>2, <2>3, FirstStays
  <2>4. CASE InFlight(q, "switch") = {}
    <3>1. msg.seen = 0 \/ InFlight(q, "types") # {}
      BY <1>1, <1>2, <1>3, <1>5, <2>1, NowInFlight
    <3>2. QED
      BY <1>1, <1>4, <2>4, <3>1, FirstWritten
  <2>5. QED
    BY <2>3, <2>4
<1>9. m.fresh => ~m.active /\ ~m.deferred /\ (t.target # None => t.target.source # d)
  BY DEF Agreed
<1>10. QED
  BY <1>6, <1>7, <1>8, <1>9 DEF Agreed

\* The client that is left: it has been told that it was its turn.
LEMMA Deactivated ==
    ASSUME NEW s, Sound(s), NEW m \in Client, s.current \in s.open, Agreed(s, s.current, m),
           NEW t, t.current # s.current, t.target = s.target,
           t.down[s.current] = Append(s.down[s.current], Switch(FALSE, 0, FALSE))
    PROVE  Agreed(t, s.current, m)
<1> DEFINE msg == Switch(FALSE, 0, FALSE)
           d == s.current
           q == s.down[d]
<1>1. msg \in Message /\ msg.kind = "switch" /\ msg.enabled = FALSE
  BY MessageKinds
<1>2. q \in Seq(Message)
  BY TargetFacts
<1>3. WillBe(q, m.active, TRUE)
  <2>1. (s.current = d) = TRUE
    OBVIOUS
  <2>2. QED
    BY <2>1 DEF Agreed
<1> HIDE DEF msg, q
<1>4. t.down[d] = Append(q, msg)
  BY DEF q, msg
<1>5. WillBe(t.down[d], m.active, t.current = d)
  <2>1. (t.current = d) = FALSE
    OBVIOUS
  <2>2. QED
    BY <1>1, <1>2, <1>4, <2>1, SwitchWritten
<1>6. ASSUME m.fresh
      PROVE  FirstActivates(t.down[d], m.local)
  <2>1. FirstActivates(q, m.local) /\ ~m.active
    BY <1>6 DEF Agreed, q
  <2>2. InFlight(q, "switch") # {}
    BY <1>3, <2>1 DEF WillBe
  <2>3. QED
    BY <1>1, <1>2, <1>4, <2>1, <2>2, FirstStays
<1>7. m.fresh => ~m.active /\ ~m.deferred /\ (t.target # None => t.target.source # d)
  BY DEF Agreed
<1>8. QED
  BY <1>5, <1>6, <1>7 DEF Agreed

LEMMA SwitchToKeeps ==
    ASSUME NEW s, Sound(s), NEW c \in s.listed \union {Local}
    PROVE  LET t == SwitchTo(s, c)
           IN  /\ Sound(t) /\ Writes(s, t) /\ t.current = c
               /\ t.target = s.target /\ t.removed = None
               /\ \A d \in s.open, m \in Client : Agreed(s, d, m) => Agreed(t, d, m)
<1> DEFINE t == SwitchTo(s, c)
<1>1. s \in Server
  BY DEF Sound
<1>2. CASE c = s.current
  <2>1. t = [s EXCEPT !.removed = None]
    BY <1>2 DEF SwitchTo
  <2>2. /\ t \in Server /\ t.listed = s.listed /\ t.open = s.open /\ t.machine = s.machine
        /\ t.host = s.host /\ t.current = s.current /\ t.target = s.target /\ t.removed = None
        /\ t.down = s.down
    BY <1>1, <2>1 DEF Server
  <2> HIDE DEF t
  <2>3. Sound(t) /\ Writes(s, t)
    BY <2>2 DEF Sound, Writes
  <2>4. QED
    BY <1>2, <2>2, <2>3 DEF Agreed, t
<1>3. CASE c # s.current
  <2> DEFINE t0 == [s EXCEPT !.removed = None, !.current = c]
             t1 == UpdateCurrentClipboard(t0)
             on == Switch(TRUE, Seen(s), FALSE)
             off == Switch(FALSE, 0, FALSE)
             t2 == Send(t1, c, on)
             t3 == Send(t2, s.current, off)
  <2>1. t = t3
    BY <1>3 DEF SwitchTo
  <2>2. /\ t0 \in Server /\ t0.listed = s.listed /\ t0.open = s.open
        /\ t0.machine = s.machine /\ t0.host = s.host /\ t0.current = c
        /\ t0.target = s.target /\ t0.removed = None /\ t0.down = s.down
    BY <1>1, TargetFacts DEF Server
  <2> HIDE DEF t, t0
  <2>3. Sound(t0) /\ Writes(s, t0)
    BY <2>2 DEF Sound, Writes
  <2>4. on \in Message /\ off \in Message
    BY MessageKinds, TargetFacts
  <2>5. /\ Sound(t1) /\ Writes(t0, t1) /\ t1.current = c
        /\ t1.target = s.target /\ t1.removed = None
        /\ \A d \in s.open : t1.down[d] =
              IF s.target # None /\ d = c /\ s.target.source # d
              THEN Append(s.down[d], Types(s.target.copy)) ELSE s.down[d]
    BY <2>2, <2>3, Pushed
  <2> HIDE DEF t1, on, off
  <2>6. /\ Sound(t2) /\ OnlyWrites(t1, t2) /\ t1.open = s.open /\ t2.open = s.open
        /\ \A d \in s.open : t2.down[d] =
              IF d = c THEN Append(t1.down[d], on) ELSE t1.down[d]
    <3>1. t1.open = s.open
      BY <2>2, <2>5 DEF Writes
    <3>2. /\ Sound(t2) /\ OnlyWrites(t1, t2)
          /\ \A d \in t1.open : t2.down[d] =
                IF d = c THEN Append(t1.down[d], on) ELSE t1.down[d]
      BY <2>4, <2>5, Sent
    <3> HIDE DEF t2
    <3>3. QED
      BY <3>1, <3>2 DEF OnlyWrites, Writes
  <2> HIDE DEF t2
  <2>8. /\ Sound(t3) /\ OnlyWrites(t2, t3)
        /\ \A d \in s.open : t3.down[d] =
              IF d = s.current THEN Append(t2.down[d], off) ELSE t2.down[d]
    <3>1. /\ Sound(t3) /\ OnlyWrites(t2, t3)
          /\ \A d \in t2.open : t3.down[d] =
                IF d = s.current THEN Append(t2.down[d], off) ELSE t2.down[d]
      BY <2>4, <2>6, Sent
    <3> HIDE DEF t3
    <3>2. QED
      BY <2>6, <3>1
  <2> HIDE DEF t3
  <2>10. Writes(s, t3) /\ t3.current = c /\ t3.target = s.target /\ t3.removed = None
    <3>1. Writes(t1, t2) /\ Writes(t2, t3)
      BY <2>6, <2>8 DEF OnlyWrites
    <3>2. Writes(s, t3)
      BY <2>3, <2>5, <3>1, WritesTransitive
    <3>3. QED
      BY <2>5, <2>6, <2>8, <3>2 DEF OnlyWrites
  <2>11. ASSUME NEW d \in s.open, NEW m \in Client, Agreed(s, d, m)
         PROVE  Agreed(t3, d, m)
    <3>1. CASE d = c
      <4>1. t1.down[d] \in Seq(Message)
        BY <2>5, <2>6, TargetFacts
      <4>2. t3.down[d] = Append(t1.down[d], Switch(TRUE, Seen(s), FALSE))
        BY <1>3, <2>6, <2>8, <3>1 DEF on
      <4>3. t1.down[d] = IF s.target # None /\ s.target.source # d
                         THEN Append(s.down[d], Types(s.target.copy)) ELSE s.down[d]
        BY <2>5, <3>1
      <4>4. QED
        BY <1>3, <2>10, <2>11, <3>1, <4>1, <4>2, <4>3, Activated
    <3>2. CASE d = s.current
      <4>1. t3.down[s.current] = Append(s.down[s.current], Switch(FALSE, 0, FALSE))
        BY <1>3, <2>5, <2>6, <2>8, <3>2 DEF off
      <4>2. QED
        BY <1>3, <2>10, <2>11, <3>2, <4>1, Deactivated
    <3>3. CASE d # c /\ d # s.current
      <4>1. t3.down[d] = s.down[d]
        BY <2>5, <2>6, <2>8, <3>3
      <4>2. QED
        BY <2>8, <2>10, <2>11, <3>3, <4>1, QuietWrite
    <3>4. QED
      BY <3>1, <3>2, <3>3
  <2>12. t = t3 /\ Sound(t) /\ Writes(s, t) /\ t.current = c /\ t.target = s.target
         /\ t.removed = None
    BY <2>1, <2>8, <2>10
  <2>13. \A d \in s.open, m \in Client : Agreed(s, d, m) => Agreed(t, d, m)
    BY <2>11, <2>12
  <2>14. QED
    BY <2>12, <2>13 DEF t
<1>4. QED
  BY <1>2, <1>3

\* A key release undoes its deactivation at once.
LEMMA ReleaseKeysKeeps ==
    ASSUME NEW s, Sound(s)
    PROVE  LET t == ReleaseKeys(s)
           IN  /\ Sound(t) /\ OnlyWrites(s, t)
               /\ \A d \in s.open, m \in Client : Agreed(s, d, m) => Agreed(t, d, m)
<1> DEFINE off == Switch(FALSE, 0, TRUE)
           on == Switch(TRUE, Seen(s), TRUE)
           t1 == Send(s, s.current, off)
           t2 == Send(t1, s.current, on)
<1>1. /\ off \in Message /\ off.kind = "switch" /\ off.enabled = FALSE
      /\ on \in Message /\ on.kind = "switch" /\ on.enabled = TRUE
  BY MessageKinds, TargetFacts
<1>2. ReleaseKeys(s) = t2
  BY DEF ReleaseKeys
<1> HIDE DEF off, on
<1>3. /\ Sound(t1) /\ OnlyWrites(s, t1)
      /\ \A d \in s.open : t1.down[d] =
            IF d = s.current THEN Append(s.down[d], off) ELSE s.down[d]
  BY <1>1, Sent
<1> HIDE DEF t1
<1>4. /\ Sound(t2) /\ OnlyWrites(t1, t2)
      /\ \A d \in t1.open : t2.down[d] =
            IF d = s.current THEN Append(t1.down[d], on) ELSE t1.down[d]
  BY <1>1, <1>3, Sent
<1> HIDE DEF t2
<1>5. OnlyWrites(s, t2) /\ t1.open = s.open
  BY <1>3, <1>4 DEF OnlyWrites, Writes
<1>6. ASSUME NEW d \in s.open, NEW m \in Client, Agreed(s, d, m)
      PROVE  Agreed(t2, d, m)
  <2>1. CASE d # s.current
    <3>1. t2.down[d] = s.down[d]
      BY <1>3, <1>4, <1>5, <2>1
    <3>2. QED
      BY <1>4, <1>5, <1>6, <2>1, <3>1, QuietWrite DEF OnlyWrites
  <2>2. CASE d = s.current
    <3> DEFINE q == s.down[d]
               r == Append(q, off)
    <3>1. t2.down[d] = Append(r, on)
      BY <1>3, <1>4, <1>5, <2>2
    <3>2. q \in Seq(Message) /\ r \in Seq(Message)
      BY <1>1, TargetFacts, Appended
    <3>3. WillBe(q, m.active, TRUE)
      <4>1. (s.current = d) = TRUE
        BY <2>2
      <4>2. QED
        BY <1>6, <4>1 DEF Agreed
    <3>4. WillBe(t2.down[d], m.active, t2.current = d)
      <4>1. (t2.current = d) = TRUE
        BY <1>5, <2>2 DEF OnlyWrites
      <4>2. WillBe(Append(r, on), m.active, on.enabled)
        BY <1>1, <3>2, SwitchWritten
      <4>3. QED
        BY <1>1, <3>1, <4>1, <4>2
    <3>5. ASSUME s.target # None, s.target.source # d
          PROVE  WillPaste(t2.down[d], m.box, s.target.copy)
      <4>1. WillPaste(q, m.box, s.target.copy)
        BY <1>6, <2>2, <3>5 DEF Agreed
      <4>2. WillPaste(r, m.box, s.target.copy)
        BY <1>1, <3>2, <4>1, PasteUndisturbed
      <4>3. QED
        BY <1>1, <3>1, <3>2, <4>2, PasteUndisturbed
    <3>6. ASSUME m.fresh
          PROVE  FirstActivates(t2.down[d], m.local)
      <4>1. FirstActivates(q, m.local) /\ ~m.active
        BY <1>6, <3>6 DEF Agreed
      <4>2. InFlight(q, "switch") # {}
        BY <3>3, <4>1 DEF WillBe
      <4>3. FirstActivates(r, m.local) /\ InFlight(r, "switch") # {}
        BY <1>1, <3>2, <4>1, <4>2, FirstStays, NowInFlight
      <4>4. QED
        BY <1>1, <3>1, <3>2, <4>3, FirstStays
    <3>7. /\ t2.target = s.target
          /\ m.fresh => ~m.active /\ ~m.deferred /\ (s.target # None => s.target.source # d)
      BY <1>5, <1>6 DEF Agreed, OnlyWrites
    <3> HIDE DEF q, r
    <3>8. QED
      BY <3>4, <3>5, <3>6, <3>7 DEF Agreed
  <2>3. QED
    BY <2>1, <2>2
<1>7. QED
  BY <1>2, <1>4, <1>5, <1>6

LEMMA ClipboardClearKeeps ==
    ASSUME NEW s, Sound(s)
    PROVE  LET t == ClipboardClear(s)
           IN  /\ Sound(t) /\ Writes(s, t) /\ t.current = s.current
               /\ t.target = None /\ t.removed = s.removed
               /\ \A d \in s.open, m \in Client : Agreed(s, d, m) => Agreed(t, d, m)
<1> DEFINE own == StoreTypes(s.host, 0)
           t0 == [s EXCEPT !.target = None, !.host = own]
           t == SendAll(t0, s.listed, Types(0))
<1>1. s \in Server
  BY DEF Sound
<1>2. own \in Clipboard /\ own.news \in {s.host.news, 0}
  BY Stored, TargetFacts
<1>3. ClipboardClear(s) = t
  BY DEF ClipboardClear
<1>4. Types(0) \in Message /\ Types(0).kind = "types"
  BY MessageKinds
<1> HIDE DEF own
<1>5. /\ t0 \in Server /\ t0.listed = s.listed /\ t0.open = s.open
      /\ t0.machine = s.machine /\ t0.host = own /\ t0.current = s.current
      /\ t0.target = None /\ t0.removed = s.removed /\ t0.down = s.down
  BY <1>1, <1>2 DEF Server
<1> HIDE DEF t0
<1>6. Sound(t0) /\ Writes(s, t0)
  BY <1>2, <1>5 DEF Sound, Writes
<1>7. /\ Sound(t) /\ OnlyWrites(t0, t)
      /\ \A d \in t0.open : t.down[d] =
            IF d \in s.listed THEN Append(t0.down[d], Types(0)) ELSE t0.down[d]
  BY <1>4, <1>6, SentToAll
<1> HIDE DEF t
<1>8. Writes(s, t)
  BY <1>6, <1>7, WritesTransitive DEF OnlyWrites
<1>9. t.current = s.current /\ t.target = None /\ t.removed = s.removed
  BY <1>5, <1>7 DEF OnlyWrites
<1>10. ASSUME NEW d \in s.open, NEW m \in Client, Agreed(s, d, m)
       PROVE  Agreed(t, d, m)
  <2>1. t.down[d] = s.down[d] \/ t.down[d] = Append(s.down[d], Types(0))
    BY <1>5, <1>7
  <2>2. QED
    BY <1>4, <1>7, <1>9, <1>10, <2>1, QuietWrite
<1>11. QED
  BY <1>3, <1>7, <1>8, <1>9, <1>10

\* An announcement from a connection whose client has been activated: all
\* others keep what they agree on.
LEMMA UpdateSourceKeeps ==
    ASSUME NEW s, Sound(s), NEW source \in 0 .. Len(s.machine), NEW copy \in Copy \union {0}
    PROVE  LET t == UpdateSource(s, source, copy)
           IN  /\ Sound(t) /\ Writes(s, t) /\ t.current = s.current /\ t.removed = s.removed
               /\ t.target \in {s.target, None, [source |-> source, copy |-> copy]}
               /\ copy = 0 => t.target = None
               /\ \A d \in s.open, m \in Client :
                     Agreed(s, d, m) /\ (m.fresh => d # source) => Agreed(t, d, m)
<1> DEFINE t == UpdateSource(s, source, copy)
           target == [source |-> source, copy |-> copy]
<1>1. s \in Server /\ Len(s.machine) \in Nat /\ Len(s.machine) <= MaxConns
  BY LenProperties DEF Sound, Server
<1>2. CASE copy = 0
  BY <1>2, ClipboardClearKeeps DEF UpdateSource
<1>3. CASE copy # 0 /\ s.target = target
  <2>1. t = s
    BY <1>3 DEF UpdateSource
  <2>2. QED
    BY <1>3, <2>1 DEF Writes
<1>4. CASE copy # 0 /\ s.target # target
  <2> DEFINE t0 == [s EXCEPT !.target = target]
             t1 == UpdateCurrentClipboard(t0)
  <2>1. t = t1
    BY <1>4 DEF UpdateSource
  <2>2. target \in Target
    <3>1. source \in Conn \union {Local}
      BY <1>1, HandoffAssumption DEF Conn, Local
    <3>2. QED
      BY <1>4, <3>1 DEF Target
  <2>3. target.source = source /\ target.copy = copy
    OBVIOUS
  <2> HIDE DEF target, t
  <2>4. /\ t0 \in Server /\ t0.listed = s.listed /\ t0.open = s.open
        /\ t0.machine = s.machine /\ t0.host = s.host /\ t0.current = s.current
        /\ t0.target = target /\ t0.removed = s.removed /\ t0.down = s.down
    BY <1>1, <2>2 DEF Server
  <2> HIDE DEF t0
  <2>5. Sound(t0) /\ Writes(s, t0)
    BY <2>3, <2>4 DEF Sound, Writes
  <2>6. /\ Sound(t1) /\ Writes(t0, t1) /\ t1.current = s.current
        /\ t1.target = target /\ t1.removed = s.removed
        /\ \A d \in s.open : t1.down[d] =
              IF target # None /\ d = s.current /\ target.source # d
              THEN Append(s.down[d], Types(target.copy)) ELSE s.down[d]
    BY <2>4, <2>5, Pushed
  <2> HIDE DEF t1
  <2>7. Writes(s, t1)
    BY <2>5, <2>6, WritesTransitive
  <2>8. ASSUME NEW d \in s.open, NEW m \in Client, Agreed(s, d, m), m.fresh => d # source
        PROVE  Agreed(t1, d, m)
    <3> DEFINE q == s.down[d]
               msg == Types(copy)
    <3>1. q \in Seq(Message)
      BY TargetFacts
    <3>2. msg \in Message /\ msg.kind = "types" /\ msg.copy = copy
      BY MessageKinds
    <3>3. t1.down[d] = IF target # None /\ d = s.current /\ source # d
                       THEN Append(q, msg) ELSE q
      BY <2>3, <2>6
    <3>4. WillBe(q, m.active, t1.current = d) /\ (m.fresh => FirstActivates(q, m.local))
      BY <2>6, <2>8 DEF Agreed
    <3> HIDE DEF q, msg
    <3>5. WillBe(t1.down[d], m.active, t1.current = d)
      BY <3>1, <3>2, <3>3, <3>4, OtherWritten
    <3>6. m.fresh => FirstActivates(t1.down[d], m.local)
      BY <3>1, <3>2, <3>3, <3>4, FirstStays
    <3>7. ASSUME t1.current = d, t1.target # None, t1.target.source # d
          PROVE  WillPaste(t1.down[d], m.box, t1.target.copy)
      <4>1. t1.down[d] = Append(q, msg) /\ t1.target.copy = msg.copy
        BY <2>3, <2>6, <3>2, <3>3, <3>7
      <4>2. QED
        BY <3>1, <3>2, <4>1, TypesWritten
    <3>8. m.fresh => ~m.active /\ ~m.deferred /\ (t1.target # None => t1.target.source # d)
      BY <2>3, <2>6, <2>8 DEF Agreed
    <3>9. QED
      BY <3>5, <3>6, <3>7, <3>8 DEF Agreed
  <2>9. t = t1 /\ Sound(t) /\ Writes(s, t) /\ t.current = s.current /\ t.target = target
        /\ t.removed = s.removed
    BY <2>1, <2>6, <2>7
  <2>10. \A d \in s.open, m \in Client :
             Agreed(s, d, m) /\ (m.fresh => d # source) => Agreed(t, d, m)
    BY <2>8, <2>9
  <2>11. QED
    BY <1>4, <2>9, <2>10 DEF t, target
<1>5. QED
  BY <1>2, <1>3, <1>4

\* What the calls of add_client have in common.
Goes(s, t) ==
    /\ Sound(t) /\ Writes(s, t) /\ t.target = s.target
    /\ \A d \in s.open, m \in Client : Agreed(s, d, m) => Agreed(t, d, m)

LEMMA GoesTransitive ==
    ASSUME NEW s, NEW t, NEW u, Goes(s, t), Goes(t, u)
    PROVE  Goes(s, u)
<1>1. Writes(s, u) /\ t.open = s.open
  BY WritesTransitive DEF Goes, Writes
<1>2. QED
  BY <1>1 DEF Goes

LEMMA SentGoes ==
    ASSUME NEW s, Sound(s), NEW c, NEW msg \in Message, msg.kind # "switch",
           msg.kind = "types" /\ s.target # None => msg.copy = s.target.copy
    PROVE  Goes(s, Send(s, c, msg)) /\ Goes(s, SendAll(s, c, msg))
<1>1. ASSUME NEW t, Sound(t), OnlyWrites(s, t),
             \A d \in s.open : t.down[d] = s.down[d] \/ t.down[d] = Append(s.down[d], msg)
      PROVE  Goes(s, t)
  <2>1. ASSUME NEW d \in s.open, NEW m \in Client, Agreed(s, d, m)
        PROVE  Agreed(t, d, m)
    BY <1>1, <2>1, QuietWrite DEF OnlyWrites
  <2>2. QED
    BY <1>1, <2>1 DEF Goes, OnlyWrites
<1>2. Goes(s, Send(s, c, msg))
  <2> DEFINE t == Send(s, c, msg)
  <2>1. /\ Sound(t) /\ OnlyWrites(s, t)
        /\ \A d \in s.open : t.down[d] = IF d = c THEN Append(s.down[d], msg) ELSE s.down[d]
    BY Sent
  <2> HIDE DEF t
  <2>2. \A d \in s.open : t.down[d] = s.down[d] \/ t.down[d] = Append(s.down[d], msg)
    BY <2>1
  <2>3. Goes(s, t)
    BY <1>1, <2>1, <2>2
  <2>4. QED
    BY <2>3 DEF t
<1>3. Goes(s, SendAll(s, c, msg))
  <2> DEFINE t == SendAll(s, c, msg)
  <2>1. /\ Sound(t) /\ OnlyWrites(s, t)
        /\ \A d \in s.open : t.down[d] = IF d \in c THEN Append(s.down[d], msg) ELSE s.down[d]
    BY SentToAll
  <2> HIDE DEF t
  <2>2. \A d \in s.open : t.down[d] = s.down[d] \/ t.down[d] = Append(s.down[d], msg)
    BY <2>1
  <2>3. Goes(s, t)
    BY <1>1, <2>1, <2>2
  <2>4. QED
    BY <2>3 DEF t
<1>4. QED
  BY <1>2, <1>3

LEMMA SwitchToGoes ==
    ASSUME NEW s, Sound(s), NEW c \in s.listed \union {Local}
    PROVE  Goes(s, SwitchTo(s, c))
BY SwitchToKeeps DEF Goes

\* A new connection, whoever watches its edges, owns the clipboard or gets the
\* input back with it.
LEMMA AddClientKeeps ==
    ASSUME NEW s, Sound(s), NEW c \in Conn, c = Len(s.machine) + 1, s.down[c] = <<>>,
           NEW m \in Machine, NEW told \in SUBSET s.listed,
           NEW new \in Client, ~new.active, ~new.deferred
    PROVE  LET t == AddClient(s, c, m, told)
           IN  /\ Sound(t) /\ t.open = s.open \union {c} /\ t.machine = Append(s.machine, m)
               /\ t.host.news \in {s.host.news, 0} /\ t.target = s.target
               /\ \A d \in Conn \ t.open : t.down[d] = s.down[d]
               /\ \A d \in s.open, p \in Client : Agreed(s, d, p) => Agreed(t, d, p)
               /\ Agreed(t, c, new)
<1> DEFINE s0 == [s EXCEPT !.listed = s.listed \union {c}, !.open = s.open \union {c},
                           !.machine = Append(s.machine, m)]
           s1 == SendAll(s0, told, EdgeInfo)
           foreign == s.target # None
                      /\ (s.target.source = Local \/ s.machine[s.target.source] # m)
           s2 == IF foreign THEN Send(s1, c, Types(s.target.copy)) ELSE s1
           s3 == IF s.current # Local /\ s.machine[s.current] = m
                 THEN SwitchTo(s2, c) ELSE s2
           s4 == IF s3.removed = m THEN SwitchTo(s3, c) ELSE s3
<1>1. s \in Server /\ Len(s.machine) \in Nat /\ s.machine \in Seq(Machine)
      /\ MaxConns \in Nat /\ c <= MaxConns
  BY LenProperties, HandoffAssumption DEF Sound, Server, Conn
<1>2. Append(s.machine, m) \in Seq(Machine) /\ Len(Append(s.machine, m)) = c
  BY <1>1, AppendProperties
<1>3. AddClient(s, c, m, told) = s4
  BY <1>1 DEF AddClient, Server
<1>4. /\ s0 \in Server /\ s0.listed = s.listed \union {c} /\ s0.open = s.open \union {c}
      /\ s0.machine = Append(s.machine, m) /\ s0.host = s.host /\ s0.current = s.current
      /\ s0.target = s.target /\ s0.removed = s.removed /\ s0.down = s.down
  BY <1>1, <1>2 DEF Server
<1> HIDE DEF s0
<1>5. Sound(s0)
  <2>1. 1 .. Len(s.machine) \subseteq 1 .. c /\ c \in 1 .. c
        /\ 0 .. Len(s.machine) \subseteq 0 .. c
    BY <1>1
  <2>2. /\ s.listed \subseteq 1 .. Len(s.machine) /\ s.open \subseteq s.listed
        /\ s.current \in s.listed \union {Local}
        /\ s.target # None => s.target.source \in 0 .. Len(s.machine)
    BY DEF Sound
  <2>3. QED
    BY <1>1, <1>2, <1>4, <2>1, <2>2 DEF Sound
<1>6. Agreed(s0, c, new)
  <2>1. DOMAIN <<>> = {} /\ s0.down[c] = <<>>
    BY <1>4
  <2>2. InFlight(s0.down[c], "switch") = {}
    BY <2>1 DEF InFlight
  <2>3. c \notin 0 .. Len(s.machine)
    BY <1>1
  <2>4. (s0.current = c) = FALSE
    BY <1>1, <1>4, <2>3 DEF Sound, Local
  <2>5. s0.target # None => s0.target.source # c
    BY <1>4, <2>3 DEF Sound
  <2>6. new.active = FALSE
    BY DEF Client
  <2>7. QED
    BY <2>2, <2>4, <2>5, <2>6 DEF Agreed, WillBe, FirstActivates
<1>7. \A d \in s.open, p \in Client : Agreed(s, d, p) => Agreed(s0, d, p)
  BY <1>4 DEF Agreed
<1>8. Goes(s0, s1)
  <2>1. EdgeInfo \in Message /\ EdgeInfo.kind = "info"
    BY MessageKinds
  <2>2. QED
    BY <1>5, <2>1, SentGoes
<1> HIDE DEF s1
<1>9. Goes(s0, s2)
  <2>1. CASE foreign
    <3>1. Sound(s1) /\ s1.target = s.target /\ s.target # None
      BY <1>4, <1>8, <2>1 DEF Goes
    <3>2. Types(s.target.copy) \in Message /\ Types(s.target.copy).kind = "types"
          /\ Types(s.target.copy).copy = s.target.copy
      BY <3>1, TargetFacts, MessageKinds
    <3>3. Goes(s1, s2)
      BY <2>1, <3>1, <3>2, SentGoes
    <3> HIDE DEF s2
    <3>4. QED
      BY <1>8, <3>3, GoesTransitive
  <2>2. CASE ~foreign
    BY <1>8, <2>2
  <2>3. QED
    BY <2>1, <2>2
<1> HIDE DEF s2, foreign
<1>10. Goes(s0, s3) /\ c \in s0.listed
  <2>1. Sound(s2) /\ c \in s0.listed /\ c \in s2.listed
    BY <1>4, <1>9 DEF Goes, Writes
  <2>2. CASE s3 = s2
    BY <1>9, <2>1, <2>2
  <2>3. CASE s3 = SwitchTo(s2, c)
    <3>1. Goes(s2, s3)
      BY <2>1, <2>3, SwitchToGoes
    <3> HIDE DEF s3
    <3>2. QED
      BY <1>9, <2>1, <3>1, GoesTransitive
  <2>4. QED
    BY <2>2, <2>3
<1> HIDE DEF s3
<1>11. Goes(s0, s4)
  <2>1. Sound(s3) /\ c \in s3.listed
    BY <1>10 DEF Goes, Writes
  <2>2. CASE s4 = s3
    BY <1>10, <2>2
  <2>3. CASE s4 = SwitchTo(s3, c)
    <3>1. Goes(s3, s4)
      BY <2>1, <2>3, SwitchToGoes
    <3> HIDE DEF s4
    <3>2. QED
      BY <1>10, <3>1, GoesTransitive
  <2>4. QED
    BY <2>2, <2>3
<1> HIDE DEF s4
<1>12. /\ Sound(s4) /\ s4.open = s.open \union {c} /\ s4.machine = Append(s.machine, m)
       /\ s4.host.news \in {s.host.news, 0} /\ s4.target = s.target
       /\ \A d \in Conn \ s4.open : s4.down[d] = s.down[d]
  BY <1>4, <1>11 DEF Goes, Writes
<1>13. \A d \in s.open, p \in Client : Agreed(s, d, p) => Agreed(s4, d, p)
  BY <1>4, <1>7, <1>11 DEF Goes
<1>14. Agreed(s4, c, new)
  BY <1>4, <1>6, <1>11 DEF Goes
<1>15. QED
  BY <1>3, <1>12, <1>13, <1>14

LEMMA RemoveClientKeeps ==
    ASSUME NEW s, Sound(s), NEW c \in s.listed \ s.open
    PROVE  LET t == RemoveClient(s, c)
           IN  /\ Sound(t) /\ t.open = s.open /\ t.machine = s.machine
               /\ t.host.news \in {s.host.news, 0} /\ t.target \in {s.target, None}
               /\ \A d \in Conn \ s.open : t.down[d] = s.down[d]
               /\ \A d \in s.open, m \in Client : Agreed(s, d, m) => Agreed(t, d, m)
<1> DEFINE current == IF s.current = c THEN Local ELSE s.current
           removed == IF s.current = c THEN s.machine[c] ELSE s.removed
           t0 == [s EXCEPT !.listed = s.listed \ {c}, !.current = current,
                           !.removed = removed]
           t == RemoveClient(s, c)
<1>1. s \in Server /\ Len(s.machine) \in Nat /\ s.machine \in Seq(Machine)
  BY LenProperties DEF Sound, Server
<1>2. c \in 1 .. Len(s.machine) /\ s.machine[c] \in Machine
  BY <1>1, ElementOfSeq DEF Sound
<1>3. t = IF s.target # None /\ s.target.source = c THEN ClipboardClear(t0) ELSE t0
  BY <1>1 DEF RemoveClient, Server
<1>4. current \in Conn \union {Local} /\ removed \in Machine \union {None}
  BY <1>1, <1>2 DEF Server
<1>5. /\ current # c /\ current \in (s.listed \ {c}) \union {Local}
      /\ \A d \in s.open : current = d <=> s.current = d
  BY <1>2, TargetFacts DEF Sound
<1> HIDE DEF current, removed
<1>6. /\ t0 \in Server /\ t0.listed = s.listed \ {c} /\ t0.open = s.open
      /\ t0.machine = s.machine /\ t0.host = s.host /\ t0.current = current
      /\ t0.target = s.target /\ t0.removed = removed /\ t0.down = s.down
  BY <1>1, <1>4 DEF Server
<1> HIDE DEF t0, t
<1>7. Sound(t0)
  BY <1>5, <1>6 DEF Sound
<1>8. ASSUME NEW d \in s.open, NEW m \in Client, Agreed(s, d, m)
      PROVE  Agreed(t0, d, m)
  <2>1. t0.current = d <=> s.current = d
    BY <1>5, <1>6
  <2>2. QED
    BY <1>6, <1>7, <1>8, <2>1, QuietWrite
<1>9. CASE t = t0
  BY <1>6, <1>7, <1>8, <1>9 DEF t
<1>10. CASE t = ClipboardClear(t0)
  <2>1. /\ Sound(t) /\ Writes(t0, t) /\ t.target = None
        /\ \A d \in t0.open, m \in Client : Agreed(t0, d, m) => Agreed(t, d, m)
    BY <1>7, <1>10, ClipboardClearKeeps
  <2>2. \A d \in s.open, m \in Client : Agreed(s, d, m) => Agreed(t, d, m)
    BY <1>6, <1>8, <2>1
  <2>3. QED
    BY <1>6, <2>1, <2>2 DEF Writes, t
<1>11. QED
  BY <1>3, <1>9, <1>10

-----------------------------------------------------------------------------
(* Ends of the announcements' streams.                                     *)

Announced == Copy \union {0}

LEMMA SequenceParts ==
    ASSUME NEW S, NEW q \in Seq(S)
    PROVE  /\ Len(q) \in Nat /\ DOMAIN q = 1 .. Len(q) /\ \A i \in DOMAIN q : q[i] \in S
           /\ q # <<>> => /\ Tail(q) \in Seq(S) /\ Head(q) \in S
                          /\ 1 \in DOMAIN q /\ Head(q) = q[1]
                          /\ \A i \in DOMAIN Tail(q) : \E j \in DOMAIN q : Tail(q)[i] = q[j]
           /\ \A n \in 0 .. Len(q) :
                 /\ SubSeq(q, 1, n) \in Seq(S)
                 /\ \A i \in DOMAIN SubSeq(q, 1, n) : i \in DOMAIN q /\ SubSeq(q, 1, n)[i] = q[i]
                 /\ q = <<>> => SubSeq(q, 1, n) = <<>>
<1>1. Len(q) \in Nat /\ DOMAIN q = 1 .. Len(q) /\ \A i \in DOMAIN q : q[i] \in S
  BY LenProperties, ElementOfSeq
<1>2. ASSUME q # <<>>
      PROVE  /\ Tail(q) \in Seq(S) /\ Head(q) \in S /\ 1 \in DOMAIN q /\ Head(q) = q[1]
             /\ \A i \in DOMAIN Tail(q) : \E j \in DOMAIN q : Tail(q)[i] = q[j]
  <2>1. Len(q) # 0
    BY <1>1, <1>2, EmptySeq
  <2>2. /\ Tail(q) \in Seq(S) /\ Head(q) \in S /\ Head(q) = q[1]
        /\ Len(Tail(q)) = Len(q) - 1
        /\ \A i \in 1 .. (Len(q) - 1) : Tail(q)[i] = q[i + 1]
    BY <1>1, <1>2, <2>1, HeadTailProperties
  <2>3. DOMAIN Tail(q) = 1 .. (Len(q) - 1)
    BY <2>2, LenProperties
  <2>4. ASSUME NEW i \in DOMAIN Tail(q) PROVE i + 1 \in DOMAIN q /\ Tail(q)[i] = q[i + 1]
    BY <1>1, <2>2, <2>3, <2>4
  <2>5. QED
    BY <1>1, <2>1, <2>2, <2>4
<1>3. ASSUME NEW n \in 0 .. Len(q)
      PROVE  /\ SubSeq(q, 1, n) \in Seq(S)
             /\ \A i \in DOMAIN SubSeq(q, 1, n) : i \in DOMAIN q /\ SubSeq(q, 1, n)[i] = q[i]
             /\ q = <<>> => SubSeq(q, 1, n) = <<>>
  <2>2. /\ SubSeq(q, 1, n) \in Seq(S) /\ Len(SubSeq(q, 1, n)) = n
        /\ \A i \in 1 .. n : SubSeq(q, 1, n)[i] = q[i]
    <3>1. 1 \in 1 .. (n + 1) /\ n \in 0 .. Len(q) /\ n - 1 + 1 = n
      BY <1>1
    <3>2. \A i \in 1 .. n : 1 + i - 1 = i
      BY <1>1
    <3>3. QED
      BY <1>1, <3>1, <3>2, SubSeqProperties
  <2>3. DOMAIN SubSeq(q, 1, n) = 1 .. n
    BY <2>2, LenProperties
  <2>4. q = <<>> => n = 0
    BY <1>1
  <2>5. n = 0 => SubSeq(q, 1, n) = <<>>
    BY <2>2, EmptySeq
  <2>6. QED
    BY <1>1, <2>2, <2>3, <2>4, <2>5
<1>4. QED
  BY <1>1, <1>2, <1>3

-----------------------------------------------------------------------------
(* The steps.                                                              *)

Owner(s, source) == IF source = Local THEN Local ELSE s.machine[source]

\* What every handler of the server owes the invariant.
LEMMA ServerKeeps ==
    ASSUME IInv, UNCHANGED <<client, copies>>, switches' \in 0 .. MaxSwitches,
           Sound(server'), server'.open = server.open, server'.machine = server.machine,
           By(copies, server'.host.news, Local),
           server'.target # None =>
               By(copies, server'.target.copy, Owner(server', server'.target.source)),
           \A d \in Conn \ server.open : server'.down[d] = server.down[d],
           \A m \in Machine : client[m].conn # Local =>
               Agreed(server', client[m].conn, client[m]),
           up' \in [Conn -> Seq(Announced)],
           \A c \in Conn : up'[c] = up[c] \/ (up[c] # <<>> /\ up'[c] = Tail(up[c]))
    PROVE  IInv'
<1>1. Typed'
  BY DEF IInv, Typed, Announced
<1>2. \A c \in Conn : up[c] = <<>> => up'[c] = <<>>
  OBVIOUS
<1>3. Connected'
  <2>1. ASSUME NEW m \in Machine, client[m].conn # Local
        PROVE  /\ client[m].conn \in server'.open
               /\ server'.machine[client[m].conn] = m
               /\ Agreed(server', client[m].conn, client[m])
               /\ client[m].fresh => up'[client[m].conn] = <<>>
    <3>1. client[m].conn \in Conn
      BY <2>1 DEF IInv, Typed, Client
    <3>2. QED
      BY <1>2, <2>1, <3>1 DEF IInv, Connected
  <2>2. QED
    BY <1>2, <2>1 DEF IInv, Connected
<1>4. MadeHere'
  <2>1. ASSUME NEW c \in Conn, NEW i \in DOMAIN up'[c]
        PROVE  By(copies, up'[c][i], server.machine[c])
    <3>1. up[c] \in Seq(Announced)
      BY DEF IInv, Typed, Announced
    <3>2. \E j \in DOMAIN up[c] : up'[c][i] = up[c][j]
      <4>1. CASE up'[c] = up[c]
        BY <2>1, <4>1
      <4>2. CASE up[c] # <<>> /\ up'[c] = Tail(up[c])
        <5>1. i \in DOMAIN Tail(up[c])
          BY <2>1, <4>2
        <5>2. \E j \in DOMAIN up[c] : Tail(up[c])[i] = up[c][j]
          BY <3>1, <4>2, <5>1, SequenceParts
        <5>3. QED
          BY <4>2, <5>2
      <4>3. QED
        BY <4>1, <4>2
    <3>3. QED
      BY <3>2 DEF IInv, MadeHere
  <2>2. QED
    BY <2>1 DEF IInv, MadeHere, By, Owner
<1>5. QED
  BY <1>1, <1>3, <1>4 DEF IInv

\* What an owner has made of a target that is the same, or none.
LEMMA SameTarget ==
    ASSUME IInv, UNCHANGED copies, NEW t, t.machine = server.machine,
           t.target \in {server.target, None},
           t.host.news \in {server.host.news, 0}
    PROVE  /\ t.target # None => By(copies, t.target.copy, Owner(t, t.target.source))
           /\ By(copies, t.host.news, Local)
BY DEF IInv, MadeHere, By, Owner

LEMMA ClientFacts ==
    ASSUME IInv, NEW m \in Machine
    PROVE  /\ client[m] \in Client /\ client[m].box \in Clipboard
           /\ client[m].conn \in Conn \union {Local}
           /\ Sound(server) /\ server \in Server /\ up \in [Conn -> Seq(Announced)]
           /\ client[m].conn # Local => /\ client[m].conn \in server.open
                                        /\ Agreed(server, client[m].conn, client[m])
BY DEF IInv, Typed, Connected, Client, Sound, Announced

LEMMA UserSwitchKeeps ==
    ASSUME IInv, NEW c \in server.listed \union {Local}, UserSwitch(c)
    PROVE  IInv'
<1>1. UNCHANGED <<client, up, copies>> /\ switches' \in 0 .. MaxSwitches
  BY HandoffAssumption DEF UserSwitch, IInv, Typed
<1>2. Sound(server) /\ up \in [Conn -> Seq(Announced)]
  BY DEF IInv, Typed, Announced
<1>3. /\ Sound(server') /\ Writes(server, server') /\ server'.target = server.target
      /\ \A d \in server.open, m \in Client : Agreed(server, d, m) => Agreed(server', d, m)
  <2>1. CASE c = server.current
    <3>1. server' = ReleaseKeys(server)
      BY <2>1 DEF UserSwitch
    <3>2. QED
      BY <1>2, <3>1, ReleaseKeysKeeps DEF OnlyWrites
  <2>2. CASE c # server.current
    <3>1. server' = SwitchTo(server, c)
      BY <2>2 DEF UserSwitch
    <3>2. QED
      BY <1>2, <3>1, SwitchToKeeps
  <2>3. QED
    BY <2>1, <2>2
<1>4. QED
  BY <1>1, <1>2, <1>3, ClientFacts, SameTarget, ServerKeeps DEF Writes

LEMMA RemoveClientEventKeeps ==
    ASSUME IInv, NEW c \in Conn, RemoveClientEvent(c)
    PROVE  IInv'
<1>1. UNCHANGED <<client, up, copies>> /\ switches' \in 0 .. MaxSwitches
  BY DEF RemoveClientEvent, IInv, Typed
<1>2. Sound(server) /\ up \in [Conn -> Seq(Announced)]
  BY DEF IInv, Typed, Announced
<1>3. c \in server.listed \ server.open /\ server' = RemoveClient(server, c)
  BY DEF RemoveClientEvent
<1>4. /\ Sound(server') /\ server'.open = server.open /\ server'.machine = server.machine
      /\ server'.host.news \in {server.host.news, 0}
      /\ server'.target \in {server.target, None}
      /\ \A d \in Conn \ server.open : server'.down[d] = server.down[d]
      /\ \A d \in server.open, m \in Client : Agreed(server, d, m) => Agreed(server', d, m)
  BY <1>2, <1>3, RemoveClientKeeps
<1>5. QED
  BY <1>1, <1>2, <1>4, ClientFacts, SameTarget, ServerKeeps

LEMMA RecoveryElapsesKeeps ==
    ASSUME IInv, RecoveryElapses
    PROVE  IInv'
<1>1. /\ UNCHANGED <<client, up, copies>> /\ switches' \in 0 .. MaxSwitches
      /\ server' = [server EXCEPT !.removed = None]
  BY DEF RecoveryElapses, IInv, Typed
<1>2. Sound(server) /\ server \in Server /\ up \in [Conn -> Seq(Announced)]
  BY DEF IInv, Typed, Announced, Sound
<1>3. /\ server' \in Server /\ server'.listed = server.listed /\ server'.open = server.open
      /\ server'.machine = server.machine /\ server'.host = server.host
      /\ server'.current = server.current /\ server'.target = server.target
      /\ server'.down = server.down
  BY <1>1, <1>2 DEF Server
<1>4. Sound(server')
  BY <1>2, <1>3 DEF Sound
<1>5. ASSUME NEW m \in Machine, client[m].conn # Local
      PROVE  Agreed(server', client[m].conn, client[m])
  BY <1>3, <1>5, ClientFacts DEF Agreed
<1>6. QED
  BY <1>1, <1>2, <1>3, <1>4, <1>5, SameTarget, ServerKeeps

\* A client's announcement, or the server's own copy, reaches the rotation.
LEMMA ServerTypesChangedKeeps ==
    ASSUME IInv, ServerTypesChanged
    PROVE  IInv'
<1> DEFINE copy == server.host.news
           s == [server EXCEPT !.host.news = None]
<1>1. /\ UNCHANGED <<client, up, copies>> /\ switches' \in 0 .. MaxSwitches
      /\ server' = UpdateSource(s, Local, copy) /\ copy # None
  BY DEF ServerTypesChanged, IInv, Typed
<1>2. Sound(server) /\ server \in Server /\ up \in [Conn -> Seq(Announced)]
  BY DEF IInv, Typed, Announced, Sound
<1>3. server.host \in Clipboard
  BY <1>2 DEF Server
<1>4. copy \in Announced /\ By(copies, copy, Local)
  <2>1. copy \in 0 .. MaxCopies
    BY <1>1, <1>3 DEF Clipboard
  <2>2. QED
    BY <2>1, HandoffAssumption DEF IInv, MadeHere, Announced, Copy
<1>5. /\ [server.host EXCEPT !.news = None] \in Clipboard
      /\ [server.host EXCEPT !.news = None].news = None
  BY <1>3 DEF Clipboard
<1>6. s = [server EXCEPT !.host = [server.host EXCEPT !.news = None]]
  BY <1>2 DEF Server
<1> HIDE DEF copy, s
<1>7. /\ s \in Server /\ s.listed = server.listed /\ s.open = server.open
      /\ s.machine = server.machine /\ s.host.news = None
      /\ s.current = server.current /\ s.target = server.target
      /\ s.down = server.down
  BY <1>2, <1>5, <1>6 DEF Server
<1>8. Sound(s)
  BY <1>2, <1>7 DEF Sound
<1>9. Local \in 0 .. Len(s.machine)
  BY <1>7, LenProperties DEF Local, Server
<1>10. /\ Sound(server') /\ Writes(s, server')
       /\ server'.target \in {s.target, None, [source |-> Local, copy |-> copy]}
       /\ copy = 0 => server'.target = None
       /\ \A d \in s.open, m \in Client :
             Agreed(s, d, m) /\ (m.fresh => d # Local) => Agreed(server', d, m)
  BY <1>1, <1>4, <1>8, <1>9, UpdateSourceKeeps DEF Announced
<1>11. ASSUME NEW m \in Machine, client[m].conn # Local
       PROVE  Agreed(server', client[m].conn, client[m])
  <2>1. Agreed(s, client[m].conn, client[m])
    BY <1>7, <1>11, ClientFacts DEF Agreed
  <2>2. QED
    BY <1>7, <1>10, <1>11, <2>1, ClientFacts
<1>12. server'.target # None => By(copies, server'.target.copy, Owner(server', server'.target.source))
  <2>1. CASE server'.target \in {server.target, None}
    BY <1>1, <1>7, <1>10, <2>1 DEF Writes, IInv, MadeHere, By, Owner
  <2>2. CASE server'.target = [source |-> Local, copy |-> copy]
    BY <1>4, <2>2 DEF Owner
  <2>3. QED
    BY <1>7, <1>10, <2>1, <2>2
<1>13. By(copies, server'.host.news, Local)
  BY <1>7, <1>10 DEF Writes, By
<1>14. QED
  BY <1>1, <1>2, <1>7, <1>10, <1>11, <1>12, <1>13, ServerKeeps DEF Writes

LEMMA ServerReceivesKeeps ==
    ASSUME IInv, NEW c \in Conn, ServerReceives(c)
    PROVE  IInv'
<1> DEFINE copy == Head(up[c])
<1>1. /\ UNCHANGED <<client, copies>> /\ switches' \in 0 .. MaxSwitches
      /\ server' = UpdateSource(server, c, copy) /\ up[c] # <<>>
      /\ up' = [up EXCEPT ![c] = Tail(up[c])]
  BY DEF ServerReceives, IInv, Typed
<1>2. Sound(server) /\ server \in Server /\ up \in [Conn -> Seq(Announced)]
  BY DEF IInv, Typed, Announced, Sound
<1>3. c \in 0 .. Len(server.machine) /\ c # Local
  <2>1. c <= Len(server.machine) /\ Len(server.machine) \in Nat
    BY <1>1, <1>2, LenProperties DEF IInv, Connected, Server
  <2>2. QED
    BY <2>1 DEF Conn, Local
<1>4. copy \in Announced /\ Tail(up[c]) \in Seq(Announced) /\ By(copies, copy, server.machine[c])
  BY <1>1, <1>2, SequenceParts DEF IInv, MadeHere
<1> HIDE DEF copy
<1>5. /\ Sound(server') /\ Writes(server, server')
      /\ server'.target \in {server.target, None, [source |-> c, copy |-> copy]}
      /\ \A d \in server.open, m \in Client :
            Agreed(server, d, m) /\ (m.fresh => d # c) => Agreed(server', d, m)
  BY <1>1, <1>2, <1>3, <1>4, UpdateSourceKeeps DEF Announced
<1>6. ASSUME NEW m \in Machine, client[m].conn # Local
      PROVE  Agreed(server', client[m].conn, client[m])
  <2>1. client[m].fresh => client[m].conn # c
    BY <1>1, <1>6 DEF IInv, Connected
  <2>2. QED
    BY <1>5, <1>6, <2>1, ClientFacts
<1>7. server'.target # None => By(copies, server'.target.copy, Owner(server', server'.target.source))
  <2>1. CASE server'.target \in {server.target, None}
    BY <1>1, <1>5, <2>1 DEF Writes, IInv, MadeHere, By, Owner
  <2>2. CASE server'.target = [source |-> c, copy |-> copy]
    BY <1>3, <1>4, <1>5, <2>2 DEF Owner, Writes
  <2>3. QED
    BY <1>5, <2>1, <2>2
<1>8. By(copies, server'.host.news, Local)
  BY <1>5 DEF Writes, By, IInv, MadeHere
<1>9. /\ up' \in [Conn -> Seq(Announced)]
      /\ \A d \in Conn : up'[d] = up[d] \/ (up[d] # <<>> /\ up'[d] = Tail(up[d]))
  BY <1>1, <1>2, <1>4
<1>10. QED
  BY <1>1, <1>5, <1>6, <1>7, <1>8, <1>9, ServerKeeps DEF Writes

\* What every step of one machine owes the invariant, the server's side of its
\* connection set aside.
LEMMA ClientKeeps ==
    ASSUME IInv, NEW m \in Machine, UNCHANGED <<copies, switches>>,
           client' \in [Machine -> Client],
           \A p \in Machine \ {m} : client'[p] = client[p],
           Sound(server'), server'.open \subseteq server.open,
           server'.machine = server.machine, server'.host = server.host,
           server'.target = server.target, server'.current = server.current,
           \A d \in Conn : d # client[m].conn => server'.down[d] = server.down[d],
           \A d \in server.open : d # client[m].conn => d \in server'.open,
           client[m].conn # Local /\ client[m].conn \notin server'.open
               => server'.down[client[m].conn] = <<>>,
           up' \in [Conn -> Seq(Announced)],
           \A d \in Conn : d # client[m].conn => up'[d] = up[d],
           client[m].conn # Local =>
               /\ up'[client[m].conn] # <<>> => client[m].conn <= Len(server.machine)
               /\ \A i \in DOMAIN up'[client[m].conn] : By(copies, up'[client[m].conn][i], m),
           By(copies, client'[m].local, m), By(copies, client'[m].box.news, m),
           client'[m].conn # Local =>
               /\ client'[m].conn = client[m].conn
               /\ client'[m].conn \in server'.open
               /\ Agreed(server', client'[m].conn, client'[m])
               /\ client'[m].fresh => up'[client'[m].conn] = <<>>
    PROVE  IInv'
<1>1. Typed'
  BY DEF IInv, Typed, Announced
<1>2. ASSUME NEW p \in Machine, p # m, client[p].conn # Local
      PROVE  /\ client[p].conn \in Conn /\ client[p].conn # client[m].conn
             /\ server.machine[client[p].conn] = p
             /\ client[p].conn \in server'.open
             /\ Agreed(server', client[p].conn, client[p])
             /\ client[p].fresh => up'[client[p].conn] = <<>>
  <2>1. /\ client[p].conn \in Conn /\ client[p].conn \in server.open
        /\ server.machine[client[p].conn] = p
        /\ Agreed(server, client[p].conn, client[p])
        /\ client[p].fresh => up[client[p].conn] = <<>>
    BY <1>2, ClientFacts DEF IInv, Connected
  <2>2. client[p].conn # client[m].conn
    BY <1>2, <2>1 DEF IInv, Connected
  <2>3. server'.down[client[p].conn] = server.down[client[p].conn]
    BY <2>1, <2>2
  <2>4. Agreed(server', client[p].conn, client[p])
    BY <2>1, <2>3 DEF Agreed
  <2>5. QED
    BY <2>1, <2>2, <2>4
<1>3. Connected'
  <2>1. ASSUME NEW p \in Machine, client'[p].conn # Local
        PROVE  /\ client'[p].conn \in server'.open
               /\ server'.machine[client'[p].conn] = p
               /\ Agreed(server', client'[p].conn, client'[p])
               /\ client'[p].fresh => up'[client'[p].conn] = <<>>
    <3>1. CASE p = m
      BY <2>1, <3>1 DEF IInv, Connected
    <3>2. CASE p # m
      BY <1>2, <2>1, <3>2
    <3>3. QED
      BY <3>1, <3>2
  <2>2. ASSUME NEW c \in Conn \ server'.open PROVE server'.down[c] = <<>>
    <3>1. CASE c = client[m].conn
      BY <2>2, <3>1 DEF Conn, Local
    <3>2. CASE c # client[m].conn
      <4>1. c \in Conn \ server.open
        BY <2>2, <3>2
      <4>2. server.down[c] = <<>>
        BY <4>1 DEF IInv, Connected
      <4>3. QED
        BY <2>2, <3>2, <4>2
    <3>3. QED
      BY <3>1, <3>2
  <2>3. ASSUME NEW c \in Conn, up'[c] # <<>> PROVE c <= Len(server'.machine)
    <3>1. CASE c = client[m].conn
      BY <2>3, <3>1 DEF Conn, Local
    <3>2. CASE c # client[m].conn
      BY <2>3, <3>2 DEF IInv, Connected
    <3>3. QED
      BY <3>1, <3>2
  <2>4. QED
    BY <2>1, <2>2, <2>3 DEF Connected
<1>4. MadeHere'
  <2>1. ASSUME NEW c \in Conn, NEW i \in DOMAIN up'[c]
        PROVE  By(copies, up'[c][i], server'.machine[c])
    <3>1. CASE c = client[m].conn
      <4>1. c # Local
        BY DEF Conn, Local
      <4>2. server.machine[c] = m
        BY <3>1, <4>1 DEF IInv, Connected
      <4>3. QED
        BY <2>1, <3>1, <4>1, <4>2
    <3>2. CASE c # client[m].conn
      BY <2>1, <3>2 DEF IInv, MadeHere
    <3>3. QED
      BY <3>1, <3>2
  <2>2. ASSUME NEW p \in Machine PROVE By(copies, client'[p].local, p) /\ By(copies, client'[p].box.news, p)
    <3>1. CASE p = m
      BY <3>1
    <3>2. CASE p # m
      BY <3>2 DEF IInv, MadeHere
    <3>3. QED
      BY <3>1, <3>2
  <2>3. QED
    BY <2>1, <2>2 DEF IInv, MadeHere, By
<1>5. QED
  BY <1>1, <1>3, <1>4 DEF IInv

\* Types of the machine's own, kept until it is deactivated.
LEMMA ClientTypesChangedKeeps ==
    ASSUME IInv, NEW m \in Machine, ClientTypesChanged(m)
    PROVE  IInv'
<1> DEFINE p == client[m]
           kept == IF p.active THEN SetLocalClipboard(p) ELSE p
           box == [p.box EXCEPT !.news = None]
           q == [kept EXCEPT !.box = box]
           c == p.conn
<1>1. p \in Client /\ p.box \in Clipboard /\ c \in Conn \union {Local} /\ c # Local
      /\ Sound(server) /\ up \in [Conn -> Seq(Announced)]
      /\ c \in server.open /\ Agreed(server, c, p)
  BY ClientFacts DEF ClientTypesChanged
<1>2. /\ box \in Clipboard /\ box.news = None /\ box.own = p.box.own /\ box.copy = p.box.copy
      /\ p.box.news \in Announced \union {None}
  BY <1>1 DEF Clipboard, Announced, Copy
<1> HIDE DEF box
<1>3. kept \in Client /\ kept.box = p.box
  BY <1>1, <1>2 DEF SetLocalClipboard, Client, Announced
<1>4. /\ kept.conn = c /\ kept.active = p.active /\ kept.fresh = p.fresh
      /\ kept.deferred = p.deferred
      /\ kept.local = IF p.active THEN p.box.news ELSE p.local
  BY <1>1 DEF SetLocalClipboard, Client
<1> HIDE DEF kept
<1>5. /\ q \in Client /\ q.box = box /\ q.conn = c /\ q.active = p.active
      /\ q.fresh = p.fresh /\ q.deferred = p.deferred /\ q.local = kept.local
  BY <1>2, <1>3, <1>4 DEF Client
<1>6. client' = [client EXCEPT ![m] = q] /\ UNCHANGED <<server, up, copies, switches>>
  <2>1. [kept EXCEPT !.box.news = None] = q
    BY <1>3 DEF Client, box
  <2>2. QED
    BY <2>1 DEF ClientTypesChanged, kept
<1> HIDE DEF q
<1>7. client \in [Machine -> Client]
  BY DEF IInv, Typed
<1>8. client' \in [Machine -> Client] /\ client'[m] = q
      /\ \A r \in Machine \ {m} : client'[r] = client[r]
  BY <1>5, <1>6, <1>7
<1>9. Agreed(server, c, q)
  <2>1. WillPaste(server.down[c], p.box, server.target.copy)
            => WillPaste(server.down[c], q.box, server.target.copy)
    BY <1>2, <1>5 DEF WillPaste
  <2>2. p.fresh => q.local = p.local
    BY <1>1, <1>4, <1>5 DEF Agreed
  <2>3. QED
    BY <1>1, <1>5, <2>1, <2>2 DEF Agreed
<1>10. By(copies, q.local, m) /\ By(copies, q.box.news, m)
  BY <1>2, <1>4, <1>5 DEF IInv, MadeHere, By
<1>11. /\ up[c] # <<>> => c <= Len(server.machine)
       /\ \A i \in DOMAIN up[c] : By(copies, up[c][i], m)
       /\ p.fresh => up[c] = <<>>
  BY <1>1 DEF IInv, MadeHere, Connected
<1>12. c \in server'.open /\ Agreed(server', c, q)
  BY <1>1, <1>6, <1>9
<1>13. QED
  BY <1>1, <1>5, <1>6, <1>8, <1>10, <1>11, <1>12, ClientKeeps

\* The next message of the events stream: what the client is after it, and what
\* it announces.
LEMMA HandledKeeps ==
    ASSUME IInv, NEW m \in Machine, NEW c \in Conn, c = client[m].conn,
           server.down[c] # <<>>, NEW s, s.down[c] = Tail(server.down[c]),
           s.current = server.current, s.target = server.target
    PROVE  LET h == Handled(client[m], Head(server.down[c]))
           IN  /\ h.to \in Client /\ h.to.conn = c
               /\ Agreed(s, c, h.to)
               /\ h.to.fresh => client[m].fresh /\ h.says = <<>>
               /\ h.says \in {<<>>, <<client[m].local>>}
               /\ h.says # <<>> => client[m].local # None
               /\ h.to.local \in {client[m].local, None}
               /\ h.to.box.news \in {client[m].box.news, 0}
<1> DEFINE q == server.down[c]
           msg == Head(q)
           p == client[m]
           h == Handled(p, msg)
           t == h.to
<1>1. p \in Client /\ p.box \in Clipboard /\ Agreed(server, c, p) /\ c \in server.open
  BY ClientFacts DEF Local, Conn
<1>2. q \in Seq(Message) /\ q # <<>> /\ msg \in Message
  BY ClientFacts, TargetFacts, Received
<1>3. s.down[c] = Tail(q)
  OBVIOUS
<1>4. h.says \in {<<>>, <<p.local>>} /\ (h.says # <<>> => p.local # None)
  BY DEF Handled, OnSwitch, OnOther, Announcement
<1>5. CASE msg.kind = "switch"
  <2>1. /\ msg.enabled \in BOOLEAN /\ msg.kind # "types"
    BY <1>2, <1>5, MessageKinds
  <2>2. t = [p EXCEPT !.active = msg.enabled, !.fresh = p.fresh /\ ~msg.enabled,
                      !.deferred = ~msg.enabled]
    BY <1>1, <1>5 DEF Handled, OnSwitch, Client
  <2>3. /\ t \in Client /\ t.conn = c /\ t.active = msg.enabled /\ t.local = p.local
        /\ t.box = p.box /\ t.fresh = (p.fresh /\ ~msg.enabled)
    BY <1>1, <2>1, <2>2 DEF Client
  <2> HIDE DEF t, h
  <2>4. ~t.fresh
    <3>1. SUFFICES ASSUME p.fresh PROVE msg.enabled
      BY <2>3
    <3>2. FirstActivates(q, p.local)
      BY <1>1, <3>1 DEF Agreed
    <3>3. QED
      BY <1>2, <1>5, <3>2, FirstIsRead
  <2>5. WillBe(Tail(q), t.active, s.current = c)
    <3>1. WillBe(q, p.active, server.current = c)
      BY <1>1 DEF Agreed
    <3>2. WillBe(Tail(q), IF msg.kind = "switch" THEN msg.enabled ELSE p.active,
                 server.current = c)
      BY <1>2, <3>1, SwitchRead
    <3>3. QED
      BY <1>5, <2>3, <3>2
  <2>6. ASSUME s.current = c, s.target # None, s.target.source # c
        PROVE  WillPaste(Tail(q), t.box, s.target.copy)
    <3>1. WillPaste(q, p.box, s.target.copy)
      BY <1>1, <2>6 DEF Agreed
    <3>2. WillPaste(Tail(q), IF msg.kind = "types" THEN StoreTypes(p.box, msg.copy) ELSE p.box,
                    s.target.copy)
      BY <1>1, <1>2, <3>1, PasteRead
    <3>3. QED
      BY <2>1, <2>3, <3>2
  <2>7. Agreed(s, c, t)
    BY <1>3, <2>4, <2>5, <2>6 DEF Agreed
  <2>8. QED
    BY <1>4, <2>3, <2>4, <2>7 DEF t, h
<1>6. CASE msg.kind # "switch"
  <2> DEFINE u == [p EXCEPT !.deferred = FALSE]
  <2>1. /\ u \in Client /\ u.conn = c /\ u.active = p.active /\ u.local = p.local
        /\ u.box = p.box /\ u.fresh = p.fresh /\ u.deferred = FALSE
    BY <1>1 DEF Client
  <2>2. t = IF msg.kind = "types" THEN SetRemoteClipboard(u, msg.copy) ELSE u
    BY <1>6 DEF Handled, OnOther
  <2>3. /\ p.fresh => ~p.deferred
        /\ ~p.deferred => h.says = <<>>
    BY <1>1, <1>6 DEF Handled, OnOther, Agreed
  <2> HIDE DEF u, t, h
  <2>4. /\ t \in Client /\ t.conn = c /\ t.active = p.active /\ t.fresh = p.fresh
        /\ t.local = (IF msg.kind = "types" THEN None ELSE p.local)
        /\ t.box = (IF msg.kind = "types" THEN StoreTypes(p.box, msg.copy) ELSE p.box)
        /\ t.deferred = FALSE /\ t.box.news \in {p.box.news, 0}
    <3>1. CASE msg.kind = "types"
      <4>1. msg.copy \in Copy \union {0}
        BY <1>2, <3>1, MessageKinds
      <4> DEFINE box == StoreTypes(p.box, msg.copy)
      <4>2. box \in Clipboard /\ box.news \in {p.box.news, 0}
        BY <1>1, <4>1, Stored
      <4> HIDE DEF box
      <4>3. t = [u EXCEPT !.box = box, !.local = None, !.serving = TRUE]
        BY <2>1, <2>2, <3>1 DEF SetRemoteClipboard, box
      <4>4. /\ t \in Client /\ t.conn = u.conn /\ t.active = u.active /\ t.fresh = u.fresh
            /\ t.local = None /\ t.box = box /\ t.deferred = u.deferred
        BY <2>1, <4>2, <4>3 DEF Client
      <4>5. QED
        BY <2>1, <3>1, <4>2, <4>4 DEF box
    <3>2. CASE msg.kind # "types"
      BY <2>1, <2>2, <3>2
    <3>3. QED
      BY <3>1, <3>2
  <2>5. WillBe(Tail(q), t.active, s.current = c)
    <3>1. WillBe(q, p.active, server.current = c)
      BY <1>1 DEF Agreed
    <3>2. WillBe(Tail(q), IF msg.kind = "switch" THEN msg.enabled ELSE p.active,
                 server.current = c)
      BY <1>2, <3>1, SwitchRead
    <3>3. QED
      BY <1>6, <2>4, <3>2
  <2>6. ASSUME s.current = c, s.target # None, s.target.source # c
        PROVE  WillPaste(Tail(q), t.box, s.target.copy)
    <3>1. WillPaste(q, p.box, s.target.copy)
      BY <1>1, <2>6 DEF Agreed
    <3>2. WillPaste(Tail(q), IF msg.kind = "types" THEN StoreTypes(p.box, msg.copy) ELSE p.box,
                    s.target.copy)
      BY <1>1, <1>2, <3>1, PasteRead
    <3>3. QED
      BY <2>4, <3>2
  <2>7. ASSUME t.fresh
        PROVE  /\ ~t.active /\ ~t.deferred /\ (s.target # None => s.target.source # c)
               /\ FirstActivates(Tail(q), t.local)
    <3>1. /\ ~p.active /\ (server.target # None => server.target.source # c)
          /\ FirstActivates(q, p.local)
      BY <1>1, <2>4, <2>7 DEF Agreed
    <3>2. FirstActivates(Tail(q), IF msg.kind = "types" THEN None ELSE p.local)
      BY <1>2, <1>6, <3>1, FirstRead
    <3>3. QED
      BY <2>4, <3>1, <3>2
  <2>8. Agreed(s, c, t)
    BY <1>3, <2>5, <2>6, <2>7 DEF Agreed
  <2>9. QED
    BY <1>4, <2>3, <2>4, <2>8 DEF t, h
<1>7. QED
  BY <1>5, <1>6

LEMMA ClientReceivesKeeps ==
    ASSUME IInv, NEW m \in Machine, ClientReceives(m)
    PROVE  IInv'
<1> DEFINE p == client[m]
           c == p.conn
           h == Handled(p, Head(server.down[c]))
           t == h.to
           down == [server.down EXCEPT ![c] = Tail(server.down[c])]
           said == up[c] \o h.says
<1>1. /\ p \in Client /\ c \in Conn /\ c # Local /\ c \in server.open /\ Sound(server)
      /\ server \in Server /\ up \in [Conn -> Seq(Announced)] /\ server.down[c] # <<>>
  BY ClientFacts DEF ClientReceives
<1>2. /\ client' = [client EXCEPT ![m] = t] /\ UNCHANGED <<copies, switches>>
      /\ up' = [up EXCEPT ![c] = said]
      /\ server' = [server EXCEPT !.down = down]
  BY <1>1 DEF ClientReceives, Server
<1>3. server.down \in [Conn -> Seq(Message)] /\ Tail(server.down[c]) \in Seq(Message)
  BY <1>1, TargetFacts, Received
<1>4. down \in [Conn -> Seq(Message)] /\ down[c] = Tail(server.down[c])
      /\ \A d \in Conn : d # c => down[d] = server.down[d]
  BY <1>1, <1>3
<1> HIDE DEF down
<1>5. /\ server' \in Server /\ server'.listed = server.listed /\ server'.open = server.open
      /\ server'.machine = server.machine /\ server'.host = server.host
      /\ server'.current = server.current /\ server'.target = server.target
      /\ server'.down = down
  BY <1>1, <1>2, <1>4 DEF Server
<1>6. Sound(server')
  BY <1>1, <1>5 DEF Sound
<1>7. server'.down[c] = Tail(server.down[c])
  BY <1>4, <1>5
<1>8. /\ t \in Client /\ t.conn = c /\ Agreed(server', c, t)
      /\ t.fresh => p.fresh /\ h.says = <<>>
      /\ h.says \in {<<>>, <<p.local>>}
      /\ h.says # <<>> => p.local # None
      /\ t.local \in {p.local, None} /\ t.box.news \in {p.box.news, 0}
  <2> HIDE DEF h, t
  <2>1. c \in Conn /\ c = client[m].conn /\ server.down[c] # <<>>
    BY <1>1
  <2>2. h = Handled(client[m], Head(server.down[c])) /\ t = h.to
    BY DEF h, t
  <2> HIDE DEF p, c, said
  <2>5. server'.down[c] = Tail(server.down[c]) /\ server'.current = server.current
        /\ server'.target = server.target
    BY <1>5, <1>7
  <2>6. \A s : s.down[c] = Tail(server.down[c]) /\ s.current = server.current
               /\ s.target = server.target => Agreed(s, c, h.to)
    BY ONLY IInv, m \in Machine, <2>1, <2>2, <2>5, HandledKeeps
  <2>7. Agreed(server', c, h.to)
    BY ONLY <2>5, <2>6
  <2>8. h.to \in Client /\ h.to.conn = c
    BY ONLY IInv, m \in Machine, <2>1, <2>2, <2>5, HandledKeeps
  <2>9. h.to.fresh => client[m].fresh /\ h.says = <<>>
    BY ONLY IInv, m \in Machine, <2>1, <2>2, <2>5, HandledKeeps
  <2>10. h.says \in {<<>>, <<client[m].local>>}
    BY ONLY IInv, m \in Machine, <2>1, <2>2, <2>5, HandledKeeps
  <2>11. h.says # <<>> => client[m].local # None
    BY ONLY IInv, m \in Machine, <2>1, <2>2, <2>5, HandledKeeps
  <2>12. h.to.local \in {client[m].local, None}
    BY ONLY IInv, m \in Machine, <2>1, <2>2, <2>5, HandledKeeps
  <2>13. h.to.box.news \in {client[m].box.news, 0}
    BY ONLY IInv, m \in Machine, <2>1, <2>2, <2>5, HandledKeeps
  <2>14. QED
    BY <2>2, <2>7, <2>8, <2>9, <2>10, <2>11, <2>12, <2>13 DEF p
<1> HIDE DEF h
<1>9. /\ said \in Seq(Announced) /\ \A i \in DOMAIN said : By(copies, said[i], m)
      /\ h.says = <<>> => said = up[c]
  <2>1. up[c] \in Seq(Announced) /\ \A i \in DOMAIN up[c] : By(copies, up[c][i], m)
    BY <1>1 DEF IInv, MadeHere, Connected
  <2>2. CASE h.says = <<>>
    BY <2>1, <2>2, ConcatEmptySeq
  <2>3. CASE h.says # <<>>
    <3>1. h.says = <<p.local>> /\ p.local # None
      BY <1>8, <2>3
    <3>2. p.local \in Announced /\ By(copies, p.local, m)
      BY <1>1, <3>1 DEF Client, Announced, IInv, MadeHere
    <3>3. said = Append(up[c], p.local)
      BY <2>1, <3>1, <3>2
    <3>4. /\ Append(up[c], p.local) \in Seq(Announced)
          /\ Len(Append(up[c], p.local)) = Len(up[c]) + 1
          /\ \A i \in 1 .. Len(up[c]) : Append(up[c], p.local)[i] = up[c][i]
          /\ Append(up[c], p.local)[Len(up[c]) + 1] = p.local
      BY <2>1, <3>2, AppendProperties
    <3>5. DOMAIN Append(up[c], p.local) = 1 .. (Len(up[c]) + 1) /\ Len(up[c]) \in Nat
          /\ DOMAIN up[c] = 1 .. Len(up[c])
      BY <2>1, <3>4, LenProperties
    <3> HIDE DEF said
    <3>6. ASSUME NEW i \in DOMAIN said PROVE By(copies, said[i], m)
      <4>1. i \in 1 .. Len(up[c]) \/ i = Len(up[c]) + 1
        BY <3>3, <3>5
      <4>2. QED
        BY <2>1, <3>2, <3>3, <3>4, <3>5, <4>1
    <3>7. QED
      BY <2>3, <3>3, <3>4, <3>6
  <2>4. QED
    BY <2>2, <2>3
<1> HIDE DEF said
<1>10. client \in [Machine -> Client]
  BY DEF IInv, Typed
<1> HIDE DEF t
<1>11. client' \in [Machine -> Client] /\ client'[m] = t
       /\ \A r \in Machine \ {m} : client'[r] = client[r]
  BY <1>2, <1>8, <1>10
<1>12. /\ up' \in [Conn -> Seq(Announced)] /\ up'[c] = said
       /\ \A d \in Conn : d # c => up'[d] = up[d]
  BY <1>1, <1>2, <1>9
<1>13. By(copies, t.local, m) /\ By(copies, t.box.news, m)
  BY <1>8 DEF IInv, MadeHere, By
<1>14. c <= Len(server.machine)
  <2>1. server.open \subseteq 1 .. Len(server.machine) /\ Len(server.machine) \in Nat
    BY <1>1, LenProperties DEF Sound, Server
  <2>2. QED
    BY <1>1, <2>1
<1>15. t.fresh => said = <<>>
  BY <1>1, <1>8, <1>9 DEF IInv, Connected
<1>16. /\ \A d \in Conn : d # c => server'.down[d] = server.down[d]
       /\ server'.open = server.open
  BY <1>4, <1>5
<1>17. /\ client'[m].conn = c /\ c \in server'.open /\ Agreed(server', c, client'[m])
       /\ client'[m].fresh => up'[c] = <<>>
       /\ By(copies, client'[m].local, m) /\ By(copies, client'[m].box.news, m)
  BY <1>1, <1>8, <1>11, <1>12, <1>13, <1>15, <1>16
<1>18. /\ c \in server'.open
       /\ up'[c] # <<>> => c <= Len(server.machine)
       /\ \A i \in DOMAIN up'[c] : By(copies, up'[c][i], m)
  BY <1>9, <1>12, <1>14, <1>17
<1>19. \A d \in server.open : d # c => d \in server'.open
  BY <1>16
<1>20. UNCHANGED <<copies, switches>> /\ c = client[m].conn
  BY <1>2
<1> HIDE DEF p, c
<1>21. QED
  BY <1>5, <1>6, <1>11, <1>12, <1>16, <1>17, <1>18, <1>19, <1>20, ClientKeeps

\* A copy more: those made before stay where they were made.
LEMMA OneMoreCopy ==
    ASSUME IInv, NEW m \in Machine \union {Local}, copies' = Append(copies, m),
           Len(copies) < MaxCopies
    PROVE  /\ copies' \in Seq(Machine \union {Local})
           /\ Len(copies') \in Copy /\ Len(copies') <= MaxCopies
           /\ By(copies', Len(copies'), m)
           /\ \A x \in Announced \union {None} : \A p : By(copies, x, p) => By(copies', x, p)
<1>1. copies \in Seq(Machine \union {Local}) /\ Len(copies) \in Nat /\ MaxCopies \in Nat
  BY LenProperties, HandoffAssumption DEF IInv, Typed
<1>2. /\ copies' \in Seq(Machine \union {Local}) /\ Len(copies') = Len(copies) + 1
      /\ \A i \in 1 .. Len(copies) : copies'[i] = copies[i]
      /\ copies'[Len(copies) + 1] = m
  BY <1>1, AppendProperties
<1>3. Len(copies') \in Copy /\ Len(copies') <= MaxCopies
  BY <1>1, <1>2 DEF Copy
<1>4. By(copies', Len(copies'), m)
  BY <1>1, <1>2 DEF By
<1>5. ASSUME NEW x \in Announced \union {None}, NEW p, By(copies, x, p)
      PROVE  By(copies', x, p)
  <2>1. CASE x \in {0, None}
    BY <2>1 DEF By
  <2>2. CASE x \notin {0, None}
    <3>1. x \in 1 .. Len(copies) /\ copies[x] = p
      BY <1>1, <1>5, <2>2, HandoffAssumption DEF By, Announced, Copy
    <3>2. copies'[x] = p /\ x <= Len(copies')
      BY <1>1, <1>2, <3>1
    <3>3. QED
      BY <3>2 DEF By
  <2>3. QED
    BY <2>1, <2>2
<1>6. QED
  BY <1>2, <1>3, <1>4, <1>5

\* What is known of a copy is one of its numbers, or none.
LEMMA Numbers ==
    ASSUME IInv
    PROVE  /\ server.host.news \in Announced \union {None}
           /\ server.target # None => server.target.copy \in Announced
           /\ \A m \in Machine : /\ client[m].local \in Announced \union {None}
                                 /\ client[m].box.news \in Announced \union {None}
           /\ \A c \in Conn : \A i \in DOMAIN up[c] : up[c][i] \in Announced
<1>1. /\ Sound(server) /\ client \in [Machine -> Client] /\ up \in [Conn -> Seq(Announced)]
  BY DEF IInv, Typed, Announced
<1>2. 0 .. MaxCopies = Announced
  BY HandoffAssumption DEF Announced, Copy
<1>3. server.host.news \in Announced \union {None}
  <2>1. server.host \in Clipboard
    BY <1>1, TargetFacts
  <2>2. QED
    BY <1>2, <2>1 DEF Clipboard
<1>4. server.target # None => server.target.copy \in Announced
  BY <1>1, TargetFacts DEF Announced
<1>5. ASSUME NEW m \in Machine
      PROVE  /\ client[m].local \in Announced \union {None}
             /\ client[m].box.news \in Announced \union {None}
  <2>1. client[m] \in Client /\ client[m].box \in Clipboard
    BY ClientFacts
  <2>2. client[m].local \in Announced \union {None}
    BY <2>1 DEF Client, Announced
  <2>3. QED
    BY <1>2, <2>1, <2>2 DEF Clipboard
<1>6. \A c \in Conn : \A i \in DOMAIN up[c] : up[c][i] \in Announced
  BY <1>1, SequenceParts
<1>7. QED
  BY <1>3, <1>4, <1>5, <1>6

\* A copy of an application is news, and belongs to its machine.
LEMMA Copying ==
    ASSUME NEW box \in Clipboard, NEW copy \in Copy
    PROVE  /\ Copied(box, copy) \in Clipboard
           /\ Copied(box, copy).own = TRUE /\ Copied(box, copy).news = copy
<1>1. copy \in 0 .. MaxCopies
  BY HandoffAssumption DEF Copy
<1>2. QED
  BY <1>1 DEF Copied, Clipboard

LEMMA CopyOnServerKeeps ==
    ASSUME IInv, CopyOnServer
    PROVE  IInv'
<1> DEFINE k == Len(copies')
           own == Copied(server.host, k)
<1>1. /\ copies' = Append(copies, Local) /\ Len(copies) < MaxCopies
      /\ server' = [server EXCEPT !.host = Copied(server.host, k)]
      /\ UNCHANGED <<client, up, switches>>
  BY DEF CopyOnServer
<1>2. /\ copies' \in Seq(Machine \union {Local}) /\ k \in Copy /\ k <= MaxCopies
      /\ By(copies', k, Local)
      /\ \A x \in Announced \union {None} : \A p : By(copies, x, p) => By(copies', x, p)
  BY <1>1, OneMoreCopy
<1>3. Sound(server) /\ server \in Server /\ server.host \in Clipboard
  BY TargetFacts DEF IInv, Typed, Sound
<1> HIDE DEF k
<1>4. own \in Clipboard /\ own.news = k
  BY <1>2, <1>3, Copying
<1> HIDE DEF own
<1>5. /\ server' \in Server /\ server'.listed = server.listed /\ server'.open = server.open
      /\ server'.machine = server.machine /\ server'.host = own
      /\ server'.current = server.current /\ server'.target = server.target
      /\ server'.down = server.down
  BY <1>1, <1>3, <1>4 DEF Server, own
<1>6. Sound(server')
  BY <1>3, <1>5 DEF Sound
<1>7. Typed'
  BY <1>1, <1>2, <1>6 DEF IInv, Typed, k
<1>8. Connected'
  <2>1. ASSUME NEW m \in Machine, client[m].conn # Local
        PROVE  Agreed(server', client[m].conn, client[m])
    BY <1>5, <2>1, ClientFacts DEF Agreed
  <2>2. QED
    BY <1>1, <1>5, <2>1 DEF IInv, Connected
<1>9. MadeHere'
  <2>1. server.target # None =>
            By(copies', server.target.copy,
               IF server.target.source = Local THEN Local
               ELSE server.machine[server.target.source])
    <3>1. \A p : server.target # None /\ By(copies, server.target.copy, p)
                    => By(copies', server.target.copy, p)
      BY <1>2, Numbers
    <3>2. QED
      BY <1>5, <3>1 DEF IInv, MadeHere
  <2>2. ASSUME NEW m \in Machine
        PROVE  By(copies', client[m].local, m) /\ By(copies', client[m].box.news, m)
    BY <1>1, <1>2, Numbers DEF IInv, MadeHere
  <2>3. ASSUME NEW c \in Conn, NEW i \in DOMAIN up[c]
        PROVE  By(copies', up[c][i], server.machine[c])
    BY <1>1, <1>2, <1>5, Numbers DEF IInv, MadeHere
  <2>4. QED
    BY <1>1, <1>2, <1>4, <1>5, <2>1, <2>2, <2>3 DEF MadeHere
<1>10. QED
  BY <1>7, <1>8, <1>9 DEF IInv

LEMMA CopyOnClientKeeps ==
    ASSUME IInv, NEW m \in Machine, CopyOnClient(m)
    PROVE  IInv'
<1> DEFINE k == Len(copies')
           p == client[m]
           box == Copied(p.box, k)
           q == [p EXCEPT !.box = box]
<1>1. /\ copies' = Append(copies, m) /\ Len(copies) < MaxCopies
      /\ client' = [client EXCEPT ![m].box = Copied(p.box, k)]
      /\ UNCHANGED <<server, up, switches>>
  BY DEF CopyOnClient
<1>2. /\ copies' \in Seq(Machine \union {Local}) /\ k \in Copy /\ k <= MaxCopies
      /\ By(copies', k, m)
      /\ \A x \in Announced \union {None} : \A r : By(copies, x, r) => By(copies', x, r)
  BY <1>1, OneMoreCopy
<1>3. p \in Client /\ p.box \in Clipboard /\ client \in [Machine -> Client]
  BY ClientFacts DEF IInv, Typed
<1> HIDE DEF k
<1>4. box \in Clipboard /\ box.own = TRUE /\ box.news = k
  BY <1>2, <1>3, Copying
<1>5. client' = [client EXCEPT ![m] = q]
  BY <1>1, <1>3
<1> HIDE DEF box
<1>6. /\ q \in Client /\ q.box = box /\ q.conn = p.conn /\ q.active = p.active
      /\ q.fresh = p.fresh /\ q.deferred = p.deferred /\ q.local = p.local
  BY <1>3, <1>4 DEF Client
<1> HIDE DEF q
<1>7. /\ client' \in [Machine -> Client] /\ client'[m] = q
      /\ \A r \in Machine \ {m} : client'[r] = client[r]
  BY <1>3, <1>5, <1>6
<1>8. Typed'
  BY <1>1, <1>2, <1>7 DEF IInv, Typed, k
<1>9. Connected'
  <2>1. ASSUME p.conn # Local
        PROVE  Agreed(server, p.conn, q)
    <3>1. WillPaste(server.down[p.conn], p.box, server.target.copy)
             => WillPaste(server.down[p.conn], q.box, server.target.copy)
      BY <1>4, <1>6 DEF WillPaste
    <3>2. QED
      BY <1>6, <2>1, <3>1, ClientFacts DEF Agreed
  <2>2. ASSUME NEW r \in Machine, client'[r].conn # Local
        PROVE  /\ client'[r].conn \in server.open /\ server.machine[client'[r].conn] = r
               /\ Agreed(server, client'[r].conn, client'[r])
               /\ client'[r].fresh => up[client'[r].conn] = <<>>
    <3>1. CASE r = m
      BY <1>6, <1>7, <2>1, <2>2, <3>1 DEF IInv, Connected
    <3>2. CASE r # m
      BY <1>7, <2>2, <3>2 DEF IInv, Connected
    <3>3. QED
      BY <3>1, <3>2
  <2>3. QED
    BY <1>1, <2>2 DEF IInv, Connected
<1>10. MadeHere'
  <2>1. server.target # None =>
            By(copies', server.target.copy,
               IF server.target.source = Local THEN Local
               ELSE server.machine[server.target.source])
    <3>1. \A r : server.target # None /\ By(copies, server.target.copy, r)
                    => By(copies', server.target.copy, r)
      BY <1>1, <1>2, Numbers
    <3>2. QED
      BY <1>1, <3>1 DEF IInv, MadeHere
  <2>2. ASSUME NEW r \in Machine
        PROVE  By(copies', client'[r].local, r) /\ By(copies', client'[r].box.news, r)
    <3>1. CASE r = m
      <4>1. By(copies, p.local, m) /\ p.local \in Announced \union {None}
        BY Numbers DEF IInv, MadeHere
      <4>2. QED
        BY <1>2, <1>4, <1>6, <1>7, <3>1, <4>1
    <3>2. CASE r # m
      <4>1. client'[r] = client[r]
        BY <1>7, <3>2
      <4>2. QED
        BY <1>2, <4>1, Numbers DEF IInv, MadeHere
    <3>3. QED
      BY <3>1, <3>2
  <2>3. ASSUME NEW c \in Conn, NEW i \in DOMAIN up[c]
        PROVE  By(copies', up[c][i], server.machine[c])
    BY <1>1, <1>2, Numbers DEF IInv, MadeHere
  <2>4. By(copies', server.host.news, Local)
    BY <1>1, <1>2, Numbers DEF IInv, MadeHere
  <2>5. QED
    BY <1>1, <2>1, <2>2, <2>3, <2>4 DEF MadeHere
<1>11. QED
  BY <1>8, <1>9, <1>10 DEF IInv

LEMMA ConnectKeeps ==
    ASSUME IInv, NEW m \in Machine, NEW told \in SUBSET server.listed, Connect(m, told)
    PROVE  IInv'
<1> DEFINE c == Len(server.machine) + 1
           p == client[m]
           q == Restarted(p, c)
<1>1. /\ p.conn = Local /\ c \in Conn
      /\ server' = AddClient(server, c, m, told)
      /\ client' = [client EXCEPT ![m] = q] /\ UNCHANGED <<up, copies, switches>>
  BY DEF Connect
<1>2. /\ Sound(server) /\ server \in Server /\ p \in Client
      /\ client \in [Machine -> Client] /\ up \in [Conn -> Seq(Announced)]
  BY ClientFacts DEF IInv, Typed
<1>3. /\ Len(server.machine) \in Nat /\ server.machine \in Seq(Machine)
      /\ server.open \subseteq 1 .. Len(server.machine)
  BY <1>2, LenProperties DEF Sound, Server
<1>4. server.down[c] = <<>> /\ up[c] = <<>>
  <2>1. c \notin server.open /\ ~(c <= Len(server.machine))
    BY <1>3
  <2>2. QED
    BY <1>1, <2>1 DEF IInv, Connected
<1>5. /\ Append(server.machine, m) \in Seq(Machine)
      /\ Len(Append(server.machine, m)) = c
      /\ \A i \in 1 .. Len(server.machine) : Append(server.machine, m)[i] = server.machine[i]
      /\ Append(server.machine, m)[c] = m
  BY <1>3, AppendProperties
<1>6. /\ q \in Client /\ q.conn = c /\ ~q.active /\ ~q.deferred /\ q.fresh
      /\ q.local = p.local /\ q.box = p.box
  BY <1>1, <1>2 DEF Restarted, Client
<1> HIDE DEF q
<1>7. c = Len(server.machine) + 1
  OBVIOUS
<1> HIDE DEF c
<1>8. /\ Sound(server') /\ server'.open = server.open \union {c}
      /\ server'.machine = Append(server.machine, m)
      /\ server'.host.news \in {server.host.news, 0} /\ server'.target = server.target
      /\ \A d \in Conn \ server'.open : server'.down[d] = server.down[d]
      /\ \A d \in server.open, r \in Client : Agreed(server, d, r) => Agreed(server', d, r)
      /\ Agreed(server', c, q)
  BY <1>1, <1>2, <1>4, <1>6, <1>7, AddClientKeeps
<1>9. /\ client' \in [Machine -> Client] /\ client'[m] = q
      /\ \A r \in Machine \ {m} : client'[r] = client[r]
  BY <1>1, <1>2, <1>6
<1>10. Typed'
  BY <1>1, <1>8, <1>9 DEF IInv, Typed
<1>11. Connected'
  <2>1. ASSUME NEW r \in Machine, client'[r].conn # Local
        PROVE  /\ client'[r].conn \in server'.open
               /\ server'.machine[client'[r].conn] = r
               /\ Agreed(server', client'[r].conn, client'[r])
               /\ client'[r].fresh => up'[client'[r].conn] = <<>>
    <3>1. CASE r = m
      BY <1>1, <1>4, <1>5, <1>6, <1>8, <1>9, <3>1
    <3>2. CASE r # m
      <4>1. client'[r] = client[r] /\ client[r].conn # Local
        BY <1>9, <2>1, <3>2
      <4>2. /\ client[r].conn \in server.open /\ server.machine[client[r].conn] = r
            /\ Agreed(server, client[r].conn, client[r])
            /\ client[r].fresh => up[client[r].conn] = <<>>
        BY <4>1 DEF IInv, Connected
      <4>3. server'.machine[client[r].conn] = r
        BY <1>3, <1>5, <1>8, <4>2
      <4>4. Agreed(server', client[r].conn, client[r])
        BY <1>8, <1>2, <4>2
      <4>5. QED
        BY <1>1, <1>8, <4>1, <4>2, <4>3, <4>4
    <3>3. QED
      BY <3>1, <3>2
  <2>2. ASSUME NEW d \in Conn \ server'.open PROVE server'.down[d] = <<>>
    BY <1>8, <2>2 DEF IInv, Connected
  <2>3. ASSUME NEW d \in Conn, up'[d] # <<>> PROVE d <= Len(server'.machine)
    <3>1. d <= Len(server.machine) /\ d \in Nat
      BY <1>1, <2>3 DEF IInv, Connected, Conn
    <3>2. QED
      BY <1>3, <1>5, <1>7, <1>8, <3>1
  <2>4. QED
    BY <2>1, <2>2, <2>3 DEF Connected
<1>12. MadeHere'
  <2>1. By(copies, server'.host.news, Local)
    BY <1>8 DEF IInv, MadeHere, By
  <2>2. server'.target # None =>
            By(copies, server'.target.copy, IF server'.target.source = Local THEN Local
                                    ELSE server'.machine[server'.target.source])
    <3>1. SUFFICES ASSUME server.target # None, server.target.source # Local
                   PROVE  server'.machine[server.target.source]
                             = server.machine[server.target.source]
      BY <1>8 DEF IInv, MadeHere
    <3>2. server.target.source \in 1 .. Len(server.machine)
      BY <1>2, <1>3, <3>1 DEF Sound, Local
    <3>3. QED
      BY <1>5, <1>8, <3>2
  <2>3. ASSUME NEW r \in Machine PROVE By(copies, client'[r].local, r) /\ By(copies, client'[r].box.news, r)
    <3>1. CASE r = m
      BY <1>6, <1>9, <3>1 DEF IInv, MadeHere
    <3>2. CASE r # m
      BY <1>9, <3>2 DEF IInv, MadeHere
    <3>3. QED
      BY <3>1, <3>2
  <2>4. ASSUME NEW d \in Conn, NEW i \in DOMAIN up[d]
        PROVE  By(copies, up[d][i], server'.machine[d])
    <3>1. By(copies, up[d][i], server.machine[d])
      BY DEF IInv, MadeHere
    <3>2. up[d] # <<>>
      <4>1. up[d] \in Seq(Announced)
        BY <1>2
      <4>2. QED
        BY <2>4
    <3>3. d \in 1 .. Len(server.machine)
      BY <1>3, <3>2 DEF IInv, Connected, Conn
    <3>4. QED
      BY <1>5, <1>8, <3>1, <3>3
  <2>5. QED
    BY <1>1, <2>1, <2>2, <2>3, <2>4 DEF MadeHere, By
<1>13. QED
  BY <1>10, <1>11, <1>12 DEF IInv

LEMMA DisconnectKeeps ==
    ASSUME IInv, NEW m \in Machine, Disconnect(m)
    PROVE  IInv'
<1> DEFINE p == client[m]
           c == p.conn
           cleared == ClearRemoteClipboard(p)
           q == Restarted(cleared, Local)
           down == [server.down EXCEPT ![c] = <<>>]
<1>1. /\ p \in Client /\ p.box \in Clipboard /\ c \in Conn /\ c # Local
      /\ c \in server.open /\ Sound(server) /\ server \in Server
      /\ up \in [Conn -> Seq(Announced)] /\ client \in [Machine -> Client]
      /\ server.down \in [Conn -> Seq(Message)]
  BY ClientFacts, TargetFacts DEF Disconnect, IInv, Typed
<1>2. PICK n \in 0 .. Len(up[c]) : up' = [up EXCEPT ![c] = SubSeq(up[c], 1, n)]
  BY DEF Disconnect
<1>3. /\ client' = [client EXCEPT ![m] = q] /\ UNCHANGED <<copies, switches>>
      /\ server' = [server EXCEPT !.open = server.open \ {c}, !.down = down]
  BY <1>1 DEF Disconnect, Server
<1>4. down \in [Conn -> Seq(Message)] /\ down[c] = <<>>
      /\ \A d \in Conn : d # c => down[d] = server.down[d]
  BY <1>1
<1>5. cleared \in Client /\ cleared.local \in {p.local, None}
      /\ cleared.box.news \in {p.box.news, 0}
  <2>1. CASE ~p.serving
    BY <1>1, <2>1 DEF ClearRemoteClipboard
  <2>2. CASE p.serving
    <3> DEFINE box == StoreTypes(p.box, 0)
    <3>1. box \in Clipboard /\ box.news \in {p.box.news, 0}
      BY <1>1, Stored
    <3> HIDE DEF box
    <3>2. cleared = [p EXCEPT !.box = box, !.local = None, !.serving = FALSE]
      BY <1>1, <2>2 DEF ClearRemoteClipboard, Client, box
    <3>3. QED
      BY <1>1, <3>1, <3>2 DEF Client
  <2>3. QED
    BY <2>1, <2>2
<1> HIDE DEF down, cleared
<1>6. q \in Client /\ q.conn = Local /\ q.local = cleared.local /\ q.box = cleared.box
  BY <1>5 DEF Restarted, Client
<1>7. /\ server' \in Server /\ server'.listed = server.listed
      /\ server'.open = server.open \ {c} /\ server'.machine = server.machine
      /\ server'.host = server.host /\ server'.current = server.current
      /\ server'.target = server.target /\ server'.down = down
  BY <1>1, <1>3, <1>4 DEF Server
<1>8. Sound(server')
  BY <1>1, <1>7 DEF Sound
<1> HIDE DEF q
<1>9. /\ client' \in [Machine -> Client] /\ client'[m] = q
      /\ \A r \in Machine \ {m} : client'[r] = client[r]
  BY <1>1, <1>3, <1>6
<1>10. /\ up' \in [Conn -> Seq(Announced)]
       /\ \A d \in Conn : d # c => up'[d] = up[d]
       /\ up'[c] # <<>> => up[c] # <<>>
       /\ \A i \in DOMAIN up'[c] : By(copies, up'[c][i], m)
  <2>1. up[c] \in Seq(Announced)
    BY <1>1
  <2>2. /\ SubSeq(up[c], 1, n) \in Seq(Announced)
        /\ up[c] = <<>> => SubSeq(up[c], 1, n) = <<>>
        /\ \A i \in DOMAIN SubSeq(up[c], 1, n) :
              i \in DOMAIN up[c] /\ SubSeq(up[c], 1, n)[i] = up[c][i]
    BY <2>1, SequenceParts
  <2>3. \A i \in DOMAIN up[c] : By(copies, up[c][i], m)
    BY <1>1 DEF IInv, MadeHere, Connected
  <2>4. up'[c] = SubSeq(up[c], 1, n) /\ \A d \in Conn : d # c => up'[d] = up[d]
    BY <1>1, <1>2
  <2>5. up' \in [Conn -> Seq(Announced)]
    BY <1>1, <1>2, <2>2
  <2>6. QED
    BY <2>2, <2>3, <2>4, <2>5
<1>11. up'[c] # <<>> => c <= Len(server.machine)
  BY <1>1, <1>10 DEF IInv, Connected
<1>12. By(copies, client'[m].local, m) /\ By(copies, client'[m].box.news, m)
  BY <1>5, <1>6, <1>9 DEF IInv, MadeHere, By
<1>13. /\ server'.open \subseteq server.open
       /\ \A d \in Conn : d # c => server'.down[d] = server.down[d]
       /\ \A d \in server.open : d # c => d \in server'.open
       /\ server'.down[c] = <<>> /\ client'[m].conn = Local
  BY <1>4, <1>6, <1>7, <1>9
<1>14. UNCHANGED <<copies, switches>> /\ c = client[m].conn
  BY <1>3
<1> HIDE DEF p, c
<1>15. QED
  BY <1>7, <1>8, <1>9, <1>10, <1>11, <1>12, <1>13, <1>14, ClientKeeps

-----------------------------------------------------------------------------
(* The theorems.                                                           *)

LEMMA InitIInv == Init => IInv
<1> SUFFICES ASSUME Init PROVE IInv
  OBVIOUS
<1>1. /\ \A S : <<>> \in Seq(S)
      /\ Len(<<>>) = 0 /\ DOMAIN <<>> = {}
  BY EmptySeq
<1>2. 0 \in 0 .. MaxCopies /\ 0 \in 0 .. MaxSwitches /\ MaxConns \in Nat /\ MaxCopies \in Nat
  BY HandoffAssumption
<1> DEFINE box == [copy |-> 0, own |-> FALSE, news |-> None]
           down == [c \in Conn |-> <<>>]
<1>3. box \in Clipboard /\ box.news = None
  BY <1>2 DEF Clipboard
<1>4. down \in [Conn -> Seq(Message)] /\ \A c \in Conn : down[c] = <<>>
  BY <1>1
<1>5. server = [listed |-> {}, open |-> {}, machine |-> <<>>, current |-> Local,
                target |-> None, removed |-> None, host |-> box, down |-> down]
  BY DEF Init
<1> DEFINE new == [conn |-> Local, active |-> FALSE, fresh |-> TRUE, deferred |-> FALSE,
                   local |-> None, serving |-> FALSE, box |-> box]
<1>6. client = [m \in Machine |-> new]
  BY DEF Init
<1> HIDE DEF box, down
<1>7. /\ server \in Server /\ server.listed = {} /\ server.open = {}
      /\ server.machine = <<>> /\ server.current = Local /\ server.target = None
      /\ server.host = box /\ server.down = down
  BY <1>1, <1>3, <1>4, <1>5 DEF Server
<1>8. Sound(server)
  BY <1>1, <1>2, <1>7 DEF Sound
<1>9. new \in Client /\ new.conn = Local /\ new.local = None /\ new.box = box
  BY <1>3 DEF Client
<1> HIDE DEF new
<1>10. client \in [Machine -> Client] /\ \A m \in Machine : client[m] = new
  BY <1>6, <1>9
<1>11. /\ up \in [Conn -> Seq(Announced)] /\ \A c \in Conn : up[c] = <<>>
       /\ copies = <<>> /\ switches = 0
  BY <1>1 DEF Init
<1>12. Typed
  BY <1>1, <1>2, <1>8, <1>10, <1>11 DEF Typed, Announced
<1>13. Connected
  BY <1>4, <1>7, <1>9, <1>10, <1>11 DEF Connected
<1>14. MadeHere
  BY <1>1, <1>3, <1>7, <1>9, <1>10, <1>11 DEF MadeHere, By
<1>15. QED
  BY <1>12, <1>13, <1>14 DEF IInv

LEMMA NextIInv == IInv /\ [Next]_vars => IInv'
<1> SUFFICES ASSUME IInv, [Next]_vars PROVE IInv'
  OBVIOUS
<1>1. ASSUME NEW c \in server.listed \union {Local}, UserSwitch(c) PROVE IInv'
  BY <1>1, UserSwitchKeeps
<1>2. CASE CopyOnServer
  BY <1>2, CopyOnServerKeeps
<1>3. ASSUME NEW m \in Machine, CopyOnClient(m) PROVE IInv'
  BY <1>3, CopyOnClientKeeps
<1>4. CASE ServerTypesChanged
  BY <1>4, ServerTypesChangedKeeps
<1>5. ASSUME NEW m \in Machine, ClientTypesChanged(m) PROVE IInv'
  BY <1>5, ClientTypesChangedKeeps
<1>6. ASSUME NEW m \in Machine, ClientReceives(m) PROVE IInv'
  BY <1>6, ClientReceivesKeeps
<1>7. ASSUME NEW c \in Conn, ServerReceives(c) PROVE IInv'
  BY <1>7, ServerReceivesKeeps
<1>8. ASSUME NEW m \in Machine, NEW told \in SUBSET server.listed, Connect(m, told)
      PROVE  IInv'
  BY <1>8, ConnectKeeps
<1>9. ASSUME NEW m \in Machine, Disconnect(m) PROVE IInv'
  BY <1>9, DisconnectKeeps
<1>10. ASSUME NEW c \in Conn, RemoveClientEvent(c) PROVE IInv'
  BY <1>10, RemoveClientEventKeeps
<1>11. CASE RecoveryElapses
  BY <1>11, RecoveryElapsesKeeps
<1>12. CASE UNCHANGED vars
  <2>1. UNCHANGED <<server, client, up, copies, switches>>
    BY <1>12 DEF vars
  <2>2. QED
    BY <2>1 DEF IInv, Typed, Connected, MadeHere, Announced
<1>13. QED
  BY <1>1, <1>2, <1>3, <1>4, <1>5, <1>6, <1>7, <1>8, <1>9, <1>10, <1>11, <1>12 DEF Next

\* What the rotation and its clients agree on, whatever is in flight between
\* them: rotation.rs writes, client.rs reads, and neither waits for the other.
THEOREM Invariance == Spec => []IInv
  BY InitIInv, NextIInv, PTL DEF Spec

\* Once its stream is drained a client is active exactly if the rotation has it
\* as its target, and only the machine that made a copy announces it.
THEOREM Handover == Spec => []HandoffInv
<1>1. IInv => HandoffInv
  <2>1. SUFFICES ASSUME IInv PROVE HandoffInv
    OBVIOUS
  <2>2. /\ Sound(server) /\ server \in Server /\ up \in [Conn -> Seq(Announced)]
        /\ server.host \in Clipboard /\ Announced = 0 .. MaxCopies
        /\ server.listed \subseteq Conn
    BY <2>1, TargetFacts, HandoffAssumption DEF IInv, Typed, Sound, Announced, Copy
  <2>3. TypeOK
    BY <2>1, <2>2, ClientFacts DEF TypeOK, Sound, Server, IInv, Connected
  <2>4. StreamsAgree
    BY <2>1, ClientFacts DEF StreamsAgree, Agreed
  <2>5. OwnerMadeIt
    <3>1. ASSUME NEW c \in Conn, NEW i \in DOMAIN up[c], up[c][i] # 0
          PROVE  copies[up[c][i]] = server.machine[c]
      <4>1. up[c][i] \in Announced
        BY <2>1, Numbers
      <4>2. By(copies, up[c][i], server.machine[c])
        BY <2>1 DEF IInv, MadeHere
      <4>3. QED
        BY <2>2, <3>1, <4>1, <4>2, HandoffAssumption DEF By
    <3>2. ASSUME server.target # None
          PROVE  copies[server.target.copy] =
                    IF server.target.source = Local THEN Local
                    ELSE server.machine[server.target.source]
      <4>1. server.target.copy \in Copy
        BY <2>2, <3>2, TargetFacts
      <4>2. By(copies, server.target.copy, IF server.target.source = Local THEN Local
                                   ELSE server.machine[server.target.source])
        BY <2>1, <3>2 DEF IInv, MadeHere
      <4>3. server.target.copy \notin {0, None}
        BY <4>1, HandoffAssumption DEF Copy
      <4>4. QED
        BY <4>2, <4>3 DEF By
    <3>3. QED
      BY <3>1, <3>2 DEF OwnerMadeIt
  <2>6. QED
    BY <2>3, <2>4, <2>5 DEF HandoffInv
<1>2. QED
  BY <1>1, Invariance, PTL

\* With nothing in flight an application on the current client pastes the
\* rotation's target, unless the target or something newer is its own.
THEOREM PasteWhatIsOffered == Spec => []PasteIsTarget
<1>1. IInv => PasteIsTarget
  <2>1. SUFFICES ASSUME IInv, NEW m \in Machine, client[m].conn # Local,
                        server.current = client[m].conn,
                        server.down[client[m].conn] = <<>>, server.target # None,
                        server.target.source # client[m].conn
                 PROVE  client[m].box.own \/ client[m].box.copy = server.target.copy
    BY DEF PasteIsTarget
  <2>2. WillPaste(server.down[client[m].conn], client[m].box, server.target.copy)
    BY <2>1, ClientFacts DEF Agreed
  <2>3. InFlight(server.down[client[m].conn], "types") = {}
    BY <2>1, EmptySeq DEF InFlight
  <2>4. QED
    BY <2>2, <2>3 DEF WillPaste
<1>2. QED
  BY <1>1, Invariance, PTL

\* An activation announces a copy only when it is news: never for a key
\* release, and never over a copy the rotation knew when it switched.
THEOREM NewsOnly == Spec => OnlyNewsAnnounced
<1> DEFINE News == \A m \in Machine : ClientReceives(m) =>
                      LET msg == Head(server.down[client[m].conn])
                      IN  msg.kind = "switch" /\ up' # up =>
                             /\ ~(msg.enabled /\ msg.pair)
                             /\ client[m].local # 0 => client[m].local >= msg.seen
<1>1. IInv => News
  <2>1. SUFFICES ASSUME IInv, NEW m \in Machine, ClientReceives(m),
                        Head(server.down[client[m].conn]).kind = "switch", up' # up
                 PROVE  LET msg == Head(server.down[client[m].conn])
                        IN  /\ ~(msg.enabled /\ msg.pair)
                            /\ client[m].local # 0 => client[m].local >= msg.seen
    OBVIOUS
  <2> DEFINE p == client[m]
             c == p.conn
             q == server.down[c]
             msg == Head(q)
             h == Handled(p, msg)
  <2>2. /\ p \in Client /\ c \in Conn /\ c # Local /\ Agreed(server, c, p)
        /\ q \in Seq(Message) /\ q # <<>> /\ up \in [Conn -> Seq(Announced)]
        /\ up' = [up EXCEPT ![c] = up[c] \o h.says]
    BY <2>1, ClientFacts, TargetFacts DEF ClientReceives
  <2>3. h.says # <<>>
    <3>1. SUFFICES ASSUME h.says = <<>> PROVE up' = up
      BY <2>1
    <3>2. up[c] \o <<>> = up[c]
      BY <2>2, ConcatEmptySeq
    <3>3. QED
      BY <2>2, <3>1, <3>2
  <2>4. p.fresh /\ p.local # None
    BY <2>1, <2>3 DEF Handled, OnSwitch, Announcement
  <2>5. FirstActivates(q, p.local)
    BY <2>2, <2>4 DEF Agreed
  <2>6. ~msg.pair /\ msg.seen = 0
    BY <2>1, <2>2, <2>4, <2>5, FirstIsRead
  <2>7. p.local \in Copy \union {0}
    BY <2>2, <2>4 DEF Client
  <2>8. p.local >= 0
    BY <2>7, HandoffAssumption DEF Copy
  <2>9. QED
    BY <2>6, <2>8
<1>2. IInv => [News]_vars
  BY <1>1
<1>3. Spec => [][News]_vars
  BY <1>2, Invariance, PTL DEF Spec
<1>4. QED
  BY <1>3 DEF OnlyNewsAnnounced

-----------------------------------------------------------------------------
(***************************************************************************)
(* Part 2, ClipboardFetch: the answers to the fetches.                     *)
(*                                                                         *)
(* A handler passes a world from one operation to the next, so the         *)
(* invariant is a property of worlds (Consistent), which every operation   *)
(* keeps; while a handler has fetches in hand, they are in no queue.  The  *)
(* caches stay fresh because a machine's copies are announced in the order *)
(* they were made (Settles).  This module extends the other specification, *)
(* so the assumptions on the constants of this one are hypotheses.         *)
(***************************************************************************)
CONSTANTS Selections, Pasters, Arrivals, MaxLosses, MaxTimeouts, Capacity

F == INSTANCE ClipboardFetch

-----------------------------------------------------------------------------
(* Types, with the number of copies made so far.                           *)

Asker == F!Conn \union {F!Local}
Mime == Type \union {None}
Content(n) == [copy : 0 .. n, unread : BOOLEAN]
Table == UNION {[ids -> F!Fetch] : ids \in SUBSET Nat}
Request == [kind : {"request"}, type : Mime, for : Asker, id : Nat, tag : F!Fetch]
Answer(n) == [kind : {"answer"}, type : Mime, for : Asker, id : Nat,
              content : Content(n), tag : F!Fetch]
Frame(n) == Request \union Answer(n)
Serve == [host : F!Host, conn : F!Conn, for : Asker, id : Nat]
Offerer(n) == [source : Asker, copy : 1 .. n]
Rotation(n) == [listed : SUBSET F!Conn, target : Offerer(n) \union {None},
                pending : Table, nextId : Nat]
Offer(n) == [copy : 1 .. n, cache : Content(n) \union {None}, fetches : SUBSET F!Fetch]
Lock(n) == [by : F!Fetch, fresh : BOOLEAN, got : 0 .. n \union {None}]
Machinery(n) == [app : 0 .. n, news : 0 .. n \union {None}, local : 0 .. n \union {None},
                 serving : BOOLEAN, offer : Offer(n) \union {None},
                 served : 1 .. n \union {None}, failed : Mime,
                 lock : Lock(n) \union {None}]
Link(n) == [machine : Machine \union {None}, open : BOOLEAN, up : Seq(Frame(n)),
            down : Seq(Frame(n)), pending : Table, nextId : Nat]
Task(n) == [stage : {"unused", "waiting", "over"}, queued : BOOLEAN, host : F!Host,
            type : Mime, copy : 0 .. n, serve : Serve \union {None},
            lost : BOOLEAN, wrong : BOOLEAN, stale : BOOLEAN]
Worlds(n) == [server : Rotation(n), host : [F!Host -> Machinery(n)],
              link : [F!Conn -> Link(n)], fetch : [F!Fetch -> Task(n)]]
Copies == Seq([host : F!Host, type : Type])

-----------------------------------------------------------------------------
(* Who waits for what.                                                     *)

Waiting(w, f) == w.fetch[f].stage = "waiting"
Waits(w, f) == Waiting(w, f) /\ ~w.fetch[f].lost

\* The asker's table has fetch f under this identifier, or has forgotten it
\* and then does not wait for it either.
Expects(w, asker, id, f) ==
    IF asker = F!Local
    THEN /\ id < w.server.nextId
         /\ id \in DOMAIN w.server.pending => w.server.pending[id] = f
         /\ Waits(w, f) => id \in DOMAIN w.server.pending
    ELSE /\ w.link[asker].machine # None
         /\ w.link[asker].open =>
               /\ id < w.link[asker].nextId
               /\ id \in DOMAIN w.link[asker].pending => w.link[asker].pending[id] = f
         /\ Waits(w, f) => w.link[asker].open /\ id \in DOMAIN w.link[asker].pending

\* Content is no older than the advertised copy, of the same machine.
Follows(k, copy, advertised) ==
    copy # 0 /\ k[copy].host = k[advertised].host => copy >= advertised

\* The bulk queues, two to a connection.
Lane == {"up", "down"} \X F!Conn
Queue(w, l) == IF l[1] = "up" THEN w.link[l[2]].up ELSE w.link[l[2]].down
InQueue(w, f) == \E l \in Lane : \E i \in DOMAIN Queue(w, l) : Queue(w, l)[i].tag = f

\* Whose identifier a frame of a queue bears.
Bearer(l, m) == IF (l[1] = "up") = (m.kind = "request") THEN l[2] ELSE m.for
ServedFor(s) == IF s.host = F!Local THEN s.conn ELSE s.for

Good(k, w, l, m) ==
    /\ Expects(w, Bearer(l, m), m.id, m.tag)
    /\ m.kind = "answer" /\ Waiting(w, m.tag)
          => Follows(k, m.content.copy, w.fetch[m.tag].copy)
Mail(k, w) == \A l \in Lane : \A i \in DOMAIN Queue(w, l) : Good(k, w, l, Queue(w, l)[i])

Serves(w) ==
    \A f \in F!Fetch : w.fetch[f].serve # None =>
        Expects(w, ServedFor(w.fetch[f].serve), w.fetch[f].serve.id, f)

\* A connection that was not made yet has nothing; one that is lost has no
\* frames for the client.
Wired(w) ==
    /\ \A c \in F!Conn : w.link[c].machine = None => ~w.link[c].open /\ w.link[c].up = <<>>
    /\ \A c \in F!Conn : ~w.link[c].open => w.link[c].down = <<>>
    /\ \A c \in w.server.listed : w.link[c].machine # None

\* A fetch is in one place, ...
Alone(w) ==
    /\ \A l, o \in Lane : \A i \in DOMAIN Queue(w, l), j \in DOMAIN Queue(w, o) :
          Queue(w, l)[i].tag = Queue(w, o)[j].tag => l = o /\ i = j
    /\ \A f \in F!Fetch : InQueue(w, f) => ~w.fetch[f].queued /\ w.fetch[f].serve = None
    /\ \A f \in F!Fetch : w.fetch[f].serve # None => ~w.fetch[f].queued
    /\ \A f \in F!Fetch : w.fetch[f].stage = "unused" =>
          ~InQueue(w, f) /\ ~w.fetch[f].queued /\ w.fetch[f].serve = None

\* ... and one that is waited for is in some place, but for those in hand.
Tracked(w, hand) ==
    \A f \in F!Fetch :
        IF f \in hand
        THEN /\ ~InQueue(w, f) /\ ~w.fetch[f].queued /\ w.fetch[f].serve = None
             /\ w.fetch[f].stage # "unused"
        ELSE Waits(w, f) => InQueue(w, f) \/ w.fetch[f].queued \/ w.fetch[f].serve # None

Locks(w) ==
    \A h \in F!Host : w.host[h].lock # None =>
        LET s == w.fetch[w.host[h].lock.by].serve IN s # None /\ s.host = h

-----------------------------------------------------------------------------
(* What is advertised, and what is cached.                                 *)

MadeAt(k, copy, h) == copy \in 1 .. Len(k) /\ k[copy].host = h

Sources(k, w) ==
    \A h \in F!Host :
        /\ w.host[h].app # 0 =>
              /\ MadeAt(k, w.host[h].app, h)
              /\ \A q \in 1 .. Len(k) : k[q].host = h => q <= w.host[h].app
        /\ w.host[h].news \notin {0, None} => MadeAt(k, w.host[h].news, h)
        /\ w.host[h].local \notin {0, None} => MadeAt(k, w.host[h].local, h)

\* Somebody else may know of the copy.
Published(w, copy) ==
    \/ w.server.target # None /\ w.server.target.copy = copy
    \/ \E h \in F!Host : w.host[h].offer # None /\ w.host[h].offer.copy = copy
    \/ \E h \in F!Host : w.host[h].local = copy
    \/ \E f \in F!Fetch : Waiting(w, f) /\ w.fetch[f].copy = copy

Newest(k, w, h, copy) ==
    \A p \in 1 .. Len(k) : Published(w, p) /\ k[p].host = h => copy >= p

Cached(k, w) ==
    \A h \in F!Host :
        /\ w.host[h].served # None =>
              MadeAt(k, w.host[h].served, h) /\ Newest(k, w, h, w.host[h].served)
        /\ w.host[h].lock # None /\ w.host[h].lock.got \notin {0, None} =>
              /\ MadeAt(k, w.host[h].lock.got, h)
              /\ w.host[h].lock.fresh => Newest(k, w, h, w.host[h].lock.got)
              /\ Waiting(w, w.host[h].lock.by) =>
                    Follows(k, w.host[h].lock.got, w.fetch[w.host[h].lock.by].copy)

OfferSound(k, w, h) ==
    w.host[h].offer # None =>
        /\ w.host[h].offer.cache # None =>
              Follows(k, w.host[h].offer.cache.copy, w.host[h].offer.copy)
        /\ \A f \in w.host[h].offer.fetches :
              /\ w.fetch[f].stage # "unused"
              /\ Waiting(w, f) => w.fetch[f].copy = w.host[h].offer.copy

FetchSound(k, w, f) ==
    /\ ~w.fetch[f].stale /\ ~w.fetch[f].wrong
    /\ Waiting(w, f) => w.fetch[f].copy \in 1 .. Len(k)

Consistent(k, w, hand) ==
    /\ w \in Worlds(Len(k))
    /\ Wired(w) /\ Mail(k, w) /\ Serves(w) /\ Alone(w) /\ Tracked(w, hand) /\ Locks(w)
    /\ Sources(k, w) /\ Cached(k, w)
    /\ \A h \in F!Host : OfferSound(k, w, h)
    /\ \A f \in F!Fetch : FetchSound(k, w, f)

-----------------------------------------------------------------------------
(* Most of what a handler does moves no frame: fetches end or are lost, a   *)
(* table forgets some that nobody waits for, advertisements and caches go   *)
(* or are replaced, and what is newly published is in no cache.             *)

Forgets(w, before, after) ==
    /\ \A id \in DOMAIN after : id \in DOMAIN before /\ after[id] = before[id]
    /\ \A id \in DOMAIN before : Waits(w, before[id]) => id \in DOMAIN after

SettlesFetch(k, w, v, f) ==
    /\ v.fetch[f].queued = w.fetch[f].queued /\ v.fetch[f].serve = w.fetch[f].serve
    /\ v.fetch[f].stage = w.fetch[f].stage
       \/ (w.fetch[f].stage = "waiting" /\ v.fetch[f].stage = "over")
    /\ Waiting(v, f) => /\ v.fetch[f].copy = w.fetch[f].copy
                        /\ w.fetch[f].lost => v.fetch[f].lost
    /\ ~v.fetch[f].stale /\ ~v.fetch[f].wrong

SettlesLink(w, v, c) ==
    /\ v.link[c].machine = w.link[c].machine /\ v.link[c].open = w.link[c].open
    /\ v.link[c].up = w.link[c].up /\ v.link[c].down = w.link[c].down
    /\ v.link[c].nextId = w.link[c].nextId
    /\ Forgets(v, w.link[c].pending, v.link[c].pending)

SettlesHost(k, w, v, h) ==
    /\ v.host[h].app \in {w.host[h].app, 0}
    /\ v.host[h].news \in {w.host[h].news, 0, None}
    /\ v.host[h].local \in {w.host[h].local, w.host[h].news, 0, None}
    /\ v.host[h].served \in {w.host[h].served, None}
    /\ v.host[h].lock # None =>
          /\ w.host[h].lock # None
          /\ v.host[h].lock.by = w.host[h].lock.by
          /\ v.host[h].lock.got = w.host[h].lock.got
          /\ v.host[h].lock.fresh => w.host[h].lock.fresh
    /\ OfferSound(k, v, h)

\* No cache counts that may be older than the copy.
Invalidated(w, h) ==
    w.host[h].served = None /\ (w.host[h].lock # None => ~w.host[h].lock.fresh)

SettlesServer(k, w, v) ==
    /\ v.server.listed \subseteq w.server.listed
    /\ v.server.nextId = w.server.nextId
    /\ Forgets(v, w.server.pending, v.server.pending)
    /\ \A p \in 1 .. Len(k), h \in F!Host :
          Published(v, p) /\ k[p].host = h => Published(w, p) \/ Invalidated(v, h)

Settles(k, w, v) ==
    /\ v \in Worlds(Len(k))
    /\ SettlesServer(k, w, v)
    /\ \A h \in F!Host : SettlesHost(k, w, v, h)
    /\ \A c \in F!Conn : SettlesLink(w, v, c)
    /\ \A f \in F!Fetch : SettlesFetch(k, w, v, f)

LEMMA SettlesReflexive ==
    ASSUME NEW k \in Copies, NEW w, NEW hand, Consistent(k, w, hand)
    PROVE  Settles(k, w, w)
<1>1. w \in Worlds(Len(k)) /\ (\A h \in F!Host : OfferSound(k, w, h))
        /\ (\A f \in F!Fetch : FetchSound(k, w, f))
  BY DEF Consistent
<1>2. SettlesServer(k, w, w)
  BY DEF SettlesServer, Forgets
<1>3. \A h \in F!Host : SettlesHost(k, w, w, h)
  BY <1>1 DEF SettlesHost
<1>4. \A c \in F!Conn : SettlesLink(w, w, c)
  BY DEF SettlesLink, Forgets
<1>5. \A f \in F!Fetch : SettlesFetch(k, w, w, f)
  BY <1>1 DEF SettlesFetch, FetchSound
<1> QED BY <1>1, <1>2, <1>3, <1>4, <1>5 DEF Settles

\* A fetch that is waited for was.
LEMMA StillWaits ==
    ASSUME NEW k, NEW w, NEW v, NEW f \in F!Fetch, SettlesFetch(k, w, v, f)
    PROVE  /\ Waiting(v, f) => Waiting(w, f)
           /\ Waits(v, f) => Waits(w, f)
  BY DEF SettlesFetch, Waiting, Waits

LEMMA TableTyped ==
    ASSUME NEW t \in Table
    PROVE  DOMAIN t \subseteq Nat /\ \A id \in DOMAIN t : t[id] \in F!Fetch
  BY DEF Table

\* The tables, where they are.
LEMMA Tables ==
    ASSUME NEW n, NEW w \in Worlds(n)
    PROVE  /\ w.server.pending \in Table /\ w.server.nextId \in Nat
           /\ \A c \in F!Conn : w.link[c].pending \in Table /\ w.link[c].nextId \in Nat
  BY DEF Worlds, Rotation, Link

LEMMA ForgetsTransitive ==
    ASSUME NEW k, NEW v, NEW x, NEW a \in Table, NEW b \in Table, NEW c,
           Forgets(v, a, b), Forgets(x, b, c),
           \A f \in F!Fetch : SettlesFetch(k, v, x, f)
    PROVE  Forgets(x, a, c)
<1>1. \A id \in DOMAIN a : a[id] \in F!Fetch
  BY TableTyped
<1>2. ASSUME NEW id \in DOMAIN a, Waits(x, a[id]) PROVE id \in DOMAIN c
  <2>1. Waits(v, a[id])
    BY <1>1, <1>2, StillWaits
  <2>2. id \in DOMAIN b /\ b[id] = a[id]
    BY <2>1 DEF Forgets
  <2> QED BY <1>2, <2>2 DEF Forgets
<1> QED BY <1>2 DEF Forgets

LEMMA SettlesTransitive ==
    ASSUME NEW k \in Copies, NEW w \in Worlds(Len(k)), NEW v, NEW x,
           Settles(k, w, v), Settles(k, v, x)
    PROVE  Settles(k, w, x)
<1>1. v \in Worlds(Len(k)) /\ x \in Worlds(Len(k))
  BY DEF Settles
<1>2. \A f \in F!Fetch : SettlesFetch(k, w, v, f) /\ SettlesFetch(k, v, x, f)
  BY DEF Settles
<1>3. \A f \in F!Fetch : SettlesFetch(k, w, x, f)
  BY <1>2 DEF SettlesFetch, Waiting
<1>4. ASSUME NEW h \in F!Host PROVE SettlesHost(k, w, x, h)
  <2>1. SettlesHost(k, w, v, h) /\ SettlesHost(k, v, x, h)
    BY DEF Settles
  <2> QED BY <2>1 DEF SettlesHost
<1>5. ASSUME NEW c \in F!Conn PROVE SettlesLink(w, x, c)
  <2>1. SettlesLink(w, v, c) /\ SettlesLink(v, x, c)
    BY DEF Settles
  <2>2. w.link[c].pending \in Table /\ v.link[c].pending \in Table
    BY <1>1, Tables
  <2>3. Forgets(x, w.link[c].pending, x.link[c].pending)
    BY <2>1, <2>2, <1>2, ForgetsTransitive DEF SettlesLink
  <2> QED BY <2>1, <2>3 DEF SettlesLink
<1>6. SettlesServer(k, w, x)
  <2>1. SettlesServer(k, w, v) /\ SettlesServer(k, v, x)
    BY DEF Settles
  <2>2. w.server.pending \in Table /\ v.server.pending \in Table
    BY <1>1, Tables
  <2>3. Forgets(x, w.server.pending, x.server.pending)
    BY <2>1, <2>2, <1>2, ForgetsTransitive DEF SettlesServer
  <2>4. ASSUME NEW p \in 1 .. Len(k), NEW h \in F!Host, Published(x, p), k[p].host = h
        PROVE  Published(w, p) \/ Invalidated(x, h)
    <3>1. SettlesHost(k, v, x, h)
      BY DEF Settles
    <3>2. Invalidated(v, h) => Invalidated(x, h)
      BY <3>1 DEF SettlesHost, Invalidated
    <3>3. Published(v, p) \/ Invalidated(x, h)
      BY <2>1, <2>4 DEF SettlesServer
    <3>4. Published(v, p) => Published(w, p) \/ Invalidated(v, h)
      BY <2>1, <2>4 DEF SettlesServer
    <3> QED BY <3>2, <3>3, <3>4
  <2> QED BY <2>1, <2>3, <2>4 DEF SettlesServer
<1> QED BY <1>1, <1>3, <1>4, <1>5, <1>6 DEF Settles

\* What a frame is for does not change.
LEMMA SettlesExpects ==
    ASSUME NEW k, NEW n, NEW w \in Worlds(n), NEW v, Settles(k, w, v), NEW asker \in Asker, NEW id,
           NEW f \in F!Fetch, Expects(w, asker, id, f)
    PROVE  Expects(v, asker, id, f)
<1>1. SettlesFetch(k, w, v, f)
  BY DEF Settles
<1>2. Waits(v, f) => Waits(w, f)
  BY <1>1, StillWaits
<1>3. CASE asker = F!Local
  <2>1. Forgets(v, w.server.pending, v.server.pending) /\ v.server.nextId = w.server.nextId
    BY DEF Settles, SettlesServer
  <2> QED BY <1>2, <1>3, <2>1 DEF Expects, Forgets
<1>4. CASE asker # F!Local
  <2>1. asker \in F!Conn
    BY <1>4 DEF Asker
  <2>2. SettlesLink(w, v, asker)
    BY <2>1 DEF Settles
  <2> QED BY <1>2, <1>4, <2>2 DEF Expects, Forgets, SettlesLink
<1> QED BY <1>3, <1>4

LEMMA SettlesGood ==
    ASSUME NEW k, NEW n, NEW w \in Worlds(n), NEW v, Settles(k, w, v), NEW l \in Lane,
           NEW m \in Frame(n), Good(k, w, l, m)
    PROVE  Good(k, v, l, m)
<1>1. m.tag \in F!Fetch /\ m.for \in Asker
  BY DEF Frame, Request, Answer
<1>2. Bearer(l, m) \in Asker
  BY <1>1 DEF Bearer, Lane, Asker
<1>3. Expects(v, Bearer(l, m), m.id, m.tag)
  BY <1>1, <1>2, SettlesExpects DEF Good
<1>4. SettlesFetch(k, w, v, m.tag)
  BY <1>1 DEF Settles
<1>5. Waiting(v, m.tag) => Waiting(w, m.tag) /\ v.fetch[m.tag].copy = w.fetch[m.tag].copy
  BY <1>1, <1>4, StillWaits DEF SettlesFetch
<1> QED BY <1>3, <1>5 DEF Good

LEMMA QueuesTyped ==
    ASSUME NEW n, NEW w \in Worlds(n), NEW l \in Lane
    PROVE  /\ Queue(w, l) \in Seq(Frame(n))
           /\ \A i \in DOMAIN Queue(w, l) : Queue(w, l)[i] \in Frame(n)
                /\ Queue(w, l)[i].tag \in F!Fetch
<1>1. l[2] \in F!Conn
  BY DEF Lane
<1>2. w.link[l[2]] \in Link(n)
  BY <1>1 DEF Worlds
<1>3. Queue(w, l) \in Seq(Frame(n))
  BY <1>2 DEF Queue, Link
<1>4. \A m \in Frame(n) : m.tag \in F!Fetch
  BY DEF Frame, Request, Answer
<1> QED BY <1>3, <1>4

LEMMA SettlesQueues ==
    ASSUME NEW k, NEW w, NEW v, Settles(k, w, v)
    PROVE  /\ \A l \in Lane : Queue(v, l) = Queue(w, l)
           /\ \A f : InQueue(v, f) <=> InQueue(w, f)
<1>1. ASSUME NEW l \in Lane PROVE Queue(v, l) = Queue(w, l)
  <2>1. l[2] \in F!Conn
    BY DEF Lane
  <2>2. SettlesLink(w, v, l[2])
    BY <2>1 DEF Settles
  <2> QED BY <2>2 DEF Queue, SettlesLink
<1>2. ASSUME NEW f PROVE InQueue(v, f) <=> InQueue(w, f)
  BY <1>1 DEF InQueue
<1> QED BY <1>1, <1>2

LEMMA SettlesCaches ==
    ASSUME NEW k \in Copies, NEW w, NEW v, Settles(k, w, v),
           w \in Worlds(Len(k)), Sources(k, w), Cached(k, w), Locks(w)
    PROVE  Sources(k, v) /\ Cached(k, v) /\ Locks(v)
<1>1. \A h \in F!Host : SettlesHost(k, w, v, h)
  BY DEF Settles
<1>2. Sources(k, v)
  BY <1>1 DEF Sources, SettlesHost
<1>3. \A f \in F!Fetch : SettlesFetch(k, w, v, f)
  BY DEF Settles
<1>4. \A h \in F!Host : w.host[h].lock # None => w.host[h].lock.by \in F!Fetch
  BY DEF Worlds, Machinery, Lock
<1>5. Locks(v)
  <2> SUFFICES ASSUME NEW h \in F!Host, v.host[h].lock # None
               PROVE  v.fetch[v.host[h].lock.by].serve # None
                      /\ v.fetch[v.host[h].lock.by].serve.host = h
    BY DEF Locks
  <2>1. w.host[h].lock # None /\ v.host[h].lock.by = w.host[h].lock.by
    BY <1>1 DEF SettlesHost
  <2>2. SettlesFetch(k, w, v, w.host[h].lock.by)
    BY <2>1, <1>3, <1>4
  <2>3. w.fetch[w.host[h].lock.by].serve # None /\ w.fetch[w.host[h].lock.by].serve.host = h
    BY <2>1 DEF Locks
  <2> QED BY <2>1, <2>2, <2>3 DEF SettlesFetch
<1>6. ASSUME NEW h \in F!Host, NEW copy, Newest(k, w, h, copy), ~Invalidated(v, h)
      PROVE  Newest(k, v, h, copy)
  BY <1>6 DEF Newest, Settles, SettlesServer
<1>7. ASSUME NEW h \in F!Host, v.host[h].served # None
      PROVE  MadeAt(k, v.host[h].served, h) /\ Newest(k, v, h, v.host[h].served)
  <2>1. v.host[h].served = w.host[h].served
    BY <1>1, <1>7 DEF SettlesHost
  <2>2. MadeAt(k, v.host[h].served, h) /\ Newest(k, w, h, v.host[h].served)
    BY <2>1, <1>7 DEF Cached
  <2>3. ~Invalidated(v, h)
    BY <1>7 DEF Invalidated
  <2> QED BY <2>2, <2>3, <1>6
<1>8. ASSUME NEW h \in F!Host, v.host[h].lock # None, v.host[h].lock.got \notin {0, None}
      PROVE  /\ MadeAt(k, v.host[h].lock.got, h)
             /\ v.host[h].lock.fresh => Newest(k, v, h, v.host[h].lock.got)
             /\ Waiting(v, v.host[h].lock.by) =>
                    Follows(k, v.host[h].lock.got, v.fetch[v.host[h].lock.by].copy)
  <2>1. /\ w.host[h].lock # None
        /\ v.host[h].lock.by = w.host[h].lock.by
        /\ v.host[h].lock.got = w.host[h].lock.got
        /\ v.host[h].lock.fresh => w.host[h].lock.fresh
    BY <1>1, <1>8 DEF SettlesHost
  <2>2. /\ MadeAt(k, w.host[h].lock.got, h)
        /\ w.host[h].lock.fresh => Newest(k, w, h, w.host[h].lock.got)
        /\ Waiting(w, w.host[h].lock.by) =>
               Follows(k, w.host[h].lock.got, w.fetch[w.host[h].lock.by].copy)
    BY <2>1, <1>8 DEF Cached
  <2>3. v.host[h].lock.fresh => ~Invalidated(v, h)
    BY <1>8 DEF Invalidated
  <2>4. Waiting(v, v.host[h].lock.by) =>
            /\ Waiting(w, w.host[h].lock.by)
            /\ v.fetch[v.host[h].lock.by].copy = w.fetch[w.host[h].lock.by].copy
    BY <2>1, <1>3, <1>4, StillWaits DEF SettlesFetch
  <2>5. v.host[h].lock.fresh => Newest(k, v, h, v.host[h].lock.got)
    BY <2>1, <2>2, <2>3, <1>6
  <2> QED BY <2>1, <2>2, <2>4, <2>5
<1> QED BY <1>2, <1>5, <1>7, <1>8 DEF Cached

LEMMA SettlesSound ==
    ASSUME NEW k \in Copies, NEW w, NEW v, NEW hand, Consistent(k, w, hand), Settles(k, w, v)
    PROVE  Consistent(k, v, hand)
<1>0. w \in Worlds(Len(k)) /\ v \in Worlds(Len(k))
  BY DEF Consistent, Settles
<1>1. /\ \A l \in Lane : Queue(v, l) = Queue(w, l)
      /\ \A f : InQueue(v, f) <=> InQueue(w, f)
  BY SettlesQueues
<1>2. \A f \in F!Fetch : SettlesFetch(k, w, v, f)
  BY DEF Settles
<1>3. \A c \in F!Conn : SettlesLink(w, v, c)
  BY DEF Settles
<1>4. Wired(v)
  <2>1. Wired(w) /\ v.server.listed \subseteq w.server.listed /\ w.server.listed \subseteq F!Conn
    BY <1>0 DEF Consistent, Settles, SettlesServer, Worlds, Rotation
  <2> QED BY <2>1, <1>3 DEF Wired, SettlesLink
<1>5. Mail(k, v)
  <2> SUFFICES ASSUME NEW l \in Lane, NEW i \in DOMAIN Queue(w, l)
               PROVE  Good(k, v, l, Queue(w, l)[i])
    BY <1>1 DEF Mail
  <2>1. Queue(w, l)[i] \in Frame(Len(k))
    BY <1>0, QueuesTyped
  <2>2. Good(k, w, l, Queue(w, l)[i])
    BY DEF Consistent, Mail
  <2> QED BY <1>0, <2>1, <2>2, SettlesGood
<1>6. Serves(v)
  <2> SUFFICES ASSUME NEW f \in F!Fetch, v.fetch[f].serve # None
               PROVE  Expects(v, ServedFor(v.fetch[f].serve), v.fetch[f].serve.id, f)
    BY DEF Serves
  <2>1. v.fetch[f].serve = w.fetch[f].serve
    BY <1>2 DEF SettlesFetch
  <2>2. w.fetch[f].serve \in Serve
    BY <1>0, <2>1 DEF Worlds, Task
  <2>3. ServedFor(w.fetch[f].serve) \in Asker
    BY <2>2 DEF Serve, ServedFor, Asker
  <2>4. Expects(w, ServedFor(w.fetch[f].serve), w.fetch[f].serve.id, f)
    BY <2>1 DEF Consistent, Serves
  <2> QED BY <1>0, <2>1, <2>3, <2>4, SettlesExpects
<1>7. Alone(v)
  <2>1. Alone(w)
    BY DEF Consistent
  <2>2. \A f \in F!Fetch : /\ v.fetch[f].queued = w.fetch[f].queued
                           /\ v.fetch[f].serve = w.fetch[f].serve
                           /\ v.fetch[f].stage = "unused" => w.fetch[f].stage = "unused"
    BY <1>2 DEF SettlesFetch
  <2> QED BY <2>1, <2>2, <1>1 DEF Alone
<1>8. Tracked(v, hand)
  <2>1. Tracked(w, hand)
    BY DEF Consistent
  <2>2. \A f \in F!Fetch : /\ v.fetch[f].queued = w.fetch[f].queued
                           /\ v.fetch[f].serve = w.fetch[f].serve
                           /\ v.fetch[f].stage = "unused" => w.fetch[f].stage = "unused"
                           /\ Waits(v, f) => Waits(w, f)
    BY <1>2, StillWaits DEF SettlesFetch
  <2> QED BY <2>1, <2>2, <1>1 DEF Tracked
<1>9. Sources(k, v) /\ Cached(k, v) /\ Locks(v)
  BY <1>0, SettlesCaches DEF Consistent
<1>10. \A h \in F!Host : OfferSound(k, v, h)
  BY DEF Settles, SettlesHost
<1>11. \A f \in F!Fetch : FetchSound(k, v, f)
  BY <1>2, StillWaits DEF Consistent, FetchSound, SettlesFetch
<1> QED BY <1>0, <1>4, <1>5, <1>6, <1>7, <1>8, <1>9, <1>10, <1>11 DEF Consistent

\* A fetch in hand that nobody waits for can be dropped.
LEMMA Dropped ==
    ASSUME NEW k, NEW w, NEW f \in F!Fetch, Consistent(k, w, {f}), ~Waits(w, f)
    PROVE  Consistent(k, w, {})
<1>1. Tracked(w, {})
  BY DEF Consistent, Tracked
<1> QED BY <1>1 DEF Consistent

-----------------------------------------------------------------------------
(* The requester's side.                                                   *)

Known == Len(made)

LEMMA SameOlder ==
    ASSUME NEW content, NEW copy
    PROVE  F!NotOlder(content, copy) = Follows(made, content.copy, copy)
  BY DEF F!NotOlder, Follows

LEMMA OverTyped ==
    ASSUME NEW n \in Nat, NEW r \in Task(n), NEW wrong \in BOOLEAN, NEW content
    PROVE  /\ F!Over(r, wrong, content) \in Task(n)
           /\ F!Over(r, wrong, content).stage = "over"
           /\ F!Over(r, wrong, content).queued = r.queued
           /\ F!Over(r, wrong, content).serve = r.serve
           /\ F!Over(r, wrong, content).type = r.type
           /\ F!Over(r, wrong, content).wrong = wrong
           /\ Follows(made, content.copy, r.copy) => ~F!Over(r, wrong, content).stale
<1>1. F!Local \in F!Host
  BY DEF F!Host
<1>2. F!NotOlder(content, r.copy) \in BOOLEAN
  BY DEF F!NotOlder
<1> DEFINE o == F!Over(r, wrong, content)
           older == ~F!NotOlder(content, r.copy)
<1>3. o = [r EXCEPT !.stage = "over", !.host = IF r.queued THEN r.host ELSE F!Local,
                    !.copy = 0, !.lost = FALSE, !.wrong = wrong, !.stale = older]
  BY Zenon DEF F!Over
<1>4. older \in BOOLEAN /\ (F!NotOlder(content, r.copy) => older = FALSE)
  BY <1>2
<1> HIDE DEF older
<1>5. /\ o = [stage |-> "over", queued |-> r.queued,
               host |-> IF r.queued THEN r.host ELSE F!Local, type |-> r.type,
               copy |-> 0, serve |-> r.serve, lost |-> FALSE, wrong |-> wrong,
               stale |-> older]
      /\ r.queued \in BOOLEAN /\ r.host \in F!Host /\ r.type \in Mime
      /\ r.serve \in Serve \union {None}
  BY <1>3 DEF Task
<1>6. o \in Task(n)
  BY <1>1, <1>4, <1>5 DEF Task
<1>7. /\ o.stage = "over" /\ o.queued = r.queued /\ o.serve = r.serve
      /\ o.type = r.type /\ o.wrong = wrong
      /\ o.stale = older
  BY <1>5
<1> HIDE DEF o
<1>8. F!NotOlder(content, r.copy) => ~o.stale
  BY <1>4, <1>7
<1> QED BY <1>6, <1>7, <1>8, SameOlder DEF o

LEMMA OverRight ==
    ASSUME NEW n \in Nat, NEW r \in Task(n), NEW content, Follows(made, content.copy, r.copy)
    PROVE  /\ F!Over(r, FALSE, content) \in Task(n)
           /\ F!Over(r, FALSE, content).stage = "over"
           /\ F!Over(r, FALSE, content).queued = r.queued
           /\ F!Over(r, FALSE, content).serve = r.serve
           /\ F!Over(r, FALSE, content).type = r.type
           /\ ~F!Over(r, FALSE, content).wrong
           /\ ~F!Over(r, FALSE, content).stale
<1>1. \A b \in BOOLEAN :
           /\ F!Over(r, b, content) \in Task(n)
           /\ F!Over(r, b, content).stage = "over"
           /\ F!Over(r, b, content).queued = r.queued
           /\ F!Over(r, b, content).serve = r.serve
           /\ F!Over(r, b, content).type = r.type
           /\ F!Over(r, b, content).wrong = b
           /\ ~F!Over(r, b, content).stale
  BY OverTyped
<1>2. FALSE \in BOOLEAN
  OBVIOUS
<1> QED BY ONLY <1>1, <1>2, Zenon

LEMMA OfferKept ==
    ASSUME NEW n, NEW k, NEW w \in Worlds(n), NEW v, NEW h \in F!Host, OfferSound(k, w, h),
           v.host[h].offer = w.host[h].offer,
           \A f \in F!Fetch : SettlesFetch(k, w, v, f)
    PROVE  OfferSound(k, v, h)
<1>1. w.host[h].offer # None => w.host[h].offer.fetches \subseteq F!Fetch
  BY DEF Worlds, Machinery, Offer
<1> QED BY <1>1, StillWaits DEF OfferSound, SettlesFetch

\* Nothing but fetches change.
LEMMA FetchesSettle ==
    ASSUME NEW k, NEW w, NEW v, NEW hand, Consistent(k, w, hand), v \in Worlds(Len(k)),
           v.server = w.server, v.host = w.host, v.link = w.link,
           \A f \in F!Fetch : SettlesFetch(k, w, v, f)
    PROVE  Settles(k, w, v)
<1>0. w \in Worlds(Len(k))
  BY DEF Consistent
<1>1. \A p : Published(v, p) => Published(w, p)
  BY StillWaits DEF Published, SettlesFetch
<1>2. SettlesServer(k, w, v)
  BY <1>1 DEF SettlesServer, Forgets
<1>3. ASSUME NEW h \in F!Host PROVE SettlesHost(k, w, v, h)
  <2>1. OfferSound(k, v, h)
    BY <1>0, OfferKept DEF Consistent
  <2> QED BY <2>1 DEF SettlesHost
<1>4. \A c \in F!Conn : SettlesLink(w, v, c)
  BY DEF SettlesLink, Forgets
<1> QED BY <1>2, <1>3, <1>4 DEF Settles

LEMMA Gone == F!Gone \in [copy : {0}, unread : BOOLEAN] /\ \A n \in Nat : F!Gone \in Content(n)
  BY DEF F!Gone, Content

LEMMA AbandonFields ==
    ASSUME NEW n \in Nat, NEW w \in Worlds(n), NEW fs
    PROVE  /\ F!Abandon(w, fs) \in Worlds(n)
           /\ F!Abandon(w, fs).server = w.server
           /\ F!Abandon(w, fs).host = w.host
           /\ F!Abandon(w, fs).link = w.link
           /\ \A f \in F!Fetch : F!Abandon(w, fs).fetch[f] =
                  IF f \in fs /\ Waiting(w, f) THEN F!Over(w.fetch[f], FALSE, F!Gone)
                  ELSE w.fetch[f]
<1>1. \A f \in F!Fetch : F!Over(w.fetch[f], FALSE, F!Gone) \in Task(n)
  BY OverTyped DEF Worlds
<1> DEFINE after == [f \in F!Fetch |-> IF f \in fs /\ Waiting(w, f)
                        THEN F!Over(w.fetch[f], FALSE, F!Gone) ELSE w.fetch[f]]
<1>2. after \in [F!Fetch -> Task(n)]
  BY <1>1 DEF Worlds
<1>3. F!Abandon(w, fs) = [w EXCEPT !.fetch = after]
  BY DEF F!Abandon, F!Pending, Waiting
<1> HIDE DEF after
<1>4. /\ F!Abandon(w, fs) \in Worlds(n)
      /\ F!Abandon(w, fs).server = w.server
      /\ F!Abandon(w, fs).host = w.host
      /\ F!Abandon(w, fs).link = w.link
      /\ F!Abandon(w, fs).fetch = after
  BY <1>2, <1>3 DEF Worlds
<1> QED BY <1>4 DEF after

LEMMA KnownNat == ASSUME made \in Copies PROVE Known \in Nat
  BY DEF Known, Copies

LEMMA AbandonSettles ==
    ASSUME made \in Copies, NEW w, NEW hand, Consistent(made, w, hand), NEW fs
    PROVE  /\ Settles(made, w, F!Abandon(w, fs))
           /\ \A f \in fs \intersect F!Fetch : ~Waiting(F!Abandon(w, fs), f)
<1>0. w \in Worlds(Known) /\ Known \in Nat
  BY KnownNat DEF Consistent, Known
<1> DEFINE v == F!Abandon(w, fs)
<1>1. /\ v \in Worlds(Known) /\ v.server = w.server /\ v.host = w.host /\ v.link = w.link
      /\ \A f \in F!Fetch : v.fetch[f] =
             IF f \in fs /\ Waiting(w, f) THEN F!Over(w.fetch[f], FALSE, F!Gone)
             ELSE w.fetch[f]
  BY <1>0, AbandonFields
<1> HIDE DEF v
<1>2. ASSUME NEW f \in F!Fetch
      PROVE  SettlesFetch(made, w, v, f) /\ (f \in fs => ~Waiting(v, f))
  <2>1. w.fetch[f] \in Task(Known) /\ FetchSound(made, w, f)
    BY <1>0 DEF Worlds, Consistent
  <2>2. Follows(made, F!Gone.copy, w.fetch[f].copy)
    BY DEF Follows, F!Gone
  <2> DEFINE o == F!Over(w.fetch[f], FALSE, F!Gone)
  <2>3. /\ o.stage = "over" /\ o.queued = w.fetch[f].queued /\ o.serve = w.fetch[f].serve
        /\ ~o.wrong /\ ~o.stale
    BY <1>0, <2>1, <2>2, OverRight
  <2>4. \/ v.fetch[f] = o /\ Waiting(w, f)
        \/ v.fetch[f] = w.fetch[f] /\ ~(f \in fs /\ Waiting(w, f))
    BY <1>1
  <2> HIDE DEF o
  <2> QED BY <2>1, <2>3, <2>4 DEF SettlesFetch, FetchSound, Waiting
<1>3. Settles(made, w, v)
  BY <1>1, <1>2, FetchesSettle DEF Known
<1> QED BY <1>2, <1>3 DEF v

LEMMA LoseFields ==
    ASSUME NEW n \in Nat, NEW w \in Worlds(n), NEW fs
    PROVE  /\ F!Lose(w, fs) \in Worlds(n)
           /\ F!Lose(w, fs).server = w.server
           /\ F!Lose(w, fs).host = w.host
           /\ F!Lose(w, fs).link = w.link
           /\ \A f \in F!Fetch : F!Lose(w, fs).fetch[f] =
                  IF f \in fs /\ Waiting(w, f) THEN [w.fetch[f] EXCEPT !.lost = TRUE]
                  ELSE w.fetch[f]
<1> DEFINE after == [f \in F!Fetch |-> IF f \in fs /\ Waiting(w, f)
                        THEN [w.fetch[f] EXCEPT !.lost = TRUE] ELSE w.fetch[f]]
<1>1. \A f \in F!Fetch : [w.fetch[f] EXCEPT !.lost = TRUE] \in Task(n) /\ w.fetch[f] \in Task(n)
  BY DEF Worlds, Task
<1>2. after \in [F!Fetch -> Task(n)]
  BY <1>1
<1>3. F!Lose(w, fs) = [w EXCEPT !.fetch = after]
  BY DEF F!Lose, F!Pending, Waiting
<1> HIDE DEF after
<1>4. /\ F!Lose(w, fs) \in Worlds(n)
      /\ F!Lose(w, fs).server = w.server
      /\ F!Lose(w, fs).host = w.host
      /\ F!Lose(w, fs).link = w.link
      /\ F!Lose(w, fs).fetch = after
  BY <1>2, <1>3 DEF Worlds
<1> QED BY <1>4 DEF after

LEMMA LoseSettles ==
    ASSUME made \in Copies, NEW w, NEW hand, Consistent(made, w, hand), NEW fs
    PROVE  /\ Settles(made, w, F!Lose(w, fs))
           /\ \A f \in fs \intersect F!Fetch : ~Waits(F!Lose(w, fs), f)
<1>0. w \in Worlds(Known) /\ Known \in Nat
  BY KnownNat DEF Consistent, Known
<1> DEFINE v == F!Lose(w, fs)
<1>1. /\ v \in Worlds(Known) /\ v.server = w.server /\ v.host = w.host /\ v.link = w.link
      /\ \A f \in F!Fetch : v.fetch[f] =
             IF f \in fs /\ Waiting(w, f) THEN [w.fetch[f] EXCEPT !.lost = TRUE]
             ELSE w.fetch[f]
  BY <1>0, LoseFields
<1> HIDE DEF v
<1>2. ASSUME NEW f \in F!Fetch
      PROVE  SettlesFetch(made, w, v, f) /\ (f \in fs => ~Waits(v, f))
  <2>1. w.fetch[f] \in Task(Known) /\ FetchSound(made, w, f)
    BY <1>0 DEF Worlds, Consistent
  <2> DEFINE o == [w.fetch[f] EXCEPT !.lost = TRUE]
  <2>2. /\ o.stage = w.fetch[f].stage /\ o.queued = w.fetch[f].queued
        /\ o.serve = w.fetch[f].serve /\ o.copy = w.fetch[f].copy
        /\ o.wrong = w.fetch[f].wrong /\ o.stale = w.fetch[f].stale /\ o.lost
    BY <2>1 DEF Task
  <2>3. \/ v.fetch[f] = o
        \/ v.fetch[f] = w.fetch[f] /\ ~(f \in fs /\ Waiting(w, f))
    BY <1>1
  <2> HIDE DEF o
  <2> QED BY <2>1, <2>2, <2>3 DEF SettlesFetch, FetchSound, Waiting, Waits
<1>3. Settles(made, w, v)
  BY <1>1, <1>2, FetchesSettle DEF Known
<1> QED BY <1>2, <1>3 DEF v

-----------------------------------------------------------------------------
(* Advertisements.                                                         *)

\* What may happen to a machine when nothing is published.
Readvertises(w, v, h) ==
    /\ v.host[h].app \in {w.host[h].app, 0}
    /\ v.host[h].news \in {w.host[h].news, 0, None}
    /\ v.host[h].local \in {w.host[h].local, None}
    /\ v.host[h].served \in {w.host[h].served, None}
    /\ v.host[h].lock # None =>
          /\ w.host[h].lock # None
          /\ v.host[h].lock.by = w.host[h].lock.by
          /\ v.host[h].lock.got = w.host[h].lock.got
          /\ v.host[h].lock.fresh => w.host[h].lock.fresh
    /\ \/ v.host[h].offer \in {w.host[h].offer, None}
       \/ /\ v.host[h].offer.cache = None /\ v.host[h].offer.fetches = {}
          /\ Published(w, v.host[h].offer.copy)

LEMMA HostsSettle ==
    ASSUME NEW k, NEW w, NEW v, NEW hand, Consistent(k, w, hand), v \in Worlds(Len(k)),
           v.server = w.server, v.link = w.link, v.fetch = w.fetch,
           \A h \in F!Host : Readvertises(w, v, h),
           None \notin Int
    PROVE  Settles(k, w, v)
<1>0. w \in Worlds(Len(k))
  BY DEF Consistent
<1>1. \A f \in F!Fetch : SettlesFetch(k, w, v, f)
  BY DEF Consistent, FetchSound, SettlesFetch
<1>2. ASSUME NEW p \in 1 .. Len(k), Published(v, p) PROVE Published(w, p)
  <2>1. CASE \E h \in F!Host : v.host[h].offer # None /\ v.host[h].offer.copy = p
    BY <2>1 DEF Readvertises, Published
  <2>2. CASE \E h \in F!Host : v.host[h].local = p
    <3>1. p # None
      OBVIOUS
    <3> QED BY <2>2, <3>1 DEF Readvertises, Published
  <2>3. CASE v.server.target # None /\ v.server.target.copy = p
    BY <2>3 DEF Published
  <2>4. CASE \E f \in F!Fetch : Waiting(v, f) /\ v.fetch[f].copy = p
    BY <2>4 DEF Published, Waiting
  <2> QED BY <1>2, <2>1, <2>2, <2>3, <2>4 DEF Published
<1>3. SettlesServer(k, w, v)
  BY <1>2 DEF SettlesServer, Forgets
<1>4. ASSUME NEW h \in F!Host PROVE SettlesHost(k, w, v, h)
  <2>1. Readvertises(w, v, h) /\ OfferSound(k, w, h)
    BY DEF Consistent
  <2>2. CASE v.host[h].offer = w.host[h].offer
    BY <1>0, <1>1, <2>1, <2>2, OfferKept DEF Readvertises, SettlesHost
  <2>3. CASE v.host[h].offer = None
    BY <2>1, <2>3 DEF Readvertises, SettlesHost, OfferSound
  <2>4. CASE v.host[h].offer.cache = None /\ v.host[h].offer.fetches = {}
    BY <2>1, <2>4 DEF Readvertises, SettlesHost, OfferSound
  <2> QED BY <2>1, <2>2, <2>3, <2>4 DEF Readvertises
<1>5. \A c \in F!Conn : SettlesLink(w, v, c)
  BY DEF SettlesLink, Forgets
<1> QED BY <1>1, <1>3, <1>4, <1>5 DEF Settles

\* What may happen to the rotation.
LEMMA RotationSettles ==
    ASSUME NEW k, NEW w, NEW v, NEW hand, Consistent(k, w, hand), v \in Worlds(Len(k)),
           v.host = w.host, v.link = w.link, v.fetch = w.fetch,
           v.server.listed \subseteq w.server.listed,
           v.server.nextId = w.server.nextId,
           Forgets(v, w.server.pending, v.server.pending),
           v.server.target \in {w.server.target, None}
    PROVE  Settles(k, w, v)
<1>0. w \in Worlds(Len(k))
  BY DEF Consistent
<1>1. \A f \in F!Fetch : SettlesFetch(k, w, v, f)
  BY DEF Consistent, FetchSound, SettlesFetch
<1>2. \A p : Published(v, p) => Published(w, p)
  BY DEF Published, Waiting
<1>3. SettlesServer(k, w, v)
  BY <1>2 DEF SettlesServer
<1>4. \A h \in F!Host : SettlesHost(k, w, v, h)
  BY <1>0, <1>1, OfferKept DEF Consistent, SettlesHost
<1>5. \A c \in F!Conn : SettlesLink(w, v, c)
  BY DEF SettlesLink, Forgets
<1> QED BY <1>1, <1>3, <1>4, <1>5 DEF Settles

LEMMA StoreTypesFields ==
    ASSUME NEW n \in Nat, NEW w \in Worlds(n), NEW h \in F!Host, NEW copy \in 0 .. n
    PROVE  /\ F!StoreTypes(w, h, copy) \in Worlds(n)
           /\ F!StoreTypes(w, h, copy).server = w.server
           /\ F!StoreTypes(w, h, copy).link = w.link
           /\ F!StoreTypes(w, h, copy).fetch = w.fetch
           /\ \A g \in F!Host \ {h} : F!StoreTypes(w, h, copy).host[g] = w.host[g]
           /\ copy = 0 \/ Published(w, copy) => Readvertises(w, F!StoreTypes(w, h, copy), h)
<1>1. PICK old \in Machinery(n) : old = w.host[h]
  BY DEF Worlds
<1>2. PICK serving \in BOOLEAN : serving = (h # F!Local)
  BY Zenon
<1>3. PICK offer \in Offer(n) \union {None} :
          offer = IF copy = 0 THEN None
                  ELSE [copy |-> copy, cache |-> None, fetches |-> {}]
  <2>1. CASE copy = 0
    BY <2>1
  <2>2. CASE copy # 0
    <3>1. [copy |-> copy, cache |-> None, fetches |-> {}] \in Offer(n)
      BY <2>2 DEF Offer
    <3> QED BY <2>2, <3>1
  <2> QED BY <2>1, <2>2
<1>4. PICK news \in 0 .. n \union {None} :
          news = IF copy = 0 /\ old.app # 0 THEN 0 ELSE old.news
  BY DEF Machinery
<1>5. PICK new : new = [old EXCEPT !.app = 0, !.local = None, !.serving = serving,
                                   !.news = news, !.offer = offer]
  OBVIOUS
<1>a. F!StoreTypes(w, h, copy) = [w EXCEPT !.host[h] = new]
  BY <1>1, <1>2, <1>3, <1>4, <1>5, Zenon DEF F!StoreTypes
<1>6. /\ new \in Machinery(n) /\ new.app = 0 /\ new.local = None /\ new.news = news
      /\ new.offer = offer /\ new.served = old.served /\ new.lock = old.lock
  <2>1. /\ new = [app |-> 0, news |-> news, local |-> None, serving |-> serving,
                 offer |-> offer, served |-> old.served, failed |-> old.failed,
                 lock |-> old.lock]
        /\ old.served \in 1 .. n \union {None} /\ old.failed \in Mime
        /\ old.lock \in Lock(n) \union {None}
    BY <1>5 DEF Machinery
  <2>2. new \in Machinery(n)
    BY ONLY n \in Nat, <2>1, offer \in Offer(n) \union {None}, news \in 0 .. n \union {None},
            serving \in BOOLEAN DEF Machinery
  <2> QED BY <2>1, <2>2
<1> DEFINE v == F!StoreTypes(w, h, copy)
<1>7. /\ v \in Worlds(n) /\ v.server = w.server /\ v.link = w.link /\ v.fetch = w.fetch
      /\ \A g \in F!Host \ {h} : v.host[g] = w.host[g]
      /\ v.host[h] = new
  BY <1>a, <1>6 DEF Worlds
<1> HIDE DEF v
<1>8. copy = 0 => offer = None
  BY <1>3
<1>9. copy # 0 => offer.cache = None /\ offer.fetches = {} /\ offer.copy = copy
  BY <1>3
<1>10. news \in {old.news, 0}
  BY <1>4
<1>11. copy = 0 \/ Published(w, copy) => Readvertises(w, v, h)
  BY <1>1, <1>6, <1>7, <1>8, <1>9, <1>10 DEF Readvertises
<1> QED BY <1>7, <1>11 DEF v

LEMMA StoreTypesSettles ==
    ASSUME made \in Copies, NEW w, NEW hand, Consistent(made, w, hand),
           NEW h \in F!Host, NEW copy \in 0 .. Known, copy = 0 \/ Published(w, copy)
    PROVE  Settles(made, w, F!StoreTypes(w, h, copy))
<1>0. w \in Worlds(Known) /\ Known \in Nat
  BY KnownNat DEF Consistent, Known
<1> DEFINE v == F!StoreTypes(w, h, copy)
<1>1. /\ v \in Worlds(Known) /\ v.server = w.server /\ v.link = w.link /\ v.fetch = w.fetch
      /\ \A g \in F!Host \ {h} : v.host[g] = w.host[g]
      /\ Readvertises(w, v, h)
  BY <1>0, StoreTypesFields
<1> HIDE DEF v
<1>2. \A g \in F!Host : Readvertises(w, v, g)
  BY <1>1 DEF Readvertises
<1>3. Settles(made, w, v)
  BY <1>1, <1>2, HostsSettle, HandoffAssumption DEF Known
<1> QED BY <1>3 DEF v

\* Where the input may be.
Focus(w) == w.server.listed \union {F!Local}

LEMMA AnnounceToSettles ==
    ASSUME made \in Copies, NEW w, NEW hand, Consistent(made, w, hand),
           NEW current \in Focus(w)
    PROVE  Settles(made, w, F!AnnounceTo(w, current))
<1>0. w \in Worlds(Known) /\ Known \in Nat
  BY KnownNat DEF Consistent, Known
<1>1. CASE w.server.target = None \/ w.server.target.source = current
           \/ (current # F!Local /\ ~w.link[current].open)
  BY <1>1, SettlesReflexive DEF F!AnnounceTo
<1>2. CASE ~(w.server.target = None \/ w.server.target.source = current
             \/ (current # F!Local /\ ~w.link[current].open))
  <2>1. F!AnnounceTo(w, current) = F!StoreTypes(w, F!HostOf(w, current), w.server.target.copy)
    BY <1>2, Zenon DEF F!AnnounceTo
  <2>2. w.server.target \in Offerer(Known)
    BY <1>0, <1>2 DEF Worlds, Rotation
  <2>3. w.server.target.copy \in 0 .. Known /\ Published(w, w.server.target.copy)
    BY <1>0, <1>2, <2>2 DEF Offerer, Published
  <2>4. F!HostOf(w, current) \in F!Host
    <3>1. CASE current = F!Local
      BY <3>1 DEF F!HostOf, F!Host
    <3>2. CASE current \in w.server.listed /\ current # F!Local
      <4>1. w.link[current].machine # None /\ current \in F!Conn
        BY <1>0, <3>2 DEF Consistent, Wired, Worlds, Rotation
      <4>2. w.link[current].machine \in Machine
        BY <1>0, <4>1 DEF Worlds, Link
      <4> QED BY <3>2, <4>2 DEF F!HostOf, F!Host
    <3> QED BY <3>1, <3>2 DEF Focus
  <2> QED BY <2>1, <2>3, <2>4, StoreTypesSettles
<1> QED BY <1>1, <1>2

LEMMA InvalidateFields ==
    ASSUME NEW n \in Nat, NEW w \in Worlds(n), NEW h \in F!Host
    PROVE  /\ F!Invalidate(w, h) \in Worlds(n)
           /\ F!Invalidate(w, h).server = w.server
           /\ F!Invalidate(w, h).link = w.link
           /\ F!Invalidate(w, h).fetch = w.fetch
           /\ \A g \in F!Host : Readvertises(w, F!Invalidate(w, h), g)
           /\ Invalidated(F!Invalidate(w, h), h)
           /\ \A g \in F!Host :
                 /\ F!Invalidate(w, h).host[g].app = w.host[g].app
                 /\ F!Invalidate(w, h).host[g].local = w.host[g].local
                 /\ F!Invalidate(w, h).host[g].news = w.host[g].news
                 /\ F!Invalidate(w, h).host[g].offer = w.host[g].offer
<1>1. PICK old \in Machinery(n) : old = w.host[h]
  BY DEF Worlds
<1>2. PICK lock \in Lock(n) \union {None} :
          lock = IF old.lock = None THEN None ELSE [old.lock EXCEPT !.fresh = FALSE]
  <2>1. CASE old.lock = None
    BY <2>1
  <2>2. CASE old.lock # None
    <3>1. PICK o \in Lock(n) : o = old.lock
      BY <2>2 DEF Machinery
    <3>2. [o EXCEPT !.fresh = FALSE] \in Lock(n)
      BY <3>1 DEF Lock
    <3> QED BY <2>2, <3>1, <3>2
  <2> QED BY <2>1, <2>2
<1>3. lock # None => /\ old.lock # None
                     /\ lock.by = old.lock.by /\ lock.got = old.lock.got /\ ~lock.fresh
  <2>1. CASE old.lock # None
    <3>1. PICK o \in Lock(n) : o = old.lock
      BY <2>1 DEF Machinery
    <3>2. lock = [o EXCEPT !.fresh = FALSE]
      BY <1>2, <2>1, <3>1
    <3> QED BY <2>1, <3>1, <3>2 DEF Lock
  <2> QED BY <1>2, <2>1
<1>4. PICK new : new = [old EXCEPT !.served = None, !.failed = None, !.lock = lock]
  OBVIOUS
<1>5. F!Invalidate(w, h) = [w EXCEPT !.host[h] = new]
  BY <1>1, <1>2, <1>4, Zenon DEF F!Invalidate
<1>6. /\ new \in Machinery(n) /\ new.served = None /\ new.lock = lock /\ new.app = old.app
      /\ new.news = old.news /\ new.local = old.local /\ new.offer = old.offer
  <2>1. /\ new = [app |-> old.app, news |-> old.news, local |-> old.local,
                 serving |-> old.serving, offer |-> old.offer, served |-> None,
                 failed |-> None, lock |-> lock]
        /\ old.app \in 0 .. n /\ old.news \in 0 .. n \union {None}
        /\ old.local \in 0 .. n \union {None} /\ old.offer \in Offer(n) \union {None}
        /\ old.serving \in BOOLEAN
    BY <1>4 DEF Machinery
  <2>2. new \in Machinery(n)
    BY ONLY <2>1, lock \in Lock(n) \union {None} DEF Machinery, Mime
  <2> QED BY <2>1, <2>2
<1> DEFINE v == F!Invalidate(w, h)
<1>7. /\ v \in Worlds(n) /\ v.server = w.server /\ v.link = w.link /\ v.fetch = w.fetch
      /\ \A g \in F!Host \ {h} : v.host[g] = w.host[g]
      /\ v.host[h] = new
  BY <1>5, <1>6 DEF Worlds
<1> HIDE DEF v
<1>8. \A g \in F!Host : Readvertises(w, v, g)
  <2>1. Readvertises(w, v, h)
    BY <1>1, <1>3, <1>6, <1>7 DEF Readvertises
  <2>2. \A g \in F!Host \ {h} : Readvertises(w, v, g)
    BY <1>7 DEF Readvertises
  <2> QED BY <2>1, <2>2
<1>9. /\ Invalidated(v, h)
      /\ \A g \in F!Host :
            /\ v.host[g].app = w.host[g].app /\ v.host[g].local = w.host[g].local
            /\ v.host[g].news = w.host[g].news /\ v.host[g].offer = w.host[g].offer
  BY <1>1, <1>3, <1>6, <1>7 DEF Invalidated
<1> QED BY <1>7, <1>8, <1>9 DEF v

LEMMA InvalidateSettles ==
    ASSUME made \in Copies, NEW w, NEW hand, Consistent(made, w, hand), NEW h \in F!Host
    PROVE  Settles(made, w, F!Invalidate(w, h))
<1>0. w \in Worlds(Known) /\ Known \in Nat
  BY KnownNat DEF Consistent, Known
<1> QED BY <1>0, InvalidateFields, HostsSettle, HandoffAssumption DEF Known

LEMMA EmptyTable == <<>> \in Table /\ DOMAIN <<>> = {}
  BY DEF Table

LEMMA AbsentTypes ==
    ASSUME NEW n \in Nat, NEW w \in Worlds(n), NEW h \in F!Host
    PROVE  /\ F!StoreTypes(w, h, 0).host[h] \in Machinery(n)
           /\ Readvertises(w, F!StoreTypes(w, h, 0), h)
<1>1. 0 \in 0 .. n
  OBVIOUS
<1>2. F!StoreTypes(w, h, 0) \in Worlds(n) /\ Readvertises(w, F!StoreTypes(w, h, 0), h)
  BY <1>1, StoreTypesFields, Zenon
<1> QED BY <1>2 DEF Worlds

LEMMA ClipboardClearSettles ==
    ASSUME made \in Copies, NEW w, NEW hand, Consistent(made, w, hand)
    PROVE  Settles(made, w, F!ClipboardClear(w))
<1>0. w \in Worlds(Known) /\ Known \in Nat
  BY KnownNat DEF Consistent, Known
<1> DEFINE told == {F!Local} \union
                {w.link[c].machine : c \in {d \in w.server.listed : w.link[d].open}}
           failed == {w.server.pending[id] : id \in DOMAIN w.server.pending}
           a == F!Abandon(w, failed)
           v == [a EXCEPT !.server.target = None, !.server.pending = <<>>]
           hosts == [h \in F!Host |->
                        IF h \in told THEN F!StoreTypes(v, h, 0).host[h] ELSE v.host[h]]
           x == [v EXCEPT !.host = hosts]
<1>1. F!ClipboardClear(w) = x
  BY DEF F!ClipboardClear
<1>2. /\ Settles(made, w, a) /\ \A f \in failed \intersect F!Fetch : ~Waiting(a, f)
      /\ a \in Worlds(Known) /\ a.server = w.server
  BY <1>0, AbandonSettles, AbandonFields
<1>3. Consistent(made, a, hand)
  BY <1>2, SettlesSound
<1> HIDE DEF a
<1>4. /\ v \in Worlds(Known) /\ v.host = a.host /\ v.link = a.link /\ v.fetch = a.fetch
      /\ v.server.listed = a.server.listed /\ v.server.nextId = a.server.nextId
      /\ v.server.target = None /\ v.server.pending = <<>>
  <2>1. a.server \in Rotation(Known)
    BY <1>2 DEF Worlds
  <2>2. PICK s : s = [a.server EXCEPT !.target = None, !.pending = <<>>]
    OBVIOUS
  <2>3. /\ s \in Rotation(Known) /\ s.listed = a.server.listed /\ s.nextId = a.server.nextId
        /\ s.target = None /\ s.pending = <<>>
    BY <2>1, <2>2, EmptyTable DEF Rotation
  <2>4. v = [a EXCEPT !.server = s]
    BY <1>2, <2>2 DEF Worlds
  <2> QED BY <1>2, <2>3, <2>4 DEF Worlds
<1>5. Settles(made, a, v)
  <2>1. \A id \in DOMAIN a.server.pending : ~Waiting(v, a.server.pending[id])
    <3>1. \A id \in DOMAIN w.server.pending : w.server.pending[id] \in failed \intersect F!Fetch
      BY <1>0, Tables, TableTyped
    <3> QED BY <1>2, <1>4, <3>1 DEF Waiting
  <2>2. Forgets(v, a.server.pending, v.server.pending)
    BY <1>4, <2>1, EmptyTable DEF Forgets, Waits
  <2> QED BY <1>2, <1>3, <1>4, <2>2, RotationSettles DEF Known
<1>6. Consistent(made, v, hand)
  BY <1>3, <1>5, SettlesSound
<1> HIDE DEF v, told
<1>7. Settles(made, v, x)
  <2>1. \A h \in F!Host : /\ F!StoreTypes(v, h, 0).host[h] \in Machinery(Known)
                          /\ Readvertises(v, F!StoreTypes(v, h, 0), h)
    BY <1>0, <1>4, AbsentTypes
  <2>2. hosts \in [F!Host -> Machinery(Known)]
    BY <1>4, <2>1 DEF Worlds
  <2>3. /\ \A h \in F!Host : \/ hosts[h] = F!StoreTypes(v, h, 0).host[h]
                             \/ hosts[h] = v.host[h]
    OBVIOUS
  <2> HIDE DEF hosts
  <2>4. /\ x \in Worlds(Known) /\ x.host = hosts /\ x.server = v.server /\ x.link = v.link
        /\ x.fetch = v.fetch
    BY <1>4, <2>2 DEF Worlds
  <2> HIDE DEF x
  <2>5. \A h \in F!Host : Readvertises(v, x, h)
    BY <2>1, <2>3, <2>4 DEF Readvertises
  <2> QED BY <1>4, <1>6, <2>4, <2>5, HostsSettle, HandoffAssumption DEF Known
<1> HIDE DEF x
<1>8. Settles(made, a, x)
  BY <1>2, <1>5, <1>7, SettlesTransitive DEF Known
<1>9. Settles(made, w, x)
  BY <1>0, <1>2, <1>8, SettlesTransitive DEF Known
<1> QED BY <1>1, <1>9

LEMMA RemoveClientSettles ==
    ASSUME made \in Copies, NEW w, NEW hand, Consistent(made, w, hand), NEW c
    PROVE  Settles(made, w, F!RemoveClient(w, c))
<1>0. w \in Worlds(Known) /\ Known \in Nat
  BY KnownNat DEF Consistent, Known
<1> DEFINE v == [w EXCEPT !.server.listed = @ \ {c}]
<1>1. /\ v \in Worlds(Known) /\ v.host = w.host /\ v.link = w.link /\ v.fetch = w.fetch
      /\ v.server.listed \subseteq w.server.listed /\ v.server.nextId = w.server.nextId
      /\ v.server.target = w.server.target /\ v.server.pending = w.server.pending
  BY <1>0 DEF Worlds, Rotation
<1> HIDE DEF v
<1>2. Settles(made, w, v)
  <2>1. Forgets(v, w.server.pending, v.server.pending)
    BY <1>1 DEF Forgets
  <2> QED BY <1>1, <2>1, RotationSettles DEF Known
<1>3. Settles(made, v, F!ClipboardClear(v))
  BY <1>2, SettlesSound, ClipboardClearSettles
<1>4. Settles(made, w, F!ClipboardClear(v))
  BY <1>0, <1>2, <1>3, SettlesTransitive DEF Known
<1>5. Settles(made, w, w)
  BY SettlesReflexive
<1>6. F!RemoveClient(w, c) \in {w, v, F!ClipboardClear(v)}
  BY DEF F!RemoveClient, v
<1> QED BY <1>2, <1>4, <1>5, <1>6

-----------------------------------------------------------------------------
(* A fetch goes from place to place.                                       *)

\* Only where a fetch is changes, and whom nobody waits for may be forgotten.
Carries(w, v) ==
    /\ v.host = w.host
    /\ v.server.listed = w.server.listed /\ v.server.target = w.server.target
    /\ \A c \in F!Conn : v.link[c].machine = w.link[c].machine
                         /\ v.link[c].open = w.link[c].open
    /\ \A f \in F!Fetch :
          /\ v.fetch[f].stage = w.fetch[f].stage /\ v.fetch[f].copy = w.fetch[f].copy
          /\ v.fetch[f].lost = w.fetch[f].lost
          /\ v.fetch[f].wrong = w.fetch[f].wrong /\ v.fetch[f].stale = w.fetch[f].stale
    /\ \A asker \in Asker, id \in Nat, f \in F!Fetch :
          Expects(w, asker, id, f) => Expects(v, asker, id, f)

SameTables(w, v) ==
    /\ v.server.pending = w.server.pending /\ v.server.nextId = w.server.nextId
    /\ \A c \in F!Conn : v.link[c].pending = w.link[c].pending
                         /\ v.link[c].nextId = w.link[c].nextId

LEMMA CarriesTables ==
    ASSUME NEW w, NEW v, SameTables(w, v),
           \A c \in F!Conn : v.link[c].machine = w.link[c].machine
                             /\ v.link[c].open = w.link[c].open,
           \A f \in F!Fetch : v.fetch[f].stage = w.fetch[f].stage
                              /\ v.fetch[f].lost = w.fetch[f].lost,
           NEW asker \in Asker, NEW id, NEW f \in F!Fetch, Expects(w, asker, id, f)
    PROVE  Expects(v, asker, id, f)
<1>1. Waits(v, f) <=> Waits(w, f)
  BY DEF Waits, Waiting
<1>2. CASE asker = F!Local
  BY <1>1, <1>2 DEF Expects, SameTables
<1>3. CASE asker # F!Local
  <2>1. asker \in F!Conn
    BY <1>3 DEF Asker
  <2> QED BY <1>1, <1>3, <2>1 DEF Expects, SameTables
<1> QED BY <1>2, <1>3

LEMMA FrameParts ==
    ASSUME NEW n, NEW m \in Frame(n), NEW l \in Lane
    PROVE  /\ m.tag \in F!Fetch /\ m.id \in Nat /\ m.for \in Asker /\ m.type \in Mime
           /\ Bearer(l, m) \in Asker
           /\ m.kind \in {"request", "answer"}
           /\ m.kind = "answer" => m \in Answer(n) /\ m.content \in Content(n)
           /\ m.kind = "request" => m \in Request
<1>1. /\ m.tag \in F!Fetch /\ m.id \in Nat /\ m.for \in Asker /\ m.type \in Mime
      /\ m.kind \in {"request", "answer"}
      /\ m.kind = "answer" => m \in Answer(n) /\ m.content \in Content(n)
      /\ m.kind = "request" => m \in Request
  BY DEF Frame, Request, Answer
<1>2. l[2] \in Asker
  BY DEF Lane, Asker
<1> QED BY <1>1, <1>2 DEF Bearer

LEMMA CarriesRest ==
    ASSUME NEW k, NEW w, NEW v, NEW hand, Consistent(k, w, hand), v \in Worlds(Len(k)),
           Carries(w, v)
    PROVE  /\ Sources(k, v) /\ Cached(k, v)
           /\ \A h \in F!Host : OfferSound(k, v, h)
           /\ \A f \in F!Fetch : FetchSound(k, v, f)
           /\ \A f \in F!Fetch : Waits(v, f) <=> Waits(w, f)
           /\ \A l \in Lane, m \in Frame(Len(k)) : Good(k, w, l, m) => Good(k, v, l, m)
<1>0. w \in Worlds(Len(k))
  BY DEF Consistent
<1>1. Sources(k, v)
  BY DEF Consistent, Sources, Carries
<1>2. \A f \in F!Fetch : (Waiting(v, f) <=> Waiting(w, f)) /\ v.fetch[f].copy = w.fetch[f].copy
  BY DEF Waiting, Carries
<1>3. \A p : Published(v, p) <=> Published(w, p)
  BY <1>2 DEF Carries, Published
<1>4. Cached(k, v)
  <2>1. \A h \in F!Host : w.host[h].lock # None => w.host[h].lock.by \in F!Fetch
    BY <1>0 DEF Worlds, Machinery, Lock
  <2>2. \A h \in F!Host : \A copy : Newest(k, v, h, copy) <=> Newest(k, w, h, copy)
    BY <1>3 DEF Newest
  <2>3. Cached(k, w) /\ v.host = w.host
    BY DEF Consistent, Carries
  <2> QED BY <1>2, <2>1, <2>2, <2>3 DEF Cached
<1>5. ASSUME NEW h \in F!Host PROVE OfferSound(k, v, h)
  <2>1. w.host[h].offer # None => w.host[h].offer.fetches \subseteq F!Fetch
    BY <1>0 DEF Worlds, Machinery, Offer
  <2>2. OfferSound(k, w, h)
    BY DEF Consistent
  <2> QED BY <1>2, <2>1, <2>2 DEF Carries, OfferSound
<1>6. \A f \in F!Fetch : FetchSound(k, v, f)
  BY <1>2 DEF Consistent, FetchSound, Carries
<1>7. \A f \in F!Fetch : Waits(v, f) <=> Waits(w, f)
  BY <1>2 DEF Waits, Carries
<1>8. ASSUME NEW l \in Lane, NEW m \in Frame(Len(k)), Good(k, w, l, m)
      PROVE  Good(k, v, l, m)
  <2>1. m.tag \in F!Fetch /\ m.id \in Nat /\ Bearer(l, m) \in Asker
    BY FrameParts
  <2>2. Expects(v, Bearer(l, m), m.id, m.tag)
    BY <1>8, <2>1 DEF Good, Carries
  <2> QED BY <1>2, <1>8, <2>1, <2>2 DEF Good
<1> QED BY <1>1, <1>4, <1>5, <1>6, <1>7, <1>8

LEMMA QueueTail ==
    ASSUME NEW S, NEW q \in Seq(S), q # <<>>
    PROVE  /\ Tail(q) \in Seq(S) /\ Head(q) = q[1] /\ Head(q) \in S /\ 1 \in DOMAIN q
           /\ \A i \in DOMAIN Tail(q) : i + 1 \in DOMAIN q /\ i + 1 # 1 /\ i \in Int
                                        /\ Tail(q)[i] = q[i + 1]
           /\ \A i \in DOMAIN q : i = 1 \/ (i - 1 \in DOMAIN Tail(q) /\ Tail(q)[i - 1] = q[i])
<1>1. /\ Head(q) \in S /\ Tail(q) \in Seq(S) /\ Len(Tail(q)) = Len(q) - 1
      /\ \A i \in 1 .. Len(Tail(q)) : Tail(q)[i] = q[i + 1]
  BY HeadTailProperties
<1>2. Len(q) \in Nat /\ Len(q) # 0
  BY EmptySeq
<1>3. DOMAIN q = 1 .. Len(q) /\ DOMAIN Tail(q) = 1 .. Len(q) - 1
  BY <1>1
<1> QED BY <1>1, <1>2, <1>3

LEMMA QueueEnd ==
    ASSUME NEW S, NEW q \in Seq(S), NEW m \in S
    PROVE  /\ Append(q, m) \in Seq(S) /\ Append(q, m) # <<>>
           /\ \E e \in DOMAIN Append(q, m) :
                 /\ e \notin DOMAIN q /\ Append(q, m)[e] = m
                 /\ \A i \in DOMAIN Append(q, m) :
                        i = e \/ (i \in DOMAIN q /\ Append(q, m)[i] = q[i])
           /\ \A i \in DOMAIN q : i \in DOMAIN Append(q, m) /\ Append(q, m)[i] = q[i]
<1>1. /\ Append(q, m) \in Seq(S) /\ Append(q, m) # <<>>
      /\ Len(Append(q, m)) = Len(q) + 1
      /\ \A i \in 1 .. Len(q) : Append(q, m)[i] = q[i]
      /\ Append(q, m)[Len(q) + 1] = m
  BY AppendProperties
<1>2. Len(q) \in Nat
  OBVIOUS
<1>3. DOMAIN q = 1 .. Len(q) /\ DOMAIN Append(q, m) = 1 .. Len(q) + 1
  BY <1>1
<1> QED BY <1>1, <1>2, <1>3

\* The head of a queue is taken into hand.
LEMMA TakeFrame ==
    ASSUME NEW k, NEW w, NEW v, NEW l \in Lane, Consistent(k, w, {}), v \in Worlds(Len(k)),
           Carries(w, v), v.fetch = w.fetch, Queue(w, l) # <<>>,
           Queue(v, l) = Tail(Queue(w, l)),
           \A o \in Lane \ {l} : Queue(v, o) = Queue(w, o),
           NEW m, m = Head(Queue(w, l))
    PROVE  /\ m \in Frame(Len(k)) /\ Consistent(k, v, {m.tag}) /\ Good(k, v, l, m)
<1>0. w \in Worlds(Len(k)) /\ Alone(w) /\ Mail(k, w) /\ Tracked(w, {}) /\ Wired(w)
  BY DEF Consistent
<1>1. \A o \in Lane : /\ Queue(w, o) \in Seq(Frame(Len(k)))
                      /\ \A i \in DOMAIN Queue(w, o) : Queue(w, o)[i] \in Frame(Len(k))
  BY <1>0, QueuesTyped
<1> DEFINE q == Queue(w, l)
<1>2. /\ Tail(q) \in Seq(Frame(Len(k))) /\ Head(q) = q[1] /\ Head(q) \in Frame(Len(k))
      /\ 1 \in DOMAIN q
      /\ \A i \in DOMAIN Tail(q) : i + 1 \in DOMAIN q /\ i + 1 # 1 /\ i \in Int
                                   /\ Tail(q)[i] = q[i + 1]
      /\ \A i \in DOMAIN q : i = 1 \/ (i - 1 \in DOMAIN Tail(q) /\ Tail(q)[i - 1] = q[i])
  <2>1. q \in Seq(Frame(Len(k))) /\ q # <<>>
    BY <1>1
  <2> HIDE DEF q
  <2> QED BY <2>1, QueueTail
<1>3. m \in Frame(Len(k)) /\ m.tag \in F!Fetch /\ m = q[1]
  BY <1>2, FrameParts
<1>4. Good(k, w, l, m)
  BY <1>0, <1>2, <1>3 DEF Mail
<1>5. /\ Sources(k, v) /\ Cached(k, v)
      /\ \A h \in F!Host : OfferSound(k, v, h)
      /\ \A f \in F!Fetch : FetchSound(k, v, f)
      /\ \A f \in F!Fetch : Waits(v, f) <=> Waits(w, f)
      /\ \A o \in Lane, z \in Frame(Len(k)) : Good(k, w, o, z) => Good(k, v, o, z)
  BY CarriesRest
\* Each frame that is left was there before, and was not the head.
<1>6. ASSUME NEW o \in Lane, NEW i \in DOMAIN Queue(v, o)
      PROVE  \E j \in DOMAIN Queue(w, o) :
                 /\ Queue(v, o)[i] = Queue(w, o)[j]
                 /\ j = IF o = l THEN i + 1 ELSE i
                 /\ o = l => j # 1
  <2>1. CASE o = l
    <3>1. i \in DOMAIN Tail(q)
      BY <2>1
    <3>2. i + 1 \in DOMAIN q /\ i + 1 # 1 /\ Tail(q)[i] = q[i + 1]
      BY <3>1, <1>2
    <3> QED BY <2>1, <3>2
  <2>2. CASE o # l
    BY <2>2
  <2> QED BY <2>1, <2>2
<1>7. \A o \in Lane : \A i \in DOMAIN Queue(w, o) :
          (o = l /\ i = 1) \/ \E j \in DOMAIN Queue(v, o) : Queue(v, o)[j] = Queue(w, o)[i]
  BY <1>2
<1>8. \A o \in Lane : \A i \in DOMAIN Queue(v, o) : i \in Int
  <2>1. \A o \in Lane : Queue(v, o) \in Seq(Frame(Len(k)))
    BY QueuesTyped
  <2> QED BY <2>1
<1> HIDE DEF q
<1>9. \A f \in F!Fetch : InQueue(v, f) => InQueue(w, f) /\ f # m.tag
  <2> SUFFICES ASSUME NEW f \in F!Fetch, NEW o \in Lane, NEW i \in DOMAIN Queue(v, o),
                      Queue(v, o)[i].tag = f
               PROVE  InQueue(w, f) /\ f # m.tag
    BY DEF InQueue
  <2>1. PICK j \in DOMAIN Queue(w, o) : Queue(v, o)[i] = Queue(w, o)[j] /\ (o = l => j # 1)
    BY <1>6
  <2>2. InQueue(w, f)
    BY <2>1 DEF InQueue
  <2>3. f = m.tag => o = l /\ j = 1
    BY <2>1, <1>0, <1>2, <1>3 DEF Alone, q
  <2> QED BY <2>1, <2>2, <2>3
<1>10. \A f \in F!Fetch : InQueue(w, f) => InQueue(v, f) \/ f = m.tag
  BY <1>3, <1>7 DEF InQueue, q
<1>11. InQueue(w, m.tag)
  BY <1>2, <1>3 DEF InQueue, q
<1>12. Mail(k, v)
  <2> SUFFICES ASSUME NEW o \in Lane, NEW i \in DOMAIN Queue(v, o)
               PROVE  Good(k, v, o, Queue(v, o)[i])
    BY DEF Mail
  <2>1. PICK j \in DOMAIN Queue(w, o) : Queue(v, o)[i] = Queue(w, o)[j]
    BY <1>6
  <2>2. Good(k, w, o, Queue(w, o)[j]) /\ Queue(w, o)[j] \in Frame(Len(k))
    BY <1>0, <1>1 DEF Mail
  <2> QED BY <1>5, <2>1, <2>2
<1>13. Alone(v)
  <2>1. ASSUME NEW a \in Lane, NEW o \in Lane, NEW i \in DOMAIN Queue(v, a),
               NEW j \in DOMAIN Queue(v, o), Queue(v, a)[i].tag = Queue(v, o)[j].tag
        PROVE  a = o /\ i = j
    <3>1. PICK x \in DOMAIN Queue(w, a) : Queue(v, a)[i] = Queue(w, a)[x]
                                          /\ x = IF a = l THEN i + 1 ELSE i
      BY <1>6
    <3>2. PICK y \in DOMAIN Queue(w, o) : Queue(v, o)[j] = Queue(w, o)[y]
                                          /\ y = IF o = l THEN j + 1 ELSE j
      BY <1>6
    <3>3. a = o /\ x = y
      BY <1>0, <2>1, <3>1, <3>2 DEF Alone
    <3>4. i \in Int /\ j \in Int
      BY <1>8
    <3> QED BY <3>1, <3>2, <3>3, <3>4
  <2> QED BY <1>0, <1>9, <2>1 DEF Alone
<1>14. Tracked(v, {m.tag})
  <2>1. ~InQueue(v, m.tag) /\ ~w.fetch[m.tag].queued /\ w.fetch[m.tag].serve = None
        /\ w.fetch[m.tag].stage # "unused"
    BY <1>0, <1>3, <1>9, <1>11 DEF Alone
  <2> QED BY <2>1, <1>0, <1>5, <1>10 DEF Tracked
<1>15. Wired(v)
  <2>1. ASSUME NEW c \in F!Conn
        PROVE  /\ v.link[c].machine = None => ~v.link[c].open /\ v.link[c].up = <<>>
               /\ ~v.link[c].open => v.link[c].down = <<>>
    <3>1. <<"up", c>> \in Lane /\ <<"down", c>> \in Lane
      BY DEF Lane
    <3>2. /\ Queue(w, <<"up", c>>) = w.link[c].up /\ Queue(w, <<"down", c>>) = w.link[c].down
          /\ Queue(v, <<"up", c>>) = v.link[c].up /\ Queue(v, <<"down", c>>) = v.link[c].down
      BY DEF Queue
    <3>3. w.link[c].machine = None => Queue(v, <<"up", c>>) = w.link[c].up
      BY <1>0, <3>1, <3>2 DEF Wired
    <3>4. ~w.link[c].open => Queue(v, <<"down", c>>) = w.link[c].down
      BY <1>0, <3>1, <3>2 DEF Wired
    <3> QED BY <1>0, <3>2, <3>3, <3>4 DEF Wired, Carries
  <2>2. \A c \in v.server.listed : c \in F!Conn
    BY DEF Worlds, Rotation
  <2> QED BY <1>0, <2>1, <2>2 DEF Wired, Carries
<1>16. Serves(v)
  <2> SUFFICES ASSUME NEW f \in F!Fetch, w.fetch[f].serve # None
               PROVE  Expects(v, ServedFor(w.fetch[f].serve), w.fetch[f].serve.id, f)
    BY DEF Serves
  <2>1. w.fetch[f].serve \in Serve
    BY <1>0 DEF Worlds, Task
  <2>2. ServedFor(w.fetch[f].serve) \in Asker /\ w.fetch[f].serve.id \in Nat
    BY <2>1 DEF Serve, ServedFor, Asker
  <2> QED BY <2>2 DEF Consistent, Serves, Carries
<1>17. Locks(v)
  BY DEF Consistent, Locks, Carries
<1> QED BY <1>3, <1>4, <1>5, <1>12, <1>13, <1>14, <1>15, <1>16, <1>17 DEF Consistent

\* What is in hand is written to the end of a queue.
LEMMA PutFrame ==
    ASSUME NEW k, NEW w, NEW v, NEW l \in Lane, NEW m \in Frame(Len(k)),
           Consistent(k, w, {m.tag}), v \in Worlds(Len(k)),
           Carries(w, v), v.fetch = w.fetch,
           Good(k, v, l, m), w.link[l[2]].open,
           Queue(v, l) = Append(Queue(w, l), m),
           \A o \in Lane \ {l} : Queue(v, o) = Queue(w, o)
    PROVE  Consistent(k, v, {})
<1>0. w \in Worlds(Len(k)) /\ Alone(w) /\ Mail(k, w) /\ Tracked(w, {m.tag}) /\ Wired(w)
  BY DEF Consistent
<1>1. \A o \in Lane : /\ Queue(w, o) \in Seq(Frame(Len(k)))
                      /\ \A i \in DOMAIN Queue(w, o) : Queue(w, o)[i] \in Frame(Len(k))
  BY <1>0, QueuesTyped
<1>2. m.tag \in F!Fetch
  BY FrameParts
<1> DEFINE q == Queue(w, l)
           x == Append(q, m)
<1>3. PICK e \in DOMAIN x :
           /\ e \notin DOMAIN q /\ x[e] = m
           /\ \A i \in DOMAIN x : i = e \/ (i \in DOMAIN q /\ x[i] = q[i])
           /\ \A i \in DOMAIN q : i \in DOMAIN x /\ x[i] = q[i]
  <2>1. q \in Seq(Frame(Len(k)))
    BY <1>1
  <2> HIDE DEF q
  <2> QED BY <2>1, QueueEnd
<1>4. Queue(v, l) = x
  OBVIOUS
<1> HIDE DEF x
<1>5. /\ Sources(k, v) /\ Cached(k, v)
      /\ \A h \in F!Host : OfferSound(k, v, h)
      /\ \A f \in F!Fetch : FetchSound(k, v, f)
      /\ \A f \in F!Fetch : Waits(v, f) <=> Waits(w, f)
      /\ \A o \in Lane, z \in Frame(Len(k)) : Good(k, w, o, z) => Good(k, v, o, z)
  BY CarriesRest
<1>6. \A o \in Lane : \A i \in DOMAIN Queue(v, o) :
          \/ o = l /\ i = e /\ Queue(v, o)[i] = m
          \/ ~(o = l /\ i = e) /\ i \in DOMAIN Queue(w, o) /\ Queue(v, o)[i] = Queue(w, o)[i]
  BY <1>3, <1>4
<1>7. \A o \in Lane : \A i \in DOMAIN Queue(w, o) :
          i \in DOMAIN Queue(v, o) /\ Queue(v, o)[i] = Queue(w, o)[i]
  BY <1>3, <1>4
<1>8. e \in DOMAIN Queue(v, l) /\ Queue(v, l)[e] = m
  BY <1>3, <1>4
<1> HIDE DEF q
<1>9. ~InQueue(w, m.tag) /\ ~w.fetch[m.tag].queued /\ w.fetch[m.tag].serve = None
      /\ w.fetch[m.tag].stage # "unused"
  BY <1>0, <1>2 DEF Tracked
<1>10. \A f \in F!Fetch : InQueue(v, f) <=> InQueue(w, f) \/ f = m.tag
  BY <1>6, <1>7, <1>8 DEF InQueue
<1>11. Mail(k, v)
  <2> SUFFICES ASSUME NEW o \in Lane, NEW i \in DOMAIN Queue(v, o)
               PROVE  Good(k, v, o, Queue(v, o)[i])
    BY DEF Mail
  <2>1. CASE o = l /\ Queue(v, o)[i] = m
    BY <2>1
  <2>2. CASE i \in DOMAIN Queue(w, o) /\ Queue(v, o)[i] = Queue(w, o)[i]
    <3>1. Good(k, w, o, Queue(w, o)[i]) /\ Queue(w, o)[i] \in Frame(Len(k))
      BY <1>0, <1>1, <2>2 DEF Mail
    <3> QED BY <1>5, <2>2, <3>1
  <2> QED BY <1>6, <2>1, <2>2
<1>12. Alone(v)
  <2>1. ASSUME NEW a \in Lane, NEW o \in Lane, NEW i \in DOMAIN Queue(v, a),
               NEW j \in DOMAIN Queue(v, o), Queue(v, a)[i].tag = Queue(v, o)[j].tag
        PROVE  a = o /\ i = j
    <3>1. \A y \in Lane : \A z \in DOMAIN Queue(w, y) : Queue(w, y)[z].tag # m.tag
      BY <1>9 DEF InQueue
    <3>2. CASE a = l /\ i = e
      BY <1>6, <1>8, <2>1, <3>1, <3>2
    <3>3. CASE o = l /\ j = e
      BY <1>6, <1>8, <2>1, <3>1, <3>3
    <3>4. CASE ~(a = l /\ i = e) /\ ~(o = l /\ j = e)
      <4>1. i \in DOMAIN Queue(w, a) /\ Queue(v, a)[i] = Queue(w, a)[i]
        BY <1>6, <3>4
      <4>2. j \in DOMAIN Queue(w, o) /\ Queue(v, o)[j] = Queue(w, o)[j]
        BY <1>6, <3>4
      <4> QED BY <1>0, <2>1, <4>1, <4>2 DEF Alone
    <3> QED BY <3>2, <3>3, <3>4
  <2> QED BY <1>0, <1>9, <1>10, <2>1 DEF Alone
<1>13. Tracked(v, {})
  BY <1>0, <1>5, <1>10 DEF Tracked
<1>14. Wired(v)
  <2>1. ASSUME NEW c \in F!Conn
        PROVE  /\ v.link[c].machine = None => ~v.link[c].open /\ v.link[c].up = <<>>
               /\ ~v.link[c].open => v.link[c].down = <<>>
    <3>1. <<"up", c>> \in Lane /\ <<"down", c>> \in Lane
      BY DEF Lane
    <3>2. /\ Queue(w, <<"up", c>>) = w.link[c].up /\ Queue(w, <<"down", c>>) = w.link[c].down
          /\ Queue(v, <<"up", c>>) = v.link[c].up /\ Queue(v, <<"down", c>>) = v.link[c].down
      BY DEF Queue
    <3>3. ~w.link[c].open => l # <<"up", c>> /\ l # <<"down", c>>
      OBVIOUS
    <3> QED BY <1>0, <3>1, <3>2, <3>3 DEF Wired, Carries
  <2>2. \A c \in v.server.listed : c \in F!Conn
    BY DEF Worlds, Rotation
  <2> QED BY <1>0, <2>1, <2>2 DEF Wired, Carries
<1>15. Serves(v)
  <2> SUFFICES ASSUME NEW f \in F!Fetch, w.fetch[f].serve # None
               PROVE  Expects(v, ServedFor(w.fetch[f].serve), w.fetch[f].serve.id, f)
    BY DEF Serves
  <2>1. w.fetch[f].serve \in Serve
    BY <1>0 DEF Worlds, Task
  <2>2. ServedFor(w.fetch[f].serve) \in Asker /\ w.fetch[f].serve.id \in Nat
    BY <2>1 DEF Serve, ServedFor, Asker
  <2> QED BY <2>2 DEF Consistent, Serves, Carries
<1>16. Locks(v)
  BY DEF Consistent, Locks, Carries
<1> QED BY <1>5, <1>11, <1>12, <1>13, <1>14, <1>15, <1>16 DEF Consistent

\* A fetch changes its place on a machine.
LEMMA SamePlaces ==
    ASSUME NEW k, NEW w, NEW v, NEW hand, Consistent(k, w, hand), v \in Worlds(Len(k)),
           Carries(w, v), \A c \in F!Conn : v.link[c].up = w.link[c].up
                                            /\ v.link[c].down = w.link[c].down
    PROVE  /\ \A l \in Lane : Queue(v, l) = Queue(w, l)
           /\ \A f : InQueue(v, f) <=> InQueue(w, f)
           /\ Mail(k, v) /\ Wired(v)
<1>0. w \in Worlds(Len(k)) /\ Mail(k, w) /\ Wired(w)
  BY DEF Consistent
<1>1. \A l \in Lane : Queue(v, l) = Queue(w, l)
  BY DEF Queue, Lane
<1>2. \A f : InQueue(v, f) <=> InQueue(w, f)
  BY <1>1 DEF InQueue
<1>3. \A o \in Lane, z \in Frame(Len(k)) : Good(k, w, o, z) => Good(k, v, o, z)
  BY CarriesRest
<1>4. Mail(k, v)
  <2>1. \A o \in Lane : \A i \in DOMAIN Queue(w, o) : Queue(w, o)[i] \in Frame(Len(k))
    BY <1>0, QueuesTyped
  <2> QED BY <1>0, <1>1, <1>3, <2>1 DEF Mail
<1>5. Wired(v)
  <2>1. \A c \in v.server.listed : c \in F!Conn
    BY DEF Worlds, Rotation
  <2> QED BY <1>0, <2>1 DEF Wired, Carries
<1> QED BY <1>1, <1>2, <1>4, <1>5

\* It is taken into hand from there, ...
LEMMA TakeTask ==
    ASSUME NEW k, NEW w, NEW v, NEW f \in F!Fetch, Consistent(k, w, {}), v \in Worlds(Len(k)),
           Carries(w, v), \A c \in F!Conn : v.link[c].up = w.link[c].up
                                            /\ v.link[c].down = w.link[c].down,
           w.fetch[f].queued \/ w.fetch[f].serve # None,
           ~v.fetch[f].queued /\ v.fetch[f].serve = None,
           \A g \in F!Fetch \ {f} : v.fetch[g].queued = w.fetch[g].queued
                                    /\ v.fetch[g].serve = w.fetch[g].serve,
           \A h \in F!Host : w.host[h].lock # None => w.host[h].lock.by # f
    PROVE  Consistent(k, v, {f})
<1>0. w \in Worlds(Len(k)) /\ Alone(w) /\ Tracked(w, {}) /\ Locks(w) /\ Serves(w)
  BY DEF Consistent
<1>1. /\ \A l \in Lane : Queue(v, l) = Queue(w, l)
      /\ \A g : InQueue(v, g) <=> InQueue(w, g)
      /\ Mail(k, v) /\ Wired(v)
  BY SamePlaces
<1>2. /\ Sources(k, v) /\ Cached(k, v)
      /\ \A h \in F!Host : OfferSound(k, v, h)
      /\ \A g \in F!Fetch : FetchSound(k, v, g)
      /\ \A g \in F!Fetch : Waits(v, g) <=> Waits(w, g)
  BY CarriesRest
<1>3. Alone(v)
  <2>1. \A g \in F!Fetch : /\ v.fetch[g].queued => w.fetch[g].queued
                           /\ v.fetch[g].serve # None => w.fetch[g].serve # None
                           /\ v.fetch[g].stage = w.fetch[g].stage
    BY DEF Carries
  <2> QED BY <1>0, <1>1, <2>1 DEF Alone
<1>4. Tracked(v, {f})
  <2>1. ~InQueue(w, f) /\ w.fetch[f].stage # "unused"
    BY <1>0 DEF Alone
  <2> QED BY <1>0, <1>1, <1>2, <2>1 DEF Tracked, Carries
<1>5. Serves(v)
  <2> SUFFICES ASSUME NEW g \in F!Fetch, v.fetch[g].serve # None
               PROVE  Expects(v, ServedFor(v.fetch[g].serve), v.fetch[g].serve.id, g)
    BY DEF Serves
  <2>1. v.fetch[g].serve = w.fetch[g].serve
    OBVIOUS
  <2>2. w.fetch[g].serve \in Serve
    BY <1>0, <2>1 DEF Worlds, Task
  <2>3. ServedFor(w.fetch[g].serve) \in Asker /\ w.fetch[g].serve.id \in Nat
    BY <2>2 DEF Serve, ServedFor, Asker
  <2> QED BY <1>0, <2>1, <2>3 DEF Serves, Carries
<1>6. Locks(v)
  <2>1. \A h \in F!Host : w.host[h].lock # None => w.host[h].lock.by \in F!Fetch
    BY <1>0 DEF Worlds, Machinery, Lock
  <2> QED BY <1>0, <2>1 DEF Locks, Carries
<1> QED BY <1>1, <1>2, <1>3, <1>4, <1>5, <1>6 DEF Consistent

\* ... and given to a task that serves it.
LEMMA PutServe ==
    ASSUME NEW k, NEW w, NEW v, NEW f \in F!Fetch, Consistent(k, w, {f}), v \in Worlds(Len(k)),
           Carries(w, v), \A c \in F!Conn : v.link[c].up = w.link[c].up
                                            /\ v.link[c].down = w.link[c].down,
           NEW s \in Serve, s # None, v.fetch[f].serve = s, Expects(v, ServedFor(s), s.id, f),
           \A g \in F!Fetch : v.fetch[g].queued = w.fetch[g].queued,
           \A g \in F!Fetch \ {f} : v.fetch[g].serve = w.fetch[g].serve
    PROVE  Consistent(k, v, {})
<1>0. w \in Worlds(Len(k)) /\ Alone(w) /\ Tracked(w, {f}) /\ Locks(w) /\ Serves(w)
  BY DEF Consistent
<1>1. /\ \A l \in Lane : Queue(v, l) = Queue(w, l)
      /\ \A g : InQueue(v, g) <=> InQueue(w, g)
      /\ Mail(k, v) /\ Wired(v)
  BY SamePlaces
<1>2. /\ Sources(k, v) /\ Cached(k, v)
      /\ \A h \in F!Host : OfferSound(k, v, h)
      /\ \A g \in F!Fetch : FetchSound(k, v, g)
      /\ \A g \in F!Fetch : Waits(v, g) <=> Waits(w, g)
  BY CarriesRest
<1>3. ~InQueue(w, f) /\ ~w.fetch[f].queued /\ w.fetch[f].serve = None
      /\ w.fetch[f].stage # "unused"
  BY <1>0 DEF Tracked
<1>4. Alone(v)
  <2>1. \A g \in F!Fetch : /\ v.fetch[g].queued = w.fetch[g].queued
                           /\ g = f \/ v.fetch[g].serve = w.fetch[g].serve
                           /\ v.fetch[g].stage = w.fetch[g].stage
    BY DEF Carries
  <2> QED BY <1>0, <1>1, <1>3, <2>1 DEF Alone
<1>5. Tracked(v, {})
  <2>1. \A g \in F!Fetch : v.fetch[g].serve # None \/ (g # f /\ v.fetch[g].serve = w.fetch[g].serve)
    OBVIOUS
  <2> QED BY <1>0, <1>1, <1>2, <2>1 DEF Tracked
<1>6. Serves(v)
  <2> SUFFICES ASSUME NEW g \in F!Fetch \ {f}, v.fetch[g].serve # None
               PROVE  Expects(v, ServedFor(v.fetch[g].serve), v.fetch[g].serve.id, g)
    BY DEF Serves
  <2>1. v.fetch[g].serve = w.fetch[g].serve
    OBVIOUS
  <2>2. w.fetch[g].serve \in Serve
    BY <1>0, <2>1 DEF Worlds, Task
  <2>3. ServedFor(w.fetch[g].serve) \in Asker /\ w.fetch[g].serve.id \in Nat
    BY <2>2 DEF Serve, ServedFor, Asker
  <2> QED BY <1>0, <2>1, <2>3 DEF Serves, Carries
<1>7. Locks(v)
  <2>1. \A h \in F!Host : w.host[h].lock # None => w.host[h].lock.by \in F!Fetch
    BY <1>0 DEF Worlds, Machinery, Lock
  <2>2. \A h \in F!Host : w.host[h].lock # None => w.host[h].lock.by # f
    BY <1>0, <1>3 DEF Locks
  <2> QED BY <1>0, <2>1, <2>2 DEF Locks, Carries
<1> QED BY <1>1, <1>2, <1>4, <1>5, <1>6, <1>7 DEF Consistent

\* Only the tables change.
LEMMA CarriesSound ==
    ASSUME NEW k, NEW w, NEW v, NEW hand, Consistent(k, w, hand), v \in Worlds(Len(k)),
           Carries(w, v), v.fetch = w.fetch,
           \A c \in F!Conn : v.link[c].up = w.link[c].up /\ v.link[c].down = w.link[c].down
    PROVE  Consistent(k, v, hand)
<1>0. w \in Worlds(Len(k)) /\ Alone(w) /\ Tracked(w, hand) /\ Locks(w) /\ Serves(w)
  BY DEF Consistent
<1>1. /\ \A l \in Lane : Queue(v, l) = Queue(w, l)
      /\ \A g : InQueue(v, g) <=> InQueue(w, g)
      /\ Mail(k, v) /\ Wired(v)
  BY SamePlaces
<1>2. /\ Sources(k, v) /\ Cached(k, v)
      /\ \A h \in F!Host : OfferSound(k, v, h)
      /\ \A g \in F!Fetch : FetchSound(k, v, g)
      /\ \A g \in F!Fetch : Waits(v, g) <=> Waits(w, g)
  BY CarriesRest
<1>3. Alone(v) /\ Tracked(v, hand)
  BY <1>0, <1>1, <1>2 DEF Alone, Tracked
<1>4. Serves(v)
  <2> SUFFICES ASSUME NEW g \in F!Fetch, w.fetch[g].serve # None
               PROVE  Expects(v, ServedFor(w.fetch[g].serve), w.fetch[g].serve.id, g)
    BY DEF Serves
  <2>1. w.fetch[g].serve \in Serve
    BY <1>0 DEF Worlds, Task
  <2>2. ServedFor(w.fetch[g].serve) \in Asker /\ w.fetch[g].serve.id \in Nat
    BY <2>1 DEF Serve, ServedFor, Asker
  <2> QED BY <1>0, <2>2 DEF Serves, Carries
<1>5. Locks(v)
  BY <1>0 DEF Locks, Carries
<1> QED BY <1>1, <1>2, <1>3, <1>4, <1>5 DEF Consistent

\* A fetch gets an identifier.
LEMMA AskedTable ==
    ASSUME NEW w, NEW p \in Table, NEW id \in Nat, NEW f \in F!Fetch
    PROVE  LET t == F!Asked(F!Retain(w, p), id, f)
           IN  /\ t \in Table /\ id \in DOMAIN t /\ t[id] = f
               /\ \A i \in DOMAIN t : i = id \/ (i \in DOMAIN p /\ t[i] = p[i])
               /\ \A i \in DOMAIN p : i # id /\ Waiting(w, p[i])
                                          => i \in DOMAIN t /\ t[i] = p[i]
<1> DEFINE r == F!Retain(w, p)
           t == F!Asked(r, id, f)
<1>1. DOMAIN p \subseteq Nat /\ \A i \in DOMAIN p : p[i] \in F!Fetch
  BY TableTyped
<1>2. /\ DOMAIN r = {i \in DOMAIN p : Waiting(w, p[i])}
      /\ \A i \in DOMAIN r : r[i] = p[i]
  BY DEF F!Retain, F!Pending, Waiting
<1> HIDE DEF r
<1>3. /\ DOMAIN t = DOMAIN r \union {id}
      /\ \A i \in DOMAIN t : t[i] = IF i = id THEN f ELSE r[i]
      /\ t = [i \in DOMAIN r \union {id} |-> t[i]]
  BY DEF F!Asked
<1> HIDE DEF t
<1>4. DOMAIN t \in SUBSET Nat /\ \A i \in DOMAIN t : t[i] \in F!Fetch
  BY <1>1, <1>2, <1>3
<1>5. t \in [DOMAIN t -> F!Fetch]
  BY <1>3, <1>4
<1>6. t \in Table
  BY <1>4, <1>5 DEF Table
<1>7. id \in DOMAIN t /\ t[id] = f
  BY <1>3
<1>8. \A i \in DOMAIN t : i = id \/ (i \in DOMAIN p /\ t[i] = p[i])
  BY <1>2, <1>3
<1>9. \A i \in DOMAIN p : i # id /\ Waiting(w, p[i]) => i \in DOMAIN t /\ t[i] = p[i]
  BY <1>2, <1>3
<1> QED BY <1>6, <1>7, <1>8, <1>9 DEF t, r

LEMMA AnsweredTable ==
    ASSUME NEW p \in Table, NEW id
    PROVE  LET t == F!Answered(p, id)
           IN  /\ t \in Table /\ DOMAIN t = DOMAIN p \ {id}
               /\ \A i \in DOMAIN t : t[i] = p[i]
<1> DEFINE t == F!Answered(p, id)
<1>1. DOMAIN p \subseteq Nat /\ \A i \in DOMAIN p : p[i] \in F!Fetch
  BY TableTyped
<1>2. /\ DOMAIN t = DOMAIN p \ {id} /\ \A i \in DOMAIN t : t[i] = p[i]
      /\ t = [i \in DOMAIN p \ {id} |-> t[i]]
  BY DEF F!Answered
<1> HIDE DEF t
<1>3. DOMAIN t \in SUBSET Nat /\ t \in [DOMAIN t -> F!Fetch]
  BY <1>1, <1>2
<1>4. t \in Table
  BY <1>3 DEF Table
<1> QED BY <1>2, <1>4 DEF t

LEMMA ServerAsks ==
    ASSUME NEW k, NEW w, NEW v, NEW f \in F!Fetch, Consistent(k, w, {f}), v \in Worlds(Len(k)),
           v.host = w.host, v.link = w.link, v.fetch = w.fetch,
           v.server.listed = w.server.listed, v.server.target = w.server.target,
           v.server.nextId = w.server.nextId + 1,
           v.server.pending = F!Asked(F!Retain(w, w.server.pending), w.server.nextId, f)
    PROVE  Consistent(k, v, {f}) /\ Expects(v, F!Local, w.server.nextId, f)
<1>0. w \in Worlds(Len(k)) /\ w.server.pending \in Table /\ w.server.nextId \in Nat
  BY Tables DEF Consistent
<1> DEFINE p == w.server.pending
           own == w.server.nextId
           t == v.server.pending
<1>1. /\ own \in DOMAIN t /\ t[own] = f
      /\ \A i \in DOMAIN t : i = own \/ (i \in DOMAIN p /\ t[i] = p[i])
      /\ \A i \in DOMAIN p : i # own /\ Waiting(w, p[i]) => i \in DOMAIN t /\ t[i] = p[i]
  BY <1>0, AskedTable
<1>2. Expects(v, F!Local, own, f)
  BY <1>0, <1>1 DEF Expects
<1>3. ASSUME NEW asker \in Asker, NEW id \in Nat, NEW g \in F!Fetch, Expects(w, asker, id, g)
      PROVE  Expects(v, asker, id, g)
  <2>1. Waits(v, g) <=> Waits(w, g)
    BY DEF Waits, Waiting
  <2>2. CASE asker = F!Local
    <3>1. id < own /\ (id \in DOMAIN p => p[id] = g) /\ (Waits(w, g) => id \in DOMAIN p)
      BY <1>3, <2>2 DEF Expects
    <3>2. id # own /\ id < own + 1
      BY <1>0, <3>1
    <3>3. id \in DOMAIN t => t[id] = g
      BY <1>1, <3>1, <3>2
    <3>4. Waits(w, g) => id \in DOMAIN t
      BY <1>1, <3>1, <3>2 DEF Waits
    <3> QED BY <2>1, <2>2, <3>2, <3>3, <3>4 DEF Expects
  <2>3. CASE asker # F!Local
    BY <1>3, <2>1, <2>3 DEF Expects
  <2> QED BY <2>2, <2>3
<1>4. Carries(w, v)
  BY <1>3 DEF Carries
<1>5. Consistent(k, v, {f})
  BY <1>4, CarriesSound
<1> QED BY <1>2, <1>5

LEMMA ClientAsks ==
    ASSUME NEW k, NEW w, NEW v, NEW f \in F!Fetch, Consistent(k, w, {f}), v \in Worlds(Len(k)),
           NEW c \in F!Conn, w.link[c].open,
           v.host = w.host, v.server = w.server, v.fetch = w.fetch,
           \A b \in F!Conn \ {c} : v.link[b] = w.link[b],
           v.link[c].machine = w.link[c].machine, v.link[c].open,
           v.link[c].up = w.link[c].up, v.link[c].down = w.link[c].down,
           v.link[c].nextId = w.link[c].nextId + 1,
           v.link[c].pending = F!Asked(F!Retain(w, w.link[c].pending), w.link[c].nextId, f)
    PROVE  Consistent(k, v, {f}) /\ Expects(v, c, w.link[c].nextId, f)
<1>0. w \in Worlds(Len(k)) /\ w.link[c].pending \in Table /\ w.link[c].nextId \in Nat
  BY Tables DEF Consistent
<1>a. w.link[c].machine # None /\ c # F!Local /\ v.link[c].open = w.link[c].open
  <2>1. w.link[c].open \in BOOLEAN /\ v.link[c].open \in BOOLEAN
    BY <1>0 DEF Worlds, Link
  <2>2. c # F!Local
    BY HandoffAssumption DEF F!Conn, F!Local
  <2>3. v.link[c].open = w.link[c].open
    BY <2>1
  <2> QED BY <2>2, <2>3 DEF Consistent, Wired
<1> DEFINE p == w.link[c].pending
           own == w.link[c].nextId
           t == v.link[c].pending
<1>1. /\ own \in DOMAIN t /\ t[own] = f
      /\ \A i \in DOMAIN t : i = own \/ (i \in DOMAIN p /\ t[i] = p[i])
      /\ \A i \in DOMAIN p : i # own /\ Waiting(w, p[i]) => i \in DOMAIN t /\ t[i] = p[i]
  BY <1>0, AskedTable
<1>2. Expects(v, c, own, f)
  BY <1>0, <1>a, <1>1 DEF Expects
<1>3. ASSUME NEW asker \in Asker, NEW id \in Nat, NEW g \in F!Fetch, Expects(w, asker, id, g)
      PROVE  Expects(v, asker, id, g)
  <2>1. Waits(v, g) <=> Waits(w, g)
    BY DEF Waits, Waiting
  <2>2. CASE asker = c
    <3>1. id < own /\ (id \in DOMAIN p => p[id] = g) /\ (Waits(w, g) => id \in DOMAIN p)
      BY <1>3, <1>a, <2>2 DEF Expects
    <3>2. id # own /\ id < own + 1
      BY <1>0, <3>1
    <3>3. id \in DOMAIN t => t[id] = g
      BY <1>1, <3>1, <3>2
    <3>4. Waits(w, g) => id \in DOMAIN t
      BY <1>1, <3>1, <3>2 DEF Waits
    <3> QED BY <1>a, <2>1, <2>2, <3>2, <3>3, <3>4 DEF Expects
  <2>3. CASE asker # c
    <3>1. CASE asker = F!Local
      BY <1>3, <2>1, <3>1 DEF Expects
    <3>2. CASE asker # F!Local
      <4>1. v.link[asker] = w.link[asker]
        BY <2>3, <3>2 DEF Asker
      <4> QED BY <1>3, <2>1, <3>2, <4>1 DEF Expects
    <3> QED BY <3>1, <3>2
  <2> QED BY <2>2, <2>3
<1>4. Carries(w, v)
  BY <1>a, <1>3 DEF Carries
<1>5. \A b \in F!Conn : v.link[b].up = w.link[b].up /\ v.link[b].down = w.link[b].down
  OBVIOUS
<1>6. Consistent(k, v, {f})
  BY <1>4, <1>5, CarriesSound
<1> QED BY <1>2, <1>6

-----------------------------------------------------------------------------
(* A fetch gets its answer.                                                *)

Completed(w, v, f, data) ==
    LET h == w.fetch[f].host
    IN  /\ v.server = w.server /\ v.link = w.link
        /\ \A g \in F!Fetch \ {f} : v.fetch[g] = w.fetch[g]
        /\ \A g \in F!Host : g # h => v.host[g] = w.host[g]
        /\ v.fetch[f].stage = "over" /\ v.fetch[f].queued = w.fetch[f].queued
        /\ v.fetch[f].serve = w.fetch[f].serve
        /\ ~v.fetch[f].wrong /\ ~v.fetch[f].stale
        /\ v.host[h].app = w.host[h].app /\ v.host[h].news = w.host[h].news
        /\ v.host[h].local = w.host[h].local
        /\ v.host[h].served = w.host[h].served /\ v.host[h].lock = w.host[h].lock
        /\ \/ v.host[h].offer = w.host[h].offer
           \/ /\ w.host[h].offer # None /\ f \in w.host[h].offer.fetches
              /\ v.host[h].offer.copy = w.host[h].offer.copy
              /\ v.host[h].offer.fetches = w.host[h].offer.fetches
              /\ v.host[h].offer.cache = data

LEMMA CompleteFields ==
    ASSUME NEW n \in Nat, NEW w \in Worlds(n), NEW f \in F!Fetch, NEW type,
           NEW content \in Content(n), NEW tag, tag = f, Waiting(w, f),
           Follows(made, content.copy, w.fetch[f].copy)
    PROVE  /\ F!Complete(w, f, type, content, tag) \in Worlds(n)
           /\ \E data \in {content, F!Gone} :
                 Completed(w, F!Complete(w, f, type, content, tag), f, data)
<1> DEFINE v == F!Complete(w, f, type, content, tag)
<1>1. PICK r \in Task(n) : r = w.fetch[f]
  BY DEF Worlds
<1>2. PICK h \in F!Host : h = r.host
  BY <1>1 DEF Task
<1>3. PICK data \in {content, F!Gone} : data = IF type = r.type THEN content ELSE F!Gone
  OBVIOUS
<1>4. data \in Content(n) /\ Follows(made, data.copy, r.copy)
  <2>1. Follows(made, F!Gone.copy, r.copy)
    BY DEF Follows, F!Gone
  <2> QED BY <1>1, <1>3, <2>1, Gone
<1>5. (tag # f) = FALSE
  BY Zenon
<1>6. PICK o : o = F!Over(r, FALSE, data)
  OBVIOUS
<1>7. /\ o \in Task(n) /\ o.stage = "over" /\ o.queued = r.queued /\ o.serve = r.serve
      /\ ~o.wrong /\ ~o.stale
  BY <1>1, <1>4, <1>6, OverRight
<1>8. PICK old \in Machinery(n) : old = w.host[h]
  BY DEF Worlds
<1>9. PICK offer : offer = IF old.offer # None /\ f \in old.offer.fetches
                           THEN [old.offer EXCEPT !.cache = data] ELSE old.offer
  OBVIOUS
<1>10. /\ offer \in Offer(n) \union {None}
       /\ \/ offer = old.offer
          \/ /\ old.offer # None /\ f \in old.offer.fetches
             /\ offer.copy = old.offer.copy /\ offer.fetches = old.offer.fetches
             /\ offer.cache = data
  <2>1. old.offer \in Offer(n) \union {None}
    BY <1>8 DEF Machinery
  <2>2. CASE old.offer # None /\ f \in old.offer.fetches
    <3>1. PICK z \in Offer(n) : z = old.offer
      BY <2>1, <2>2
    <3>2. offer = [z EXCEPT !.cache = data]
      BY <1>9, <2>2, <3>1
    <3>3. offer \in Offer(n) /\ offer.copy = z.copy /\ offer.fetches = z.fetches
          /\ offer.cache = data
      BY <1>4, <3>1, <3>2 DEF Offer
    <3> QED BY <2>2, <3>1, <3>3
  <2>3. CASE ~(old.offer # None /\ f \in old.offer.fetches)
    BY <1>9, <2>1, <2>3
  <2> QED BY <2>2, <2>3
<1>11. PICK new : new = [old EXCEPT !.offer = offer]
  OBVIOUS
<1>12. /\ new \in Machinery(n) /\ new.app = old.app /\ new.news = old.news
       /\ new.local = old.local /\ new.served = old.served /\ new.lock = old.lock
       /\ new.offer = offer
  BY <1>10, <1>11 DEF Machinery
<1>13. v = [w EXCEPT !.fetch[f] = o, !.host[h] = new]
  <2>1. v = [w EXCEPT !.fetch[f] = F!Over(@, tag # f, data),
                      !.host[h].offer = IF @ # None /\ f \in @.fetches
                                        THEN [@ EXCEPT !.cache = data] ELSE @]
    BY <1>1, <1>2, <1>3, Zenon DEF F!Complete, F!Pending, Waiting
  <2> QED BY <2>1, <1>1, <1>5, <1>6, <1>8, <1>9, <1>11, Zenon
<1> HIDE DEF v
<1>14. /\ v \in Worlds(n) /\ v.server = w.server /\ v.link = w.link
       /\ \A g \in F!Fetch \ {f} : v.fetch[g] = w.fetch[g]
       /\ \A g \in F!Host : g # h => v.host[g] = w.host[g]
       /\ v.fetch[f] = o /\ v.host[h] = new
  BY <1>13, <1>7, <1>12 DEF Worlds
<1>16. Completed(w, v, f, data)
  BY <1>1, <1>2, <1>7, <1>8, <1>10, <1>12, <1>14 DEF Completed
<1> QED BY <1>14, <1>16 DEF v

ForgetsBut(before, after, f) ==
    /\ \A id \in DOMAIN after : id \in DOMAIN before /\ after[id] = before[id]
    /\ \A id \in DOMAIN before : id \in DOMAIN after \/ before[id] = f

LEMMA CompleteSettles ==
    ASSUME made \in Copies, NEW w, NEW hand, Consistent(made, w, hand), NEW u \in Worlds(Known),
           NEW f \in F!Fetch, NEW type, NEW content \in Content(Known), NEW tag, tag = f,
           Waiting(w, f) => Follows(made, content.copy, w.fetch[f].copy),
           u.host = w.host, u.fetch = w.fetch,
           u.server.listed = w.server.listed, u.server.target = w.server.target,
           u.server.nextId = w.server.nextId,
           ForgetsBut(w.server.pending, u.server.pending, f),
           \A c \in F!Conn :
               /\ u.link[c].machine = w.link[c].machine /\ u.link[c].open = w.link[c].open
               /\ u.link[c].up = w.link[c].up /\ u.link[c].down = w.link[c].down
               /\ u.link[c].nextId = w.link[c].nextId
               /\ ForgetsBut(w.link[c].pending, u.link[c].pending, f)
    PROVE  /\ Settles(made, w, F!Complete(u, f, type, content, tag))
           /\ ~Waiting(F!Complete(u, f, type, content, tag), f)
<1>0. w \in Worlds(Known) /\ Known \in Nat
  BY KnownNat DEF Consistent, Known
<1> DEFINE v == F!Complete(u, f, type, content, tag)
           h == w.fetch[f].host
<1>a. h \in F!Host
  BY <1>0 DEF Worlds, Task
<1>1. CASE ~Waiting(w, f)
  <2>1. v = u /\ ~Waiting(u, f)
    BY <1>1, Zenon DEF F!Complete, F!Pending, Waiting
  <2> HIDE DEF v
  <2>2. \A g \in F!Fetch : SettlesFetch(made, w, v, g)
    BY <2>1 DEF Consistent, FetchSound, SettlesFetch
  <2>3. \A p : Published(v, p) => Published(w, p)
    BY <2>1 DEF Published, Waiting
  <2>4. SettlesServer(made, w, v)
    BY <1>1, <2>1, <2>3 DEF SettlesServer, ForgetsBut, Forgets, Waits, Waiting
  <2>5. \A g \in F!Host : SettlesHost(made, w, v, g)
    BY <1>0, <2>1, <2>2, OfferKept DEF Consistent, SettlesHost
  <2>6. \A c \in F!Conn : SettlesLink(w, v, c)
    BY <1>1, <2>1 DEF SettlesLink, ForgetsBut, Forgets, Waits, Waiting
  <2>7. Settles(made, w, v)
    BY <2>1, <2>2, <2>4, <2>5, <2>6 DEF Settles, Known
  <2> QED BY <2>1, <2>7 DEF v
<1>2. CASE Waiting(w, f)
  <2>1. Waiting(u, f)
    BY <1>2 DEF Waiting
  <2>a. PICK data \in {content, F!Gone} : v \in Worlds(Known) /\ Completed(u, v, f, data)
    BY <1>0, <1>2, <2>1, CompleteFields
  <2>2. /\ v \in Worlds(Known) /\ v.server = u.server /\ v.link = u.link
        /\ \A g \in F!Fetch \ {f} : v.fetch[g] = w.fetch[g]
        /\ \A g \in F!Host : g # h => v.host[g] = w.host[g]
    BY <2>a DEF Completed
  <2>3. /\ v.fetch[f].stage = "over" /\ v.fetch[f].queued = w.fetch[f].queued
        /\ v.fetch[f].serve = w.fetch[f].serve
        /\ ~v.fetch[f].wrong /\ ~v.fetch[f].stale
        /\ v.host[h].app = w.host[h].app /\ v.host[h].news = w.host[h].news
        /\ v.host[h].local = w.host[h].local
        /\ v.host[h].served = w.host[h].served
        /\ v.host[h].lock = w.host[h].lock
        /\ \/ v.host[h].offer = w.host[h].offer
           \/ /\ w.host[h].offer # None /\ f \in w.host[h].offer.fetches
              /\ v.host[h].offer.copy = w.host[h].offer.copy
              /\ v.host[h].offer.fetches = w.host[h].offer.fetches
              /\ v.host[h].offer.cache = data
    BY <2>a DEF Completed
  <2> HIDE DEF v, h
  <2>4. Follows(made, data.copy, w.fetch[f].copy)
    <3>1. Follows(made, F!Gone.copy, w.fetch[f].copy)
      BY DEF Follows, F!Gone
    <3> QED BY <1>2, <3>1
  <2>5. ~Waiting(v, f)
    BY <2>3 DEF Waiting
  <2>6. \A g \in F!Fetch : SettlesFetch(made, w, v, g)
    BY <1>2, <2>2, <2>3, <2>4, <2>5 DEF Consistent, FetchSound, SettlesFetch, Waiting
  <2>7. \A g \in F!Host : \/ v.host[g].offer = w.host[g].offer
                          \/ /\ w.host[g].offer # None /\ f \in w.host[g].offer.fetches
                             /\ v.host[g].offer.copy = w.host[g].offer.copy
                             /\ v.host[g].offer.fetches = w.host[g].offer.fetches
                             /\ v.host[g].offer.cache = data
    BY <2>2, <2>3
  <2>8. ASSUME NEW p \in 1 .. Len(made), Published(v, p) PROVE Published(w, p)
    <3>1. CASE \E g \in F!Host : v.host[g].offer # None /\ v.host[g].offer.copy = p
      BY <2>7, <3>1 DEF Published
    <3>2. CASE \E g \in F!Host : v.host[g].local = p
      <4>1. \A g \in F!Host : v.host[g].local = w.host[g].local
        BY <2>2, <2>3
      <4> QED BY <3>2, <4>1 DEF Published
    <3>3. CASE v.server.target # None /\ v.server.target.copy = p
      BY <2>2, <3>3 DEF Published
    <3>4. CASE \E g \in F!Fetch : Waiting(v, g) /\ v.fetch[g].copy = p
      BY <2>6, <3>4, StillWaits DEF Published, SettlesFetch
    <3> QED BY <2>8, <3>1, <3>2, <3>3, <3>4 DEF Published
  <2>9. \A g \in F!Fetch : Waits(v, g) => g # f /\ Waits(w, g)
    BY <2>5, <2>6, StillWaits DEF Waits
  <2>10. SettlesServer(made, w, v)
    <3>1. Forgets(v, w.server.pending, v.server.pending)
      BY <2>2, <2>5 DEF ForgetsBut, Forgets, Waits
    <3> QED BY <2>2, <2>8, <3>1 DEF SettlesServer
  <2>11. \A c \in F!Conn : SettlesLink(w, v, c)
    BY <2>2, <2>5 DEF SettlesLink, ForgetsBut, Forgets, Waits
  <2>12. ASSUME NEW g \in F!Host PROVE SettlesHost(made, w, v, g)
    <3>1. OfferSound(made, w, g)
      BY DEF Consistent
    <3>2. OfferSound(made, v, g)
      <4>1. CASE v.host[g].offer = w.host[g].offer
        BY <1>0, <2>6, <3>1, <4>1, OfferKept
      <4>2. CASE /\ w.host[g].offer # None /\ f \in w.host[g].offer.fetches
                 /\ v.host[g].offer.copy = w.host[g].offer.copy
                 /\ v.host[g].offer.fetches = w.host[g].offer.fetches
                 /\ v.host[g].offer.cache = data
        <5>1. w.host[g].offer.fetches \subseteq F!Fetch
          BY <1>0, <4>2 DEF Worlds, Machinery, Offer
        <5>2. w.fetch[f].copy = w.host[g].offer.copy
          BY <1>2, <3>1, <4>2 DEF OfferSound
        <5> QED BY <2>4, <2>6, <3>1, <4>2, <5>1, <5>2, StillWaits DEF OfferSound, SettlesFetch
      <4> QED BY <2>7, <4>1, <4>2
    <3>3. /\ v.host[g].app = w.host[g].app /\ v.host[g].news = w.host[g].news
          /\ v.host[g].local = w.host[g].local
          /\ v.host[g].served = w.host[g].served
          /\ v.host[g].lock = w.host[g].lock
      BY <2>2, <2>3
    <3> QED BY <3>2, <3>3 DEF SettlesHost
  <2>13. Settles(made, w, v)
    BY <2>2, <2>6, <2>10, <2>11, <2>12 DEF Settles, Known
  <2> QED BY <2>5, <2>13 DEF v
<1> QED BY <1>1, <1>2

-----------------------------------------------------------------------------
(* What the server offers.                                                 *)

LEMMA UpdateSourceSettles ==
    ASSUME made \in Copies, NEW w, NEW hand, Consistent(made, w, hand), NEW source \in Asker,
           NEW copy \in 0 .. Known,
           copy = 0 \/ MadeAt(made, copy, F!Local) \/ Published(w, copy),
           NEW current \in Focus(w)
    PROVE  Settles(made, w, F!UpdateSource(w, source, copy, current))
<1>0. w \in Worlds(Known) /\ Known \in Nat
  BY KnownNat DEF Consistent, Known
<1>a. F!Local \in F!Host
  BY DEF F!Host
<1> DEFINE a == F!Invalidate(w, F!Local)
           v == [a EXCEPT !.server.target = [source |-> source, copy |-> copy]]
<1>1. CASE copy = 0
  BY <1>1, ClipboardClearSettles DEF F!UpdateSource
<1>2. CASE copy # 0
  <2>1. /\ a \in Worlds(Known) /\ a.server = w.server /\ a.fetch = w.fetch
        /\ Invalidated(a, F!Local)
        /\ Settles(made, w, a)
    BY <1>0, <1>a, InvalidateFields, InvalidateSettles
  <2> HIDE DEF a
  <2>2. /\ v \in Worlds(Known) /\ v.host = a.host /\ v.link = a.link /\ v.fetch = a.fetch
        /\ v.server.listed = w.server.listed /\ v.server.nextId = a.server.nextId
        /\ v.server.pending = a.server.pending
        /\ v.server.target = [source |-> source, copy |-> copy]
    <3>1. [source |-> source, copy |-> copy] \in Offerer(Known)
      BY <1>0, <1>2 DEF Offerer
    <3>2. PICK t \in Offerer(Known) : t = [source |-> source, copy |-> copy]
      BY <3>1
    <3>3. PICK s : s = [a.server EXCEPT !.target = t]
      OBVIOUS
    <3>4. a.server \in Rotation(Known)
      BY <2>1 DEF Worlds
    <3>5. /\ s \in Rotation(Known) /\ s.listed = a.server.listed
          /\ s.nextId = a.server.nextId /\ s.pending = a.server.pending /\ s.target = t
      BY <3>3, <3>4 DEF Rotation
    <3>6. v = [a EXCEPT !.server = s]
      BY <2>1, <3>2, <3>3 DEF Worlds
    <3>7. v \in Worlds(Known) /\ v.host = a.host /\ v.link = a.link /\ v.fetch = a.fetch
          /\ v.server = s
      BY <2>1, <3>5, <3>6 DEF Worlds
    <3> QED BY <2>1, <3>2, <3>5, <3>7
  <2> HIDE DEF v
  <2>3. Consistent(made, a, hand)
    BY <2>1, SettlesSound
  <2>4. \A f \in F!Fetch : SettlesFetch(made, a, v, f)
    BY <2>2, <2>3 DEF Consistent, FetchSound, SettlesFetch
  <2>5. \A g \in F!Host : SettlesHost(made, a, v, g)
    BY <2>1, <2>2, <2>3, <2>4, OfferKept DEF Consistent, SettlesHost
  <2>6. \A c \in F!Conn : SettlesLink(a, v, c)
    BY <2>2 DEF SettlesLink, Forgets
  <2>7. ASSUME NEW p \in 1 .. Len(made), NEW h \in F!Host, Published(v, p), made[p].host = h
        PROVE  Published(w, p) \/ Invalidated(v, h)
    <3>1. CASE p = copy /\ MadeAt(made, copy, F!Local)
      BY <2>1, <2>2, <2>7, <3>1 DEF MadeAt, Invalidated
    <3>2. CASE p = copy /\ Published(w, copy)
      BY <3>2
    <3>3. CASE p # copy
      <4>1. Published(a, p)
        BY <2>2, <2>7, <3>3 DEF Published, Waiting
      <4>2. Published(w, p) \/ Invalidated(a, h)
        BY <2>1, <2>7, <4>1 DEF Settles, SettlesServer
      <4>3. Invalidated(a, h) => Invalidated(v, h)
        BY <2>2 DEF Invalidated
      <4> QED BY <4>2, <4>3
    <3> QED BY <1>2, <3>1, <3>2, <3>3
  <2>8. Settles(made, w, v)
    <3>1. SettlesServer(made, w, v)
      <4>1. SettlesServer(made, w, a) /\ w.server.pending = v.server.pending
        BY <2>1, <2>2 DEF Settles
      <4> QED BY <2>1, <2>2, <2>7, <4>1 DEF SettlesServer, Forgets
    <3>2. \A f \in F!Fetch : SettlesFetch(made, w, v, f)
      BY <2>1, <2>2, <2>4 DEF SettlesFetch, Waiting
    <3>3. \A g \in F!Host : SettlesHost(made, w, v, g)
      BY <2>1, <2>5 DEF SettlesHost, Settles
    <3>4. \A c \in F!Conn : SettlesLink(w, v, c)
      <4>1. \A c \in F!Conn : SettlesLink(w, a, c)
        BY <2>1 DEF Settles
      <4>2. a.link = v.link /\ \A f : Waits(v, f) <=> Waits(a, f)
        BY <2>2 DEF Waits, Waiting
      <4> QED BY <4>1, <4>2 DEF SettlesLink, Forgets
    <3> QED BY <2>2, <3>1, <3>2, <3>3, <3>4 DEF Settles, Known
  <2>9. Consistent(made, v, hand)
    BY <2>8, SettlesSound
  <2>10. current \in Focus(v)
    BY <2>2 DEF Focus
  <2>11. Settles(made, v, F!AnnounceTo(v, current))
    BY <2>9, <2>10, AnnounceToSettles
  <2>12. Settles(made, w, F!AnnounceTo(v, current))
    BY <1>0, <2>8, <2>11, SettlesTransitive DEF Known
  <2>13. F!UpdateSource(w, source, copy, current) \in {v, F!AnnounceTo(v, current)}
    BY <1>2 DEF F!UpdateSource, v, a
  <2> QED BY <2>8, <2>12, <2>13
<1> QED BY <1>1, <1>2

-----------------------------------------------------------------------------
(* The rotation sends and routes.                                          *)

\* Only the queues of a connection change.
Wrote(w, v, c, sent, posted) ==
    /\ v.server = w.server /\ v.host = w.host /\ v.fetch = w.fetch
    /\ \A b \in F!Conn \ {c} : v.link[b] = w.link[b]
    /\ v.link[c].machine = w.link[c].machine /\ v.link[c].open = w.link[c].open
    /\ v.link[c].up = sent /\ v.link[c].down = posted
    /\ v.link[c].pending = w.link[c].pending /\ v.link[c].nextId = w.link[c].nextId

SentDown(w, c, m) == [w EXCEPT !.link[c].down = Append(@, m)]

LEMMA WrittenDown ==
    ASSUME NEW n, NEW w \in Worlds(n), NEW c \in F!Conn, NEW m \in Frame(n)
    PROVE  /\ SentDown(w, c, m) \in Worlds(n)
           /\ Wrote(w, SentDown(w, c, m), c, w.link[c].up, Append(w.link[c].down, m))
<1>1. PICK old \in Link(n) : old = w.link[c]
  BY DEF Worlds
<1>2. PICK q \in Seq(Frame(n)) : q = Append(old.down, m)
  <2>1. old.down \in Seq(Frame(n))
    BY DEF Link
  <2> QED BY <2>1, AppendProperties
<1>3. PICK new : new = [old EXCEPT !.down = q]
  OBVIOUS
<1>4. /\ new \in Link(n) /\ new.machine = old.machine /\ new.open = old.open
      /\ new.up = old.up /\ new.down = q /\ new.pending = old.pending
      /\ new.nextId = old.nextId
  BY <1>3 DEF Link
<1> DEFINE v == SentDown(w, c, m)
<1>5. v = [w EXCEPT !.link[c] = new]
  BY <1>1, <1>2, <1>3 DEF SentDown, Worlds, Link
<1> HIDE DEF v
<1>6. /\ v \in Worlds(n) /\ v.server = w.server /\ v.host = w.host /\ v.fetch = w.fetch
      /\ \A b \in F!Conn \ {c} : v.link[b] = w.link[b]
      /\ v.link[c] = new
  BY <1>4, <1>5 DEF Worlds
<1>7. Wrote(w, v, c, w.link[c].up, Append(w.link[c].down, m))
  BY <1>1, <1>2, <1>4, <1>6 DEF Wrote
<1> QED BY <1>6, <1>7 DEF v

SentUp(w, c, m) == [w EXCEPT !.link[c].up = Append(@, m)]

LEMMA WrittenUp ==
    ASSUME NEW n, NEW w \in Worlds(n), NEW c \in F!Conn, NEW m \in Frame(n)
    PROVE  /\ SentUp(w, c, m) \in Worlds(n)
           /\ Wrote(w, SentUp(w, c, m), c, Append(w.link[c].up, m), w.link[c].down)
<1>1. PICK old \in Link(n) : old = w.link[c]
  BY DEF Worlds
<1>2. PICK q \in Seq(Frame(n)) : q = Append(old.up, m)
  <2>1. old.up \in Seq(Frame(n))
    BY DEF Link
  <2> QED BY <2>1, AppendProperties
<1>3. PICK new : new = [old EXCEPT !.up = q]
  OBVIOUS
<1>4. /\ new \in Link(n) /\ new.machine = old.machine /\ new.open = old.open
      /\ new.up = q /\ new.down = old.down /\ new.pending = old.pending
      /\ new.nextId = old.nextId
  BY <1>3 DEF Link
<1> DEFINE v == SentUp(w, c, m)
<1>5. v = [w EXCEPT !.link[c] = new]
  BY <1>1, <1>2, <1>3 DEF SentUp, Worlds, Link
<1> HIDE DEF v
<1>6. /\ v \in Worlds(n) /\ v.server = w.server /\ v.host = w.host /\ v.fetch = w.fetch
      /\ \A b \in F!Conn \ {c} : v.link[b] = w.link[b]
      /\ v.link[c] = new
  BY <1>4, <1>5 DEF Worlds
<1>7. Wrote(w, v, c, Append(w.link[c].up, m), w.link[c].down)
  BY <1>1, <1>2, <1>4, <1>6 DEF Wrote
<1> QED BY <1>6, <1>7 DEF v

LEMMA DownPut ==
    ASSUME NEW k, NEW w, NEW c \in F!Conn, NEW m \in Frame(Len(k)), Consistent(k, w, {m.tag}),
           w.link[c].open, Good(k, w, <<"down", c>>, m)
    PROVE  Consistent(k, SentDown(w, c, m), {})
<1> DEFINE v == SentDown(w, c, m)
           l == <<"down", c>>
<1>0. w \in Worlds(Len(k))
  BY DEF Consistent
<1>a. v \in Worlds(Len(k)) /\ Wrote(w, v, c, w.link[c].up, Append(w.link[c].down, m))
  BY <1>0, WrittenDown
<1> HIDE DEF v
<1>1. /\ v \in Worlds(Len(k)) /\ v.server = w.server /\ v.host = w.host /\ v.fetch = w.fetch
      /\ \A b \in F!Conn \ {c} : v.link[b] = w.link[b]
      /\ v.link[c].machine = w.link[c].machine /\ v.link[c].open = w.link[c].open
      /\ v.link[c].up = w.link[c].up /\ v.link[c].down = Append(w.link[c].down, m)
      /\ v.link[c].pending = w.link[c].pending /\ v.link[c].nextId = w.link[c].nextId
  BY ONLY <1>a, Zenon DEF Wrote
<1>2. SameTables(w, v)
  BY <1>1 DEF SameTables
<1>3. \A b \in F!Conn : v.link[b].machine = w.link[b].machine /\ v.link[b].open = w.link[b].open
  BY <1>1
<1>4. \A asker \in Asker, id \in Nat, f \in F!Fetch :
          Expects(w, asker, id, f) => Expects(v, asker, id, f)
  BY <1>1, <1>2, <1>3, CarriesTables
<1>5. Carries(w, v)
  BY <1>1, <1>3, <1>4 DEF Carries
<1>6. l \in Lane /\ l[1] = "down" /\ l[2] = c
  BY DEF Lane
<1>7. Queue(v, l) = Append(Queue(w, l), m)
  BY <1>1, <1>6 DEF Queue
<1>8. \A o \in Lane \ {l} : Queue(v, o) = Queue(w, o)
  <2> SUFFICES ASSUME NEW o \in Lane, o # l PROVE Queue(v, o) = Queue(w, o)
    OBVIOUS
  <2>1. o[2] \in F!Conn /\ o[1] \in {"up", "down"} /\ o = <<o[1], o[2]>>
    BY DEF Lane
  <2> QED BY <1>1, <2>1 DEF Queue
<1>9. Good(k, v, l, m)
  BY <1>1, <1>5, <1>6, CarriesRest
<1> HIDE DEF l
<1>10. Consistent(k, v, {})
  BY <1>1, <1>5, <1>6, <1>7, <1>8, <1>9, PutFrame
<1> QED BY <1>10 DEF v

LEMMA UpPut ==
    ASSUME NEW k, NEW w, NEW c \in F!Conn, NEW m \in Frame(Len(k)), Consistent(k, w, {m.tag}),
           w.link[c].open, Good(k, w, <<"up", c>>, m)
    PROVE  Consistent(k, SentUp(w, c, m), {})
<1> DEFINE v == SentUp(w, c, m)
           l == <<"up", c>>
<1>0. w \in Worlds(Len(k))
  BY DEF Consistent
<1>a. v \in Worlds(Len(k)) /\ Wrote(w, v, c, Append(w.link[c].up, m), w.link[c].down)
  BY <1>0, WrittenUp
<1> HIDE DEF v
<1>1. /\ v \in Worlds(Len(k)) /\ v.server = w.server /\ v.host = w.host /\ v.fetch = w.fetch
      /\ \A b \in F!Conn \ {c} : v.link[b] = w.link[b]
      /\ v.link[c].machine = w.link[c].machine /\ v.link[c].open = w.link[c].open
      /\ v.link[c].up = Append(w.link[c].up, m) /\ v.link[c].down = w.link[c].down
      /\ v.link[c].pending = w.link[c].pending /\ v.link[c].nextId = w.link[c].nextId
  BY ONLY <1>a, Zenon DEF Wrote
<1>2. SameTables(w, v)
  BY <1>1 DEF SameTables
<1>3. \A b \in F!Conn : v.link[b].machine = w.link[b].machine /\ v.link[b].open = w.link[b].open
  BY <1>1
<1>4. \A asker \in Asker, id \in Nat, f \in F!Fetch :
          Expects(w, asker, id, f) => Expects(v, asker, id, f)
  BY <1>1, <1>2, <1>3, CarriesTables
<1>5. Carries(w, v)
  BY <1>1, <1>3, <1>4 DEF Carries
<1>6. l \in Lane /\ l[1] = "up" /\ l[2] = c
  BY DEF Lane
<1>7. Queue(v, l) = Append(Queue(w, l), m)
  BY <1>1, <1>6 DEF Queue
<1>8. \A o \in Lane \ {l} : Queue(v, o) = Queue(w, o)
  <2> SUFFICES ASSUME NEW o \in Lane, o # l PROVE Queue(v, o) = Queue(w, o)
    OBVIOUS
  <2>1. o[2] \in F!Conn /\ o[1] \in {"up", "down"} /\ o = <<o[1], o[2]>>
    BY DEF Lane
  <2> QED BY <1>1, <2>1 DEF Queue
<1>9. Good(k, v, l, m)
  BY <1>1, <1>5, <1>6, CarriesRest
<1> HIDE DEF l
<1>10. Consistent(k, v, {})
  BY <1>1, <1>5, <1>6, <1>7, <1>8, <1>9, PutFrame
<1> QED BY <1>10 DEF v

\* A fetch in hand may be lost.
LEMMA LostInHand ==
    ASSUME made \in Copies, NEW w, NEW f \in F!Fetch, Consistent(made, w, {f})
    PROVE  Consistent(made, F!Lose(w, {f}), {})
<1>1. /\ Settles(made, w, F!Lose(w, {f}))
      /\ \A g \in {f} \intersect F!Fetch : ~Waits(F!Lose(w, {f}), g)
  BY LoseSettles
<1>2. Consistent(made, F!Lose(w, {f}), {f}) /\ ~Waits(F!Lose(w, {f}), f)
  BY <1>1, SettlesSound
<1> QED BY <1>2, Dropped

LEMMA SendBulkSends ==
    ASSUME made \in Copies, NEW w, NEW f \in F!Fetch, Consistent(made, w, {f}),
           NEW m \in Frame(Known), m.tag = f, NEW c, NEW refuse,
           c \in F!Conn => Good(made, w, <<"down", c>>, m)
    PROVE  /\ F!SendBulk(w, c, m, refuse).ok => Consistent(made, F!SendBulk(w, c, m, refuse).w, {})
           /\ ~F!SendBulk(w, c, m, refuse).ok =>
                 Settles(made, w, F!SendBulk(w, c, m, refuse).w)
<1>0. w \in Worlds(Known) /\ Known \in Nat
  BY KnownNat DEF Consistent, Known
<1> DEFINE r == F!SendBulk(w, c, m, refuse)
<1>1. CASE c \notin w.server.listed
  <2>1. r = [ok |-> FALSE, w |-> w]
    BY <1>1, Zenon DEF F!SendBulk
  <2> HIDE DEF r
  <2>2. ~r.ok /\ Settles(made, w, r.w)
    BY <2>1, SettlesReflexive
  <2> QED BY <2>2 DEF r
<1>2. CASE c \in w.server.listed /\ c \in refuse
  <2>1. r = [ok |-> FALSE, w |-> F!RemoveClient(w, c)]
    BY <1>2, Zenon DEF F!SendBulk
  <2> HIDE DEF r
  <2>2. ~r.ok /\ Settles(made, w, r.w)
    BY <2>1, RemoveClientSettles
  <2> QED BY <2>2 DEF r
<1>3. CASE c \in w.server.listed /\ c \notin refuse
  <2>1. c \in F!Conn
    BY <1>0, <1>3 DEF Worlds, Rotation
  <2>2. CASE w.link[c].open
    <3>1. r = [ok |-> TRUE, w |-> SentDown(w, c, m)]
      BY <1>3, <2>2, Zenon DEF F!SendBulk, SentDown
    <3>2. Consistent(made, SentDown(w, c, m), {})
      BY <2>1, <2>2, DownPut DEF Known
    <3> HIDE DEF r
    <3>3. r.ok /\ r.w = SentDown(w, c, m)
      BY <3>1
    <3>4. r.ok /\ Consistent(made, r.w, {})
      BY <3>2, <3>3, Zenon
    <3> QED BY <3>4 DEF r
  <2>3. CASE ~w.link[c].open
    <3>1. r = [ok |-> TRUE, w |-> F!Lose(w, {f})]
      BY <1>3, <2>3, Zenon DEF F!SendBulk
    <3> HIDE DEF r
    <3>2. r.ok /\ Consistent(made, r.w, {})
      BY <3>1, LostInHand
    <3> QED BY <3>2 DEF r
  <2> QED BY <2>2, <2>3
<1> QED BY <1>1, <1>2, <1>3

LEMMA Bearers ==
    ASSUME NEW c, NEW m
    PROVE  /\ m.kind = "answer" => /\ Bearer(<<"down", c>>, m) = c
                                   /\ Bearer(<<"up", c>>, m) = m.for
           /\ m.kind = "request" => /\ Bearer(<<"down", c>>, m) = m.for
                                    /\ Bearer(<<"up", c>>, m) = c
<1>1. /\ <<"down", c>>[1] # "up" /\ <<"up", c>>[1] = "up"
      /\ <<"down", c>>[2] = c /\ <<"up", c>>[2] = c
  OBVIOUS
<1>2. m.kind = "answer" => m.kind # "request"
  OBVIOUS
<1> QED BY <1>1, <1>2 DEF Bearer

LEMMA EmptyAnswer ==
    ASSUME NEW n \in Nat, NEW type \in Mime, NEW id \in Nat, NEW f \in F!Fetch
    PROVE  LET m == F!Answer(type, F!Local, id, F!Gone, f)
           IN  /\ m \in Frame(n) /\ m.kind = "answer" /\ m.id = id /\ m.tag = f
               /\ m.content.copy = 0
<1>1. F!Gone \in Content(n) /\ F!Gone.copy = 0
  BY Gone DEF F!Gone
<1>2. F!Local \in Asker
  BY DEF Asker
<1> QED BY <1>1, <1>2 DEF F!Answer, Frame, Answer

LEMMA ReplyEmptyEnds ==
    ASSUME made \in Copies, NEW w, NEW f \in F!Fetch, Consistent(made, w, {f}),
           NEW c \in F!Conn, NEW id \in Nat, Expects(w, c, id, f), NEW refuse
    PROVE  Consistent(made, F!ReplyEmpty(w, c, id, f, refuse), {})
<1>0. w \in Worlds(Known) /\ Known \in Nat
  BY KnownNat DEF Consistent, Known
<1> DEFINE m == F!Answer(w.fetch[f].type, F!Local, id, F!Gone, f)
           r == F!SendBulk(w, c, m, refuse)
<1>1. w.fetch[f].type \in Mime
  BY <1>0 DEF Worlds, Task
<1>2. m \in Frame(Known) /\ m.kind = "answer" /\ m.id = id /\ m.tag = f /\ m.content.copy = 0
  BY <1>0, <1>1, EmptyAnswer
<1> HIDE DEF m
<1>3. Good(made, w, <<"down", c>>, m)
  BY <1>2, Bearers DEF Good, Follows
<1>4. /\ r.ok => Consistent(made, r.w, {})
      /\ ~r.ok => Settles(made, w, r.w)
  BY <1>2, <1>3, SendBulkSends
<1> HIDE DEF r
<1>5. ~r.ok => Consistent(made, F!Lose(r.w, {f}), {})
  BY <1>4, SettlesSound, LostInHand
<1>6. F!ReplyEmpty(w, c, id, f, refuse) = IF r.ok THEN r.w ELSE F!Lose(r.w, {f})
  BY Zenon DEF F!ReplyEmpty, r, m
<1> QED BY <1>4, <1>5, <1>6

LEMMA CompleteEnds ==
    ASSUME made \in Copies, NEW w, NEW f \in F!Fetch, Consistent(made, w, {f}), NEW type
    PROVE  Consistent(made, F!Complete(w, f, type, F!Gone, f), {})
<1>0. w \in Worlds(Known) /\ Known \in Nat
  BY KnownNat DEF Consistent, Known
<1>1. Follows(made, F!Gone.copy, w.fetch[f].copy) /\ F!Gone \in Content(Known)
  BY <1>0, Gone DEF Follows, F!Gone
<1>2. \A p : ForgetsBut(p, p, f)
  BY DEF ForgetsBut
<1> DEFINE v == F!Complete(w, f, type, F!Gone, f)
<1>3. Settles(made, w, v) /\ ~Waiting(v, f)
  BY <1>0, <1>1, <1>2, CompleteSettles
<1> HIDE DEF v
<1>4. Consistent(made, v, {f}) /\ ~Waits(v, f)
  BY <1>3, SettlesSound DEF Waits
<1>5. Consistent(made, v, {})
  BY <1>4, Dropped
<1> QED BY <1>5 DEF v

LEMMA FailFetchEnds ==
    ASSUME made \in Copies, NEW w, NEW f \in F!Fetch, Consistent(made, w, {f}),
           NEW c \in Asker, NEW id, NEW refuse,
           c # F!Local => id \in Nat /\ Expects(w, c, id, f)
    PROVE  Consistent(made, F!FailFetch(w, c, id, f, refuse), {})
<1>1. CASE c = F!Local
  BY <1>1, CompleteEnds DEF F!FailFetch
<1>2. CASE c # F!Local
  BY <1>2, ReplyEmptyEnds DEF F!FailFetch, Asker
<1> QED BY <1>1, <1>2

LEMMA RequestTyped ==
    ASSUME NEW n, NEW type \in Mime, NEW for \in Asker, NEW id \in Nat, NEW f \in F!Fetch
    PROVE  LET m == F!Request(type, for, id, f)
           IN  /\ m \in Frame(n) /\ m.kind = "request" /\ m.id = id /\ m.tag = f
               /\ m.for = for
  BY DEF F!Request, Frame, Request

\* The table of the rotation forgets a fetch that is over.
LEMMA Unasked ==
    ASSUME made \in Copies, NEW w, NEW f \in F!Fetch, Consistent(made, w, {f}), ~Waiting(w, f),
           NEW id, Expects(w, F!Local, id, f)
    PROVE  Consistent(made, [w EXCEPT !.server.pending = F!Answered(@, id)], {})
<1>0. w \in Worlds(Known) /\ Known \in Nat
  BY KnownNat DEF Consistent, Known
<1> DEFINE p == w.server.pending
           t == F!Answered(p, id)
           v == [w EXCEPT !.server.pending = t]
<1>1. /\ t \in Table /\ DOMAIN t = DOMAIN p \ {id} /\ \A i \in DOMAIN t : t[i] = p[i]
  BY <1>0, Tables, AnsweredTable
<1> HIDE DEF t
<1>2. /\ v \in Worlds(Known) /\ v.host = w.host /\ v.link = w.link /\ v.fetch = w.fetch
      /\ v.server.listed = w.server.listed /\ v.server.nextId = w.server.nextId
      /\ v.server.target = w.server.target /\ v.server.pending = t
  <2>1. w.server \in Rotation(Known)
    BY <1>0 DEF Worlds
  <2>2. PICK s : s = [w.server EXCEPT !.pending = t]
    OBVIOUS
  <2>3. /\ s \in Rotation(Known) /\ s.listed = w.server.listed /\ s.nextId = w.server.nextId
        /\ s.target = w.server.target /\ s.pending = t
    BY <1>1, <2>1, <2>2 DEF Rotation
  <2>4. v = [w EXCEPT !.server = s]
    BY <1>0, <2>2 DEF Worlds
  <2> QED BY <1>0, <2>3, <2>4 DEF Worlds
<1>3. [w EXCEPT !.server.pending = F!Answered(@, id)] = v
  BY DEF t
<1> HIDE DEF v
<1>4. \A i \in DOMAIN p : Waits(v, p[i]) => i # id
  BY <1>2 DEF Expects, Waits, Waiting
<1>5. Forgets(v, p, v.server.pending)
  BY <1>1, <1>2, <1>4 DEF Forgets
<1>6. Settles(made, w, v)
  BY <1>2, <1>5, RotationSettles DEF Known
<1>7. Consistent(made, v, {f}) /\ ~Waits(v, f)
  BY <1>2, <1>6, SettlesSound DEF Waits, Waiting
<1>8. Consistent(made, v, {})
  BY <1>7, Dropped
<1> QED BY <1>3, <1>8

LEMMA OwnRequestGoes ==
    ASSUME made \in Copies, NEW w, NEW f \in F!Fetch, Consistent(made, w, {f}), NEW refuse
    PROVE  Consistent(made, F!RouteToOwner(w, F!Local, None, f, refuse), {})
<1>0. w \in Worlds(Known) /\ Known \in Nat
  BY KnownNat DEF Consistent, Known
<1> DEFINE own == w.server.nextId
           owner == w.server.target.source
           t == F!Asked(F!Retain(w, w.server.pending), own, f)
           v == [w EXCEPT !.server.nextId = @ + 1,
                          !.server.pending = F!Asked(F!Retain(w, @), own, f)]
           m == F!Request(w.fetch[f].type, F!Local, own, f)
           r == F!SendBulk(v, owner, m, refuse)
<1>1. own \in Nat /\ t \in Table /\ w.fetch[f].type \in Mime /\ F!Local \in Asker
  BY <1>0, Tables, AskedTable DEF Worlds, Task, Asker
<1>2. /\ v \in Worlds(Known) /\ v.host = w.host /\ v.link = w.link /\ v.fetch = w.fetch
      /\ v.server.listed = w.server.listed /\ v.server.nextId = own + 1
      /\ v.server.target = w.server.target /\ v.server.pending = t
  <2>1. w.server \in Rotation(Known)
    BY <1>0 DEF Worlds
  <2>a. PICK next \in Nat : next = own + 1
    BY <1>1
  <2>b. PICK asked \in Table : asked = t
    BY <1>1
  <2>2. PICK s : s = [w.server EXCEPT !.nextId = next, !.pending = asked]
    OBVIOUS
  <2>3. /\ s \in Rotation(Known) /\ s.listed = w.server.listed /\ s.nextId = next
        /\ s.target = w.server.target /\ s.pending = asked
    BY ONLY <2>1, <2>2, next \in Nat, asked \in Table DEF Rotation
  <2>4. v = [w EXCEPT !.server = s]
    BY <1>0, <2>a, <2>b, <2>2 DEF Worlds
  <2> HIDE DEF v, t, own
  <2> QED BY <1>0, <2>a, <2>b, <2>3, <2>4 DEF Worlds
<1>a. F!RouteToOwner(w, F!Local, None, f, refuse) =
          IF r.ok THEN r.w
          ELSE [F!Abandon(r.w, {f}) EXCEPT !.server.pending = F!Answered(@, own)]
  <2>c. PICK c : c = F!Local
    OBVIOUS
  <2> DEFINE z == IF c = F!Local
                  THEN [w EXCEPT !.server.nextId = @ + 1,
                                 !.server.pending = F!Asked(F!Retain(w, @), own, f)]
                  ELSE w
             i == IF c = F!Local THEN own ELSE None
             q == F!SendBulk(z, owner, F!Request(w.fetch[f].type, c, i, f), refuse)
  <2>1. F!RouteToOwner(w, c, None, f, refuse) =
            IF q.ok THEN q.w
            ELSE IF c = F!Local
                 THEN [F!Abandon(q.w, {f}) EXCEPT !.server.pending = F!Answered(@, own)]
            ELSE F!ReplyEmpty(q.w, c, None, f, refuse)
    BY Zenon DEF F!RouteToOwner
  <2>2. z = v /\ i = own
    BY <2>c, Zenon
  <2> HIDE DEF z, i
  <2>3. q = r
    BY <2>2, <2>c, Zenon
  <2> HIDE DEF q, r
  <2> QED BY <2>1, <2>3, <2>c, Zenon
<1> HIDE DEF v
<1>3. Consistent(made, v, {f}) /\ Expects(v, F!Local, own, f)
  BY <1>2, ServerAsks DEF Known
<1>4. /\ m \in Frame(Known) /\ m.kind = "request" /\ m.id = own /\ m.tag = f
      /\ m.for = F!Local
  BY <1>1, RequestTyped
<1> HIDE DEF m, t
<1>5. owner \in F!Conn => Good(made, v, <<"down", owner>>, m)
  BY <1>3, <1>4, Bearers DEF Good
<1> HIDE DEF owner
<1>6. /\ r.ok => Consistent(made, r.w, {})
      /\ ~r.ok => Settles(made, v, r.w)
  BY <1>3, <1>4, <1>5, SendBulkSends
<1> HIDE DEF r, own
<1> DEFINE a == F!Abandon(r.w, {f})
           x == [a EXCEPT !.server.pending = F!Answered(@, own)]
<1>7. ASSUME ~r.ok PROVE Consistent(made, x, {})
  <2>1. Consistent(made, r.w, {f})
    BY <1>3, <1>6, <1>7, SettlesSound
  <2>2. Expects(r.w, F!Local, own, f)
    BY <1>1, <1>2, <1>3, <1>6, <1>7, SettlesExpects
  <2>3. Settles(made, r.w, a) /\ ~Waiting(a, f)
    BY <2>1, AbandonSettles
  <2>4. r.w \in Worlds(Len(made))
    BY <2>1 DEF Consistent
  <2> HIDE DEF a
  <2>5. Consistent(made, a, {f})
    BY <2>1, <2>3, SettlesSound
  <2>6. Expects(a, F!Local, own, f)
    BY <1>1, <2>2, <2>3, <2>4, SettlesExpects
  <2> QED BY <2>3, <2>5, <2>6, Unasked
<1> QED BY <1>6, <1>7, <1>a

LEMMA ClientRequestGoes ==
    ASSUME made \in Copies, NEW w, NEW f \in F!Fetch, Consistent(made, w, {f}), NEW refuse,
           NEW c \in F!Conn, c # F!Local, NEW id \in Nat, Expects(w, c, id, f)
    PROVE  Consistent(made, F!RouteToOwner(w, c, id, f, refuse), {})
<1>0. w \in Worlds(Known) /\ Known \in Nat
  BY KnownNat DEF Consistent, Known
<1> DEFINE owner == w.server.target.source
           m == F!Request(w.fetch[f].type, c, id, f)
           r == F!SendBulk(w, owner, m, refuse)
<1>1. w.fetch[f].type \in Mime /\ c \in Asker
  BY <1>0 DEF Worlds, Task, Asker
<1>2. F!RouteToOwner(w, c, id, f, refuse) =
          IF r.ok THEN r.w ELSE F!ReplyEmpty(r.w, c, id, f, refuse)
  BY Zenon DEF F!RouteToOwner
<1>3. m \in Frame(Known) /\ m.kind = "request" /\ m.id = id /\ m.tag = f /\ m.for = c
  BY <1>1, RequestTyped
<1> HIDE DEF m
<1>4. owner \in F!Conn => Good(made, w, <<"down", owner>>, m)
  BY <1>3, Bearers DEF Good
<1> HIDE DEF owner
<1>5. /\ r.ok => Consistent(made, r.w, {})
      /\ ~r.ok => Settles(made, w, r.w)
  BY <1>3, <1>4, SendBulkSends
<1> HIDE DEF r
<1>6. ASSUME ~r.ok PROVE Consistent(made, F!ReplyEmpty(r.w, c, id, f, refuse), {})
  <2>1. Consistent(made, r.w, {f})
    BY <1>5, <1>6, SettlesSound
  <2>2. Expects(r.w, c, id, f)
    BY <1>0, <1>1, <1>5, <1>6, SettlesExpects
  <2> QED BY <2>1, <2>2, ReplyEmptyEnds
<1> QED BY <1>2, <1>5, <1>6

LEMMA SomeServe ==
    ASSUME F!FetchAssumption, NEW s \in Serve
    PROVE  s # None
<1>1. MaxConns \in Nat
  BY HandoffAssumption
<1>2. F!Host = Machine \union {0} /\ F!Conn = 1 .. MaxConns /\ Asker \subseteq 0 .. MaxConns
  BY <1>1 DEF F!Host, F!Local, F!Conn, Asker
<1>3. s \in [host : Machine \union {0}, conn : 1 .. MaxConns, for : 0 .. MaxConns, id : Nat]
  BY <1>2 DEF Serve
<1>4. None \notin [host : Machine \union {0}, conn : 1 .. MaxConns,
                   for : 0 .. MaxConns, id : Nat]
  BY Zenon DEF F!FetchAssumption
<1> QED BY <1>3, <1>4

Given(w, f, serve) == [w EXCEPT !.fetch[f].serve = serve]

SameTask(r, s) ==
    /\ r.stage = s.stage /\ r.queued = s.queued /\ r.host = s.host /\ r.type = s.type
    /\ r.copy = s.copy /\ r.lost = s.lost /\ r.wrong = s.wrong /\ r.stale = s.stale

LEMMA GivenFields ==
    ASSUME NEW n, NEW w \in Worlds(n), NEW f \in F!Fetch, NEW serve \in Serve \union {None}
    PROVE  /\ Given(w, f, serve) \in Worlds(n)
           /\ Given(w, f, serve).server = w.server
           /\ Given(w, f, serve).host = w.host
           /\ Given(w, f, serve).link = w.link
           /\ \A g \in F!Fetch \ {f} : Given(w, f, serve).fetch[g] = w.fetch[g]
           /\ Given(w, f, serve).fetch[f].serve = serve
           /\ SameTask(Given(w, f, serve).fetch[f], w.fetch[f])
<1>1. PICK old \in Task(n) : old = w.fetch[f]
  BY DEF Worlds
<1>2. PICK new : new = [old EXCEPT !.serve = serve]
  OBVIOUS
<1>3. new \in Task(n) /\ new.serve = serve /\ SameTask(new, old)
  BY <1>2 DEF Task, SameTask
<1> DEFINE v == Given(w, f, serve)
<1>4. v = [w EXCEPT !.fetch[f] = new]
  BY <1>1, <1>2 DEF Given, Worlds, Task
<1> HIDE DEF v
<1>5. /\ v \in Worlds(n) /\ v.server = w.server /\ v.host = w.host /\ v.link = w.link
      /\ \A g \in F!Fetch \ {f} : v.fetch[g] = w.fetch[g]
      /\ v.fetch[f] = new
  BY <1>3, <1>4 DEF Worlds
<1> QED BY <1>1, <1>3, <1>5 DEF v

LEMMA GivenCarries ==
    ASSUME NEW n, NEW w \in Worlds(n), NEW f \in F!Fetch, NEW serve \in Serve \union {None}
    PROVE  Carries(w, Given(w, f, serve))
<1> DEFINE v == Given(w, f, serve)
<1>1. /\ v.server = w.server /\ v.host = w.host /\ v.link = w.link
      /\ \A g \in F!Fetch \ {f} : v.fetch[g] = w.fetch[g]
      /\ SameTask(v.fetch[f], w.fetch[f])
  BY GivenFields
<1> HIDE DEF v
<1>2. \A g \in F!Fetch : SameTask(v.fetch[g], w.fetch[g])
  BY <1>1 DEF SameTask
<1>3. SameTables(w, v)
  BY <1>1 DEF SameTables
<1>4. \A asker \in Asker, id \in Nat, g \in F!Fetch :
          Expects(w, asker, id, g) => Expects(v, asker, id, g)
  BY <1>1, <1>2, <1>3, CarriesTables DEF SameTask
<1>5. Carries(w, v)
  BY <1>1, <1>2, <1>4 DEF Carries, SameTask
<1> QED BY <1>5 DEF v

LEMMA ServeGoes ==
    ASSUME F!FetchAssumption, NEW k, NEW w, NEW f \in F!Fetch, Consistent(k, w, {f}),
           NEW serve \in Serve, Expects(w, ServedFor(serve), serve.id, f)
    PROVE  Consistent(k, Given(w, f, serve), {})
<1>0. w \in Worlds(Len(k))
  BY DEF Consistent
<1> DEFINE v == Given(w, f, serve)
<1>1. /\ v \in Worlds(Len(k)) /\ v.server = w.server /\ v.host = w.host /\ v.link = w.link
      /\ \A g \in F!Fetch \ {f} : v.fetch[g] = w.fetch[g]
      /\ v.fetch[f].serve = serve
      /\ SameTask(v.fetch[f], w.fetch[f])
  BY <1>0, GivenFields
<1>2. Carries(w, v)
  BY <1>0, GivenCarries
<1> HIDE DEF v
<1>3. serve # None
  BY SomeServe
<1>4. ServedFor(serve) \in Asker /\ serve.id \in Nat
  BY DEF Serve, ServedFor, Asker
<1>5. Expects(v, ServedFor(serve), serve.id, f)
  BY <1>2, <1>4 DEF Carries
<1>6. \A g \in F!Fetch : v.fetch[g].queued = w.fetch[g].queued
  BY <1>1 DEF SameTask
<1>7. Consistent(k, v, {})
  BY <1>1, <1>2, <1>3, <1>5, <1>6, PutServe
<1> QED BY <1>7 DEF v

LEMMA RouteEnds ==
    ASSUME F!FetchAssumption, made \in Copies, NEW w, NEW f \in F!Fetch,
           Consistent(made, w, {f}), NEW c \in Asker, NEW id, NEW refuse,
           c = F!Local => id = None,
           c # F!Local => id \in Nat /\ Expects(w, c, id, f)
    PROVE  Consistent(made, F!Route(w, c, id, f, refuse), {})
<1>0. w \in Worlds(Known) /\ Known \in Nat
  BY KnownNat DEF Consistent, Known
<1>a. F!Local \notin F!Conn
  BY DEF F!Local, F!Conn
<1> DEFINE target == w.server.target
           no == target = None
           fails == \/ made[target.copy].type # w.fetch[f].type
                    \/ (target.source = F!Local /\ c = F!Local)
<1>1. CASE no \/ fails
  <2>1. F!Route(w, c, id, f, refuse) = F!FailFetch(w, c, id, f, refuse)
    BY <1>1, Zenon DEF F!Route
  <2> QED BY <2>1, FailFetchEnds
<1>2. CASE ~no /\ ~fails /\ target.source # F!Local
  <2>1. F!Route(w, c, id, f, refuse) = F!RouteToOwner(w, c, id, f, refuse)
    BY <1>2, Zenon DEF F!Route
  <2>2. CASE c = F!Local
    BY <2>1, <2>2, OwnRequestGoes
  <2>3. CASE c # F!Local
    BY <2>1, <2>3, ClientRequestGoes DEF Asker
  <2> QED BY <2>2, <2>3
<1>3. CASE ~no /\ ~fails /\ target.source = F!Local /\ c \in w.server.listed
  <2>1. F!Route(w, c, id, f, refuse) = Given(w, f, F!Serving(F!Local, c, F!Local, id))
    BY <1>3, Zenon DEF F!Route, Given
  <2>2. c \in F!Conn /\ c # F!Local /\ F!Local \in F!Host /\ F!Local \in Asker
    BY <1>0, <1>3, <1>a DEF Worlds, Rotation, F!Host, Asker
  <2> DEFINE s == F!Serving(F!Local, c, F!Local, id)
  <2>3. s \in Serve /\ ServedFor(s) = c /\ s.id = id
    BY <2>2 DEF F!Serving, Serve, ServedFor
  <2> HIDE DEF s
  <2>4. Consistent(made, Given(w, f, s), {})
    BY <2>2, <2>3, ServeGoes
  <2> QED BY <2>1, <2>4 DEF s
<1>4. CASE ~no /\ ~fails /\ target.source = F!Local /\ c \notin w.server.listed
  <2>1. F!Route(w, c, id, f, refuse) = F!Lose(w, {f})
    BY <1>4, Zenon DEF F!Route
  <2> QED BY <2>1, LostInHand
<1> QED BY <1>1, <1>2, <1>3, <1>4

\* clipboard_send_content_from_client, with the answer just taken from a queue.
LEMMA SendContentEnds ==
    ASSUME made \in Copies, NEW w, NEW m \in Frame(Known), m.kind = "answer",
           Consistent(made, w, {m.tag}), NEW c \in F!Conn, Good(made, w, <<"up", c>>, m), NEW refuse
    PROVE  Consistent(made, F!SendContent(w, m, refuse), {})
<1>0. w \in Worlds(Known) /\ Known \in Nat
  BY KnownNat DEF Consistent, Known
<1>1. <<"up", c>> \in Lane
  BY DEF Lane
<1>2. m.tag \in F!Fetch /\ m.id \in Nat /\ m.for \in Asker /\ m.content \in Content(Known)
  BY <1>1, FrameParts
<1>3. /\ Expects(w, m.for, m.id, m.tag)
      /\ Waiting(w, m.tag) => Follows(made, m.content.copy, w.fetch[m.tag].copy)
  BY Bearers DEF Good
<1>4. CASE m.for # F!Local
  <2> DEFINE r == F!SendBulk(w, m.for, m, refuse)
  <2>1. Good(made, w, <<"down", m.for>>, m)
    BY <1>3, Bearers DEF Good
  <2>2. /\ r.ok => Consistent(made, r.w, {})
        /\ ~r.ok => Settles(made, w, r.w)
    BY <1>2, <2>1, SendBulkSends
  <2>3. F!SendContent(w, m, refuse) = IF r.ok THEN r.w ELSE F!Lose(r.w, {m.tag})
    BY <1>4, Zenon DEF F!SendContent
  <2> HIDE DEF r
  <2>4. ~r.ok => Consistent(made, F!Lose(r.w, {m.tag}), {})
    BY <1>2, <2>2, SettlesSound, LostInHand
  <2> QED BY <2>2, <2>3, <2>4
<1>5. CASE m.for = F!Local /\ m.id \notin DOMAIN w.server.pending
  <2>1. F!SendContent(w, m, refuse) = w
    BY <1>5, Zenon DEF F!SendContent
  <2>2. ~Waits(w, m.tag)
    BY <1>3, <1>5 DEF Expects
  <2> QED BY <1>2, <2>1, <2>2, Dropped
<1>6. CASE m.for = F!Local /\ m.id \in DOMAIN w.server.pending
  <2> DEFINE p == w.server.pending
             t == F!Answered(p, m.id)
             u == [w EXCEPT !.server.pending = t]
             v == F!Complete(u, m.tag, m.type, m.content, m.tag)
  <2>1. p[m.id] = m.tag
    BY <1>3, <1>6 DEF Expects
  <2>2. F!SendContent(w, m, refuse) = F!Complete([w EXCEPT !.server.pending =
                          F!Answered(@, m.id)], p[m.id], m.type, m.content, m.tag)
    BY <1>6, Zenon DEF F!SendContent
  <2>3. F!SendContent(w, m, refuse) = v
    BY <2>1, <2>2
  <2>4. /\ t \in Table /\ DOMAIN t = DOMAIN p \ {m.id} /\ \A i \in DOMAIN t : t[i] = p[i]
    BY <1>0, Tables, AnsweredTable
  <2> HIDE DEF t
  <2>5. /\ u \in Worlds(Known) /\ u.host = w.host /\ u.link = w.link /\ u.fetch = w.fetch
        /\ u.server.listed = w.server.listed /\ u.server.nextId = w.server.nextId
        /\ u.server.target = w.server.target /\ u.server.pending = t
    <3>1. w.server \in Rotation(Known)
      BY <1>0 DEF Worlds
    <3>2. PICK s : s = [w.server EXCEPT !.pending = t]
      OBVIOUS
    <3>3. /\ s \in Rotation(Known) /\ s.listed = w.server.listed /\ s.nextId = w.server.nextId
          /\ s.target = w.server.target /\ s.pending = t
      BY <2>4, <3>1, <3>2 DEF Rotation
    <3>4. u = [w EXCEPT !.server = s]
      BY <1>0, <3>2 DEF Worlds
    <3> QED BY <1>0, <3>3, <3>4 DEF Worlds
  <2>6. ForgetsBut(p, t, m.tag)
    BY <2>1, <2>4 DEF ForgetsBut
  <2>7. \A q : ForgetsBut(q, q, m.tag)
    BY DEF ForgetsBut
  <2> HIDE DEF u
  <2>8. Settles(made, w, v) /\ ~Waiting(v, m.tag)
    BY <1>2, <1>3, <2>5, <2>6, <2>7, CompleteSettles
  <2> HIDE DEF v
  <2>9. Consistent(made, v, {m.tag}) /\ ~Waits(v, m.tag)
    BY <2>8, SettlesSound DEF Waits
  <2> QED BY <1>2, <2>3, <2>9, Dropped
<1> QED BY <1>4, <1>5, <1>6

-----------------------------------------------------------------------------
(* The serving task.                                                       *)

LEMMA ReplyEnds ==
    ASSUME made \in Copies, NEW w, NEW f \in F!Fetch, Consistent(made, w, {}),
           w.fetch[f].serve # None,
           \A h \in F!Host : w.host[h].lock # None => w.host[h].lock.by # f,
           NEW content \in Content(Known),
           Waiting(w, f) => Follows(made, content.copy, w.fetch[f].copy),
           NEW refused \in BOOLEAN
    PROVE  Consistent(made, F!Reply(w, f, content, refused), {})
<1>0. w \in Worlds(Known) /\ Known \in Nat
  BY KnownNat DEF Consistent, Known
<1> DEFINE s == w.fetch[f].serve
           v == Given(w, f, None)
           m == F!Answer(w.fetch[f].type, s.for, s.id, content, f)
<1>1. s \in Serve /\ w.fetch[f].type \in Mime
  BY <1>0 DEF Worlds, Task
<1>2. /\ v \in Worlds(Known) /\ v.server = w.server /\ v.host = w.host /\ v.link = w.link
      /\ \A g \in F!Fetch \ {f} : v.fetch[g] = w.fetch[g]
      /\ v.fetch[f].serve = None
      /\ SameTask(v.fetch[f], w.fetch[f])
      /\ Carries(w, v)
  BY <1>0, GivenFields, GivenCarries
<1>3. s.host \in F!Host /\ s.conn \in F!Conn /\ s.for \in Asker /\ s.id \in Nat
      /\ ServedFor(s) \in Asker
  BY <1>1 DEF Serve, ServedFor, Asker
<1>4. Expects(v, ServedFor(s), s.id, f)
  BY <1>2, <1>3 DEF Consistent, Serves, Carries
<1>5. m \in Frame(Known) /\ m.kind = "answer" /\ m.id = s.id /\ m.tag = f /\ m.for = s.for
      /\ m.content = content
  BY <1>1, <1>3 DEF F!Answer, Frame, Answer
<1>6. Consistent(made, v, {f})
  <2>1. ~w.fetch[f].queued
    BY DEF Consistent, Alone
  <2>2. ~v.fetch[f].queued
    BY <1>2, <2>1 DEF SameTask
  <2> HIDE DEF v, m
  <2> QED BY <1>2, <2>2, TakeTask DEF Known
<1>7. F!Reply(w, f, content, refused) =
          IF refused
          THEN IF s.host = F!Local THEN F!RemoveClient(F!Lose(v, {f}), s.conn)
               ELSE F!Lose(v, {f})
          ELSE IF ~w.link[s.conn].open THEN F!Lose(v, {f})
          ELSE IF s.host = F!Local THEN SentDown(v, s.conn, m)
          ELSE SentUp(v, s.conn, m)
  BY Zenon DEF F!Reply, Given, SentDown, SentUp
<1>8. Waiting(v, f) => Follows(made, m.content.copy, v.fetch[f].copy)
  BY <1>2, <1>5 DEF Waiting, SameTask
<1> HIDE DEF v, m
<1>9. Consistent(made, F!Lose(v, {f}), {})
  BY <1>6, LostInHand
<1>10. Consistent(made, F!RemoveClient(F!Lose(v, {f}), s.conn), {})
  BY <1>9, RemoveClientSettles, SettlesSound
<1>11. CASE refused
  BY <1>7, <1>9, <1>10, <1>11
<1>12. CASE ~refused /\ ~w.link[s.conn].open
  BY <1>7, <1>9, <1>12
<1>13. CASE ~refused /\ w.link[s.conn].open /\ s.host = F!Local
  <2>1. ServedFor(s) = s.conn
    BY <1>13 DEF ServedFor
  <2>2. Good(made, v, <<"down", s.conn>>, m)
    BY <1>4, <1>5, <1>8, <2>1, Bearers DEF Good
  <2>3. v.link[s.conn].open
    BY <1>2, <1>13
  <2>4. Consistent(made, SentDown(v, s.conn, m), {})
    BY <1>3, <1>5, <1>6, <2>2, <2>3, DownPut DEF Known
  <2>5. F!Reply(w, f, content, refused) = SentDown(v, s.conn, m)
    BY <1>7, <1>13
  <2> QED BY <2>4, <2>5
<1>14. CASE ~refused /\ w.link[s.conn].open /\ s.host # F!Local
  <2>1. ServedFor(s) = s.for
    BY <1>14 DEF ServedFor
  <2>c. m.kind = "answer" /\ m.for = s.for
    BY <1>5
  <2>a. Bearer(<<"up", s.conn>>, m) = s.for
    <3> HIDE DEF s
    <3> QED BY ONLY <2>c, Bearers
  <2>b. Expects(v, Bearer(<<"up", s.conn>>, m), m.id, m.tag)
    BY <1>4, <1>5, <2>1, <2>a
  <2>2. Good(made, v, <<"up", s.conn>>, m)
    BY ONLY <1>5, <1>8, <2>b DEF Good
  <2>3. v.link[s.conn].open
    BY <1>2, <1>14
  <2>4. Consistent(made, SentUp(v, s.conn, m), {})
    BY <1>3, <1>5, <1>6, <2>2, <2>3, UpPut DEF Known
  <2>5. F!Reply(w, f, content, refused) = SentUp(v, s.conn, m)
    BY <1>7, <1>14
  <2> QED BY <2>4, <2>5
<1> QED BY <1>11, <1>12, <1>13, <1>14

\* A machine's reader changes, and nothing else.
LEMMA ReaderChanges ==
    ASSUME NEW k, NEW w, NEW v, NEW hand, Consistent(k, w, hand), v \in Worlds(Len(k)),
           v.server = w.server, v.link = w.link, v.fetch = w.fetch,
           \A h \in F!Host :
               /\ v.host[h].app = w.host[h].app /\ v.host[h].news = w.host[h].news
               /\ v.host[h].local = w.host[h].local /\ v.host[h].offer = w.host[h].offer,
           Locks(v),
           \A h \in F!Host :
               /\ v.host[h].served # None =>
                     /\ MadeAt(k, v.host[h].served, h)
                     /\ Newest(k, w, h, v.host[h].served)
               /\ v.host[h].lock # None /\ v.host[h].lock.got \notin {0, None} =>
                     /\ MadeAt(k, v.host[h].lock.got, h)
                     /\ v.host[h].lock.fresh => Newest(k, w, h, v.host[h].lock.got)
                     /\ Waiting(w, v.host[h].lock.by) =>
                           Follows(k, v.host[h].lock.got,
                                    w.fetch[v.host[h].lock.by].copy)
    PROVE  Consistent(k, v, hand)
<1>1. \A l \in Lane : Queue(v, l) = Queue(w, l)
  BY DEF Queue
<1>2. \A f : InQueue(v, f) <=> InQueue(w, f)
  BY <1>1 DEF InQueue
<1>3. \A f : (Waiting(v, f) <=> Waiting(w, f)) /\ (Waits(v, f) <=> Waits(w, f))
  BY DEF Waiting, Waits
<1>4. \A asker, id, f : Expects(v, asker, id, f) <=> Expects(w, asker, id, f)
  BY <1>3 DEF Expects
<1>5. Wired(v)
  BY DEF Consistent, Wired
<1>6. Mail(k, v)
  BY <1>1, <1>3, <1>4 DEF Consistent, Mail, Good
<1>7. Serves(v)
  BY <1>4 DEF Consistent, Serves
<1>8. Alone(v)
  <2>1. Alone(w)
    BY DEF Consistent
  <2> QED BY <2>1, <1>1, <1>2 DEF Alone
<1>9. Tracked(v, hand)
  BY <1>2, <1>3 DEF Consistent, Tracked
<1>10. Sources(k, v)
  BY DEF Consistent, Sources
<1>11. \A p : Published(v, p) <=> Published(w, p)
  <2>1. \A p : (\E h \in F!Host : v.host[h].offer # None /\ v.host[h].offer.copy = p)
                 <=> \E h \in F!Host : w.host[h].offer # None /\ w.host[h].offer.copy = p
    OBVIOUS
  <2>2. \A p : (\E h \in F!Host : v.host[h].local = p) <=> \E h \in F!Host : w.host[h].local = p
    OBVIOUS
  <2> QED BY <1>3, <2>1, <2>2 DEF Published
<1>12. Cached(k, v)
  <2>1. \A h, copy : Newest(k, v, h, copy) <=> Newest(k, w, h, copy)
    BY <1>11 DEF Newest
  <2> QED BY <1>3, <2>1 DEF Cached
<1>13. \A h \in F!Host : OfferSound(k, v, h)
  BY <1>3 DEF Consistent, OfferSound
<1>14. \A f \in F!Fetch : FetchSound(k, v, f)
  BY <1>3 DEF Consistent, FetchSound
<1> QED BY <1>5, <1>6, <1>7, <1>8, <1>9, <1>10, <1>12, <1>13, <1>14 DEF Consistent

-----------------------------------------------------------------------------
(* The invariant, and the steps.                                           *)

Now == F!World

FetchesInv ==
    /\ made \in Copies /\ Known <= MaxCopies
    /\ Consistent(made, Now, {})

LEMMA NowFields ==
    /\ Now.server = rotation /\ Now.host = host /\ Now.link = link /\ Now.fetch = fetch
  BY DEF Now, F!World

LEMMA Lands ==
    ASSUME FetchesInv, NEW v, Consistent(made, v, {}), F!Becomes(v), UNCHANGED made
    PROVE  FetchesInv'
<1>1. v \in Worlds(Known)
  BY DEF Consistent, Known
<1>2. v = [server |-> v.server, host |-> v.host, link |-> v.link, fetch |-> v.fetch]
  BY <1>1 DEF Worlds
<1>3. Now' = v
  BY <1>2 DEF Now, F!World, F!Becomes
<1> QED BY <1>3, Zenon DEF FetchesInv, Known

\* Whatever settles keeps the invariant.
LEMMA SettlesLands ==
    ASSUME FetchesInv, NEW v, Settles(made, Now, v), F!Becomes(v), UNCHANGED made
    PROVE  FetchesInv'
<1>1. Consistent(made, v, {})
  BY SettlesSound DEF FetchesInv
<1> QED BY <1>1, Lands

LEMMA NewsTaken ==
    ASSUME NEW n, NEW w \in Worlds(n), NEW h \in F!Host
    PROVE  LET v == [w EXCEPT !.host[h].news = None]
           IN  /\ v \in Worlds(n) /\ v.server = w.server /\ v.link = w.link
               /\ v.fetch = w.fetch
               /\ \A g \in F!Host : Readvertises(w, v, g)
<1> DEFINE v == [w EXCEPT !.host[h].news = None]
<1>1. PICK old \in Machinery(n) : old = w.host[h]
  BY DEF Worlds
<1>2. PICK new : new = [old EXCEPT !.news = None]
  OBVIOUS
<1>3. /\ new \in Machinery(n) /\ new.app = old.app /\ new.news = None
      /\ new.local = old.local /\ new.offer = old.offer
      /\ new.served = old.served /\ new.lock = old.lock
  BY <1>2 DEF Machinery
<1>4. v = [w EXCEPT !.host[h] = new]
  BY <1>1, <1>2 DEF Worlds, Machinery
<1> HIDE DEF v
<1>5. /\ v \in Worlds(n) /\ v.server = w.server /\ v.link = w.link /\ v.fetch = w.fetch
      /\ \A g \in F!Host \ {h} : v.host[g] = w.host[g]
      /\ v.host[h] = new
  BY <1>3, <1>4 DEF Worlds
<1>6. \A g \in F!Host : Readvertises(w, v, g)
  BY <1>1, <1>3, <1>5 DEF Readvertises
<1> QED BY <1>5, <1>6 DEF v

LEMMA ServerTypesChangedKeepsFetches ==
    ASSUME FetchesInv, NEW current \in rotation.listed \union {F!Local},
           F!ServerTypesChanged(current)
    PROVE  FetchesInv'
<1> DEFINE v == [Now EXCEPT !.host[F!Local].news = None]
           news == host[F!Local].news
           x == F!UpdateSource(v, F!Local, news, current)
<1>0. /\ Consistent(made, Now, {}) /\ made \in Copies /\ Now \in Worlds(Known)
      /\ F!Local \in F!Host /\ F!Local \in Asker
  BY DEF FetchesInv, Consistent, Known, F!Host, Asker
<1>1. F!Becomes(x) /\ UNCHANGED made /\ news # None
  BY NowFields DEF F!ServerTypesChanged, Now
<1>2. /\ v \in Worlds(Known) /\ v.server = Now.server /\ v.link = Now.link
      /\ v.fetch = Now.fetch
      /\ \A g \in F!Host : Readvertises(Now, v, g)
  BY <1>0, NewsTaken
<1> HIDE DEF v
<1>3. Settles(made, Now, v)
  BY <1>0, <1>2, HostsSettle, HandoffAssumption DEF Known
<1>4. Consistent(made, v, {})
  BY <1>0, <1>3, SettlesSound
<1>5. news \in 0 .. Known
  <2>1. host[F!Local] \in Machinery(Known)
    BY <1>0, NowFields DEF Worlds
  <2> QED BY <1>1, <2>1 DEF Machinery
<1>6. news = 0 \/ MadeAt(made, news, F!Local)
  BY <1>0, <1>1, NowFields DEF Consistent, Sources
<1>7. current \in Focus(v)
  BY <1>2, NowFields DEF Focus
<1> HIDE DEF news
<1>8. Settles(made, v, x)
  BY <1>0, <1>4, <1>5, <1>6, <1>7, UpdateSourceSettles
<1> HIDE DEF x
<1>9. Settles(made, Now, x)
  BY <1>0, <1>3, <1>8, SettlesTransitive DEF Known
<1> QED BY <1>1, <1>9, SettlesLands

LEMMA ClientAnnouncesKeepsFetches ==
    ASSUME FetchesInv, NEW current \in rotation.listed \union {F!Local}, NEW m \in Machine,
           F!ClientAnnounces(m, current)
    PROVE  FetchesInv'
<1>0. /\ Consistent(made, Now, {}) /\ made \in Copies /\ Now \in Worlds(Known)
      /\ m \in F!Host
  BY DEF FetchesInv, Consistent, Known, F!Host
<1> DEFINE local == host[m].local
<1>1. PICK c \in F!ConnOf(m) : F!Becomes(F!UpdateSource(Now, c, local, current))
  BY DEF F!ClientAnnounces, Now
<1>2. UNCHANGED made /\ local # None /\ c \in Asker
  BY DEF F!ClientAnnounces, F!ConnOf, Asker
<1>3. local \in 0 .. Known
  <2>1. host[m] \in Machinery(Known)
    BY <1>0, NowFields DEF Worlds
  <2> QED BY <1>2, <2>1 DEF Machinery
<1>4. Published(Now, local)
  BY <1>0, NowFields DEF Published
<1>5. current \in Focus(Now)
  BY NowFields DEF Focus
<1> HIDE DEF local
<1>6. Settles(made, Now, F!UpdateSource(Now, c, local, current))
  BY <1>0, <1>2, <1>3, <1>4, <1>5, UpdateSourceSettles
<1> QED BY <1>1, <1>2, <1>6, SettlesLands

LEMMA FocusMovesKeepsFetches ==
    ASSUME FetchesInv, NEW current \in rotation.listed \union {F!Local}, F!FocusMoves(current)
    PROVE  FetchesInv'
<1>1. current \in Focus(Now)
  BY NowFields DEF Focus
<1>2. Settles(made, Now, F!AnnounceTo(Now, current))
  BY <1>1, AnnounceToSettles DEF FetchesInv
<1> QED BY <1>2, SettlesLands DEF F!FocusMoves, Now

LEMMA FetchTimesOutKeepsFetches ==
    ASSUME FetchesInv, NEW f \in F!Fetch, F!FetchTimesOut(f)
    PROVE  FetchesInv'
<1>1. Settles(made, Now, F!Abandon(Now, {f}))
  BY AbandonSettles DEF FetchesInv
<1> QED BY <1>1, SettlesLands DEF F!FetchTimesOut, Now

LEMMA ServerNoticesLossKeepsFetches ==
    ASSUME FetchesInv, NEW c \in F!Conn, F!ServerNoticesLoss(c)
    PROVE  FetchesInv'
<1>1. Settles(made, Now, F!RemoveClient(Now, c))
  BY RemoveClientSettles DEF FetchesInv
<1> QED BY <1>1, SettlesLands DEF F!ServerNoticesLoss, Now

LEMMA ClientTypesChangedKeepsFetches ==
    ASSUME FetchesInv, NEW m \in Machine, NEW active \in BOOLEAN, F!ClientTypesChanged(m, active)
    PROVE  FetchesInv'
<1> DEFINE v == [Now EXCEPT !.host[m].news = None]
           news == host[m].news
           u == [v EXCEPT !.host[m].local = news, !.host[m].serving = FALSE]
           x == F!Invalidate(u, m)
<1>0. /\ Consistent(made, Now, {}) /\ made \in Copies /\ Now \in Worlds(Known)
      /\ m \in F!Host /\ Known \in Nat
  BY KnownNat DEF FetchesInv, Consistent, Known, F!Host
<1>1. /\ F!Becomes(IF active THEN x ELSE v) /\ UNCHANGED made
      /\ news # None
  BY DEF F!ClientTypesChanged, Now
<1>2. /\ v \in Worlds(Known) /\ v.server = Now.server /\ v.link = Now.link
      /\ v.fetch = Now.fetch
      /\ \A g \in F!Host : Readvertises(Now, v, g)
  BY <1>0, NewsTaken
<1> HIDE DEF v
<1>3. Settles(made, Now, v)
  BY <1>0, <1>2, HostsSettle, HandoffAssumption DEF Known
<1>4. Consistent(made, v, {})
  BY <1>0, <1>3, SettlesSound
<1>5. CASE ~active
  BY <1>1, <1>3, <1>5, SettlesLands
<1>6. CASE active
  <2>1. news \in 0 .. Known /\ (news # 0 => MadeAt(made, news, m))
    <3>1. host[m] \in Machinery(Known)
      BY <1>0, NowFields DEF Worlds
    <3>2. news \in 0 .. Known
      BY <1>1, <3>1 DEF Machinery
    <3> QED BY <1>0, <1>1, <3>2, NowFields DEF Consistent, Sources
  <2>2. /\ u \in Worlds(Known) /\ u.server = v.server /\ u.link = v.link
        /\ u.fetch = v.fetch
        /\ \A g \in F!Host \ {m} : u.host[g] = v.host[g]
        /\ u.host[m].app = v.host[m].app /\ u.host[m].news = v.host[m].news
        /\ u.host[m].local = news /\ u.host[m].offer = v.host[m].offer
        /\ u.host[m].served = v.host[m].served /\ u.host[m].lock = v.host[m].lock
    <3>1. PICK old \in Machinery(Known) : old = v.host[m]
      BY <1>0, <1>2 DEF Worlds
    <3>2. PICK local \in 0 .. Known : local = news
      BY <2>1
    <3>3. PICK new : new = [old EXCEPT !.local = local, !.serving = FALSE]
      OBVIOUS
    <3>4. /\ new \in Machinery(Known) /\ new.app = old.app /\ new.news = old.news
          /\ new.local = local /\ new.offer = old.offer
          /\ new.served = old.served /\ new.lock = old.lock
      BY <3>3 DEF Machinery
    <3>5. u = [v EXCEPT !.host[m] = new]
      BY <1>0, <1>2, <3>1, <3>2, <3>3 DEF Worlds, Machinery
    <3> HIDE DEF u, news
    <3>6. /\ u \in Worlds(Known) /\ u.server = v.server /\ u.link = v.link
          /\ u.fetch = v.fetch
          /\ \A g \in F!Host \ {m} : u.host[g] = v.host[g]
          /\ u.host[m] = new
      BY <1>0, <1>2, <3>4, <3>5 DEF Worlds
    <3> QED BY <3>1, <3>2, <3>4, <3>6
  <2> HIDE DEF u, news
  <2>3. /\ x \in Worlds(Known) /\ x.server = u.server /\ x.link = u.link
        /\ x.fetch = u.fetch
        /\ \A g \in F!Host : Readvertises(u, x, g)
        /\ Invalidated(x, m)
        /\ \A g \in F!Host :
              /\ x.host[g].app = u.host[g].app /\ x.host[g].local = u.host[g].local
              /\ x.host[g].news = u.host[g].news /\ x.host[g].offer = u.host[g].offer
    BY <1>0, <2>2, InvalidateFields
  <2> HIDE DEF x
  <2>4. \A f \in F!Fetch : SettlesFetch(made, v, x, f)
    BY <1>4, <2>2, <2>3 DEF Consistent, FetchSound, SettlesFetch
  <2>5. \A g \in F!Host : x.host[g].offer = v.host[g].offer
    BY <2>2, <2>3
  <2>6. \A g \in F!Host : x.host[g].local = v.host[g].local
                          \/ (g = m /\ x.host[g].local = news)
    BY <2>2, <2>3
  <2>7. ASSUME NEW p \in 1 .. Len(made), NEW h \in F!Host, Published(x, p), made[p].host = h
        PROVE  Published(v, p) \/ Invalidated(x, h)
    <3>1. CASE \E g \in F!Host : x.host[g].offer # None /\ x.host[g].offer.copy = p
      BY <2>5, <3>1 DEF Published
    <3>2. CASE \E g \in F!Host : x.host[g].local = p
      <4>1. CASE p = news
        <5>1. news # 0
          BY <4>1
        <5> QED BY <2>1, <2>3, <2>7, <4>1, <5>1 DEF MadeAt
      <4>2. CASE p # news
        BY <2>6, <3>2, <4>2 DEF Published
      <4> QED BY <4>1, <4>2
    <3>3. CASE x.server.target # None /\ x.server.target.copy = p
      BY <2>2, <2>3, <3>3 DEF Published
    <3>4. CASE \E g \in F!Fetch : Waiting(x, g) /\ x.fetch[g].copy = p
      BY <2>2, <2>3, <3>4 DEF Published, Waiting
    <3> QED BY <2>7, <3>1, <3>2, <3>3, <3>4 DEF Published
  <2>8. SettlesServer(made, Now, x)
    <3>1. ASSUME NEW p \in 1 .. Len(made), NEW h \in F!Host, Published(x, p),
                 made[p].host = h
          PROVE  Published(Now, p) \/ Invalidated(x, h)
      <4>1. Published(v, p) \/ Invalidated(x, h)
        BY <2>7, <3>1
      <4>2. Published(v, p) => Published(Now, p) \/ Invalidated(v, h)
        BY <1>3, <3>1 DEF Settles, SettlesServer
      <4>3. Invalidated(v, h) => Invalidated(x, h)
        <5>1. CASE h = m
          BY <2>3, <5>1
        <5>2. CASE h # m
          <6>1. u.host[h] = v.host[h] /\ Readvertises(u, x, h)
            BY <2>2, <2>3, <5>2
          <6> QED BY <6>1 DEF Invalidated, Readvertises
        <5> QED BY <5>1, <5>2
      <4> QED BY <4>1, <4>2, <4>3
    <3> QED BY <1>2, <2>2, <2>3, <3>1 DEF SettlesServer, Forgets
  <2>9. ASSUME NEW g \in F!Host PROVE SettlesHost(made, Now, x, g)
    <3>1. OfferSound(made, x, g)
      <4>1. OfferSound(made, v, g)
        BY <1>4 DEF Consistent
      <4> QED BY <1>0, <1>2, <2>4, <2>5, <4>1, OfferKept
    <3>2. /\ x.host[g].local \in {u.host[g].local} /\ Readvertises(u, x, g)
          /\ Readvertises(Now, v, g)
      BY <1>2, <2>3
    <3>3. CASE g = m
      BY <2>2, <3>1, <3>2, <3>3, NowFields DEF SettlesHost, Readvertises, news
    <3>4. CASE g # m
      BY <2>2, <3>1, <3>2, <3>4 DEF SettlesHost, Readvertises
    <3> QED BY <3>3, <3>4
  <2>10. \A f \in F!Fetch : SettlesFetch(made, Now, x, f)
    BY <1>2, <2>4 DEF SettlesFetch, Waiting
  <2>11. \A c \in F!Conn : SettlesLink(Now, x, c)
    BY <1>2, <2>2, <2>3 DEF SettlesLink, Forgets
  <2>12. Settles(made, Now, x)
    BY <2>3, <2>8, <2>9, <2>10, <2>11 DEF Settles, Known
  <2> QED BY <1>1, <1>6, <2>12, SettlesLands
<1> QED BY <1>5, <1>6

\* A fetch is taken off the queue of its machine.
Dequeued(r, h) == [r EXCEPT !.queued = FALSE, !.host = h]
Taken(w, f, h) == [w EXCEPT !.fetch[f] = Dequeued(w.fetch[f], h)]

LEMMA TakenSound ==
    ASSUME NEW k, NEW w, Consistent(k, w, {}), NEW f \in F!Fetch, w.fetch[f].queued,
           NEW h \in F!Host
    PROVE  /\ Consistent(k, Taken(w, f, h), {f})
           /\ Taken(w, f, h).server = w.server /\ Taken(w, f, h).host = w.host
           /\ Taken(w, f, h).link = w.link
           /\ \A g \in F!Fetch \ {f} : Taken(w, f, h).fetch[g] = w.fetch[g]
           /\ Taken(w, f, h).fetch[f] = Dequeued(w.fetch[f], h)
           /\ Taken(w, f, h).fetch[f].stage = w.fetch[f].stage
           /\ Taken(w, f, h).fetch[f].type = w.fetch[f].type
<1> DEFINE v == Taken(w, f, h)
<1>0. w \in Worlds(Len(k))
  BY DEF Consistent
<1>1. PICK old \in Task(Len(k)) : old = w.fetch[f]
  BY <1>0 DEF Worlds
<1>2. PICK new : new = [old EXCEPT !.queued = FALSE, !.host = h]
  OBVIOUS
<1>3. /\ new \in Task(Len(k)) /\ new.stage = old.stage /\ new.type = old.type
      /\ new.copy = old.copy /\ new.serve = old.serve /\ new.lost = old.lost
      /\ new.wrong = old.wrong /\ new.stale = old.stale /\ ~new.queued
  BY <1>2 DEF Task
<1>4. /\ v \in Worlds(Len(k)) /\ v.server = w.server /\ v.host = w.host
      /\ v.link = w.link /\ v.fetch[f] = new
      /\ \A g \in F!Fetch \ {f} : v.fetch[g] = w.fetch[g]
  <2>1. v = [w EXCEPT !.fetch[f] = new]
    BY <1>1, <1>2 DEF Taken, Dequeued
  <2> HIDE DEF v
  <2> QED BY <1>0, <1>3, <2>1 DEF Worlds
<1> HIDE DEF v
<1>5. SameTables(w, v)
  BY <1>4 DEF SameTables
<1>6. \A g \in F!Fetch :
          /\ v.fetch[g].stage = w.fetch[g].stage /\ v.fetch[g].copy = w.fetch[g].copy
          /\ v.fetch[g].lost = w.fetch[g].lost /\ v.fetch[g].serve = w.fetch[g].serve
          /\ v.fetch[g].wrong = w.fetch[g].wrong /\ v.fetch[g].stale = w.fetch[g].stale
  BY <1>1, <1>3, <1>4
<1>7. Carries(w, v)
  <2>1. \A asker \in Asker, id \in Nat, g \in F!Fetch :
            Expects(w, asker, id, g) => Expects(v, asker, id, g)
    BY <1>4, <1>5, <1>6, CarriesTables
  <2> QED BY <1>4, <1>6, <2>1 DEF Carries
<1>8. w.fetch[f].serve = None /\ v.fetch[f].serve = None
  BY <1>6 DEF Consistent, Alone
<1>9. \A g \in F!Host : w.host[g].lock # None => w.host[g].lock.by # f
  BY <1>8 DEF Consistent, Locks
<1>10. Consistent(k, v, {f})
  BY <1>3, <1>4, <1>6, <1>7, <1>8, <1>9, TakeTask
<1> QED BY <1>1, <1>2, <1>3, <1>4, <1>10 DEF v, Dequeued

LEMMA RotationTakesFetchKeepsFetches ==
    ASSUME F!FetchAssumption, FetchesInv, NEW f \in F!Fetch, NEW refuse,
           F!RotationTakesFetch(f, refuse)
    PROVE  FetchesInv'
<1>0. /\ Consistent(made, Now, {}) /\ made \in Copies /\ Now.fetch = fetch
      /\ Now \in Worlds(Known) /\ F!Local \in F!Host /\ F!Local \in Asker
  BY NowFields DEF FetchesInv, Consistent, Known, F!Host, Asker
<1> DEFINE v == Taken(Now, f, F!Local)
<1>1. [Now EXCEPT !.fetch[f].queued = FALSE] = v
  <2>1. PICK old \in Task(Known) : old = Now.fetch[f]
    BY <1>0 DEF Worlds
  <2>2. old.host = F!Local
    BY <1>0, <2>1 DEF F!RotationTakesFetch
  <2>3. [old EXCEPT !.queued = FALSE] = [old EXCEPT !.queued = FALSE, !.host = F!Local]
    BY <2>2 DEF Task
  <2> QED BY <2>1, <2>3 DEF Taken, Dequeued
<1>2. Consistent(made, v, {f})
  BY <1>0, TakenSound DEF F!RotationTakesFetch
<1> HIDE DEF v
<1>3. PICK none : none = None
  OBVIOUS
<1>4. PICK local : local = F!Local
  OBVIOUS
<1>5. Consistent(made, F!Route(v, local, none, f, refuse), {})
  BY <1>0, <1>2, <1>3, <1>4, RouteEnds
<1>6. F!Becomes(F!Route(v, F!Local, None, f, refuse)) /\ UNCHANGED made
  BY <1>1, Zenon DEF F!RotationTakesFetch, Now
<1> QED BY <1>3, <1>4, <1>5, <1>6, Lands

LEMMA SameRetained ==
    ASSUME NEW w, NEW v, NEW p \in Table,
           \A g \in F!Fetch : v.fetch[g].stage = w.fetch[g].stage
    PROVE  F!Retain(v, p) = F!Retain(w, p)
<1>1. \A id \in DOMAIN p : F!Pending(v, p[id]) <=> F!Pending(w, p[id])
  BY TableTyped DEF F!Pending
<1> QED BY <1>1 DEF F!Retain

AskedBy(w, c, f) ==
    [w EXCEPT !.link[c] = [w.link[c] EXCEPT
        !.nextId = @ + 1,
        !.pending = F!Asked(F!Retain(w, @), w.link[c].nextId, f)]]

LEMMA AskedByFields ==
    ASSUME NEW n, NEW w \in Worlds(n), NEW c \in F!Conn, NEW f \in F!Fetch
    PROVE  LET v == AskedBy(w, c, f)
           IN  /\ v \in Worlds(n) /\ v.server = w.server /\ v.host = w.host
               /\ v.fetch = w.fetch
               /\ \A b \in F!Conn \ {c} : v.link[b] = w.link[b]
               /\ v.link[c].machine = w.link[c].machine
               /\ v.link[c].open = w.link[c].open
               /\ v.link[c].up = w.link[c].up /\ v.link[c].down = w.link[c].down
               /\ v.link[c].nextId = w.link[c].nextId + 1
               /\ v.link[c].pending = F!Asked(F!Retain(w, w.link[c].pending),
                                              w.link[c].nextId, f)
<1>1. PICK old \in Link(n) : old = w.link[c]
  BY DEF Worlds
<1>2. PICK t \in Table : t = F!Asked(F!Retain(w, old.pending), old.nextId, f)
  <2>1. old.pending \in Table /\ old.nextId \in Nat
    BY DEF Link
  <2> QED BY <2>1, AskedTable
<1>3. PICK id \in Nat : id = old.nextId + 1
  BY DEF Link
<1>4. PICK new : new = [old EXCEPT !.nextId = id, !.pending = t]
  OBVIOUS
<1>5. /\ new \in Link(n) /\ new.machine = old.machine /\ new.open = old.open
      /\ new.up = old.up /\ new.down = old.down /\ new.nextId = id /\ new.pending = t
  BY <1>4 DEF Link
<1>6. AskedBy(w, c, f) = [w EXCEPT !.link[c] = new]
  BY <1>1, <1>2, <1>3, <1>4 DEF AskedBy, Link
<1> DEFINE v == AskedBy(w, c, f)
<1>7. /\ v \in Worlds(n) /\ v.server = w.server /\ v.host = w.host /\ v.fetch = w.fetch
      /\ \A b \in F!Conn \ {c} : v.link[b] = w.link[b]
      /\ v.link[c] = new
  <2> HIDE DEF v
  <2>1. v = [w EXCEPT !.link[c] = new]
    BY <1>6 DEF v
  <2> QED BY <1>5, <2>1 DEF Worlds
<1> HIDE DEF v
<1> QED BY <1>1, <1>2, <1>3, <1>5, <1>7 DEF v

LEMMA ClientTakesFetchKeepsFetches ==
    ASSUME FetchesInv, NEW f \in F!Fetch, F!ClientTakesFetch(f)
    PROVE  FetchesInv'
<1>0. /\ Consistent(made, Now, {}) /\ made \in Copies /\ Now \in Worlds(Known)
      /\ Now.fetch = fetch /\ Now.link = link /\ Now.host = host /\ Now.server = rotation
      /\ F!Local \in Asker
  BY NowFields DEF FetchesInv, Consistent, Known, Asker
<1>1. PICK h : h = IF F!Pending(Now, f) THEN fetch[f].host ELSE F!Local
  OBVIOUS
<1>2. h \in F!Host
  <2>1. Now.fetch[f] \in Task(Known)
    BY <1>0 DEF Worlds
  <2> QED BY <1>0, <1>1, <2>1 DEF Task, F!Host
<1>3. PICK c \in F!ConnOf(fetch[f].host) :
          link' = [link EXCEPT ![c] = [link[c] EXCEPT
              !.nextId = @ + 1,
              !.pending = F!Asked(F!Retain(Now, @), link[c].nextId, f),
              !.up = Append(@, F!Request(fetch[f].type, F!Local, link[c].nextId, f))]]
  BY Zenon DEF F!ClientTakesFetch, Now
<1>4. c \in F!Conn /\ link[c].open
  BY <1>3 DEF F!ConnOf
<1>4a. /\ Consistent(made, Taken(Now, f, h), {f})
       /\ Taken(Now, f, h).server = Now.server /\ Taken(Now, f, h).host = Now.host
       /\ Taken(Now, f, h).link = Now.link
       /\ \A g \in F!Fetch \ {f} : Taken(Now, f, h).fetch[g] = Now.fetch[g]
       /\ Taken(Now, f, h).fetch[f] = Dequeued(Now.fetch[f], h)
       /\ Taken(Now, f, h).fetch[f].stage = Now.fetch[f].stage
       /\ Taken(Now, f, h).fetch[f].type = Now.fetch[f].type
  <2>1. Now.fetch[f].queued
    BY <1>0 DEF F!ClientTakesFetch
  <2>2. Consistent(made, Now, {})
    BY <1>0
  <2> QED BY <1>2, <2>1, <2>2, TakenSound
<1> DEFINE v == Taken(Now, f, h)
           u == AskedBy(v, c, f)
           m == F!Request(fetch[f].type, F!Local, link[c].nextId, f)
           x == SentUp(u, c, m)
<1>5. /\ Consistent(made, v, {f}) /\ v.server = rotation /\ v.host = host /\ v.link = link
      /\ \A g \in F!Fetch \ {f} : v.fetch[g] = fetch[g]
      /\ v.fetch[f] = Dequeued(fetch[f], h)
      /\ v.fetch[f].stage = fetch[f].stage
  BY <1>0, <1>4a
<1>6. /\ v \in Worlds(Known) /\ link[c].pending \in Table /\ link[c].nextId \in Nat
      /\ fetch[f].type \in Mime
  <2>1. Now.fetch[f] \in Task(Known)
    BY <1>0 DEF Worlds
  <2> QED BY <1>0, <1>4, <1>5, <2>1, Tables DEF Consistent, Known, Task
<1>7. F!Retain(v, link[c].pending) = F!Retain(Now, link[c].pending)
  <2> HIDE DEF v
  <2>1. \A g \in F!Fetch : v.fetch[g].stage = Now.fetch[g].stage
    BY <1>0, <1>5
  <2> QED BY <1>6, <2>1, SameRetained
<1> HIDE DEF v
<1>8. /\ u \in Worlds(Known) /\ u.server = v.server /\ u.host = v.host
      /\ u.fetch = v.fetch
      /\ \A b \in F!Conn \ {c} : u.link[b] = v.link[b]
      /\ u.link[c].machine = v.link[c].machine
      /\ u.link[c].open = v.link[c].open
      /\ u.link[c].up = v.link[c].up /\ u.link[c].down = v.link[c].down
      /\ u.link[c].nextId = v.link[c].nextId + 1
      /\ u.link[c].pending = F!Asked(F!Retain(v, v.link[c].pending), v.link[c].nextId, f)
  BY <1>4, <1>6, AskedByFields
<1> HIDE DEF u
<1>9. Consistent(made, u, {f}) /\ Expects(u, c, link[c].nextId, f)
  <2>1. /\ v.link[c].open /\ u.link[c].open /\ v.link[c].nextId = link[c].nextId
        /\ u \in Worlds(Len(made))
    BY <1>4, <1>5, <1>8 DEF Known
  <2>2. Consistent(made, u, {f}) /\ Expects(u, c, v.link[c].nextId, f)
    BY <1>4, <1>5, <1>8, <2>1, ClientAsks
  <2> QED BY <2>1, <2>2
<1>10. m \in Frame(Known) /\ m.kind = "request" /\ m.id = link[c].nextId /\ m.tag = f
  BY <1>0, <1>6, RequestTyped
<1> HIDE DEF m
<1>11. Good(made, u, <<"up", c>>, m)
  BY <1>9, <1>10, Bearers DEF Good
<1>12. Consistent(made, x, {})
  BY <1>4, <1>5, <1>8, <1>9, <1>10, <1>11, UpPut DEF Known
<1>13. x \in Worlds(Known) /\ Wrote(u, x, c, Append(u.link[c].up, m), u.link[c].down)
  BY <1>4, <1>8, <1>10, WrittenUp
<1> HIDE DEF x
<1>14. rotation' = x.server /\ host' = x.host
  BY <1>5, <1>8, <1>13 DEF F!ClientTakesFetch, Wrote
<1>15. fetch' = x.fetch
  <2>1. fetch' = [fetch EXCEPT ![f].queued = FALSE, ![f].host = h]
    BY <1>1, Zenon DEF F!ClientTakesFetch, Now
  <2>2. x.fetch = v.fetch /\ fetch \in [F!Fetch -> Task(Known)]
        /\ v.fetch \in [F!Fetch -> Task(Known)]
    BY <1>0, <1>6, <1>8, <1>13 DEF Wrote, Worlds
  <2>3. fetch' = [fetch EXCEPT ![f] = v.fetch[f]]
    BY <1>5, <2>1, <2>2 DEF Dequeued
  <2> QED BY <1>5, <2>2, <2>3
<1>16. link' = x.link
  <2>1. link \in [F!Conn -> Link(Known)] /\ x.link \in [F!Conn -> Link(Known)]
    BY <1>0, <1>13 DEF Worlds
  <2>2. PICK old \in Link(Known) : old = link[c]
    BY <1>4, <2>1
  <2>3. PICK new \in Link(Known) : new = x.link[c]
    BY <1>4, <2>1
  <2>4. /\ new.machine = old.machine /\ new.open = old.open /\ new.down = old.down
        /\ new.up = Append(old.up, m) /\ new.nextId = old.nextId + 1
        /\ new.pending = F!Asked(F!Retain(Now, old.pending), old.nextId, f)
    BY <1>5, <1>7, <1>8, <1>13, <2>2, <2>3 DEF Wrote
  <2>5. link' = [link EXCEPT ![c] = [old EXCEPT
            !.nextId = @ + 1,
            !.pending = F!Asked(F!Retain(Now, @), old.nextId, f),
            !.up = Append(@, m)]]
    BY <1>3, <2>2, Zenon DEF m
  <2>6. new = [old EXCEPT
            !.nextId = @ + 1,
            !.pending = F!Asked(F!Retain(Now, @), old.nextId, f),
            !.up = Append(@, m)]
    <3>1. PICK q \in Seq(Frame(Known)) : q = new.up
      BY DEF Link
    <3>2. PICK t \in Table : t = new.pending
      BY DEF Link
    <3>3. PICK id \in Nat : id = new.nextId
      BY DEF Link
    <3>4. new = [old EXCEPT !.nextId = id, !.pending = t, !.up = q]
      BY ONLY <2>4, <3>1, <3>2, <3>3, old \in Link(Known), new \in Link(Known) DEF Link
    <3>5. [old EXCEPT !.nextId = id, !.pending = t, !.up = q]
            = [old EXCEPT
                !.nextId = @ + 1,
                !.pending = F!Asked(F!Retain(Now, @), old.nextId, f),
                !.up = Append(@, m)]
      BY ONLY <2>4, <3>1, <3>2, <3>3
    <3> QED BY <3>4, <3>5
  <2>7. link' = [link EXCEPT ![c] = new]
    BY <2>5, <2>6
  <2>8. \A b \in F!Conn \ {c} : x.link[b] = link[b]
    BY <1>5, <1>8, <1>13 DEF Wrote
  <2> QED BY <1>4, <2>1, <2>3, <2>7, <2>8
<1> QED BY <1>12, <1>14, <1>15, <1>16, Lands DEF F!Becomes, F!ClientTakesFetch

-----------------------------------------------------------------------------
(* A frame is taken off a queue.                                           *)

TookUp(w, c) == [w EXCEPT !.link[c].up = Tail(@)]
TookDown(w, c) == [w EXCEPT !.link[c].down = Tail(@)]

LEMMA TookUpFields ==
    ASSUME NEW n, NEW w \in Worlds(n), NEW c \in F!Conn, w.link[c].up # <<>>
    PROVE  /\ TookUp(w, c) \in Worlds(n)
           /\ Wrote(w, TookUp(w, c), c, Tail(w.link[c].up), w.link[c].down)
<1>1. PICK old \in Link(n) : old = w.link[c]
  BY DEF Worlds
<1>2. PICK q \in Seq(Frame(n)) : q = Tail(old.up)
  <2>1. old.up \in Seq(Frame(n)) /\ old.up # <<>>
    BY <1>1 DEF Link
  <2> QED BY <2>1, QueueTail
<1>3. PICK new : new = [old EXCEPT !.up = q]
  OBVIOUS
<1>4. /\ new \in Link(n) /\ new.machine = old.machine /\ new.open = old.open
      /\ new.up = q /\ new.down = old.down /\ new.pending = old.pending
      /\ new.nextId = old.nextId
  BY <1>3 DEF Link
<1> DEFINE v == TookUp(w, c)
<1>5. v = [w EXCEPT !.link[c] = new]
  BY <1>1, <1>2, <1>3 DEF TookUp
<1> HIDE DEF v
<1>6. /\ v \in Worlds(n) /\ v.server = w.server /\ v.host = w.host /\ v.fetch = w.fetch
      /\ \A b \in F!Conn \ {c} : v.link[b] = w.link[b]
      /\ v.link[c] = new
  BY <1>4, <1>5 DEF Worlds
<1> QED BY <1>1, <1>2, <1>4, <1>6 DEF Wrote, v

LEMMA TookDownFields ==
    ASSUME NEW n, NEW w \in Worlds(n), NEW c \in F!Conn, w.link[c].down # <<>>
    PROVE  /\ TookDown(w, c) \in Worlds(n)
           /\ Wrote(w, TookDown(w, c), c, w.link[c].up, Tail(w.link[c].down))
<1>1. PICK old \in Link(n) : old = w.link[c]
  BY DEF Worlds
<1>2. PICK q \in Seq(Frame(n)) : q = Tail(old.down)
  <2>1. old.down \in Seq(Frame(n)) /\ old.down # <<>>
    BY <1>1 DEF Link
  <2> QED BY <2>1, QueueTail
<1>3. PICK new : new = [old EXCEPT !.down = q]
  OBVIOUS
<1>4. /\ new \in Link(n) /\ new.machine = old.machine /\ new.open = old.open
      /\ new.up = old.up /\ new.down = q /\ new.pending = old.pending
      /\ new.nextId = old.nextId
  BY <1>3 DEF Link
<1> DEFINE v == TookDown(w, c)
<1>5. v = [w EXCEPT !.link[c] = new]
  BY <1>1, <1>2, <1>3 DEF TookDown
<1> HIDE DEF v
<1>6. /\ v \in Worlds(n) /\ v.server = w.server /\ v.host = w.host /\ v.fetch = w.fetch
      /\ \A b \in F!Conn \ {c} : v.link[b] = w.link[b]
      /\ v.link[c] = new
  BY <1>4, <1>5 DEF Worlds
<1> QED BY <1>1, <1>2, <1>4, <1>6 DEF Wrote, v

LEMMA WroteTaken ==
    ASSUME NEW k, NEW w, Consistent(k, w, {}), NEW c \in F!Conn, NEW side \in {"up", "down"},
           NEW v \in Worlds(Len(k)), NEW q, q = Queue(w, <<side, c>>), q # <<>>,
           side = "up" => Wrote(w, v, c, Tail(q), w.link[c].down),
           side = "down" => Wrote(w, v, c, w.link[c].up, Tail(q)),
           NEW m, m = Head(q)
    PROVE  /\ m \in Frame(Len(k)) /\ Consistent(k, v, {m.tag})
           /\ Good(k, v, <<side, c>>, m)
<1> DEFINE l == <<side, c>>
<1>1. l \in Lane /\ l[1] = side /\ l[2] = c
  BY DEF Lane
<1>2. /\ v.server = w.server /\ v.host = w.host /\ v.fetch = w.fetch
      /\ \A b \in F!Conn \ {c} : v.link[b] = w.link[b]
      /\ v.link[c].machine = w.link[c].machine /\ v.link[c].open = w.link[c].open
      /\ v.link[c].pending = w.link[c].pending /\ v.link[c].nextId = w.link[c].nextId
      /\ side = "up" => v.link[c].up = Tail(q) /\ v.link[c].down = w.link[c].down
      /\ side = "down" => v.link[c].down = Tail(q) /\ v.link[c].up = w.link[c].up
  BY ONLY side \in {"up", "down"}, Zenon,
          side = "up" => Wrote(w, v, c, Tail(q), w.link[c].down),
          side = "down" => Wrote(w, v, c, w.link[c].up, Tail(q)) DEF Wrote
<1>3. SameTables(w, v)
  BY <1>2 DEF SameTables
<1>4. \A b \in F!Conn : v.link[b].machine = w.link[b].machine /\ v.link[b].open = w.link[b].open
  BY <1>2
<1>5. \A asker \in Asker, id \in Nat, f \in F!Fetch :
          Expects(w, asker, id, f) => Expects(v, asker, id, f)
  BY <1>2, <1>3, <1>4, CarriesTables
<1>6. Carries(w, v)
  BY <1>2, <1>4, <1>5 DEF Carries
<1>7. Queue(v, l) = Tail(Queue(w, l))
  BY <1>1, <1>2 DEF Queue
<1>8. \A o \in Lane \ {l} : Queue(v, o) = Queue(w, o)
  <2> SUFFICES ASSUME NEW o \in Lane, o # l PROVE Queue(v, o) = Queue(w, o)
    OBVIOUS
  <2>1. o[2] \in F!Conn /\ o[1] \in {"up", "down"} /\ o = <<o[1], o[2]>>
    BY DEF Lane
  <2> QED BY <1>2, <2>1 DEF Queue
<1>9. q = Queue(w, l)
  OBVIOUS
<1> HIDE DEF l
<1>10. m \in Frame(Len(k)) /\ Consistent(k, v, {m.tag}) /\ Good(k, v, l, m)
  BY <1>1, <1>2, <1>6, <1>7, <1>8, <1>9, TakeFrame
<1> QED BY <1>10 DEF l

LEMMA RotationReceivesKeepsFetches ==
    ASSUME F!FetchAssumption, FetchesInv, NEW c \in F!Conn, NEW refuse,
           F!RotationReceives(c, refuse)
    PROVE  FetchesInv'
<1>0. /\ Consistent(made, Now, {}) /\ made \in Copies /\ Now \in Worlds(Known)
      /\ Now.link = link /\ c \in Asker /\ c # F!Local
  BY NowFields, HandoffAssumption DEF FetchesInv, Consistent, Known, Asker, F!Conn, F!Local
<1> DEFINE v == TookUp(Now, c)
           m == Head(link[c].up)
           q == link[c].up
<1>1. q # <<>>
  BY DEF F!RotationReceives
<1>2. v \in Worlds(Known) /\ Wrote(Now, v, c, Tail(q), Now.link[c].down)
  BY <1>0, <1>1, TookUpFields
<1>3. q = Queue(Now, <<"up", c>>)
  BY <1>0 DEF Queue
<1>4. /\ F!Becomes(IF m.kind = "request" THEN F!Route(v, c, m.id, m.tag, refuse)
                   ELSE F!SendContent(v, m, refuse))
      /\ UNCHANGED made
  BY Zenon DEF F!RotationReceives, TookUp, Now
<1> HIDE DEF v, q
<1>5. m \in Frame(Known) /\ Consistent(made, v, {m.tag}) /\ Good(made, v, <<"up", c>>, m)
  <2>1. m = Head(q)
    BY DEF q
  <2> HIDE DEF m
  <2> QED BY <1>0, <1>1, <1>2, <1>3, <2>1, WroteTaken DEF Known
<1>6. m.tag \in F!Fetch /\ m.id \in Nat /\ m.kind \in {"request", "answer"}
  <2>1. <<"up", c>> \in Lane
    BY DEF Lane
  <2> HIDE DEF m
  <2> QED BY <1>5, <2>1, FrameParts
<1> HIDE DEF m
<1>7. CASE m.kind = "request"
  <2>1. Expects(v, c, m.id, m.tag)
    BY <1>5, <1>7, Bearers DEF Good
  <2>2. Consistent(made, F!Route(v, c, m.id, m.tag, refuse), {})
    BY <1>0, <1>5, <1>6, <2>1, RouteEnds
  <2> QED BY <1>4, <1>7, <2>2, Lands
<1>8. CASE m.kind = "answer"
  <2>1. Consistent(made, F!SendContent(v, m, refuse), {})
    BY <1>0, <1>5, <1>8, SendContentEnds
  <2> QED BY <1>4, <1>8, <2>1, Lands
<1> QED BY <1>6, <1>7, <1>8

Cleared(w, c, id) == [w EXCEPT !.link[c].pending = F!Answered(@, id)]

LEMMA ClearedFields ==
    ASSUME NEW n, NEW w \in Worlds(n), NEW c \in F!Conn, NEW id
    PROVE  LET v == Cleared(w, c, id)
           IN  /\ v \in Worlds(n) /\ v.server = w.server /\ v.host = w.host
               /\ v.fetch = w.fetch
               /\ \A b \in F!Conn \ {c} : v.link[b] = w.link[b]
               /\ v.link[c].machine = w.link[c].machine
               /\ v.link[c].open = w.link[c].open
               /\ v.link[c].up = w.link[c].up /\ v.link[c].down = w.link[c].down
               /\ v.link[c].nextId = w.link[c].nextId
               /\ v.link[c].pending = F!Answered(w.link[c].pending, id)
<1>1. PICK old \in Link(n) : old = w.link[c]
  BY DEF Worlds
<1>2. PICK t \in Table : t = F!Answered(old.pending, id)
  <2>1. old.pending \in Table
    BY DEF Link
  <2> QED BY <2>1, AnsweredTable
<1>3. PICK new : new = [old EXCEPT !.pending = t]
  OBVIOUS
<1>4. /\ new \in Link(n) /\ new.machine = old.machine /\ new.open = old.open
      /\ new.up = old.up /\ new.down = old.down /\ new.nextId = old.nextId
      /\ new.pending = t
  BY <1>3 DEF Link
<1> DEFINE v == Cleared(w, c, id)
<1>5. v = [w EXCEPT !.link[c] = new]
  BY <1>1, <1>2, <1>3 DEF Cleared
<1> HIDE DEF v
<1>6. /\ v \in Worlds(n) /\ v.server = w.server /\ v.host = w.host /\ v.fetch = w.fetch
      /\ \A b \in F!Conn \ {c} : v.link[b] = w.link[b]
      /\ v.link[c] = new
  BY <1>4, <1>5 DEF Worlds
<1> QED BY <1>1, <1>2, <1>4, <1>6 DEF v

\* The client has the answer to a fetch of its own.
LEMMA AnswerTaken ==
    ASSUME made \in Copies, NEW w, NEW m \in Frame(Known), m.kind = "answer",
           Consistent(made, w, {m.tag}), NEW c \in F!Conn, Good(made, w, <<"down", c>>, m),
           w.link[c].open, m.id \in DOMAIN w.link[c].pending
    PROVE  Consistent(made, F!Complete(Cleared(w, c, m.id), w.link[c].pending[m.id], m.type,
                                  m.content, m.tag), {})
<1> DEFINE u == Cleared(w, c, m.id)
           f == m.tag
           v == F!Complete(u, f, m.type, m.content, f)
<1>0. /\ w \in Worlds(Known) /\ f \in F!Fetch /\ m.id \in Nat
      /\ m.content \in Content(Known) /\ c # F!Local
      /\ w.link[c].pending \in Table
  <2>1. <<"down", c>> \in Lane
    BY DEF Lane
  <2>2. w \in Worlds(Known)
    BY DEF Consistent, Known
  <2>3. w.link[c].pending \in Table
    BY <2>2, Tables
  <2>4. /\ m.tag \in F!Fetch /\ m.id \in Nat
        /\ m.content \in Content(Known)
    BY <2>1, FrameParts
  <2>5. c # F!Local
    BY HandoffAssumption DEF F!Conn, F!Local
  <2> QED BY <2>2, <2>3, <2>4, <2>5
<1>1. Expects(w, c, m.id, f)
  BY Bearers DEF Good
<1>2. w.link[c].pending[m.id] = f
  BY <1>0, <1>1 DEF Expects
<1>3. Waiting(w, f) => Follows(made, m.content.copy, w.fetch[f].copy)
  BY DEF Good
<1>4. /\ u \in Worlds(Known) /\ u.server = w.server /\ u.host = w.host
      /\ u.fetch = w.fetch
      /\ \A b \in F!Conn \ {c} : u.link[b] = w.link[b]
      /\ u.link[c].machine = w.link[c].machine
      /\ u.link[c].open = w.link[c].open
      /\ u.link[c].up = w.link[c].up /\ u.link[c].down = w.link[c].down
      /\ u.link[c].nextId = w.link[c].nextId
      /\ u.link[c].pending = F!Answered(w.link[c].pending, m.id)
  <2>1. PICK id : id = m.id
    OBVIOUS
  <2>2. LET x == Cleared(w, c, id)
        IN  /\ x \in Worlds(Known) /\ x.server = w.server /\ x.host = w.host
            /\ x.fetch = w.fetch
            /\ \A b \in F!Conn \ {c} : x.link[b] = w.link[b]
            /\ x.link[c].machine = w.link[c].machine
            /\ x.link[c].open = w.link[c].open
            /\ x.link[c].up = w.link[c].up /\ x.link[c].down = w.link[c].down
            /\ x.link[c].nextId = w.link[c].nextId
            /\ x.link[c].pending = F!Answered(w.link[c].pending, id)
    <3>1. w \in Worlds(Known)
      BY <1>0
    <3> HIDE DEF u, v, f
    <3> QED BY ONLY <3>1, ClearedFields
  <2> QED BY ONLY <2>1, <2>2
<1> HIDE DEF u
<1>5. ForgetsBut(w.link[c].pending, u.link[c].pending, f)
  <2>1. PICK id : id = m.id
    OBVIOUS
  <2>2. PICK p \in Table : p = w.link[c].pending
    BY <1>0
  <2>3. PICK q : q = F!Answered(p, id)
    OBVIOUS
  <2>4. DOMAIN q = DOMAIN p \ {id} /\ \A i \in DOMAIN q : q[i] = p[i]
    BY <2>3, AnsweredTable
  <2>5. u.link[c].pending = q /\ p[id] = f
    BY <1>2, <1>4, <2>1, <2>2, <2>3
  <2>6. ForgetsBut(p, q, f)
    BY <2>4, <2>5 DEF ForgetsBut
  <2> QED BY <2>2, <2>5, <2>6
<1>6. ForgetsBut(w.server.pending, u.server.pending, f)
  BY <1>4 DEF ForgetsBut
<1>7. \A b \in F!Conn :
          /\ u.link[b].machine = w.link[b].machine /\ u.link[b].open = w.link[b].open
          /\ u.link[b].up = w.link[b].up /\ u.link[b].down = w.link[b].down
          /\ u.link[b].nextId = w.link[b].nextId
          /\ ForgetsBut(w.link[b].pending, u.link[b].pending, f)
  <2> SUFFICES ASSUME NEW b \in F!Conn, b # c
               PROVE  /\ u.link[b].machine = w.link[b].machine
                      /\ u.link[b].open = w.link[b].open
                      /\ u.link[b].up = w.link[b].up /\ u.link[b].down = w.link[b].down
                      /\ u.link[b].nextId = w.link[b].nextId
                      /\ ForgetsBut(w.link[b].pending, u.link[b].pending, f)
    BY <1>4, <1>5
  <2>1. u.link[b] = w.link[b]
    BY <1>4
  <2> QED BY <2>1 DEF ForgetsBut
<1> HIDE DEF f
<1>8. Consistent(made, w, {f})
  BY DEF f
<1>9. Settles(made, w, v) /\ ~Waiting(v, f)
  <2>1. PICK content \in Content(Known) : content = m.content
    BY <1>0
  <2>2. PICK type : type = m.type
    OBVIOUS
  <2>3. Waiting(w, f) => Follows(made, content.copy, w.fetch[f].copy)
    BY <1>3, <2>1
  <2>4. u.server.listed = w.server.listed /\ u.server.target = w.server.target
        /\ u.server.nextId = w.server.nextId
    BY <1>4
  <2>5. /\ Settles(made, w, F!Complete(u, f, type, content, f))
        /\ ~Waiting(F!Complete(u, f, type, content, f), f)
    BY <1>0, <1>4, <1>6, <1>7, <1>8, <2>3, <2>4, CompleteSettles
  <2> QED BY <2>1, <2>2, <2>5
<1> HIDE DEF v
<1>10. Consistent(made, v, {f})
  BY <1>8, <1>9, SettlesSound
<1>11. Consistent(made, v, {})
  BY <1>0, <1>9, <1>10, Dropped DEF Waits
<1> QED BY <1>2, <1>11 DEF v, u, f

LEMMA ClientReceivesKeepsFetches ==
    ASSUME F!FetchAssumption, FetchesInv, NEW c \in F!Conn, F!ClientReceives(c)
    PROVE  FetchesInv'
<1>0. /\ Consistent(made, Now, {}) /\ made \in Copies /\ Now \in Worlds(Known)
      /\ Now.link = link /\ c \in Asker /\ c # F!Local
  BY NowFields, HandoffAssumption DEF FetchesInv, Consistent, Known, Asker, F!Conn, F!Local
<1> DEFINE v == TookDown(Now, c)
           m == Head(link[c].down)
           q == link[c].down
           ids == F!Correlated(link[c].pending, m.id)
<1>1. q # <<>>
  BY DEF F!ClientReceives
<1>2. v \in Worlds(Known) /\ Wrote(Now, v, c, Now.link[c].up, Tail(q))
  BY <1>0, <1>1, TookDownFields
<1>3. q = Queue(Now, <<"down", c>>)
  BY <1>0 DEF Queue
<1>4. /\ m.kind = "request" =>
            F!Becomes(Given(v, m.tag, F!Serving(link[c].machine, c, m.for, m.id)))
      /\ m.kind # "request" /\ ids = {} => F!Becomes(v)
      /\ m.kind # "request" /\ ids # {} =>
            \E id \in ids : F!Becomes(F!Complete(Cleared(v, c, id), link[c].pending[id],
                                                 m.type, m.content, m.tag))
      /\ UNCHANGED made
  BY Zenon DEF F!ClientReceives, TookDown, Given, Cleared, Now
<1> HIDE DEF v, q
<1>5. m \in Frame(Known) /\ Consistent(made, v, {m.tag}) /\ Good(made, v, <<"down", c>>, m)
  <2>1. m = Head(q)
    BY DEF q
  <2> HIDE DEF m
  <2> QED BY <1>0, <1>1, <1>2, <1>3, <2>1, WroteTaken DEF Known
<1>6. /\ m.tag \in F!Fetch /\ m.id \in Nat /\ m.kind \in {"request", "answer"}
      /\ m.for \in Asker
  <2>1. <<"down", c>> \in Lane
    BY DEF Lane
  <2> HIDE DEF m
  <2> QED BY <1>5, <2>1, FrameParts
<1>7. /\ v.link[c].pending = link[c].pending /\ v.link[c].machine = link[c].machine
      /\ v.link[c].open = link[c].open
  BY <1>0, <1>2 DEF Wrote
<1>8. link[c].open /\ link[c].machine \in Machine
  <2>1. link[c] \in Link(Known) /\ link[c].open
    BY <1>0, <1>1 DEF Consistent, Wired, Worlds, q
  <2> QED BY <1>0, <2>1 DEF Consistent, Wired, Link
<1> HIDE DEF m
<1>9. CASE m.kind = "request"
  <2> DEFINE s == F!Serving(link[c].machine, c, m.for, m.id)
  <2>1. s \in Serve /\ s.host = link[c].machine /\ s.for = m.for /\ s.id = m.id
    BY <1>6, <1>8 DEF F!Serving, Serve, F!Host
  <2>2. ServedFor(s) = m.for
    BY <1>8, <2>1 DEF ServedFor, F!FetchAssumption, F!Local
  <2>3. Expects(v, m.for, m.id, m.tag)
    BY <1>5, <1>9, Bearers DEF Good
  <2>4. Expects(v, ServedFor(s), s.id, m.tag)
    BY <2>1, <2>2, <2>3
  <2> HIDE DEF s
  <2>5. Consistent(made, Given(v, m.tag, s), {})
    BY <1>5, <1>6, <2>1, <2>4, ServeGoes
  <2> QED BY <1>4, <1>9, <2>5, Lands DEF s
<1>10. CASE m.kind = "answer"
  <2>1. Expects(v, c, m.id, m.tag)
    BY <1>5, <1>10, Bearers DEF Good
  <2>2. ids = DOMAIN link[c].pending \intersect {m.id}
    BY DEF F!Correlated
  <2> HIDE DEF ids
  <2>3. CASE ids = {}
    <3>1. ~Waits(v, m.tag)
      BY <1>0, <1>7, <2>1, <2>2, <2>3 DEF Expects
    <3>2. Consistent(made, v, {})
      BY <1>5, <1>6, <3>1, Dropped
    <3> QED BY <1>4, <1>10, <2>3, <3>2, Lands
  <2>4. CASE ids # {}
    <3>1. /\ F!Becomes(F!Complete(Cleared(v, c, m.id), link[c].pending[m.id],
                                  m.type, m.content, m.tag))
          /\ m.id \in DOMAIN link[c].pending
      BY <1>4, <1>10, <2>2, <2>4
    <3>2. Consistent(made, F!Complete(Cleared(v, c, m.id), v.link[c].pending[m.id], m.type,
                                 m.content, m.tag), {})
      BY <1>0, <1>5, <1>7, <1>8, <1>10, <3>1, AnswerTaken
    <3> QED BY <1>4, <1>7, <3>1, <3>2, Lands
  <2> QED BY <2>3, <2>4
<1> QED BY <1>6, <1>9, <1>10

-----------------------------------------------------------------------------
(* The serving tasks.                                                      *)

LEMMA NoLockBy ==
    ASSUME NEW k, NEW w, NEW hand, Consistent(k, w, hand), NEW f \in F!Fetch,
           w.fetch[f].serve # None,
           w.host[w.fetch[f].serve.host].lock # None
               => w.host[w.fetch[f].serve.host].lock.by # f
    PROVE  \A h \in F!Host : w.host[h].lock # None => w.host[h].lock.by # f
  BY DEF Consistent, Locks

LEMMA ServingHost ==
    ASSUME NEW k, NEW w, NEW hand, Consistent(k, w, hand), NEW f \in F!Fetch,
           w.fetch[f].serve # None
    PROVE  w.fetch[f].serve.host \in F!Host
<1>1. w.fetch[f] \in Task(Len(k))
  BY DEF Consistent, Worlds
<1>2. w.fetch[f].serve \in Serve
  BY <1>1 DEF Task
<1> QED BY <1>2 DEF Serve

LEMMA ContentTyped ==
    ASSUME NEW n \in Nat, NEW copy \in 0 .. n
    PROVE  /\ F!Content(copy) \in Content(n) /\ F!Content(copy).copy = copy
           /\ F!Unread \in Content(n) /\ F!Unread.copy = 0
  BY DEF F!Content, F!Unread, Content

\* What is at least the newest that is known of satisfies who waits.
LEMMA NewestSatisfies ==
    ASSUME NEW k, NEW w, NEW hand, Consistent(k, w, hand), NEW h \in F!Host, NEW copy,
           MadeAt(k, copy, h), Newest(k, w, h, copy), NEW f \in F!Fetch, Waiting(w, f)
    PROVE  Follows(k, copy, w.fetch[f].copy)
<1>1. w.fetch[f].copy \in 1 .. Len(k)
  BY DEF Consistent, FetchSound
<1>2. Published(w, w.fetch[f].copy)
  BY DEF Published
<1> QED BY <1>1, <1>2 DEF Follows, Newest, MadeAt

LEMMA ServeFromCacheKeepsFetches ==
    ASSUME FetchesInv, NEW f \in F!Fetch, NEW refused \in BOOLEAN, F!ServeFromCache(f, refused)
    PROVE  FetchesInv'
<1>0. /\ Consistent(made, Now, {}) /\ made \in Copies /\ Now \in Worlds(Known)
      /\ Now.host = host /\ Now.fetch = fetch /\ Known \in Nat
  BY NowFields, KnownNat DEF FetchesInv, Consistent, Known
<1>1. PICK h : h = fetch[f].serve.host
  OBVIOUS
<1>2. PICK copy : copy = host[h].served
  OBVIOUS
<1>3. /\ fetch[f].serve # None /\ host[h].lock = None /\ copy # None
      /\ F!Becomes(F!Reply(Now, f, F!Content(copy), refused)) /\ UNCHANGED made
  BY <1>1, <1>2, Zenon DEF F!ServeFromCache, Now
<1>4. h \in F!Host
  BY <1>0, <1>1, <1>3, ServingHost
<1>5. MadeAt(made, copy, h) /\ Newest(made, Now, h, copy)
  BY <1>0, <1>2, <1>3, <1>4 DEF Consistent, Cached
<1>6. copy \in 0 .. Known
  BY <1>0, <1>5 DEF MadeAt, Known
<1>7. Waiting(Now, f) => Follows(made, copy, Now.fetch[f].copy)
  BY <1>0, <1>4, <1>5, NewestSatisfies
<1>8. \A g \in F!Host : Now.host[g].lock # None => Now.host[g].lock.by # f
  BY <1>0, <1>1, <1>3, NoLockBy
<1>9. PICK content \in Content(Known) : content = F!Content(copy)
  BY <1>0, <1>6, ContentTyped
<1>10. Waiting(Now, f) => Follows(made, content.copy, Now.fetch[f].copy)
  BY <1>7, <1>9 DEF F!Content
<1>11. Consistent(made, F!Reply(Now, f, content, refused), {})
  BY <1>0, <1>3, <1>8, <1>10, ReplyEnds
<1> QED BY <1>3, <1>9, <1>11, Lands

LEMMA NothingSatisfies ==
    ASSUME NEW k, NEW advertised
    PROVE  Follows(k, 0, advertised)
  BY DEF Follows

LEMMA ServeNothingKeepsFetches ==
    ASSUME FetchesInv, NEW f \in F!Fetch, NEW refused \in BOOLEAN, F!ServeNothing(f, refused)
    PROVE  FetchesInv'
<1>0. /\ Consistent(made, Now, {}) /\ made \in Copies /\ Now \in Worlds(Known)
      /\ Now.host = host /\ Now.fetch = fetch /\ Known \in Nat /\ 0 \in 0 .. Known
  BY NowFields, KnownNat DEF FetchesInv, Consistent, Known
<1>1. PICK h : h = fetch[f].serve.host
  OBVIOUS
<1>2. PICK content : content = F!Unread
  OBVIOUS
<1>3. /\ fetch[f].serve # None /\ host[h].lock = None
      /\ F!Becomes(F!Reply(Now, f, content, refused)) /\ UNCHANGED made
  BY <1>1, <1>2, Zenon DEF F!ServeNothing, Now
<1>4. content \in Content(Known) /\ content.copy = 0
  BY <1>0, <1>2, ContentTyped
<1>5. \A g \in F!Host : Now.host[g].lock # None => Now.host[g].lock.by # f
  BY <1>0, <1>1, <1>3, NoLockBy
<1>6. Follows(made, content.copy, Now.fetch[f].copy)
  BY <1>4, NothingSatisfies
<1>7. Consistent(made, F!Reply(Now, f, content, refused), {})
  BY <1>0, <1>3, <1>4, <1>5, <1>6, ReplyEnds
<1> QED BY <1>3, <1>7, Lands

\* A machine's reader, and nothing else of the machine, changes.
Reads(w, h, r) == [w EXCEPT !.host[h] = r]
SameMachine(r, s) ==
    /\ r.app = s.app /\ r.news = s.news /\ r.local = s.local /\ r.offer = s.offer

LEMMA ReadsSound ==
    ASSUME NEW k, NEW w, NEW hand, Consistent(k, w, hand), NEW h \in F!Host,
           NEW r \in Machinery(Len(k)), SameMachine(r, w.host[h]),
           r.served # None => MadeAt(k, r.served, h) /\ Newest(k, w, h, r.served),
           r.lock # None => /\ w.fetch[r.lock.by].serve # None
                            /\ w.fetch[r.lock.by].serve.host = h,
           r.lock # None /\ r.lock.got \notin {0, None} =>
               /\ MadeAt(k, r.lock.got, h)
               /\ r.lock.fresh => Newest(k, w, h, r.lock.got)
               /\ Waiting(w, r.lock.by) =>
                     Follows(k, r.lock.got, w.fetch[r.lock.by].copy)
    PROVE  /\ Consistent(k, Reads(w, h, r), hand)
           /\ Reads(w, h, r).server = w.server /\ Reads(w, h, r).link = w.link
           /\ Reads(w, h, r).fetch = w.fetch
           /\ Reads(w, h, r).host = [w.host EXCEPT ![h] = r]
           /\ Reads(w, h, r).host[h] = r
<1> DEFINE v == Reads(w, h, r)
<1>0. w \in Worlds(Len(k))
  BY DEF Consistent
<1>1. /\ v \in Worlds(Len(k)) /\ v.server = w.server /\ v.link = w.link
      /\ v.fetch = w.fetch /\ v.host[h] = r
      /\ v.host = [w.host EXCEPT ![h] = r]
      /\ \A g \in F!Host \ {h} : v.host[g] = w.host[g]
  <2>1. v = [w EXCEPT !.host[h] = r]
    BY DEF Reads
  <2> HIDE DEF v
  <2> QED BY <1>0, <2>1 DEF Worlds
<1> HIDE DEF v
<1>2. Locks(v)
  BY <1>1 DEF Locks, Consistent
<1>3. \A g \in F!Host :
          /\ v.host[g].app = w.host[g].app /\ v.host[g].news = w.host[g].news
          /\ v.host[g].local = w.host[g].local /\ v.host[g].offer = w.host[g].offer
  BY <1>1 DEF SameMachine
<1>4. \A g \in F!Host :
          /\ v.host[g].served # None =>
                /\ MadeAt(k, v.host[g].served, g)
                /\ Newest(k, w, g, v.host[g].served)
          /\ v.host[g].lock # None /\ v.host[g].lock.got \notin {0, None} =>
                /\ MadeAt(k, v.host[g].lock.got, g)
                /\ v.host[g].lock.fresh => Newest(k, w, g, v.host[g].lock.got)
                /\ Waiting(w, v.host[g].lock.by) =>
                      Follows(k, v.host[g].lock.got,
                               w.fetch[v.host[g].lock.by].copy)
  BY <1>1 DEF Consistent, Cached
<1>5. Consistent(k, v, hand)
  BY <1>1, <1>2, <1>3, <1>4, ReaderChanges
<1> QED BY <1>1, <1>5 DEF v

WithLock(r, lock) == [r EXCEPT !.lock = lock]

LEMMA LockTyped ==
    ASSUME NEW n, NEW r \in Machinery(n), NEW lock \in Lock(n) \union {None}
    PROVE  /\ WithLock(r, lock) \in Machinery(n) /\ SameMachine(WithLock(r, lock), r)
           /\ WithLock(r, lock).served = r.served /\ WithLock(r, lock).lock = lock
  BY DEF WithLock, Machinery, SameMachine

\* A serving task gets the mutex, or gives it back.
LEMMA LockSound ==
    ASSUME NEW k, NEW w, NEW hand, Consistent(k, w, hand), NEW h \in F!Host,
           NEW lock \in Lock(Len(k)) \union {None},
           lock # None => /\ w.fetch[lock.by].serve # None
                          /\ w.fetch[lock.by].serve.host = h,
           lock # None /\ lock.got \notin {0, None} =>
               /\ MadeAt(k, lock.got, h)
               /\ lock.fresh => Newest(k, w, h, lock.got)
               /\ Waiting(w, lock.by) => Follows(k, lock.got, w.fetch[lock.by].copy)
    PROVE  LET v == Reads(w, h, WithLock(w.host[h], lock))
           IN  /\ Consistent(k, v, hand)
               /\ v.server = w.server /\ v.link = w.link /\ v.fetch = w.fetch
               /\ v.host = [w.host EXCEPT ![h] = WithLock(w.host[h], lock)]
               /\ v.host[h].lock = lock
<1>1. PICK old \in Machinery(Len(k)) : old = w.host[h]
  BY DEF Consistent, Worlds
<1>2. PICK r : r = WithLock(old, lock)
  OBVIOUS
<1>3. /\ r \in Machinery(Len(k)) /\ SameMachine(r, w.host[h])
      /\ r.served = w.host[h].served /\ r.lock = lock
  BY <1>1, <1>2, LockTyped
<1>4. r.served # None => MadeAt(k, r.served, h) /\ Newest(k, w, h, r.served)
  BY <1>3 DEF Consistent, Cached
<1> DEFINE v == Reads(w, h, r)
<1>5. /\ Consistent(k, v, hand)
      /\ v.server = w.server /\ v.link = w.link /\ v.fetch = w.fetch
      /\ v.host = [w.host EXCEPT ![h] = r]
      /\ v.host[h] = r
  BY <1>3, <1>4, ReadsSound
<1> HIDE DEF v
<1>6. v.host[h].lock = lock
  BY <1>3, <1>5
<1> QED BY <1>1, <1>2, <1>5, <1>6 DEF v

LEMMA ServeBeginsKeepsFetches ==
    ASSUME F!FetchAssumption, FetchesInv, NEW f \in F!Fetch, F!ServeBegins(f)
    PROVE  FetchesInv'
<1>0. /\ Consistent(made, Now, {}) /\ made \in Copies /\ Now \in Worlds(Known)
      /\ Now.host = host /\ Now.fetch = fetch
  BY NowFields DEF FetchesInv, Consistent, Known
<1>1. PICK h : h = fetch[f].serve.host
  OBVIOUS
<1>2. PICK lock : lock = [by |-> f, fresh |-> TRUE, got |-> None]
  OBVIOUS
<1>3. lock \in Lock(Len(made)) /\ lock.by = f /\ lock.got = None
  BY <1>2 DEF Lock
<1>4. fetch[f].serve # None /\ h \in F!Host
  BY <1>0, <1>1, ServingHost DEF F!ServeBegins
<1> DEFINE v == Reads(Now, h, WithLock(Now.host[h], lock))
<1>5. /\ Consistent(made, v, {})
      /\ v.server = Now.server /\ v.link = Now.link /\ v.fetch = Now.fetch
      /\ v.host = [Now.host EXCEPT ![h] = WithLock(Now.host[h], lock)]
  <2>1. lock \in Lock(Len(made)) \union {None}
    BY <1>3
  <2>2. Now.fetch[lock.by].serve # None /\ Now.fetch[lock.by].serve.host = h
    BY <1>0, <1>1, <1>3, <1>4
  <2>3. ~(lock # None /\ lock.got \notin {0, None})
    BY <1>3
  <2> QED BY <1>0, <1>4, <2>1, <2>2, <2>3, LockSound
<1> HIDE DEF v
<1>6. UNCHANGED <<rotation, link, fetch, made>>
  BY DEF F!ServeBegins
<1>7. host' = [host EXCEPT ![h].lock = lock]
  BY <1>1, <1>2, Zenon DEF F!ServeBegins
<1>8. host' = v.host
  BY <1>0, <1>5, <1>7 DEF WithLock
<1>9. F!Becomes(v)
  BY <1>5, <1>6, <1>8, NowFields DEF F!Becomes
<1> QED BY <1>5, <1>6, <1>9, Lands

LEMMA ServeReadsKeepsFetches ==
    ASSUME F!FetchAssumption, FetchesInv, NEW f \in F!Fetch, F!ServeReads(f)
    PROVE  FetchesInv'
<1>0. /\ Consistent(made, Now, {}) /\ made \in Copies /\ Now \in Worlds(Known)
      /\ Now.host = host /\ Now.fetch = fetch /\ Known \in Nat
  BY NowFields, KnownNat DEF FetchesInv, Consistent, Known
<1>1. PICK h : h = fetch[f].serve.host
  OBVIOUS
<1>2. fetch[f].serve # None /\ h \in F!Host
  BY <1>0, <1>1, ServingHost DEF F!ServeReads
<1>3. PICK old \in Lock(Known) : old = host[h].lock
  <2>1. host[h] \in Machinery(Known) /\ host[h].lock # None
    BY <1>0, <1>1, <1>2 DEF F!ServeReads, Worlds
  <2> QED BY <2>1 DEF Machinery
<1>4. old.by = f
  BY <1>1, <1>3 DEF F!ServeReads
<1>5. PICK app \in 0 .. Known : app = host[h].app
  <2>1. host[h] \in Machinery(Known)
    BY <1>0, <1>2 DEF Worlds
  <2> QED BY <2>1 DEF Machinery
<1>6. PICK got \in {0, app} : host' = [host EXCEPT ![h].lock.got = got]
  <2>1. PICK got : /\ got = IF app # 0 /\ made[app].type = fetch[f].type THEN app ELSE 0
                   /\ host' = [host EXCEPT ![h].lock.got = got]
    BY <1>1, <1>5, Zenon DEF F!ServeReads
  <2> QED BY <2>1
<1>7. PICK lock : lock = [old EXCEPT !.got = got]
  OBVIOUS
<1>8. lock \in Lock(Known) /\ lock.by = f /\ lock.got = got
  BY <1>0, <1>4, <1>5, <1>6, <1>7 DEF Lock
<1>9. app # 0 => MadeAt(made, app, h) /\ Newest(made, Now, h, app)
  BY <1>0, <1>2, <1>5 DEF Consistent, Sources, Newest
<1>10. lock # None /\ lock.got \notin {0, None} =>
          /\ MadeAt(made, lock.got, h)
          /\ lock.fresh => Newest(made, Now, h, lock.got)
          /\ Waiting(Now, lock.by) => Follows(made, lock.got, Now.fetch[lock.by].copy)
  <2> SUFFICES ASSUME got = app, app # 0
               PROVE  /\ MadeAt(made, got, h)
                      /\ Newest(made, Now, h, got)
                      /\ Waiting(Now, f) => Follows(made, got, Now.fetch[f].copy)
    BY <1>6, <1>8
  <2>1. MadeAt(made, app, h) /\ Newest(made, Now, h, app)
    BY <1>9
  <2>2. Waiting(Now, f) => Follows(made, app, Now.fetch[f].copy)
    BY <1>0, <1>2, <2>1, NewestSatisfies
  <2> QED BY <2>1, <2>2
<1> DEFINE v == Reads(Now, h, WithLock(Now.host[h], lock))
<1>11. /\ Consistent(made, v, {})
       /\ v.server = Now.server /\ v.link = Now.link /\ v.fetch = Now.fetch
       /\ v.host = [Now.host EXCEPT ![h] = WithLock(Now.host[h], lock)]
  <2>1. lock \in Lock(Len(made)) \union {None}
    BY <1>8 DEF Known
  <2>2. Now.fetch[lock.by].serve # None /\ Now.fetch[lock.by].serve.host = h
    BY <1>0, <1>1, <1>2, <1>8
  <2> QED BY <1>0, <1>2, <1>10, <2>1, <2>2, LockSound
<1> HIDE DEF v
<1>12. UNCHANGED <<rotation, link, fetch, made>>
  BY DEF F!ServeReads
<1>13. host' = v.host
  <2>1. PICK m \in Machinery(Known) : m = host[h]
    BY <1>0, <1>2 DEF Worlds
  <2>2. [m EXCEPT !.lock.got = got] = WithLock(m, lock)
    BY <1>3, <1>7, <2>1 DEF WithLock, Machinery
  <2>3. host \in [F!Host -> Machinery(Known)]
    BY <1>0 DEF Worlds
  <2> QED BY <1>0, <1>2, <1>6, <1>11, <2>1, <2>2, <2>3
<1>14. F!Becomes(v)
  BY <1>11, <1>12, <1>13, NowFields DEF F!Becomes
<1> QED BY <1>11, <1>12, <1>14, Lands

\* read ends, and what it leaves in the caches is no older than what is known.
LEMMA RememberSound ==
    ASSUME made \in Copies, NEW w, Consistent(made, w, {}), NEW h \in F!Host, NEW f \in F!Fetch,
           w.host[h].lock # None, w.host[h].lock.by = f, w.host[h].lock.got # None,
           NEW got, got = w.host[h].lock.got
    PROVE  /\ Consistent(made, F!Remember(w, h, f, got), {})
           /\ F!Remember(w, h, f, got).fetch = w.fetch
           /\ F!Remember(w, h, f, got).host[h].lock = None
<1>0. w \in Worlds(Known) /\ Known \in Nat
  BY KnownNat DEF Consistent, Known
<1>1. PICK old \in Machinery(Known) : old = w.host[h]
  BY <1>0 DEF Worlds
<1>2. PICK lock \in Lock(Known) : lock = old.lock
  BY <1>1 DEF Machinery
<1>3. PICK fresh \in BOOLEAN : fresh = lock.fresh
  BY DEF Lock
<1>4. got \in 0 .. Known
  BY <1>1, <1>2 DEF Lock
<1>5. PICK served : served = IF fresh /\ got # 0 THEN got ELSE old.served
  OBVIOUS
<1>6. PICK failed : failed = CASE fresh /\ got = 0 -> w.fetch[f].type
                               [] got # 0 -> None
                               [] OTHER -> old.failed
  OBVIOUS
<1>7. served \in 1 .. Known \union {None}
  <2>1. old.served \in 1 .. Known \union {None}
    BY DEF Machinery
  <2> QED BY <1>0, <1>4, <1>5, <2>1
<1>8. failed \in Mime
  <2>1. old.failed \in Mime
    BY DEF Machinery
  <2>2. w.fetch[f] \in Task(Known)
    BY <1>0 DEF Worlds
  <2>3. w.fetch[f].type \in Mime
    BY <2>2 DEF Task
  <2> QED BY <1>6, <2>1, <2>3 DEF Mime
<1>9. PICK r : r = [old EXCEPT !.lock = None, !.served = served, !.failed = failed]
  OBVIOUS
<1>10. r \in Machinery(Known) /\ SameMachine(r, old) /\ r.served = served /\ r.lock = None
  BY <1>7, <1>8, <1>9 DEF Machinery, SameMachine
<1>11. F!Remember(w, h, f, got) = Reads(w, h, r)
  <2>1. r = [old EXCEPT
                !.lock = None,
                !.served = IF fresh /\ got # 0 THEN got ELSE @,
                !.failed = CASE fresh /\ got = 0 -> w.fetch[f].type
                             [] got # 0 -> None
                             [] OTHER -> @]
    BY ONLY <1>5, <1>6, <1>9
  <2> QED BY <1>1, <1>2, <1>3, <2>1, Zenon DEF F!Remember, Reads
<1>12. served # None => MadeAt(made, served, h) /\ Newest(made, w, h, served)
  <2>1. old.served # None => MadeAt(made, old.served, h) /\ Newest(made, w, h, old.served)
    BY <1>1 DEF Consistent, Cached
  <2>2. fresh /\ got # 0 => MadeAt(made, got, h) /\ Newest(made, w, h, got)
    BY <1>1, <1>2, <1>3 DEF Consistent, Cached
  <2> QED BY <1>5, <2>1, <2>2
<1>13. /\ Consistent(made, Reads(w, h, r), {}) /\ Reads(w, h, r).fetch = w.fetch
       /\ Reads(w, h, r).host[h] = r
  <2>1. r \in Machinery(Len(made)) /\ SameMachine(r, w.host[h]) /\ r.lock = None
    BY <1>1, <1>10 DEF Known
  <2>2. r.served # None => MadeAt(made, r.served, h) /\ Newest(made, w, h, r.served)
    BY <1>10, <1>12
  <2>3. /\ r.lock # None => /\ w.fetch[r.lock.by].serve # None
                            /\ w.fetch[r.lock.by].serve.host = h
        /\ r.lock # None /\ r.lock.got \notin {0, None} =>
              /\ MadeAt(made, r.lock.got, h)
              /\ r.lock.fresh => Newest(made, w, h, r.lock.got)
              /\ Waiting(w, r.lock.by) =>
                    Follows(made, r.lock.got, w.fetch[r.lock.by].copy)
    BY <2>1
  <2>4. /\ Consistent(made, Reads(w, h, r), {})
        /\ Reads(w, h, r).server = w.server /\ Reads(w, h, r).link = w.link
        /\ Reads(w, h, r).fetch = w.fetch
        /\ Reads(w, h, r).host = [w.host EXCEPT ![h] = r]
        /\ Reads(w, h, r).host[h] = r
    BY <2>1, <2>2, <2>3, ReadsSound
  <2> QED BY <2>4
<1> QED BY <1>10, <1>11, <1>13

LEMMA ServeEndsKeepsFetches ==
    ASSUME FetchesInv, NEW f \in F!Fetch, NEW refused \in BOOLEAN, F!ServeEnds(f, refused)
    PROVE  FetchesInv'
<1>0. /\ Consistent(made, Now, {}) /\ made \in Copies /\ Now \in Worlds(Known)
      /\ Now.host = host /\ Now.fetch = fetch /\ Known \in Nat /\ 0 \in 0 .. Known
  BY NowFields, KnownNat DEF FetchesInv, Consistent, Known
<1>1. PICK h : h = fetch[f].serve.host
  OBVIOUS
<1>2. PICK got : got = host[h].lock.got
  OBVIOUS
<1>3. PICK content : content = IF got = 0 THEN F!Unread ELSE F!Content(got)
  OBVIOUS
<1>4. PICK v : v = F!Remember(Now, h, f, got)
  OBVIOUS
<1>5. /\ fetch[f].serve # None /\ host[h].lock # None /\ host[h].lock.by = f
      /\ got # None
      /\ F!Becomes(F!Reply(v, f, content, refused)) /\ UNCHANGED made
  BY <1>1, <1>2, <1>3, <1>4, Zenon DEF F!ServeEnds, Now
<1>6. h \in F!Host
  BY <1>0, <1>1, <1>5, ServingHost
<1>7. Consistent(made, v, {}) /\ v.fetch = fetch /\ v.host[h].lock = None
  BY <1>0, <1>2, <1>4, <1>5, <1>6, RememberSound
<1>8. got \in 0 .. Known
  <2>1. host[h] \in Machinery(Known)
    BY <1>0, <1>6 DEF Worlds
  <2>2. host[h].lock \in Lock(Known)
    BY <1>5, <2>1 DEF Machinery
  <2> QED BY <1>2, <1>5, <2>2 DEF Lock
<1>9. content \in Content(Known) /\ content.copy = got
  BY <1>0, <1>3, <1>8, ContentTyped
<1>10. \A g \in F!Host : v.host[g].lock # None => v.host[g].lock.by # f
  BY <1>1, <1>5, <1>7, NoLockBy
<1>11. Waiting(v, f) => Follows(made, content.copy, v.fetch[f].copy)
  <2>1. CASE got = 0
    BY <1>9, <2>1, NothingSatisfies
  <2>2. CASE got # 0
    BY <1>0, <1>2, <1>5, <1>6, <1>7, <1>9, <2>2 DEF Consistent, Cached, Waiting
  <2> QED BY <2>1, <2>2
<1>12. Consistent(made, F!Reply(v, f, content, refused), {})
  BY <1>0, <1>5, <1>7, <1>9, <1>10, <1>11, ReplyEnds
<1> QED BY <1>5, <1>12, Lands

LEMMA ServeTimesOutKeepsFetches ==
    ASSUME FetchesInv, NEW f \in F!Fetch, NEW refused \in BOOLEAN, F!ServeTimesOut(f, refused)
    PROVE  FetchesInv'
<1>0. /\ Consistent(made, Now, {}) /\ made \in Copies /\ Now \in Worlds(Known)
      /\ Now.host = host /\ Now.fetch = fetch /\ Known \in Nat /\ 0 \in 0 .. Known
  BY NowFields, KnownNat DEF FetchesInv, Consistent, Known
<1>1. PICK h : h = fetch[f].serve.host
  OBVIOUS
<1>2. PICK content : content = F!Unread
  OBVIOUS
<1>3. PICK none : none = None
  OBVIOUS
<1> DEFINE u == Reads(Now, h, WithLock(Now.host[h], none))
           mine == host[h].lock # None /\ host[h].lock.by = f
           v == IF mine THEN u ELSE Now
<1>4. fetch[f].serve # None /\ UNCHANGED made
  BY DEF F!ServeTimesOut
<1>5. h \in F!Host
  BY <1>0, <1>1, <1>4, ServingHost
<1>6. /\ Consistent(made, u, {}) /\ u.fetch = Now.fetch /\ u.host[h].lock = none
  <2>1. none \in Lock(Len(made)) \union {None} /\ ~(none # None)
    BY <1>3
  <2>2. ~(none # None /\ none.got \notin {0, None})
    BY <2>1
  <2>3. /\ Consistent(made, u, {})
        /\ u.server = Now.server /\ u.link = Now.link /\ u.fetch = Now.fetch
        /\ u.host = [Now.host EXCEPT ![h] = WithLock(Now.host[h], none)]
        /\ u.host[h].lock = none
    BY <1>0, <1>5, <2>1, <2>2, LockSound
  <2> QED BY <2>3
<1>7. u = [Now EXCEPT !.host[h].lock = None]
  BY <1>0, <1>3 DEF Reads, WithLock
<1>8. F!Becomes(F!Reply(v, f, content, refused))
  <2>1. F!Becomes(F!Reply(IF mine THEN [Now EXCEPT !.host[h].lock = None] ELSE Now, f,
                          content, refused))
    BY <1>1, <1>2, Zenon DEF F!ServeTimesOut, Now
  <2> QED BY <1>7, <2>1
<1>9. Consistent(made, v, {}) /\ v.fetch = fetch
  BY <1>0, <1>6
<1>10. v.host[h].lock # None => v.host[h].lock.by # f
  BY <1>0, <1>3, <1>6
<1> HIDE DEF u, v
<1>11. content \in Content(Known) /\ content.copy = 0
  BY <1>0, <1>2, ContentTyped
<1>12. \A g \in F!Host : v.host[g].lock # None => v.host[g].lock.by # f
  BY <1>1, <1>4, <1>9, <1>10, NoLockBy
<1>13. Follows(made, content.copy, v.fetch[f].copy)
  BY <1>11, NothingSatisfies
<1>14. Consistent(made, F!Reply(v, f, content, refused), {})
  BY <1>0, <1>4, <1>9, <1>11, <1>12, <1>13, ReplyEnds
<1> QED BY <1>4, <1>8, <1>14, Lands

-----------------------------------------------------------------------------
(* Connections.                                                            *)

\* Connections come and go: frames may be lost that nobody waits for.
LEMMA LinksSound ==
    ASSUME NEW k, NEW w, NEW v, Consistent(k, w, {}), v \in Worlds(Len(k)), Wired(v),
           v.host = w.host, v.fetch = w.fetch, v.server.target = w.server.target,
           \A l \in Lane : \A i \in DOMAIN Queue(v, l) :
               i \in DOMAIN Queue(w, l) /\ Queue(v, l)[i] = Queue(w, l)[i],
           \A asker \in Asker, id \in Nat, f \in F!Fetch :
               Expects(w, asker, id, f) => Expects(v, asker, id, f),
           \A f \in F!Fetch : InQueue(w, f) /\ Waits(w, f) => InQueue(v, f)
    PROVE  Consistent(k, v, {})
<1>0. w \in Worlds(Len(k))
  BY DEF Consistent
<1>1. \A f \in F!Fetch : Waits(v, f) <=> Waits(w, f)
  BY DEF Waits, Waiting
<1>2. \A f : InQueue(v, f) => InQueue(w, f)
  BY DEF InQueue
<1>3. Mail(k, v)
  <2> SUFFICES ASSUME NEW l \in Lane, NEW i \in DOMAIN Queue(v, l)
               PROVE  Good(k, v, l, Queue(v, l)[i])
    BY DEF Mail
  <2> DEFINE m == Queue(w, l)[i]
  <2>1. i \in DOMAIN Queue(w, l) /\ Queue(v, l)[i] = m
    OBVIOUS
  <2>2. Good(k, w, l, m)
    BY <2>1 DEF Consistent, Mail
  <2>3. m \in Frame(Len(k))
    BY <1>0, <2>1, QueuesTyped
  <2> HIDE DEF m
  <2>4. Bearer(l, m) \in Asker /\ m.id \in Nat /\ m.tag \in F!Fetch
    BY <2>3, FrameParts
  <2>5. Good(k, v, l, m)
    BY <2>2, <2>4 DEF Good, Waiting
  <2> QED BY <2>1, <2>5
<1>4. Serves(v)
  <2> SUFFICES ASSUME NEW f \in F!Fetch, v.fetch[f].serve # None
               PROVE  Expects(v, ServedFor(v.fetch[f].serve), v.fetch[f].serve.id, f)
    BY DEF Serves
  <2>1. w.fetch[f] \in Task(Len(k)) /\ w.fetch[f].serve # None
    BY <1>0 DEF Worlds
  <2>2. w.fetch[f].serve \in Serve
    BY <2>1 DEF Task
  <2>3. w.fetch[f].serve.id \in Nat /\ ServedFor(w.fetch[f].serve) \in Asker
    BY <2>2 DEF Serve, ServedFor, Asker
  <2>4. Expects(w, ServedFor(w.fetch[f].serve), w.fetch[f].serve.id, f)
    BY <2>1 DEF Consistent, Serves
  <2> QED BY <2>3, <2>4
<1>5. Alone(v)
  <2>1. \A l, o \in Lane : \A i \in DOMAIN Queue(v, l), j \in DOMAIN Queue(v, o) :
            Queue(v, l)[i].tag = Queue(v, o)[j].tag => l = o /\ i = j
    BY DEF Consistent, Alone
  <2> QED BY <1>2, <2>1 DEF Consistent, Alone
<1>6. Tracked(v, {})
  BY <1>1 DEF Consistent, Tracked
<1>7. Locks(v) /\ Sources(k, v)
  BY DEF Consistent, Locks, Sources
<1>8. \A p : Published(v, p) <=> Published(w, p)
  BY DEF Published, Waiting
<1>9. Cached(k, v)
  <2>1. \A h \in F!Host : \A copy : Newest(k, w, h, copy) <=> Newest(k, v, h, copy)
    BY <1>8 DEF Newest
  <2> QED BY <2>1 DEF Consistent, Cached, Waiting
<1>10. /\ \A h \in F!Host : OfferSound(k, v, h)
       /\ \A f \in F!Fetch : FetchSound(k, v, f)
  BY DEF Consistent, OfferSound, FetchSound, Waiting
<1> QED BY <1>3, <1>4, <1>5, <1>6, <1>7, <1>9, <1>10 DEF Consistent

Joined(w, m, c) ==
    [w EXCEPT !.link[c].machine = m, !.link[c].open = TRUE,
              !.server.listed = @ \union {c}]

LEMMA JoinedSound ==
    ASSUME NEW k, NEW w, Consistent(k, w, {}), NEW m \in Machine, NEW c \in F!Conn,
           w.link[c].machine = None
    PROVE  Consistent(k, Joined(w, m, c), {}) /\ c \in Joined(w, m, c).server.listed
<1> DEFINE v == Joined(w, m, c)
<1>0. w \in Worlds(Len(k)) /\ m # None
  BY HandoffAssumption DEF Consistent
<1>1. PICK old \in Link(Len(k)) : old = w.link[c]
  BY <1>0 DEF Worlds
<1>2. PICK all \in Rotation(Len(k)) : all = w.server
  BY <1>0 DEF Worlds
<1>3. PICK new : new = [old EXCEPT !.machine = m, !.open = TRUE]
  OBVIOUS
<1>4. PICK more : more = [all EXCEPT !.listed = all.listed \union {c}]
  OBVIOUS
<1>5. /\ new \in Link(Len(k)) /\ new.machine = m /\ new.open
      /\ new.up = old.up /\ new.down = old.down
  BY <1>3 DEF Link
<1>6. /\ more \in Rotation(Len(k)) /\ more.listed = all.listed \union {c}
      /\ more.target = all.target /\ more.pending = all.pending
      /\ more.nextId = all.nextId
  BY <1>4 DEF Rotation
<1>7. v = [w EXCEPT !.link[c] = new, !.server = more]
  BY <1>0, <1>1, <1>2, <1>3, <1>4 DEF Joined, Worlds, Link, Rotation
<1> HIDE DEF v
<1>8. /\ v \in Worlds(Len(k)) /\ v.server = more /\ v.host = w.host
      /\ v.fetch = w.fetch
      /\ v.link[c] = new /\ \A b \in F!Conn \ {c} : v.link[b] = w.link[b]
  BY <1>0, <1>5, <1>6, <1>7 DEF Worlds
<1>9. ~w.link[c].open /\ w.link[c].up = <<>> /\ w.link[c].down = <<>>
  BY DEF Consistent, Wired
<1>10. Wired(v)
  <2>1. Wired(w) /\ w.server = all
    BY <1>2 DEF Consistent
  <2>2. v.link[c].machine # None /\ v.link[c].open
    BY <1>0, <1>5, <1>8
  <2>3. \A b \in F!Conn \ {c} : v.link[b] = w.link[b]
    BY <1>8
  <2>4. all.listed \subseteq F!Conn /\ v.server.listed = all.listed \union {c}
    BY <1>6, <1>8 DEF Rotation
  <2>5. ASSUME NEW b \in F!Conn
        PROVE  /\ v.link[b].machine = None => ~v.link[b].open /\ v.link[b].up = <<>>
               /\ ~v.link[b].open => v.link[b].down = <<>>
               /\ b \in v.server.listed => v.link[b].machine # None
    <3>1. CASE b = c
      BY <2>2, <3>1
    <3>2. CASE b # c
      BY <2>1, <2>3, <2>4, <3>2 DEF Wired
    <3> QED BY <3>1, <3>2
  <2> QED BY <2>4, <2>5 DEF Wired
<1>11. \A l \in Lane : Queue(v, l) = Queue(w, l)
  <2> SUFFICES ASSUME NEW l \in Lane PROVE Queue(v, l) = Queue(w, l)
    OBVIOUS
  <2>1. l[2] \in F!Conn
    BY DEF Lane
  <2> QED BY <1>1, <1>5, <1>8, <2>1 DEF Queue
<1>12. ASSUME NEW asker \in Asker, NEW id \in Nat, NEW f \in F!Fetch,
              Expects(w, asker, id, f)
       PROVE  Expects(v, asker, id, f)
  <2>1. Waits(v, f) <=> Waits(w, f)
    BY <1>8 DEF Waits, Waiting
  <2>2. CASE asker = F!Local
    BY <1>2, <1>6, <1>8, <1>12, <2>1, <2>2 DEF Expects
  <2>3. CASE asker # F!Local
    <3>1. asker # c /\ asker \in F!Conn
      BY <1>12, <2>3 DEF Expects, Asker
    <3>2. v.link[asker] = w.link[asker]
      BY <1>8, <3>1
    <3> QED BY <1>12, <2>1, <2>3, <3>2 DEF Expects
  <2> QED BY <2>2, <2>3
<1>13. \A f \in F!Fetch : InQueue(w, f) /\ Waits(w, f) => InQueue(v, f)
  BY <1>11 DEF InQueue
<1>14. v.server.target = w.server.target
  BY <1>2, <1>6, <1>8
<1>15. Consistent(k, v, {})
  BY <1>8, <1>10, <1>11, <1>12, <1>13, <1>14, LinksSound
<1> QED BY <1>6, <1>8, <1>15 DEF v

LEMMA ConnectKeepsFetches ==
    ASSUME FetchesInv, NEW m \in Machine, NEW c \in F!Conn, F!Connect(m, c)
    PROVE  FetchesInv'
<1>0. Consistent(made, Now, {}) /\ made \in Copies /\ Now.link = link
  BY NowFields DEF FetchesInv
<1> DEFINE v == Joined(Now, m, c)
           told == rotation.target # None /\ F!HostOf(Now, rotation.target.source) # m
<1>1. UNCHANGED made /\ F!Becomes(IF told THEN F!AnnounceTo(v, c) ELSE v)
  BY Zenon DEF F!Connect, Joined, Now
<1>2. Now.link[c].machine = None
  BY <1>0 DEF F!Connect
<1>3. Consistent(made, v, {}) /\ c \in v.server.listed
  BY <1>0, <1>2, JoinedSound
<1> HIDE DEF v, told
<1>4. Consistent(made, F!AnnounceTo(v, c), {})
  BY <1>0, <1>3, AnnounceToSettles, SettlesSound DEF Focus
<1> QED BY <1>1, <1>3, <1>4, Lands

\* A connection is lost, and what is left of it is what the server may still read.
Cut(w, c, n) ==
    [w EXCEPT !.link[c] = [w.link[c] EXCEPT !.open = FALSE, !.down = <<>>,
                                            !.up = SubSeq(@, 1, n),
                                            !.pending = <<>>, !.nextId = 0]]

LEMMA CutFields ==
    ASSUME NEW k, NEW w \in Worlds(k), NEW c \in F!Conn, NEW n \in 0 .. Len(w.link[c].up)
    PROVE  /\ Cut(w, c, n) \in Worlds(k) /\ Cut(w, c, n).server = w.server
           /\ Cut(w, c, n).host = w.host /\ Cut(w, c, n).fetch = w.fetch
           /\ \A b \in F!Conn \ {c} : Cut(w, c, n).link[b] = w.link[b]
           /\ Cut(w, c, n).link[c].machine = w.link[c].machine
           /\ ~Cut(w, c, n).link[c].open /\ Cut(w, c, n).link[c].down = <<>>
           /\ Len(Cut(w, c, n).link[c].up) = n
           /\ \A i \in 1 .. n : Cut(w, c, n).link[c].up[i] = w.link[c].up[i]
<1>1. PICK old \in Link(k) : old = w.link[c]
  BY DEF Worlds
<1>2. old.up \in Seq(Frame(k)) /\ n \in Int /\ n <= Len(old.up) /\ n >= 0
  <2>1. old.up \in Seq(Frame(k))
    BY DEF Link
  <2> QED BY <1>1, <2>1
<1>3. PICK q : q = SubSeq(old.up, 1, n)
  OBVIOUS
<1>4. q \in Seq(Frame(k)) /\ Len(q) = n /\ \A i \in 1 .. n : q[i] = old.up[i]
  <2>1. \A i \in 1 .. n : old.up[i] \in Frame(k)
    BY <1>2
  <2>2. /\ q \in Seq(Frame(k)) /\ Len(q) = IF 1 <= n THEN n - 1 + 1 ELSE 0
        /\ \A i \in 1 .. n - 1 + 1 : q[i] = old.up[1 + i - 1]
    BY <1>2, <1>3, <2>1, SubSeqProperties
  <2> QED BY <1>2, <2>2
<1>5. PICK empty : empty = <<>>
  OBVIOUS
<1>6. empty \in Table /\ empty \in Seq(Frame(k))
  BY <1>5, EmptyTable
<1>7. PICK new : new = [old EXCEPT !.open = FALSE, !.down = empty, !.up = q,
                                   !.pending = empty, !.nextId = 0]
  OBVIOUS
<1>8. /\ new \in Link(k) /\ new.machine = old.machine /\ ~new.open
      /\ new.up = q /\ new.down = empty
  BY <1>4, <1>6, <1>7 DEF Link
<1> DEFINE v == Cut(w, c, n)
<1>9. v = [w EXCEPT !.link[c] = new]
  BY <1>1, <1>3, <1>5, <1>7 DEF Cut
<1> HIDE DEF v
<1>10. /\ v \in Worlds(k) /\ v.server = w.server /\ v.host = w.host /\ v.fetch = w.fetch
       /\ \A b \in F!Conn \ {c} : v.link[b] = w.link[b]
       /\ v.link[c] = new
  BY <1>8, <1>9 DEF Worlds
<1> QED BY <1>1, <1>4, <1>5, <1>8, <1>10 DEF v

\* Nothing that the connection loses is waited for.
LEMMA CutSound ==
    ASSUME NEW k, NEW w, Consistent(k, w, {}), NEW c \in F!Conn, w.link[c].open,
           NEW n \in 0 .. Len(w.link[c].up),
           \A i \in DOMAIN w.link[c].up : i > n => ~Waits(w, w.link[c].up[i].tag),
           \A i \in DOMAIN w.link[c].down : ~Waits(w, w.link[c].down[i].tag),
           \A id \in DOMAIN w.link[c].pending : ~Waits(w, w.link[c].pending[id])
    PROVE  Consistent(k, Cut(w, c, n), {})
<1> DEFINE v == Cut(w, c, n)
<1>0. w \in Worlds(Len(k)) /\ c # F!Local
  BY HandoffAssumption DEF Consistent, F!Conn, F!Local
<1>1. /\ v \in Worlds(Len(k)) /\ v.server = w.server /\ v.host = w.host
      /\ v.fetch = w.fetch
      /\ \A b \in F!Conn \ {c} : v.link[b] = w.link[b]
      /\ v.link[c].machine = w.link[c].machine
      /\ ~v.link[c].open /\ v.link[c].down = <<>>
      /\ Len(v.link[c].up) = n
      /\ \A i \in 1 .. n : v.link[c].up[i] = w.link[c].up[i]
  BY <1>0, CutFields
<1> HIDE DEF v
<1>2. w.link[c].up \in Seq(Frame(Len(k))) /\ v.link[c].up \in Seq(Frame(Len(k)))
  <2>1. w.link[c] \in Link(Len(k)) /\ v.link[c] \in Link(Len(k))
    BY <1>0, <1>1 DEF Worlds
  <2> QED BY <2>1 DEF Link
<1>3. DOMAIN v.link[c].up = 1 .. n /\ DOMAIN w.link[c].up = 1 .. Len(w.link[c].up)
  BY <1>1, <1>2
<1>4. w.link[c].machine # None
  BY DEF Consistent, Wired
<1>5. Wired(v)
  <2>1. Wired(w)
    BY DEF Consistent
  <2>2. ASSUME NEW b \in F!Conn
        PROVE  /\ v.link[b].machine = None => ~v.link[b].open /\ v.link[b].up = <<>>
               /\ ~v.link[b].open => v.link[b].down = <<>>
               /\ b \in v.server.listed => v.link[b].machine # None
    <3>1. CASE b = c
      BY <1>1, <1>4, <3>1
    <3>2. CASE b # c
      BY <1>1, <2>1, <3>2 DEF Wired
    <3> QED BY <3>1, <3>2
  <2>3. v.server.listed \subseteq F!Conn
    BY <1>1 DEF Worlds, Rotation
  <2> QED BY <2>2, <2>3 DEF Wired
<1>6. ASSUME NEW l \in Lane
      PROVE  /\ \A i \in DOMAIN Queue(v, l) :
                    i \in DOMAIN Queue(w, l) /\ Queue(v, l)[i] = Queue(w, l)[i]
             /\ \A i \in DOMAIN Queue(w, l) :
                    Waits(w, Queue(w, l)[i].tag) => i \in DOMAIN Queue(v, l)
  <2>1. l[2] \in F!Conn
    BY DEF Lane
  <2>2. CASE l[2] # c
    <3>1. Queue(v, l) = Queue(w, l)
      BY <1>1, <2>1, <2>2 DEF Queue
    <3> QED BY <3>1
  <2>3. CASE l[2] = c /\ l[1] = "up"
    <3>1. Queue(v, l) = v.link[c].up /\ Queue(w, l) = w.link[c].up
      BY <2>3 DEF Queue
    <3> QED BY <1>1, <1>3, <3>1
  <2>4. CASE l[2] = c /\ l[1] # "up"
    <3>1. Queue(v, l) = <<>> /\ Queue(w, l) = w.link[c].down
      BY <1>1, <2>4 DEF Queue
    <3> QED BY <3>1
  <2> QED BY <2>2, <2>3, <2>4
<1>7. \A f \in F!Fetch : InQueue(w, f) /\ Waits(w, f) => InQueue(v, f)
  BY <1>6 DEF InQueue
<1>8. ASSUME NEW asker \in Asker, NEW id \in Nat, NEW f \in F!Fetch,
             Expects(w, asker, id, f)
      PROVE  Expects(v, asker, id, f)
  <2>1. Waits(v, f) <=> Waits(w, f)
    BY <1>1 DEF Waits, Waiting
  <2>2. CASE asker = F!Local
    BY <1>1, <1>8, <2>1, <2>2 DEF Expects
  <2>3. CASE asker = c
    <3>1. ~Waits(w, f)
      BY <1>0, <1>8, <2>3 DEF Expects
    <3> QED BY <1>0, <1>1, <1>4, <2>1, <2>3, <3>1 DEF Expects
  <2>4. CASE asker # F!Local /\ asker # c
    <3>1. asker \in F!Conn /\ v.link[asker] = w.link[asker]
      BY <1>1, <2>4 DEF Asker
    <3> QED BY <1>8, <2>1, <2>4, <3>1 DEF Expects
  <2> QED BY <2>2, <2>3, <2>4
<1>9. Consistent(k, v, {})
  BY <1>1, <1>5, <1>6, <1>7, <1>8, LinksSound
<1> QED BY <1>9 DEF v

LEMMA ServingEnds ==
    ASSUME NEW k, NEW w, NEW hand, Consistent(k, w, hand), NEW h \in F!Host
    PROVE  Consistent(k, [w EXCEPT !.host[h].serving = FALSE], hand)
<1>0. w \in Worlds(Len(k)) /\ k = k
  BY DEF Consistent
<1>1. PICK old \in Machinery(Len(k)) : old = w.host[h]
  BY <1>0 DEF Worlds
<1>2. PICK r : r = [old EXCEPT !.serving = FALSE]
  OBVIOUS
<1>3. /\ r \in Machinery(Len(k)) /\ SameMachine(r, w.host[h])
      /\ r.served = w.host[h].served /\ r.lock = w.host[h].lock
  BY <1>1, <1>2 DEF Machinery, SameMachine
<1>4. [w EXCEPT !.host[h].serving = FALSE] = Reads(w, h, r)
  BY <1>1, <1>2 DEF Reads
<1>5. /\ r.served # None => MadeAt(k, r.served, h) /\ Newest(k, w, h, r.served)
      /\ r.lock # None => /\ w.fetch[r.lock.by].serve # None
                          /\ w.fetch[r.lock.by].serve.host = h
      /\ r.lock # None /\ r.lock.got \notin {0, None} =>
            /\ MadeAt(k, r.lock.got, h)
            /\ r.lock.fresh => Newest(k, w, h, r.lock.got)
            /\ Waiting(w, r.lock.by) => Follows(k, r.lock.got, w.fetch[r.lock.by].copy)
  BY <1>3 DEF Consistent, Cached, Locks
<1>6. /\ Consistent(k, Reads(w, h, r), hand)
      /\ Reads(w, h, r).server = w.server /\ Reads(w, h, r).link = w.link
      /\ Reads(w, h, r).fetch = w.fetch
      /\ Reads(w, h, r).host = [w.host EXCEPT ![h] = r]
      /\ Reads(w, h, r).host[h] = r
  BY <1>3, <1>5, ReadsSound
<1> QED BY <1>4, <1>6

LEMMA DisconnectKeepsFetches ==
    ASSUME FetchesInv, NEW c \in F!Conn, NEW n \in 0 .. Len(link[c].up), F!Disconnect(c, n)
    PROVE  FetchesInv'
<1>0. /\ Consistent(made, Now, {}) /\ made \in Copies /\ Now.link = link /\ Now.host = host
      /\ Now \in Worlds(Known) /\ Known \in Nat
  BY NowFields, KnownNat DEF FetchesInv, Consistent, Known
<1> DEFINE m == link[c].machine
           waiting == {link[c].pending[id] : id \in DOMAIN link[c].pending}
           gone == SubSeq(link[c].up, n + 1, Len(link[c].up)) \o link[c].down
           asked == {f \in F!Fetch : fetch[f].queued /\ fetch[f].host = m}
           lost == F!Tags(gone) \union asked
           u == F!Abandon(Now, waiting)
           v == F!Lose(u, lost)
           x == Cut(v, c, n)
           y == F!StoreTypes(x, m, 0)
<1>1. link[c].open /\ UNCHANGED made
  BY DEF F!Disconnect
<1>2. Consistent(made, u, {}) /\ \A f \in waiting \intersect F!Fetch : ~Waiting(u, f)
  BY <1>0, AbandonSettles, SettlesSound
<1>3. u.link = link
  <2> HIDE DEF waiting
  <2>1. u.link = Now.link
    BY <1>0, AbandonFields
  <2> QED BY <1>0, <2>1
<1> HIDE DEF u, lost
<1>4. /\ Consistent(made, v, {}) /\ Settles(made, u, v)
      /\ \A f \in lost \intersect F!Fetch : ~Waits(v, f)
  BY <1>0, <1>2, LoseSettles, SettlesSound
<1>5. v.link = link
  <2>1. u \in Worlds(Known)
    BY <1>2 DEF Consistent, Known
  <2>2. v.link = u.link
    BY <1>0, <2>1, LoseFields
  <2> QED BY <1>3, <2>2
<1>6. F!Becomes(IF host[m].serving THEN [y EXCEPT !.host[m].serving = FALSE] ELSE x)
  <2>1. F!Becomes(IF host[m].serving
                  THEN [F!StoreTypes([v EXCEPT
                          !.link[c] = [link[c] EXCEPT !.open = FALSE, !.down = <<>>,
                                                      !.up = SubSeq(@, 1, n),
                                                      !.pending = <<>>, !.nextId = 0]],
                          m, 0) EXCEPT !.host[m].serving = FALSE]
                  ELSE [v EXCEPT
                          !.link[c] = [link[c] EXCEPT !.open = FALSE, !.down = <<>>,
                                                      !.up = SubSeq(@, 1, n),
                                                      !.pending = <<>>, !.nextId = 0]])
    BY Zenon DEF F!Disconnect, Now, u, lost
  <2>2. x = [v EXCEPT
                !.link[c] = [link[c] EXCEPT !.open = FALSE, !.down = <<>>,
                                            !.up = SubSeq(@, 1, n),
                                            !.pending = <<>>, !.nextId = 0]]
    <3> HIDE DEF v
    <3> QED BY <1>5, Zenon DEF Cut
  <2> QED BY <2>1, <2>2
<1> HIDE DEF v
<1>7. /\ link[c].up \in Seq(Frame(Known)) /\ link[c].down \in Seq(Frame(Known))
      /\ link[c].pending \in Table /\ link[c].machine \in Machine
  <2>1. link[c] \in Link(Known)
    BY <1>0 DEF Worlds
  <2>2. link[c].machine # None
    BY <1>0, <1>1 DEF Consistent, Wired
  <2> QED BY <2>1, <2>2 DEF Link
<1>8. /\ gone \in Seq(Frame(Known))
      /\ \A i \in DOMAIN link[c].up : i > n =>
            \E j \in DOMAIN gone : gone[j] = link[c].up[i]
      /\ \A i \in DOMAIN link[c].down :
            \E j \in DOMAIN gone : gone[j] = link[c].down[i]
  <2> DEFINE a == link[c].up
             b == link[c].down
             s == SubSeq(a, n + 1, Len(a))
  <2>1. a \in Seq(Frame(Known)) /\ Len(a) \in Nat /\ n \in Nat /\ n <= Len(a)
    BY <1>7
  <2>2. b \in Seq(Frame(Known)) /\ Len(b) \in Nat
    BY <1>7
  <2> HIDE DEF a, b
  <2>3. /\ s \in Seq(Frame(Known))
        /\ Len(s) = IF n + 1 <= Len(a) THEN Len(a) - (n + 1) + 1 ELSE 0
        /\ \A i \in 1 .. Len(a) - (n + 1) + 1 : s[i] = a[(n + 1) + i - 1]
    <3>1. \A i \in n + 1 .. Len(a) : a[i] \in Frame(Known)
      BY <2>1
    <3> QED BY <2>1, <3>1, SubSeqProperties
  <2>4. Len(s) = Len(a) - n /\ \A i \in 1 .. Len(a) - n : s[i] = a[n + i]
    BY <2>1, <2>3
  <2> HIDE DEF s
  <2>5. /\ s \o b \in Seq(Frame(Known)) /\ Len(s \o b) = Len(s) + Len(b)
        /\ \A i \in 1 .. Len(s) + Len(b) :
              (s \o b)[i] = IF i <= Len(s) THEN s[i] ELSE b[i - Len(s)]
    BY <2>2, <2>3, ConcatProperties
  <2>6. PICK g : g = s \o b
    OBVIOUS
  <2>7. /\ g \in Seq(Frame(Known)) /\ DOMAIN g = 1 .. Len(s) + Len(b)
        /\ \A i \in 1 .. Len(s) + Len(b) :
              g[i] = IF i <= Len(s) THEN s[i] ELSE b[i - Len(s)]
    BY <2>2, <2>3, <2>5, <2>6
  <2>8. ASSUME NEW i \in DOMAIN a, i > n PROVE \E j \in DOMAIN g : g[j] = a[i]
    <3>1. i \in 1 .. Len(a)
      BY <2>1, <2>8
    <3>2. i - n \in 1 .. Len(s) /\ i - n \in DOMAIN g
      BY <2>1, <2>2, <2>4, <2>7, <2>8, <3>1
    <3>3. g[i - n] = s[i - n] /\ s[i - n] = a[n + (i - n)]
      BY <2>1, <2>2, <2>4, <2>7, <3>1, <3>2
    <3>4. n + (i - n) = i
      BY <2>1, <3>1
    <3> QED BY <3>2, <3>3, <3>4
  <2>9. ASSUME NEW i \in DOMAIN b PROVE \E j \in DOMAIN g : g[j] = b[i]
    <3>1. i \in 1 .. Len(b) /\ Len(s) \in Nat
      BY <2>1, <2>2, <2>4
    <3>2. Len(s) + i \in DOMAIN g /\ ~(Len(s) + i <= Len(s)) /\ Len(s) + i - Len(s) = i
      BY <2>2, <2>7, <3>1
    <3> QED BY <2>7, <3>2
  <2> QED BY <2>6, <2>7, <2>8, <2>9 DEF a, b, s
<1>9. \A i \in DOMAIN gone : gone[i].tag \in lost /\ gone[i].tag \in F!Fetch
  <2>1. \A i \in DOMAIN gone : gone[i] \in Frame(Known)
    <3> HIDE DEF gone
    <3> QED BY <1>8
  <2>2. ASSUME NEW i \in DOMAIN gone PROVE gone[i].tag \in F!Fetch
    <3>1. <<"up", c>> \in Lane
      BY DEF Lane
    <3>2. PICK z \in Frame(Known) : z = gone[i]
      BY <2>1
    <3>3. z.tag \in F!Fetch
      BY <3>1, FrameParts
    <3> QED BY <3>2, <3>3
  <2> QED BY <2>2 DEF lost, F!Tags
<1> HIDE DEF gone
<1>10. /\ \A i \in DOMAIN link[c].up : i > n => ~Waits(v, link[c].up[i].tag)
       /\ \A i \in DOMAIN link[c].down : ~Waits(v, link[c].down[i].tag)
  BY <1>4, <1>8, <1>9
<1>11. \A id \in DOMAIN link[c].pending : ~Waits(v, link[c].pending[id])
  <2> SUFFICES ASSUME NEW id \in DOMAIN link[c].pending
               PROVE  ~Waits(v, link[c].pending[id])
    OBVIOUS
  <2>1. link[c].pending[id] \in waiting \intersect F!Fetch
    BY <1>7, TableTyped
  <2>2. ~Waiting(u, link[c].pending[id])
    BY <1>2, <2>1
  <2>3. SettlesFetch(made, u, v, link[c].pending[id])
    BY <1>4, <2>1 DEF Settles
  <2> QED BY <2>1, <2>2, <2>3, StillWaits DEF Waits
<1>12. Consistent(made, x, {})
  BY <1>1, <1>4, <1>5, <1>10, <1>11, CutSound
<1> HIDE DEF x
<1>13. m \in F!Host /\ 0 \in 0 .. Known
  BY <1>0, <1>7 DEF F!Host
<1>14. Consistent(made, y, {})
  BY <1>0, <1>12, <1>13, StoreTypesSettles, SettlesSound
<1> HIDE DEF y
<1>15. Consistent(made, [y EXCEPT !.host[m].serving = FALSE], {})
  BY <1>13, <1>14, ServingEnds
<1> QED BY <1>1, <1>6, <1>12, <1>15, Lands

-----------------------------------------------------------------------------
(* A paste.                                                                *)

\* Those who had nothing to do with fetch f are as they were.
LEMMA OthersExpect ==
    ASSUME NEW w, NEW v, NEW f, v.server = w.server, v.link = w.link,
           \A g \in F!Fetch \ {f} : v.fetch[g] = w.fetch[g],
           NEW asker, NEW id, NEW g \in F!Fetch \ {f}, Expects(w, asker, id, g)
    PROVE  Expects(v, asker, id, g)
<1>1. Waits(v, g) <=> Waits(w, g)
  BY DEF Waits, Waiting
<1> QED BY <1>1 DEF Expects

Pasted(w, v, f, h, offer, type) ==
    /\ v.server = w.server /\ v.link = w.link
    /\ \A g \in F!Fetch \ {f} : v.fetch[g] = w.fetch[g]
    /\ v.fetch[f].stage = "waiting" /\ v.fetch[f].queued
    /\ v.fetch[f].copy = offer.copy /\ v.fetch[f].serve = w.fetch[f].serve
    /\ v.fetch[f].wrong = w.fetch[f].wrong /\ v.fetch[f].stale = w.fetch[f].stale
    /\ \A g \in F!Host \ {h} : v.host[g] = w.host[g]
    /\ v.host[h].app = w.host[h].app /\ v.host[h].news = w.host[h].news
    /\ v.host[h].local = w.host[h].local /\ v.host[h].served = w.host[h].served
    /\ v.host[h].lock = w.host[h].lock
    /\ v.host[h].offer.copy = offer.copy /\ v.host[h].offer.cache = None
    /\ v.host[h].offer.fetches = offer.fetches \union {f}

LEMMA PastedSound ==
    ASSUME NEW k, NEW w, Consistent(k, w, {}), NEW f \in F!Fetch, NEW h \in F!Host,
           NEW v \in Worlds(Len(k)), NEW type, NEW offer, offer = w.host[h].offer,
           w.fetch[f].stage = "unused", offer # None, Pasted(w, v, f, h, offer, type)
    PROVE  Consistent(k, v, {})
<1>0. /\ w \in Worlds(Len(k)) /\ ~InQueue(w, f) /\ ~w.fetch[f].queued
      /\ w.fetch[f].serve = None
  BY DEF Consistent, Alone
<1>1. /\ \A l \in Lane : Queue(v, l) = Queue(w, l)
      /\ \A g : InQueue(v, g) <=> InQueue(w, g)
  BY DEF Pasted, Queue, InQueue
<1>2. Wired(v)
  BY DEF Consistent, Wired, Pasted
<1>3. \A g \in F!Fetch : v.fetch[g].serve = w.fetch[g].serve
  BY DEF Pasted
<1>4. \A asker, id : \A g \in F!Fetch \ {f} : Expects(w, asker, id, g) => Expects(v, asker, id, g)
  BY OthersExpect DEF Pasted
<1>5. Mail(k, v)
  <2> SUFFICES ASSUME NEW l \in Lane, NEW i \in DOMAIN Queue(v, l)
               PROVE  Good(k, v, l, Queue(v, l)[i])
    BY DEF Mail
  <2>1. PICK m : m = Queue(w, l)[i]
    OBVIOUS
  <2>2. i \in DOMAIN Queue(w, l) /\ Queue(v, l)[i] = m
    BY <1>1, <2>1
  <2>3. m \in Frame(Len(k)) /\ Good(k, w, l, m)
    BY <1>0, <2>1, <2>2, QueuesTyped DEF Consistent, Mail
  <2>4. m.tag \in F!Fetch \ {f}
    <3>1. m.tag \in F!Fetch
      BY <2>3, FrameParts
    <3>2. InQueue(w, m.tag)
      BY <2>1, <2>2 DEF InQueue
    <3> QED BY <1>0, <3>1, <3>2
  <2>5. v.fetch[m.tag] = w.fetch[m.tag]
    BY <2>4 DEF Pasted
  <2>6. Good(k, v, l, m)
    BY <1>4, <2>3, <2>4, <2>5 DEF Good, Waiting
  <2> QED BY <2>2, <2>6
<1>6. Serves(v)
  BY <1>0, <1>3, <1>4 DEF Consistent, Serves
<1>7. Alone(v)
  <2>1. \A l, o \in Lane : \A i \in DOMAIN Queue(v, l), j \in DOMAIN Queue(v, o) :
            Queue(v, l)[i].tag = Queue(v, o)[j].tag => l = o /\ i = j
    BY <1>1 DEF Consistent, Alone
  <2>2. ASSUME NEW g \in F!Fetch
        PROVE  /\ InQueue(v, g) => ~v.fetch[g].queued /\ v.fetch[g].serve = None
               /\ v.fetch[g].serve # None => ~v.fetch[g].queued
               /\ v.fetch[g].stage = "unused" =>
                     ~InQueue(v, g) /\ ~v.fetch[g].queued /\ v.fetch[g].serve = None
    <3>1. CASE g = f
      BY <1>0, <1>1, <1>3, <3>1 DEF Pasted
    <3>2. CASE g # f
      <4>1. v.fetch[g] = w.fetch[g]
        BY <3>2 DEF Pasted
      <4> QED BY <1>1, <4>1 DEF Consistent, Alone
    <3> QED BY <3>1, <3>2
  <2> QED BY <2>1, <2>2 DEF Alone
<1>8. Tracked(v, {})
  <2> SUFFICES ASSUME NEW g \in F!Fetch, Waits(v, g)
               PROVE  InQueue(v, g) \/ v.fetch[g].queued \/ v.fetch[g].serve # None
    BY DEF Tracked
  <2>1. CASE g = f
    BY <2>1 DEF Pasted
  <2>2. CASE g # f
    <3>1. v.fetch[g] = w.fetch[g]
      BY <2>2 DEF Pasted
    <3> QED BY <1>1, <3>1 DEF Consistent, Tracked, Waits, Waiting
  <2> QED BY <2>1, <2>2
<1>9. Locks(v) /\ Sources(k, v)
  <2>1. \A g \in F!Host :
            /\ v.host[g].app = w.host[g].app /\ v.host[g].news = w.host[g].news
            /\ v.host[g].local = w.host[g].local /\ v.host[g].lock = w.host[g].lock
    BY DEF Pasted
  <2>2. \A g \in F!Host : w.host[g].lock # None => w.host[g].lock.by \in F!Fetch
    <3> SUFFICES ASSUME NEW g \in F!Host, w.host[g].lock # None
                 PROVE  w.host[g].lock.by \in F!Fetch
      OBVIOUS
    <3>1. w.host[g] \in Machinery(Len(k))
      BY <1>0 DEF Worlds
    <3>2. w.host[g].lock \in Lock(Len(k))
      BY <3>1 DEF Machinery
    <3> QED BY <3>2 DEF Lock
  <2>3. Locks(v)
    <3>1. Locks(w)
      BY DEF Consistent
    <3>2. ASSUME NEW g \in F!Host, v.host[g].lock # None
          PROVE  /\ v.fetch[v.host[g].lock.by].serve # None
                 /\ v.fetch[v.host[g].lock.by].serve.host = g
      <4>1. w.host[g].lock # None /\ v.host[g].lock = w.host[g].lock
        BY <2>1, <3>2
      <4>2. v.fetch[w.host[g].lock.by].serve = w.fetch[w.host[g].lock.by].serve
        BY <1>3, <2>2, <4>1
      <4> QED BY <3>1, <4>1, <4>2 DEF Locks
    <3> QED BY <3>2 DEF Locks
  <2>4. Sources(k, v)
    BY <2>1 DEF Consistent, Sources
  <2> QED BY <2>3, <2>4
<1>10. ASSUME NEW p, Published(v, p) PROVE Published(w, p)
  <2>1. CASE \E g \in F!Host : v.host[g].offer # None /\ v.host[g].offer.copy = p
    BY <2>1 DEF Published, Pasted
  <2>2. CASE \E g \in F!Host : v.host[g].local = p
    BY <2>2 DEF Published, Pasted
  <2>3. CASE v.server.target # None /\ v.server.target.copy = p
    BY <2>3 DEF Published, Pasted
  <2>4. CASE \E g \in F!Fetch : Waiting(v, g) /\ v.fetch[g].copy = p
    <3>1. PICK g \in F!Fetch : Waiting(v, g) /\ v.fetch[g].copy = p
      BY <2>4
    <3>2. CASE g = f
      BY <3>1, <3>2 DEF Published, Pasted
    <3>3. CASE g # f
      <4>1. v.fetch[g] = w.fetch[g]
        BY <3>3 DEF Pasted
      <4> QED BY <3>1, <4>1 DEF Published, Waiting
    <3> QED BY <3>2, <3>3
  <2> QED BY <1>10, <2>1, <2>2, <2>3, <2>4 DEF Published
<1>11. Cached(k, v)
  <2> SUFFICES ASSUME NEW g \in F!Host
               PROVE  /\ v.host[g].served # None =>
                            /\ MadeAt(k, v.host[g].served, g)
                            /\ Newest(k, v, g, v.host[g].served)
                      /\ v.host[g].lock # None /\ v.host[g].lock.got \notin {0, None} =>
                            /\ MadeAt(k, v.host[g].lock.got, g)
                            /\ v.host[g].lock.fresh => Newest(k, v, g, v.host[g].lock.got)
                            /\ Waiting(v, v.host[g].lock.by) =>
                                  Follows(k, v.host[g].lock.got,
                                           v.fetch[v.host[g].lock.by].copy)
    BY DEF Cached
  <2>1. v.host[g].served = w.host[g].served /\ v.host[g].lock = w.host[g].lock
    BY DEF Pasted
  <2>2. \A copy : Newest(k, w, g, copy) => Newest(k, v, g, copy)
    BY <1>10 DEF Newest
  <2>3. w.host[g].lock # None =>
            v.fetch[w.host[g].lock.by] = w.fetch[w.host[g].lock.by]
    <3> SUFFICES ASSUME w.host[g].lock # None
                 PROVE  v.fetch[w.host[g].lock.by] = w.fetch[w.host[g].lock.by]
      OBVIOUS
    <3>1. w.host[g] \in Machinery(Len(k))
      BY <1>0 DEF Worlds
    <3>2. w.host[g].lock \in Lock(Len(k))
      BY <3>1 DEF Machinery
    <3>3. w.host[g].lock.by \in F!Fetch \ {f}
      BY <1>0, <3>2 DEF Lock, Consistent, Locks
    <3> QED BY <3>3 DEF Pasted
  <2> QED BY <2>1, <2>2, <2>3 DEF Consistent, Cached, Waiting
<1>12. ASSUME NEW g \in F!Host PROVE OfferSound(k, v, g)
  <2>1. OfferSound(k, w, g)
    BY DEF Consistent
  <2>2. w.host[g].offer # None => f \notin w.host[g].offer.fetches
    BY <2>1 DEF OfferSound
  <2>3. w.host[g].offer # None => w.host[g].offer.fetches \subseteq F!Fetch
    <3>1. w.host[g] \in Machinery(Len(k))
      BY <1>0 DEF Worlds
    <3>2. w.host[g].offer # None => w.host[g].offer \in Offer(Len(k))
      BY <3>1 DEF Machinery
    <3> QED BY <3>2 DEF Offer
  <2>4. w.host[g].offer # None =>
            \A e \in w.host[g].offer.fetches : v.fetch[e] = w.fetch[e]
    BY <2>2, <2>3 DEF Pasted
  <2>5. CASE g = h
    BY <2>1, <2>4, <2>5 DEF OfferSound, Waiting, Pasted
  <2>6. CASE g # h
    <3>1. v.host[g] = w.host[g]
      BY <2>6 DEF Pasted
    <3> QED BY <2>1, <2>4, <3>1 DEF OfferSound, Waiting
  <2> QED BY <2>5, <2>6
<1>13. ASSUME NEW g \in F!Fetch PROVE FetchSound(k, v, g)
  <2>1. FetchSound(k, w, g)
    BY DEF Consistent
  <2>2. CASE g = f
    <3>1. offer.copy \in 1 .. Len(k)
      <4>1. w.host[h] \in Machinery(Len(k))
        BY <1>0 DEF Worlds
      <4>2. offer \in Offer(Len(k))
        BY <4>1 DEF Machinery
      <4> QED BY <4>2 DEF Offer
    <3> QED BY <2>1, <2>2, <3>1 DEF FetchSound, Pasted
  <2>3. CASE g # f
    <3>1. v.fetch[g] = w.fetch[g]
      BY <2>3 DEF Pasted
    <3> QED BY <2>1, <3>1 DEF FetchSound, Waiting
  <2> QED BY <2>2, <2>3
<1> QED BY <1>2, <1>5, <1>6, <1>7, <1>8, <1>9, <1>11, <1>12, <1>13 DEF Consistent

LEMMA PasteKeepsFetches ==
    ASSUME FetchesInv, NEW f \in F!Fetch, NEW h \in F!Host, F!Paste(f, h)
    PROVE  FetchesInv'
<1>0. /\ Consistent(made, Now, {}) /\ made \in Copies /\ Now \in Worlds(Known)
      /\ Now.server = rotation /\ Now.link = link /\ Now.host = host /\ Now.fetch = fetch
  BY NowFields DEF FetchesInv, Consistent, Known
<1>1. PICK offer : offer = host[h].offer
  OBVIOUS
<1>2. PICK type : type = made[offer.copy].type
  OBVIOUS
<1>3. /\ fetch[f].stage = "unused" /\ offer # None /\ offer.cache = None
      /\ fetch' = [fetch EXCEPT ![f] = [@ EXCEPT !.stage = "waiting", !.queued = TRUE,
                                                 !.host = h, !.type = type,
                                                 !.copy = offer.copy]]
      /\ host' = [host EXCEPT ![h].offer.fetches = @ \union {f}]
      /\ UNCHANGED <<rotation, link, made>>
  BY <1>1, <1>2, Zenon DEF F!Paste
<1>4. PICK old \in Machinery(Known) : old = host[h]
  BY <1>0 DEF Worlds
<1>5. offer \in Offer(Known)
  BY <1>1, <1>3, <1>4 DEF Machinery
<1>6. PICK copy \in 1 .. Known : copy = offer.copy
  BY <1>5 DEF Offer
<1>7. type \in Mime
  <2>1. PICK S : S = [host : F!Host, type : Type]
    OBVIOUS
  <2>2. made \in Seq(S)
    BY <1>0, <2>1 DEF Copies
  <2>a. made[copy] \in S
    BY <1>6, <2>2, ElementOfSeq DEF Known
  <2>b. made[copy].type \in Type
    BY <2>1, <2>a
  <2> QED BY <1>2, <1>6, <2>b DEF Mime
<1>8. PICK ad : ad = [offer EXCEPT !.fetches = offer.fetches \union {f}]
  OBVIOUS
<1>9. /\ ad \in Offer(Known) /\ ad.copy = offer.copy /\ ad.cache = None
      /\ ad.fetches = offer.fetches \union {f}
  BY <1>3, <1>5, <1>8 DEF Offer
<1>10. PICK r : r = [old EXCEPT !.offer = ad]
  OBVIOUS
<1>11. /\ r \in Machinery(Known) /\ r.app = old.app /\ r.news = old.news
       /\ r.local = old.local /\ r.served = old.served /\ r.lock = old.lock
       /\ r.offer = ad
  BY <1>9, <1>10 DEF Machinery
<1>12. PICK task \in Task(Known) : task = fetch[f]
  BY <1>0 DEF Worlds
<1>13. PICK t : t = [task EXCEPT !.stage = "waiting", !.queued = TRUE,
                                 !.host = h, !.type = type, !.copy = copy]
  OBVIOUS
<1>14. /\ t \in Task(Known) /\ t.stage = "waiting" /\ t.queued /\ t.copy = copy
       /\ t.serve = task.serve /\ t.wrong = task.wrong /\ t.stale = task.stale
  <2>1. copy \in 0 .. Known
    BY <1>0, KnownNat
  <2>2. task \in [stage : {"unused", "waiting", "over"}, queued : BOOLEAN, host : F!Host,
                  type : Mime, copy : 0 .. Known, serve : Serve \union {None},
                  lost : BOOLEAN, wrong : BOOLEAN, stale : BOOLEAN]
    BY DEF Task
  <2>3. /\ t \in [stage : {"unused", "waiting", "over"}, queued : BOOLEAN, host : F!Host,
                   type : Mime, copy : 0 .. Known, serve : Serve \union {None},
                   lost : BOOLEAN, wrong : BOOLEAN, stale : BOOLEAN]
        /\ t.stage = "waiting" /\ t.queued = TRUE /\ t.copy = copy
        /\ t.serve = task.serve /\ t.wrong = task.wrong /\ t.stale = task.stale
    BY ONLY <1>7, <1>13, <2>1, <2>2, h \in F!Host
  <2> QED BY ONLY <2>3, Zenon DEF Task
<1>15. PICK v : v = [Now EXCEPT !.host[h] = r, !.fetch[f] = t]
  OBVIOUS
<1>16. /\ v \in Worlds(Known) /\ v.server = rotation /\ v.link = link
       /\ v.host = [host EXCEPT ![h] = r] /\ v.fetch = [fetch EXCEPT ![f] = t]
       /\ v.host[h] = r /\ v.fetch[f] = t
       /\ \A g \in F!Host \ {h} : v.host[g] = host[g]
       /\ \A g \in F!Fetch \ {f} : v.fetch[g] = fetch[g]
  BY <1>0, <1>11, <1>14, <1>15 DEF Worlds
<1>18. Pasted(Now, v, f, h, offer, type)
  BY <1>0, <1>4, <1>6, <1>9, <1>11, <1>12, <1>14, <1>16 DEF Pasted
<1>19. Consistent(made, v, {})
  BY <1>0, <1>1, <1>3, <1>16, <1>18, PastedSound DEF Known
<1>20. fetch' = v.fetch
  <2>1. t = [fetch[f] EXCEPT !.stage = "waiting", !.queued = TRUE,
                             !.host = h, !.type = type, !.copy = offer.copy]
    BY <1>6, <1>12, <1>13
  <2> QED BY <1>3, <1>16, <2>1
<1>21. host' = v.host
  <2>1. [old EXCEPT !.offer.fetches = @ \union {f}] = r
    BY <1>1, <1>4, <1>5, <1>8, <1>10 DEF Machinery, Offer
  <2>2. host \in [F!Host -> Machinery(Known)]
    BY <1>0 DEF Worlds
  <2> QED BY <1>3, <1>4, <1>16, <2>1, <2>2
<1>22. F!Becomes(v)
  BY <1>3, <1>16, <1>20, <1>21 DEF F!Becomes
<1> QED BY <1>3, <1>19, <1>22, Lands

-----------------------------------------------------------------------------
(* A copy.                                                                 *)

LEMMA WorldsGrow ==
    ASSUME NEW n \in Nat, NEW w \in Worlds(n)
    PROVE  w \in Worlds(n + 1)
<1>1. 0 .. n \subseteq 0 .. n + 1 /\ 1 .. n \subseteq 1 .. n + 1
  OBVIOUS
<1>2. Content(n) \subseteq Content(n + 1)
  BY <1>1 DEF Content
<1>3. Frame(n) \subseteq Frame(n + 1)
  BY <1>2 DEF Frame, Answer
<1>4. Rotation(n) \subseteq Rotation(n + 1)
  <2>1. Offerer(n) \subseteq Offerer(n + 1)
    BY <1>1 DEF Offerer
  <2> QED BY <2>1 DEF Rotation
<1>5. Machinery(n) \subseteq Machinery(n + 1)
  <2>1. Offer(n) \subseteq Offer(n + 1)
    BY <1>1, <1>2 DEF Offer
  <2>2. Lock(n) \subseteq Lock(n + 1)
    BY <1>1 DEF Lock
  <2> QED BY <1>1, <2>1, <2>2 DEF Machinery
<1>6. Link(n) \subseteq Link(n + 1)
  <2>1. Seq(Frame(n)) \subseteq Seq(Frame(n + 1))
    BY <1>3, SeqMonotonic
  <2> QED BY <2>1 DEF Link
<1>7. Task(n) \subseteq Task(n + 1)
  BY <1>1 DEF Task
<1>8. /\ w.server \in Rotation(n + 1) /\ w.host \in [F!Host -> Machinery(n + 1)]
      /\ w.link \in [F!Conn -> Link(n + 1)] /\ w.fetch \in [F!Fetch -> Task(n + 1)]
  BY <1>4, <1>5, <1>6, <1>7 DEF Worlds
<1>9. w = [server |-> w.server, host |-> w.host, link |-> w.link, fetch |-> w.fetch]
  BY DEF Worlds
<1> QED BY <1>8, <1>9 DEF Worlds

\* The last copy is of machine h.
Grows(k, x, h) ==
    /\ Len(x) = Len(k) + 1
    /\ \A i \in 1 .. Len(k) : x[i] = k[i]
    /\ x[Len(k) + 1].host = h

WithCopy(w, v, h, n) ==
    /\ v.server = w.server /\ v.link = w.link /\ v.fetch = w.fetch
    /\ \A g \in F!Host \ {h} : v.host[g] = w.host[g]
    /\ v.host[h].app = n /\ v.host[h].news = n /\ v.host[h].offer = None
    /\ v.host[h].local = w.host[h].local /\ v.host[h].served = w.host[h].served
    /\ v.host[h].lock = w.host[h].lock

LEMMA OlderCopies ==
    ASSUME NEW k, NEW x, NEW h, Grows(k, x, h), Len(k) \in Nat, NEW copy \in 0 .. Len(k),
           NEW advertised \in 1 .. Len(k), Follows(k, copy, advertised)
    PROVE  Follows(x, copy, advertised)
  BY DEF Follows, Grows

LEMMA PublishedTyped ==
    ASSUME NEW k, NEW w, Consistent(k, w, {}), NEW p \in Int, Published(w, p), Len(k) \in Nat
    PROVE  p \in 0 .. Len(k)
<1>0. w \in Worlds(Len(k))
  BY DEF Consistent
<1>1. CASE \E g \in F!Host : w.host[g].offer # None /\ w.host[g].offer.copy = p
  <2>1. PICK g \in F!Host : w.host[g].offer # None /\ w.host[g].offer.copy = p
    BY <1>1
  <2>2. w.host[g] \in Machinery(Len(k))
    BY <1>0 DEF Worlds
  <2>3. w.host[g].offer \in Offer(Len(k))
    BY <2>1, <2>2 DEF Machinery
  <2> QED BY <2>1, <2>3 DEF Offer
<1>2. CASE \E g \in F!Host : w.host[g].local = p
  <2>1. PICK g \in F!Host : w.host[g].local = p
    BY <1>2
  <2>2. w.host[g] \in Machinery(Len(k))
    BY <1>0 DEF Worlds
  <2>3. w.host[g].local \in 0 .. Len(k) \union {None}
    BY <2>2 DEF Machinery
  <2> QED BY <2>1, <2>3, HandoffAssumption
<1>3. CASE w.server.target # None /\ w.server.target.copy = p
  <2>1. w.server.target \in Offerer(Len(k))
    BY <1>0, <1>3 DEF Worlds, Rotation
  <2> QED BY <1>3, <2>1 DEF Offerer
<1>4. CASE \E g \in F!Fetch : Waiting(w, g) /\ w.fetch[g].copy = p
  BY <1>4 DEF Consistent, FetchSound
<1> QED BY <1>1, <1>2, <1>3, <1>4 DEF Published

LEMMA CopiedSound ==
    ASSUME NEW k \in Copies, NEW x, NEW w, Consistent(k, w, {}), NEW h \in F!Host,
           Grows(k, x, h), NEW n, n = Len(x), NEW v \in Worlds(n), WithCopy(w, v, h, n)
    PROVE  Consistent(x, v, {})
<1>0. /\ w \in Worlds(Len(k)) /\ Len(k) \in Nat /\ n = Len(k) + 1
      /\ v \in Worlds(Len(x))
  BY DEF Consistent, Copies, Grows
<1>1. /\ \A l \in Lane : Queue(v, l) = Queue(w, l)
      /\ \A g : InQueue(v, g) <=> InQueue(w, g)
  BY DEF WithCopy, Queue, InQueue
<1>2. /\ Wired(v) /\ Alone(v) /\ Tracked(v, {})
      /\ \A f : Waiting(v, f) <=> Waiting(w, f)
  BY <1>1 DEF Consistent, Wired, Alone, Tracked, Waits, Waiting, WithCopy
<1>3. \A asker, id, f : Expects(v, asker, id, f) <=> Expects(w, asker, id, f)
  BY DEF Expects, Waits, Waiting, WithCopy
<1>4. Serves(v)
  BY <1>3 DEF Consistent, Serves, WithCopy
<1>5. \A g \in F!Host : v.host[g].lock = w.host[g].lock
                        /\ v.host[g].served = w.host[g].served
                        /\ v.host[g].local = w.host[g].local
                        /\ v.host[g].offer \in {w.host[g].offer, None}
  BY DEF WithCopy
<1>6. Locks(v)
  <2>1. Locks(w) /\ v.fetch = w.fetch
    BY DEF Consistent, WithCopy
  <2> QED BY <1>5, <2>1 DEF Locks
<1>7. \A f \in F!Fetch : Waiting(w, f) => w.fetch[f].copy \in 1 .. Len(k)
  BY DEF Consistent, FetchSound
<1>8. Mail(x, v)
  <2> SUFFICES ASSUME NEW l \in Lane, NEW i \in DOMAIN Queue(v, l)
               PROVE  Good(x, v, l, Queue(v, l)[i])
    BY DEF Mail
  <2>1. PICK m : m = Queue(w, l)[i]
    OBVIOUS
  <2>2. i \in DOMAIN Queue(w, l) /\ Queue(v, l)[i] = m
    BY <1>1, <2>1
  <2>3. m \in Frame(Len(k)) /\ Good(k, w, l, m)
    BY <1>0, <2>1, <2>2, QueuesTyped DEF Consistent, Mail
  <2>4. m.tag \in F!Fetch /\ (m.kind = "answer" => m.content \in Content(Len(k)))
    BY <2>3, FrameParts
  <2>5. m.kind = "answer" /\ Waiting(v, m.tag)
            => Follows(x, m.content.copy, v.fetch[m.tag].copy)
    <3> SUFFICES ASSUME m.kind = "answer", Waiting(w, m.tag)
                 PROVE  Follows(x, m.content.copy, w.fetch[m.tag].copy)
      BY <1>2 DEF WithCopy
    <3>1. m.content.copy \in 0 .. Len(k)
      BY <2>4 DEF Content
    <3>2. Follows(k, m.content.copy, w.fetch[m.tag].copy)
      BY <2>3 DEF Good
    <3> QED BY <1>0, <1>7, <2>4, <3>1, <3>2, OlderCopies
  <2>6. Good(x, v, l, m)
    BY <1>3, <2>3, <2>5 DEF Good
  <2> QED BY <2>2, <2>6
<1>9. \A g, copy : MadeAt(k, copy, g) => MadeAt(x, copy, g)
  BY <1>0 DEF MadeAt, Grows
<1>10. Sources(x, v)
  <2> SUFFICES ASSUME NEW g \in F!Host
               PROVE  /\ v.host[g].app # 0 =>
                            /\ MadeAt(x, v.host[g].app, g)
                            /\ \A q \in 1 .. Len(x) : x[q].host = g => q <= v.host[g].app
                      /\ v.host[g].news \notin {0, None} => MadeAt(x, v.host[g].news, g)
                      /\ v.host[g].local \notin {0, None} => MadeAt(x, v.host[g].local, g)
    BY DEF Sources
  <2>1. CASE g = h
    <3>1. MadeAt(x, n, h) /\ \A q \in 1 .. Len(x) : q <= n
      BY <1>0 DEF MadeAt, Grows
    <3>2. w.host[g].local \notin {0, None} => MadeAt(x, w.host[g].local, g)
      BY <1>9 DEF Consistent, Sources
    <3> QED BY <1>5, <2>1, <3>1, <3>2 DEF WithCopy
  <2>2. CASE g # h
    <3>1. v.host[g] = w.host[g]
      BY <2>2 DEF WithCopy
    <3>2. \A q \in 1 .. Len(x) : x[q].host = g => q \in 1 .. Len(k) /\ k[q].host = g
      BY <1>0, <2>2 DEF Grows
    <3> QED BY <1>9, <3>1, <3>2 DEF Consistent, Sources
  <2> QED BY <2>1, <2>2
<1>11. ASSUME NEW p \in 1 .. Len(x), Published(v, p) PROVE p \in 1 .. Len(k) /\ Published(w, p)
  <2>1. Published(w, p)
    BY <1>5, <1>11 DEF Published, WithCopy, Waiting
  <2>2. p \in 0 .. Len(k)
    BY <1>0, <2>1, PublishedTyped
  <2> QED BY <1>0, <2>1, <2>2
<1>12. ASSUME NEW g \in F!Host, NEW copy, Newest(k, w, g, copy)
       PROVE  Newest(x, v, g, copy)
  BY <1>11, <1>12 DEF Newest, Grows
<1>13. Cached(x, v)
  <2> SUFFICES ASSUME NEW g \in F!Host
               PROVE  /\ w.host[g].served # None =>
                            /\ MadeAt(x, w.host[g].served, g)
                            /\ Newest(x, v, g, w.host[g].served)
                      /\ w.host[g].lock # None /\ w.host[g].lock.got \notin {0, None} =>
                            /\ MadeAt(x, w.host[g].lock.got, g)
                            /\ w.host[g].lock.fresh => Newest(x, v, g, w.host[g].lock.got)
                            /\ Waiting(v, w.host[g].lock.by) =>
                                  Follows(x, w.host[g].lock.got,
                                           v.fetch[w.host[g].lock.by].copy)
    BY <1>5 DEF Cached
  <2>1. w.host[g].served # None =>
            MadeAt(k, w.host[g].served, g) /\ Newest(k, w, g, w.host[g].served)
    BY DEF Consistent, Cached
  <2>2. ASSUME w.host[g].lock # None, w.host[g].lock.got \notin {0, None}
        PROVE  /\ MadeAt(x, w.host[g].lock.got, g)
               /\ w.host[g].lock.fresh => Newest(x, v, g, w.host[g].lock.got)
               /\ Waiting(v, w.host[g].lock.by) =>
                     Follows(x, w.host[g].lock.got, v.fetch[w.host[g].lock.by].copy)
    <3>1. /\ MadeAt(k, w.host[g].lock.got, g)
          /\ w.host[g].lock.fresh => Newest(k, w, g, w.host[g].lock.got)
          /\ Waiting(w, w.host[g].lock.by) =>
                Follows(k, w.host[g].lock.got, w.fetch[w.host[g].lock.by].copy)
      BY <2>2 DEF Consistent, Cached
    <3>2. w.host[g].lock.by \in F!Fetch
      <4>1. w.host[g] \in Machinery(Len(k))
        BY <1>0 DEF Worlds
      <4>2. w.host[g].lock \in Lock(Len(k))
        BY <2>2, <4>1 DEF Machinery
      <4> QED BY <4>2 DEF Lock
    <3>3. w.host[g].lock.got \in 0 .. Len(k)
      BY <1>0, <3>1 DEF MadeAt
    <3>4. Waiting(w, w.host[g].lock.by) =>
              Follows(x, w.host[g].lock.got, w.fetch[w.host[g].lock.by].copy)
      BY <1>0, <1>7, <3>1, <3>2, <3>3, OlderCopies
    <3>5. v.fetch = w.fetch
      BY DEF WithCopy
    <3> QED BY <1>2, <1>9, <1>12, <3>1, <3>4, <3>5
  <2> QED BY <1>9, <1>12, <2>1, <2>2
<1>14. ASSUME NEW g \in F!Host PROVE OfferSound(x, v, g)
  <2>1. CASE g = h
    BY <2>1 DEF OfferSound, WithCopy
  <2>2. CASE g # h
    <3>1. v.host[g] = w.host[g] /\ v.fetch = w.fetch /\ OfferSound(k, w, g)
      BY <2>2 DEF WithCopy, Consistent
    <3>2. ASSUME w.host[g].offer # None, w.host[g].offer.cache # None
          PROVE  Follows(x, w.host[g].offer.cache.copy, w.host[g].offer.copy)
      <4>1. w.host[g] \in Machinery(Len(k))
        BY <1>0 DEF Worlds
      <4>2. w.host[g].offer \in Offer(Len(k))
        BY <3>2, <4>1 DEF Machinery
      <4>3. w.host[g].offer.cache \in Content(Len(k)) /\ w.host[g].offer.copy \in 1 .. Len(k)
        BY <3>2, <4>2 DEF Offer
      <4>4. w.host[g].offer.cache.copy \in 0 .. Len(k)
        BY <4>3 DEF Content
      <4>5. Follows(k, w.host[g].offer.cache.copy, w.host[g].offer.copy)
        BY <3>1, <3>2 DEF OfferSound
      <4> QED BY <1>0, <4>3, <4>4, <4>5, OlderCopies
    <3> QED BY <3>1, <3>2 DEF OfferSound, Waiting
  <2> QED BY <2>1, <2>2
<1>15. ASSUME NEW f \in F!Fetch PROVE FetchSound(x, v, f)
  BY <1>0, <1>7 DEF Consistent, FetchSound, Waiting, WithCopy
<1> QED BY <1>0, <1>2, <1>4, <1>6, <1>8, <1>10, <1>13, <1>14, <1>15 DEF Consistent

LEMMA CopyAtKeepsFetches ==
    ASSUME FetchesInv, NEW h \in F!Host, NEW type \in Type, F!CopyAt(h, type)
    PROVE  FetchesInv'
<1>0. /\ Consistent(made, Now, {}) /\ made \in Copies /\ Now \in Worlds(Known)
      /\ Now.server = rotation /\ Now.link = link /\ Now.host = host /\ Now.fetch = fetch
      /\ Known \in Nat
  BY NowFields, KnownNat DEF FetchesInv, Consistent, Known
<1>1. PICK copy : copy = [host |-> h, type |-> type]
  OBVIOUS
<1>2. PICK S : S = [host : F!Host, type : Type]
  OBVIOUS
<1>3. copy \in S /\ made \in Seq(S) /\ copy.host = h
  BY <1>0, <1>1, <1>2 DEF Copies
<1>4. made' = Append(made, copy)
  BY <1>1 DEF F!CopyAt
<1>5. /\ made' \in Seq(S) /\ Len(made') = Known + 1
      /\ \A i \in 1 .. Known : made'[i] = made[i]
      /\ made'[Known + 1] = copy
  BY <1>3, <1>4, AppendProperties DEF Known
<1>6. made' \in Copies
  BY <1>2, <1>5 DEF Copies
<1>7. Grows(made, made', h)
  BY <1>3, <1>5 DEF Grows, Known
<1>8. PICK n \in Nat : n = Len(made')
  BY <1>0, <1>5
<1>9. Now \in Worlds(n) /\ n \in 0 .. n
  BY <1>0, <1>5, <1>8, WorldsGrow
<1>10. PICK old \in Machinery(n) : old = host[h]
  BY <1>0, <1>9 DEF Worlds
<1>11. PICK r : r = [old EXCEPT !.app = n, !.news = n, !.offer = None]
  OBVIOUS
<1>12. /\ r \in Machinery(n) /\ r.app = n /\ r.news = n /\ r.offer = None
       /\ r.local = old.local /\ r.served = old.served /\ r.lock = old.lock
  BY <1>9, <1>11 DEF Machinery
<1>13. PICK v : v = [Now EXCEPT !.host[h] = r]
  OBVIOUS
<1>14. /\ v \in Worlds(n) /\ v.server = rotation /\ v.link = link /\ v.fetch = fetch
       /\ v.host = [host EXCEPT ![h] = r] /\ v.host[h] = r
       /\ \A g \in F!Host \ {h} : v.host[g] = host[g]
  BY <1>0, <1>9, <1>12, <1>13 DEF Worlds
<1>15. WithCopy(Now, v, h, n)
  BY <1>0, <1>10, <1>12, <1>14 DEF WithCopy
<1>16. Consistent(made', v, {})
  BY <1>0, <1>7, <1>8, <1>14, <1>15, CopiedSound
<1>17. host' = v.host /\ UNCHANGED <<rotation, link, fetch>>
  <2>1. host' = [host EXCEPT ![h] = [@ EXCEPT !.app = n, !.news = n, !.offer = None]]
    BY <1>8 DEF F!CopyAt
  <2>2. UNCHANGED <<rotation, link, fetch>>
    BY DEF F!CopyAt
  <2> QED BY <1>10, <1>11, <1>14, <2>1, <2>2
<1>18. Now' = v
  <2>1. v = [server |-> v.server, host |-> v.host, link |-> v.link, fetch |-> v.fetch]
    BY <1>14 DEF Worlds
  <2> QED BY <1>14, <1>17, <2>1 DEF Now, F!World
<1>19. Known' <= MaxCopies
  <2>1. Known < MaxCopies
    BY DEF F!CopyAt, Known
  <2>2. Known' = Known + 1
    BY <1>5 DEF Known
  <2> QED BY <1>0, <2>1, <2>2, HandoffAssumption
<1> QED BY <1>6, <1>16, <1>18, <1>19 DEF FetchesInv

-----------------------------------------------------------------------------
(* The invariant.                                                          *)

LEMMA InitFetches ==
    ASSUME F!FetchAssumption, F!Init
    PROVE  FetchesInv
<1> DEFINE w == Now
<1>0. made = <<>> /\ made \in Copies /\ Known = 0
  BY EmptySeq DEF F!Init, Copies, Known
<1>1. PICK empty : empty = <<>>
  OBVIOUS
<1>2. /\ empty \in Table /\ empty \in Seq(Frame(0)) /\ DOMAIN empty = {}
  BY <1>1, EmptyTable, EmptySeq
<1>3. PICK all : all = [listed |-> {}, target |-> None, pending |-> empty, nextId |-> 0]
  OBVIOUS
<1>4. all \in Rotation(0)
  BY <1>2, <1>3 DEF Rotation
<1>5. PICK machine : machine = [app |-> 0, news |-> None, local |-> None, serving |-> FALSE,
                                offer |-> None, served |-> None, failed |-> None,
                                lock |-> None]
  OBVIOUS
<1>6. machine \in Machinery(0)
  BY <1>5 DEF Machinery, Mime
<1>7. PICK wire : wire = [machine |-> None, open |-> FALSE, up |-> empty, down |-> empty,
                          pending |-> empty, nextId |-> 0]
  OBVIOUS
<1>8. wire \in Link(0)
  BY <1>2, <1>7 DEF Link
<1>9. PICK task : task = [stage |-> "unused", queued |-> FALSE, host |-> F!Local,
                          type |-> None, copy |-> 0, serve |-> None, lost |-> FALSE,
                          wrong |-> FALSE, stale |-> FALSE]
  OBVIOUS
<1>10. task \in Task(0)
  BY <1>9 DEF Task, Mime, F!Host
<1>11. /\ rotation = all /\ host = [h \in F!Host |-> machine]
       /\ link = [c \in F!Conn |-> wire] /\ fetch = [f \in F!Fetch |-> task]
  BY <1>1, <1>3, <1>5, <1>7, <1>9, Zenon DEF F!Init
<1>12. /\ w.server = all /\ \A h \in F!Host : w.host[h] = machine
       /\ \A c \in F!Conn : w.link[c] = wire
       /\ \A f \in F!Fetch : w.fetch[f] = task
  BY <1>11, NowFields
<1>13. w \in Worlds(Len(made))
  <2>1. w = [server |-> rotation, host |-> host, link |-> link, fetch |-> fetch]
    BY DEF Now, F!World
  <2>2. /\ rotation \in Rotation(0) /\ host \in [F!Host -> Machinery(0)]
        /\ link \in [F!Conn -> Link(0)] /\ fetch \in [F!Fetch -> Task(0)]
    BY <1>4, <1>6, <1>8, <1>10, <1>11
  <2> HIDE DEF w
  <2>3. w \in Worlds(0)
    BY <2>1, <2>2 DEF Worlds
  <2> QED BY <1>0, <2>3 DEF Known
<1> HIDE DEF w
<1>14. \A l \in Lane : Queue(w, l) = empty
  <2> SUFFICES ASSUME NEW l \in Lane PROVE Queue(w, l) = empty
    OBVIOUS
  <2>1. l[2] \in F!Conn
    BY DEF Lane
  <2>2. w.link[l[2]] = wire /\ wire.up = empty /\ wire.down = empty
    BY <1>7, <1>12, <2>1
  <2> QED BY <2>2 DEF Queue
<1>15. \A f : ~InQueue(w, f)
  BY <1>2, <1>14 DEF InQueue
<1>16. Wired(w)
  BY <1>1, <1>3, <1>7, <1>12 DEF Wired
<1>17. Mail(made, w)
  BY <1>2, <1>14 DEF Mail
<1>18. \A f \in F!Fetch : /\ w.fetch[f].stage = "unused" /\ ~w.fetch[f].queued
                          /\ w.fetch[f].serve = None
                          /\ ~w.fetch[f].wrong /\ ~w.fetch[f].stale
  BY <1>9, <1>12
<1>19. Serves(w) /\ Alone(w) /\ Tracked(w, {})
  BY <1>2, <1>14, <1>15, <1>18 DEF Serves, Alone, Tracked, Waits, Waiting
<1>20. \A h \in F!Host : /\ w.host[h].lock = None /\ w.host[h].app = 0
                         /\ w.host[h].news = None /\ w.host[h].local = None
                         /\ w.host[h].served = None /\ w.host[h].offer = None
  BY <1>5, <1>12
<1>21. Locks(w) /\ Sources(made, w) /\ Cached(made, w)
  BY <1>20 DEF Locks, Sources, Cached
<1>22. /\ \A h \in F!Host : OfferSound(made, w, h)
       /\ \A f \in F!Fetch : FetchSound(made, w, f)
  BY <1>18, <1>20 DEF OfferSound, FetchSound, Waiting
<1>23. Consistent(made, w, {})
  BY <1>13, <1>16, <1>17, <1>19, <1>21, <1>22 DEF Consistent
<1>24. Known <= MaxCopies
  BY <1>0, HandoffAssumption
<1> QED BY <1>0, <1>23, <1>24 DEF FetchesInv, w

LEMMA NextFetches ==
    ASSUME F!FetchAssumption, FetchesInv, [F!Next]_F!vars
    PROVE  FetchesInv'
<1>1. CASE UNCHANGED F!vars
  BY <1>1 DEF F!vars, FetchesInv, Known, Now, F!World
<1>2. ASSUME NEW h \in F!Host, NEW type \in Type, F!CopyAt(h, type) PROVE FetchesInv'
  BY <1>2, CopyAtKeepsFetches
<1>3. ASSUME NEW current \in rotation.listed \union {F!Local},
             F!ServerTypesChanged(current) PROVE FetchesInv'
  BY <1>3, ServerTypesChangedKeepsFetches
<1>4. ASSUME NEW current \in rotation.listed \union {F!Local}, NEW m \in Machine,
             F!ClientAnnounces(m, current) PROVE FetchesInv'
  BY <1>4, ClientAnnouncesKeepsFetches
<1>5. ASSUME NEW current \in rotation.listed \union {F!Local}, F!FocusMoves(current)
      PROVE FetchesInv'
  BY <1>5, FocusMovesKeepsFetches
<1>6. ASSUME NEW m \in Machine, NEW active \in BOOLEAN, F!ClientTypesChanged(m, active)
      PROVE FetchesInv'
  BY <1>6, ClientTypesChangedKeepsFetches
<1>7. ASSUME NEW f \in F!Fetch, NEW h \in F!Host, F!Paste(f, h) PROVE FetchesInv'
  BY <1>7, PasteKeepsFetches
<1>8. ASSUME NEW f \in F!Fetch, F!FetchTimesOut(f) PROVE FetchesInv'
  BY <1>8, FetchTimesOutKeepsFetches
<1>9. ASSUME NEW f \in F!Fetch, F!ClientTakesFetch(f) PROVE FetchesInv'
  BY <1>9, ClientTakesFetchKeepsFetches
<1>10. ASSUME NEW refuse \in F!MayRefuse, NEW f \in F!Fetch,
              F!RotationTakesFetch(f, refuse) PROVE FetchesInv'
  BY <1>10, RotationTakesFetchKeepsFetches
<1>11. ASSUME NEW refuse \in F!MayRefuse, NEW c \in F!Conn,
              F!RotationReceives(c, refuse) PROVE FetchesInv'
  BY <1>11, RotationReceivesKeepsFetches
<1>12. ASSUME NEW c \in F!Conn, F!ClientReceives(c) PROVE FetchesInv'
  BY <1>12, ClientReceivesKeepsFetches
<1>13. ASSUME NEW f \in F!Fetch, F!ServeBegins(f) PROVE FetchesInv'
  BY <1>13, ServeBeginsKeepsFetches
<1>14. ASSUME NEW f \in F!Fetch, F!ServeReads(f) PROVE FetchesInv'
  BY <1>14, ServeReadsKeepsFetches
<1>15. ASSUME NEW f \in F!Fetch, NEW refused \in BOOLEAN, F!ServeFromCache(f, refused)
       PROVE FetchesInv'
  BY <1>15, ServeFromCacheKeepsFetches
<1>16. ASSUME NEW f \in F!Fetch, NEW refused \in BOOLEAN, F!ServeNothing(f, refused)
       PROVE FetchesInv'
  BY <1>16, ServeNothingKeepsFetches
<1>17. ASSUME NEW f \in F!Fetch, NEW refused \in BOOLEAN, F!ServeEnds(f, refused)
       PROVE FetchesInv'
  BY <1>17, ServeEndsKeepsFetches
<1>18. ASSUME NEW f \in F!Fetch, NEW refused \in BOOLEAN, F!ServeTimesOut(f, refused)
       PROVE FetchesInv'
  BY <1>18, ServeTimesOutKeepsFetches
<1>19. ASSUME NEW m \in Machine, NEW c \in F!Conn, F!Connect(m, c) PROVE FetchesInv'
  BY <1>19, ConnectKeepsFetches
<1>20. ASSUME NEW c \in F!Conn, NEW n \in 0 .. Len(link[c].up), F!Disconnect(c, n)
       PROVE FetchesInv'
  BY <1>20, DisconnectKeepsFetches
<1>21. ASSUME NEW c \in F!Conn, F!ServerNoticesLoss(c) PROVE FetchesInv'
  BY <1>21, ServerNoticesLossKeepsFetches
<1> QED BY <1>1, <1>2, <1>3, <1>4, <1>5, <1>6, <1>7, <1>8, <1>9, <1>10, <1>11, <1>12,
           <1>13, <1>14, <1>15, <1>16, <1>17, <1>18, <1>19, <1>20, <1>21, Zenon DEF F!Next

\* Every fetch is in one place, and its identifier means the same there and to
\* whoever asked; every cache is as fresh as what anybody may have heard of: the
\* tables and readers of rotation.rs, client.rs and clipboard/serve.rs agree.
THEOREM FetchesInvariance == F!FetchAssumption /\ F!Spec => []FetchesInv
<1>1. F!FetchAssumption /\ F!Init => FetchesInv
  BY InitFetches
<1>2. F!FetchAssumption /\ FetchesInv /\ [F!Next]_F!vars => FetchesInv'
  BY NextFetches
<1>3. F!FetchAssumption => F!FetchAssumption'
  BY Zenon DEF F!FetchAssumption
<1> QED BY <1>1, <1>2, <1>3, PTL DEF F!Spec

\* The properties are stated of the state, which the instance shares.
LEMMA StateProperties ==
    /\ F!RightAnswer <=> RightAnswer
    /\ F!PasteNotStale <=> PasteNotStale
    /\ F!FetchInv <=> FetchInv
<1>1. /\ F!Host = Host /\ F!Fetch = Fetch /\ F!Conn = Conn /\ F!Copy = Copy
      /\ F!Contents = Contents /\ F!Local = Local
  BY DEF F!Host, Host, F!Fetch, Fetch, F!Conn, Conn, F!Copy, Copy, F!Contents, Contents,
         F!Local, Local
<1>2. F!RightAnswer <=> RightAnswer
  BY <1>1 DEF F!RightAnswer, RightAnswer
<1>3. F!PasteNotStale <=> PasteNotStale
  BY <1>1 DEF F!PasteNotStale, PasteNotStale, F!NotOlder, NotOlder
<1>4. F!FetchTypeOK <=> FetchTypeOK
  BY <1>1 DEF F!FetchTypeOK, FetchTypeOK
<1>5. F!UnderWay <=> UnderWay
  BY <1>1 DEF F!UnderWay, UnderWay, F!Tags, Tags
<1> QED BY <1>2, <1>3, <1>4, <1>5 DEF F!FetchInv, FetchInv

\* fetch_clipboard_data completes with the answer to its own request, late
\* answers and retries after a timeout included.
THEOREM AnswersRight == F!FetchAssumption /\ F!Spec => []RightAnswer
<1>1. FetchesInv => RightAnswer
  BY NowFields, StateProperties DEF FetchesInv, Consistent, FetchSound, F!RightAnswer
<1> QED BY <1>1, FetchesInvariance, PTL

\* Nothing older is pasted than what its owner had when it was announced, for
\* all the caches of SharedClipboardReader and of the advertisements.
THEOREM PastesFresh == F!FetchAssumption /\ F!Spec => []PasteNotStale
<1>1. ASSUME FetchesInv PROVE PasteNotStale
  <2>1. \A f \in F!Fetch : ~fetch[f].stale
    BY <1>1, NowFields DEF FetchesInv, Consistent, FetchSound
  <2>2. ASSUME NEW h \in F!Host, host[h].offer # None, host[h].offer.cache # None
        PROVE  F!NotOlder(host[h].offer.cache, host[h].offer.copy)
    <3>1. Follows(made, host[h].offer.cache.copy, host[h].offer.copy)
      BY <1>1, <2>2, NowFields DEF FetchesInv, Consistent, OfferSound
    <3> QED BY <3>1 DEF Follows, F!NotOlder
  <2> QED BY <2>1, <2>2, StateProperties DEF F!PasteNotStale
<1> QED BY <1>1, FetchesInvariance, PTL

\* The types of the state, and the tables that say where every fetch is.
LEMMA FetchesTyped ==
    ASSUME F!FetchAssumption, FetchesInv
    PROVE  F!FetchTypeOK
<1>0. /\ Now \in Worlds(Known) /\ Known \in Nat /\ Known <= MaxCopies /\ Len(made) = Known
      /\ Now.server = rotation /\ Now.host = host /\ Now.fetch = fetch
  BY NowFields, KnownNat DEF FetchesInv, Consistent, Known
<1>1. /\ rotation \in Rotation(Known) /\ host \in [F!Host -> Machinery(Known)]
      /\ fetch \in [F!Fetch -> Task(Known)]
  BY <1>0 DEF Worlds
<1>2. 1 .. Known \subseteq F!Copy /\ Content(Known) \subseteq F!Contents
  BY <1>0, HandoffAssumption DEF F!Copy, Content, F!Contents
<1>3. /\ rotation.listed \subseteq F!Conn
      /\ rotation.target # None => /\ rotation.target.source \in F!Conn \union {F!Local}
                                   /\ rotation.target.copy \in F!Copy
  BY <1>1, <1>2 DEF Rotation, Offerer, Asker
<1>4. \A id \in DOMAIN rotation.pending : rotation.pending[id] \in F!Fetch
  <2>1. rotation.pending \in Table
    BY <1>1 DEF Rotation
  <2> QED BY <2>1, TableTyped
<1>5. ASSUME NEW h \in F!Host
      PROVE  /\ host[h].app \in 0 .. Len(made)
             /\ host[h].news \in 0 .. Len(made) \union {None}
             /\ host[h].local \in 0 .. Len(made) \union {None}
             /\ host[h].served \in 1 .. Len(made) \union {None}
             /\ host[h].failed \in Type \union {None}
             /\ host[h].offer # None =>
                   /\ host[h].offer.copy \in 1 .. Len(made)
                   /\ host[h].offer.cache \in F!Contents \union {None}
  <2>1. host[h] \in Machinery(Known)
    BY <1>1
  <2>2. host[h].offer # None => host[h].offer \in Offer(Known)
    BY <2>1 DEF Machinery
  <2> QED BY <1>0, <1>2, <2>1, <2>2 DEF Machinery, Offer, Mime
<1>6. ASSUME NEW f \in F!Fetch
      PROVE  /\ fetch[f].stage \in {"unused", "waiting", "over"}
             /\ fetch[f].type \in Type \union {None}
             /\ fetch[f].copy \in 0 .. Len(made)
  <2>1. fetch[f] \in Task(Known)
    BY <1>1
  <2> QED BY <1>0, <2>1 DEF Task, Mime
<1> QED BY <1>3, <1>4, <1>5, <1>6 DEF F!FetchTypeOK

LEMMA FetchesUnderWay ==
    ASSUME FetchesInv
    PROVE  F!UnderWay
<1>0. /\ Consistent(made, Now, {}) /\ Now.link = link /\ Now.host = host /\ Now.fetch = fetch
  BY NowFields DEF FetchesInv
<1>1. ASSUME NEW f \in F!Fetch, fetch[f].stage = "waiting"
      PROVE  \/ fetch[f].queued \/ fetch[f].lost
             \/ fetch[f].serve # None
             \/ \E c \in F!Conn : f \in F!Tags(link[c].up) \union F!Tags(link[c].down)
  <2> SUFFICES ASSUME ~fetch[f].queued, ~fetch[f].lost, fetch[f].serve = None
               PROVE  \E c \in F!Conn :
                          f \in F!Tags(link[c].up) \union F!Tags(link[c].down)
    OBVIOUS
  <2>1. InQueue(Now, f)
    BY <1>0, <1>1 DEF Consistent, Tracked, Waits, Waiting
  <2>2. PICK l \in Lane : \E i \in DOMAIN Queue(Now, l) : Queue(Now, l)[i].tag = f
    BY <2>1 DEF InQueue
  <2>3. l[2] \in F!Conn
    BY DEF Lane
  <2>4. Queue(Now, l) \in {link[l[2]].up, link[l[2]].down}
    BY <1>0 DEF Queue
  <2>5. f \in F!Tags(link[l[2]].up) \union F!Tags(link[l[2]].down)
    BY <2>2, <2>4 DEF F!Tags
  <2> QED BY <2>3, <2>5
<1>2. \A h \in F!Host :
          host[h].lock # None =>
              LET serve == fetch[host[h].lock.by].serve
              IN  serve # None /\ serve.host = h
  BY <1>0 DEF Consistent, Locks
<1> QED BY <1>1, <1>2 DEF F!UnderWay

\* A fetch somebody waits for is on its way, unless a lost connection or a
\* refused frame took it, and the mutex of a reader is held by who serves.
THEOREM FetchesTracked == F!FetchAssumption /\ F!Spec => []FetchInv
<1>1. F!FetchAssumption /\ FetchesInv => FetchInv
  BY FetchesTyped, FetchesUnderWay, StateProperties DEF F!FetchInv
<1>2. F!FetchAssumption => F!FetchAssumption'
  BY Zenon DEF F!FetchAssumption
<1> QED BY <1>1, <1>2, FetchesInvariance, PTL DEF F!Spec

=============================================================================
