---------------------------- MODULE SessionProofs ----------------------------
(***************************************************************************)
(* Proofs about Session, for any machines, endpoints and settings: who is  *)
(* let in, under which name, and which edges its client watches.           *)
(***************************************************************************)
EXTENDS Session, FiniteSetTheorems, SequenceTheorems, TLAPS

Slots == [Endpoint -> Connection \cup {None}]

\* The failures that make a program ask mDNS also keep it from trying again.
Typed ==
    /\ setting \in Settings /\ conn \in Slots
    /\ machine \in [Machine -> Program]
    /\ \A m \in Machine :
          machine[m].failures = Rediscover => machine[m].at = None /\ ~machine[m].waiting
    /\ slot \in Machine \cup {None} /\ prompt \in Endpoint \cup {None}
    /\ disk \subseteq Machine /\ known \subseteq Machine
    /\ server \in [address : Address, restarts : 0..setting.restarts]
    /\ losses \in 0..setting.losses /\ raced \in BOOLEAN

\* From the verifier's yes on a machine is known; from the exchange of
\* versions on it is compatible.  Handshakes cross after the verification only.
Admission ==
    /\ \A e \in Live : conn[e].stage \in {"hello", "prompt"} => ~conn[e].crossed
    /\ \A e \in Live : conn[e].stage \in {"stored", "named", "queued", "added"}
          => conn[e].who \in known
    /\ \A e \in Live : conn[e].stage \in {"queued", "added"} => Compatible(conn[e].who)
    /\ At("prompt") = {prompt} \ {None}

\* One handshake at a time has a fingerprint stored.  It is in the slot, until
\* another verification finds and removes it.
Handover ==
    ~raced =>
        /\ \A e, f \in At("stored") : e = f
        /\ \A e \in At("stored") : slot = IF conn[e].crossed THEN None ELSE conn[e].who
        /\ \A e \in Live : conn[e].id \in {None, conn[e].who}

-----------------------------------------------------------------------------
(* What a client will watch once it has handled its stream.                *)

Blank(c) == c.sent = {} /\ c.stream = <<>> /\ c.edges = {}
About(s, d) == {i \in DOMAIN s : s[i].direction = d}
\* The last message about d, or else what the client watches already.
Hears(s, edges, d) ==
    IF About(s, d) = {} THEN Opposite(d) \in edges
    ELSE \E i \in About(s, d) : \A j \in About(s, d) : i <= j => s[j].kind = "tell"
Tells(c) == \A d \in Directions : d \in c.sent <=> Hears(c.stream, c.edges, d)

Directed(e) ==
    /\ conn[e].sent = EdgeInfoDirections(conn, Members, e)
    /\ conn[e].up /\ conn[e].who \notin setting.explicit => Tells(conn[e])
Routes ==
    /\ \A e \in Live : conn[e].stage \notin {"added", "over"} => Blank(conn[e])
    /\ \A e \in Members : Directed(e)

IInv == Typed /\ Admission /\ Handover /\ Routes

-----------------------------------------------------------------------------
(* The initial states, and what connections have in common.                *)

LEMMA InitIInv == Init => IInv
<1> SUFFICES ASSUME Init PROVE IInv
  OBVIOUS
<1> USE SessionAssumption
<1>1. Typed
  <2>1. setting \in Settings /\ conn \in Slots /\ losses \in 0..setting.losses
    BY DEF Init, Slots
  <2>2. machine \in [Machine -> Program]
    BY DEF Init, Program
  <2>3. server \in [address : Address, restarts : 0..setting.restarts]
    BY DEF Init
  <2>4. \A m \in Machine : machine[m].failures # Rediscover
    BY DEF Init
  <2> QED
    BY <2>1, <2>2, <2>3, <2>4 DEF Init, Typed
<1>2. Live = {}
  BY DEF Init, Live
<1> QED
  BY <1>1, <1>2 DEF Init, Admission, Handover, Routes, At, Members, IInv

LEMMA New ==
  ASSUME NEW m \in Machine
  PROVE  NewConnection(m) \in Connection
BY DEF NewConnection, Connection, Stage

Cut(c) == [c EXCEPT !.stage = "over", !.up = FALSE]
Cross(c) == [c EXCEPT !.crossed = TRUE]

\* A record of a connection is not None.
LEMMA Record ==
  ASSUME NEW c \in Connection
  PROVE  /\ c # None /\ Cut(c) \in Connection /\ Cross(c) \in Connection
         /\ [c EXCEPT !.up = FALSE] \in Connection
         /\ \A stage \in Stage : [c EXCEPT !.stage = stage] \in Connection
         /\ \A stage \in Stage, id \in Machine \cup {None} :
               [c EXCEPT !.stage = stage, !.id = id] \in Connection
<1>1. c # None
  BY NotAConnection
<1>2. Cut(c) \in Connection /\ Cross(c) \in Connection /\ [c EXCEPT !.up = FALSE] \in Connection
  BY DEF Connection, Cut, Cross, Stage
<1>3. \A stage \in Stage : [c EXCEPT !.stage = stage] \in Connection
  BY DEF Connection
<1>4. \A stage \in Stage, id \in Machine \cup {None} :
         [c EXCEPT !.stage = stage, !.id = id] \in Connection
  BY DEF Connection
<1> QED
  BY <1>1, <1>2, <1>3, <1>4

\* Drop leaves what it drops to its client, as a dead connection, or removes it.
LEMMA Dropped ==
  ASSUME conn \in Slots, NEW es \in SUBSET Endpoint
  PROVE  /\ Drop(es) \in Slots
         /\ \A f \in Endpoint \ es : Drop(es)[f] = conn[f]
         /\ \A f \in es : \/ Drop(es)[f] = None
                          \/ conn[f] \in Connection /\ Drop(es)[f] = Cut(conn[f])
<1>1. \A f \in Endpoint \ es : Drop(es)[f] = conn[f]
  BY DEF Drop
<1>2. ASSUME NEW f \in es
      PROVE  Drop(es)[f] = None \/ (conn[f] \in Connection /\ Drop(es)[f] = Cut(conn[f]))
  <2>1. f \in Endpoint /\ conn[f] \in Connection \cup {None}
    BY DEF Slots
  <2>2. CASE conn[f] = None
    BY <2>1, <2>2 DEF Drop
  <2>3. CASE conn[f] # None /\ Attached(f)
    BY <2>1, <2>3 DEF Drop, Cut
  <2>4. CASE conn[f] # None /\ ~Attached(f)
    BY <2>1, <2>4 DEF Drop
  <2> QED
    BY <2>2, <2>3, <2>4
<1>3. \A f \in Endpoint : Drop(es)[f] \in Connection \cup {None}
  BY <1>1, <1>2, Record DEF Slots
<1>4. Drop(es) = [f \in Endpoint |-> Drop(es)[f]]
  BY DEF Drop
<1> QED
  BY <1>1, <1>2, <1>3, <1>4 DEF Slots

\* What a verification does to the connections and to the slot.
LEMMA Verified ==
  ASSUME conn \in Slots, NEW e \in Live, conn[e].stage \in {"hello", "prompt"}, StoreFingerprint(e)
  PROVE  /\ conn' \in Slots
         /\ \A f \in At("stored") : f # e /\ conn'[f] = Cross(conn[f])
         /\ \A f \in Endpoint \ (At("stored") \cup {e}) : conn'[f] = conn[f]
         /\ slot = None => slot' = conn[e].who /\ conn'[e] = [conn[e] EXCEPT !.stage = "stored"]
         /\ slot # None => slot' = None /\ conn'[e] \in {None, Cut(conn[e])}
         /\ raced' = (raced \/ \E f \in At("stored") : conn[f].crossed)
<1>1. e \in Endpoint /\ conn[e] \in Connection /\ At("stored") \subseteq Endpoint
  BY DEF Live, Slots, At
<1>2. e \notin At("stored") /\ Crossed(e) = At("stored")
  BY DEF At, Crossed
<1>3. ASSUME NEW c \in Slots, Store(c, e), \A f \in Endpoint \ {e} : c[f] = conn[f]
      PROVE  /\ conn' \in Slots
             /\ \A f \in At("stored") : f # e /\ conn'[f] = Cross(conn[f])
             /\ \A f \in Endpoint \ (At("stored") \cup {e}) : conn'[f] = conn[f]
             /\ conn'[e] = c[e]
             /\ raced' = (raced \/ \E f \in At("stored") : conn[f].crossed)
  <2>1. conn' = [f \in Endpoint |-> IF f \in At("stored") THEN Cross(c[f]) ELSE c[f]]
    BY <1>2, <1>3 DEF Store, Cross
  <2>2. \A f \in At("stored") : c[f] = conn[f] /\ conn[f] \in Connection
    BY <1>1, <1>2, <1>3 DEF At, Live, Slots
  <2>3. conn' \in Slots
    BY <2>1, <2>2, <1>3, Record DEF Slots
  <2>4. raced' = (raced \/ \E f \in At("stored") : conn[f].crossed)
    BY <1>2, <1>3 DEF Store
  <2> QED
    BY <1>1, <1>2, <1>3, <2>1, <2>2, <2>3, <2>4
<1>4. CASE slot = None
  <2> DEFINE c == [conn EXCEPT ![e].stage = "stored"]
  <2>1. c \in Slots /\ c[e] = [conn[e] EXCEPT !.stage = "stored"]
    BY <1>1, Record DEF Slots, Stage
  <2>2. \A f \in Endpoint \ {e} : c[f] = conn[f]
    BY DEF Slots
  <2>3. Store(c, e) /\ slot' = conn[e].who
    BY <1>4 DEF StoreFingerprint
  <2> HIDE DEF c
  <2> QED
    BY <1>3, <1>4, <2>1, <2>2, <2>3
<1>5. CASE slot # None
  <2>1. Store(Drop({e}), e) /\ slot' = None
    BY <1>5 DEF StoreFingerprint
  <2>2. /\ Drop({e}) \in Slots /\ \A f \in Endpoint \ {e} : Drop({e})[f] = conn[f]
        /\ Drop({e})[e] \in {None, Cut(conn[e])}
    BY <1>1, Dropped
  <2> QED
    BY <1>3, <1>5, <2>1, <2>2
<1> QED
  BY <1>4, <1>5

-----------------------------------------------------------------------------
(* The messages of advertise_edge_info.                                    *)

Message == [kind : {"tell", "revoke"}, direction : Directions]
Messages(kind, ds) == SetToSeq({[kind |-> kind, direction |-> d] : d \in ds})

\* SetToSeq lists a finite set.
LEMMA Listed ==
  ASSUME NEW S, IsFiniteSet(S)
  PROVE  SetToSeq(S) \in Seq(S) /\ \A x \in S : \E i \in DOMAIN SetToSeq(S) : SetToSeq(S)[i] = x
<1> DEFINE n == Cardinality(S)
           f == SetToSeq(S)
<1>1. n \in Nat /\ ExistsBijection(1..n, S)
  BY FS_CardinalityType
<1>2. \E g \in [1..n -> S] : IsInjective(g)
  BY <1>1 DEF ExistsBijection, Bijection, Injection, IsInjective
<1>3. f \in [1..n -> S] /\ IsInjective(f)
  BY <1>2 DEF SetToSeq
<1> HIDE DEF f
<1>4. ASSUME NEW x \in S, ~\E i \in DOMAIN f : f[i] = x
      PROVE  FALSE
  <2>1. f \in [1..n -> S \ {x}]
    BY <1>3, <1>4
  <2>2. IsFiniteSet(S \ {x}) /\ Cardinality(S \ {x}) = n - 1
    BY FS_RemoveElement
  <2>3. IsFiniteSet(1..n) /\ Cardinality(1..n) = n
    BY <1>1, FS_Interval
  <2> HIDE DEF n
  <2>4. Cardinality(S \ {x}) < Cardinality(1..n)
    BY <1>1, <2>2, <2>3
  <2>5. \E i, j \in 1..n : i # j /\ f[i] = f[j]
    BY <2>1, <2>2, <2>3, <2>4, FS_PigeonHole
  <2> QED
    BY <1>3, <2>5 DEF IsInjective
<1> QED
  BY <1>1, <1>3, <1>4 DEF f

\* There are finitely many messages.
LEMMA Messaged ==
  ASSUME NEW kind \in {"tell", "revoke"}, NEW ds \in SUBSET Directions
  PROVE  /\ Messages(kind, ds) \in Seq(Message)
         /\ \A i \in DOMAIN Messages(kind, ds) :
               Messages(kind, ds)[i].kind = kind /\ Messages(kind, ds)[i].direction \in ds
         /\ \A d \in ds : About(Messages(kind, ds), d) # {}
<1> DEFINE S == {[kind |-> kind, direction |-> d] : d \in ds}
           of(d) == [kind |-> kind, direction |-> d]
<1>1. IsFiniteSet({of("left"), of("right"), of("top"), of("bottom")})
  <2>1. IsFiniteSet({of("left")})
    BY FS_Singleton
  <2>2. IsFiniteSet({of("left")} \cup {of("right")})
    BY <2>1, FS_AddElement
  <2>3. IsFiniteSet({of("left")} \cup {of("right")} \cup {of("top")})
    BY <2>2, FS_AddElement
  <2>4. IsFiniteSet({of("left")} \cup {of("right")} \cup {of("top")} \cup {of("bottom")})
    BY <2>3, FS_AddElement
  <2>5. {of("left")} \cup {of("right")} \cup {of("top")} \cup {of("bottom")}
            = {of("left"), of("right"), of("top"), of("bottom")}
    OBVIOUS
  <2> QED
    BY <2>4, <2>5
<1>2. S \subseteq {of("left"), of("right"), of("top"), of("bottom")}
  BY DEF Directions
<1>3. IsFiniteSet(S)
  BY <1>1, <1>2, FS_Subset
<1>4. /\ SetToSeq(S) \in Seq(S)
      /\ \A x \in S : \E i \in DOMAIN SetToSeq(S) : SetToSeq(S)[i] = x
  BY <1>3, Listed
<1>5. SetToSeq(S) = Messages(kind, ds)
  BY DEF Messages
<1> DEFINE s == Messages(kind, ds)
<1> HIDE DEF s
<1>6. s \in Seq(S) /\ \A x \in S : \E i \in DOMAIN s : s[i] = x
  BY <1>4, <1>5 DEF s
<1>7. S \subseteq Message
  BY DEF Message
<1>8. s \in Seq(Message)
  BY <1>6, <1>7
<1>9. \A i \in DOMAIN s : s[i] \in S
  BY <1>6
<1>10. \A i \in DOMAIN s : s[i].kind = kind /\ s[i].direction \in ds
  BY <1>9
<1>11. \A d \in ds : About(s, d) # {}
  <2> TAKE d \in ds
  <2>1. of(d) \in S /\ of(d).direction = d
    OBVIOUS
  <2> QED
    BY <1>6, <2>1 DEF About
<1> QED
  BY <1>8, <1>10, <1>11 DEF s

\* A message more about d settles it, one about another direction does not
\* matter.
LEMMA Appended ==
  ASSUME NEW s \in Seq(Message), NEW t \in Seq(Message), NEW edges, NEW d, NEW kind,
         \A i \in DOMAIN t : t[i].kind = kind
  PROVE  /\ s \o t \in Seq(Message)
         /\ Hears(s \o t, edges, d) <=>
               IF About(t, d) = {} THEN Hears(s, edges, d) ELSE kind = "tell"
<1> DEFINE u == s \o t
<1>1. /\ u \in Seq(Message) /\ Len(u) = Len(s) + Len(t)
      /\ \A i \in 1..Len(s) + Len(t) : u[i] = IF i <= Len(s) THEN s[i] ELSE t[i - Len(s)]
  BY ConcatProperties
<1>2. DOMAIN s = 1..Len(s) /\ DOMAIN t = 1..Len(t) /\ Len(s) \in Nat /\ Len(t) \in Nat
  OBVIOUS
<1> HIDE DEF u
<1>3. DOMAIN u = 1..Len(s) + Len(t)
  BY <1>1
<1>4. \A i \in DOMAIN s : u[i] = s[i] /\ i \in DOMAIN u
  BY <1>1, <1>2, <1>3
<1>5. \A i \in DOMAIN t : u[Len(s) + i] = t[i] /\ Len(s) + i \in DOMAIN u
  BY <1>1, <1>2, <1>3
<1>6. \A i \in DOMAIN u : i \in DOMAIN s \/ (i - Len(s) \in DOMAIN t /\ u[i] = t[i - Len(s)])
  BY <1>1, <1>2, <1>3
<1>7. \A i \in About(t, d) : Len(s) + i \in About(u, d)
  BY <1>5 DEF About
<1>8. CASE About(t, d) = {}
  <2>1. About(u, d) = About(s, d)
    BY <1>4, <1>6, <1>8 DEF About
  <2>2. \A i \in About(u, d) : u[i] = s[i] /\ i \in Nat
    BY <1>2, <1>4, <2>1 DEF About
  <2>3. Hears(u, edges, d) <=> Hears(s, edges, d)
    BY <2>1, <2>2 DEF Hears
  <2> QED
    BY <1>1, <1>8, <2>3 DEF u
<1>9. CASE About(t, d) # {}
  <2>1. PICK k \in About(t, d) : TRUE
    BY <1>9
  <2>2. k \in DOMAIN t /\ Len(s) + k \in About(u, d) /\ u[Len(s) + k].kind = kind
    BY <1>5, <1>7, <2>1 DEF About
  <2>3. \A j \in About(u, d) : Len(s) + k <= j => u[j].kind = kind
    BY <1>2, <1>6, <2>2 DEF About
  <2>4. \A i \in About(u, d) : \E j \in About(u, d) : i <= j /\ u[j].kind = kind
    <3> TAKE i \in About(u, d)
    <3>1. CASE i <= Len(s) + k
      BY <2>2, <3>1
    <3>2. CASE ~(i <= Len(s) + k)
      BY <1>2, <1>3, <2>2, <2>3, <3>2 DEF About
    <3> QED
      BY <3>1, <3>2
  <2>5. Hears(u, edges, d) <=> kind = "tell"
    <3>1. CASE kind = "tell"
      <4>1. \A j \in About(u, d) : Len(s) + k <= j => u[j].kind = "tell"
        BY <2>3, <3>1
      <4> QED
        BY <2>2, <3>1, <4>1 DEF Hears
    <3>2. CASE kind # "tell"
      <4>1. \A i \in About(u, d) : ~\A j \in About(u, d) : i <= j => u[j].kind = "tell"
        BY <2>4, <3>2
      <4> QED
        BY <2>2, <3>2, <4>1 DEF Hears
    <3> QED
      BY <3>1, <3>2
  <2> QED
    BY <1>1, <1>9, <2>5 DEF u
<1> QED
  BY <1>8, <1>9

\* What is revoked and told makes the client watch what the server wants.
LEMMA Told ==
  ASSUME NEW c \in Connection, NEW new \in SUBSET Directions
  PROVE  LET stream == c.stream \o Messages("revoke", c.sent \ new)
                                \o Messages("tell", new \ c.sent)
         IN  /\ stream \in Seq(Message)
             /\ Tells(c) => \A d \in Directions : d \in new <=> Hears(stream, c.edges, d)
<1> DEFINE revokes == Messages("revoke", c.sent \ new)
           tells == Messages("tell", new \ c.sent)
<1>1. c.stream \in Seq(Message) /\ c.sent \in SUBSET Directions
  BY DEF Connection, Message
<1>2. /\ revokes \in Seq(Message) /\ \A i \in DOMAIN revokes : revokes[i].kind = "revoke"
      /\ \A d \in Directions : About(revokes, d) = {} <=> d \notin c.sent \ new
  <2>1. /\ revokes \in Seq(Message)
        /\ \A i \in DOMAIN revokes :
              revokes[i].kind = "revoke" /\ revokes[i].direction \in c.sent \ new
        /\ \A d \in c.sent \ new : About(revokes, d) # {}
    BY <1>1, Messaged
  <2> HIDE DEF revokes
  <2> QED
    BY <2>1 DEF About
<1>3. /\ tells \in Seq(Message) /\ \A i \in DOMAIN tells : tells[i].kind = "tell"
      /\ \A d \in Directions : About(tells, d) = {} <=> d \notin new \ c.sent
  <2>1. /\ tells \in Seq(Message)
        /\ \A i \in DOMAIN tells : tells[i].kind = "tell" /\ tells[i].direction \in new \ c.sent
        /\ \A d \in new \ c.sent : About(tells, d) # {}
    BY <1>1, Messaged
  <2> HIDE DEF tells
  <2> QED
    BY <2>1 DEF About
<1> HIDE DEF revokes, tells
<1>4. ASSUME NEW d \in Directions
      PROVE  /\ c.stream \o revokes \in Seq(Message)
             /\ Hears(c.stream \o revokes, c.edges, d) <=>
                   d \notin c.sent \ new /\ Hears(c.stream, c.edges, d)
  <2>1. /\ c.stream \o revokes \in Seq(Message)
        /\ Hears(c.stream \o revokes, c.edges, d) <=>
              IF About(revokes, d) = {} THEN Hears(c.stream, c.edges, d) ELSE "revoke" = "tell"
    BY <1>1, <1>2, Appended
  <2> QED
    BY <1>2, <2>1
<1>5. ASSUME NEW d \in Directions
      PROVE  /\ (c.stream \o revokes) \o tells \in Seq(Message)
             /\ Hears((c.stream \o revokes) \o tells, c.edges, d) <=>
                   d \in new \ c.sent \/ Hears(c.stream \o revokes, c.edges, d)
  <2> DEFINE first == c.stream \o revokes
  <2>1. first \in Seq(Message)
    BY <1>4
  <2> HIDE DEF first
  <2>2. /\ first \o tells \in Seq(Message)
        /\ Hears(first \o tells, c.edges, d) <=>
              IF About(tells, d) = {} THEN Hears(first, c.edges, d) ELSE "tell" = "tell"
    BY <1>3, <2>1, Appended
  <2> QED
    BY <1>3, <2>2 DEF first
<1>6. ASSUME Tells(c), NEW d \in Directions
      PROVE  d \in new <=> Hears((c.stream \o revokes) \o tells, c.edges, d)
  BY <1>4, <1>5, <1>6 DEF Tells
<1>7. "left" \in Directions
  BY DEF Directions
<1> QED
  BY <1>5, <1>6, <1>7 DEF revokes, tells

\* A member that was told of its edges.
Retold(c, a) == a = [c EXCEPT !.sent = a.sent, !.stream = a.stream]

LEMMA Advertised ==
  ASSUME setting \in Settings, NEW c \in Slots, NEW members, NEW told \in SUBSET Endpoint,
         \A f \in told : c[f] \in Connection, NEW a, a = Advertise(c, members, told)
  PROVE  /\ a \in Slots
         /\ \A f \in Endpoint \ told : a[f] = c[f]
         /\ \A f \in told :
               /\ a[f] \in Connection
               /\ Retold(c[f], a[f]) /\ a[f].sent = EdgeInfoDirections(c, members, f)
               /\ c[f].up /\ Tells(c[f]) => Tells(a[f])
<1>1. \A f \in Endpoint \ told : a[f] = c[f]
  BY DEF Advertise
<1>2. ASSUME NEW f \in told
      PROVE  /\ a[f] \in Connection
             /\ Retold(c[f], a[f]) /\ a[f].sent = EdgeInfoDirections(c, members, f)
             /\ c[f].up /\ Tells(c[f]) => Tells(a[f])
  <2> DEFINE new == EdgeInfoDirections(c, members, f)
             stream == c[f].stream \o Messages("revoke", c[f].sent \ new)
                                   \o Messages("tell", new \ c[f].sent)
  <2>1. new \in SUBSET Directions
    BY SessionAssumption DEF EdgeInfoDirections
  <2>2. c[f] \in Connection /\ f \in Endpoint
    OBVIOUS
  <2>3. a[f] = [c[f] EXCEPT !.sent = new,
                            !.stream = IF c[f].up THEN stream ELSE c[f].stream]
    BY <2>2 DEF Advertise, Messages
  <2>4. /\ stream \in Seq(Message)
        /\ Tells(c[f]) => \A d \in Directions : d \in new <=> Hears(stream, c[f].edges, d)
    BY <2>1, <2>2, Told
  <2> HIDE DEF new, stream
  <2>5. a[f] \in Connection
    BY <2>1, <2>2, <2>3, <2>4 DEF Connection, Message
  <2>6. /\ a[f].sent = new /\ a[f].edges = c[f].edges
        /\ a[f].stream = IF c[f].up THEN stream ELSE c[f].stream
    BY <2>2, <2>3 DEF Connection
  <2>7. Retold(c[f], a[f])
    BY <2>3, <2>6 DEF Retold
  <2>8. c[f].up /\ Tells(c[f]) => Tells(a[f])
    BY <2>4, <2>6 DEF Tells
  <2> QED
    BY <2>5, <2>6, <2>7, <2>8 DEF new
<1>3. a = [f \in Endpoint |-> a[f]]
  BY DEF Advertise
<1>4. a \in Slots
  BY <1>1, <1>2, <1>3 DEF Slots
<1> QED
  BY <1>1, <1>2, <1>4

\* The client handles the first message.
LEMMA Inferred ==
  ASSUME NEW c \in Connection, c.stream # <<>>, NEW t,
         t = [c EXCEPT !.edges = Infer(c), !.stream = Tail(c.stream)]
  PROVE  t \in Connection /\ (c.who \notin setting.explicit /\ Tells(c) => Tells(t))
<1> DEFINE s == c.stream
           r == Tail(s)
<1>1. s \in Seq(Message) /\ c.edges \in SUBSET Directions
  BY DEF Connection, Message
<1>2. /\ Head(s) \in Message /\ r \in Seq(Message) /\ Len(r) = Len(s) - 1
      /\ \A i \in 1..Len(r) : r[i] = s[i + 1]
  BY <1>1, HeadTailProperties
<1>3. /\ DOMAIN s = 1..Len(s) /\ DOMAIN r = 1..Len(r) /\ Len(s) \in Nat /\ Len(r) \in Nat
      /\ Head(s) = s[1] /\ 1 \in DOMAIN s
  BY <1>1, <1>2
<1>4. \A d \in Directions : Opposite(d) \in Directions
  BY DEF Opposite, Directions
<1>5. Infer(c) \in SUBSET Directions
  BY <1>1, <1>2, <1>4 DEF Infer, Message
<1>6. t.sent = c.sent /\ t.edges = Infer(c) /\ t.stream = r
  BY DEF Connection
<1>7. t \in Connection
  BY <1>2, <1>5 DEF Connection, Message
<1>8. ASSUME c.who \notin setting.explicit, NEW d \in Directions
      PROVE  Hears(s, c.edges, d) <=> Hears(r, Infer(c), d)
  <2> HIDE DEF s, r
  <2>1. \A i \in About(r, d) : i + 1 \in About(s, d)
    BY <1>2, <1>3 DEF About
  <2>2. \A i \in About(s, d) : i = 1 \/ (i - 1 \in About(r, d) /\ s[i] = r[i - 1])
    BY <1>2, <1>3 DEF About
  <2>3. 1 \in About(s, d) <=> Head(s).direction = d
    BY <1>3 DEF About
  <2>4. CASE About(r, d) # {}
    <3>1. About(s, d) # {}
      BY <2>1, <2>4
    <3>2. ASSUME NEW i \in About(r, d), \A j \in About(r, d) : i <= j => r[j].kind = "tell"
          PROVE  \A j \in About(s, d) : i + 1 <= j => s[j].kind = "tell"
      BY <1>3, <2>2, <3>2 DEF About
    <3>3. ASSUME NEW i \in About(s, d), \A j \in About(s, d) : i <= j => s[j].kind = "tell"
          PROVE  \E k \in About(r, d) : \A j \in About(r, d) : k <= j => r[j].kind = "tell"
      <4>1. \A j \in About(r, d) : i <= j + 1 => r[j].kind = "tell"
        BY <1>2, <1>3, <2>1, <3>3 DEF About
      <4>2. CASE i = 1
        BY <1>3, <2>4, <4>1, <4>2 DEF About
      <4>3. CASE i # 1
        <5>1. i - 1 \in About(r, d)
          BY <2>2, <4>3
        <5>2. \A j \in About(r, d) : i - 1 <= j => r[j].kind = "tell"
          BY <1>3, <4>1 DEF About
        <5> QED
          BY <5>1, <5>2
      <4> QED
        BY <4>2, <4>3
    <3> QED
      BY <2>1, <2>4, <3>1, <3>2, <3>3 DEF Hears
  <2>5. CASE About(r, d) = {} /\ Head(s).direction = d
    <3>1. About(s, d) = {1}
      BY <2>2, <2>3, <2>5
    <3>2. Hears(s, c.edges, d) <=> Head(s).kind = "tell"
      BY <1>3, <3>1 DEF Hears
    <3>3. Hears(r, Infer(c), d) <=> Opposite(d) \in Infer(c)
      BY <2>5 DEF Hears
    <3>4. Opposite(d) \in Infer(c) <=> Head(s).kind = "tell"
      BY <1>8, <2>5 DEF Infer, s
    <3> QED
      BY <3>2, <3>3, <3>4
  <2>6. CASE About(r, d) = {} /\ Head(s).direction # d
    <3>1. About(s, d) = {}
      BY <2>2, <2>3, <2>6
    <3>2. Opposite(Head(s).direction) # Opposite(d)
      BY <1>2, <2>6 DEF Opposite, Directions, Message
    <3>3. Opposite(d) \in Infer(c) <=> Opposite(d) \in c.edges
      BY <1>8, <3>2 DEF Infer, s
    <3> QED
      BY <2>6, <3>1, <3>3 DEF Hears
  <2> QED
    BY <2>4, <2>5, <2>6
<1> HIDE DEF s, r
<1> QED
  BY <1>6, <1>7, <1>8 DEF Tells, s

-----------------------------------------------------------------------------
(* The edges, while the members stay the same.                             *)

LEMMA Resolves ==
  ASSUME NEW M, NEW o, NEW p, \A e \in M : o[e] = p[e], NEW target
  PROVE  Resolve(target, M, o) = Resolve(target, M, p)
<1>1. \A machines : {e \in M : o[e] \in machines} = {e \in M : p[e] \in machines}
  OBVIOUS
<1>2. \A S : Unique(S) # None => Unique(S) \in S
  <2>1. ASSUME NEW S, Cardinality(S) = 1
        PROVE  S # {}
    BY <2>1, FS_EmptySet
  <2> QED
    BY <2>1 DEF Unique
<1> DEFINE of(q, machines) == {e \in M : q[e] \in machines}
           found(q) == CASE target.kind = "auto" -> Unique(M)
                         [] target.kind = "named" /\ of(q, target.prefixOf) # {}
                               -> Unique(of(q, target.prefixOf))
                         [] OTHER -> Unique(of(q, target.addressOf))
<1>3. of(o, target.prefixOf) = of(p, target.prefixOf)
      /\ of(o, target.addressOf) = of(p, target.addressOf)
  BY <1>1
<1>4. found(o) = found(p)
  BY <1>3
<1>5. found(o) = None \/ found(o) \in M
  <2>1. CASE target.kind = "auto"
    BY <1>2, <2>1
  <2>2. CASE target.kind # "auto" /\ target.kind = "named" /\ of(o, target.prefixOf) # {}
    BY <1>2, <2>2
  <2>3. CASE target.kind # "auto" /\ ~(target.kind = "named" /\ of(o, target.prefixOf) # {})
    BY <1>2, <2>3
  <2> QED
    BY <2>1, <2>2, <2>3
<1>6. /\ Resolve(target, M, o) = IF found(o) = None THEN None ELSE o[found(o)]
      /\ Resolve(target, M, p) = IF found(p) = None THEN None ELSE p[found(p)]
  BY DEF Resolve
<1> HIDE DEF found, of
<1> QED
  BY <1>4, <1>5, <1>6

LEMMA Aimed ==
  ASSUME NEW M \in SUBSET Endpoint, NEW c, NEW b, NEW e \in M,
         \A f \in M : c[f] # None /\ b[f] # None /\ c[f].id = b[f].id
  PROVE  EdgeInfoDirections(c, M, e) = EdgeInfoDirections(b, M, e)
<1>1. \A f \in M : IdOf(c)[f] = IdOf(b)[f]
  BY DEF IdOf
<1>2. \A d \in DOMAIN setting.target :
         Resolve(setting.target[d], M, IdOf(c)) = Resolve(setting.target[d], M, IdOf(b))
  BY <1>1, Resolves
<1> QED
  BY <1>2 DEF EdgeInfoDirections

\* A connection that is no member before and after the step.
Aside(f) ==
    /\ f \notin Members
    /\ \/ conn'[f] = None
       \/ conn'[f].stage = "over"
       \/ conn'[f].stage # "added" /\ Blank(conn'[f])

LEMMA RoutesAside ==
  ASSUME Typed, Routes, setting' = setting,
         \A f \in Endpoint : conn'[f] = conn[f] \/ Aside(f)
  PROVE  Routes'
<1>1. \A f \in Endpoint : f \in Members' <=> f \in Members
  BY DEF Members, At, Live, Aside
<1>2. Members' = Members /\ Members \subseteq Endpoint
  BY <1>1 DEF Members, At, Live
<1>3. \A f \in Members : conn'[f] = conn[f] /\ conn[f] # None /\ f \in Endpoint
  BY DEF Aside, Members, At, Live
<1>4. ASSUME NEW e \in Live', conn'[e].stage \notin {"added", "over"}
      PROVE  Blank(conn'[e])
  BY <1>4 DEF Routes, Aside, Live
<1>5. ASSUME NEW e \in Members
      PROVE  Directed(e)'
  <2>1. EdgeInfoDirections(conn, Members, e) = EdgeInfoDirections(conn', Members, e)
    BY <1>2, <1>3, Aimed
  <2>2. EdgeInfoDirections(conn, Members, e)' = EdgeInfoDirections(conn', Members, e)
    BY <1>2 DEF EdgeInfoDirections
  <2> QED
    BY <1>3, <1>5, <2>1, <2>2 DEF Routes, Directed, Tells
<1> QED
  BY <1>2, <1>4, <1>5 DEF Routes, Blank

-----------------------------------------------------------------------------
(* The steps of a client's program.                                        *)

\* No connection changes.
LEMMA Unmoved ==
  ASSUME IInv, UNCHANGED <<setting, conn, slot, prompt, known, raced>>
  PROVE  Admission' /\ Handover' /\ Routes'
<1>1. Routes'
  BY RoutesAside DEF IInv
<1> QED
  BY <1>1 DEF IInv, Admission, Handover, Live, At, Compatible

LEMMA TypedAgain ==
  ASSUME Typed, NEW m \in Machine, NEW healthy \in BOOLEAN, NEW q, q = Again(machine[m], healthy),
         machine[m].failures # Rediscover
  PROVE  q \in Program /\ (q.failures = Rediscover => q.at = None /\ ~q.waiting)
<1>1. machine[m] \in Program
  BY DEF Typed
<1>2. machine[m].failures \in 0..Rediscover - 1
  BY <1>1, SessionAssumption DEF Program
<1> DEFINE n == IF healthy THEN 0 ELSE machine[m].failures + 1
<1>3. n \in 0..Rediscover
  BY <1>2, SessionAssumption
<1> DEFINE failures == IF setting.fromDiscovery THEN n ELSE 0
           waiting == ~setting.fromDiscovery \/ n < Rediscover
<1>4. q = [machine[m] EXCEPT !.at = None, !.failures = failures, !.waiting = waiting]
  BY DEF Again
<1>5. failures \in 0..Rediscover /\ waiting \in BOOLEAN /\ (failures = Rediscover => ~waiting)
  BY <1>3, SessionAssumption
<1> HIDE DEF n, failures, waiting
<1>6. q \in Program
  BY <1>1, <1>4, <1>5 DEF Program
<1>7. q.at = None /\ q.failures = failures /\ q.waiting = waiting
  BY <1>1, <1>4 DEF Program
<1> QED
  BY <1>5, <1>6, <1>7

LEMMA Reprogrammed ==
  ASSUME Typed, NEW m \in Machine, NEW q \in Program,
         q.failures = Rediscover => q.at = None /\ ~q.waiting,
         machine' = [machine EXCEPT ![m] = q], conn' \in Slots,
         UNCHANGED <<setting, slot, prompt, known, disk, server, losses, raced>>
  PROVE  Typed'
<1>1. machine' \in [Machine -> Program]
  BY DEF Typed
<1>2. \A p \in Machine : machine'[p] = IF p = m THEN q ELSE machine[p]
  BY DEF Typed
<1>3. \A p \in Machine :
         machine'[p].failures = Rediscover => machine'[p].at = None /\ ~machine'[p].waiting
  BY <1>2 DEF Typed
<1> QED
  BY <1>1, <1>3 DEF Typed

LEMMA ConnectFailsIInv ==
  ASSUME IInv, NEW m \in Machine, ConnectFails(m)
  PROVE  IInv'
<1>1. Admission' /\ Handover' /\ Routes'
  BY Unmoved DEF ConnectFails
<1>2. machine[m].failures # Rediscover
  BY DEF IInv, Typed, ConnectFails
<1> DEFINE q == Again(machine[m], FALSE)
<1>3. q \in Program /\ (q.failures = Rediscover => q.at = None /\ ~q.waiting)
  BY <1>2, TypedAgain DEF IInv
<1>4. machine' = [machine EXCEPT ![m] = q]
  BY DEF ConnectFails
<1> HIDE DEF q
<1>5. Typed'
  BY <1>3, <1>4, Reprogrammed DEF IInv, Typed, ConnectFails
<1> QED
  BY <1>1, <1>5 DEF IInv

LEMMA DiscoverIInv ==
  ASSUME IInv, NEW m \in Machine, NEW found \in BOOLEAN, Discover(m, found)
  PROVE  IInv'
<1>1. Admission' /\ Handover' /\ Routes'
  BY Unmoved DEF Discover
<1> DEFINE address == IF found THEN server.address ELSE machine[m].address
           failures == 0
           waiting == TRUE
           q == [machine[m] EXCEPT !.address = address, !.failures = failures,
                                   !.waiting = waiting]
<1>2. machine[m] \in Program /\ server.address \in Address
  BY DEF IInv, Typed
<1>3. address \in Address /\ failures \in 0..Rediscover /\ failures = 0 /\ waiting \in BOOLEAN
  BY <1>2, SessionAssumption DEF Program
<1>4. machine' = [machine EXCEPT ![m] = q]
  BY DEF Discover
<1> HIDE DEF address, failures, waiting
<1>5. q \in Program /\ q.failures = failures
  BY <1>2, <1>3 DEF Program
<1> HIDE DEF q
<1>6. Typed'
  BY <1>3, <1>4, <1>5, SessionAssumption, Reprogrammed DEF IInv, Typed, Discover
<1> QED
  BY <1>1, <1>6 DEF IInv

LEMMA ConnectIInv ==
  ASSUME IInv, NEW m \in Machine, Connect(m)
  PROVE  IInv'
<1> DEFINE e == CHOOSE f \in Endpoint : f \notin Live
<1>1. e \in Endpoint /\ e \notin Live
  BY DEF Connect, Live
<1>2. /\ machine' = [machine EXCEPT ![m].at = e] /\ machine[m].at = None /\ machine[m].waiting
      /\ conn' = [conn EXCEPT ![e] = NewConnection(m)]
  BY DEF Connect
<1>3. NewConnection(m) \in Connection /\ NewConnection(m) # None
  BY New, NotAConnection
<1> HIDE DEF e
<1>4. \A f \in Endpoint \ {e} : conn'[f] = conn[f]
  BY <1>2 DEF IInv, Typed, Slots
<1>5. conn'[e] = NewConnection(m) /\ conn[e] = None
  BY <1>1, <1>2 DEF IInv, Typed, Slots, Live
<1>6. Typed'
  <2>1. conn' \in Slots
    BY <1>1, <1>2, <1>3 DEF IInv, Typed, Slots
  <2>2. machine[m] \in Program /\ machine[m].failures # Rediscover
    BY <1>2 DEF IInv, Typed
  <2> DEFINE q == [machine[m] EXCEPT !.at = e]
  <2>3. q \in Program /\ q.failures # Rediscover
    BY <1>1, <2>2 DEF Program
  <2>4. machine' = [machine EXCEPT ![m] = q]
    BY <1>2
  <2> HIDE DEF q
  <2> QED
    BY <2>1, <2>3, <2>4, Reprogrammed DEF IInv, Connect
<1>7. NewConnection(m).stage = "hello" /\ NewConnection(m).id = None /\ Blank(NewConnection(m))
  BY DEF NewConnection, Blank
<1>8. Admission'
  <2>1. Live' = Live \cup {e} /\ \A f \in Live : f # e /\ conn'[f] = conn[f]
    BY <1>1, <1>3, <1>4, <1>5 DEF Live
  <2>2. At("prompt")' = At("prompt")
    BY <1>5, <1>7, <2>1 DEF At
  <2>3. ~NewConnection(m).crossed
    BY DEF NewConnection
  <2> QED
    BY <1>5, <1>7, <2>1, <2>2, <2>3 DEF IInv, Admission, Connect, Compatible
<1>9. Handover'
  BY <1>1, <1>3, <1>4, <1>5, <1>7 DEF IInv, Handover, Connect, Live, At
<1>10. Aside(e)
  BY <1>1, <1>5, <1>7 DEF Aside, Members, At
<1>11. Routes'
  BY <1>4, <1>10, RoutesAside DEF IInv, Connect
<1> QED
  BY <1>6, <1>8, <1>9, <1>11 DEF IInv

LEMMA SessionEndsIInv ==
  ASSUME IInv, NEW m \in Machine, NEW healthy \in BOOLEAN, SessionEnds(m, healthy)
  PROVE  IInv'
<1> DEFINE e == machine[m].at
           q == Again(machine[m], healthy)
<1>1. e \in Endpoint /\ e # None /\ machine[m].failures # Rediscover
  BY DEF IInv, Typed, Program, SessionEnds
<1>2. q \in Program /\ (q.failures = Rediscover => q.at = None /\ ~q.waiting)
  BY <1>1, TypedAgain DEF IInv
<1>3. /\ machine' = [machine EXCEPT ![m] = q]
      /\ conn' = [conn EXCEPT ![e] = IF conn[e].stage = "over" THEN None ELSE conn[e]]
  BY DEF SessionEnds
<1> HIDE DEF e, q
<1>4. conn' \in Slots
  BY <1>1, <1>3 DEF IInv, Typed, Slots
<1>5. \A f \in Endpoint : \/ conn'[f] = conn[f]
                          \/ conn'[f] = None /\ conn[f].stage = "over"
  BY <1>1, <1>3 DEF IInv, Typed, Slots
<1>6. Typed'
  BY <1>2, <1>3, <1>4, Reprogrammed DEF IInv, SessionEnds
<1>7. Live' \subseteq Live /\ \A f \in Live' : conn'[f] = conn[f]
  BY <1>5 DEF Live
<1>8. At("stored")' = At("stored") /\ At("prompt")' = At("prompt")
  BY <1>5 DEF At, Live
<1>9. Admission' /\ Handover'
  BY <1>7, <1>8 DEF IInv, Admission, Handover, SessionEnds, At, Compatible
<1>10. \A f \in Endpoint : conn'[f] = conn[f] \/ Aside(f)
  BY <1>5 DEF Aside, Members, At
<1>11. Routes'
  BY <1>10, RoutesAside DEF IInv, SessionEnds
<1> QED
  BY <1>6, <1>9, <1>11 DEF IInv

-----------------------------------------------------------------------------
(* The steps of the handshake.                                             *)

\* Whoever the user is asked about is at that stage.
LEMMA Asked ==
  ASSUME IInv, NEW e \in Live
  PROVE  e \in Endpoint /\ conn[e] \in Connection /\ (conn[e].stage = "prompt" <=> prompt = e)
BY SessionAssumption DEF IInv, Typed, Slots, Admission, Live, At

\* The connection is dropped before it is a member.
LEMMA TurnedAway ==
  ASSUME IInv, NEW e \in Live, conn[e].stage \in {"hello", "prompt", "stored", "named"},
         conn' = Drop({e}), prompt' = IF prompt = e THEN None ELSE prompt,
         UNCHANGED <<setting, machine, slot, known, disk, server, losses, raced>>
  PROVE  IInv'
<1>1. e \in Endpoint /\ conn[e] \in Connection /\ conn \in Slots
  BY Asked DEF IInv, Typed
<1>2. /\ conn' \in Slots /\ \A f \in Endpoint \ {e} : conn'[f] = conn[f]
      /\ conn'[e] \in {None, Cut(conn[e])}
  BY <1>1, Dropped
<1>3. Cut(conn[e]).stage = "over" /\ Cut(conn[e]).who = conn[e].who /\ Cut(conn[e]).id = conn[e].id
  BY <1>1 DEF Cut, Connection
<1>4. Typed'
  BY <1>2 DEF IInv, Typed
<1>5. /\ Live' \subseteq Live /\ Live \subseteq Endpoint
      /\ \A f \in Live' : f # e => conn'[f] = conn[f]
      /\ e \in Live' => conn'[e] = Cut(conn[e])
  BY <1>1, <1>2 DEF Live
<1>6. /\ \A stage \in {"prompt", "stored"} : At(stage)' = At(stage) \ {e}
  BY <1>2, <1>3, <1>5 DEF At, Live
<1>7. At("prompt")' = {prompt'} \ {None}
  <2>1. At("prompt") = {prompt} \ {None}
    BY DEF IInv, Admission
  <2>2. At("prompt")' = At("prompt") \ {e}
    BY <1>6
  <2> QED
    BY <2>1, <2>2
<1>8. Admission'
  BY <1>3, <1>5, <1>7 DEF IInv, Admission, Compatible
<1>9. Handover'
  <2>1. /\ At("stored")' \subseteq At("stored") /\ e \notin At("stored")'
        /\ At("stored") \subseteq Live
    BY <1>6 DEF At
  <2>2. \A f \in At("stored")' : f # e /\ f \in At("stored") /\ conn'[f] = conn[f]
    BY <1>2, <1>5, <2>1
  <2>3. ASSUME ~raced
        PROVE  \A f \in Live' : conn'[f].id \in {None, conn'[f].who}
    BY <1>3, <1>5, <2>3 DEF IInv, Handover
  <2> QED
    BY <2>1, <2>2, <2>3 DEF IInv, Handover
<1>10. Aside(e)
  <2>1. e \notin Members
    BY DEF Members, At
  <2>2. conn'[e] = None => Aside(e)
    BY <2>1 DEF Aside
  <2>3. ASSUME conn'[e] = Cut(conn[e])
        PROVE  Aside(e)
    <3>1. conn'[e].stage = "over"
      BY <1>3, <2>3
    <3> QED
      BY <2>1, <3>1 DEF Aside
  <2> QED
    BY <1>2, <2>2, <2>3
<1>11. Routes'
  BY <1>2, <1>10, RoutesAside DEF IInv
<1> QED
  BY <1>4, <1>8, <1>9, <1>11 DEF IInv

LEMMA VerifyRefusedIInv ==
  ASSUME IInv, NEW e \in Endpoint, VerifyRefused(e)
  PROVE  IInv'
<1>1. e \in Live /\ conn[e].stage = "hello"
  BY DEF VerifyRefused, At
<1>2. prompt # e
  BY <1>1, Asked
<1> QED
  BY <1>1, <1>2, TurnedAway DEF VerifyRefused

LEMMA DisapproveIInv ==
  ASSUME IInv, NEW e \in Endpoint, Disapprove(e)
  PROVE  IInv'
BY TurnedAway DEF Disapprove, At

LEMMA HandshakeFailsIInv ==
  ASSUME IInv, NEW e \in Endpoint, HandshakeFails(e)
  PROVE  IInv'
<1>1. e \in Live /\ conn[e].stage \in {"hello", "stored"}
  BY DEF HandshakeFails, At
<1>2. prompt # e
  BY <1>1, Asked
<1> QED
  BY <1>1, <1>2, TurnedAway DEF HandshakeFails

\* The connection goes on, at most with a fingerprint of the slot.
LEMMA Advanced ==
  ASSUME IInv, NEW e \in Live, NEW t \in Connection, conn' = [conn EXCEPT ![e] = t],
         conn[e].stage \in {"hello", "stored", "named"}, t.stage \in {"prompt", "named", "queued"},
         t.who = conn[e].who, Blank(conn[e]) => Blank(t),
         t.stage = "prompt" <=> conn[e].stage = "hello", t.crossed = conn[e].crossed,
         t.stage = "queued" => Compatible(t.who),
         prompt' = IF t.stage = "prompt" THEN e ELSE prompt,
         t.stage = "prompt" => prompt = None,
         slot' \in {slot, None}, slot' # slot => conn[e].stage = "stored",
         t.id # conn[e].id => conn[e].stage = "stored" /\ t.id = slot,
         UNCHANGED <<setting, machine, known, disk, server, losses, raced>>
  PROVE  IInv'
<1>1. e \in Endpoint /\ conn[e] \in Connection /\ conn \in Slots /\ prompt # e
  BY Asked DEF IInv, Typed
<1>2. /\ conn' \in Slots /\ conn'[e] = t /\ t # None
      /\ \A f \in Endpoint \ {e} : conn'[f] = conn[f]
  BY <1>1, NotAConnection DEF Slots
<1>3. Typed'
  BY <1>1, <1>2 DEF IInv, Typed
<1>4. Live' = Live /\ Live \subseteq Endpoint /\ \A f \in Live : f # e => conn'[f] = conn[f]
  BY <1>1, <1>2 DEF Live
<1>5. At("prompt")' = {prompt'} \ {None}
  <2>1. At("prompt") = {prompt} \ {None}
    BY DEF IInv, Admission
  <2>2. At("prompt")' = IF t.stage = "prompt" THEN At("prompt") \cup {e} ELSE At("prompt")
    BY <1>2, <1>4 DEF At
  <2>3. e # None
    BY <1>1, SessionAssumption
  <2> QED
    BY <2>1, <2>2, <2>3
<1>6. Admission'
  BY <1>2, <1>4, <1>5 DEF IInv, Admission, Compatible
<1>7. Handover'
  <2>1. At("stored")' = At("stored") \ {e}
    BY <1>2, <1>4 DEF At
  <2>2. \A f \in At("stored")' : conn'[f] = conn[f] /\ f \in At("stored") /\ f # e
    BY <1>4, <2>1 DEF At
  <2>3. ASSUME ~raced
        PROVE  /\ conn[e].stage = "stored" => e \in At("stored") /\ At("stored")' = {}
               /\ conn[e].stage = "stored" => slot \in {None, conn[e].who}
               /\ \A f \in Live : conn[f].id \in {None, conn[f].who}
    BY <2>1, <2>3 DEF IInv, Handover, At
  <2>4. ASSUME ~raced
        PROVE  \A f \in Live' : conn'[f].id \in {None, conn'[f].who}
    BY <1>2, <1>4, <2>3, <2>4
  <2>5. ASSUME ~raced
        PROVE  \A f \in At("stored")' : slot' = slot
    BY <2>3, <2>5
  <2>6. ASSUME ~raced
        PROVE  /\ \A f, g \in At("stored")' : f = g
               /\ \A f \in At("stored")' : slot = IF conn[f].crossed THEN None ELSE conn[f].who
    BY <2>2, <2>6 DEF IInv, Handover
  <2> QED
    BY <2>2, <2>4, <2>5, <2>6 DEF Handover
<1>8. Aside(e)
  <2>1. Blank(conn[e])
    BY DEF IInv, Routes
  <2>2. e \notin Members /\ t.stage # "added"
    BY DEF Members, At
  <2> QED
    BY <1>2, <2>1, <2>2 DEF Aside
<1>9. Routes'
  BY <1>2, <1>8, RoutesAside DEF IInv
<1> QED
  BY <1>3, <1>6, <1>7, <1>9 DEF IInv

LEMMA VerifyAsksIInv ==
  ASSUME IInv, NEW e \in Endpoint, VerifyAsks(e)
  PROVE  IInv'
<1> DEFINE t == [conn[e] EXCEPT !.stage = "prompt"]
<1>1. e \in Live /\ conn[e].stage = "hello" /\ conn' = [conn EXCEPT ![e] = t]
  BY DEF VerifyAsks, At
<1>2. conn[e] \in Connection
  BY <1>1, Asked
<1>3. t \in Connection /\ t.stage = "prompt"
  <2>1. t \in Connection
    BY <1>2, Record DEF Stage
  <2> QED
    BY <1>2, <2>1 DEF Connection
<1>4. /\ t.who = conn[e].who /\ t.id = conn[e].id /\ t.crossed = conn[e].crossed
      /\ (Blank(conn[e]) => Blank(t))
  BY <1>2 DEF Connection, Blank
<1> HIDE DEF t
<1> QED
  BY <1>1, <1>3, <1>4, Advanced DEF VerifyAsks

LEMMA TakeFingerprintIInv ==
  ASSUME IInv, NEW e \in Endpoint, TakeFingerprint(e)
  PROVE  IInv'
<1>1. e \in Live /\ conn[e].stage = "stored"
  BY DEF TakeFingerprint, At
<1>2. conn[e] \in Connection /\ prompt # e /\ slot \in Machine \cup {None}
  BY <1>1, Asked DEF IInv, Typed
<1>3. CASE slot = None
  BY <1>1, <1>2, <1>3, TurnedAway DEF TakeFingerprint
<1>4. CASE slot # None
  <2> DEFINE t == [conn[e] EXCEPT !.stage = "named", !.id = slot]
  <2>1. conn' = [conn EXCEPT ![e] = t]
    BY <1>4 DEF TakeFingerprint
  <2>2. t \in Connection /\ t.stage = "named" /\ t.id = slot
    <3>1. t \in Connection
      BY <1>2, Record DEF Stage
    <3> QED
      BY <1>2, <3>1 DEF Connection
  <2>3. t.who = conn[e].who /\ t.crossed = conn[e].crossed /\ (Blank(conn[e]) => Blank(t))
    BY <1>2 DEF Connection, Blank
  <2> HIDE DEF t
  <2> QED
    BY <1>1, <2>1, <2>2, <2>3, Advanced DEF TakeFingerprint
<1> QED
  BY <1>3, <1>4

LEMMA ExchangeVersionsIInv ==
  ASSUME IInv, NEW e \in Endpoint, ExchangeVersions(e)
  PROVE  IInv'
<1>1. e \in Live /\ conn[e].stage = "named"
  BY DEF ExchangeVersions, At
<1>2. conn[e] \in Connection /\ prompt # e
  BY <1>1, Asked
<1>3. CASE conn[e].up /\ Compatible(conn[e].who)
  <2> DEFINE t == [conn[e] EXCEPT !.stage = "queued"]
  <2>1. conn' = [conn EXCEPT ![e] = t]
    BY <1>3 DEF ExchangeVersions
  <2>2. t \in Connection /\ t.stage = "queued"
    <3>1. t \in Connection
      BY <1>2, Record DEF Stage
    <3> QED
      BY <1>2, <3>1 DEF Connection
  <2>3. /\ t.who = conn[e].who /\ t.id = conn[e].id /\ t.crossed = conn[e].crossed
        /\ (Blank(conn[e]) => Blank(t))
    BY <1>2 DEF Connection, Blank
  <2> HIDE DEF t
  <2> QED
    BY <1>1, <1>3, <2>1, <2>2, <2>3, Advanced DEF ExchangeVersions
<1>4. CASE ~(conn[e].up /\ Compatible(conn[e].who))
  BY <1>1, <1>2, <1>4, TurnedAway DEF ExchangeVersions
<1> QED
  BY <1>3, <1>4

\* The certificate is accepted, by itself or by the user.
LEMMA Accepted ==
  ASSUME IInv, NEW e \in Live, conn[e].stage \in {"hello", "prompt"}, StoreFingerprint(e),
         known' = known \cup {conn[e].who}, disk' \subseteq Machine,
         prompt' = IF prompt = e THEN None ELSE prompt,
         UNCHANGED <<setting, machine, server, losses>>
  PROVE  IInv'
<1>1. e \in Endpoint /\ conn[e] \in Connection /\ conn \in Slots
  BY Asked DEF IInv, Typed
<1>2. /\ conn' \in Slots
      /\ \A f \in At("stored") : f # e /\ conn'[f] = Cross(conn[f])
      /\ \A f \in Endpoint \ (At("stored") \cup {e}) : conn'[f] = conn[f]
      /\ slot = None => slot' = conn[e].who /\ conn'[e] = [conn[e] EXCEPT !.stage = "stored"]
      /\ slot # None => slot' = None /\ conn'[e] \in {None, Cut(conn[e])}
      /\ raced' = (raced \/ \E f \in At("stored") : conn[f].crossed)
  BY <1>1, Verified
<1>3. conn[e].who \in Machine /\ raced \in BOOLEAN
  BY <1>1 DEF Connection, IInv, Typed
<1>4. Typed'
  BY <1>2, <1>3 DEF IInv, Typed
<1> DEFINE t == [conn[e] EXCEPT !.stage = "stored"]
<1>5. /\ t.stage = "stored" /\ t.who = conn[e].who /\ t.id = conn[e].id
      /\ t.crossed = conn[e].crossed /\ (Blank(conn[e]) => Blank(t))
      /\ t \in Connection /\ t # None
  <2>1. t \in Connection /\ t # None
    BY <1>1, Record DEF Stage
  <2> QED
    BY <1>1, <2>1 DEF Connection, Blank
<1>6. /\ Cut(conn[e]).stage = "over" /\ Cut(conn[e]).who = conn[e].who
      /\ Cut(conn[e]).id = conn[e].id
  BY <1>1 DEF Cut, Connection
<1>7. ASSUME NEW f \in At("stored")
      PROVE  /\ f \in Live /\ f \in Endpoint /\ conn[f].stage = "stored"
             /\ conn'[f].stage = "stored" /\ conn'[f].who = conn[f].who
             /\ conn'[f].id = conn[f].id /\ conn'[f].crossed
             /\ conn'[f] # None /\ (Blank(conn[f]) => Blank(conn'[f]))
  <2>1. f \in Live /\ f \in Endpoint /\ conn[f].stage = "stored"
    BY DEF At, Live
  <2>2. conn[f] \in Connection
    BY <2>1, Asked
  <2>3. conn'[f] = [conn[f] EXCEPT !.crossed = TRUE] /\ conn'[f] # None
    BY <1>2, <2>2, Record DEF Cross
  <2> QED
    BY <2>1, <2>2, <2>3 DEF Connection, Blank
<1> HIDE DEF t
<1>8. conn'[e] = t \/ conn'[e] = None \/ conn'[e] = Cut(conn[e])
  BY <1>2 DEF t
<1>9. /\ Live' \subseteq Live /\ Live \subseteq Endpoint
      /\ \A f \in Live' : f # e => /\ conn'[f].stage = conn[f].stage
                                   /\ conn'[f].who = conn[f].who /\ conn'[f].id = conn[f].id
      /\ \A f \in Live : f # e => f \in Live'
  BY <1>1, <1>2, <1>7 DEF Live
<1>10. \A f \in Live' : conn'[f].who = conn[f].who /\ conn'[f].id = conn[f].id
  BY <1>5, <1>6, <1>8, <1>9 DEF Live
<1>11. Admission'
  <2>1. At("prompt") = {prompt} \ {None}
    BY DEF IInv, Admission
  <2>2. At("prompt")' = At("prompt") \ {e}
    BY <1>5, <1>6, <1>8, <1>9 DEF At, Live
  <2>3. At("prompt")' = {prompt'} \ {None}
    BY <2>1, <2>2
  <2>4. ASSUME NEW f \in Live', conn'[f].stage \in {"stored", "named", "queued", "added"}
        PROVE  conn'[f].who \in known'
    BY <1>5, <1>9, <1>10, <2>4 DEF IInv, Admission
  <2>5. ASSUME NEW f \in Live', conn'[f].stage \in {"queued", "added"}
        PROVE  conn'[f].who \notin setting.outdated
    <3>1. f # e
      BY <1>5, <1>6, <1>8, <2>5 DEF Live
    <3> QED
      BY <1>9, <2>5, <3>1 DEF IInv, Admission, Compatible
  <2>6. ASSUME NEW f \in Live', conn'[f].stage \in {"hello", "prompt"}
        PROVE  ~conn'[f].crossed
    <3>1. f # e /\ f \in Live
      BY <1>5, <1>6, <1>8, <1>9, <2>6 DEF Live
    <3>2. f \notin At("stored")
      BY <1>7, <2>6
    <3> QED
      BY <1>2, <1>9, <2>6, <3>1, <3>2 DEF IInv, Admission
  <2> QED
    BY <2>3, <2>4, <2>5, <2>6 DEF Admission, Compatible
<1>12. Handover'
  <2> SUFFICES ASSUME ~raced'
               PROVE  /\ \A f, g \in At("stored")' : f = g
                      /\ \A f \in At("stored")' :
                            slot' = IF conn'[f].crossed THEN None ELSE conn'[f].who
                      /\ \A f \in Live' : conn'[f].id \in {None, conn'[f].who}
    BY DEF Handover
  <2>1. ~raced /\ \A f \in At("stored") : ~conn[f].crossed /\ slot = conn[f].who
    BY <1>2 DEF IInv, Handover
  <2>2. \A f \in Live' : conn'[f].id \in {None, conn'[f].who}
    BY <1>9, <1>10, <2>1 DEF IInv, Handover
  <2>3. CASE slot = None
    <3>1. At("stored") = {}
      <4>1. \A f \in At("stored") : conn[f] \in Connection
        BY <1>7, Asked
      <4> QED
        BY <2>1, <2>3, <4>1, SessionAssumption DEF Connection
    <3>2. At("stored")' = {e}
      <4>1. conn'[e] = t
        BY <1>2, <2>3 DEF t
      <4>2. e \in At("stored")'
        BY <1>1, <1>5, <4>1 DEF At, Live
      <4>3. \A f \in Live' : f # e => conn'[f].stage # "stored"
        BY <1>9, <3>1 DEF At
      <4> QED
        BY <4>2, <4>3 DEF At
    <3>3. ~conn[e].crossed
      BY DEF IInv, Admission
    <3> QED
      BY <1>2, <1>5, <2>2, <2>3, <3>2, <3>3 DEF t
  <2>4. CASE slot # None
    <3>1. At("stored")' = At("stored")
      BY <1>1, <1>2, <1>6, <1>7, <1>9, <2>4 DEF At, Live
    <3> QED
      BY <1>2, <1>7, <2>1, <2>2, <2>4, <3>1 DEF IInv, Handover
  <2> QED
    BY <2>3, <2>4
<1>13. \A f \in Endpoint : conn'[f] = conn[f] \/ Aside(f)
  <2>1. Aside(e)
    <3>1. e \notin Members /\ Blank(conn[e])
      BY DEF IInv, Routes, Members, At
    <3>2. conn'[e] = t => Aside(e)
      BY <1>5, <3>1 DEF Aside
    <3>3. conn'[e] = None => Aside(e)
      BY <3>1 DEF Aside
    <3>4. ASSUME conn'[e] = Cut(conn[e])
          PROVE  Aside(e)
      <4>1. conn'[e].stage = "over"
        BY <1>6, <3>4
      <4> QED
        BY <3>1, <4>1 DEF Aside
    <3> QED
      BY <1>8, <3>2, <3>3, <3>4
  <2>2. ASSUME NEW f \in At("stored")
        PROVE  Aside(f)
    <3>1. f \notin Members /\ Blank(conn[f])
      BY <1>7 DEF IInv, Routes, Members, At
    <3> QED
      BY <1>7, <3>1 DEF Aside
  <2> QED
    BY <1>2, <2>1, <2>2
<1>14. Routes'
  BY <1>13, RoutesAside DEF IInv
<1> QED
  BY <1>4, <1>11, <1>12, <1>14 DEF IInv

LEMMA VerifyKnownIInv ==
  ASSUME IInv, NEW e \in Endpoint, VerifyKnown(e)
  PROVE  IInv'
<1>1. e \in Live /\ conn[e].stage = "hello"
  BY DEF VerifyKnown, At
<1>2. prompt # e /\ disk \subseteq Machine
  BY <1>1, Asked DEF IInv, Typed
<1> QED
  BY <1>1, <1>2, Accepted DEF VerifyKnown

LEMMA ApproveIInv ==
  ASSUME IInv, NEW e \in Endpoint, NEW written \in BOOLEAN, Approve(e, written)
  PROVE  IInv'
<1>1. e \in Live /\ conn[e].stage = "prompt" /\ prompt = e
  BY DEF Approve, At
<1>2. conn[e].who \in Machine /\ disk \subseteq Machine
  BY <1>1, Asked DEF Connection, IInv, Typed
<1>3. disk' \subseteq Machine
  BY <1>2 DEF Approve, Saved
<1> QED
  BY <1>1, <1>3, Accepted DEF Approve

-----------------------------------------------------------------------------
(* The steps of the members.                                               *)

\* All members are told, and there are no others.
LEMMA Readvertised ==
  ASSUME Typed, NEW c \in Slots, NEW M \in SUBSET Endpoint, setting' = setting,
         \A f \in M : /\ c[f] \in Connection /\ c[f].stage = "added"
                      /\ c[f].up /\ c[f].who \notin setting.explicit => Tells(c[f]),
         \A f \in Endpoint \ M : \/ c[f] = None
                                 \/ c[f].stage = "over"
                                 \/ c[f].stage # "added" /\ Blank(c[f]),
         conn' = Advertise(c, M, M)
  PROVE  /\ conn' \in Slots /\ Members' = M /\ Routes'
         /\ \A f \in Endpoint \ M : conn'[f] = c[f]
         /\ \A f \in M : /\ conn'[f] # None /\ conn'[f].stage = "added" /\ c[f] # None
                         /\ conn'[f].who = c[f].who /\ conn'[f].id = c[f].id
                         /\ conn'[f].crossed = c[f].crossed
<1>1. /\ conn' \in Slots /\ \A f \in Endpoint \ M : conn'[f] = c[f]
      /\ \A f \in M :
            /\ conn'[f] \in Connection
            /\ Retold(c[f], conn'[f]) /\ conn'[f].sent = EdgeInfoDirections(c, M, f)
            /\ c[f].up /\ Tells(c[f]) => Tells(conn'[f])
  <2>1. setting \in Settings /\ \A f \in M : c[f] \in Connection
    BY DEF Typed
  <2> QED
    BY <2>1, Advertised
<1>2. \A f \in M : /\ conn'[f].stage = "added" /\ conn'[f].who = c[f].who
                   /\ conn'[f].id = c[f].id /\ conn'[f].up = c[f].up
                   /\ conn'[f].crossed = c[f].crossed
                   /\ conn'[f] # None /\ c[f] # None
  <2> TAKE f \in M
  <2>1. c[f] \in Connection /\ c[f].stage = "added" /\ conn'[f] \in Connection
    BY <1>1
  <2>2. conn'[f] = [c[f] EXCEPT !.sent = conn'[f].sent, !.stream = conn'[f].stream]
    BY <1>1 DEF Retold
  <2>3. conn'[f] # None /\ c[f] # None
    BY <2>1, NotAConnection
  <2> QED
    BY <2>1, <2>2, <2>3 DEF Connection
<1>3. Members' = M
  <2>1. \A f \in Endpoint : f \in Members' <=> conn'[f] # None /\ conn'[f].stage = "added"
    BY DEF Members, At, Live
  <2>2. Members' \subseteq Endpoint
    BY DEF Members, At, Live
  <2>3. \A f \in Endpoint \ M : ~(conn'[f] # None /\ conn'[f].stage = "added")
    BY <1>1
  <2> QED
    BY <1>2, <2>1, <2>2, <2>3
<1>4. ASSUME NEW f \in M
      PROVE  Directed(f)'
  <2>1. EdgeInfoDirections(c, M, f) = EdgeInfoDirections(conn', M, f)
    BY <1>2, Aimed
  <2>2. EdgeInfoDirections(conn, Members, f)' = EdgeInfoDirections(conn', M, f)
    BY <1>3 DEF EdgeInfoDirections
  <2>3. conn'[f].sent = EdgeInfoDirections(conn, Members, f)'
    BY <1>1, <2>1, <2>2
  <2>4. conn'[f].up /\ conn'[f].who \notin setting.explicit => Tells(conn'[f])
    BY <1>1, <1>2
  <2>5. Tells(conn'[f]) <=> Tells(conn[f])'
    BY DEF Tells
  <2> QED
    BY <2>3, <2>4, <2>5 DEF Directed
<1>5. ASSUME NEW f \in Live', conn'[f].stage \notin {"added", "over"}
      PROVE  Blank(conn'[f])
  <2>1. f \in Endpoint \ M /\ conn'[f] # None
    BY <1>2, <1>5 DEF Live
  <2> QED
    BY <1>1, <1>5, <2>1
<1>6. Routes'
  BY <1>3, <1>4, <1>5 DEF Routes, Blank
<1> QED
  BY <1>1, <1>2, <1>3, <1>6

LEMMA AddClientIInv ==
  ASSUME IInv, NEW e \in Endpoint, AddClient(e)
  PROVE  IInv'
<1> DEFINE t == [conn[e] EXCEPT !.stage = "added"]
           c == [conn EXCEPT ![e].stage = "added"]
           M == Members \cup {e}
<1>1. e \in Live /\ conn[e].stage = "queued" /\ conn[e] \in Connection /\ conn \in Slots
  <2>1. e \in Live /\ conn[e].stage = "queued"
    BY DEF AddClient, At
  <2> QED
    BY <2>1, Asked DEF IInv, Typed
<1>2. t \in Connection /\ t # None
  BY <1>1, Record DEF Stage
<1>3. /\ t.stage = "added" /\ t.who = conn[e].who /\ t.id = conn[e].id
      /\ t.crossed = conn[e].crossed /\ t.sent = conn[e].sent /\ t.stream = conn[e].stream
      /\ t.edges = conn[e].edges
  BY <1>1 DEF Connection
<1>4. c = [conn EXCEPT ![e] = t]
  OBVIOUS
<1> HIDE DEF t, c
<1>5. c \in Slots /\ c[e] = t /\ \A f \in Endpoint \ {e} : c[f] = conn[f]
  BY <1>1, <1>2, <1>4 DEF Slots
<1>6. M \in SUBSET Endpoint
  BY DEF Members, At, Live
<1>7. Tells(t)
  <2>1. Blank(conn[e])
    BY <1>1 DEF IInv, Routes
  <2>2. t.sent = {} /\ t.stream = <<>> /\ t.edges = {}
    BY <1>3, <2>1 DEF Blank
  <2>3. \A d : About(<<>>, d) = {}
    BY DEF About
  <2> QED
    BY <2>2, <2>3 DEF Tells, Hears
<1>8. \A f \in M : /\ c[f] \in Connection /\ c[f].stage = "added"
                   /\ c[f].up /\ c[f].who \notin setting.explicit => Tells(c[f])
  <2> TAKE f \in M
  <2>1. CASE f = e
    BY <1>2, <1>3, <1>5, <1>7, <2>1
  <2>2. CASE f # e
    <3>1. f \in Members /\ f \in Live /\ conn[f].stage = "added"
      BY <2>2 DEF Members, At
    <3>2. conn[f] \in Connection /\ f \in Endpoint
      BY <3>1, Asked
    <3>3. conn[f].up /\ conn[f].who \notin setting.explicit => Tells(conn[f])
      BY <3>1 DEF IInv, Routes, Directed
    <3> QED
      BY <1>5, <2>2, <3>1, <3>2, <3>3
  <2> QED
    BY <2>1, <2>2
<1>9. \A f \in Endpoint \ M : \/ c[f] = None
                              \/ c[f].stage = "over"
                              \/ c[f].stage # "added" /\ Blank(c[f])
  BY <1>5 DEF IInv, Routes, Members, At, Live
<1>10. conn' = Advertise(c, M, M) /\ setting' = setting
  BY DEF AddClient, c
<1> HIDE DEF M
<1>11. /\ conn' \in Slots /\ Members' = M /\ Routes'
       /\ \A f \in Endpoint \ M : conn'[f] = c[f]
       /\ \A f \in M : /\ conn'[f] # None /\ conn'[f].stage = "added" /\ c[f] # None
                       /\ conn'[f].who = c[f].who /\ conn'[f].id = c[f].id
                       /\ conn'[f].crossed = c[f].crossed
  BY <1>5, <1>6, <1>8, <1>9, <1>10, Readvertised DEF IInv
<1>12. Typed'
  BY <1>11 DEF IInv, Typed, AddClient
<1>13. /\ Live' = Live
       /\ \A f \in Live : /\ conn'[f].who = conn[f].who /\ conn'[f].id = conn[f].id
                          /\ f # e => conn'[f].stage = conn[f].stage
                          /\ conn'[f].crossed = conn[f].crossed
       /\ conn'[e].stage = "added"
  <2>1. \A f \in M : f # e => conn[f].stage = "added"
    BY DEF M, Members, At
  <2>2. \A f \in Endpoint : f \in Live' <=> f \in Live
    BY <1>1, <1>2, <1>5, <1>11 DEF Live
  <2> QED
    BY <1>1, <1>3, <1>5, <1>6, <1>11, <2>1, <2>2 DEF Live, M
<1>14. /\ At("stored")' = At("stored") /\ At("prompt")' = At("prompt")
  BY <1>1, <1>13 DEF At
<1>15. Admission'
  BY <1>1, <1>13, <1>14 DEF IInv, Admission, AddClient, Compatible
<1>16. Handover'
  <2>1. \A f \in At("stored")' : f \in At("stored") /\ f \in Live
    BY <1>14 DEF At
  <2>2. slot' = slot /\ raced' = raced
    BY DEF AddClient
  <2> QED
    BY <1>13, <2>1, <2>2 DEF IInv, Handover
<1> QED
  BY <1>11, <1>12, <1>15, <1>16 DEF IInv

LEMMA RemoveClientIInv ==
  ASSUME IInv, NEW e \in Endpoint, RemoveClient(e)
  PROVE  IInv'
<1> DEFINE c == Drop({e})
           M == Members \ {e}
<1>1. e \in Live /\ conn[e].stage = "added" /\ conn[e] \in Connection /\ conn \in Slots
  <2>1. e \in Live /\ conn[e].stage = "added"
    BY DEF RemoveClient, Members, At
  <2> QED
    BY <2>1, Asked DEF IInv, Typed
<1>2. /\ c \in Slots /\ c[e] \in {None, Cut(conn[e])}
      /\ \A f \in Endpoint \ {e} : c[f] = conn[f]
  BY <1>1, Dropped
<1>3. /\ Cut(conn[e]).stage = "over" /\ Cut(conn[e]).who = conn[e].who
      /\ Cut(conn[e]).id = conn[e].id
  BY <1>1 DEF Cut, Connection
<1>4. conn' = Advertise(c, M, M) /\ setting' = setting
  BY DEF RemoveClient
<1> HIDE DEF c
<1>5. M \in SUBSET Endpoint /\ e \notin M
  BY DEF Members, At, Live
<1>6. \A f \in M : /\ c[f] \in Connection /\ c[f].stage = "added"
                   /\ c[f].up /\ c[f].who \notin setting.explicit => Tells(c[f])
  <2> TAKE f \in M
  <2>1. f # e /\ f \in Members /\ f \in Live /\ conn[f].stage = "added"
    BY DEF Members, At
  <2>2. conn[f] \in Connection /\ f \in Endpoint
    BY <2>1, Asked
  <2>3. conn[f].up /\ conn[f].who \notin setting.explicit => Tells(conn[f])
    BY <2>1 DEF IInv, Routes, Directed
  <2> QED
    BY <1>2, <2>1, <2>2, <2>3
<1>7. \A f \in Endpoint \ M : \/ c[f] = None
                              \/ c[f].stage = "over"
                              \/ c[f].stage # "added" /\ Blank(c[f])
  <2> TAKE f \in Endpoint \ M
  <2>1. CASE f = e
    BY <1>2, <1>3, <2>1
  <2>2. CASE f # e
    BY <1>2, <2>2 DEF IInv, Routes, Members, At, Live
  <2> QED
    BY <2>1, <2>2
<1> HIDE DEF M
<1>8. /\ conn' \in Slots /\ Members' = M /\ Routes'
      /\ \A f \in Endpoint \ M : conn'[f] = c[f]
      /\ \A f \in M : /\ conn'[f] # None /\ conn'[f].stage = "added" /\ c[f] # None
                      /\ conn'[f].who = c[f].who /\ conn'[f].id = c[f].id
                      /\ conn'[f].crossed = c[f].crossed
  BY <1>2, <1>4, <1>5, <1>6, <1>7, Readvertised DEF IInv
<1>9. Typed'
  BY <1>8 DEF IInv, Typed, RemoveClient
<1>10. /\ Live' \subseteq Live /\ \A f \in Live : f # e => f \in Live'
       /\ \A f \in Live' : /\ conn'[f].who = conn[f].who /\ conn'[f].id = conn[f].id
                           /\ f # e => /\ conn'[f].stage = conn[f].stage
                                       /\ conn'[f].crossed = conn[f].crossed
       /\ e \in Live' => conn'[e].stage = "over"
  <2>1. \A f \in M : conn[f].stage = "added"
    BY DEF M, Members, At
  <2>2. \A f \in Endpoint \ {e} : f \in Live' <=> f \in Live
    BY <1>2, <1>5, <1>8 DEF Live
  <2>3. conn'[e] \in {None, Cut(conn[e])}
    BY <1>2, <1>5, <1>8
  <2>4. Live' \subseteq Endpoint /\ Live \subseteq Endpoint
    BY DEF Live
  <2>5. e \in Live' => conn'[e] = Cut(conn[e])
    BY <2>3 DEF Live
  <2>6. \A f \in Live' : f # e => /\ conn'[f].who = conn[f].who /\ conn'[f].id = conn[f].id
                                 /\ conn'[f].stage = conn[f].stage
                                 /\ conn'[f].crossed = conn[f].crossed
    BY <1>2, <1>8, <2>1, <2>4
  <2> QED
    BY <1>1, <1>3, <2>2, <2>4, <2>5, <2>6
<1>11. At("stored")' = At("stored") /\ At("prompt")' = At("prompt")
  BY <1>1, <1>10 DEF At
<1>12. Admission'
  BY <1>10, <1>11 DEF IInv, Admission, RemoveClient, Compatible
<1>13. Handover'
  <2>1. \A f \in At("stored")' : f \in At("stored") /\ f \in Live' /\ f # e
    BY <1>1, <1>11 DEF At
  <2>2. slot' = slot /\ raced' = raced
    BY DEF RemoveClient
  <2> QED
    BY <1>10, <2>1, <2>2 DEF IInv, Handover
<1> QED
  BY <1>8, <1>9, <1>12, <1>13 DEF IInv

\* One connection changes in nothing that others look at.
LEMMA Within ==
  ASSUME IInv, NEW e \in Live, NEW t \in Connection, conn' = [conn EXCEPT ![e] = t],
         t.stage = conn[e].stage, t.who = conn[e].who, t.id = conn[e].id,
         t.crossed = conn[e].crossed, t.sent = conn[e].sent,
         Blank(conn[e]) /\ conn[e].stage # "over" => Blank(t) \/ conn[e].stage = "added",
         t.up => conn[e].up,
         t.up /\ conn[e].who \notin setting.explicit /\ Tells(conn[e]) => Tells(t),
         UNCHANGED <<setting, machine, slot, prompt, known, disk, server, raced>>,
         losses' \in 0..setting.losses
  PROVE  IInv'
<1>1. e \in Endpoint /\ conn[e] \in Connection /\ conn \in Slots
  BY Asked DEF IInv, Typed
<1>2. /\ conn' \in Slots /\ conn'[e] = t /\ t # None
      /\ \A f \in Endpoint \ {e} : conn'[f] = conn[f]
  BY <1>1, NotAConnection DEF Slots
<1>3. Typed'
  BY <1>2 DEF IInv, Typed
<1>4. /\ Live' = Live /\ Live \subseteq Endpoint
      /\ \A f \in Live : /\ conn'[f].stage = conn[f].stage /\ conn'[f].who = conn[f].who
                         /\ conn'[f].id = conn[f].id /\ conn'[f].crossed = conn[f].crossed
                         /\ conn'[f].sent = conn[f].sent /\ conn'[f] # None /\ conn[f] # None
  <2>1. Live' = Live /\ Live \subseteq Endpoint
    BY <1>1, <1>2 DEF Live
  <2>2. \A f \in Live : conn'[f] # None /\ conn[f] # None
    BY <2>1 DEF Live
  <2> QED
    BY <1>2, <2>1, <2>2
<1>5. \A stage : At(stage)' = At(stage)
  BY <1>4 DEF At
<1>6. Admission'
  BY <1>4, <1>5 DEF IInv, Admission, Compatible
<1>7. Handover'
  <2>1. \A f \in At("stored")' : f \in At("stored") /\ f \in Live
    BY <1>5 DEF At
  <2> QED
    BY <1>4, <2>1 DEF IInv, Handover
<1>8. Members' = Members /\ Members \subseteq Live /\ Members \subseteq Endpoint
  BY <1>4, <1>5 DEF Members, At
<1>9. ASSUME NEW f \in Members
      PROVE  Directed(f)'
  <2>1. EdgeInfoDirections(conn, Members, f) = EdgeInfoDirections(conn', Members, f)
    <3>1. \A g \in Members : conn[g] # None /\ conn'[g] # None /\ conn[g].id = conn'[g].id
      BY <1>4, <1>8
    <3> DEFINE M == Members
               c == conn
               b == conn'
    <3>2. M \in SUBSET Endpoint /\ f \in M
      BY <1>8
    <3>3. \A g \in M : c[g] # None /\ b[g] # None /\ c[g].id = b[g].id
      BY <3>1
    <3> HIDE DEF M, c, b
    <3>4. EdgeInfoDirections(c, M, f) = EdgeInfoDirections(b, M, f)
      BY <3>2, <3>3, Aimed
    <3> QED
      BY <3>4 DEF M, c, b
  <2>2. EdgeInfoDirections(conn, Members, f)' = EdgeInfoDirections(conn', Members, f)
    BY <1>8 DEF EdgeInfoDirections
  <2>3. conn'[f].sent = EdgeInfoDirections(conn, Members, f)'
    BY <1>4, <1>8, <2>1, <2>2 DEF IInv, Routes, Directed
  <2>4. conn[f].up /\ conn[f].who \notin setting.explicit => Tells(conn[f])
    BY DEF IInv, Routes, Directed
  <2>5. conn'[f].up /\ conn'[f].who \notin setting.explicit => Tells(conn'[f])
    <3>1. CASE f = e
      BY <1>2, <2>4, <3>1
    <3>2. CASE f # e
      BY <1>2, <1>8, <2>4, <3>2
    <3> QED
      BY <3>1, <3>2
  <2>6. Tells(conn'[f]) <=> Tells(conn[f])'
    BY DEF Tells
  <2> QED
    BY <2>3, <2>5, <2>6 DEF Directed
<1>10. ASSUME NEW f \in Live', conn'[f].stage \notin {"added", "over"}
       PROVE  Blank(conn'[f])
  <2>1. f \in Live /\ f \in Endpoint /\ Blank(conn[f])
    BY <1>4, <1>10 DEF IInv, Routes
  <2>2. CASE f = e
    BY <1>2, <1>10, <2>1, <2>2
  <2>3. CASE f # e
    BY <1>2, <2>1, <2>3
  <2> QED
    BY <2>2, <2>3
<1>11. Routes'
  BY <1>8, <1>9, <1>10 DEF Routes, Blank
<1> QED
  BY <1>3, <1>6, <1>7, <1>11 DEF IInv

LEMMA HandleEdgeInfoIInv ==
  ASSUME IInv, NEW e \in Endpoint, HandleEdgeInfo(e)
  PROVE  IInv'
<1> DEFINE t == [conn[e] EXCEPT !.edges = Infer(conn[e]), !.stream = Tail(conn[e].stream)]
<1>1. e \in Live /\ conn[e].stream # <<>>
  BY DEF HandleEdgeInfo
<1>2. conn[e] \in Connection
  BY <1>1, Asked
<1>3. conn' = [conn EXCEPT ![e] = t]
  BY <1>2 DEF HandleEdgeInfo
<1>4. t \in Connection /\ (conn[e].who \notin setting.explicit /\ Tells(conn[e]) => Tells(t))
  BY <1>1, <1>2, Inferred
<1>5. /\ t.stage = conn[e].stage /\ t.who = conn[e].who /\ t.id = conn[e].id /\ t.up = conn[e].up
      /\ t.crossed = conn[e].crossed /\ t.sent = conn[e].sent
  BY <1>2 DEF Connection
<1>6. ~Blank(conn[e])
  BY <1>1 DEF Blank
<1>7. losses \in 0..setting.losses
  BY DEF IInv, Typed
<1> HIDE DEF t
<1> QED
  BY <1>1, <1>3, <1>4, <1>5, <1>6, <1>7, Within DEF HandleEdgeInfo

LEMMA LoseIInv ==
  ASSUME IInv, NEW e \in Endpoint, Lose(e)
  PROVE  IInv'
<1> DEFINE t == [conn[e] EXCEPT !.up = FALSE]
<1>1. e \in Live
  BY DEF Lose
<1>2. conn[e] \in Connection
  BY <1>1, Asked
<1>3. conn' = [conn EXCEPT ![e] = t]
  BY DEF Lose
<1>4. t \in Connection
  BY <1>2, Record
<1>5. /\ t.stage = conn[e].stage /\ t.who = conn[e].who /\ t.id = conn[e].id /\ ~t.up
      /\ t.crossed = conn[e].crossed /\ t.sent = conn[e].sent
      /\ (Blank(conn[e]) => Blank(t))
  BY <1>2 DEF Connection, Blank
<1>6. losses' \in 0..setting.losses
  BY SessionAssumption DEF IInv, Typed, Lose
<1> HIDE DEF t
<1> QED
  BY <1>1, <1>3, <1>4, <1>5, <1>6, Within DEF Lose

LEMMA RestartServerIInv ==
  ASSUME IInv, NEW a \in Address, RestartServer(a)
  PROVE  IInv'
<1>1. conn \in Slots
  BY DEF IInv, Typed
<1>2. conn' \in Slots /\ \A f \in Endpoint : \/ conn'[f] = None
                                             \/ conn[f] \in Connection /\ conn'[f] = Cut(conn[f])
  BY <1>1, Dropped DEF RestartServer
<1>3. Typed'
  BY <1>2, SessionAssumption DEF IInv, Typed, RestartServer
<1>4. ASSUME NEW f \in Live'
      PROVE  /\ f \in Live /\ conn'[f].stage = "over"
             /\ conn'[f].who = conn[f].who /\ conn'[f].id = conn[f].id
  <2>1. f \in Endpoint /\ conn[f] \in Connection /\ conn'[f] = Cut(conn[f])
    BY <1>2 DEF Live
  <2>2. f \in Live
    BY <2>1, NotAConnection DEF Live
  <2> QED
    BY <2>1, <2>2 DEF Cut, Connection
<1>5. At("stored")' = {} /\ At("prompt")' = {} /\ Members' = {}
  BY <1>4 DEF At, Members
<1>6. Admission' /\ Routes'
  BY <1>4, <1>5 DEF Admission, Routes, RestartServer
<1>7. Handover'
  BY <1>4, <1>5 DEF IInv, Handover, RestartServer
<1> QED
  BY <1>3, <1>6, <1>7 DEF IInv

-----------------------------------------------------------------------------
(* The theorems.                                                           *)

LEMMA NextIInv == IInv /\ [Next]_vars => IInv'
<1> SUFFICES ASSUME IInv, [Next]_vars PROVE IInv'
  OBVIOUS
<1>1. ASSUME NEW m \in setting.machines, ClientSide(m)
      PROVE  IInv'
  <2>1. m \in Machine
    BY SessionAssumption DEF IInv, Typed
  <2> QED
    BY <1>1, <2>1, ConnectIInv, ConnectFailsIInv, SessionEndsIInv, DiscoverIInv DEF ClientSide
<1>2. ASSUME NEW e \in Endpoint, ServerSide(e)
      PROVE  IInv'
  BY <1>2, VerifyKnownIInv, VerifyRefusedIInv, VerifyAsksIInv, ApproveIInv, DisapproveIInv,
     HandshakeFailsIInv, TakeFingerprintIInv, ExchangeVersionsIInv, AddClientIInv,
     RemoveClientIInv DEF ServerSide
<1>3. ASSUME NEW e \in Endpoint, HandleEdgeInfo(e) \/ Lose(e)
      PROVE  IInv'
  BY <1>3, HandleEdgeInfoIInv, LoseIInv
<1>4. ASSUME NEW a \in Address, RestartServer(a)
      PROVE  IInv'
  BY <1>4, RestartServerIInv
<1>5. CASE UNCHANGED vars
  <2>1. Admission' /\ Handover' /\ Routes'
    BY <1>5, Unmoved DEF vars
  <2> QED
    BY <1>5, <2>1 DEF IInv, Typed, vars
<1> QED
  BY <1>1, <1>2, <1>3, <1>4, <1>5 DEF Next

\* In every reachable state the approvals, the slot and the edges agree with
\* what each connection has been through.
THEOREM Invariance == Spec => []IInv
<1>1. Init => IInv
  BY InitIInv
<1>2. IInv /\ [Next]_vars => IInv'
  BY NextIInv
<1> QED
  BY <1>1, <1>2, PTL DEF Spec

\* No machine joins without the user's consent, given now or before, and a
\* question is answered before the next one is asked (approval.rs).
THEOREM Admitted == Spec => []SessionInv
<1>1. IInv => SessionInv
  <2> SUFFICES ASSUME IInv PROVE SessionInv
    OBVIOUS
  <2>1. \A e \in Live : conn[e] \in Connection
    BY Asked
  <2>2. TypeOK
    BY <2>1 DEF IInv, Typed, TypeOK
  <2>3. OnlyAdmitted
    BY DEF IInv, Admission, OnlyAdmitted, Members, At, Compatible
  <2> QED
    BY <2>2, <2>3 DEF SessionInv
<1> QED
  BY <1>1, Invariance, PTL

\* Fingerprints are mixed up only if a second verification falls into a
\* handshake that another one crossed before (verify_client_cert).
THEOREM Identified == Spec => []RightIdentity
<1>1. IInv => RightIdentity
  BY DEF IInv, Handover, RightIdentity
<1> QED
  BY <1>1, Invariance, PTL

\* Whoever comes and goes, and whatever is revoked and told meanwhile, a
\* client that has handled its messages watches the edges that lead back now
\* (advertise_edge_info, EdgeInference).
THEOREM WayBack == Spec => []EdgesAgree
<1>1. IInv => EdgesAgree
  <2> SUFFICES ASSUME IInv, NEW e \in Members, conn[e].up, conn[e].stream = <<>>,
                      conn[e].who \notin setting.explicit
               PROVE  conn[e].edges
                        = {Opposite(d) : d \in EdgeInfoDirections(conn, Members, e)}
    BY DEF EdgesAgree
  <2>1. conn[e].sent = EdgeInfoDirections(conn, Members, e) /\ Tells(conn[e])
    BY DEF IInv, Routes, Directed
  <2>2. conn[e] \in Connection
    BY Asked DEF Members, At
  <2>3. conn[e].edges \subseteq Directions /\ conn[e].sent \subseteq Directions
    BY <2>2 DEF Connection
  <2>4. \A d \in Directions : d \in conn[e].sent <=> Opposite(d) \in conn[e].edges
    BY <2>1 DEF Tells, Hears, About
  <2>5. \A d \in Directions : Opposite(d) \in Directions /\ Opposite(Opposite(d)) = d
    BY DEF Directions, Opposite
  <2>6. conn[e].edges = {Opposite(d) : d \in conn[e].sent}
    BY <2>3, <2>4, <2>5
  <2> QED
    BY <2>1, <2>6
<1> QED
  BY <1>1, Invariance, PTL
=============================================================================
