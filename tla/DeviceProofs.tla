---------------------------- MODULE DeviceProofs ----------------------------
(***************************************************************************)
(* Proofs about the devices of a machine: those it reads, InputPath, and   *)
(* the virtual ones it writes to, VirtualDevices under the session of      *)
(* DeviceOutput.                                                           *)
(*                                                                         *)
(* The first, for every device, any chords and any sequence of what users, *)
(* other processes, commands and clients do: a grabbed keyboard leaves the *)
(* compositor no key, and a key that is let go of comes up on every        *)
(* virtual keyboard.  The latter is about three queues in a row: a press   *)
(* waits in the kernel's buffer, then in the event queue, then it is held  *)
(* by a machine, and chords swallow frames in between.  KeyOwed is what    *)
(* the three have in common: a press with nothing behind it that would     *)
(* lift it is of a key whose release the reader has yet to see, and will   *)
(* not swallow.                                                            *)
(*                                                                         *)
(* The second, for every set of codes, any devices, batches of any length  *)
(* and any write that fails, as a whole or half way: what a device holds   *)
(* is in the set of pressed keys, which the loops over a batch keep side   *)
(* by side, so that letting go of the whole set lets go of everything.     *)
(***************************************************************************)
EXTENDS InputPath, VirtualDevices, SequenceTheorems, FiniteSetTheorems,
        WellFoundedInduction, TLAPS

O == INSTANCE DeviceOutput

\* The rotation loop broadcasts every change, and only the current machine
\* holds keys.
Broadcasts == state = [client |-> rot.client, paused |-> rot.paused]
HeldHere == \A m \in {"local", "client"} : held[m] # {} => ~rot.paused /\ m = Current

\* The reader knows whether it has the grab; one that waits for it has not,
\* and a node that is gone has nothing to read.
Knows ==
    /\ reader.grabbed /\ reader.alive => grab = "reader"
    /\ reader.grabbed => reader.phase = "running" /\ reader.pending = "none"
    /\ reader.pending # "none" => reader.phase = "running"
    /\ ~reader.alive => unread = <<>>
    /\ reader.phase = "none" => ~reader.alive

\* What the compositor saw pressed is down, and none of it is when a keyboard
\* is grabbed or about to be.
PairsSeen ==
    budget.class = "keyboard" /\ ~uneasy =>
        /\ raw \subseteq down
        /\ grab # "free" => raw = {}
        /\ reader.phase = "grabbing" /\ reader.alive => raw = {}

-----------------------------------------------------------------------------
(* Presses and what lifts them.                                            *)

\* The release of key k is among the frames from i on.
ReleaseIn(frames, i, k) ==
    \E j \in DOMAIN frames : j >= i /\ frames[j].key = k /\ frames[j].value = 0

\* Every press the reader has yet to see has its release behind it.
Waits ==
    \A i \in DOMAIN unread :
        unread[i].value = 1 =>
            unread[i].key \in down \/ ReleaseIn(unread, i, unread[i].key)

\* An event that presses key k on a virtual keyboard, and one that lifts it:
\* its release, or a chord, all of which clear the machine that has the input.
Presses(e, k) ==
    e.kind = "input" /\ e.grabbed /\ e.frame.key = k /\ e.frame.value = 1
Lifts(e, k) ==
    e.kind = "chord" \/ (e.kind = "input" /\ e.grabbed /\ e.frame.key = k /\ e.frame.value = 0)

\* Nothing behind place i lifts k.
Kept(q, i, k) == \A j \in DOMAIN q : j > i => ~Lifts(q[j], k)

\* k will stay pressed once the queue is handled.
Sticks(h, q, k) ==
    \/ Kept(q, 0, k) /\ \E m \in {"local", "client"} : k \in h[m]
    \/ \E i \in DOMAIN q : Presses(q[i], k) /\ Kept(q, i, k)

\* The reader has yet to see the release of k, and will pass it on.
Owed(k) ==
    /\ reader.grabbed /\ reader.alive
    /\ k \in down \/ ReleaseIn(unread, 1, k)
    /\ \A c \in Armed : k \in c.keys => ~reader.combos[c].fired

KeyOwed == \A k \in Key : Sticks(held, queue, k) => Owed(k)

IInv ==
    /\ TypeOK /\ Broadcasts /\ HeldHere /\ Knows /\ PairsSeen
    /\ ~cut => Waits
    /\ ~cut /\ ~late => KeyOwed

-----------------------------------------------------------------------------
(* Queues.                                                                 *)

LEMMA TailFacts ==
    ASSUME NEW S, NEW q \in Seq(S), q # <<>>
    PROVE  /\ Len(q) \in Nat /\ Len(q) >= 1
           /\ DOMAIN q = 1 .. Len(q) /\ Head(q) = q[1] /\ q[1] \in S
           /\ Tail(q) \in Seq(S)
           /\ DOMAIN Tail(q) = 1 .. (Len(q) - 1)
           /\ \A i \in 1 .. (Len(q) - 1) : Tail(q)[i] = q[i + 1]
<1>1. Len(Tail(q)) = Len(q) - 1 /\ Tail(q) \in Seq(S)
  BY HeadTailProperties
<1>2. Len(q) \in Nat /\ Len(q) # 0
  BY EmptySeq, LenProperties
<1>3. QED
  BY <1>1, <1>2, HeadTailProperties, LenProperties

LEMMA ConcatFacts ==
    ASSUME NEW S, NEW q \in Seq(S), NEW e \in Seq(S)
    PROVE  /\ q \o e \in Seq(S)
           /\ Len(q) \in Nat /\ Len(e) \in Nat
           /\ DOMAIN q = 1 .. Len(q) /\ DOMAIN e = 1 .. Len(e)
           /\ DOMAIN (q \o e) = 1 .. (Len(q) + Len(e))
           /\ \A i \in 1 .. Len(q) : (q \o e)[i] = q[i]
           /\ \A i \in 1 .. Len(e) : (q \o e)[Len(q) + i] = e[i]
<1>1. /\ Len(q) \in Nat /\ Len(e) \in Nat
      /\ DOMAIN q = 1 .. Len(q) /\ DOMAIN e = 1 .. Len(e)
  BY LenProperties
<1>2. q \o e \in Seq(S) /\ Len(q \o e) = Len(q) + Len(e)
  BY ConcatProperties
<1>3. DOMAIN (q \o e) = 1 .. (Len(q) + Len(e))
  BY <1>2, LenProperties
<1>4. \A i \in 1 .. (Len(q) + Len(e)) :
          (q \o e)[i] = IF i <= Len(q) THEN q[i] ELSE e[i - Len(q)]
  BY ConcatProperties
<1>5. \A i \in 1 .. Len(q) : (q \o e)[i] = q[i]
  BY <1>1, <1>4
<1>6. ASSUME NEW i \in 1 .. Len(e)
      PROVE  (q \o e)[Len(q) + i] = e[i]
  <2>1. /\ Len(q) + i \in 1 .. (Len(q) + Len(e))
        /\ ~(Len(q) + i <= Len(q)) /\ (Len(q) + i) - Len(q) = i
    BY <1>1
  <2>2. QED
    BY <1>4, <2>1
<1>7. QED
  BY <1>1, <1>2, <1>3, <1>5, <1>6

\* Handling the event at the head: what sticks afterwards stuck before.
LEMMA HeadHandled ==
    ASSUME NEW q \in Seq(Queued), q # <<>>, NEW k, NEW h, NEW t,
           \A m \in {"local", "client"} :
               k \in t[m] => \/ k \in h[m] /\ ~Lifts(Head(q), k)
                             \/ Presses(Head(q), k),
           Sticks(t, Tail(q), k)
    PROVE  Sticks(h, q, k)
<1>1. /\ Len(q) \in Nat /\ Len(q) >= 1
      /\ DOMAIN q = 1 .. Len(q) /\ Head(q) = q[1]
      /\ DOMAIN Tail(q) = 1 .. (Len(q) - 1)
      /\ \A i \in 1 .. (Len(q) - 1) : Tail(q)[i] = q[i + 1]
  BY TailFacts
<1>2. ASSUME NEW i \in Nat, Kept(Tail(q), i, k)
      PROVE  Kept(q, i + 1, k)
  <2>1. SUFFICES ASSUME NEW j \in 1 .. Len(q), j > i + 1
                 PROVE  ~Lifts(q[j], k)
    BY <1>1 DEF Kept
  <2>2. j - 1 \in 1 .. (Len(q) - 1) /\ j - 1 > i /\ (j - 1) + 1 = j
    BY <1>1, <2>1
  <2>3. QED
    BY <1>1, <1>2, <2>2 DEF Kept
<1>3. CASE Kept(Tail(q), 0, k) /\ \E m \in {"local", "client"} : k \in t[m]
  <2>1. Kept(q, 1, k)
    BY <1>2, <1>3
  <2>2. CASE Presses(Head(q), k)
    BY <1>1, <2>1, <2>2 DEF Sticks
  <2>3. CASE ~Presses(Head(q), k)
    <3>1. PICK m \in {"local", "client"} : k \in h[m] /\ ~Lifts(q[1], k)
      BY <1>1, <1>3, <2>3
    <3>2. Kept(q, 0, k)
      <4>1. SUFFICES ASSUME NEW j \in 1 .. Len(q)
                     PROVE  ~Lifts(q[j], k)
        BY <1>1 DEF Kept
      <4>2. j = 1 \/ j > 1
        OBVIOUS
      <4>3. QED
        BY <1>1, <2>1, <3>1, <4>2 DEF Kept
    <3>3. QED
      BY <3>1, <3>2 DEF Sticks
  <2>4. QED
    BY <2>2, <2>3
<1>4. CASE \E i \in DOMAIN Tail(q) : Presses(Tail(q)[i], k) /\ Kept(Tail(q), i, k)
  <2>1. PICK i \in 1 .. (Len(q) - 1) : Presses(Tail(q)[i], k) /\ Kept(Tail(q), i, k)
    BY <1>1, <1>4
  <2>2. i + 1 \in DOMAIN q /\ q[i + 1] = Tail(q)[i]
    BY <1>1
  <2>3. Kept(q, i + 1, k)
    BY <1>2, <2>1
  <2>4. QED
    BY <2>1, <2>2, <2>3 DEF Sticks
<1>5. QED
  BY <1>3, <1>4 DEF Sticks

\* Queueing more: what sticks afterwards is pressed by what is new, or stuck
\* before and is not lifted by it.
LEMMA MoreQueued ==
    ASSUME NEW q \in Seq(Queued), NEW e \in Seq(Queued), NEW k, NEW h,
           Sticks(h, q \o e, k)
    PROVE  \/ Sticks(h, q, k) /\ \A i \in DOMAIN e : ~Lifts(e[i], k)
           \/ \E i \in DOMAIN e : Presses(e[i], k)
<1>1. /\ Len(q) \in Nat /\ Len(e) \in Nat
      /\ DOMAIN q = 1 .. Len(q) /\ DOMAIN e = 1 .. Len(e)
      /\ DOMAIN (q \o e) = 1 .. (Len(q) + Len(e))
      /\ \A i \in 1 .. Len(q) : (q \o e)[i] = q[i]
      /\ \A i \in 1 .. Len(e) : (q \o e)[Len(q) + i] = e[i]
  BY ConcatFacts
<1>2. ASSUME NEW i \in 0 .. Len(q), Kept(q \o e, i, k)
      PROVE  Kept(q, i, k) /\ \A j \in DOMAIN e : ~Lifts(e[j], k)
  <2>1. Kept(q, i, k)
    BY <1>1, <1>2 DEF Kept
  <2>2. ASSUME NEW j \in 1 .. Len(e)
        PROVE  ~Lifts(e[j], k)
    <3>1. Len(q) + j \in DOMAIN (q \o e) /\ Len(q) + j > i
      BY <1>1, <1>2
    <3>2. QED
      BY <1>1, <1>2, <3>1 DEF Kept
  <2>3. QED
    BY <1>1, <2>1, <2>2
<1>3. CASE Kept(q \o e, 0, k) /\ \E m \in {"local", "client"} : k \in h[m]
  <2>1. 0 \in 0 .. Len(q)
    BY <1>1
  <2>2. QED
    BY <1>2, <1>3, <2>1 DEF Sticks
<1>4. CASE \E i \in DOMAIN (q \o e) : Presses((q \o e)[i], k) /\ Kept(q \o e, i, k)
  <2>1. PICK i \in 1 .. (Len(q) + Len(e)) : Presses((q \o e)[i], k) /\ Kept(q \o e, i, k)
    BY <1>1, <1>4
  <2>2. CASE i <= Len(q)
    <3>1. i \in 0 .. Len(q) /\ i \in DOMAIN q /\ (q \o e)[i] = q[i]
      BY <1>1, <2>2
    <3>2. QED
      BY <1>2, <2>1, <3>1 DEF Sticks
  <2>3. CASE ~(i <= Len(q))
    <3>1. i - Len(q) \in 1 .. Len(e) /\ Len(q) + (i - Len(q)) = i
      BY <1>1, <2>3
    <3>2. Presses(e[i - Len(q)], k)
      BY <1>1, <2>1, <3>1
    <3>3. QED
      BY <1>1, <3>1, <3>2
  <2>4. QED
    BY <2>2, <2>3
<1>5. QED
  BY <1>3, <1>4 DEF Sticks

-----------------------------------------------------------------------------
(* Chords.                                                                 *)

\* Of finitely many chords that fire, at least one is the longest.
LEMMA SomeLongest ==
    ASSUME NEW combos, NEW f, NEW c \in Armed, Fires(c, combos[c], f)
    PROVE  /\ Longest(combos, f) # {} /\ Longest(combos, f) \subseteq Chord
           /\ IsFiniteSet(Longest(combos, f))
<1> DEFINE fired == {d \in Armed : Fires(d, combos[d], f)}
           n == Cardinality(Key)
           T == {n - Cardinality(d.keys) : d \in fired}
<1>1. Armed \subseteq Chord
  BY DEF Armed
<1>2. \A d \in fired : /\ Cardinality(d.keys) \in Nat /\ n \in Nat
                       /\ Cardinality(d.keys) <= n
  BY <1>1, ChordAssumption, FS_Subset, FS_CardinalityType
<1>3. T \subseteq Nat /\ T # {}
  BY <1>2
<1>4. PICK x \in T : \A y \in T : ~(<<y, x>> \in OpToRel(<, Nat))
  BY <1>3, WFMin, NatLessThanWellFounded
<1>5. \A y \in T : ~(y < x)
  BY <1>3, <1>4 DEF OpToRel
<1>6. PICK d \in fired : x = n - Cardinality(d.keys)
  BY <1>4
<1>7. \A b \in fired : Cardinality(b.keys) <= Cardinality(d.keys)
  <2>1. SUFFICES ASSUME NEW b \in fired
                 PROVE  Cardinality(b.keys) <= Cardinality(d.keys)
    OBVIOUS
  <2>2. n - Cardinality(b.keys) \in T
    OBVIOUS
  <2>3. ~(n - Cardinality(b.keys) < n - Cardinality(d.keys))
    BY <1>5, <1>6, <2>2
  <2>4. QED
    BY <1>2, <2>3
<1>8. d \in Longest(combos, f)
  BY <1>7 DEF Longest
<1>9. Longest(combos, f) \subseteq Chord
  BY <1>1 DEF Longest
<1>10. QED
  BY <1>8, <1>9, ChordAssumption, FS_Subset

\* What the chords of an event queue: chords only, and one if any fires.
LEMMA FiredQueued ==
    ASSUME NEW combos, NEW f, NEW fired \in SetToSeqs(Longest(combos, f)), NEW e,
           e = [i \in DOMAIN fired |-> [kind |-> "chord", action |-> fired[i].action]]
    PROVE  /\ e \in Seq(Queued)
           /\ \A i \in DOMAIN e : e[i].kind = "chord"
           /\ (\E c \in Armed : Fires(c, combos[c], f)) => \E i \in DOMAIN e : TRUE
<1> DEFINE L == Longest(combos, f)
<1>1. L \subseteq Chord /\ IsFiniteSet(L)
  BY ChordAssumption, FS_Subset DEF Longest, Armed
<1>2. Cardinality(L) \in Nat /\ fired \in [1 .. Cardinality(L) -> L]
  BY <1>1, FS_CardinalityType DEF SetToSeqs
<1>3. \A i \in 1 .. Cardinality(L) : [kind |-> "chord", action |-> fired[i].action] \in Queued
  BY <1>1, <1>2, ChordAssumption DEF Queued
<1>4. e \in [1 .. Cardinality(L) -> Queued]
  BY <1>2, <1>3
<1>5. e \in Seq(Queued)
  BY <1>2, <1>4
<1>6. \A i \in DOMAIN e : e[i].kind = "chord"
  BY <1>2
<1>7. ASSUME NEW c \in Armed, Fires(c, combos[c], f)
      PROVE  1 \in DOMAIN e
  <2>1. L # {}
    BY <1>7, SomeLongest
  <2>2. Cardinality(L) # 0
    BY <1>1, <2>1, FS_EmptySet
  <2>3. QED
    BY <1>2, <2>2
<1>8. QED
  BY <1>5, <1>6, <1>7

-----------------------------------------------------------------------------
(* The reader task.                                                        *)

\* What is left to show of a step that handles no event and no frame: the
\* reader does not let go of the grab, or the environment changes.
LEMMA NothingHandled ==
    ASSUME IInv, TypeOK', Broadcasts', HeldHere', Knows', PairsSeen',
           UNCHANGED <<down, unread, queue>>,
           \A m \in {"local", "client"} : held'[m] \subseteq held[m],
           budget'.class = budget.class,
           reader'.combos = reader.combos, reader'.alive = reader.alive,
           reader.grabbed => reader'.grabbed,
           cut => cut', late => late'
    PROVE  IInv'
<1>1. ~cut' => Waits'
  BY DEF IInv, Waits, ReleaseIn
<1>2. Armed' = Armed
  BY DEF Armed
<1>3. ASSUME ~cut', ~late', NEW k \in Key, Sticks(held', queue', k)
      PROVE  Owed(k)'
  <2>1. Sticks(held, queue, k)
    BY <1>3 DEF Sticks
  <2>2. Owed(k)
    BY <1>3, <2>1 DEF IInv, KeyOwed
  <2>3. QED
    BY <1>2, <2>2 DEF Owed, ReleaseIn
<1>4. QED
  BY <1>1, <1>3 DEF IInv, KeyOwed

\* A transition, from a reader that differs from the current one in what it
\* has seen of the broadcasts.  One that asks for the grab does not have it;
\* one that holds it gives it up for a broadcast that says so.
LEMMA TransitionKeeps ==
    ASSUME IInv, NEW r, NEW want \in BOOLEAN, Transition(r, want),
           r = reader \/ r = [reader EXCEPT !.changed = FALSE],
           reader.phase # "none",
           want => ~reader.grabbed,
           reader.grabbed => ~ClassGrabbed(state),
           UNCHANGED <<env, raw, unread, notices, watcher, loop, missed, cut>>
    PROVE  IInv'
<1> DEFINE same == UNCHANGED <<budget, down, node, raw, unread, notices, watcher,
                               queue, rot, state, held, missed, cut>>
<1>1. same
  BY DEF env, loop
<1>2. /\ r \in Reader /\ r.combos = reader.combos /\ r.alive = reader.alive
      /\ r.grabbed = reader.grabbed /\ r.phase = reader.phase
      /\ r.pending = reader.pending
  BY DEF IInv, TypeOK, Reader
<1>3. Broadcasts' /\ HeldHere'
  BY <1>1 DEF IInv, Broadcasts, HeldHere, Current
<1>4. CASE /\ want /\ budget.class = "keyboard"
           /\ reader' = [r EXCEPT !.phase = "waiting", !.pending = "none"]
           /\ uneasy' = (uneasy /\ raw # {})
           /\ UNCHANGED <<grab, late>>
  <2>1. /\ reader' \in Reader /\ reader'.phase = "waiting" /\ reader'.pending = "none"
        /\ reader'.combos = reader.combos /\ reader'.alive = reader.alive
        /\ reader'.grabbed = reader.grabbed
    BY <1>2, <1>4 DEF Reader
  <2>2. TypeOK'
    BY <1>1, <1>4, <2>1 DEF IInv, TypeOK
  <2>3. Knows'
    BY <1>1, <1>4, <2>1 DEF IInv, TypeOK, Knows
  <2>4. PairsSeen'
    BY <1>1, <1>4, <2>1 DEF IInv, PairsSeen
  <2>5. QED
    BY <1>1, <1>3, <1>4, <2>1, <2>2, <2>3, <2>4, NothingHandled
<1>5. CASE /\ want /\ budget.class # "keyboard" /\ GrabWorks
           /\ reader' = [r EXCEPT !.phase = "running", !.pending = "none", !.grabbed = TRUE]
           /\ grab' = "reader"
           /\ UNCHANGED <<late, uneasy>>
  <2>1. /\ reader' \in Reader /\ reader'.phase = "running" /\ reader'.pending = "none"
        /\ reader'.combos = reader.combos /\ reader'.alive = reader.alive
        /\ reader'.grabbed
    BY <1>2, <1>5 DEF Reader
  <2>2. TypeOK'
    BY <1>1, <1>5, <2>1 DEF IInv, TypeOK, GrabWorks
  <2>3. Knows'
    BY <1>1, <1>5, <2>1 DEF IInv, TypeOK, Knows
  <2>4. PairsSeen'
    BY <1>1, <1>5, <2>1 DEF IInv, PairsSeen
  <2>5. QED
    BY <1>1, <1>3, <1>5, <2>1, <2>2, <2>3, <2>4, NothingHandled
<1>6. CASE /\ want /\ budget.class # "keyboard" /\ ~GrabWorks
           /\ reader' = [r EXCEPT !.phase = "running", !.pending = "grab"]
           /\ UNCHANGED <<grab, late, uneasy>>
  <2>1. /\ reader' \in Reader /\ reader'.phase = "running" /\ reader'.pending = "grab"
        /\ reader'.combos = reader.combos /\ reader'.alive = reader.alive
        /\ reader'.grabbed = reader.grabbed
    BY <1>2, <1>6 DEF Reader
  <2>2. TypeOK'
    BY <1>1, <1>6, <2>1 DEF IInv, TypeOK
  <2>3. Knows'
    BY <1>1, <1>6, <2>1 DEF IInv, TypeOK, Knows
  <2>4. PairsSeen'
    BY <1>1, <1>6, <2>1 DEF IInv, PairsSeen
  <2>5. QED
    BY <1>1, <1>3, <1>6, <2>1, <2>2, <2>3, <2>4, NothingHandled
<1>7. CASE /\ ~want /\ UngrabWorks
           /\ reader' = [r EXCEPT !.phase = "running", !.pending = "none", !.grabbed = FALSE]
           /\ grab' = (IF grab = "reader" THEN "free" ELSE grab)
           /\ late' = (late \/ held["local"] # {}
                        \/ \E i \in DOMAIN queue :
                              queue[i].kind = "input" /\ queue[i].grabbed)
           /\ UNCHANGED uneasy
  <2>1. /\ reader' \in Reader /\ reader'.phase = "running" /\ reader'.pending = "none"
        /\ reader'.combos = reader.combos /\ reader'.alive = reader.alive
        /\ ~reader'.grabbed
    BY <1>2, <1>7 DEF Reader
  <2>2. TypeOK'
    BY <1>1, <1>7, <2>1 DEF IInv, TypeOK
  <2>3. Knows'
    BY <1>1, <1>7, <2>1 DEF IInv, TypeOK, Knows
  <2>4. PairsSeen'
    BY <1>1, <1>7, <2>1 DEF IInv, PairsSeen
  <2>5. ~cut' => Waits'
    BY <1>1 DEF IInv, Waits, ReleaseIn
  <2>6. ASSUME ~cut', ~late', NEW k \in Key, Sticks(held, queue, k)
        PROVE  FALSE
    <3>0. ~cut
      BY <1>1, <2>6
    <3>01. late' = (late \/ held["local"] # {}
                     \/ \E i \in DOMAIN queue :
                           queue[i].kind = "input" /\ queue[i].grabbed)
      BY <1>7
    <3>02. ~late'
      BY <2>6
    <3>1. ~late /\ ~cut /\ held["local"] = {}
          /\ ~\E i \in DOMAIN queue : queue[i].kind = "input" /\ queue[i].grabbed
      BY <3>0, <3>01, <3>02, Zenon
    <3>2. reader.grabbed
      BY <2>6, <3>1 DEF IInv, KeyOwed, Owed
    <3>3. k \in held["client"]
      BY <2>6, <3>1 DEF Sticks, Presses
    <3>4. ~rot.paused /\ rot.client
      BY <3>3 DEF IInv, HeldHere, Current
    <3>5. ClassGrabbed(state)
      BY <3>4 DEF IInv, Broadcasts, ClassGrabbed
    <3>6. QED
      BY <3>2, <3>5
  <2>7. ~cut' /\ ~late' => KeyOwed'
    BY <1>1, <2>6 DEF KeyOwed
  <2>8. QED
    BY <1>3, <2>2, <2>3, <2>4, <2>5, <2>7 DEF IInv
<1>8. CASE /\ ~want /\ ~UngrabWorks
           /\ reader' = [r EXCEPT !.phase = "running", !.pending = "ungrab"]
           /\ UNCHANGED <<grab, late, uneasy>>
  <2>1. /\ reader' \in Reader /\ reader'.phase = "running" /\ reader'.pending = "ungrab"
        /\ reader'.combos = reader.combos /\ reader'.alive = reader.alive
        /\ reader'.grabbed = reader.grabbed
    BY <1>2, <1>8 DEF Reader
  <2>2. TypeOK'
    BY <1>1, <1>8, <2>1 DEF IInv, TypeOK
  <2>3. Knows'
    BY <1>1, <1>8, <2>1 DEF IInv, TypeOK, Knows, UngrabWorks
  <2>4. PairsSeen'
    BY <1>1, <1>8, <2>1 DEF IInv, PairsSeen
  <2>5. QED
    BY <1>1, <1>3, <1>8, <2>1, <2>2, <2>3, <2>4, NothingHandled
<1>9. QED
  BY <1>4, <1>5, <1>6, <1>7, <1>8 DEF Transition

\* The reader looks at a broadcast, at its start or later, or tries again.
LEMMA StartKeeps == IInv /\ Start => IInv'
<1> SUFFICES ASSUME IInv, Start PROVE IInv'
  OBVIOUS
<1> DEFINE r == [reader EXCEPT !.changed = FALSE]
<1>1. UNCHANGED <<env, raw, unread, notices, watcher, loop, missed, cut>>
  BY DEF Start
<1>2. reader.phase = "start" /\ ~reader.grabbed
  BY DEF Start, IInv, Knows
<1>3. CASE ClassGrabbed(state) /\ Transition(r, TRUE)
  BY <1>1, <1>2, <1>3, TransitionKeeps
<1>4. CASE reader' = [r EXCEPT !.phase = "running"] /\ UNCHANGED <<grab, late, uneasy>>
  <2>1. /\ reader' \in Reader /\ reader'.phase = "running"
        /\ reader'.pending = reader.pending
        /\ reader'.combos = reader.combos /\ reader'.alive = reader.alive
        /\ reader'.grabbed = reader.grabbed
    BY <1>4 DEF IInv, TypeOK, Reader
  <2>2. UNCHANGED <<budget, down, node, raw, unread, notices, watcher,
                    queue, rot, state, held, missed, cut>>
    BY <1>1 DEF env, loop
  <2>3. TypeOK' /\ Broadcasts' /\ HeldHere'
    BY <1>4, <2>1, <2>2 DEF IInv, TypeOK, Broadcasts, HeldHere, Current
  <2>4. Knows' /\ PairsSeen'
    BY <1>2, <1>4, <2>1, <2>2 DEF IInv, TypeOK, Knows, PairsSeen
  <2>5. QED
    BY <1>4, <2>1, <2>2, <2>3, <2>4, NothingHandled
<1>5. QED
  BY <1>3, <1>4 DEF Start

LEMMA SeeStateKeeps == IInv /\ SeeState => IInv'
<1> SUFFICES ASSUME IInv, SeeState PROVE IInv'
  OBVIOUS
<1> DEFINE r == [reader EXCEPT !.changed = FALSE]
           want == ClassGrabbed(state)
<1>1. UNCHANGED <<env, raw, unread, notices, watcher, loop, missed, cut>>
  BY DEF SeeState
<1>2. reader.phase = "running" /\ want \in BOOLEAN
  BY DEF SeeState, IInv, TypeOK, Budget, ClassGrabbed
<1>3. r.grabbed = reader.grabbed /\ r.pending = reader.pending
  BY DEF IInv, TypeOK, Reader
<1>4. CASE (want # r.grabbed \/ r.pending # "none") /\ Transition(r, want)
  <2>1. reader.grabbed => reader.pending = "none"
    BY DEF IInv, Knows
  <2>2. want # reader.grabbed \/ ~reader.grabbed
    BY <1>3, <1>4, <2>1
  <2>3. reader.grabbed \in BOOLEAN
    BY DEF IInv, TypeOK, Reader
  <2>4. (want => ~reader.grabbed) /\ (reader.grabbed => ~want)
    BY <1>2, <2>2, <2>3
  <2>5. QED
    BY <1>1, <1>2, <1>4, <2>4, TransitionKeeps
<1>5. CASE reader' = r /\ UNCHANGED <<grab, late, uneasy>>
  <2>1. /\ reader' \in Reader /\ reader'.phase = "running"
        /\ reader'.pending = reader.pending
        /\ reader'.combos = reader.combos /\ reader'.alive = reader.alive
        /\ reader'.grabbed = reader.grabbed
    BY <1>2, <1>5 DEF IInv, TypeOK, Reader
  <2>2. UNCHANGED <<budget, down, node, raw, unread, notices, watcher,
                    queue, rot, state, held, missed, cut>>
    BY <1>1 DEF env, loop
  <2>3. TypeOK' /\ Broadcasts' /\ HeldHere'
    BY <1>5, <2>1, <2>2 DEF IInv, TypeOK, Broadcasts, HeldHere, Current
  <2>4. Knows' /\ PairsSeen'
    BY <1>2, <1>5, <2>1, <2>2 DEF IInv, TypeOK, Knows, PairsSeen
  <2>5. QED
    BY <1>5, <2>1, <2>2, <2>3, <2>4, NothingHandled
<1>6. QED
  BY <1>4, <1>5 DEF SeeState

LEMMA RetryKeeps == IInv /\ Retry => IInv'
<1> SUFFICES ASSUME IInv, Retry PROVE IInv'
  OBVIOUS
<1>1. UNCHANGED <<env, raw, unread, notices, watcher, loop, missed, cut>>
  BY DEF Retry
<1>2. reader.phase = "running" /\ ~reader.grabbed
  BY DEF Retry, IInv, Knows
<1>3. Transition(reader, reader.pending = "grab")
  BY DEF Retry
<1>4. (reader.pending = "grab") \in BOOLEAN
  OBVIOUS
<1>5. QED
  BY <1>1, <1>2, <1>3, <1>4, TransitionKeeps

\* The wait for a quiet keyboard, its end, and the grab.
LEMMA WaitKeeps == IInv /\ (Quiet \/ GiveUpWaiting \/ GrabKeyboard) => IInv'
<1> SUFFICES ASSUME IInv, Quiet \/ GiveUpWaiting \/ GrabKeyboard PROVE IInv'
  OBVIOUS
<1>1. UNCHANGED <<budget, down, node, raw, unread, notices, watcher,
                  queue, rot, state, held, missed, cut, late>>
  BY DEF Quiet, GiveUpWaiting, GrabKeyboard, env, device, loop, history
<1>2. Broadcasts' /\ HeldHere'
  BY <1>1 DEF IInv, Broadcasts, HeldHere, Current
<1>3. CASE Quiet
  <2>1. /\ reader' \in Reader /\ reader'.phase = "grabbing"
        /\ reader'.pending = reader.pending
        /\ reader'.combos = reader.combos /\ reader'.alive = reader.alive
        /\ reader'.grabbed = reader.grabbed
    BY <1>3 DEF IInv, TypeOK, Reader, Quiet
  <2>2. UNCHANGED <<grab, uneasy>> /\ reader.phase = "waiting"
        /\ (down = {} \/ ~reader.alive)
    BY <1>3 DEF Quiet, device, history
  <2>3. TypeOK' /\ Knows' /\ PairsSeen'
    BY <1>1, <2>1, <2>2 DEF IInv, TypeOK, Knows, PairsSeen
  <2>4. QED
    BY <1>1, <1>2, <2>1, <2>2, <2>3, NothingHandled
<1>4. CASE GiveUpWaiting
  <2>1. /\ reader' \in Reader /\ reader'.phase = "grabbing"
        /\ reader'.pending = reader.pending
        /\ reader'.combos = reader.combos /\ reader'.alive = reader.alive
        /\ reader'.grabbed = reader.grabbed
    BY <1>4 DEF IInv, TypeOK, Reader, GiveUpWaiting
  <2>2. UNCHANGED grab /\ uneasy' = TRUE /\ reader.phase = "waiting"
    BY <1>4 DEF GiveUpWaiting, device
  <2>3. TypeOK' /\ Knows' /\ PairsSeen'
    BY <1>1, <2>1, <2>2 DEF IInv, TypeOK, Knows, PairsSeen
  <2>4. QED
    BY <1>1, <1>2, <2>1, <2>2, <2>3, NothingHandled
<1>5. CASE GrabKeyboard
  <2>1. /\ reader' \in Reader /\ reader'.phase = "running"
        /\ reader'.pending = reader.pending
        /\ reader'.combos = reader.combos /\ reader'.alive = reader.alive
        /\ reader'.grabbed
    BY <1>5 DEF IInv, TypeOK, Reader, GrabKeyboard
  <2>2. /\ grab' = "reader" /\ UNCHANGED uneasy /\ reader.phase = "grabbing"
        /\ reader.alive
    BY <1>5 DEF GrabKeyboard, GrabWorks, history
  <2>3. TypeOK' /\ PairsSeen'
    BY <1>1, <2>1, <2>2 DEF IInv, TypeOK, PairsSeen
  <2>4. Knows'
    BY <1>1, <2>1, <2>2 DEF IInv, TypeOK, Knows
  <2>5. QED
    BY <1>1, <1>2, <2>1, <2>2, <2>3, <2>4, NothingHandled
<1>6. QED
  BY <1>3, <1>4, <1>5

-----------------------------------------------------------------------------
(* A frame is read.                                                        *)

\* What stays pressed after a frame was no chord's, stays owed.
LEMMA ReadOwed ==
    ASSUME IInv, ~cut, ~late, reader.phase = "running", unread # <<>>,
           NEW f, f = Head(unread), NEW batch, NEW fired, NEW e,
           batch = (IF \E c \in Armed : Consumes(c, reader.combos[c], f) THEN <<>>
                    ELSE <<[kind |-> "input", frame |-> f, grabbed |-> reader.grabbed]>>),
           fired \in SetToSeqs(Longest(reader.combos, f)),
           e = [i \in DOMAIN fired |-> [kind |-> "chord", action |-> fired[i].action]],
           batch \in Seq(Queued),
           NEW k \in Key, Sticks(held, (queue \o batch) \o e, k)
    PROVE  /\ reader.grabbed /\ reader.alive
           /\ k \in down \/ ReleaseIn(Tail(unread), 1, k)
           /\ \A c \in Armed : k \in c.keys =>
                  ~reader.combos[c].fired /\ ~Fires(c, reader.combos[c], f)
<1>1. /\ queue \in Seq(Queued) /\ unread \in Seq(Frame)
      /\ queue \o batch \in Seq(Queued)
  BY ConcatFacts DEF IInv, TypeOK
<1>2. /\ e \in Seq(Queued) /\ \A i \in DOMAIN e : e[i].kind = "chord"
      /\ (\E c \in Armed : Fires(c, reader.combos[c], f)) => \E i \in DOMAIN e : TRUE
  BY FiredQueued
<1>3. Sticks(held, queue \o batch, k) /\ \A i \in DOMAIN e : ~Lifts(e[i], k)
  <2>1. \A i \in DOMAIN e : ~Presses(e[i], k)
    BY <1>2 DEF Presses
  <2> HIDE DEF Sticks, Presses, Lifts
  <2>2. QED
    BY <1>1, <1>2, <2>1, MoreQueued
<1>4. \A c \in Armed : ~Fires(c, reader.combos[c], f)
  BY <1>2, <1>3 DEF Lifts
<1>5. /\ Len(unread) \in Nat /\ Len(unread) >= 1 /\ DOMAIN unread = 1 .. Len(unread)
      /\ f = unread[1]
      /\ DOMAIN Tail(unread) = 1 .. (Len(unread) - 1)
      /\ \A i \in 1 .. (Len(unread) - 1) : Tail(unread)[i] = unread[i + 1]
  BY <1>1, TailFacts
<1>6. ASSUME ReleaseIn(unread, 1, k), ~(f.key = k /\ f.value = 0)
      PROVE  ReleaseIn(Tail(unread), 1, k)
  <2>1. PICK j \in 1 .. Len(unread) : unread[j].key = k /\ unread[j].value = 0
    BY <1>5, <1>6 DEF ReleaseIn
  <2>2. j - 1 \in 1 .. (Len(unread) - 1) /\ (j - 1) + 1 = j
    BY <1>5, <1>6, <2>1
  <2>3. Tail(unread)[j - 1] = unread[j]
    BY <1>5, <2>2
  <2>4. j - 1 \in DOMAIN Tail(unread) /\ j - 1 >= 1
        /\ Tail(unread)[j - 1].key = k /\ Tail(unread)[j - 1].value = 0
    BY <1>5, <2>1, <2>2, <2>3
  <2>5. QED
    BY ONLY <2>4 DEF ReleaseIn
<1>7. reader.alive
  BY DEF IInv, Knows
<1>8. CASE Sticks(held, queue, k) /\ \A i \in DOMAIN batch : ~Lifts(batch[i], k)
  <2>1. Owed(k)
    BY <1>8 DEF IInv, KeyOwed
  <2>2. ~(f.key = k /\ f.value = 0)
    <3>1. SUFFICES ASSUME f.key = k, f.value = 0 PROVE FALSE
      OBVIOUS
    <3>2. ~\E c \in Armed : Consumes(c, reader.combos[c], f)
      BY <1>4, <2>1, <3>1 DEF Consumes, Owed
    <3>3. batch = <<[kind |-> "input", frame |-> f, grabbed |-> reader.grabbed]>>
      BY <3>2
    <3> DEFINE entry == [kind |-> "input", frame |-> f, grabbed |-> reader.grabbed]
    <3>6. Lifts(entry, k)
      BY <2>1, <3>1 DEF Lifts, Owed
    <3>7. batch = <<entry>>
      BY <3>3
    <3> HIDE DEF entry
    <3>8. DOMAIN batch = 1 .. 1 /\ batch[1] = entry
      BY ONLY <3>7
    <3>4. 1 \in DOMAIN batch /\ Lifts(batch[1], k)
      BY ONLY <3>6, <3>8
    <3>5. QED
      BY <1>8, <3>4
  <2>3. QED
    BY <1>4, <1>6, <2>1, <2>2 DEF Owed
<1>9. CASE \E i \in DOMAIN batch : Presses(batch[i], k)
  <2>1. /\ ~\E c \in Armed : Consumes(c, reader.combos[c], f)
        /\ batch = <<[kind |-> "input", frame |-> f, grabbed |-> reader.grabbed]>>
    BY <1>9
  <2>2. reader.grabbed /\ f.key = k /\ f.value = 1
    BY <1>9, <2>1 DEF Presses
  <2>3. 1 \in DOMAIN unread /\ unread[1].value = 1 /\ unread[1].key = k
    BY <1>5, <2>2
  <2>4. k \in down \/ ReleaseIn(unread, 1, k)
    BY <2>3 DEF IInv, Waits
  <2>5. \A c \in Armed : k \in c.keys => ~reader.combos[c].fired
    BY <2>1, <2>2 DEF Consumes
  <2>6. QED
    BY <1>4, <1>6, <1>7, <2>2, <2>4, <2>5
<1>10. QED
  BY <1>1, <1>3, <1>8, <1>9, MoreQueued

LEMMA ReadFrameKeeps == IInv /\ ReadFrame => IInv'
<1> SUFFICES ASSUME IInv, ReadFrame PROVE IInv'
  OBVIOUS
<1> DEFINE f == Head(unread)
           combos == reader.combos
           batch == IF \E c \in Armed : Consumes(c, combos[c], f) THEN <<>>
                    ELSE <<[kind |-> "input", frame |-> f, grabbed |-> reader.grabbed]>>
           new == [c \in Chord |-> ComboAfter(c, combos[c], f)]
<1>1. PICK fired \in SetToSeqs(Longest(combos, f)) :
          queue' = queue \o batch \o
              [i \in DOMAIN fired |-> [kind |-> "chord", action |-> fired[i].action]]
  BY DEF ReadFrame
<1> DEFINE e == [i \in DOMAIN fired |-> [kind |-> "chord", action |-> fired[i].action]]
<1>2. /\ reader' = [reader EXCEPT !.combos = new]
      /\ unread' = Tail(unread) /\ unread # <<>> /\ reader.phase = "running"
      /\ UNCHANGED <<budget, down, node, grab, raw, notices, watcher, rot, state, held,
                     missed, cut, late, uneasy>>
  BY DEF ReadFrame, env, history
<1>3. /\ unread \in Seq(Frame) /\ f \in Frame /\ Tail(unread) \in Seq(Frame)
      /\ queue \in Seq(Queued) /\ reader \in Reader
      /\ Len(unread) \in Nat /\ Len(unread) >= 1 /\ DOMAIN unread = 1 .. Len(unread)
      /\ DOMAIN Tail(unread) = 1 .. (Len(unread) - 1)
      /\ \A i \in 1 .. (Len(unread) - 1) : Tail(unread)[i] = unread[i + 1]
  BY <1>2, TailFacts DEF IInv, TypeOK
<1>4. batch \in Seq(Queued)
  <2>1. [kind |-> "input", frame |-> f, grabbed |-> reader.grabbed] \in Queued
    BY <1>3 DEF Queued, Reader
  <2>2. QED
    BY <2>1
<1>5. e \in Seq(Queued)
  BY <1>1, FiredQueued
<1>6. queue' \in Seq(Queued)
  BY <1>1, <1>3, <1>4, <1>5, ConcatFacts
<1>7. new \in [Chord -> [pressed : SUBSET Key, fired : BOOLEAN]]
  <2>1. ASSUME NEW c \in Chord
        PROVE  ComboAfter(c, combos[c], f) \in [pressed : SUBSET Key, fired : BOOLEAN]
    <3>1. combos[c].pressed \subseteq Key /\ combos[c].fired \in BOOLEAN /\ f.key \in Key
      BY <1>3 DEF Reader, Frame
    <3>2. PressedAfter(c, combos[c], f) \subseteq Key
      BY <3>1 DEF PressedAfter
    <3>3. Fires(c, combos[c], f) \in BOOLEAN
      BY <3>1 DEF Fires
    <3>4. (Fires(c, combos[c], f)
             \/ (combos[c].fired
                 /\ (f.key \in c.keys => PressedAfter(c, combos[c], f) # {}))) \in BOOLEAN
      OBVIOUS
    <3>5. QED
      BY <3>2, <3>4 DEF ComboAfter
  <2>2. QED
    BY <2>1
<1>8. /\ reader' \in Reader /\ reader'.phase = reader.phase /\ reader'.alive = reader.alive
      /\ reader'.grabbed = reader.grabbed /\ reader'.pending = reader.pending
      /\ reader'.combos = new
  BY <1>2, <1>3, <1>7 DEF Reader
<1>9. TypeOK'
  BY <1>2, <1>3, <1>6, <1>8 DEF IInv, TypeOK
<1>10. Broadcasts' /\ HeldHere'
  BY <1>2 DEF IInv, Broadcasts, HeldHere, Current
<1>11. Knows' /\ PairsSeen'
  BY <1>2, <1>8 DEF IInv, Knows, PairsSeen
<1>12. ~cut' => Waits'
  <2>1. SUFFICES ASSUME ~cut, NEW i \in 1 .. (Len(unread) - 1),
                        Tail(unread)[i].value = 1
                 PROVE  \/ Tail(unread)[i].key \in down
                        \/ ReleaseIn(Tail(unread), i, Tail(unread)[i].key)
    BY <1>2, <1>3 DEF Waits
  <2>2. i + 1 \in DOMAIN unread /\ Tail(unread)[i] = unread[i + 1]
    BY <1>3
  <2>3. unread[i + 1].key \in down \/ ReleaseIn(unread, i + 1, unread[i + 1].key)
    BY <2>1, <2>2 DEF IInv, Waits
  <2>4. ASSUME ReleaseIn(unread, i + 1, unread[i + 1].key)
        PROVE  ReleaseIn(Tail(unread), i, unread[i + 1].key)
    <3>1. PICK j \in 1 .. Len(unread) :
              j >= i + 1 /\ unread[j].key = unread[i + 1].key /\ unread[j].value = 0
      BY <1>3, <2>4 DEF ReleaseIn
    <3>2. j - 1 \in 1 .. (Len(unread) - 1) /\ j - 1 >= i /\ (j - 1) + 1 = j
      BY <1>3, <3>1
    <3>3. Tail(unread)[j - 1] = unread[j]
      BY <1>3, <3>2
    <3>4. QED
      BY <1>3, <3>1, <3>2, <3>3 DEF ReleaseIn
  <2>5. QED
    BY <2>2, <2>3, <2>4
<1>13. ASSUME ~cut', ~late', NEW k \in Key, Sticks(held', queue', k)
       PROVE  Owed(k)'
  <2>1. ~cut /\ ~late /\ Sticks(held, (queue \o batch) \o e, k)
    BY <1>1, <1>2, <1>13
  <2>2. /\ reader.grabbed /\ reader.alive
        /\ k \in down \/ ReleaseIn(Tail(unread), 1, k)
        /\ \A c \in Armed : k \in c.keys => ~combos[c].fired /\ ~Fires(c, combos[c], f)
    <3> DEFINE b == batch
               g == f
               x == e
    <3>1. /\ b = (IF \E c \in Armed : Consumes(c, reader.combos[c], g) THEN <<>>
                  ELSE <<[kind |-> "input", frame |-> g, grabbed |-> reader.grabbed]>>)
          /\ g = Head(unread) /\ fired \in SetToSeqs(Longest(reader.combos, g))
          /\ x = [i \in DOMAIN fired |-> [kind |-> "chord", action |-> fired[i].action]]
          /\ b \in Seq(Queued) /\ Sticks(held, (queue \o b) \o x, k)
      BY <1>1, <1>4, <2>1
    <3>2. b = b /\ g = f /\ x = x
      OBVIOUS
    <3> HIDE DEF b, g, x
    <3>3. /\ reader.grabbed /\ reader.alive
          /\ k \in down \/ ReleaseIn(Tail(unread), 1, k)
          /\ \A c \in Armed : k \in c.keys =>
                 ~reader.combos[c].fired /\ ~Fires(c, reader.combos[c], g)
      BY <1>2, <2>1, <3>1, ReadOwed
    <3>4. QED
      BY <3>2, <3>3
  <2>3. Armed' = Armed /\ Armed \subseteq Chord
    BY <1>2 DEF Armed
  <2>4. \A c \in Armed : k \in c.keys => ~new[c].fired
    BY <2>2, <2>3 DEF ComboAfter
  <2>5. QED
    BY <1>2, <1>8, <2>2, <2>3, <2>4 DEF Owed
<1>14. QED
  BY <1>9, <1>10, <1>11, <1>12, <1>13 DEF IInv, KeyOwed

-----------------------------------------------------------------------------
(* Readers come and go.                                                    *)

LEMMA FreshTyped ==
    /\ NoReader \in Reader /\ NewReader \in Reader
    /\ ~NoReader.grabbed /\ ~NewReader.grabbed
    /\ NoReader.pending = "none" /\ NewReader.pending = "none"
    /\ NoReader.phase = "none" /\ ~NoReader.alive /\ NewReader.phase = "start"
<1>1. NoReader \in Reader
  BY DEF NoReader, Reader, Fresh
<1>2. ~NoReader.grabbed /\ NoReader.pending = "none" /\ NoReader.phase = "none"
      /\ ~NoReader.alive
  BY DEF NoReader
<1>3. NewReader = [NoReader EXCEPT !.phase = "start", !.alive = TRUE]
  BY DEF NewReader
<1>4. NewReader \in Reader /\ NewReader.grabbed = NoReader.grabbed
      /\ NewReader.pending = NoReader.pending /\ NewReader.phase = "start"
  BY <1>1, <1>3 DEF Reader
<1>5. QED
  BY <1>1, <1>2, <1>4

LEMMA NewKeeps ==
    ASSUME IInv, EndReader, reader' \in {NoReader, NewReader},
           UNCHANGED <<budget, down, node, raw, queue, rot, state, held, late, uneasy>>,
           notices' \in Seq({"created", "deleted"}),
           watcher' \in {"scan", "idle", "opening"}, missed' \in BOOLEAN
    PROVE  IInv'
<1>1. /\ reader' \in Reader /\ ~reader'.grabbed /\ reader'.pending = "none"
      /\ reader'.phase \in {"none", "start"}
      /\ reader'.phase = "none" => ~reader'.alive
  BY FreshTyped
<1>2. /\ grab' = IF grab = "reader" THEN "other" ELSE grab
      /\ unread' = <<>>
      /\ cut' = (cut \/ (reader.phase # "none" /\ (unread # <<>> \/ down # {})))
  BY DEF EndReader
<1>3. cut' \in BOOLEAN
  BY <1>2
<1>4. TypeOK'
  BY <1>1, <1>2, <1>3 DEF IInv, TypeOK
<1>5. Broadcasts' /\ HeldHere'
  BY DEF IInv, Broadcasts, HeldHere, Current
<1>6. Knows' /\ PairsSeen'
  BY <1>1, <1>2 DEF IInv, TypeOK, Knows, PairsSeen
<1>7. Waits'
  BY <1>2 DEF Waits
<1>8. ASSUME ~cut', ~late', NEW k \in Key, Sticks(held, queue, k)
      PROVE  FALSE
  <2>1. ~(cut \/ (reader.phase # "none" /\ (unread # <<>> \/ down # {})))
    BY <1>2, <1>8, Zenon
  <2>2. ~cut /\ ~late /\ (reader.phase # "none" => unread = <<>> /\ down = {})
    BY <1>8, <2>1
  <2>3. Owed(k)
    BY <1>8, <2>2 DEF IInv, KeyOwed
  <2>4. reader.phase # "none"
    BY <2>3 DEF IInv, Knows, Owed
  <2>5. QED
    BY <2>2, <2>3, <2>4 DEF Owed, ReleaseIn
<1>9. QED
  BY <1>4, <1>5, <1>6, <1>7, <1>8 DEF IInv, KeyOwed

\* A step that leaves the reader, the device and the loop alone.
LEMMA ElsewhereKeeps ==
    ASSUME IInv, UNCHANGED <<down, node, grab, raw, unread, reader, queue, rot, state, held,
                             cut, late, uneasy>>,
           budget' \in Budget, budget'.class = budget.class,
           notices' \in Seq({"created", "deleted"}),
           watcher' \in {"scan", "idle", "opening"}, missed' \in BOOLEAN
    PROVE  IInv'
<1>1. TypeOK' /\ Broadcasts' /\ HeldHere'
  BY DEF IInv, TypeOK, Broadcasts, HeldHere, Current
<1>2. Knows' /\ PairsSeen'
  BY DEF IInv, Knows, PairsSeen
<1>3. QED
  BY <1>1, <1>2, NothingHandled

LEMMA NoticesTyped ==
    ASSUME IInv
    PROVE  /\ notices # <<>> => Tail(notices) \in Seq({"created", "deleted"})
           /\ notices \in Seq({"created", "deleted"}) /\ missed \in BOOLEAN
           /\ watcher \in {"scan", "idle", "opening"} /\ budget \in Budget
  BY TailFacts DEF IInv, TypeOK

LEMMA WatcherKeeps == IInv /\ WatcherSteps => IInv'
<1> SUFFICES ASSUME IInv, WatcherSteps PROVE IInv'
  OBVIOUS
<1>1. UNCHANGED <<budget, down, node, raw, queue, rot, state, held, late, uneasy>>
  BY DEF WatcherSteps, Scan, Created, Opened, NotOpened, Deleted, env, device, loop
<1>2. /\ notices' \in Seq({"created", "deleted"})
      /\ watcher' \in {"scan", "idle", "opening"} /\ missed' \in BOOLEAN
  BY NoticesTyped DEF WatcherSteps, Scan, Created, Opened, NotOpened, Deleted
<1>3. \/ EndReader /\ reader' \in {NoReader, NewReader}
      \/ UNCHANGED <<reader, grab, unread, cut>>
  BY DEF WatcherSteps, Scan, Created, Opened, NotOpened, Deleted, Add, device
<1>4. CASE EndReader /\ reader' \in {NoReader, NewReader}
  BY <1>1, <1>2, <1>4, NewKeeps
<1>5. CASE UNCHANGED <<reader, grab, unread, cut>>
  BY <1>1, <1>2, <1>5, ElsewhereKeeps, NoticesTyped
<1>6. QED
  BY <1>3, <1>4, <1>5

\* The task of a node that is gone returns.
LEMMA ReadErrorKeeps == IInv /\ ReadError => IInv'
<1> SUFFICES ASSUME IInv, ReadError PROVE IInv'
  OBVIOUS
<1>1. /\ ~reader.alive /\ reader' = NoReader
      /\ UNCHANGED <<budget, down, node, grab, raw, unread, notices, watcher,
                     queue, rot, state, held, missed, cut, late, uneasy>>
  BY DEF ReadError, env, device, loop, history
<1>2. /\ reader' \in Reader /\ ~reader'.grabbed /\ reader'.pending = "none"
      /\ reader'.phase = "none" /\ ~reader'.alive
  BY <1>1, FreshTyped
<1>3. TypeOK'
  BY <1>1, <1>2 DEF IInv, TypeOK
<1>4. Broadcasts' /\ HeldHere'
  BY <1>1 DEF IInv, Broadcasts, HeldHere, Current
<1>5. Knows' /\ PairsSeen'
  BY <1>1, <1>2 DEF IInv, Knows, PairsSeen
<1>6. ~cut' => Waits'
  BY <1>1 DEF IInv, Waits, ReleaseIn
<1>7. ~cut' /\ ~late' => KeyOwed'
  BY <1>1 DEF IInv, KeyOwed, Owed
<1>8. QED
  BY <1>3, <1>4, <1>5, <1>6, <1>7 DEF IInv

-----------------------------------------------------------------------------
(* The rotation loop.                                                      *)

\* The next event is handled: a key that is held then was held before and is
\* not lifted by the event, or is pressed by it.
LEMMA HandlerKeeps ==
    ASSUME IInv, queue # <<>>, queue' = Tail(queue),
           UNCHANGED <<env, device, notices, watcher, history>>,
           rot' \in [paused : BOOLEAN, client : BOOLEAN, connected : BOOLEAN],
           held' \in [{"local", "client"} -> SUBSET Key],
           Broadcasts', HeldHere',
           UNCHANGED reader \/ reader' = [reader EXCEPT !.changed = reader.phase # "none"],
           \A m \in {"local", "client"} : \A k \in held'[m] :
               \/ k \in held[m] /\ ~Lifts(Head(queue), k)
               \/ Presses(Head(queue), k)
    PROVE  IInv'
<1>1. UNCHANGED <<budget, down, node, grab, raw, unread, notices, watcher,
                  missed, cut, late, uneasy>>
  BY DEF env, device, history
<1>2. queue \in Seq(Queued) /\ queue' \in Seq(Queued)
  BY TailFacts DEF IInv, TypeOK
<1>3. /\ reader' \in Reader /\ reader'.phase = reader.phase /\ reader'.alive = reader.alive
      /\ reader'.grabbed = reader.grabbed /\ reader'.pending = reader.pending
      /\ reader'.combos = reader.combos
  BY DEF IInv, TypeOK, Reader
<1>4. state' \in [paused : BOOLEAN, client : BOOLEAN]
  BY DEF Broadcasts
<1>5. TypeOK'
  BY <1>1, <1>2, <1>3, <1>4 DEF IInv, TypeOK
<1>6. Knows' /\ PairsSeen'
  BY <1>1, <1>3 DEF IInv, Knows, PairsSeen
<1>7. ~cut' => Waits'
  BY <1>1 DEF IInv, Waits, ReleaseIn
<1>8. ASSUME ~cut', ~late', NEW k \in Key, Sticks(held', queue', k)
      PROVE  Owed(k)'
  <2>1. Sticks(held, queue, k)
    BY <1>2, <1>8, HeadHandled
  <2>2. Owed(k)
    BY <1>1, <1>8, <2>1 DEF IInv, KeyOwed
  <2>3. QED
    BY <1>1, <1>3, <2>2 DEF Owed, ReleaseIn, Armed
<1>9. QED
  BY <1>5, <1>6, <1>7, <1>8 DEF IInv, KeyOwed

LEMMA HandleInputKeeps == IInv /\ HandleInput => IInv'
<1> SUFFICES ASSUME IInv, HandleInput PROVE IInv'
  OBVIOUS
<1> DEFINE e == Head(queue)
<1>1. /\ queue # <<>> /\ e.kind = "input" /\ queue' = Tail(queue)
      /\ UNCHANGED <<env, device, notices, watcher, reader, rot, state, history>>
  BY DEF HandleInput
<1>2. e \in Queued
  BY <1>1, TailFacts DEF IInv, TypeOK
<1>3. e.frame \in Frame /\ e.grabbed \in BOOLEAN
  BY <1>1, <1>2 DEF Queued
<1>4. /\ held \in [{"local", "client"} -> SUBSET Key] /\ Current \in {"local", "client"}
      /\ Current' = Current
  BY <1>1 DEF IInv, TypeOK, Current
<1>5. Broadcasts'
  BY <1>1 DEF IInv, Broadcasts
<1>6. CASE (rot.paused \/ ~e.grabbed) /\ held' = held
  <2>1. HeldHere'
    BY <1>1, <1>4, <1>6 DEF IInv, HeldHere
  <2>2. ASSUME NEW m \in {"local", "client"}, NEW k \in held[m]
        PROVE  ~Lifts(e, k)
    <3>1. ~rot.paused
      BY <2>2 DEF IInv, HeldHere
    <3>2. QED
      BY <1>1, <1>6, <3>1 DEF Lifts
  <2>3. rot' \in [paused : BOOLEAN, client : BOOLEAN, connected : BOOLEAN]
    BY <1>1 DEF IInv, TypeOK
  <2>4. QED
    BY <1>1, <1>4, <1>5, <1>6, <2>1, <2>2, <2>3, HandlerKeeps
<1>7. CASE /\ ~rot.paused /\ e.grabbed
           /\ held' = [held EXCEPT ![Current] = Apply(@, e.frame)]
  <2>1. held' = [held EXCEPT ![Current] = Apply(held[Current], e.frame)]
    BY <1>7
  <2>2. Apply(held[Current], e.frame) \subseteq Key
    BY <1>3, <1>4 DEF Apply, Frame
  <2>3. held' \in [{"local", "client"} -> SUBSET Key]
    BY <1>4, <2>1, <2>2
  <2>4. HeldHere'
    BY <1>1, <1>4, <1>7, <2>1 DEF IInv, HeldHere
  <2>5. ASSUME NEW m \in {"local", "client"}, NEW k \in held'[m]
        PROVE  (k \in held[m] /\ ~Lifts(e, k)) \/ Presses(e, k)
    <3>1. m = Current
      BY <1>1, <1>4, <2>4, <2>5 DEF HeldHere
    <3>2. k \in Apply(held[m], e.frame)
      BY <1>4, <2>1, <2>5, <3>1
    <3>3. QED
      BY <1>1, <1>3, <1>7, <3>2 DEF Apply, Lifts, Presses, Frame
  <2>6. rot' \in [paused : BOOLEAN, client : BOOLEAN, connected : BOOLEAN]
    BY <1>1 DEF IInv, TypeOK
  <2>7. QED
    BY <1>1, <1>5, <2>3, <2>4, <2>5, <2>6, HandlerKeeps
<1>8. QED
  BY <1>6, <1>7 DEF HandleInput

\* Every chord, and every command that is heeded, leaves no key held.
LEMMA ClearKeeps ==
    ASSUME IInv, queue # <<>>, queue' = Tail(queue),
           UNCHANGED <<env, device, notices, watcher, history>>,
           NEW r, r \in [paused : BOOLEAN, client : BOOLEAN, connected : BOOLEAN],
           Broadcast(r) \/ (r = rot /\ UNCHANGED <<rot, state, reader>>),
           held' = IF rot.paused THEN held ELSE [held EXCEPT ![Current] = {}]
    PROVE  IInv'
<1>1. /\ held \in [{"local", "client"} -> SUBSET Key] /\ Current \in {"local", "client"}
  BY DEF IInv, TypeOK, Current
<1>2. \A m \in {"local", "client"} : held'[m] = {}
  BY <1>1 DEF IInv, HeldHere
<1>3. held' \in [{"local", "client"} -> SUBSET Key]
  BY <1>1
<1>4. HeldHere'
  BY <1>2 DEF HeldHere
<1>5. Broadcasts' /\ rot' = r
  BY DEF IInv, Broadcasts, Broadcast
<1>6. UNCHANGED reader \/ reader' = [reader EXCEPT !.changed = reader.phase # "none"]
  BY DEF Broadcast
<1>7. QED
  BY <1>2, <1>3, <1>4, <1>5, <1>6, HandlerKeeps

LEMMA HandleSwitchKeeps == IInv /\ HandleSwitch => IInv'
<1> SUFFICES ASSUME IInv, HandleSwitch PROVE IInv'
  OBVIOUS
<1>1. /\ queue # <<>> /\ queue' = Tail(queue)
      /\ UNCHANGED <<env, device, notices, watcher, history>>
  BY DEF HandleSwitch
<1>2. rot \in [paused : BOOLEAN, client : BOOLEAN, connected : BOOLEAN]
  BY DEF IInv, TypeOK
<1>3. CASE /\ ~rot.paused /\ held' = [held EXCEPT ![Current] = {}]
           /\ Broadcast([rot EXCEPT !.client = ~rot.client])
  <2>1. [rot EXCEPT !.client = ~rot.client]
            \in [paused : BOOLEAN, client : BOOLEAN, connected : BOOLEAN]
    BY <1>2
  <2>2. QED
    BY <1>1, <1>3, <2>1, ClearKeeps
<1>4. CASE ~rot.paused /\ held' = [held EXCEPT ![Current] = {}] /\ UNCHANGED <<rot, state, reader>>
  BY <1>1, <1>2, <1>4, ClearKeeps
<1>5. CASE rot.paused /\ UNCHANGED <<held, rot, state, reader>>
  BY <1>1, <1>2, <1>5, ClearKeeps
<1>6. QED
  BY <1>3, <1>4, <1>5 DEF HandleSwitch

LEMMA HandlePauseKeeps == IInv /\ HandlePause => IInv'
<1> SUFFICES ASSUME IInv, HandlePause PROVE IInv'
  OBVIOUS
<1> DEFINE e == Head(queue)
           toggles == \/ e = [kind |-> "chord", action |-> "pause"]
                      \/ e.kind = "set" /\ e.paused # rot.paused
<1>1. /\ queue # <<>> /\ queue' = Tail(queue)
      /\ UNCHANGED <<env, device, notices, watcher, history>>
      /\ e.kind = "set" \/ toggles
  BY DEF HandlePause
<1>2. rot \in [paused : BOOLEAN, client : BOOLEAN, connected : BOOLEAN]
  BY DEF IInv, TypeOK
<1>3. CASE /\ toggles
           /\ held' = (IF rot.paused THEN held ELSE [held EXCEPT ![Current] = {}])
           /\ Broadcast([rot EXCEPT !.paused = ~rot.paused])
  <2>1. [rot EXCEPT !.paused = ~rot.paused]
            \in [paused : BOOLEAN, client : BOOLEAN, connected : BOOLEAN]
    BY <1>2
  <2>2. QED
    BY <1>1, <1>3, <2>1, ClearKeeps
<1>4. CASE ~toggles /\ UNCHANGED <<held, rot, state, reader>>
  <2>1. e.kind = "set"
    BY <1>1, <1>4
  <2>2. Broadcasts' /\ HeldHere'
    BY <1>4 DEF IInv, Broadcasts, HeldHere, Current
  <2>3. \A k : ~Lifts(e, k)
    BY <2>1 DEF Lifts
  <2>4. held' \in [{"local", "client"} -> SUBSET Key]
    BY <1>4 DEF IInv, TypeOK
  <2>5. QED
    BY <1>1, <1>2, <1>4, <2>2, <2>3, <2>4, HandlerKeeps
<1>5. QED
  BY <1>3, <1>4 DEF HandlePause

\* Something of what the environment may do has been done.
LEMMA SpentTyped ==
    ASSUME NEW b \in Budget
    PROVE  /\ b.peers > 0 => [b EXCEPT !.peers = b.peers - 1] \in Budget
           /\ b.commands > 0 => [b EXCEPT !.commands = b.commands - 1] \in Budget
           /\ b.plugs > 0 => [b EXCEPT !.plugs = b.plugs - 1] \in Budget
           /\ b.thieves > 0 => [b EXCEPT !.thieves = b.thieves - 1] \in Budget
<1>1. /\ b.class \in Class /\ b.repeats \in BOOLEAN
      /\ b.peers \in Nat /\ b.commands \in Nat /\ b.plugs \in Nat /\ b.thieves \in Nat
  BY DEF Budget
<1>2. \A n \in Nat : n > 0 => n - 1 \in Nat
  OBVIOUS
<1>3. \A n \in Nat : [b EXCEPT !.peers = n] \in Budget
  BY DEF Budget
<1>4. \A n \in Nat : [b EXCEPT !.commands = n] \in Budget
  BY DEF Budget
<1>5. \A n \in Nat : [b EXCEPT !.plugs = n] \in Budget
  BY DEF Budget
<1>6. \A n \in Nat : [b EXCEPT !.thieves = n] \in Budget
  BY DEF Budget
<1>7. QED
  BY <1>1, <1>2, <1>3, <1>4, <1>5, <1>6

LEMMA PeerChangesKeeps == IInv /\ PeerChanges => IInv'
<1> SUFFICES ASSUME IInv, PeerChanges PROVE IInv'
  OBVIOUS
<1>1. /\ budget' = [budget EXCEPT !.peers = budget.peers - 1] /\ budget.peers > 0
      /\ UNCHANGED <<down, node, grab, raw, unread, notices, watcher, queue,
                     missed, cut, late, uneasy>>
  BY DEF PeerChanges, device, history
<1>2. budget' \in Budget /\ budget'.class = budget.class
  <2>1. budget \in Budget
    BY DEF IInv, TypeOK
  <2>2. QED
    BY <1>1, <2>1, SpentTyped DEF Budget
<1>3. /\ rot \in [paused : BOOLEAN, client : BOOLEAN, connected : BOOLEAN]
      /\ held \in [{"local", "client"} -> SUBSET Key]
  BY DEF IInv, TypeOK
<1>4. CASE /\ rot.client /\ held' = [held EXCEPT !["client"] = {}]
           /\ Broadcast([rot EXCEPT !.client = FALSE, !.connected = FALSE])
  <2>1. \A m \in {"local", "client"} : held'[m] = {}
    BY <1>3, <1>4 DEF IInv, HeldHere, Current
  <2>2. held' \in [{"local", "client"} -> SUBSET Key] /\ HeldHere'
        /\ \A m \in {"local", "client"} : held'[m] \subseteq held[m]
    BY <1>3, <1>4, <2>1 DEF HeldHere
  <2>3. /\ rot' = [rot EXCEPT !.client = FALSE, !.connected = FALSE]
        /\ state' = [client |-> rot'.client, paused |-> rot'.paused]
        /\ reader' = [reader EXCEPT !.changed = reader.phase # "none"]
    BY <1>4 DEF Broadcast
  <2>4. Broadcasts' /\ state' \in [paused : BOOLEAN, client : BOOLEAN]
        /\ rot' \in [paused : BOOLEAN, client : BOOLEAN, connected : BOOLEAN]
    BY <1>3, <2>3 DEF Broadcasts
  <2>5. /\ reader' \in Reader /\ reader'.phase = reader.phase /\ reader'.alive = reader.alive
        /\ reader'.grabbed = reader.grabbed /\ reader'.pending = reader.pending
        /\ reader'.combos = reader.combos
    BY <2>3 DEF IInv, TypeOK, Reader
  <2>6. TypeOK'
    BY <1>1, <1>2, <2>2, <2>4, <2>5 DEF IInv, TypeOK
  <2>7. Knows' /\ PairsSeen'
    BY <1>1, <1>2, <2>5 DEF IInv, Knows, PairsSeen
  <2>8. QED
    BY <1>1, <1>2, <2>2, <2>4, <2>5, <2>6, <2>7, NothingHandled
<1>5. CASE /\ ~rot.client /\ rot' = [rot EXCEPT !.connected = ~rot.connected]
           /\ UNCHANGED <<held, state, reader>>
  <2>1. /\ rot' \in [paused : BOOLEAN, client : BOOLEAN, connected : BOOLEAN]
        /\ rot'.paused = rot.paused /\ rot'.client = rot.client
    BY <1>3, <1>5
  <2>2. Broadcasts' /\ HeldHere'
    BY <1>5, <2>1 DEF IInv, Broadcasts, HeldHere, Current
  <2>3. TypeOK'
    BY <1>1, <1>2, <1>5, <2>1 DEF IInv, TypeOK
  <2>4. Knows' /\ PairsSeen'
    BY <1>1, <1>2, <1>5 DEF IInv, Knows, PairsSeen
  <2>5. QED
    BY <1>1, <1>2, <1>5, <2>2, <2>3, <2>4, NothingHandled
<1>6. QED
  BY <1>4, <1>5 DEF PeerChanges

LEMMA CommandKeeps == IInv /\ Command => IInv'
<1> SUFFICES ASSUME IInv, Command PROVE IInv'
  OBVIOUS
<1>1. /\ budget' = [budget EXCEPT !.commands = budget.commands - 1] /\ budget.commands > 0
      /\ UNCHANGED <<down, node, grab, raw, unread, notices, watcher, reader, rot, state,
                     held, missed, cut, late, uneasy>>
  BY DEF Command, device, history
<1>2. PICK e \in [kind : {"set"}, paused : BOOLEAN]
                     \union {[kind |-> "chord", action |-> "switch"]} :
          queue' = Append(queue, e)
  BY DEF Command
<1>3. budget' \in Budget /\ budget'.class = budget.class
  <2>1. budget \in Budget
    BY DEF IInv, TypeOK
  <2>2. QED
    BY <1>1, <2>1, SpentTyped DEF Budget
<1>4. e \in Queued /\ e.kind # "input"
  BY DEF Queued, Action
<1>5. <<e>> \in Seq(Queued) /\ queue \in Seq(Queued)
  BY <1>4 DEF IInv, TypeOK
<1>6. queue' = queue \o <<e>> /\ DOMAIN <<e>> = 1 .. 1 /\ <<e>>[1] = e
  BY <1>2, <1>5
<1>7. queue' \in Seq(Queued)
  BY <1>5, <1>6, ConcatFacts
<1>8. TypeOK' /\ Broadcasts' /\ HeldHere'
  BY <1>1, <1>3, <1>7 DEF IInv, TypeOK, Broadcasts, HeldHere, Current
<1>9. Knows' /\ PairsSeen'
  BY <1>1, <1>3 DEF IInv, Knows, PairsSeen
<1>10. ~cut' => Waits'
  BY <1>1 DEF IInv, Waits, ReleaseIn
<1>11. ASSUME ~cut', ~late', NEW k \in Key, Sticks(held', queue', k)
       PROVE  Owed(k)'
  <2>1. ~\E i \in DOMAIN <<e>> : Presses(<<e>>[i], k)
    BY <1>4, <1>6 DEF Presses
  <2>2. Sticks(held, queue \o <<e>>, k)
    BY <1>1, <1>6, <1>11
  <2>3. Sticks(held, queue, k)
    BY <1>5, <2>1, <2>2, MoreQueued
  <2>4. Owed(k)
    BY <1>1, <1>11, <2>3 DEF IInv, KeyOwed
  <2>5. QED
    BY <1>1, <1>3, <2>4 DEF Owed, ReleaseIn, Armed
<1>12. QED
  BY <1>8, <1>9, <1>10, <1>11 DEF IInv, KeyOwed

-----------------------------------------------------------------------------
(* The user and the kernel.                                                *)

\* A release that the reader of an open node gets, or that it need not get:
\* what was due to be released still is.
LEMMA StillDue ==
    ASSUME IInv, NEW f \in Frame, down' = Apply(down, f), Deliver(f),
           cut' = (cut \/ (grab = "other" /\ f.value = 0
                           /\ \E i \in DOMAIN unread : unread[i].key = f.key)),
           ~cut', NEW k \in Key, NEW i \in Nat, i <= Len(unread),
           \/ i \in DOMAIN unread /\ unread[i].key = k
           \/ reader.grabbed /\ reader.alive,
           k \in down \/ ReleaseIn(unread, i, k)
    PROVE  k \in down' \/ ReleaseIn(unread', i, k)
<1>1. unread \in Seq(Frame) /\ <<f>> \in Seq(Frame)
  BY DEF IInv, TypeOK
<1>2. /\ Append(unread, f) = unread \o <<f>> /\ DOMAIN <<f>> = 1 .. 1 /\ <<f>>[1] = f
      /\ Len(<<f>>) = 1
  BY <1>1
<1>3. /\ Len(unread) \in Nat /\ DOMAIN unread = 1 .. Len(unread)
      /\ DOMAIN (unread \o <<f>>) = 1 .. (Len(unread) + 1)
      /\ \A j \in 1 .. Len(unread) : (unread \o <<f>>)[j] = unread[j]
      /\ (unread \o <<f>>)[Len(unread) + 1] = f
  BY <1>1, <1>2, ConcatFacts
<1>4. unread' = unread \/ unread' = unread \o <<f>>
  BY <1>2 DEF Deliver
<1>5. ASSUME ReleaseIn(unread, i, k)
      PROVE  ReleaseIn(unread', i, k)
  <2>1. PICK j \in 1 .. Len(unread) : j >= i /\ unread[j].key = k /\ unread[j].value = 0
    BY <1>3, <1>5 DEF ReleaseIn
  <2>2. j \in DOMAIN unread' /\ unread'[j] = unread[j]
    BY <1>3, <1>4
  <2>3. QED
    BY <2>1, <2>2 DEF ReleaseIn
<1>6. ASSUME k \in down, k \notin down'
      PROVE  ReleaseIn(unread', i, k)
  <2>1. f.key = k /\ f.value = 0
    BY <1>6 DEF Apply, Frame
  <2>2. ~(grab = "other" /\ \E j \in DOMAIN unread : unread[j].key = f.key)
    BY <2>1
  <2>3. CASE reader.alive
    <3>1. grab # "other"
      <4>1. CASE i \in DOMAIN unread /\ unread[i].key = k
        BY <2>1, <2>2, <4>1
      <4>2. CASE reader.grabbed
        BY <2>3, <4>2 DEF IInv, Knows
      <4>3. QED
        BY <4>1, <4>2
    <3>2. unread' = unread \o <<f>>
      BY <1>2, <2>3, <3>1 DEF IInv, TypeOK, Deliver
    <3>3. Len(unread) + 1 \in DOMAIN unread' /\ Len(unread) + 1 >= i
          /\ unread'[Len(unread) + 1] = f
      BY <1>3, <3>2
    <3>4. QED
      BY <2>1, <3>3 DEF ReleaseIn
  <2>4. CASE ~reader.alive
    <3>1. unread = <<>> /\ i \in DOMAIN unread
      BY <2>4 DEF IInv, Knows
    <3>2. QED
      BY <3>1
  <2>5. QED
    BY <2>3, <2>4
<1>7. QED
  BY <1>5, <1>6

LEMMA TypeKeeps == IInv /\ Type => IInv'
<1> SUFFICES ASSUME IInv, Type PROVE IInv'
  OBVIOUS
<1>1. /\ UNCHANGED <<budget, node, grab, notices, watcher, reader, queue, rot, state, held,
                     missed, late>>
      /\ uneasy' = (uneasy \/ reader.phase = "grabbing")
  BY DEF Type, loop
<1>2. PICK f \in Frame :
          /\ (f.value = 1) = (f.key \notin down)
          /\ down' = Apply(down, f) /\ Deliver(f)
          /\ cut' = (cut \/ (grab = "other" /\ f.value = 0
                             /\ \E i \in DOMAIN unread : unread[i].key = f.key))
  BY DEF Type
<1>3. unread \in Seq(Frame) /\ down \subseteq Key /\ raw \subseteq Key /\ f.key \in Key
      /\ f.value \in 0 .. 2
  BY DEF IInv, TypeOK, Frame
<1>4. \A keys \in SUBSET Key : Apply(keys, f) \subseteq Key
  BY <1>3 DEF Apply
<1>5. unread' \in Seq(Frame) /\ (~reader.alive => unread' = unread)
  BY <1>2, <1>3 DEF Deliver
<1>6. /\ raw' = IF grab = "free" THEN Apply(raw, f) ELSE raw
      /\ cut' \in BOOLEAN /\ uneasy' \in BOOLEAN
  BY <1>1, <1>2 DEF Deliver
<1>7. TypeOK'
  BY <1>1, <1>2, <1>3, <1>4, <1>5, <1>6 DEF IInv, TypeOK
<1>8. Broadcasts' /\ HeldHere'
  BY <1>1 DEF IInv, Broadcasts, HeldHere, Current
<1>9. Knows'
  BY <1>1, <1>5 DEF IInv, Knows
<1>10. PairsSeen'
  <2>1. SUFFICES ASSUME budget.class = "keyboard", ~uneasy'
                 PROVE  /\ raw' \subseteq down'
                        /\ grab # "free" => raw' = {}
                        /\ ~(reader.phase = "grabbing")
    BY <1>1 DEF PairsSeen
  <2>2. ~uneasy /\ reader.phase # "grabbing"
    BY <1>1, <2>1, Zenon
  <2>3. raw \subseteq down /\ (grab # "free" => raw = {})
    BY <2>1, <2>2 DEF IInv, PairsSeen
  <2>4. Apply(raw, f) \subseteq Apply(down, f)
    BY <2>3 DEF Apply
  <2>5. QED
    BY <1>2, <1>6, <2>2, <2>3, <2>4
<1>11. Len(unread) \in Nat /\ DOMAIN unread = 1 .. Len(unread)
  BY <1>3, LenProperties
<1>12. ~cut' => ~cut
  BY <1>2
<1>13. ~cut' => Waits'
  <2>1. SUFFICES ASSUME ~cut', NEW i \in DOMAIN unread', unread'[i].value = 1
                 PROVE  unread'[i].key \in down' \/ ReleaseIn(unread', i, unread'[i].key)
    BY DEF Waits
  <2>2. CASE i \in DOMAIN unread
    <3>1. /\ i \in Nat /\ i <= Len(unread)
      BY <1>11, <2>2
    <3>2. unread'[i] = unread[i] /\ unread[i] \in Frame
      BY <1>2, <1>3, <1>11, <2>2, ElementOfSeq DEF Deliver
    <3>3. unread[i].key \in Key
      BY <3>2 DEF Frame
    <3>4. unread[i].key \in down \/ ReleaseIn(unread, i, unread[i].key)
      BY <1>12, <2>1, <2>2, <3>2 DEF IInv, Waits
    <3> DEFINE k == unread[i].key
    <3>5. k \in Key /\ unread[i].key = k /\ (k \in down \/ ReleaseIn(unread, i, k))
      BY <3>3, <3>4
    <3> HIDE DEF k
    <3>6. k \in down' \/ ReleaseIn(unread', i, k)
      BY <1>2, <2>1, <2>2, <3>1, <3>5, StillDue
    <3>7. QED
      BY <3>2, <3>5, <3>6
  <2>3. CASE i \notin DOMAIN unread
    <3>1. unread' = Append(unread, f)
      BY <1>2, <2>1, <2>3 DEF Deliver
    <3>2. /\ <<f>> \in Seq(Frame) /\ Append(unread, f) = unread \o <<f>>
          /\ Len(<<f>>) = 1 /\ <<f>>[1] = f
      BY <1>3
    <3>3. /\ DOMAIN (unread \o <<f>>) = 1 .. (Len(unread) + 1)
          /\ (unread \o <<f>>)[Len(unread) + 1] = f
      BY <1>3, <3>2, ConcatFacts
    <3>4. unread' = unread \o <<f>>
      BY ONLY <3>1, <3>2
    <3>5. i \in 1 .. (Len(unread) + 1) /\ i \notin 1 .. Len(unread)
      BY <1>11, <2>1, <2>3, <3>3, <3>4
    <3>6. i = Len(unread) + 1
      BY ONLY <1>11, <3>5
    <3>7. unread'[i] = f
      BY ONLY <3>3, <3>4, <3>6
    <3>8. f.key \in down'
      BY <1>2, <2>1, <3>7 DEF Apply
    <3>9. QED
      BY <3>7, <3>8
  <2>4. QED
    BY <2>2, <2>3
<1>14. ASSUME ~cut', ~late', NEW k \in Key, Sticks(held', queue', k)
       PROVE  Owed(k)'
  <2>1. Owed(k)
    BY <1>1, <1>12, <1>14 DEF IInv, KeyOwed
  <2>2. /\ 0 \in Nat /\ 1 \in Nat /\ 0 <= Len(unread)
        /\ k \in down \/ ReleaseIn(unread, 0, k)
    BY <1>11, <2>1 DEF Owed, ReleaseIn
  <2>3. reader.grabbed /\ reader.alive
    BY <2>1 DEF Owed
  <2>4. k \in down' \/ ReleaseIn(unread', 0, k)
    BY <1>2, <1>14, <2>2, <2>3, StillDue
  <2>5. DOMAIN unread' = 1 .. Len(unread')
    BY <1>5, LenProperties
  <2>6. k \in down' \/ ReleaseIn(unread', 1, k)
    BY <2>4, <2>5 DEF ReleaseIn
  <2>7. QED
    BY <1>1, <2>1, <2>6 DEF Owed, Armed
<1>15. QED
  BY <1>7, <1>8, <1>9, <1>10, <1>13, <1>14 DEF IInv, KeyOwed

LEMMA NotifyTyped ==
    ASSUME IInv, NEW event \in {"created", "deleted"}, Notify(event)
    PROVE  notices' \in Seq({"created", "deleted"}) /\ missed' \in BOOLEAN
<1>1. notices \in Seq({"created", "deleted"}) /\ missed \in BOOLEAN
  BY NoticesTyped
<1>2. Append(notices, event) \in Seq({"created", "deleted"})
  BY <1>1
<1>3. (missed \/ event = "created") \in BOOLEAN
  OBVIOUS
<1>4. QED
  BY <1>1, <1>2, <1>3 DEF Notify

LEMMA UnplugKeeps == IInv /\ Unplug => IInv'
<1> SUFFICES ASSUME IInv, Unplug PROVE IInv'
  OBVIOUS
<1>1. /\ node' = "absent" /\ down' = {} /\ raw' = {} /\ unread' = <<>> /\ grab' = "free"
      /\ reader' = [reader EXCEPT !.alive = FALSE]
      /\ cut' = (cut \/ down # {} \/ unread # <<>>)
      /\ UNCHANGED <<budget, watcher, queue, rot, state, held, late, uneasy>>
  BY DEF Unplug, loop
<1>2. notices' \in Seq({"created", "deleted"}) /\ missed' \in BOOLEAN
  BY NotifyTyped DEF Unplug
<1>3. cut' \in BOOLEAN
  BY <1>1
<1>4. /\ reader' \in Reader /\ reader'.phase = reader.phase /\ ~reader'.alive
      /\ reader'.grabbed = reader.grabbed /\ reader'.pending = reader.pending
  BY <1>1 DEF IInv, TypeOK, Reader
<1>5. TypeOK'
  BY <1>1, <1>2, <1>3, <1>4 DEF IInv, TypeOK
<1>6. Broadcasts' /\ HeldHere'
  BY <1>1 DEF IInv, Broadcasts, HeldHere, Current
<1>7. Knows' /\ PairsSeen'
  BY <1>1, <1>4 DEF IInv, Knows, PairsSeen
<1>8. Waits'
  BY <1>1 DEF Waits
<1>9. ASSUME ~cut', ~late', NEW k \in Key, Sticks(held, queue, k)
      PROVE  FALSE
  <2>1. ~(cut \/ down # {} \/ unread # <<>>)
    BY <1>1, <1>9, Zenon
  <2>2. Owed(k)
    BY <1>1, <1>9, <2>1 DEF IInv, KeyOwed
  <2>3. QED
    BY <2>1, <2>2 DEF Owed, ReleaseIn
<1>10. QED
  BY <1>1, <1>5, <1>6, <1>7, <1>8, <1>9 DEF IInv, KeyOwed

\* The node comes back, its permissions follow; others take and leave the grab.
LEMMA NodeKeeps == IInv /\ (Plug \/ Udev \/ Steal \/ LetGo) => IInv'
<1> SUFFICES ASSUME IInv, Plug \/ Udev \/ Steal \/ LetGo PROVE IInv'
  OBVIOUS
<1>1. UNCHANGED <<down, raw, unread, watcher, reader, queue, rot, state, held,
                  cut, late, uneasy>>
  BY DEF Plug, Udev, Steal, LetGo, env, device, loop, history
<1>2. notices' \in Seq({"created", "deleted"}) /\ missed' \in BOOLEAN
  BY NotifyTyped, NoticesTyped DEF Plug, Udev, Steal, LetGo, history
<1>3. budget' \in Budget /\ budget'.class = budget.class
  <2>1. budget \in Budget
    BY DEF IInv, TypeOK
  <2>2. \/ UNCHANGED budget
        \/ budget.plugs > 0 /\ budget' = [budget EXCEPT !.plugs = budget.plugs - 1]
        \/ budget.thieves > 0 /\ budget' = [budget EXCEPT !.thieves = budget.thieves - 1]
    BY DEF Plug, Udev, Steal, LetGo, env
  <2>3. QED
    BY <2>1, <2>2, SpentTyped DEF Budget
<1>4. /\ node' \in {"absent", "locked", "open"}
      /\ \/ UNCHANGED grab
         \/ grab = "free" /\ raw = {} /\ grab' = "other"
         \/ grab = "other" /\ grab' = "free"
  BY DEF Plug, Udev, Steal, LetGo, env, device, IInv, TypeOK
<1>5. TypeOK' /\ Broadcasts' /\ HeldHere'
  BY <1>1, <1>2, <1>3, <1>4 DEF IInv, TypeOK, Broadcasts, HeldHere, Current
<1>6. Knows' /\ PairsSeen'
  BY <1>1, <1>3, <1>4 DEF IInv, Knows, PairsSeen
<1>7. QED
  BY <1>1, <1>3, <1>5, <1>6, NothingHandled

-----------------------------------------------------------------------------
(* The theorems.                                                           *)

LEMMA InitIInv == Init => IInv
<1> SUFFICES ASSUME Init PROVE IInv
  OBVIOUS
<1>1. /\ budget \in Scenario /\ node \in {"absent", "locked", "open"} /\ down \subseteq Key
      /\ raw = down /\ grab = "free" /\ unread = <<>> /\ notices = <<>>
      /\ watcher = "scan" /\ reader = NoReader /\ queue = <<>>
      /\ rot = [paused |-> FALSE, client |-> FALSE, connected |-> FALSE]
      /\ state = [paused |-> FALSE, client |-> FALSE]
      /\ held = [m \in {"local", "client"} |-> {}]
      /\ missed = FALSE /\ cut = FALSE /\ late = FALSE /\ uneasy = FALSE
  BY DEF Init
<1>2. TypeOK
  BY <1>1, FreshTyped, ScenarioAssumption, EmptySeq DEF TypeOK
<1>3. Broadcasts /\ HeldHere /\ Knows /\ PairsSeen
  BY <1>1, FreshTyped DEF Broadcasts, HeldHere, Knows, PairsSeen
<1>4. Waits /\ KeyOwed
  BY <1>1 DEF Waits, KeyOwed, Sticks
<1>5. QED
  BY <1>2, <1>3, <1>4 DEF IInv

LEMMA NextIInv == IInv /\ [Next]_vars => IInv'
<1> SUFFICES ASSUME IInv, [Next]_vars PROVE IInv'
  OBVIOUS
<1>1. CASE ReaderSteps
  BY <1>1, StartKeeps, WaitKeeps, SeeStateKeeps, RetryKeeps, ReadFrameKeeps,
     ReadErrorKeeps DEF ReaderSteps
<1>2. CASE WatcherSteps
  BY <1>2, WatcherKeeps
<1>3. CASE LoopSteps
  BY <1>3, HandleInputKeeps, HandleSwitchKeeps, HandlePauseKeeps DEF LoopSteps
<1>4. CASE EnvSteps
  BY <1>4, PeerChangesKeeps, CommandKeeps, TypeKeeps, UnplugKeeps, NodeKeeps DEF EnvSteps
<1>5. CASE UNCHANGED vars
  <2>1. UNCHANGED <<budget, down, node, grab, raw, unread, notices, watcher, reader,
                    queue, rot, state, held, missed, cut, late, uneasy>>
    BY <1>5 DEF vars, env, device, loop, history
  <2>2. QED
    BY <2>1, ElsewhereKeeps, NoticesTyped
<1>6. QED
  BY <1>1, <1>2, <1>3, <1>4, <1>5 DEF Next

\* What the reader, the loop and the machines know of a held key at every
\* moment: input.rs, shortcut.rs and rotation.rs between them lose none.
THEOREM Invariance == Spec => []IInv
  BY InitIInv, NextIInv, PTL DEF Spec

\* A keyboard is grabbed only once the compositor has seen every key it knows
\* of come up (grab_keyboard_when_quiescent), whatever failed and was retried.
THEOREM GrabbedClean == Spec => []InputInv
<1>1. IInv => InputInv
  BY DEF IInv, InputInv, TypeOK, PairsSeen, CompositorSeesPairs
<1>2. QED
  BY <1>1, Invariance, PTL

\* A key that was let go of is up on every virtual keyboard once the queues
\* are empty: chords, switches, pauses and hotplug leave none behind.
THEOREM AllKeysUp == Spec => []KeysComeUp
<1>1. IInv => KeysComeUp
  <2>1. SUFFICES ASSUME IInv, down = {}, unread = <<>>, queue = <<>>, ~cut, ~late,
                        NEW m \in DOMAIN held, NEW k \in held[m]
                 PROVE  FALSE
    BY DEF KeysComeUp
  <2>2. m \in {"local", "client"} /\ k \in Key
    BY <2>1 DEF IInv, TypeOK
  <2>3. Sticks(held, queue, k)
    BY <2>1, <2>2 DEF Sticks, Kept
  <2>4. Owed(k)
    BY <2>1, <2>2, <2>3 DEF IInv, KeyOwed
  <2>5. QED
    BY <2>1, <2>4 DEF Owed, ReleaseIn
<1>2. QED
  BY <1>1, Invariance, PTL

-----------------------------------------------------------------------------
(* The virtual devices: the loops over a batch are recursive functions.    *)

\* The loops over a batch: Kernel and Tracking are what their steps say.
LEMMA KernelSteps ==
    ASSUME NEW o, NEW d, NEW events, NEW part, Len(events) \in Nat
    PROVE  Kernel(o, d, events, part) =
               [i \in 0 .. Len(events) |->
                   IF i = 0 THEN o
                   ELSE IF i \in part THEN Put(Kernel(o, d, events, part)[i - 1], d, events[i])
                                      ELSE Kernel(o, d, events, part)[i - 1]]
<1> DEFINE Step(f, i) == IF i = 0 THEN o
                         ELSE IF i \in part THEN Put(f[i - 1], d, events[i]) ELSE f[i - 1]
           Upto(n) == \E f : f = [i \in 0 .. n |-> Step(f, i)]
           T == {n \in Nat : ~Upto(n)}
<1>1. T = {}
  <2>1. SUFFICES ASSUME T # {} PROVE FALSE
    OBVIOUS
  <2>2. PICK n \in T : \A m \in T : ~(<<m, n>> \in OpToRel(<, Nat))
    <3>1. T \subseteq Nat
      OBVIOUS
    <3> QED BY <2>1, <3>1, WFMin, NatLessThanWellFounded, Zenon
  <2>3. n \in Nat /\ ~Upto(n)
    OBVIOUS
  <2>4. \A m \in Nat : m < n => Upto(m)
    BY <2>2, <2>3 DEF OpToRel
  <2>5. CASE n = 0
    <3>1. [i \in {0} |-> o] = [i \in 0 .. 0 |-> Step([j \in {0} |-> o], i)]
      BY 0 .. 0 = {0} DEF Step
    <3> QED BY <2>3, <2>5, <3>1
  <2>6. CASE n # 0
    <3>1. n - 1 \in Nat /\ n - 1 < n
      BY <2>3, <2>6
    <3>2. PICK f : f = [i \in 0 .. n - 1 |-> Step(f, i)]
      BY <2>4, <3>1
    <3> DEFINE g == [i \in 0 .. n |-> IF i = n THEN Step(f, n) ELSE f[i]]
    <3>3. ASSUME NEW i \in 0 .. n PROVE g[i] = Step(g, i)
      <4>1. CASE i = 0
        BY <2>3, <2>6, <3>2, <4>1 DEF Step
      <4>2. CASE i # 0
        <5>1. i - 1 \in 0 .. n - 1 /\ i - 1 \in 0 .. n /\ i - 1 # n
          BY <2>3, <4>2
        <5>2. g[i - 1] = f[i - 1]
          BY <5>1
        <5>3. Step(g, i) = Step(f, i)
          BY <4>2, <5>2 DEF Step
        <5>4. CASE i = n
          BY <5>3, <5>4
        <5>5. CASE i # n
          <6>1. i \in 0 .. n - 1
            BY <2>3, <5>5
          <6> QED BY <3>2, <5>3, <5>5, <6>1
        <5> QED BY <5>4, <5>5
      <4> QED BY <4>1, <4>2
    <3>4. g = [i \in 0 .. n |-> Step(g, i)]
      BY <3>3
    <3> QED BY <2>3, <3>4
  <2> QED BY <2>5, <2>6
<1>2. \E f : f = [i \in 0 .. Len(events) |-> Step(f, i)]
  BY <1>1
<1>3. Kernel(o, d, events, part) = CHOOSE f : f = [i \in 0 .. Len(events) |-> Step(f, i)]
  BY DEF Kernel, Step
<1> HIDE DEF Step
<1>4. Kernel(o, d, events, part) = [i \in 0 .. Len(events) |-> Step(Kernel(o, d, events, part), i)]
  BY <1>2, <1>3
<1> QED BY <1>4 DEF Step

LEMMA TrackingSteps ==
    ASSUME NEW o, NEW events, Len(events) \in Nat
    PROVE  Tracking(o, events) =
               [i \in 0 .. Len(events) |->
                   IF i = 0 THEN [out |-> o, sent |-> {}, removed |-> {}]
                   ELSE Note(Tracking(o, events)[i - 1], events, i)]
<1> DEFINE Step(f, i) == IF i = 0 THEN [out |-> o, sent |-> {}, removed |-> {}]
                         ELSE Note(f[i - 1], events, i)
           Upto(n) == \E f : f = [i \in 0 .. n |-> Step(f, i)]
           T == {n \in Nat : ~Upto(n)}
<1>1. T = {}
  <2>1. SUFFICES ASSUME T # {} PROVE FALSE
    OBVIOUS
  <2>2. PICK n \in T : \A m \in T : ~(<<m, n>> \in OpToRel(<, Nat))
    <3>1. T \subseteq Nat
      OBVIOUS
    <3> QED BY <2>1, <3>1, WFMin, NatLessThanWellFounded, Zenon
  <2>3. n \in Nat /\ ~Upto(n)
    OBVIOUS
  <2>4. \A m \in Nat : m < n => Upto(m)
    BY <2>2, <2>3 DEF OpToRel
  <2>5. CASE n = 0
    <3>1. [i \in {0} |-> Step(<<>>, 0)] = [i \in 0 .. 0 |-> Step([j \in {0} |-> Step(<<>>, 0)], i)]
      BY 0 .. 0 = {0} DEF Step
    <3> QED BY <2>3, <2>5, <3>1
  <2>6. CASE n # 0
    <3>1. n - 1 \in Nat /\ n - 1 < n
      BY <2>3, <2>6
    <3>2. PICK f : f = [i \in 0 .. n - 1 |-> Step(f, i)]
      BY <2>4, <3>1
    <3> DEFINE g == [i \in 0 .. n |-> IF i = n THEN Step(f, n) ELSE f[i]]
    <3>3. ASSUME NEW i \in 0 .. n PROVE g[i] = Step(g, i)
      <4>1. CASE i = 0
        BY <2>3, <2>6, <3>2, <4>1 DEF Step
      <4>2. CASE i # 0
        <5>1. i - 1 \in 0 .. n - 1 /\ i - 1 \in 0 .. n /\ i - 1 # n
          BY <2>3, <4>2
        <5>2. g[i - 1] = f[i - 1]
          BY <5>1
        <5>3. Step(g, i) = Step(f, i)
          BY <4>2, <5>2 DEF Step
        <5>4. CASE i = n
          BY <5>3, <5>4
        <5>5. CASE i # n
          <6>1. i \in 0 .. n - 1
            BY <2>3, <5>5
          <6> QED BY <3>2, <5>3, <5>5, <6>1
        <5> QED BY <5>4, <5>5
      <4> QED BY <4>1, <4>2
    <3>4. g = [i \in 0 .. n |-> Step(g, i)]
      BY <3>3
    <3> QED BY <2>3, <3>4
  <2> QED BY <2>5, <2>6
<1>2. \E f : f = [i \in 0 .. Len(events) |-> Step(f, i)]
  BY <1>1
<1>3. Tracking(o, events) = CHOOSE f : f = [i \in 0 .. Len(events) |-> Step(f, i)]
  BY DEF Tracking, Step
<1> HIDE DEF Step
<1>4. Tracking(o, events) = [i \in 0 .. Len(events) |-> Step(Tracking(o, events), i)]
  BY <1>2, <1>3
<1> QED BY <1>4 DEF Step

\* What holds before a batch and is kept by every event of it holds after
\* each of them.
LEMMA AlongBatch ==
    ASSUME NEW n \in Nat, NEW S, 0 \in S, \A i \in 1 .. n : i - 1 \in S => i \in S
    PROVE  \A i \in 0 .. n : i \in S
<1> DEFINE T == {i \in 0 .. n : i \notin S}
<1>1. SUFFICES ASSUME T # {} PROVE FALSE
  OBVIOUS
<1>2. PICK i \in T : \A m \in T : ~(<<m, i>> \in OpToRel(<, Nat))
  <2>1. T \subseteq Nat
    OBVIOUS
  <2> QED BY <1>1, <2>1, WFMin, NatLessThanWellFounded, Zenon
<1>3. i \in 1 .. n
  OBVIOUS
<1>4. i - 1 \notin T
  <2>1. i - 1 \in Nat /\ i \in Nat /\ i - 1 < i
    BY <1>3
  <2>2. <<i - 1, i>> \in OpToRel(<, Nat)
    BY <2>1 DEF OpToRel
  <2> QED BY <1>2, <2>2, Zenon
<1> QED BY <1>3, <1>4

-----------------------------------------------------------------------------
(* One event.                                                              *)

\* What one event does to the device it is written to, and leaves alone.
LEMMA PutFields ==
    ASSUME NEW o \in Output, NEW d \in Device, NEW e \in Event
    PROVE  /\ Put(o, d, e) \in Output
           /\ Put(o, d, e).pressed = o.pressed /\ Put(o, d, e).recent = o.recent
           /\ \A x \in Device : x # d => Put(o, d, e).down[x] = o.down[x]
           /\ \A c \in Button :
                 c \in Put(o, d, e).down[d] <=>
                     IF e.code = c /\ e.value # 2 THEN e.value = 1 ELSE c \in o.down[d]
           /\ Put(o, d, e).stray =>
                 \/ o.stray
                 \/ e.value = 2 /\ Homes(e.code) = {d} /\ e.code \notin o.down[d]
<1> DEFINE r == Put(o, d, e)
<1>1. e.code \in Code /\ e.value \in 0 .. 2 /\ (e.value = 2 => e.code \in Button)
      /\ (e.code \notin Button => e.value = 1)
  BY CodeAssumption DEF Event
<1>2. CASE e.code \notin Button
  <2>1. r = o
    BY <1>2 DEF Put
  <2> QED BY <1>1, <1>2, <2>1
<1>3. CASE e.code \in Button /\ e.value = 0
  <2>1. r = [o EXCEPT !.down[d] = @ \ {e.code}]
    BY <1>3 DEF Put
  <2> QED BY <1>3, <2>1 DEF Output
<1>4. CASE e.code \in Button /\ e.value = 1
  <2>1. r = [o EXCEPT !.down[d] = @ \union {e.code}]
    BY <1>4 DEF Put
  <2> QED BY <1>4, <2>1 DEF Output
<1>5. CASE e.code \in Button /\ e.value = 2
  <2>1. r = [o EXCEPT !.stray = @ \/ (Homes(e.code) = {d} /\ e.code \notin o.down[d])]
    BY <1>5 DEF Put
  <2> DEFINE b == Homes(e.code) = {d} /\ e.code \notin o.down[d]
  <2>2. r = [o EXCEPT !.stray = (o.stray \/ b)]
    BY <2>1 DEF Output
  <2>3. (o.stray \/ b) \in BOOLEAN
    BY DEF Output
  <2> HIDE DEF b
  <2>4. /\ r \in Output /\ r.pressed = o.pressed /\ r.recent = o.recent /\ r.down = o.down
        /\ r.stray = (o.stray \/ b)
    BY <2>2, <2>3 DEF Output
  <2> HIDE DEF r
  <2>5. r.stray => o.stray \/ b
    BY <2>4, Zenon
  <2> QED BY <1>5, <2>4, <2>5 DEF b, r
<1> QED BY <1>1, <1>2, <1>3, <1>4, <1>5

\* What one event does to the set of pressed keys.
LEMMA TrackFields ==
    ASSUME NEW o \in Output, NEW e \in Event
    PROVE  /\ Track(o, e) \in Output
           /\ Track(o, e).down = o.down /\ Track(o, e).stray = o.stray
           /\ \A c \in Button :
                 c \in Track(o, e).pressed <=>
                     IF e.code = c /\ e.value # 2 THEN e.value = 1 ELSE c \in o.pressed
<1> DEFINE r == Track(o, e)
<1>1. e.code \in Code /\ e.value \in 0 .. 2 /\ (e.value = 2 => e.code \in Button)
      /\ (e.code \notin Button => e.value = 1)
  BY CodeAssumption DEF Event
<1>2. CASE e.code \notin Button
  <2>1. r = o
    BY <1>2 DEF Track
  <2> QED BY <1>1, <1>2, <2>1
<1>3. CASE e.code \in Button /\ e.value = 0
  <2>1. r = [o EXCEPT !.pressed = @ \ {e.code}]
    BY <1>3 DEF Track
  <2> QED BY <1>3, <2>1 DEF Output
<1>4. CASE e.code \in Button /\ e.value = 1
  <2>1. r = [o EXCEPT !.pressed = @ \union {e.code}]
    BY <1>4 DEF Track
  <2> QED BY <1>4, <2>1 DEF Output
<1>5. CASE e.code \in Button /\ e.value = 2
  <2>1. r = IF Deliverable(o, e) THEN [o EXCEPT !.recent = @ \union {e.code}] ELSE o
    BY <1>5 DEF Track
  <2> QED BY <1>5, <2>1 DEF Output
<1> QED BY <1>1, <1>2, <1>3, <1>4, <1>5

-----------------------------------------------------------------------------
(* A batch.                                                                *)

LEMMA BatchEvents ==
    ASSUME NEW events \in Seq(Event)
    PROVE  Len(events) \in Nat /\ \A i \in 1 .. Len(events) : events[i] \in Event
  BY ElementOfSeq, LenProperties

\* The device after each event of a batch: what it is made from, and what
\* none of them touches.
LEMMA KernelFields ==
    ASSUME NEW o \in Output, NEW d \in Device, NEW events \in Seq(Event), NEW part
    PROVE  /\ Kernel(o, d, events, part)[0] = o
           /\ \A i \in 1 .. Len(events) :
                 Kernel(o, d, events, part)[i] =
                     IF i \in part THEN Put(Kernel(o, d, events, part)[i - 1], d, events[i])
                                   ELSE Kernel(o, d, events, part)[i - 1]
           /\ \A i \in 0 .. Len(events) :
                 /\ Kernel(o, d, events, part)[i] \in Output
                 /\ Kernel(o, d, events, part)[i].pressed = o.pressed
                 /\ Kernel(o, d, events, part)[i].recent = o.recent
                 /\ \A x \in Device : x # d => Kernel(o, d, events, part)[i].down[x] = o.down[x]
<1> DEFINE k == Kernel(o, d, events, part)
           n == Len(events)
           Fields(x) == /\ x \in Output
                        /\ x.pressed = o.pressed /\ x.recent = o.recent
                        /\ \A y \in Device : y # d => x.down[y] = o.down[y]
           S == {i \in Nat : Fields(k[i])}
<1>1. n \in Nat /\ \A i \in 1 .. n : events[i] \in Event
  BY BatchEvents
<1>2. k[0] = o
  BY <1>1, KernelSteps
<1>3. \A i \in 1 .. n : k[i] = IF i \in part THEN Put(k[i - 1], d, events[i]) ELSE k[i - 1]
  BY <1>1, KernelSteps
<1> HIDE DEF k
<1>4. 0 \in S
  BY <1>2
<1>5. \A i \in 1 .. n : i - 1 \in S => i \in S
  <2>1. SUFFICES ASSUME NEW i \in 1 .. n, Fields(k[i - 1]) PROVE Fields(k[i])
    OBVIOUS
  <2>2. PICK x : x = k[i - 1]
    OBVIOUS
  <2>3. CASE i \in part
    <3>1. k[i] = Put(x, d, events[i]) /\ events[i] \in Event /\ Fields(x)
      BY <1>1, <1>3, <2>1, <2>2, <2>3
    <3> QED BY <3>1, PutFields
  <2>4. CASE i \notin part
    BY <1>3, <2>1, <2>4
  <2> QED BY <2>3, <2>4
<1>6. \A i \in 0 .. n : i \in S
  <2> HIDE DEF S
  <2> QED BY <1>1, <1>4, <1>5, AlongBatch
<1> QED BY <1>2, <1>3, <1>6 DEF k

\* The bookkeeping after each event; sent are the deliverable ones so far.
LEMMA TrackingFields ==
    ASSUME NEW o \in Output, NEW events \in Seq(Event)
    PROVE  /\ Tracking(o, events)[0].out = o /\ Tracking(o, events)[0].removed = {}
           /\ \A i \in 1 .. Len(events) :
                 Tracking(o, events)[i] = Note(Tracking(o, events)[i - 1], events, i)
           /\ \A i \in 0 .. Len(events) :
                 /\ Tracking(o, events)[i].out \in Output
                 /\ Tracking(o, events)[i].out.down = o.down
                 /\ Tracking(o, events)[i].out.stray = o.stray
                 /\ Tracking(o, events)[i].removed \subseteq Button
                 /\ Tracking(o, events)[i].sent =
                       {j \in 1 .. i : Deliverable(Tracking(o, events)[j - 1].out, events[j])}
<1> DEFINE t == Tracking(o, events)
           n == Len(events)
           Fields(x) == /\ x.out \in Output
                        /\ x.out.down = o.down /\ x.out.stray = o.stray
                        /\ x.removed \subseteq Button
           Sent(i) == {j \in 1 .. i : Deliverable(t[j - 1].out, events[j])}
           S == {i \in Nat : Fields(t[i]) /\ t[i].sent = Sent(i)}
<1>1. n \in Nat /\ \A i \in 1 .. n : events[i] \in Event
  BY BatchEvents
<1> DEFINE start == [out |-> o, sent |-> {}, removed |-> {}]
<1> HIDE DEF start
<1>2. t = [i \in 0 .. n |-> IF i = 0 THEN start ELSE Note(t[i - 1], events, i)]
  BY <1>1, TrackingSteps DEF start
<1>3. \A i \in 1 .. n : t[i] = Note(t[i - 1], events, i)
  BY <1>1, <1>2
<1>7. t[0] = start
  BY <1>1, <1>2
<1> HIDE DEF t
<1>4. 0 \in S
  BY <1>7 DEF start
<1>5. \A i \in 1 .. n : i - 1 \in S => i \in S
  <2>1. SUFFICES ASSUME NEW i \in 1 .. n, Fields(t[i - 1]), t[i - 1].sent = Sent(i - 1)
                 PROVE  Fields(t[i]) /\ t[i].sent = Sent(i)
    OBVIOUS
  <2>2. PICK x : x = t[i - 1]
    OBVIOUS
  <2>3. PICK e \in Event : e = events[i]
    BY <1>1
  <2>9. PICK z : z = t[i]
    OBVIOUS
  <2>4. /\ t[i].out = Track(x.out, e)
        /\ t[i].sent = x.sent \union (IF Deliverable(x.out, e) THEN {i} ELSE {})
        /\ t[i].removed = IF e.value = 0 THEN x.removed \union ({e.code} \intersect x.out.pressed)
                                         ELSE x.removed
    <3>1. z = Note(x, events, i)
      BY <1>3, <2>2, <2>9
    <3>2. /\ z.out = Track(x.out, events[i])
          /\ z.sent = x.sent \union (IF Deliverable(x.out, events[i]) THEN {i} ELSE {})
          /\ z.removed = IF events[i].value = 0
                            THEN x.removed \union ({events[i].code} \intersect x.out.pressed)
                            ELSE x.removed
      BY <3>1 DEF Note
    <3> QED BY <2>3, <2>9, <3>2, Zenon
  <2>5. Fields(x)
    BY <2>1, <2>2
  <2>6. Fields(t[i])
    <3>1. x.out.pressed \subseteq Button
      BY <2>5 DEF Output
    <3> QED BY <2>4, <2>5, <3>1, TrackFields
  <2>7. Sent(i) = Sent(i - 1) \union (IF Deliverable(t[i - 1].out, events[i]) THEN {i} ELSE {})
    <3>1. 1 .. i = (1 .. i - 1) \union {i}
      OBVIOUS
    <3> QED BY <3>1, Zenon
  <2>8. t[i].sent = Sent(i)
    <3> HIDE DEF Sent
    <3> QED BY <2>1, <2>2, <2>3, <2>4, <2>7
  <2> QED BY <2>6, <2>8
<1>6. \A i \in 0 .. n : i \in S
  <2> HIDE DEF S
  <2> QED BY <1>1, <1>4, <1>5, AlongBatch
<1>8. t[0].out = o /\ t[0].removed = {}
  BY <1>7 DEF start
<1> QED BY <1>3, <1>6, <1>8 DEF t

LEMMA KernelStart ==
    ASSUME NEW o \in Output, NEW d \in Device, NEW events \in Seq(Event), NEW part
    PROVE  Kernel(o, d, events, part)[0] = o
  BY KernelFields

LEMMA TrackingStart ==
    ASSUME NEW o \in Output, NEW events \in Seq(Event)
    PROVE  Tracking(o, events)[0].out = o /\ Tracking(o, events)[0].removed = {}
  BY TrackingFields

-----------------------------------------------------------------------------
(* The set of pressed keys and a device, event by event.                   *)

\* What of a batch is about key c and is no repeat: a repeat changes neither
\* the set nor a device.
Moves(events, c) == {i \in 1 .. Len(events) : events[i].code = c /\ events[i].value # 2}

\* Each event of a batch decides for its own key only, the last one wins:
\* on the device,
LEMMA KernelMoves ==
    ASSUME NEW w \in Output, NEW d \in Device, NEW events \in Seq(Event), NEW part,
           NEW c \in Button, NEW i \in 1 .. Len(events)
    PROVE  c \in Kernel(w, d, events, part)[i].down[d] <=>
               IF i \in part /\ i \in Moves(events, c) THEN events[i].value = 1
               ELSE c \in Kernel(w, d, events, part)[i - 1].down[d]
<1> DEFINE k == Kernel(w, d, events, part)
<1>1. i - 1 \in 0 .. Len(events) /\ Len(events) \in Nat
  BY LenProperties
<1>2. PICK e \in Event : e = events[i]
  BY BatchEvents
<1>3. PICK x \in Output : x = k[i - 1]
  BY <1>1, KernelFields
<1>4. k[i] = IF i \in part THEN Put(x, d, e) ELSE x
  BY <1>2, <1>3, KernelFields
<1> HIDE DEF k
<1>5. c \in Put(x, d, e).down[d] <=>
         IF e.code = c /\ e.value # 2 THEN e.value = 1 ELSE c \in x.down[d]
  BY PutFields
<1>6. i \in Moves(events, c) <=> e.code = c /\ e.value # 2
  BY <1>2 DEF Moves
<1>7. c \in k[i].down[d] <=>
         IF i \in part /\ i \in Moves(events, c) THEN e.value = 1 ELSE c \in k[i - 1].down[d]
  BY <1>3, <1>4, <1>5, <1>6
<1> QED BY <1>2, <1>7 DEF k

\* and in the set of pressed keys, with what was taken out of it.
LEMMA TrackingMoves ==
    ASSUME NEW o \in Output, NEW events \in Seq(Event),
           NEW c \in Button, NEW i \in 1 .. Len(events)
    PROVE  /\ c \in Tracking(o, events)[i].out.pressed <=>
                 IF i \in Moves(events, c) THEN events[i].value = 1
                 ELSE c \in Tracking(o, events)[i - 1].out.pressed
           /\ c \in Tracking(o, events)[i].removed <=>
                 \/ c \in Tracking(o, events)[i - 1].removed
                 \/ /\ i \in Moves(events, c) /\ events[i].value = 0
                    /\ c \in Tracking(o, events)[i - 1].out.pressed
<1> DEFINE t == Tracking(o, events)
<1>1. i - 1 \in 0 .. Len(events) /\ Len(events) \in Nat
  BY LenProperties
<1>2. PICK e \in Event : e = events[i]
  BY BatchEvents
<1>3. PICK y : y = t[i - 1]
  OBVIOUS
<1>4. y.out \in Output
  BY <1>1, <1>3, TrackingFields
<1>5. PICK z : z = t[i]
  OBVIOUS
<1>14. z = Note(y, events, i)
  BY <1>3, <1>5, TrackingFields
<1> HIDE DEF t
<1>6. z.out = Track(y.out, events[i])
  BY <1>14 DEF Note
<1>7. z.removed = IF events[i].value = 0
                  THEN y.removed \union ({events[i].code} \intersect y.out.pressed)
                  ELSE y.removed
  BY <1>14 DEF Note
<1>8. PICK x \in Output : x = y.out
  BY <1>4
<1>9. c \in Track(x, e).pressed <=>
         IF e.code = c /\ e.value # 2 THEN e.value = 1 ELSE c \in x.pressed
  BY TrackFields
<1>10. i \in Moves(events, c) <=> e.code = c /\ e.value # 2
  BY <1>2 DEF Moves
<1>11. c \in t[i].out.pressed <=> c \in Track(x, e).pressed
  BY <1>2, <1>5, <1>6, <1>8
<1>12. c \in t[i].removed <=>
          c \in y.removed \/ (e.value = 0 /\ e.code = c /\ c \in x.pressed)
  BY <1>2, <1>5, <1>7, <1>8
<1>13. /\ c \in t[i].out.pressed <=>
             IF i \in Moves(events, c) THEN events[i].value = 1 ELSE c \in t[i - 1].out.pressed
       /\ c \in t[i].removed <=>
             \/ c \in t[i - 1].removed
             \/ /\ i \in Moves(events, c) /\ events[i].value = 0
                /\ c \in t[i - 1].out.pressed
  BY <1>2, <1>3, <1>8, <1>9, <1>10, <1>11, <1>12
<1> QED BY <1>13 DEF t

\* A device that is written any part of a batch holds only keys which are
\* pressed by the bookkeeping, or which it has taken out of the set.
LEMMA HeldOrRemoved ==
    ASSUME NEW o \in Output, NEW w \in Output, NEW d \in Device, NEW events \in Seq(Event),
           NEW part, w.down[d] = o.down[d], NEW c \in Button,
           c \in o.down[d] => c \in o.pressed
    PROVE  c \in PutAll(w, d, events, part).down[d] =>
               c \in Tracked(o, events).out.pressed \union Tracked(o, events).removed
<1> DEFINE k == Kernel(w, d, events, part)
           t == Tracking(o, events)
           n == Len(events)
           Good(i) == c \in k[i].down[d] => c \in t[i].out.pressed \/ c \in t[i].removed
           S == {i \in Nat : Good(i)}
<1>1. n \in Nat /\ \A i \in 1 .. n : events[i] \in Event
  BY BatchEvents
<1>2. k[0] = w /\ t[0].out = o
  <2>1. k[0] = w
    BY KernelFields
  <2>2. t[0].out = o
    BY TrackingStart, Zenon
  <2> QED BY <2>1, <2>2
<1>3. ASSUME NEW i \in 1 .. n
      PROVE  /\ c \in k[i].down[d] <=>
                   IF i \in part /\ i \in Moves(events, c) THEN events[i].value = 1
                   ELSE c \in k[i - 1].down[d]
             /\ c \in t[i].out.pressed <=>
                   IF i \in Moves(events, c) THEN events[i].value = 1
                   ELSE c \in t[i - 1].out.pressed
             /\ c \in t[i].removed <=>
                   \/ c \in t[i - 1].removed
                   \/ /\ i \in Moves(events, c) /\ events[i].value = 0
                      /\ c \in t[i - 1].out.pressed
             /\ i \in Moves(events, c) => events[i].value \in {0, 1}
  BY <1>1, KernelMoves, TrackingMoves DEF Moves, Event
<1> HIDE DEF k, t
<1>4. 0 \in S
  BY <1>2
<1>5. \A i \in 1 .. n : i - 1 \in S => i \in S
  BY <1>3
<1>6. \A i \in 0 .. n : i \in S
  <2> HIDE DEF S
  <2> QED BY <1>1, <1>4, <1>5, AlongBatch
<1>7. Good(n)
  BY <1>1, <1>6
<1> QED BY <1>7 DEF PutAll, Tracked, k, t

\* If no press or release of a key is kept from a device, then it holds the
\* key exactly if the key is in the set, provided it did before the batch.
LEMMA HeldAsTracked ==
    ASSUME NEW o \in Output, NEW w \in Output, NEW d \in Device, NEW events \in Seq(Event),
           NEW part, w.down[d] = o.down[d], NEW c \in Button, Moves(events, c) \subseteq part
    PROVE  \A i \in 0 .. Len(events) :
              /\ (c \in o.down[d] => c \in o.pressed) =>
                    (c \in Kernel(w, d, events, part)[i].down[d] =>
                        c \in Tracking(o, events)[i].out.pressed)
              /\ (c \in o.pressed => c \in o.down[d]) =>
                    (c \in Tracking(o, events)[i].out.pressed =>
                        c \in Kernel(w, d, events, part)[i].down[d])
<1> DEFINE k == Kernel(w, d, events, part)
           t == Tracking(o, events)
           n == Len(events)
           Good(i) == /\ (c \in o.down[d] => c \in o.pressed) =>
                             (c \in k[i].down[d] => c \in t[i].out.pressed)
                      /\ (c \in o.pressed => c \in o.down[d]) =>
                             (c \in t[i].out.pressed => c \in k[i].down[d])
           S == {i \in Nat : Good(i)}
<1>1. n \in Nat
  BY LenProperties
<1>2. k[0] = w /\ t[0].out = o
  <2>1. k[0] = w
    BY KernelFields
  <2>2. t[0].out = o
    BY TrackingStart, Zenon
  <2> QED BY <2>1, <2>2
<1>3. ASSUME NEW i \in 1 .. n
      PROVE  /\ c \in k[i].down[d] <=>
                   IF i \in Moves(events, c) THEN events[i].value = 1
                   ELSE c \in k[i - 1].down[d]
             /\ c \in t[i].out.pressed <=>
                   IF i \in Moves(events, c) THEN events[i].value = 1
                   ELSE c \in t[i - 1].out.pressed
  BY KernelMoves, TrackingMoves
<1> HIDE DEF k, t
<1>4. 0 \in S
  BY <1>2
<1>5. \A i \in 1 .. n : i - 1 \in S => i \in S
  BY <1>3
<1>6. \A i \in 0 .. n : i \in S
  <2> HIDE DEF S
  <2> QED BY <1>1, <1>4, <1>5, AlongBatch
<1> QED BY <1>6 DEF k, t

\* A part of a batch that has no event of a key leaves the key alone.
LEMMA HeldAsBefore ==
    ASSUME NEW w \in Output, NEW d \in Device, NEW events \in Seq(Event), NEW part,
           NEW c \in Button, \A i \in part : events[i].code # c
    PROVE  c \in PutAll(w, d, events, part).down[d] <=> c \in w.down[d]
<1> DEFINE k == Kernel(w, d, events, part)
           n == Len(events)
           S == {i \in Nat : c \in k[i].down[d] <=> c \in w.down[d]}
<1>1. n \in Nat
  BY LenProperties
<1>2. k[0] = w
  BY KernelFields
<1>3. \A i \in 1 .. n : c \in k[i].down[d] <=> c \in k[i - 1].down[d]
  <2>1. TAKE i \in 1 .. n
  <2>2. ~(i \in part /\ i \in Moves(events, c))
    BY DEF Moves
  <2> QED BY <2>2, KernelMoves
<1> HIDE DEF k
<1>4. 0 \in S
  BY <1>2
<1>5. \A i \in 1 .. n : i - 1 \in S => i \in S
  BY <1>3
<1>6. \A i \in 0 .. n : i \in S
  <2> HIDE DEF S
  <2> QED BY <1>1, <1>4, <1>5, AlongBatch
<1> QED BY <1>1, <1>6 DEF k, PutAll

\* Nothing written is nothing changed.
LEMMA NothingWritten ==
    ASSUME NEW w \in Output, NEW d \in Device, NEW events \in Seq(Event)
    PROVE  PutAll(w, d, events, {}) = w
<1> DEFINE k == Kernel(w, d, events, {})
           n == Len(events)
           S == {i \in Nat : k[i] = w}
<1>1. n \in Nat
  BY LenProperties
<1>2. k[0] = w
  BY KernelStart, Zenon
<1>3. \A i \in 1 .. n : k[i] = k[i - 1]
  BY KernelFields
<1> HIDE DEF k
<1>4. 0 \in S
  BY <1>2
<1>5. \A i \in 1 .. n : i - 1 \in S => i \in S
  BY <1>3
<1>6. \A i \in 0 .. n : i \in S
  <2> HIDE DEF S
  <2> QED BY <1>1, <1>4, <1>5, AlongBatch
<1> QED BY <1>1, <1>6 DEF k, PutAll

\* A device is sent a repeat that counts as stray at a place where it does
\* not hold the key.
LEMMA StrayWhere ==
    ASSUME NEW w \in Output, NEW d \in Device, NEW events \in Seq(Event), NEW part,
           PutAll(w, d, events, part).stray
    PROVE  \/ w.stray
           \/ \E i \in 1 .. Len(events) :
                 /\ i \in part /\ events[i].value = 2 /\ Homes(events[i].code) = {d}
                 /\ events[i].code \notin Kernel(w, d, events, part)[i - 1].down[d]
<1> DEFINE k == Kernel(w, d, events, part)
           n == Len(events)
           Bad(i) == /\ i \in part /\ events[i].value = 2 /\ Homes(events[i].code) = {d}
                     /\ events[i].code \notin k[i - 1].down[d]
           S == {i \in Nat : ~k[i].stray}
<1>1. SUFFICES ASSUME ~w.stray, \A i \in 1 .. n : ~Bad(i) PROVE FALSE
  OBVIOUS
<1>2. n \in Nat
  BY LenProperties
<1>3. k[0] = w
  BY KernelStart, Zenon
<1>4. ASSUME NEW i \in 1 .. n, ~k[i - 1].stray PROVE ~k[i].stray
  <2>1. i - 1 \in 0 .. n
    BY <1>2
  <2>2. PICK e \in Event : e = events[i]
    BY BatchEvents
  <2>3. PICK x \in Output : x = k[i - 1]
    BY <2>1, KernelFields
  <2>4. k[i] = IF i \in part THEN Put(x, d, e) ELSE x
    BY <2>2, <2>3, KernelFields
  <2>5. i \in part => ~Put(x, d, e).stray
    <3>1. ~x.stray
      BY <1>4, <2>3
    <3>2. i \in part => ~(e.value = 2 /\ Homes(e.code) = {d} /\ e.code \notin x.down[d])
      BY <1>1, <2>2, <2>3
    <3>3. Put(x, d, e).stray =>
             x.stray \/ (e.value = 2 /\ Homes(e.code) = {d} /\ e.code \notin x.down[d])
      BY PutFields
    <3> QED BY <3>1, <3>2, <3>3
  <2> QED BY <1>4, <2>3, <2>4, <2>5
<1> HIDE DEF k
<1>5. 0 \in S
  BY <1>1, <1>3
<1>6. \A i \in 1 .. n : i - 1 \in S => i \in S
  BY <1>4
<1>7. \A i \in 0 .. n : i \in S
  <2> HIDE DEF S
  <2> QED BY <1>2, <1>5, <1>6, AlongBatch
<1> QED BY <1>2, <1>7 DEF k, PutAll

\* No press and no release is dropped.
LEMMA MovesAreSent ==
    ASSUME NEW o \in Output, NEW events \in Seq(Event), NEW c
    PROVE  Moves(events, c) \subseteq Tracked(o, events).sent
<1>1. Len(events) \in Nat
  BY LenProperties
<1>2. Tracked(o, events).sent =
         {i \in 1 .. Len(events) : Deliverable(Tracking(o, events)[i - 1].out, events[i])}
  BY <1>1, TrackingFields DEF Tracked
<1>3. ASSUME NEW i \in Moves(events, c)
      PROVE  i \in 1 .. Len(events) /\ Deliverable(Tracking(o, events)[i - 1].out, events[i])
  BY DEF Moves, Deliverable
<1> QED BY <1>2, <1>3, Zenon

-----------------------------------------------------------------------------
(* Writing to the devices in turn.                                         *)

LEMMA OneHomeOnly ==
    ASSUME NEW c \in Button
    PROVE  c \in OneHome <=> \E d \in Device : Homes(c) = {d}
<1>1. IsFiniteSet(Device)
  <2>1. IsFiniteSet({"keyboard"} \union {"mouse"} \union {"touchpad"})
    BY FS_Singleton, FS_Union
  <2>2. Device = {"keyboard"} \union {"mouse"} \union {"touchpad"}
    BY DEF Device
  <2> QED BY <2>1, <2>2
<1>2. Homes(c) \subseteq Device
  BY DEF Homes
<1>3. IsFiniteSet(Homes(c))
  BY <1>1, <1>2, FS_Subset
<1>4. Cardinality(Homes(c)) = 1 <=> \E d : Homes(c) = {d}
  BY <1>3, FS_Singleton
<1> QED BY <1>2, <1>4 DEF OneHome

\* An output whose devices hold nothing but what is in the set, each its own
\* keys, and one whose devices hold all of that.
Tracks(o) ==
    /\ o \in Output
    /\ \A d \in Device : \A c \in OneHome : c \in o.down[d] => Homes(c) = {d} /\ c \in o.pressed
Close(o) ==
    /\ ~o.stray
    /\ \A d \in Device : \A c \in OneHome : Homes(c) = {d} /\ c \in o.pressed => c \in o.down[d]

\* The output x after the part of a batch for the devices D, whatever part of
\* it was written, and if all of it was.
Loose(o, events, x, D) ==
    /\ x \in Output /\ x.pressed = Tracked(o, events).out.pressed
    /\ \A d \in Device \ D : x.down[d] = o.down[d]
    /\ \A d \in D : \A c \in OneHome :
          c \in x.down[d] =>
              /\ Homes(c) = {d}
              /\ c \in Tracked(o, events).out.pressed \union Tracked(o, events).removed
Tight(o, events, x, D) ==
    /\ \A d \in D : \A c \in OneHome : c \in x.down[d] => c \in Tracked(o, events).out.pressed
    /\ Close(o) =>
          /\ ~x.stray
          /\ \A d \in D : \A c \in OneHome :
                Homes(c) = {d} /\ c \in Tracked(o, events).out.pressed => c \in x.down[d]

LEMMA PutAllFields ==
    ASSUME NEW w \in Output, NEW d \in Device, NEW events \in Seq(Event), NEW part
    PROVE  /\ PutAll(w, d, events, part) \in Output
           /\ PutAll(w, d, events, part).pressed = w.pressed
           /\ \A x \in Device : x # d => PutAll(w, d, events, part).down[x] = w.down[x]
<1>1. Len(events) \in 0 .. Len(events)
  BY LenProperties
<1> QED BY <1>1, KernelFields DEF PutAll

\* A write is of part of what was asked for, and of all of it if it succeeds.
LEMMA EmitOutcome ==
    ASSUME NEW w \in Output, NEW d \in Device, NEW events \in Seq(Event), NEW part,
           NEW r \in Emit(w, d, events, part)
    PROVE  /\ r \in [out : Output, ok : BOOLEAN]
           /\ \E J \in SUBSET part : r.out = PutAll(w, d, events, J) /\ (r.ok => J = part)
<1>1. CASE part = {}
  <2>1. r = [out |-> w, ok |-> TRUE]
    BY <1>1 DEF Emit
  <2>2. r.ok = TRUE /\ r.out = PutAll(w, d, events, {})
    BY <2>1, NothingWritten
  <2>3. r \in [out : Output, ok : BOOLEAN]
    BY <2>1
  <2> QED BY <1>1, <2>2, <2>3
<1>2. CASE r = [out |-> PutAll(w, d, events, part), ok |-> TRUE]
  <2>1. r.ok = TRUE /\ r.out = PutAll(w, d, events, part)
    BY <1>2
  <2>2. r \in [out : Output, ok : BOOLEAN]
    <3>1. PICK y \in Output : y = PutAll(w, d, events, part)
      BY PutAllFields
    <3> QED BY <1>2, <3>1
  <2> QED BY <2>1, <2>2
<1>3. CASE \E n \in 0 .. Len(events) :
              r = [out |-> PutAll(w, d, events, {i \in part : i <= n}), ok |-> FALSE]
  <2>1. PICK n : r = [out |-> PutAll(w, d, events, {i \in part : i <= n}), ok |-> FALSE]
    BY <1>3
  <2>2. r.ok = FALSE /\ r.out = PutAll(w, d, events, {i \in part : i <= n})
    BY <2>1
  <2>3. {i \in part : i <= n} \in SUBSET part
    OBVIOUS
  <2>4. r \in [out : Output, ok : BOOLEAN]
    <3>1. PICK y \in Output : y = PutAll(w, d, events, {i \in part : i <= n})
      BY PutAllFields
    <3> QED BY <2>1, <3>1
  <2> QED BY <2>2, <2>3, <2>4
<1> QED BY <1>1, <1>2, <1>3 DEF Emit

\* One more device written to, in full or in part, holds nothing untracked.
LEMMA EmitLoose ==
    ASSUME NEW o, Tracks(o), NEW events \in Seq(Event), NEW x, NEW D \in SUBSET Device,
           Loose(o, events, x, D), NEW d \in Device, d \notin D,
           NEW part, \A i \in part : d \in Homes(events[i].code),
           NEW r \in Emit(x, d, events, part)
    PROVE  Loose(o, events, r.out, D \union {d})
<1>1. o \in Output /\ x \in Output /\ x.down[d] = o.down[d]
      /\ x.pressed = Tracked(o, events).out.pressed
  BY DEF Tracks, Loose
<1>2. PICK J \in SUBSET part : r.out = PutAll(x, d, events, J)
  BY <1>1, EmitOutcome
<1>3. PICK y : y = r.out
  OBVIOUS
<1>4. y \in Output /\ y.pressed = x.pressed /\ \A z \in Device : z # d => y.down[z] = x.down[z]
  BY <1>1, <1>2, <1>3, PutAllFields
<1>5. ASSUME NEW c \in OneHome, c \in y.down[d]
      PROVE  /\ Homes(c) = {d}
             /\ c \in Tracked(o, events).out.pressed \union Tracked(o, events).removed
  <2>1. c \in Button
    BY DEF OneHome
  <2>2. c \in PutAll(x, d, events, J).down[d]
    BY <1>2, <1>3, <1>5
  <2>3. c \in o.down[d] => c \in o.pressed /\ Homes(c) = {d}
    BY DEF Tracks
  <2>4. c \in Tracked(o, events).out.pressed \union Tracked(o, events).removed
    BY <1>1, <2>1, <2>2, <2>3, HeldOrRemoved
  <2>5. SUFFICES ASSUME Homes(c) # {d} PROVE FALSE
    BY <2>4
  <2>6. \A i \in J : events[i].code # c
    <3>1. d \notin Homes(c)
      BY <2>1, <2>5, OneHomeOnly
    <3> QED BY <3>1
  <2>7. c \in x.down[d]
    BY <1>1, <2>1, <2>2, <2>6, HeldAsBefore
  <2> QED BY <1>1, <2>3, <2>5, <2>7
<1>6. \A z \in D : z # d
  OBVIOUS
<1>7. \A z \in Device \ (D \union {d}) : y.down[z] = o.down[z]
  BY <1>4 DEF Loose
<1>8. ASSUME NEW z \in D, NEW c \in OneHome, c \in y.down[z]
      PROVE  /\ Homes(c) = {z}
             /\ c \in Tracked(o, events).out.pressed \union Tracked(o, events).removed
  BY <1>4, <1>6, <1>8 DEF Loose
<1>9. Loose(o, events, y, D \union {d})
  BY <1>1, <1>4, <1>5, <1>7, <1>8 DEF Loose
<1> QED BY <1>3, <1>9

\* One more device written to in full holds all of its own that is tracked.
LEMMA EmitTight ==
    ASSUME NEW o, Tracks(o), NEW events \in Seq(Event), NEW x, NEW D \in SUBSET Device,
           Loose(o, events, x, D), Tight(o, events, x, D), NEW d \in Device, d \notin D,
           NEW part \in SUBSET Tracked(o, events).sent,
           \A i \in part : d \in Homes(events[i].code),
           \A i \in Tracked(o, events).sent : Homes(events[i].code) = {d} => i \in part,
           NEW r \in Emit(x, d, events, part), r.ok
    PROVE  Tight(o, events, r.out, D \union {d})
<1> DEFINE k == Kernel(x, d, events, part)
           t == Tracking(o, events)
           n == Len(events)
<1>1. o \in Output /\ x \in Output /\ x.down[d] = o.down[d]
  BY DEF Tracks, Loose
<1>2. r.out = PutAll(x, d, events, part)
  BY <1>1, EmitOutcome
<1>3. PICK y : y = r.out
  OBVIOUS
<1>4. y \in Output /\ \A z \in Device : z # d => y.down[z] = x.down[z]
  BY <1>1, <1>2, <1>3, PutAllFields
<1>5. n \in Nat /\ y = k[n] /\ Tracked(o, events) = t[n]
  BY <1>2, <1>3, LenProperties DEF PutAll, Tracked
<1>6. ASSUME NEW c \in Button, Homes(c) = {d}
      PROVE  Moves(events, c) \subseteq part
  <2>1. Moves(events, c) \subseteq Tracked(o, events).sent
    BY <1>1, MovesAreSent
  <2>2. \A i \in Moves(events, c) : events[i].code = c
    BY DEF Moves
  <2> QED BY <1>6, <2>1, <2>2
<1>7. ASSUME NEW c \in Button, Homes(c) = {d}
      PROVE  \A i \in 0 .. n :
                /\ (c \in o.down[d] => c \in o.pressed) =>
                      (c \in k[i].down[d] => c \in t[i].out.pressed)
                /\ (c \in o.pressed => c \in o.down[d]) =>
                      (c \in t[i].out.pressed => c \in k[i].down[d])
  <2>1. Moves(events, c) \subseteq part
    BY <1>6, <1>7
  <2> QED BY <1>1, <2>1, HeldAsTracked
<1>8. \A c \in OneHome : c \in Button
  BY DEF OneHome
<1>9. ASSUME NEW c \in OneHome, c \in y.down[d]
      PROVE  c \in Tracked(o, events).out.pressed
  <2>1. Loose(o, events, y, D \union {d})
    BY <1>3, EmitLoose
  <2>2. Homes(c) = {d}
    BY <1>9, <2>1 DEF Loose
  <2>3. c \in o.down[d] => c \in o.pressed
    BY DEF Tracks
  <2>4. n \in 0 .. n
    BY <1>5
  <2>5. c \in k[n].down[d] => c \in t[n].out.pressed
    BY <1>7, <1>8, <2>2, <2>3, <2>4
  <2> QED BY <1>5, <1>9, <2>5
<1>10. ASSUME Close(o), NEW c \in OneHome, Homes(c) = {d}, c \in Tracked(o, events).out.pressed
       PROVE  c \in y.down[d]
  <2>1. c \in o.pressed => c \in o.down[d]
    BY <1>10 DEF Close
  <2>2. n \in 0 .. n
    BY <1>5
  <2>3. c \in t[n].out.pressed => c \in k[n].down[d]
    BY <1>7, <1>8, <1>10, <2>1, <2>2
  <2> QED BY <1>5, <1>10, <2>3
<1>11. ASSUME Close(o) PROVE ~y.stray
  <2>1. SUFFICES ASSUME y.stray PROVE FALSE
    OBVIOUS
  <2>2. ~x.stray
    BY <1>11 DEF Tight
  <2>3. PutAll(x, d, events, part).stray
    BY <1>2, <1>3, <2>1
  <2>4. PICK i \in 1 .. n : /\ i \in part /\ events[i].value = 2 /\ Homes(events[i].code) = {d}
                           /\ events[i].code \notin k[i - 1].down[d]
    BY <1>1, <2>2, <2>3, StrayWhere
  <2>5. PICK e \in Event : e = events[i]
    BY BatchEvents
  <2>6. e.code \in Button
    BY <2>4, <2>5, CodeAssumption DEF Event
  <2>7. Tracked(o, events).sent = {j \in 1 .. n : Deliverable(t[j - 1].out, events[j])}
    BY <1>1, <1>5, TrackingFields
  <2>8. Deliverable(t[i - 1].out, e)
    BY <2>4, <2>5, <2>7
  <2>9. e.code \in t[i - 1].out.pressed
    BY <2>4, <2>5, <2>6, <2>8 DEF Deliverable
  <2>10. e.code \in OneHome
    BY <2>4, <2>5, <2>6, OneHomeOnly
  <2>11. e.code \in o.pressed => e.code \in o.down[d]
    BY <1>11, <2>4, <2>5, <2>10 DEF Close
  <2>12. i - 1 \in 0 .. n
    BY <1>5
  <2>13. e.code \in t[i - 1].out.pressed => e.code \in k[i - 1].down[d]
    BY <1>7, <2>4, <2>5, <2>6, <2>11, <2>12
  <2> QED BY <2>4, <2>5, <2>9, <2>13
<1>12. \A z \in D : z # d /\ z \in Device /\ y.down[z] = x.down[z]
  BY <1>4
<1>13. \A z \in D \union {d} : \A c \in OneHome :
          c \in y.down[z] => c \in Tracked(o, events).out.pressed
  BY <1>9, <1>12 DEF Tight
<1>14. ASSUME Close(o)
       PROVE  \A z \in D \union {d} : \A c \in OneHome :
                 Homes(c) = {z} /\ c \in Tracked(o, events).out.pressed => c \in y.down[z]
  BY <1>10, <1>12, <1>14 DEF Tight
<1>15. Tight(o, events, y, D \union {d})
  BY <1>11, <1>13, <1>14 DEF Tight
<1> QED BY <1>3, <1>15

\* A device of one event of a batch is one of its homes.
LEMMA DestIsHome ==
    ASSUME NEW c \in Code, NEW events, NEW sent
    PROVE  /\ Dest(c, events, sent) \in Homes(c)
           /\ \A d : Homes(c) = {d} => Dest(c, events, sent) = d
<1>1. Homes(c) \in {{"keyboard"}, {"mouse"}, {"touchpad"},
                    {"keyboard", "mouse"}, {"mouse", "touchpad"}}
  BY SupportsAssumption
<1>2. ASSUME NEW d, Homes(c) = {d}
      PROVE  Dest(c, events, sent) = d
  <2>1. Cardinality(Homes(c)) = 1
    BY <1>2, FS_Singleton
  <2>2. Dest(c, events, sent) = CHOOSE h \in Homes(c) : TRUE
    BY <2>1 DEF Dest
  <2> QED BY <1>2, <2>2
<1>3. CASE \E d : Homes(c) = {d}
  BY <1>2, <1>3
<1>4. CASE Homes(c) = {"keyboard", "mouse"}
  <2>1. Cardinality(Homes(c)) # 1
    <3>1. IsFiniteSet({"keyboard"} \union {"mouse"})
      BY FS_Singleton, FS_Union
    <3>2. {"keyboard"} \union {"mouse"} = Homes(c)
      BY <1>4
    <3> QED BY <1>4, <3>1, <3>2, FS_Singleton
  <2>2. Dest(c, events, sent) =
           IF CountFor("keyboard", events, sent) >= CountFor("mouse", events, sent)
           THEN "keyboard" ELSE "mouse"
    BY <1>4, <2>1 DEF Dest
  <2> QED BY <1>4, <2>2
<1>5. CASE Homes(c) = {"mouse", "touchpad"}
  <2>1. Cardinality(Homes(c)) # 1
    <3>1. IsFiniteSet({"mouse"} \union {"touchpad"})
      BY FS_Singleton, FS_Union
    <3>2. {"mouse"} \union {"touchpad"} = Homes(c)
      BY <1>5
    <3> QED BY <1>5, <3>1, <3>2, FS_Singleton
  <2>2. Homes(c) # {"keyboard", "mouse"}
    BY <1>5
  <2>3. Dest(c, events, sent) =
           IF CountFor("mouse", events, sent) >= CountFor("touchpad", events, sent)
           THEN "mouse" ELSE "touchpad"
    BY <2>1, <2>2 DEF Dest
  <2> QED BY <1>5, <2>3
<1> QED BY <1>1, <1>3, <1>4, <1>5

\* An outcome of writing the parts of a batch for the devices D.
Fine(o, events, r, D) ==
    /\ r \in [out : Output, ok : BOOLEAN]
    /\ Loose(o, events, r.out, D)
    /\ r.ok => Tight(o, events, r.out, D)

\* The bookkeeping before anything is written.
LEMMA StartsFine ==
    ASSUME NEW o, Tracks(o), NEW events \in Seq(Event)
    PROVE  Fine(o, events, [out |-> Tracked(o, events).out, ok |-> TRUE], {})
<1> DEFINE w == Tracked(o, events).out
           r == [out |-> w, ok |-> TRUE]
<1>1. Len(events) \in 0 .. Len(events)
  BY LenProperties
<1>2. o \in Output
  BY DEF Tracks
<1>3. w \in Output /\ w.down = o.down /\ w.stray = o.stray
  BY <1>1, <1>2, TrackingFields DEF Tracked
<1> HIDE DEF w
<1>4. r.out = w /\ r.ok = TRUE
  OBVIOUS
<1>5. w = Tracked(o, events).out
  BY DEF w
<1>6. Loose(o, events, w, {})
  BY <1>3, <1>5 DEF Loose
<1>7. Tight(o, events, w, {})
  BY <1>3 DEF Tight, Close
<1>9. r \in [out : Output, ok : BOOLEAN]
  BY <1>3
<1> HIDE DEF r
<1>8. Fine(o, events, r, {})
  BY <1>4, <1>6, <1>7, <1>9 DEF Fine
<1> QED BY <1>8 DEF r, w

\* One more device: its part is written after a success, and not at all after
\* a failure.
LEMMA OneMore ==
    ASSUME NEW o, Tracks(o), NEW events \in Seq(Event), NEW q, NEW D \in SUBSET Device,
           Fine(o, events, q, D), NEW d \in Device, d \notin D,
           NEW part \in SUBSET Tracked(o, events).sent,
           \A i \in part : d \in Homes(events[i].code),
           \A i \in Tracked(o, events).sent : Homes(events[i].code) = {d} => i \in part,
           NEW r \in IF q.ok THEN Emit(q.out, d, events, part) ELSE {q}
    PROVE  Fine(o, events, r, D \union {d})
<1>1. PICK x : x = q.out
  OBVIOUS
<1>2. x \in Output /\ Loose(o, events, x, D)
  BY <1>1 DEF Fine, Loose
<1>3. CASE q.ok
  <2>1. r \in Emit(x, d, events, part) /\ Tight(o, events, x, D)
    BY <1>1, <1>3 DEF Fine
  <2>2. r \in [out : Output, ok : BOOLEAN]
    BY <1>2, <2>1, EmitOutcome
  <2>3. Loose(o, events, r.out, D \union {d})
    BY <1>2, <2>1, EmitLoose
  <2>4. r.ok => Tight(o, events, r.out, D \union {d})
    BY <1>2, <2>1, EmitTight
  <2> QED BY <2>2, <2>3, <2>4 DEF Fine
<1>4. CASE ~q.ok
  <2>1. r = q
    BY <1>4
  <2>2. [out |-> x, ok |-> TRUE] \in Emit(x, d, events, {})
    BY DEF Emit
  <2>3. PICK z : z = [out |-> x, ok |-> TRUE]
    OBVIOUS
  <2>4. z \in Emit(x, d, events, {}) /\ z.out = x
    BY <2>2, <2>3
  <2>5. \A i \in {} : d \in Homes(events[i].code)
    OBVIOUS
  <2>6. Loose(o, events, z.out, D \union {d})
    BY <1>2, <2>4, <2>5, EmitLoose
  <2> QED BY <1>1, <1>4, <2>1, <2>4, <2>6 DEF Fine
<1> QED BY <1>3, <1>4

\* A device none of whose events is to be sent may count as written.
LEMMA OneMoreUntouched ==
    ASSUME NEW o, Tracks(o), NEW events \in Seq(Event), NEW x, NEW D \in SUBSET Device,
           Fine(o, events, [out |-> x, ok |-> TRUE], D), NEW d \in Device, d \notin D,
           \A i \in Tracked(o, events).sent : Homes(events[i].code) # {d}
    PROVE  Fine(o, events, [out |-> x, ok |-> TRUE], D \union {d})
<1>1. PICK q : q = [out |-> x, ok |-> TRUE]
  OBVIOUS
<1>2. q.ok /\ q.out = x /\ Fine(o, events, q, D)
  BY <1>1
<1>3. q \in Emit(q.out, d, events, {})
  BY <1>1, <1>2 DEF Emit
<1>4. q \in IF q.ok THEN Emit(q.out, d, events, {}) ELSE {q}
  BY <1>2, <1>3
<1>5. Fine(o, events, q, D \union {d})
  <2>1. /\ {} \in SUBSET Tracked(o, events).sent
        /\ \A i \in {} : d \in Homes(events[i].code)
        /\ \A i \in Tracked(o, events).sent : Homes(events[i].code) = {d} => i \in {}
    OBVIOUS
  <2> QED BY <1>2, <1>4, <2>1, OneMore
<1> QED BY <1>1, <1>5

\* The first way of emit_routed_events: one device takes everything.
LEMMA WholeFine ==
    ASSUME NEW o, Tracks(o), NEW events \in Seq(Event),
           NEW d \in Device, NEW a \in Device, NEW b \in Device, Device = {a, b, d},
           d # a, d # b, a # b,
           CountFor(d, events, Tracked(o, events).sent) = Cardinality(Tracked(o, events).sent),
           NEW r \in Emit(Tracked(o, events).out, d, events, Tracked(o, events).sent)
    PROVE  Fine(o, events, r, Device)
<1> DEFINE sent == Tracked(o, events).sent
           w == Tracked(o, events).out
<1>1. Len(events) \in Nat /\ o \in Output
  BY LenProperties DEF Tracks
<1>2. sent \subseteq 1 .. Len(events)
  BY <1>1, TrackingFields DEF Tracked
<1>3. IsFiniteSet(sent)
  <2>1. IsFiniteSet(1 .. Len(events))
    <3>1. PICK n \in Nat : n = Len(events)
      BY <1>1
    <3>2. IsFiniteSet(1 .. n)
      BY FS_Interval
    <3> QED BY <3>1, <3>2
  <2> HIDE DEF sent
  <2> QED BY <1>2, <2>1, FS_Subset
<1>4. Takes(d, events, sent) = sent
  <2>1. Takes(d, events, sent) \subseteq sent
    BY DEF Takes
  <2>2. Cardinality(Takes(d, events, sent)) = Cardinality(sent)
    BY DEF CountFor
  <2> HIDE DEF sent
  <2> QED BY <1>3, <2>1, <2>2, FS_Subset
<1>5. \A i \in sent : d \in Homes(events[i].code)
  BY <1>4 DEF Takes
<1>6. PICK q : q = [out |-> w, ok |-> TRUE]
  OBVIOUS
<1> HIDE DEF sent, w
<1>7. q.ok /\ q.out = w
  BY <1>6
<1>8. Fine(o, events, [out |-> w, ok |-> TRUE], {})
  BY StartsFine DEF w
<1>9. /\ \A i \in Tracked(o, events).sent : Homes(events[i].code) # {a}
      /\ \A i \in Tracked(o, events).sent : Homes(events[i].code) # {b}
  BY <1>5 DEF sent
<1>10. Fine(o, events, [out |-> w, ok |-> TRUE], {} \union {a})
  BY <1>8, <1>9, OneMoreUntouched
<1>11. Fine(o, events, [out |-> w, ok |-> TRUE], ({} \union {a}) \union {b})
  BY <1>9, <1>10, OneMoreUntouched
<1>12. Fine(o, events, q, {a, b})
  <2>1. ({} \union {a}) \union {b} = {a, b}
    OBVIOUS
  <2> QED BY <1>6, <1>11, <2>1
<1>13. r \in IF q.ok THEN Emit(q.out, d, events, sent) ELSE {q}
  BY <1>7 DEF w, sent
<1>14. /\ sent \in SUBSET Tracked(o, events).sent
       /\ \A i \in Tracked(o, events).sent : Homes(events[i].code) = {d} => i \in sent
  BY DEF sent
<1>15. PICK D \in SUBSET Device : D = {a, b}
  OBVIOUS
<1>16. Fine(o, events, q, D) /\ d \notin D
  BY <1>12, <1>15
<1>17. Fine(o, events, r, D \union {d})
  BY <1>5, <1>13, <1>14, <1>16, OneMore
<1>18. D \union {d} = Device
  BY <1>15
<1> QED BY <1>17, <1>18

\* Both along the routes: one device for everything, or the three in turn.
LEMMA RoutedFine ==
    ASSUME NEW o, Tracks(o), NEW events \in Seq(Event),
           NEW r \in EmitRouted(Tracked(o, events).out, events, Tracked(o, events).sent)
    PROVE  Fine(o, events, r, Device)
<1> DEFINE sent == Tracked(o, events).sent
           w == Tracked(o, events).out
           all(d) == CountFor(d, events, sent) = Cardinality(sent)
           part(d) == {i \in sent : Dest(events[i].code, events, sent) = d}
           After(q, d) == IF q.ok THEN Emit(q.out, d, events, part(d)) ELSE {q}
           Then(results, d) == UNION {After(q, d) : q \in results}
           keyboard == Emit(w, "keyboard", events, part("keyboard"))
<1>1. \/ all("keyboard") /\ r \in Emit(w, "keyboard", events, sent)
      \/ all("mouse") /\ r \in Emit(w, "mouse", events, sent)
      \/ all("touchpad") /\ r \in Emit(w, "touchpad", events, sent)
      \/ r \in Then(Then(keyboard, "mouse"), "touchpad")
  BY DEF EmitRouted
<1>2. "keyboard" \in Device /\ "mouse" \in Device /\ "touchpad" \in Device
  BY DEF Device
<1>3. CASE all("keyboard") /\ r \in Emit(w, "keyboard", events, sent)
  <2>1. Device = {"mouse", "touchpad", "keyboard"}
    BY DEF Device
  <2> QED BY <1>2, <1>3, <2>1, WholeFine
<1>4. CASE all("mouse") /\ r \in Emit(w, "mouse", events, sent)
  <2>1. Device = {"keyboard", "touchpad", "mouse"}
    BY DEF Device
  <2> QED BY <1>2, <1>4, <2>1, WholeFine
<1>5. CASE all("touchpad") /\ r \in Emit(w, "touchpad", events, sent)
  <2>1. Device = {"keyboard", "mouse", "touchpad"}
    BY DEF Device
  <2> QED BY <1>2, <1>5, <2>1, WholeFine
<1>6. CASE r \in Then(Then(keyboard, "mouse"), "touchpad")
  <2>1. PICK m \in Then(keyboard, "mouse") : r \in After(m, "touchpad")
    BY <1>6
  <2>2. PICK k \in keyboard : m \in After(k, "mouse")
    BY <2>1
  <2>3. PICK q : q = [out |-> w, ok |-> TRUE]
    OBVIOUS
  <2>4. q.ok /\ q.out = w
    BY <2>3
  <2>5. k \in After(q, "keyboard")
    BY <2>2, <2>4
  <2>6. ASSUME NEW d \in Device
        PROVE  /\ part(d) \in SUBSET Tracked(o, events).sent
               /\ \A i \in part(d) : d \in Homes(events[i].code)
               /\ \A i \in Tracked(o, events).sent : Homes(events[i].code) = {d} => i \in part(d)
    <3>1. o \in Output /\ Len(events) \in Nat
      BY LenProperties DEF Tracks
    <3>2. sent \subseteq 1 .. Len(events)
      BY <3>1, TrackingFields DEF Tracked
    <3>3. \A i \in sent : events[i].code \in Code
      BY <3>2, BatchEvents DEF Event
    <3>4. \A i \in sent : Dest(events[i].code, events, sent) \in Homes(events[i].code)
      BY <3>3, DestIsHome
    <3>5. \A i \in sent : Homes(events[i].code) = {d} => Dest(events[i].code, events, sent) = d
      BY <3>3, DestIsHome
    <3> QED BY <3>4, <3>5
  <2>7. Fine(o, events, q, {})
    BY <2>3, StartsFine
  <2> HIDE DEF part, w, keyboard, Then
  <2>16. PICK C \in SUBSET Device : C = {}
    OBVIOUS
  <2>17. Fine(o, events, q, C) /\ "keyboard" \notin C
    BY <2>7, <2>16
  <2>18. /\ part("keyboard") \in SUBSET Tracked(o, events).sent
         /\ \A i \in part("keyboard") : "keyboard" \in Homes(events[i].code)
         /\ \A i \in Tracked(o, events).sent :
               Homes(events[i].code) = {"keyboard"} => i \in part("keyboard")
    BY <1>2, <2>6
  <2>19. k \in IF q.ok THEN Emit(q.out, "keyboard", events, part("keyboard")) ELSE {q}
    BY <2>5
  <2>8. Fine(o, events, k, C \union {"keyboard"})
    BY <1>2, <2>17, <2>18, <2>19, OneMore
  <2>9. PICK D \in SUBSET Device : D = C \union {"keyboard"}
    BY <1>2
  <2>10. Fine(o, events, k, D) /\ "mouse" \notin D
    BY <2>8, <2>9, <2>16
  <2>11. Fine(o, events, m, D \union {"mouse"})
    BY <1>2, <2>2, <2>6, <2>10, OneMore
  <2>12. PICK E \in SUBSET Device : E = D \union {"mouse"}
    BY <1>2
  <2>13. Fine(o, events, m, E) /\ "touchpad" \notin E
    BY <2>9, <2>11, <2>12, <2>16
  <2>14. Fine(o, events, r, E \union {"touchpad"})
    BY <1>2, <2>1, <2>6, <2>13, OneMore
  <2>15. E \union {"touchpad"} = Device
    BY <2>9, <2>12, <2>16 DEF Device
  <2> QED BY <2>14, <2>15
<1> QED BY <1>1, <1>3, <1>4, <1>5, <1>6

\* write as a whole, with the keys put back that a failed one released.
LEMMA WriteKeeps ==
    ASSUME NEW o, Tracks(o), NEW events \in Seq(Event), NEW r \in Write(o, events)
    PROVE  /\ r.ok \in BOOLEAN
           /\ Tracks(r.out)
           /\ r.ok /\ Close(o) => Close(r.out)
           /\ r.ok => r.out.pressed = Tracked(o, events).out.pressed
<1> DEFINE t == Tracked(o, events)
<1>1. PICK q \in EmitRouted(t.out, events, t.sent) :
          r = IF q.ok THEN q ELSE [q EXCEPT !.out.pressed = @ \union t.removed]
  BY DEF Write
<1>2. Fine(o, events, q, Device)
  BY RoutedFine
<1>3. q \in [out : Output, ok : BOOLEAN] /\ Loose(o, events, q.out, Device)
      /\ (q.ok => Tight(o, events, q.out, Device))
  BY <1>2 DEF Fine
<1>4. o \in Output /\ Len(events) \in 0 .. Len(events)
  BY LenProperties DEF Tracks
<1>5. t.removed \subseteq Button
  BY <1>4, TrackingFields DEF Tracked
<1> HIDE DEF t
<1>6. PICK x \in Output : x = q.out
  BY <1>3 DEF Loose
<1>7. CASE q.ok
  <2>1. r = q /\ r.out = x
    BY <1>1, <1>6, <1>7
  <2>2. Tracks(x)
    BY <1>3, <1>6, <1>7 DEF Loose, Tight, Tracks
  <2>3. Close(o) => Close(x)
    BY <1>3, <1>6, <1>7 DEF Loose, Tight, Close
  <2>4. x.pressed = t.out.pressed
    BY <1>3, <1>6 DEF Loose, t
  <2> QED BY <1>3, <2>1, <2>2, <2>3, <2>4 DEF t
<1>8. CASE ~q.ok
  <2>1. r = [q EXCEPT !.out.pressed = @ \union t.removed]
    BY <1>1, <1>8
  <2>2. r.ok = FALSE
    BY <1>3, <1>8, <2>1
  <2>3. r.out = [x EXCEPT !.pressed = @ \union t.removed]
    BY <1>3, <1>6, <2>1
  <2>4. PICK y : y = r.out
    OBVIOUS
  <2>5. /\ y \in Output /\ y.down = x.down
        /\ y.pressed = x.pressed \union t.removed
    BY <1>5, <2>3, <2>4 DEF Output
  <2>6. \A d \in Device : \A c \in OneHome :
           c \in x.down[d] => Homes(c) = {d} /\ c \in x.pressed \union t.removed
    BY <1>3, <1>6 DEF Loose, t
  <2>7. Tracks(y)
    BY <2>5, <2>6 DEF Tracks
  <2> QED BY <2>2, <2>4, <2>7
<1> QED BY <1>7, <1>8

\* A batch of the releases of all keys in the set empties it.
LEMMA ReleasesEmpty ==
    ASSUME NEW o \in Output, NEW events \in Releases(o)
    PROVE  events \in Seq(Event) /\ Tracked(o, events).out.pressed = {}
<1> DEFINE n == Cardinality(o.pressed)
           t == Tracking(o, events)
<1>1. n \in Nat
  <2>1. o.pressed \subseteq Code
    BY CodeAssumption DEF Output
  <2>2. IsFiniteSet(o.pressed)
    BY <2>1, CodeAssumption, FS_Subset
  <2> QED BY <2>2, FS_CardinalityType
<1> HIDE DEF n
<1>2. PICK keys \in [1 .. n -> o.pressed] :
          /\ \A c \in o.pressed : \E i \in 1 .. n : keys[i] = c
          /\ events = [i \in 1 .. n |-> [code |-> keys[i], value |-> 0]]
  BY DEF Releases, n
<1>3. ASSUME NEW i \in 1 .. n
      PROVE  /\ events[i] = [code |-> keys[i], value |-> 0]
             /\ events[i] \in Event
  <2>1. events[i] = [code |-> keys[i], value |-> 0] /\ keys[i] \in o.pressed
    BY <1>2
  <2>2. keys[i] \in Button /\ keys[i] \in Code
    BY <2>1, CodeAssumption DEF Output
  <2>3. [code |-> keys[i], value |-> 0] \in Event
    BY <2>2 DEF Event
  <2> QED BY <2>1, <2>3
<1>4. events \in Seq(Event) /\ Len(events) = n
  BY <1>1, <1>2, <1>3, IsASeq, LenProperties
<1>5. ASSUME NEW c \in Button, c \in t[n].out.pressed PROVE FALSE
  <2> DEFINE S == {i \in Nat : c \in t[i].out.pressed =>
                                   c \in o.pressed /\ \A j \in 1 .. i : keys[j] # c}
  <2>1. t[0].out = o
    BY <1>4, TrackingStart
  <2>2. 0 \in S
    BY <2>1
  <2>3. \A i \in 1 .. n : i - 1 \in S => i \in S
    <3>1. SUFFICES ASSUME NEW i \in 1 .. n, i - 1 \in S, c \in t[i].out.pressed
                   PROVE  c \in o.pressed /\ \A j \in 1 .. i : keys[j] # c
      BY <1>1
    <3>2. events[i].code = keys[i] /\ events[i].value = 0
      <4>1. PICK e : e = events[i]
        OBVIOUS
      <4>2. e = [code |-> keys[i], value |-> 0]
        BY <1>3, <4>1
      <4> QED BY <4>1, <4>2
    <3>3. c \in t[i].out.pressed <=>
             IF i \in Moves(events, c) THEN events[i].value = 1 ELSE c \in t[i - 1].out.pressed
      BY <1>4, TrackingMoves
    <3>4. i \in Moves(events, c) <=> keys[i] = c
      BY <1>4, <3>2 DEF Moves
    <3>5. keys[i] # c /\ c \in t[i - 1].out.pressed
      BY <3>1, <3>2, <3>3, <3>4
    <3>6. \A j \in 1 .. i : j = i \/ j \in 1 .. i - 1
      BY <1>1
    <3> QED BY <3>1, <3>5, <3>6
  <2>4. \A i \in 0 .. n : i \in S
    <3> HIDE DEF S
    <3> QED BY <1>1, <2>2, <2>3, AlongBatch
  <2>5. n \in S
    BY <1>1, <2>4
  <2> QED BY <1>2, <1>5, <2>5
<1>6. t[n].out \in Output
  BY <1>1, <1>4, TrackingFields
<1>7. t[n].out.pressed = {}
  BY <1>5, <1>6 DEF Output
<1> QED BY <1>4, <1>7 DEF Tracked

\* release_all keeps what a write keeps, and leaves nothing held if it
\* succeeds.
LEMMA ReleaseAllKeeps ==
    ASSUME NEW o, Tracks(o), NEW r \in ReleaseAll(o)
    PROVE  /\ r.ok \in BOOLEAN
           /\ Tracks(r.out)
           /\ r.ok /\ Close(o) => Close(r.out)
           /\ r.ok => \A c \in OneHome : \A d \in Device : c \notin r.out.down[d]
<1>1. PICK events \in Releases(o) : r \in Write(o, events)
  BY DEF ReleaseAll
<1>2. o \in Output
  BY DEF Tracks
<1>3. events \in Seq(Event) /\ Tracked(o, events).out.pressed = {}
  BY <1>1, <1>2, ReleasesEmpty
<1>4. /\ r.ok \in BOOLEAN
      /\ Tracks(r.out)
      /\ r.ok /\ Close(o) => Close(r.out)
      /\ r.ok => r.out.pressed = Tracked(o, events).out.pressed
  BY <1>1, <1>3, WriteKeeps
<1>5. r.ok => \A c \in OneHome : \A d \in Device : c \notin r.out.down[d]
  BY <1>3, <1>4 DEF Tracks
<1> QED BY <1>4, <1>5

-----------------------------------------------------------------------------
(* The session.                                                            *)

\* The instance shares the state and what is said of it.
LEMMA SameOutput ==
    /\ O!Output = Output /\ O!Event = Event /\ O!Device = Device
    /\ \A c : O!Homes(c) = Homes(c)
    /\ \A o, events : O!Write(o, events) = Write(o, events)
    /\ \A o : O!ReleaseAll(o) = ReleaseAll(o)
<1>1. /\ O!Output = Output /\ O!Event = Event /\ O!Device = Device
      /\ \A c : O!Homes(c) = Homes(c)
  BY DEF O!Output, Output, O!Event, Event, O!Device, Device, O!Homes, Homes
<1>2. \A S : O!Cardinality(S) = Cardinality(S)
  BY Zenon DEF O!Cardinality, Cardinality
<1>3. \A o, d, events, part : O!PutAll(o, d, events, part) = PutAll(o, d, events, part)
  BY Zenon DEF O!PutAll, PutAll, O!Kernel, Kernel, O!Put, Put, O!Homes, Homes, O!Device, Device
<1>4. ASSUME NEW o, NEW d, NEW events, NEW part
      PROVE  O!Emit(o, d, events, part) = Emit(o, d, events, part)
  <2> DEFINE Upto(n) == {i \in part : i <= n}
             Some == {[out |-> PutAll(o, d, events, Upto(n)), ok |-> FALSE] :
                         n \in 0 .. Len(events)}
             OSome == {[out |-> O!PutAll(o, d, events, Upto(n)), ok |-> FALSE] :
                          n \in 0 .. Len(events)}
  <2>1. Some = OSome
    BY <1>3
  <2>2. O!PutAll(o, d, events, part) = PutAll(o, d, events, part)
    BY <1>3
  <2>3. O!Emit(o, d, events, part) =
          IF part = {} THEN {[out |-> o, ok |-> TRUE]}
          ELSE {[out |-> O!PutAll(o, d, events, part), ok |-> TRUE]} \union OSome
    BY DEF O!Emit
  <2>4. Emit(o, d, events, part) =
          IF part = {} THEN {[out |-> o, ok |-> TRUE]}
          ELSE {[out |-> PutAll(o, d, events, part), ok |-> TRUE]} \union Some
    BY DEF Emit
  <2> HIDE DEF Upto, Some, OSome
  <2> QED BY <2>1, <2>2, <2>3, <2>4
<1>5. \A d, events, sent : O!CountFor(d, events, sent) = CountFor(d, events, sent)
  BY Zenon DEF O!CountFor, CountFor, O!Takes, Takes, O!Homes, Homes, O!Device, Device,
         O!Cardinality, Cardinality
<1>6. \A c, events, sent : O!Dest(c, events, sent) = Dest(c, events, sent)
  BY Zenon DEF O!Dest, Dest, O!CountFor, CountFor, O!Takes, Takes, O!Homes, Homes,
         O!Device, Device, O!Cardinality, Cardinality
<1>7. ASSUME NEW o, NEW events, NEW sent
      PROVE  O!EmitRouted(o, events, sent) = EmitRouted(o, events, sent)
  <2> DEFINE
        Part(d) == {i \in sent : Dest(events[i].code, events, sent) = d}
        OPart(d) == {i \in sent : O!Dest(events[i].code, events, sent) = d}
        Then(results, d) ==
            UNION {IF r.ok THEN Emit(r.out, d, events, Part(d)) ELSE {r} : r \in results}
        OThen(results, d) ==
            UNION {IF r.ok THEN O!Emit(r.out, d, events, OPart(d)) ELSE {r} : r \in results}
  <2>1. \A d : OPart(d) = Part(d)
    BY <1>6
  <2>2. ASSUME NEW results, NEW d
        PROVE  OThen(results, d) = Then(results, d)
    <3>1. PICK p : p = Part(d) /\ p = OPart(d)
      BY <2>1
    <3>2. \A r : O!Emit(r.out, d, events, p) = Emit(r.out, d, events, p)
      BY <1>4
    <3>3. OThen(results, d) =
            UNION {IF r.ok THEN O!Emit(r.out, d, events, p) ELSE {r} : r \in results}
      BY <3>1 DEF OThen
    <3>4. Then(results, d) =
            UNION {IF r.ok THEN Emit(r.out, d, events, p) ELSE {r} : r \in results}
      BY <3>1 DEF Then
    <3>5. {IF r.ok THEN O!Emit(r.out, d, events, p) ELSE {r} : r \in results} =
            {IF r.ok THEN Emit(r.out, d, events, p) ELSE {r} : r \in results}
      BY <3>2
    <3> QED BY <3>3, <3>4, <3>5
  <2>3. \A d, p : O!Emit(o, d, events, p) = Emit(o, d, events, p)
    BY <1>4
  <2>4. PICK nk, nm, nt :
          /\ nk = O!CountFor("keyboard", events, sent) /\ nk = CountFor("keyboard", events, sent)
          /\ nm = O!CountFor("mouse", events, sent) /\ nm = CountFor("mouse", events, sent)
          /\ nt = O!CountFor("touchpad", events, sent) /\ nt = CountFor("touchpad", events, sent)
    BY <1>5
  <2>5. PICK n : n = O!Cardinality(sent) /\ n = Cardinality(sent)
    BY <1>2
  <2>6. O!EmitRouted(o, events, sent) =
          CASE nk = n -> O!Emit(o, "keyboard", events, sent)
            [] nk # n /\ nm = n -> O!Emit(o, "mouse", events, sent)
            [] nk # n /\ nm # n /\ nt = n -> O!Emit(o, "touchpad", events, sent)
            [] OTHER -> OThen(OThen(O!Emit(o, "keyboard", events, OPart("keyboard")), "mouse"),
                              "touchpad")
    BY <2>4, <2>5, Zenon DEF O!EmitRouted
  <2>7. EmitRouted(o, events, sent) =
          CASE nk = n -> Emit(o, "keyboard", events, sent)
            [] nk # n /\ nm = n -> Emit(o, "mouse", events, sent)
            [] nk # n /\ nm # n /\ nt = n -> Emit(o, "touchpad", events, sent)
            [] OTHER -> Then(Then(Emit(o, "keyboard", events, Part("keyboard")), "mouse"),
                             "touchpad")
    BY <2>4, <2>5, Zenon DEF EmitRouted
  <2> HIDE DEF Part, OPart, Then, OThen
  <2> QED BY <2>1, <2>2, <2>3, <2>6, <2>7
<1>8. \A o, events : O!Tracking(o, events) = Tracking(o, events)
  BY Zenon DEF O!Tracking, Tracking, O!Note, Note, O!Track, Track, O!Deliverable, Deliverable
<1>9. \A o, events : O!Write(o, events) = Write(o, events)
  BY Zenon, <1>7, <1>8 DEF O!Write, Write, O!Tracked, Tracked
<1>10. \A o : O!Releases(o) = Releases(o)
  BY Zenon DEF O!Releases, Releases, O!Cardinality, Cardinality
<1>11. \A o : O!ReleaseAll(o) = ReleaseAll(o)
  BY <1>9, <1>10 DEF O!ReleaseAll, ReleaseAll
<1> QED BY <1>1, <1>9, <1>11

\* The inductive invariant: every device holds what is in the set and its own
\* keys only; as long as no write failed it holds all of that; and a session
\* that is not active has nothing to write.
DevicesInv ==
    /\ OutputTypeOK
    /\ Tracks(out)
    /\ ~failed => Close(out)
    /\ ~active => pending = <<>>
    /\ IdleHoldsNothing

LEMMA InitDevices == ASSUME O!Init PROVE DevicesInv
<1>1. out = [pressed |-> {}, recent |-> {}, down |-> [d \in Device |-> {}], stray |-> FALSE]
  BY SameOutput DEF O!Init
<1>2. pending = <<>> /\ active = FALSE /\ unreleased = FALSE /\ failed = FALSE
  BY DEF O!Init
<1>3. /\ out \in Output /\ out.pressed = {} /\ out.stray = FALSE
      /\ \A d \in Device : out.down[d] = {}
  BY <1>1 DEF Output
<1>4. pending \in Seq(Event) /\ Len(pending) <= MaxPending
  BY <1>2, BoundsAssumption, EmptySeq
<1>5. OutputTypeOK
  BY <1>2, <1>3, <1>4 DEF OutputTypeOK
<1>6. Tracks(out) /\ Close(out)
  BY <1>3 DEF Tracks, Close
<1>7. IdleHoldsNothing
  BY <1>3 DEF IdleHoldsNothing, Held
<1> QED BY <1>2, <1>5, <1>6, <1>7 DEF DevicesInv

\* What a step has to show, once it is known what it wrote.
LEMMA DevicesKept ==
    ASSUME out' \in Output, Tracks(out'), ~failed' => Close(out'),
           pending' \in Seq(Event), Len(pending') <= MaxPending, ~active' => pending' = <<>>,
           active' \in BOOLEAN, unreleased' \in BOOLEAN, failed' \in BOOLEAN,
           ~active' /\ ~unreleased' =>
               \A c \in OneHome : \A d \in Device : c \notin out'.down[d]
    PROVE  DevicesInv'
<1>1. OutputTypeOK'
  BY DEF OutputTypeOK
<1>2. IdleHoldsNothing'
  BY DEF IdleHoldsNothing, Held
<1> QED BY <1>1, <1>2 DEF DevicesInv, Tracks, Close

LEMMA NothingPending == <<>> \in Seq(Event) /\ Len(<<>>) <= MaxPending
  BY BoundsAssumption, EmptySeq

LEMMA NextDevices == ASSUME DevicesInv, [O!Next]_O!vars PROVE DevicesInv'
<1>1. /\ out \in Output /\ Tracks(out) /\ (~failed => Close(out))
      /\ pending \in Seq(Event) /\ Len(pending) <= MaxPending
      /\ active \in BOOLEAN /\ unreleased \in BOOLEAN /\ failed \in BOOLEAN
      /\ (~active => pending = <<>>)
  BY DEF DevicesInv, OutputTypeOK
<1>2. ~active /\ ~unreleased => \A c \in OneHome : \A d \in Device : c \notin out.down[d]
  BY DEF DevicesInv, IdleHoldsNothing, Held
<1>3. ASSUME NEW r \in Write(out, pending), out' = r.out, failed' = (failed \/ ~r.ok)
      PROVE  /\ out' \in Output /\ Tracks(out')
             /\ failed' \in BOOLEAN /\ (~failed' => Close(out'))
  <2>1. /\ r.ok \in BOOLEAN /\ Tracks(r.out)
        /\ (r.ok /\ Close(out) => Close(r.out))
    BY <1>1, WriteKeeps
  <2>2. failed' \in BOOLEAN
    BY <1>3
  <2>3. ~failed' => ~failed /\ r.ok
    BY <1>3
  <2> QED BY <1>1, <1>3, <2>1, <2>2, <2>3 DEF Tracks
<1>4. CASE O!Input
  <2>1. PICK n \in 1 .. MaxBatch : \E batch \in [1 .. n -> Event] :
          Len(pending) + n <= MaxPending /\ pending' = pending \o batch
    BY <1>4, SameOutput DEF O!Input
  <2>2. PICK batch \in [1 .. n -> Event] :
          Len(pending) + n <= MaxPending /\ pending' = pending \o batch
    BY <2>1
  <2>3. n \in Nat
    BY BoundsAssumption
  <2>4. batch \in Seq(Event) /\ Len(batch) = n
    BY <2>3, IsASeq, LenProperties
  <2>5. pending' \in Seq(Event) /\ Len(pending') = Len(pending) + n
    BY <1>1, <2>2, <2>4, ConcatProperties
  <2>6. active /\ UNCHANGED <<out, active, unreleased, failed>>
    BY <1>4 DEF O!Input
  <2> QED BY <1>1, <1>2, <2>2, <2>5, <2>6, DevicesKept
<1>5. CASE O!Flush
  <2>1. PICK r \in Write(out, pending) : out' = r.out /\ failed' = (failed \/ ~r.ok)
    BY <1>5, SameOutput DEF O!Flush, O!Flushed
  <2>2. pending # <<>> /\ pending' = <<>> /\ UNCHANGED <<active, unreleased>>
    BY <1>5 DEF O!Flush
  <2> QED BY <1>1, <1>3, <2>1, <2>2, NothingPending, DevicesKept
<1>6. CASE O!SwitchOn
  <2>1. PICK r \in Write(out, pending) : out' = r.out /\ failed' = (failed \/ ~r.ok)
    BY <1>6, SameOutput DEF O!SwitchOn, O!Flushed
  <2>2. pending' = <<>> /\ active' = TRUE /\ unreleased' = unreleased
    BY <1>6 DEF O!SwitchOn
  <2> QED BY <1>1, <1>3, <2>1, <2>2, NothingPending, DevicesKept
<1>7. CASE O!SwitchOff
  <2>1. PICK f \in Write(out, pending) : \E r \in ReleaseAll(f.out) :
          out' = r.out /\ unreleased' = ~r.ok /\ failed' = (failed \/ ~r.ok \/ ~f.ok)
    BY <1>7, SameOutput DEF O!SwitchOff, O!Flushed
  <2>2. PICK r \in ReleaseAll(f.out) :
          out' = r.out /\ unreleased' = ~r.ok /\ failed' = (failed \/ ~r.ok \/ ~f.ok)
    BY <2>1
  <2>3. /\ f.ok \in BOOLEAN /\ Tracks(f.out)
        /\ (f.ok /\ Close(out) => Close(f.out))
    BY <1>1, WriteKeeps
  <2>4. /\ r.ok \in BOOLEAN /\ Tracks(r.out)
        /\ (r.ok /\ Close(f.out) => Close(r.out))
        /\ (r.ok => \A c \in OneHome : \A d \in Device : c \notin r.out.down[d])
    BY <2>3, ReleaseAllKeeps
  <2>5. failed' \in BOOLEAN /\ unreleased' \in BOOLEAN
    BY <2>2
  <2>6. (~failed' => ~failed /\ r.ok /\ f.ok) /\ (~unreleased' => r.ok)
    BY <2>2, <2>4
  <2>7. pending' = <<>> /\ active' = FALSE
    BY <1>7 DEF O!SwitchOff
  <2>8. Tracks(out') /\ (~failed' => Close(out'))
    BY <1>1, <2>2, <2>3, <2>4, <2>6
  <2>9. ~unreleased' => \A c \in OneHome : \A d \in Device : c \notin out'.down[d]
    BY <2>2, <2>4, <2>6
  <2>10. out' \in Output
    BY <2>8 DEF Tracks
  <2> QED BY <2>5, <2>7, <2>8, <2>9, <2>10, NothingPending, DevicesKept
<1>8. CASE O!Lose
  <2>1. PICK r \in ReleaseAll(out) :
          out' = r.out /\ unreleased' = ~r.ok /\ failed' = (failed \/ ~r.ok)
    BY <1>8, SameOutput DEF O!Lose
  <2>2. /\ r.ok \in BOOLEAN /\ Tracks(r.out)
        /\ (r.ok /\ Close(out) => Close(r.out))
        /\ (r.ok => \A c \in OneHome : \A d \in Device : c \notin r.out.down[d])
    BY <1>1, ReleaseAllKeeps
  <2>3. failed' \in BOOLEAN /\ unreleased' \in BOOLEAN
    BY <2>1
  <2>4. (~failed' => ~failed /\ r.ok) /\ (~unreleased' => r.ok)
    BY <2>1, <2>2
  <2>5. pending' = <<>> /\ active' = FALSE
    BY <1>8 DEF O!Lose
  <2>6. Tracks(out') /\ (~failed' => Close(out'))
    BY <1>1, <2>1, <2>2, <2>4
  <2>7. ~unreleased' => \A c \in OneHome : \A d \in Device : c \notin out'.down[d]
    BY <2>1, <2>2, <2>4
  <2>8. out' \in Output
    BY <2>6 DEF Tracks
  <2> QED BY <2>3, <2>5, <2>6, <2>7, <2>8, NothingPending, DevicesKept
<1>9. CASE O!Datagram
  <2>1. PICK c \in Code \ Button :
          \E r \in Write(out, <<[code |-> c, value |-> 1]>>) :
             out' = r.out /\ failed' = (failed \/ ~r.ok)
    BY <1>9, SameOutput DEF O!Datagram
  <2>2. PICK e : e = [code |-> c, value |-> 1]
    OBVIOUS
  <2>3. e \in Event
    BY <2>2, CodeAssumption DEF Event
  <2>4. <<e>> \in Seq(Event)
    BY <2>3
  <2>5. PICK r \in Write(out, <<e>>) : out' = r.out /\ failed' = (failed \/ ~r.ok)
    BY <2>1, <2>2
  <2>6. /\ r.ok \in BOOLEAN /\ Tracks(r.out)
        /\ (r.ok /\ Close(out) => Close(r.out))
    BY <1>1, <2>4, WriteKeeps
  <2>7. failed' \in BOOLEAN /\ (~failed' => ~failed /\ r.ok)
    BY <2>5
  <2>8. active /\ UNCHANGED <<pending, active, unreleased>>
    BY <1>9 DEF O!Datagram
  <2>9. Tracks(out') /\ (~failed' => Close(out')) /\ out' \in Output
    BY <1>1, <2>5, <2>6, <2>7 DEF Tracks
  <2> QED BY <1>1, <2>7, <2>8, <2>9, DevicesKept
<1>10. CASE O!Tick
  <2>1. out' = [out EXCEPT !.recent = {}] /\ UNCHANGED <<pending, active, unreleased, failed>>
    BY <1>10 DEF O!Tick
  <2>2. /\ out' \in Output /\ out'.down = out.down
        /\ out'.pressed = out.pressed /\ out'.stray = out.stray
    BY <1>1, <2>1 DEF Output
  <2>3. Tracks(out') /\ (~failed' => Close(out'))
    BY <1>1, <2>1, <2>2 DEF Tracks, Close
  <2> QED BY <1>1, <1>2, <2>1, <2>2, <2>3, DevicesKept
<1>11. CASE UNCHANGED O!vars
  <2>1. UNCHANGED <<out, pending, active, unreleased, failed>>
    BY <1>11 DEF O!vars
  <2> QED BY <1>1, <1>2, <2>1, DevicesKept
<1> QED BY <1>4, <1>5, <1>6, <1>7, <1>8, <1>9, <1>10, <1>11 DEF O!Next

\* DevicesInv holds in every reachable state of the session: the set of pressed
\* keys follows every write, whole, half done or refused.
THEOREM DevicesInvariance == O!Spec => []DevicesInv
  BY InitDevices, NextDevices, PTL DEF O!Spec

\* What a device holds of a key of its own is always in the set release_all
\* works from, also after writes that failed half way through a mixed batch;
\* and as long as no write failed no device repeats a key it does not hold.
THEOREM OutputTracked == O!Spec => []OutputInv
<1>1. DevicesInv => OutputInv
  BY DEF DevicesInv, OutputInv, HeldIsTracked, NoStrayRepeat, Held, Tracks, Close
<1> QED BY <1>1, DevicesInvariance, PTL

\* A session that was switched away from, or lost, and whose release_all went
\* through leaves no device with a key of its own held, whatever input of the
\* same chunk came before the switch.
THEOREM IdleLetsGo == O!Spec => []IdleHoldsNothing
<1>1. DevicesInv => IdleHoldsNothing
  BY DEF DevicesInv
<1> QED BY <1>1, DevicesInvariance, PTL

=============================================================================
