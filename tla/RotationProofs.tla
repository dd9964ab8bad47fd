--------------------------- MODULE RotationProofs ---------------------------
(***************************************************************************)
(* Proofs about Rotation, for every set of endpoints and every bound.      *)
(*                                                                         *)
(* A handler writes to several clients and may lose any of them half way,  *)
(* so the argument is about the states BETWEEN the calls of a handler.     *)
(* Tidy is what every helper preserves: it is the inductive invariant,     *)
(* weakened by "old", the client that a switch has already left and not    *)
(* yet deactivated.  There is one lemma per helper, in the order of        *)
(* Rotation, and one per handler; the theorems combine them.               *)
(***************************************************************************)
EXTENDS Rotation, FiniteSetTheorems, TLAPS

\* Recovery is armed only while input is on the local machine.
Armed(s) == s.silenced # None \/ s.removed # None => s.current = None

\* Tidy without Armed, which the middle of a removal breaks.
Body(s, old) ==
    /\ Typed(s)
    /\ s.grab = [client |-> s.current # None, paused |-> s.paused]
    /\ DOMAIN s.clients \subseteq DOMAIN s.live
    /\ s.keys => s.current = None /\ ~s.paused
    /\ \A e \in DOMAIN s.clients :
          /\ s.clients[e].active => e \in {s.current, old}
          /\ s.clients[e].keys => e \in {s.current, old} /\ ~s.paused

Tidy(s, old) == Body(s, old) /\ Armed(s)

Connected(s) == s.current \in DOMAIN s.clients \union {None}

\* What failed writes do between s and t, and all they do to the clients:
\* some are gone, the others' streams are as they were.
Loses(s, t) ==
    /\ DOMAIN t.clients \subseteq DOMAIN s.clients
    /\ \A e \in DOMAIN t.clients : t.clients[e] = s.clients[e]
    /\ t.keys => s.keys
    /\ t.paused = s.paused
    /\ t.current \in {s.current, None}
    /\ Connected(s) => Connected(t)

-----------------------------------------------------------------------------
(* The helpers.                                                            *)

\* A fresh liveness record is one.
LEMMA HeardType == Heard \in Liveness
  BY BoundsAssumption DEF Heard, Liveness

\* set_and_grab_current_client leaves every field within its type.
LEMMA SetAndGrabTyped ==
    ASSUME NEW s, NEW client \in Endpoint \union {None}, Typed(s)
    PROVE  Typed(SetAndGrab(s, client))
<1> DEFINE t == SetAndGrab(s, client)
<1>1. t.clients = s.clients
  BY DEF Typed, Struct, SetAndGrab
<1>2. /\ DOMAIN t.live \subseteq Endpoint
      /\ t.live \in [DOMAIN t.live -> Liveness]
  BY HeardType DEF Typed, Struct, SetAndGrab
<1>3. t.file \in Fingerprint \union {None}
  BY DEF Typed, Struct, SetAndGrab, Fingerprint
<1>4. /\ t.silenced \in Endpoint \union {None}
      /\ t.current \in Endpoint \union {None}
  BY DEF Typed, Struct, SetAndGrab
<1>5. t.grab \in [client : BOOLEAN, paused : BOOLEAN]
  BY DEF Typed, Struct, SetAndGrab
<1>6. t.keys \in BOOLEAN
  BY DEF Typed, Struct, SetAndGrab
<1>7. /\ DOMAIN t = DOMAIN s
      /\ t.pending = s.pending /\ t.removed = s.removed /\ t.recent = s.recent
      /\ t.clip = s.clip /\ t.window = s.window /\ t.held = s.held
      /\ t.paused = s.paused
  BY DEF Typed, Struct, SetAndGrab
<1>8. t \in Struct(t.clients, t.live)
  BY <1>1, <1>3, <1>4, <1>5, <1>6, <1>7 DEF Typed, Struct, SetAndGrab
<1> QED BY <1>1, <1>2, <1>8 DEF Typed

\* What set_and_grab_current_client does to the fields Tidy is about.
LEMMA SetAndGrabFields ==
    ASSUME NEW s, NEW client \in Endpoint \union {None}, Typed(s),
           NEW t, t = SetAndGrab(s, client)
    PROVE  /\ t.clients = s.clients /\ t.current = client
           /\ t.paused = s.paused /\ t.removed = s.removed
           /\ t.keys = (s.keys /\ ~(s.current = None /\ client # None))
           /\ t.grab = [client |-> client # None, paused |-> s.paused]
           /\ t.silenced = IF client = None THEN s.silenced ELSE None
           /\ DOMAIN s.live \subseteq DOMAIN t.live
  BY DEF Typed, Struct, SetAndGrab

\* The target moves: the one it leaves is not deactivated yet.
LEMMA SetAndGrabLeaves ==
    ASSUME NEW s, NEW client \in Endpoint \union {None}, Tidy(s, None),
           s.removed = None
    PROVE  LET t == SetAndGrab(s, client)
           IN  /\ Tidy(t, s.current) /\ t.current = client
               /\ t.clients = s.clients /\ t.paused = s.paused
<1> DEFINE t == SetAndGrab(s, client)
<1>1. Typed(t)
  BY SetAndGrabTyped DEF Tidy, Body
<1>2. /\ t.clients = s.clients /\ t.current = client
      /\ t.paused = s.paused /\ t.removed = s.removed
      /\ t.keys = (s.keys /\ ~(s.current = None /\ client # None))
      /\ t.grab = [client |-> client # None, paused |-> s.paused]
      /\ t.silenced = IF client = None THEN s.silenced ELSE None
      /\ DOMAIN s.live \subseteq DOMAIN t.live
  BY SetAndGrabFields DEF Tidy, Body
<1>3. DOMAIN s.clients \subseteq Endpoint /\ None \notin Endpoint
  BY NoneAssumption DEF Tidy, Body, Typed
<1>4. s.keys \in BOOLEAN
  BY DEF Tidy, Body, Typed, Struct
<1>5. \A e \in DOMAIN t.clients :
          /\ t.clients[e].active => e \in {t.current, s.current}
          /\ t.clients[e].keys => e \in {t.current, s.current} /\ ~t.paused
  BY <1>2, <1>3 DEF Tidy, Body
<1>6. t.keys => t.current = None /\ ~t.paused
  BY <1>2, <1>4 DEF Tidy, Body
<1> HIDE DEF t
<1>7. Tidy(t, s.current)
  BY <1>1, <1>2, <1>5, <1>6 DEF Tidy, Body, Armed
<1> QED BY <1>2, <1>7 DEF t

\* The target is gone from the list: input comes home.
LEMMA SetAndGrabHome ==
    ASSUME NEW s, NEW old, Body(s, old), s.current \notin DOMAIN s.clients
    PROVE  LET t == SetAndGrab(s, None)
           IN  /\ Tidy(t, old) /\ Loses(s, t)
               /\ t.clients = s.clients /\ t.current = None
<1> DEFINE t == SetAndGrab(s, None)
<1>1. Typed(t)
  BY SetAndGrabTyped DEF Body
<1>2. /\ t.clients = s.clients /\ t.current = None
      /\ t.paused = s.paused
      /\ t.keys = (s.keys /\ ~(s.current = None /\ None # None))
      /\ t.grab = [client |-> None # None, paused |-> s.paused]
      /\ DOMAIN s.live \subseteq DOMAIN t.live
  BY SetAndGrabFields DEF Body
<1>3. s.keys \in BOOLEAN
  BY DEF Body, Typed, Struct
<1>4. \A e \in DOMAIN t.clients :
          /\ t.clients[e].active => e \in {t.current, old}
          /\ t.clients[e].keys => e \in {t.current, old} /\ ~t.paused
  BY <1>2 DEF Body
<1>5. t.keys => s.keys
  BY <1>2, <1>3
<1> HIDE DEF t
<1>6. Body(t, old)
  BY <1>1, <1>2, <1>4, <1>5 DEF Body
<1>7. Tidy(t, old) /\ Loses(s, t)
  BY <1>2, <1>5, <1>6 DEF Tidy, Armed, Loses, Connected
<1> QED BY <1>2, <1>7 DEF t

\* handle_client_removal forgets its clients and nothing else, and input comes
\* home if it was at one of them.
LEMMA HandleRemovalLoses ==
    ASSUME NEW s, NEW old, NEW gone, Tidy(s, old)
    PROVE  LET r == HandleRemoval(s, gone)
           IN  /\ Tidy(r, old) /\ Loses(s, r)
               /\ DOMAIN r.clients = DOMAIN s.clients \ gone
<1> DEFINE lost == gone \intersect DOMAIN s.clients
           wasCurrent == s.current \in lost
           wasSilenced == ~wasCurrent /\ s.silenced \in lost
           t == [s EXCEPT
                !.live = Restrict(s.live, DOMAIN s.live \ gone),
                !.clients = Restrict(s.clients, DOMAIN s.clients \ gone),
                !.window = s.window \ lost,
                !.removed =
                    CASE wasCurrent ->
                            [endpoint |-> s.current, recoverable |-> TRUE]
                      [] wasSilenced ->
                            [endpoint |-> s.silenced, recoverable |-> TRUE]
                      [] OTHER -> s.removed,
                !.silenced = IF wasSilenced THEN None ELSE s.silenced]
           r == HandleRemoval(s, gone)
<1>1. r = IF wasCurrent THEN SetAndGrab(t, None) ELSE t
  BY DEF HandleRemoval
<1>2. /\ t.clients = Restrict(s.clients, DOMAIN s.clients \ gone)
      /\ t.live = Restrict(s.live, DOMAIN s.live \ gone)
      /\ t.window = s.window \ lost
      /\ t.silenced = IF wasSilenced THEN None ELSE s.silenced
      /\ t.removed =
            CASE wasCurrent -> [endpoint |-> s.current, recoverable |-> TRUE]
              [] wasSilenced -> [endpoint |-> s.silenced, recoverable |-> TRUE]
              [] OTHER -> s.removed
      /\ DOMAIN t = DOMAIN s
      /\ t.current = s.current /\ t.paused = s.paused /\ t.keys = s.keys
      /\ t.grab = s.grab /\ t.file = s.file /\ t.pending = s.pending
      /\ t.recent = s.recent /\ t.clip = s.clip /\ t.held = s.held
  BY DEF Tidy, Body, Typed, Struct
<1>3. /\ DOMAIN s.clients \subseteq Endpoint /\ None \notin Endpoint
      /\ s.clients \in [DOMAIN s.clients -> Entry]
      /\ DOMAIN s.live \subseteq Endpoint
      /\ s.live \in [DOMAIN s.live -> Liveness]
  BY NoneAssumption DEF Tidy, Body, Typed
<1>4. /\ DOMAIN t.clients = DOMAIN s.clients \ gone
      /\ \A e \in DOMAIN t.clients : t.clients[e] = s.clients[e]
      /\ DOMAIN t.live = DOMAIN s.live \ gone
      /\ \A e \in DOMAIN t.live : t.live[e] = s.live[e]
      /\ t.clients \in [DOMAIN t.clients -> Entry]
      /\ t.live \in [DOMAIN t.live -> Liveness]
  BY <1>2, <1>3 DEF Restrict
<1>5. t.removed \in Defunct \union {None}
  <2>1. s.removed \in Defunct \union {None}
    BY DEF Tidy, Body, Typed, Struct
  <2>2. wasCurrent => s.current \in Endpoint
    BY <1>3
  <2>3. wasSilenced => s.silenced \in Endpoint
    BY <1>3
  <2> QED BY <1>2, <2>1, <2>2, <2>3 DEF Defunct
<1>6. t \in Struct(t.clients, t.live)
  <2>1. s \in Struct(s.clients, s.live)
    BY DEF Tidy, Body, Typed
  <2>2. /\ t.window \in SUBSET (Endpoint \union {Local})
        /\ t.silenced \in Endpoint \union {None}
    BY <1>2, <2>1 DEF Struct
  <2>3. t \in [DOMAIN s -> {t[x] : x \in DOMAIN s}]
    OBVIOUS
  <2> HIDE DEF t, lost, wasCurrent, wasSilenced
  <2> QED BY <1>2, <1>5, <2>1, <2>2, <2>3 DEF Struct
<1> HIDE DEF t
<1>7. Body(t, old)
  <2>1. Typed(t)
    BY <1>3, <1>4, <1>6 DEF Typed
  <2>2. \A e \in DOMAIN t.clients :
            /\ t.clients[e].active => e \in {t.current, old}
            /\ t.clients[e].keys => e \in {t.current, old} /\ ~t.paused
    BY <1>2, <1>4 DEF Tidy, Body
  <2> QED BY <1>2, <1>4, <2>1, <2>2 DEF Tidy, Body
<1>8. CASE wasCurrent
  <2>1. s.current \notin DOMAIN t.clients
    BY <1>4, <1>8
  <2>2. r = SetAndGrab(t, None)
    BY <1>1, <1>8
  <2> HIDE DEF r
  <2>3. /\ Tidy(r, old) /\ Loses(t, r)
        /\ r.clients = t.clients /\ r.current = None
    BY <1>2, <1>7, <2>1, <2>2, SetAndGrabHome
  <2>6. Loses(s, r)
    BY <1>2, <1>4, <2>3 DEF Loses, Connected
  <2> QED BY <1>4, <2>3, <2>6 DEF r
<1>9. CASE ~wasCurrent
  <2>1. r = t
    BY <1>1, <1>9
  <2>2. Armed(t)
    BY <1>2, <1>3, <1>9 DEF Tidy, Armed
  <2>3. Loses(s, t)
    BY <1>2, <1>3, <1>4, <1>9 DEF Loses, Connected
  <2> QED BY <1>4, <1>7, <2>1, <2>2, <2>3 DEF Tidy
<1> QED BY <1>8, <1>9

\* Losing clients twice is losing clients.
LEMMA LosesTransitive ==
    ASSUME NEW s, NEW t, NEW u, Loses(s, t), Loses(t, u)
    PROVE  Loses(s, u)
  BY DEF Loses

\* Losing nobody is a loss too.
LEMMA LosesReflexive == \A s : Loses(s, s)
  BY DEF Loses

\* t differs from s only in fields Tidy does not restrict, or in ways it allows.
Aside(s, t) ==
    /\ t \in Struct(t.clients, t.live)
    /\ t.clients = s.clients
    /\ DOMAIN t.live = DOMAIN s.live
    /\ t.live \in [DOMAIN t.live -> Liveness]
    /\ t.current = s.current /\ t.paused = s.paused /\ t.grab = s.grab
    /\ t.keys => s.keys
    /\ t.removed # None => s.removed # None
    /\ t.silenced \in {s.silenced, None}

\* Such a change keeps Tidy and loses nobody.
LEMMA AsideTidy ==
    ASSUME NEW s, NEW t, NEW old, Tidy(s, old), Aside(s, t)
    PROVE  Tidy(t, old) /\ Loses(s, t)
<1>1. Typed(t)
  BY DEF Tidy, Body, Typed, Aside
<1>2. Body(t, old)
  BY <1>1 DEF Tidy, Body, Aside
<1>3. Armed(t)
  BY DEF Tidy, Armed, Aside
<1> QED BY <1>2, <1>3 DEF Tidy, Aside, Loses, Connected

\* clipboard_clear may lose any clients, and nothing else of Tidy's concern.
LEMMA ClipboardClearLoses ==
    ASSUME NEW s, NEW old, Tidy(s, old), NEW t \in ClipboardClear(s)
    PROVE  Tidy(t, old) /\ Loses(s, t)
<1> DEFINE c == [s EXCEPT !.clip = None]
<1>1. Aside(s, c)
  BY DEF Tidy, Body, Typed, Struct, Aside
<1>2. Tidy(c, old) /\ Loses(s, c)
  BY <1>1, AsideTidy
<1>3. PICK gone : t = HandleRemoval(c, gone)
  BY DEF ClipboardClear
<1> HIDE DEF c
<1>4. Tidy(t, old) /\ Loses(c, t)
  BY <1>2, <1>3, HandleRemovalLoses
<1> QED BY <1>2, <1>4, LosesTransitive

\* A set of failed writes loses the clients written to.
LEMMA DropAllLoses ==
    ASSUME NEW s, NEW old, NEW gone, Tidy(s, old), NEW t \in DropAll(s, gone)
    PROVE  /\ Tidy(t, old) /\ Loses(s, t)
           /\ DOMAIN t.clients \intersect gone = {}
<1> DEFINE r == HandleRemoval(s, gone)
<1>1. /\ Tidy(r, old) /\ Loses(s, r)
      /\ DOMAIN r.clients = DOMAIN s.clients \ gone
  BY HandleRemovalLoses
<1>2. t = r \/ t \in ClipboardClear(r)
  BY DEF DropAll
<1> HIDE DEF r
<1>3. CASE t = r
  BY <1>1, <1>3
<1>4. CASE t \in ClipboardClear(r)
  <2>1. Tidy(t, old) /\ Loses(r, t)
    BY <1>1, <1>4, ClipboardClearLoses
  <2>2. Loses(s, t)
    BY <1>1, <2>1, LosesTransitive
  <2> QED BY <1>1, <2>1, <2>2 DEF Loses
<1> QED BY <1>2, <1>3, <1>4

\* send_event sends, or loses its client.
LEMMA SendEventLoses ==
    ASSUME NEW s, NEW old, NEW e, NEW sent, Tidy(s, old),
           NEW t \in SendEvent(s, e, sent)
    PROVE  \/ t = sent /\ e \in DOMAIN s.clients
           \/ Tidy(t, old) /\ Loses(s, t) /\ e \notin DOMAIN t.clients
<1>1. CASE e \notin DOMAIN s.clients
  <2>1. t = s
    BY <1>1 DEF SendEvent
  <2> QED BY <1>1, <2>1, LosesReflexive
<1>2. CASE e \in DOMAIN s.clients
  <2>1. t = sent \/ t \in DropAll(s, {e})
    BY <1>2 DEF SendEvent, Drop
  <2>2. CASE t \in DropAll(s, {e})
    BY <2>2, DropAllLoses
  <2> QED BY <1>2, <2>1, <2>2
<1> QED BY <1>1, <1>2

\* A write that leaves the struct as it is keeps Tidy, failed or not.
LEMMA SendLoses ==
    ASSUME NEW s, NEW old, NEW e, Tidy(s, old), NEW t \in SendEvent(s, e, s)
    PROVE  Tidy(t, old) /\ Loses(s, t)
  BY SendEventLoses, LosesReflexive

\* What sending Switch(enabled) to e does between s and t: Loses, but for the
\* stream of e, which is gone or carried that Switch.
Switched(s, t, e, enabled) ==
    /\ DOMAIN t.clients \subseteq DOMAIN s.clients
    /\ \A x \in DOMAIN t.clients \ {e} : t.clients[x] = s.clients[x]
    /\ e \in DOMAIN t.clients =>
          /\ t.clients[e].active = enabled
          /\ t.clients[e].keys => s.clients[e].keys /\ enabled
          /\ t.clients[e].token = s.clients[e].token
          /\ t.current = s.current
    /\ t.keys => s.keys
    /\ t.paused = s.paused
    /\ t.current \in {s.current, None}
    /\ Connected(s) => Connected(t)

\* The Switch reached the stream: Tidy is kept, and once the client that was
\* left is told, nobody but the current client is active or holds keys.
LEMMA SwitchSent ==
    ASSUME NEW s, NEW old, NEW e \in DOMAIN s.clients, NEW enabled \in BOOLEAN,
           Tidy(s, old), enabled => e = s.current
    PROVE  LET t == [s EXCEPT !.clients =
                      [s.clients EXCEPT ![e] = TakesSwitch(s.clients[e], enabled)]]
           IN  /\ Tidy(t, old) /\ Switched(s, t, e, enabled)
               /\ ~enabled /\ e = old => Tidy(t, None)
<1> DEFINE entry == TakesSwitch(s.clients[e], enabled)
           t == [s EXCEPT !.clients = [s.clients EXCEPT ![e] = entry]]
<1>1. /\ s \in Struct(s.clients, s.live)
      /\ DOMAIN s.clients \subseteq Endpoint /\ None \notin Endpoint
      /\ s.clients \in [DOMAIN s.clients -> Entry]
  BY NoneAssumption DEF Tidy, Body, Typed
<1>2. /\ entry \in Entry /\ entry.active = enabled
      /\ entry.keys => s.clients[e].keys /\ enabled
      /\ entry.token = s.clients[e].token
  <2>1. s.clients[e] \in Entry
    BY <1>1
  <2>2. s.clients[e].keys \in BOOLEAN
    BY <2>1 DEF Entry
  <2> QED BY <2>1, <2>2 DEF Entry, TakesSwitch
<1> HIDE DEF entry
<1>3. /\ t.clients = [s.clients EXCEPT ![e] = entry]
      /\ t.live = s.live /\ t.current = s.current /\ t.paused = s.paused
      /\ t.grab = s.grab /\ t.keys = s.keys /\ t.removed = s.removed
      /\ t.silenced = s.silenced
  BY <1>1 DEF Struct
<1>10. t \in Struct(t.clients, t.live)
  BY <1>1 DEF Struct
<1> HIDE DEF t
<1>4. /\ DOMAIN t.clients = DOMAIN s.clients
      /\ t.clients \in [DOMAIN t.clients -> Entry]
      /\ t.clients[e] = entry
      /\ \A x \in DOMAIN t.clients \ {e} : t.clients[x] = s.clients[x]
  BY <1>1, <1>2, <1>3
<1>5. Typed(t)
  BY <1>1, <1>3, <1>4, <1>10 DEF Tidy, Body, Typed
<1>6. ASSUME NEW x \in DOMAIN t.clients
      PROVE  /\ t.clients[x].active => x \in {t.current, old}
             /\ t.clients[x].keys => x \in {t.current, old} /\ ~t.paused
  BY <1>2, <1>3, <1>4 DEF Tidy, Body
<1>7. Tidy(t, old)
  BY <1>3, <1>4, <1>5, <1>6 DEF Tidy, Body, Armed
<1>8. Switched(s, t, e, enabled)
  BY <1>2, <1>3, <1>4 DEF Switched, Connected
<1>9. ASSUME ~enabled, e = old PROVE Tidy(t, None)
  <2>1. ASSUME NEW x \in DOMAIN t.clients
        PROVE  /\ t.clients[x].active => x \in {t.current, None}
               /\ t.clients[x].keys => x \in {t.current, None} /\ ~t.paused
    BY <1>2, <1>4, <1>6, <1>9
  <2> QED BY <1>7, <2>1 DEF Tidy, Body
<1> QED BY <1>7, <1>8, <1>9 DEF t, entry

\* send_event of a Switch, delivered or not.
LEMMA SendSwitchSwitches ==
    ASSUME NEW s, NEW old, NEW e, NEW enabled \in BOOLEAN,
           Tidy(s, old), enabled => e = s.current,
           NEW t \in SendSwitch(s, e, enabled)
    PROVE  /\ Tidy(t, old) /\ Switched(s, t, e, enabled)
           /\ ~enabled /\ e = old => Tidy(t, None)
<1> DEFINE w == [s EXCEPT !.clients =
                   [s.clients EXCEPT ![e] = TakesSwitch(s.clients[e], enabled)]]
<1>1. \/ t = w /\ e \in DOMAIN s.clients
      \/ Tidy(t, old) /\ Loses(s, t) /\ e \notin DOMAIN t.clients
  BY SendEventLoses DEF SendSwitch
<1>2. CASE t = w /\ e \in DOMAIN s.clients
  BY <1>2, SwitchSent
<1>3. CASE Tidy(t, old) /\ Loses(s, t) /\ e \notin DOMAIN t.clients
  <2>1. Switched(s, t, e, enabled)
    BY <1>3 DEF Loses, Switched
  <2>2. e = old => Tidy(t, None)
    BY <1>3 DEF Tidy, Body
  <2> QED BY <1>3, <2>1, <2>2
<1> QED BY <1>1, <1>2, <1>3

\* send_event_to_remote_client: what was sent went to a connected current
\* client, or writes failed, or input came home from a client that is gone.
LEMMA SendToCurrentLoses ==
    ASSUME NEW s, NEW old, NEW sent, Tidy(s, old),
           NEW t \in SendToCurrent(s, sent)
    PROVE  \/ t = sent /\ s.current \in DOMAIN s.clients
           \/ Tidy(t, old) /\ Loses(s, t)
<1>1. CASE s.current = None
  <2>1. s.current \notin DOMAIN s.clients
    BY <1>1, NoneAssumption DEF Tidy, Body, Typed
  <2>2. t = s
    BY <1>1, <2>1 DEF SendToCurrent
  <2> QED BY <2>2, LosesReflexive
<1>2. CASE s.current # None /\ s.current \in DOMAIN s.clients
  <2>1. t \in SendEvent(s, s.current, sent)
    BY <1>2 DEF SendToCurrent
  <2> QED BY <2>1, SendEventLoses
<1>3. CASE s.current # None /\ s.current \notin DOMAIN s.clients
  <2>1. t = SetAndGrab(s, None)
    BY <1>3 DEF SendToCurrent
  <2> QED BY <1>3, <2>1, SetAndGrabHome DEF Tidy
<1> QED BY <1>1, <1>2, <1>3

\* update_current_client_clipboard changes nothing but by failing.
LEMMA UpdateCurrentClipboardLoses ==
    ASSUME NEW s, NEW old, Tidy(s, old), NEW t \in UpdateCurrentClipboard(s)
    PROVE  Tidy(t, old) /\ Loses(s, t)
<1>1. t = s \/ t \in SendToCurrent(s, s)
  BY DEF UpdateCurrentClipboard
<1> QED BY <1>1, SendToCurrentLoses, LosesReflexive

\* apply_clipboard_source.
LEMMA ApplyClipboardSourceLoses ==
    ASSUME NEW s, NEW old, NEW source \in Endpoint \union {Local},
           Tidy(s, old), NEW t \in ApplyClipboardSource(s, source)
    PROVE  Tidy(t, old) /\ Loses(s, t)
<1> DEFINE c == [s EXCEPT !.clip = source]
<1>1. Aside(s, c)
  BY DEF Tidy, Body, Typed, Struct, Aside
<1>2. t \in UpdateCurrentClipboard(c)
  BY DEF ApplyClipboardSource
<1> HIDE DEF c
<1>3. Tidy(c, old) /\ Loses(s, c)
  BY <1>1, AsideTidy
<1>4. Tidy(t, old) /\ Loses(c, t)
  BY <1>2, <1>3, UpdateCurrentClipboardLoses
<1> QED BY <1>3, <1>4, LosesTransitive

\* flush_pending_local_clipboard.
LEMMA FlushPendingLocalLoses ==
    ASSUME NEW s, NEW old, Tidy(s, old), NEW t \in FlushPendingLocal(s)
    PROVE  Tidy(t, old) /\ Loses(s, t)
<1> DEFINE c == [s EXCEPT !.held = FALSE]
           w == [c EXCEPT !.window = @ \union {Local}]
<1>1. Aside(s, c) /\ Aside(s, w)
  BY DEF Tidy, Body, Typed, Struct, Aside
<1>2. t = s \/ t = c \/ t \in ApplyClipboardSource(w, Local)
  BY DEF FlushPendingLocal
<1> HIDE DEF c, w
<1>3. /\ Tidy(c, old) /\ Loses(s, c)
      /\ Tidy(w, old) /\ Loses(s, w)
  BY <1>1, AsideTidy
<1>4. CASE t \in ApplyClipboardSource(w, Local)
  BY <1>3, <1>4, ApplyClipboardSourceLoses, LosesTransitive
<1> QED BY <1>2, <1>3, <1>4, LosesReflexive

-----------------------------------------------------------------------------
(* Moving the target.                                                      *)

\* The current client's stream last carried Switch(true).
Told(s) ==
    s.current # None => /\ s.current \in DOMAIN s.clients
                        /\ s.clients[s.current].active

\* What a whole move of the target, or several, make of s.
Settled(s, t) ==
    /\ Tidy(t, None) /\ Connected(t)
    /\ DOMAIN t.clients \subseteq DOMAIN s.clients
    /\ \A e \in DOMAIN t.clients : t.clients[e].token = s.clients[e].token
    /\ Told(s) => Told(t)

\* Two calls that leave settled states, one after the other, leave one.
LEMMA SettledTransitive ==
    ASSUME NEW s, NEW t, NEW u, Settled(s, t), Settled(t, u)
    PROVE  Settled(s, u)
  BY DEF Settled

\* Failed writes alone leave a settled state.
LEMMA LosesSettled ==
    ASSUME NEW s, NEW t, Tidy(t, None), Connected(s), Loses(s, t)
    PROVE  Settled(s, t)
<1>1. Told(s) => Told(t)
  BY DEF Told, Loses, Connected
<1> QED BY <1>1 DEF Settled, Loses

\* After the Switch(true) the current client is connected and told, or input
\* is on the local machine.
LEMMA ActivateTells ==
    ASSUME NEW s, NEW old, NEW client, Tidy(s, old),
           client = None => s.current = None, NEW t \in Activate(s, client)
    PROVE  /\ Tidy(t, old) /\ Connected(t) /\ Told(t)
           /\ DOMAIN t.clients \subseteq DOMAIN s.clients
           /\ \A e \in DOMAIN t.clients : t.clients[e].token = s.clients[e].token
           /\ t.paused = s.paused /\ t.current \in {s.current, None}
<1>1. CASE s.current = None
  <2>1. t = s
    BY <1>1 DEF Activate
  <2> QED BY <1>1, <2>1 DEF Connected, Told
<1>2. CASE s.current # None /\ s.current \in DOMAIN s.clients
  <2>1. t \in SendSwitch(s, s.current, TRUE)
    BY <1>2 DEF Activate
  <2>2. Tidy(t, old) /\ Switched(s, t, s.current, TRUE)
    BY <2>1, SendSwitchSwitches
  <2>3. Connected(t)
    BY <1>2, <2>2 DEF Switched, Connected
  <2>4. Told(t)
    BY <2>2, <2>3 DEF Switched, Connected, Told
  <2> QED BY <2>2, <2>3, <2>4 DEF Switched
<1>3. CASE s.current # None /\ s.current \notin DOMAIN s.clients
  <2>1. t = SetAndGrab(s, None)
    BY <1>3 DEF Activate
  <2>2. Tidy(t, old) /\ Loses(s, t) /\ t.current = None
    BY <1>3, <2>1, SetAndGrabHome DEF Tidy
  <2> QED BY <2>2 DEF Loses, Connected, Told
<1> QED BY <1>1, <1>2, <1>3

\* A change of target ends with the new client told and the old one not
\* active any more, or with either lost.
LEMMA ChangeCurrentSettles ==
    ASSUME NEW s, NEW client \in Endpoint \union {None}, Tidy(s, None),
           s.removed = None, client # s.current,
           NEW t \in ChangeCurrent(s, client)
    PROVE  Settled(s, t) /\ Told(t) /\ t.current \in {client, None}
<1> DEFINE g == SetAndGrab(s, client)
<1>1. PICK h \in UpdateCurrentClipboard(g) :
        \E u \in Activate(h, client) : t \in Deactivate(u, s.current)
  BY DEF ChangeCurrent
<1>2. PICK u \in Activate(h, client) : t \in Deactivate(u, s.current)
  BY <1>1
<1>3. /\ Tidy(g, s.current) /\ g.current = client
      /\ g.clients = s.clients /\ g.paused = s.paused
  BY SetAndGrabLeaves
<1> HIDE DEF g
<1>4. Tidy(h, s.current) /\ Loses(g, h)
  BY <1>3, UpdateCurrentClipboardLoses
<1>5. client = None => h.current = None
  BY <1>3, <1>4 DEF Loses
<1>6. /\ Tidy(u, s.current) /\ Connected(u) /\ Told(u)
      /\ DOMAIN u.clients \subseteq DOMAIN h.clients
      /\ \A e \in DOMAIN u.clients : u.clients[e].token = h.clients[e].token
      /\ u.paused = h.paused /\ u.current \in {h.current, None}
  BY <1>4, <1>5, ActivateTells
<1>7. /\ DOMAIN u.clients \subseteq DOMAIN s.clients
      /\ \A e \in DOMAIN u.clients : u.clients[e].token = s.clients[e].token
      /\ u.paused = s.paused /\ u.current \in {client, None}
  BY <1>3, <1>4, <1>6 DEF Loses
<1>8. CASE s.current = None
  <2>1. t = u
    BY <1>2, <1>8 DEF Deactivate
  <2> QED BY <1>6, <1>7, <1>8, <2>1 DEF Settled
<1>9. CASE s.current # None
  <2>1. t \in SendSwitch(u, s.current, FALSE)
    BY <1>2, <1>9 DEF Deactivate
  <2>2. Tidy(t, None) /\ Switched(u, t, s.current, FALSE)
    BY <1>6, <2>1, SendSwitchSwitches
  <2>3. Connected(t)
    BY <1>6, <2>2 DEF Switched
  <2>4. Told(t)
    BY <1>6, <1>7, <2>2, <2>3 DEF Switched, Connected, Told
  <2>5. t.current \in {client, None}
    BY <1>7, <2>2 DEF Switched
  <2> QED BY <1>7, <2>2, <2>3, <2>4, <2>5 DEF Settled, Switched
<1> QED BY <1>8, <1>9

\* update_current_client.
LEMMA UpdateCurrentSettles ==
    ASSUME NEW s, NEW client \in Endpoint \union {None}, Tidy(s, None),
           Connected(s), NEW t \in UpdateCurrent(s, client)
    PROVE  Settled(s, t) /\ t.current \in {client, None}
<1>1. PICK f \in FlushPendingLocal(s) :
        LET u == [f EXCEPT !.removed = None]
        IN  t \in IF client = u.current THEN {u} ELSE ChangeCurrent(u, client)
  BY DEF UpdateCurrent
<1> DEFINE u == [f EXCEPT !.removed = None]
<1>2. Tidy(f, None) /\ Loses(s, f)
  BY FlushPendingLocalLoses
<1>3. Aside(f, u) /\ u.removed = None
  BY <1>2 DEF Tidy, Body, Typed, Struct, Aside
<1>4. (t = u /\ client = u.current) \/ (client # u.current /\ t \in ChangeCurrent(u, client))
  BY <1>1
<1> HIDE DEF u
<1>5. Tidy(u, None) /\ Loses(f, u)
  BY <1>2, <1>3, AsideTidy
<1>6. Settled(s, u)
  BY <1>2, <1>5, LosesTransitive, LosesSettled
<1>7. CASE t = u /\ client = u.current
  BY <1>6, <1>7
<1>8. CASE client # u.current /\ t \in ChangeCurrent(u, client)
  <2>1. Settled(u, t) /\ t.current \in {client, None}
    BY <1>3, <1>5, <1>8, ChangeCurrentSettles
  <2> QED BY <1>6, <2>1, SettledTransitive
<1> QED BY <1>4, <1>7, <1>8

\* No key is held anywhere.
Released(s) == ~s.keys /\ \A e \in DOMAIN s.clients : ~s.clients[e].keys

\* release_current_target_keys.
LEMMA ReleaseSettles ==
    ASSUME NEW s, Tidy(s, None), Connected(s),
           NEW t \in ReleaseCurrentTargetKeys(s)
    PROVE  Settled(s, t) /\ Released(t)
<1>0. DOMAIN s.clients \subseteq Endpoint /\ None \notin Endpoint
  BY NoneAssumption DEF Tidy, Body, Typed
<1>1. CASE s.current = None
  <2> DEFINE k == [s EXCEPT !.keys = FALSE]
  <2>1. t = k
    BY <1>1 DEF ReleaseCurrentTargetKeys
  <2>2. Aside(s, k) /\ ~k.keys
    BY DEF Tidy, Body, Typed, Struct, Aside
  <2> HIDE DEF k
  <2>3. Tidy(k, None) /\ Loses(s, k)
    BY <2>2, AsideTidy
  <2>4. Released(k)
    BY <1>0, <1>1, <2>2, <2>3 DEF Tidy, Body, Released, Loses
  <2> QED BY <2>1, <2>3, <2>4, LosesSettled
<1>2. CASE s.current # None
  <2>1. PICK r \in SendSwitch(s, s.current, FALSE) :
            t \in SendSwitch(r, s.current, TRUE)
    BY <1>2 DEF ReleaseCurrentTargetKeys
  <2>2. Tidy(r, None) /\ Switched(s, r, s.current, FALSE)
    BY SendSwitchSwitches
  <2>3. Released(r)
    BY <1>0, <1>2, <2>2 DEF Switched, Tidy, Body, Released
  <2>4. CASE r.current = s.current
    <3>1. Tidy(t, None) /\ Switched(r, t, s.current, TRUE)
      BY <2>1, <2>2, <2>4, SendSwitchSwitches
    <3>2. Released(t)
      BY <2>3, <3>1 DEF Switched, Released
    <3>3. Connected(t)
      BY <2>2, <3>1 DEF Switched
    <3>4. Told(t)
      BY <2>4, <3>1, <3>3 DEF Switched, Connected, Told
    <3> QED BY <2>2, <3>1, <3>2, <3>3, <3>4 DEF Settled, Switched
  <2>5. CASE r.current # s.current
    <3>1. r.current = None /\ s.current \notin DOMAIN r.clients
      BY <2>2, <2>5 DEF Switched
    <3>2. t = r
      BY <2>1, <3>1 DEF SendSwitch, SendEvent
    <3> QED BY <2>2, <2>3, <3>1, <3>2 DEF Settled, Switched, Connected, Told
  <2> QED BY <2>4, <2>5
<1> QED BY <1>1, <1>2

-----------------------------------------------------------------------------
(* The handlers.                                                           *)

\* A failed write to any set of clients leaves a settled state.
LEMMA DropSettles ==
    ASSUME NEW s, NEW gone, Tidy(s, None), Connected(s),
           NEW t \in DropAll(s, gone)
    PROVE  Settled(s, t)
  BY DropAllLoses, LosesSettled

\* A change aside leaves a settled state.
LEMMA AsideSettles ==
    ASSUME NEW s, NEW t, Tidy(s, None), Connected(s), Aside(s, t)
    PROVE  Settled(s, t)
  BY AsideTidy, LosesSettled

\* An early return leaves a settled state.
LEMMA SettledReflexive ==
    ASSUME NEW s, Tidy(s, None), Connected(s) PROVE Settled(s, s)
  BY DEF Settled

\* A new connection: settled but for its own entry, and the current client is
\* still told unless the entry is in place of its own.
Joined(s, t, e, token) ==
    /\ Tidy(t, None) /\ Connected(t)
    /\ DOMAIN t.clients \subseteq DOMAIN s.clients \union {e}
    /\ \A x \in DOMAIN t.clients \ {e} : t.clients[x].token = s.clients[x].token
    /\ e \in DOMAIN t.clients => t.clients[e].token = token
    /\ Told(s) /\ e \notin DOMAIN s.clients => Told(t)

\* The entry, its liveness and the clipboard types sent on it.
LEMMA InsertClientJoins ==
    ASSUME NEW s, NEW e \in Endpoint, NEW token \in Nat,
           Tidy(s, None), Connected(s), NEW t \in InsertClient(s, e, token)
    PROVE  Joined(s, t, e, token)
<1> DEFINE fresh == [token |-> token, active |-> FALSE, keys |-> FALSE]
           w == [s EXCEPT
                !.clients = [x \in DOMAIN s.clients \union {e} |->
                    IF x = e
                    THEN [token |-> token, active |-> FALSE, keys |-> FALSE]
                    ELSE s.clients[x]],
                !.live = [x \in DOMAIN s.live \union {e} |->
                    IF x = e THEN Heard ELSE s.live[x]]]
<1>1. t = w \/ t \in SendEvent(w, e, w)
  BY DEF InsertClient
<1>2. /\ s \in Struct(s.clients, s.live)
      /\ DOMAIN s.clients \subseteq Endpoint /\ None \notin Endpoint
      /\ s.clients \in [DOMAIN s.clients -> Entry]
      /\ DOMAIN s.live \subseteq Endpoint
      /\ s.live \in [DOMAIN s.live -> Liveness]
  BY NoneAssumption DEF Tidy, Body, Typed
<1>3. /\ fresh \in Entry /\ ~fresh.active /\ ~fresh.keys /\ fresh.token = token
  BY DEF Entry
<1>4. /\ w.clients = [x \in DOMAIN s.clients \union {e} |->
                         IF x = e THEN fresh ELSE s.clients[x]]
      /\ w.live = [x \in DOMAIN s.live \union {e} |->
                         IF x = e THEN Heard ELSE s.live[x]]
      /\ w.current = s.current /\ w.paused = s.paused /\ w.grab = s.grab
      /\ w.keys = s.keys /\ w.removed = s.removed /\ w.silenced = s.silenced
      /\ w \in Struct(w.clients, w.live)
  BY <1>2 DEF Struct
<1> HIDE DEF w, fresh
<1>5. /\ DOMAIN w.clients = DOMAIN s.clients \union {e}
      /\ w.clients \in [DOMAIN w.clients -> Entry]
      /\ w.clients[e] = fresh
      /\ \A x \in DOMAIN s.clients \ {e} : w.clients[x] = s.clients[x]
  BY <1>2, <1>3, <1>4
<1>6. /\ DOMAIN w.live = DOMAIN s.live \union {e}
      /\ w.live \in [DOMAIN w.live -> Liveness]
  BY <1>2, <1>4, HeardType
<1>7. Typed(w)
  BY <1>2, <1>4, <1>5, <1>6 DEF Typed
<1>8. ASSUME NEW x \in DOMAIN w.clients
      PROVE  /\ w.clients[x].active => x \in {w.current, None}
             /\ w.clients[x].keys => x \in {w.current, None} /\ ~w.paused
  BY <1>3, <1>4, <1>5 DEF Tidy, Body
<1>9. Tidy(w, None)
  BY <1>4, <1>5, <1>6, <1>7, <1>8 DEF Tidy, Body, Armed
<1>10. Connected(w)
  BY <1>4, <1>5 DEF Connected
<1>11. Told(s) /\ e \notin DOMAIN s.clients => Told(w)
  BY <1>4, <1>5 DEF Told
<1>12. t = w \/ Settled(w, t)
  BY <1>1, <1>9, <1>10, SendLoses, LosesSettled
<1> QED BY <1>3, <1>4, <1>5, <1>9, <1>10, <1>11, <1>12 DEF Joined, Settled

\* What follows the entry keeps what it established.
LEMMA JoinedSettled ==
    ASSUME NEW s, NEW e, NEW token, NEW t, NEW u, Joined(s, t, e, token), Settled(t, u)
    PROVE  Joined(s, u, e, token)
  BY DEF Joined, Settled

\* The three re-activation rules of add_client.
LEMMA ReactivationSettles ==
    ASSUME NEW s, NEW e \in Endpoint, Tidy(s, None), Connected(s), NEW t,
           \/ t \in ReplaceCurrent(s, e)
           \/ t \in RecoverRemoved(s, e)
           \/ t \in ResumeSession(s, e)
    PROVE  Settled(s, t)
<1> DEFINE r == [s EXCEPT !.removed = None]
           p == [s EXCEPT !.pending = None]
<1>1. t \in {s, r} \/ t \in UpdateCurrent(s, e) \/ t \in UpdateCurrent(p, e)
  BY DEF ReplaceCurrent, RecoverRemoved, ResumeSession
<1>2. Aside(s, r) /\ Aside(s, p)
  BY DEF Tidy, Body, Typed, Struct, Aside
<1> HIDE DEF r, p
<1>3. /\ Settled(s, r) /\ Settled(s, p) /\ Settled(s, s)
  BY <1>2, AsideSettles, SettledReflexive
<1>4. CASE t \in UpdateCurrent(s, e)
  BY <1>4, UpdateCurrentSettles
<1>5. CASE t \in UpdateCurrent(p, e)
  <2>1. Settled(p, t)
    BY <1>3, <1>5, UpdateCurrentSettles DEF Settled
  <2> QED BY <1>3, <2>1, SettledTransitive
<1> QED BY <1>1, <1>3, <1>4, <1>5

\* The whole of add_client.
LEMMA AddClientJoins ==
    ASSUME NEW s, NEW e \in Endpoint, NEW token \in Nat,
           Tidy(s, None), Connected(s), NEW t \in AddClient(s, e, token)
    PROVE  Joined(s, t, e, token)
<1>1. PICK i \in InsertClient(s, e, token) :
        \E u \in ReplaceCurrent(i, e) : \E v \in RecoverRemoved(u, e) :
            t \in ResumeSession(v, e)
  BY DEF AddClient
<1>2. PICK u \in ReplaceCurrent(i, e) : \E v \in RecoverRemoved(u, e) :
        t \in ResumeSession(v, e)
  BY <1>1
<1>3. PICK v \in RecoverRemoved(u, e) : t \in ResumeSession(v, e)
  BY <1>2
<1>4. Joined(s, i, e, token)
  BY InsertClientJoins
<1>5. Settled(i, u)
  BY <1>2, <1>4, ReactivationSettles DEF Joined
<1>6. Settled(u, v)
  BY <1>3, <1>5, ReactivationSettles DEF Settled
<1>7. Settled(v, t)
  BY <1>3, <1>6, ReactivationSettles DEF Settled
<1>8. Settled(i, t)
  BY <1>5, <1>6, <1>7, SettledTransitive
<1> QED BY <1>4, <1>8, JoinedSettled

\* remove_client_and_clear_clipboard.
LEMMA RemoveClientSettles ==
    ASSUME NEW s, NEW e, NEW token, Tidy(s, None), Connected(s),
           NEW t \in RemoveClient(s, e, token)
    PROVE  Settled(s, t)
<1>1. t = s \/ t \in DropAll(s, {e})
  BY DEF RemoveClient, Drop
<1> QED BY <1>1, DropSettles, SettledReflexive

\* prev_client and next_client.
LEMMA SwitchClientSettles ==
    ASSUME NEW s, NEW target \in Endpoint \union {None},
           Tidy(s, None), Connected(s), NEW t \in SwitchClient(s, target)
    PROVE  Settled(s, t)
<1> DEFINE m == [s EXCEPT !.silenced = None]
           n == [m EXCEPT !.recent = TRUE]
<1>1. t = s \/ t \in ReleaseCurrentTargetKeys(m) \/ t \in UpdateCurrent(n, target)
  BY DEF SwitchClient
<1>2. Aside(s, m) /\ Aside(s, n)
  BY DEF Tidy, Body, Typed, Struct, Aside
<1> HIDE DEF m, n
<1>3. Settled(s, m) /\ Settled(s, n) /\ Settled(s, s)
  BY <1>2, AsideSettles, SettledReflexive
<1>4. CASE t \in ReleaseCurrentTargetKeys(m)
  <2>1. Settled(m, t)
    BY <1>3, <1>4, ReleaseSettles DEF Settled
  <2> QED BY <1>3, <2>1, SettledTransitive
<1>5. CASE t \in UpdateCurrent(n, target)
  <2>1. Settled(n, t)
    BY <1>3, <1>5, UpdateCurrentSettles DEF Settled
  <2> QED BY <1>3, <2>1, SettledTransitive
<1> QED BY <1>1, <1>3, <1>4, <1>5

\* set_client.
LEMMA SetClientSettles ==
    ASSUME NEW s, NEW wanted, Tidy(s, None), Connected(s),
           NEW t \in SetClient(s, wanted)
    PROVE  Settled(s, t)
<1> DEFINE m == [s EXCEPT !.silenced = None]
<1>1. \/ t = s
      \/ t \in ReleaseCurrentTargetKeys(m)
      \/ \E target \in DOMAIN s.clients \union {None} :
            t \in UpdateCurrent(m, target)
  BY DEF SetClient
<1>2. Aside(s, m)
  BY DEF Tidy, Body, Typed, Struct, Aside
<1> HIDE DEF m
<1>3. Settled(s, m) /\ Settled(s, s)
  BY <1>2, AsideSettles, SettledReflexive
<1>4. CASE t \in ReleaseCurrentTargetKeys(m)
  <2>1. Settled(m, t)
    BY <1>3, <1>4, ReleaseSettles DEF Settled
  <2> QED BY <1>3, <2>1, SettledTransitive
<1>5. ASSUME NEW target \in DOMAIN s.clients \union {None},
             t \in UpdateCurrent(m, target)
      PROVE  Settled(s, t)
  <2>1. target \in Endpoint \union {None}
    BY DEF Tidy, Body, Typed
  <2>2. Settled(m, t)
    BY <1>3, <1>5, <2>1, UpdateCurrentSettles DEF Settled
  <2> QED BY <1>3, <2>2, SettledTransitive
<1> QED BY <1>1, <1>3, <1>4, <1>5

\* toggle_pause: keys are released before the pause, so a paused server holds
\* none.
LEMMA TogglePauseSettles ==
    ASSUME NEW s, Tidy(s, None), Connected(s), NEW t \in TogglePause(s)
    PROVE  Settled(s, t)
<1>1. PICK r \in IF s.paused THEN {s} ELSE ReleaseCurrentTargetKeys(s) :
        t = [r EXCEPT !.paused = ~s.paused,
                      !.grab = [client |-> r.current # None,
                                paused |-> ~s.paused]]
  BY DEF TogglePause
<1>2. Settled(s, r) /\ (Released(r) \/ s.paused)
  BY ReleaseSettles, SettledReflexive
<1>3. s.paused \in BOOLEAN
  BY DEF Tidy, Body, Typed, Struct
<1>4. /\ r \in Struct(r.clients, r.live) /\ Tidy(r, None)
  BY <1>2 DEF Settled, Tidy, Body, Typed
<1>5. /\ t.clients = r.clients /\ t.live = r.live /\ t.current = r.current
      /\ t.paused = ~s.paused /\ t.keys = r.keys
      /\ t.removed = r.removed /\ t.silenced = r.silenced
      /\ t.grab = [client |-> r.current # None, paused |-> ~s.paused]
      /\ t \in Struct(t.clients, t.live)
  <2> DEFINE grab == [client |-> r.current # None, paused |-> ~s.paused]
             paused == ~s.paused
  <2>1. grab \in [client : BOOLEAN, paused : BOOLEAN] /\ paused \in BOOLEAN
    OBVIOUS
  <2>2. t = [r EXCEPT !.paused = paused, !.grab = grab]
    BY <1>1
  <2>3. t.paused = paused /\ t.grab = grab
    <3> HIDE DEF paused, grab
    <3> QED BY <1>4, <2>2 DEF Struct
  <2> HIDE DEF paused, grab
  <2>4. /\ t.clients = r.clients /\ t.live = r.live /\ t.current = r.current
        /\ t.keys = r.keys
        /\ t.removed = r.removed /\ t.silenced = r.silenced
        /\ t \in Struct(t.clients, t.live)
    BY <1>4, <2>1, <2>2 DEF Struct
  <2> QED BY <2>3, <2>4 DEF paused, grab
<1>6. Typed(t)
  BY <1>4, <1>5 DEF Tidy, Body, Typed
<1>7. t.keys => t.current = None /\ ~t.paused
  BY <1>2, <1>4, <1>5 DEF Tidy, Body, Released
<1>8. ASSUME NEW x \in DOMAIN t.clients
      PROVE  /\ t.clients[x].active => x \in {t.current, None}
             /\ t.clients[x].keys => x \in {t.current, None} /\ ~t.paused
  BY <1>2, <1>4, <1>5 DEF Tidy, Body, Released
<1>9. Tidy(t, None)
  BY <1>4, <1>5, <1>6, <1>7, <1>8 DEF Tidy, Body, Armed
<1> QED BY <1>2, <1>5, <1>9 DEF Settled, Connected, Told

\* send_input_events: a key goes down on the current target.
LEMMA SendInputEventsSettles ==
    ASSUME NEW s, NEW grabbed, Tidy(s, None), Connected(s),
           NEW t \in SendInputEvents(s, grabbed)
    PROVE  Settled(s, t)
<1> DEFINE entry == HoldsKeys(s.clients[s.current])
           here == [s EXCEPT !.keys = TRUE]
           there == [s EXCEPT !.clients =
                        [s.clients EXCEPT ![s.current] = entry]]
<1>1. \/ t = s
      \/ t = here /\ s.current = None /\ ~s.paused
      \/ t \in SendToCurrent(s, there) /\ ~s.paused
  BY DEF SendInputEvents
<1>2. /\ s \in Struct(s.clients, s.live)
      /\ DOMAIN s.clients \subseteq Endpoint /\ None \notin Endpoint
      /\ s.clients \in [DOMAIN s.clients -> Entry]
  BY NoneAssumption DEF Tidy, Body, Typed
<1>3. CASE t = here /\ s.current = None /\ ~s.paused
  <2>1. /\ t.clients = s.clients /\ t.live = s.live /\ t.current = s.current
        /\ t.paused = s.paused /\ t.removed = s.removed
        /\ t.silenced = s.silenced /\ t.grab = s.grab
        /\ t \in Struct(t.clients, t.live)
    BY <1>2, <1>3 DEF Struct
  <2>2. Typed(t)
    BY <2>1 DEF Tidy, Body, Typed
  <2>3. Tidy(t, None)
    BY <1>3, <2>1, <2>2 DEF Tidy, Body, Armed
  <2> QED BY <2>1, <2>3 DEF Settled, Connected, Told
<1>4. CASE t \in SendToCurrent(s, there) /\ ~s.paused
  <2>1. CASE Tidy(t, None) /\ Loses(s, t)
    BY <2>1, LosesSettled
  <2>2. CASE t = there /\ s.current \in DOMAIN s.clients
    <3>1. /\ entry \in Entry /\ entry.active = s.clients[s.current].active
          /\ entry.token = s.clients[s.current].token
      BY <1>2, <2>2 DEF Entry, HoldsKeys
    <3> HIDE DEF entry
    <3>2. /\ t.clients = [s.clients EXCEPT ![s.current] = entry]
          /\ t.live = s.live /\ t.current = s.current /\ t.paused = s.paused
          /\ t.grab = s.grab /\ t.keys = s.keys /\ t.removed = s.removed
          /\ t.silenced = s.silenced
      BY <1>2, <2>2 DEF Struct
    <3>3. t \in Struct(t.clients, t.live)
      BY <1>2, <2>2 DEF Struct
    <3>4. /\ DOMAIN t.clients = DOMAIN s.clients
          /\ t.clients \in [DOMAIN t.clients -> Entry]
          /\ t.clients[s.current] = entry
          /\ \A x \in DOMAIN t.clients \ {s.current} :
                t.clients[x] = s.clients[x]
      BY <1>2, <2>2, <3>1, <3>2
    <3>5. Typed(t)
      BY <1>2, <3>2, <3>3, <3>4 DEF Tidy, Body, Typed
    <3>6. ASSUME NEW x \in DOMAIN t.clients
          PROVE  /\ t.clients[x].active => x \in {t.current, None}
                 /\ t.clients[x].keys => x \in {t.current, None} /\ ~t.paused
      BY <1>4, <3>1, <3>2, <3>4 DEF Tidy, Body
    <3>7. Tidy(t, None)
      BY <3>2, <3>4, <3>5, <3>6 DEF Tidy, Body, Armed
    <3>8. Told(s) => Told(t)
      BY <3>1, <3>2, <3>4 DEF Told
    <3> QED BY <3>1, <3>2, <3>4, <3>7, <3>8 DEF Settled, Connected
  <2> QED BY <1>4, <2>1, <2>2, SendToCurrentLoses
<1> QED BY <1>1, <1>3, <1>4, SettledReflexive

\* note_client_heard: the client's record changes, and its recovery is a switch.
LEMMA NoteClientHeardSettles ==
    ASSUME NEW s, NEW e, Tidy(s, None), Connected(s),
           NEW t \in NoteClientHeard(s, e)
    PROVE  Settled(s, t)
<1> DEFINE l == s.live[e]
           pongs == IF l.pongs < ReactivatePongs THEN l.pongs + 1 ELSE l.pongs
           Noted(entry) == [s EXCEPT !.live = [s.live EXCEPT ![e] = entry]]
           unquiet == [l EXCEPT !.quiet = FALSE]
           counted == [l EXCEPT !.quiet = FALSE, !.pongs = pongs]
<1>1. CASE e \notin DOMAIN s.live
  <2>1. t = s
    BY <1>1 DEF NoteClientHeard
  <2> QED BY <2>1, SettledReflexive
<1>2. CASE e \in DOMAIN s.live
  <2>1. \/ t \in {Noted(unquiet), Noted(counted), Noted(Heard)}
        \/ t \in UpdateCurrent(Noted(Heard), e)
    BY <1>2 DEF NoteClientHeard
  <2>2. /\ s \in Struct(s.clients, s.live) /\ DOMAIN s.live \subseteq Endpoint
        /\ s.live \in [DOMAIN s.live -> Liveness]
    BY DEF Tidy, Body, Typed
  <2>3. l \in Liveness
    BY <1>2, <2>2
  <2>4. /\ unquiet \in Liveness /\ counted \in Liveness
    <3>1. /\ l.pongs \in 0 .. ReactivatePongs
          /\ l \in [quiet : BOOLEAN, silenced : {"no", "cooling", "cooled"},
                   pongs : 0 .. ReactivatePongs]
      BY <2>3 DEF Liveness
    <3>2. pongs \in 0 .. ReactivatePongs
      BY <3>1, BoundsAssumption
    <3> HIDE DEF l, pongs
    <3> QED BY <3>1, <3>2 DEF Liveness
  <2> HIDE DEF l, pongs, unquiet, counted
  <2>5. ASSUME NEW entry \in Liveness PROVE Settled(s, Noted(entry))
    <3> DEFINE n == Noted(entry)
    <3>1. /\ n.live = [s.live EXCEPT ![e] = entry]
          /\ n.clients = s.clients /\ n.current = s.current
          /\ n.paused = s.paused /\ n.grab = s.grab /\ n.keys = s.keys
          /\ n.removed = s.removed /\ n.silenced = s.silenced
      BY <2>2 DEF Struct
    <3>2. n \in Struct(n.clients, n.live)
      BY <2>2 DEF Struct
    <3> HIDE DEF n
    <3>3. DOMAIN n.live = DOMAIN s.live /\ n.live \in [DOMAIN n.live -> Liveness]
      BY <2>2, <3>1
    <3>4. Aside(s, n)
      BY <3>1, <3>2, <3>3 DEF Aside
    <3>5. Settled(s, n)
      BY <3>4, AsideSettles
    <3> QED BY <3>5 DEF n
  <2> HIDE DEF Noted
  <2>6. Settled(s, Noted(Heard))
    BY <2>5, HeardType
  <2>7. CASE t \in UpdateCurrent(Noted(Heard), e)
    <3>1. Settled(Noted(Heard), t)
      BY <1>2, <2>2, <2>6, <2>7, UpdateCurrentSettles DEF Settled
    <3> QED BY <2>6, <3>1, SettledTransitive
  <2> QED BY <2>1, <2>4, <2>5, <2>6, <2>7
<1> QED BY <1>1, <1>2

\* A change of liveness records alone.
LEMMA LivenessSettles ==
    ASSUME NEW s, Tidy(s, None), Connected(s),
           NEW live, DOMAIN live = DOMAIN s.live,
           live \in [DOMAIN s.live -> Liveness]
    PROVE  Settled(s, [s EXCEPT !.live = live])
<1> DEFINE n == [s EXCEPT !.live = live]
<1>1. s \in Struct(s.clients, s.live)
  BY DEF Tidy, Body, Typed
<1>2. /\ n.live = live /\ n.clients = s.clients /\ n.current = s.current
      /\ n.paused = s.paused /\ n.grab = s.grab /\ n.keys = s.keys
      /\ n.removed = s.removed /\ n.silenced = s.silenced
  BY <1>1 DEF Struct
<1>3. n \in Struct(n.clients, n.live)
  BY <1>1 DEF Struct
<1> HIDE DEF n
<1>4. Aside(s, n)
  BY <1>2, <1>3 DEF Aside
<1>5. Settled(s, n)
  BY <1>4, AsideSettles
<1> QED BY <1>5 DEF n

\* switch_request_from_client.
LEMMA SwitchRequestSettles ==
    ASSUME NEW s, NEW e, Tidy(s, None), Connected(s),
           NEW t \in SwitchRequestFrom(s, e)
    PROVE  Settled(s, t)
<1>1. t = s \/ t \in UpdateCurrent(s, None)
  BY DEF SwitchRequestFrom
<1> QED BY <1>1, UpdateCurrentSettles, SettledReflexive

\* ping_tick's miss detector: silence is recorded once input is home.
LEMMA DeclareSilenceSettles ==
    ASSUME NEW s, Tidy(s, None), Connected(s), NEW t \in DeclareSilence(s)
    PROVE  Settled(s, t)
<1> DEFINE entry == [s.live[s.current] EXCEPT !.silenced = "cooling",
                                              !.pongs = 0]
           live == [s.live EXCEPT ![s.current] = entry]
           n == [s EXCEPT !.live = live]
<1>1. \/ t = s
      \/ /\ s.current # None /\ s.current \in DOMAIN s.live
         /\ \E u \in UpdateCurrent(n, None) :
                t = [u EXCEPT !.silenced = s.current]
  BY DEF DeclareSilence
<1>2. CASE t = s
  BY <1>2, SettledReflexive
<1>3. ASSUME s.current # None, s.current \in DOMAIN s.live,
             NEW u \in UpdateCurrent(n, None),
             t = [u EXCEPT !.silenced = s.current]
      PROVE  Settled(s, t)
  <2>1. /\ s.live \in [DOMAIN s.live -> Liveness]
        /\ s.current \in Endpoint
    BY <1>3 DEF Tidy, Body, Typed
  <2>2. entry \in Liveness
    <3> DEFINE l == s.live[s.current]
    <3>1. l \in Liveness
      BY <1>3, <2>1
    <3> HIDE DEF l
    <3>2. [l EXCEPT !.silenced = "cooling", !.pongs = 0] \in Liveness
      <4>1. 0 \in 0 .. ReactivatePongs
        BY BoundsAssumption
      <4> QED BY <3>1, <4>1 DEF Liveness
    <3> QED BY <3>2 DEF l
  <2> HIDE DEF entry
  <2>3. DOMAIN live = DOMAIN s.live /\ live \in [DOMAIN s.live -> Liveness]
    BY <1>3, <2>1, <2>2
  <2> HIDE DEF live
  <2>4. Settled(s, n)
    BY <2>3, LivenessSettles
  <2> HIDE DEF n
  <2>5. Settled(n, u) /\ u.current = None
    BY <1>3, <2>4, UpdateCurrentSettles DEF Settled
  <2>6. Tidy(u, None) /\ Connected(u)
    BY <2>5 DEF Settled
  <2>7. /\ u \in Struct(u.clients, u.live)
    BY <2>6 DEF Tidy, Body, Typed
  <2>8. /\ t.clients = u.clients /\ t.live = u.live /\ t.current = u.current
        /\ t.paused = u.paused /\ t.grab = u.grab /\ t.keys = u.keys
        /\ t \in Struct(t.clients, t.live)
    BY <1>3, <2>1, <2>7 DEF Struct
  <2>9. Typed(t)
    BY <2>6, <2>8 DEF Tidy, Body, Typed
  <2>10. Tidy(t, None)
    BY <2>5, <2>6, <2>8, <2>9 DEF Tidy, Body, Armed
  <2>11. Settled(s, u)
    BY <2>4, <2>5, SettledTransitive
  <2> QED BY <2>5, <2>8, <2>10, <2>11 DEF Settled, Connected, Told
<1> QED BY <1>1, <1>2, <1>3

\* ping_tick's pings.
LEMMA SendPingsSettles ==
    ASSUME NEW s, Tidy(s, None), Connected(s), NEW t \in SendPings(s)
    PROVE  Settled(s, t)
<1>1. PICK gone : t \in DropAll(s, gone)
  BY DEF SendPings
<1> QED BY <1>1, DropSettles

\* ping_tick, on time and late.
LEMMA PingTickSettles ==
    ASSUME NEW s, NEW late, Tidy(s, None), Connected(s),
           NEW t \in PingTickOf(s, late)
    PROVE  Settled(s, t)
<1> DEFINE calm(u) == [e \in DOMAIN u.live |-> [u.live[e] EXCEPT !.quiet = FALSE]]
           reset(u) == [e \in DOMAIN u.live |->
                          IF u.live[e].silenced # "no" /\ u.live[e].quiet
                          THEN [u.live[e] EXCEPT !.pongs = 0] ELSE u.live[e]]
<1>1. ASSUME NEW u, Tidy(u, None), Connected(u)
      PROVE  /\ Settled(u, [u EXCEPT !.live = calm(u)])
             /\ Settled(u, ResetRecovering(u))
  <2>1. u.live \in [DOMAIN u.live -> Liveness]
    BY <1>1 DEF Tidy, Body, Typed
  <2>2. calm(u) \in [DOMAIN u.live -> Liveness]
    BY <2>1 DEF Liveness
  <2>3. reset(u) \in [DOMAIN u.live -> Liveness]
    BY <2>1, BoundsAssumption DEF Liveness
  <2>4. DOMAIN calm(u) = DOMAIN u.live /\ DOMAIN reset(u) = DOMAIN u.live
    OBVIOUS
  <2>5. ResetRecovering(u) = [u EXCEPT !.live = reset(u)]
    BY DEF ResetRecovering
  <2> HIDE DEF calm, reset
  <2> QED BY <1>1, <2>2, <2>3, <2>4, <2>5, LivenessSettles
<1>2. CASE late
  <2>1. t \in SendPings([s EXCEPT !.live = calm(s)])
    BY <1>2 DEF PingTickOf
  <2> HIDE DEF calm
  <2>2. Settled(s, [s EXCEPT !.live = calm(s)])
    BY <1>1
  <2>3. Settled([s EXCEPT !.live = calm(s)], t)
    BY <2>1, <2>2, SendPingsSettles DEF Settled
  <2> QED BY <2>2, <2>3, SettledTransitive
<1>3. CASE ~late
  <2>1. PICK u \in DeclareSilence(s) : t \in SendPings(ResetRecovering(u))
    BY <1>3 DEF PingTickOf
  <2>2. Settled(s, u)
    BY DeclareSilenceSettles
  <2>3. Settled(u, ResetRecovering(u))
    BY <1>1, <2>2 DEF Settled
  <2>4. Settled(ResetRecovering(u), t)
    BY <2>1, <2>3, SendPingsSettles DEF Settled
  <2> QED BY <2>2, <2>3, <2>4, SettledTransitive
<1> QED BY <1>2, <1>3

\* clipboard_update_source.
LEMMA ClipboardUpdateSettles ==
    ASSUME NEW s, NEW source \in Endpoint \union {Local}, NEW empty,
           Tidy(s, None), Connected(s),
           NEW t \in ClipboardUpdate(s, source, empty)
    PROVE  Settled(s, t)
<1> DEFINE c == [s EXCEPT !.window = s.window \ {source},
                          !.held = s.held /\ source # Local]
           h == [s EXCEPT !.held = s.held \/ source = Local]
           w == [s EXCEPT !.window = s.window \union {source},
                          !.held = s.held /\ source # Local]
<1>1. \/ t = s \/ t = h
      \/ t \in ClipboardClear(c)
      \/ t \in ApplyClipboardSource(w, source)
  BY DEF ClipboardUpdate
<1>2. Aside(s, c) /\ Aside(s, h) /\ Aside(s, w)
  <2> DEFINE less == s.window \ {source}
             more == s.window \union {source}
             kept == s.held /\ source # Local
             held == s.held \/ source = Local
  <2>1. /\ s \in Struct(s.clients, s.live)
        /\ s.live \in [DOMAIN s.live -> Liveness]
    BY DEF Tidy, Body, Typed
  <2>2. /\ less \in SUBSET (Endpoint \union {Local})
        /\ more \in SUBSET (Endpoint \union {Local})
        /\ kept \in BOOLEAN /\ held \in BOOLEAN
    BY <2>1 DEF Struct
  <2> HIDE DEF less, more, kept, held
  <2>3. Aside(s, [s EXCEPT !.window = less, !.held = kept])
    BY <2>1, <2>2 DEF Struct, Aside
  <2>4. Aside(s, [s EXCEPT !.window = more, !.held = kept])
    BY <2>1, <2>2 DEF Struct, Aside
  <2>5. Aside(s, [s EXCEPT !.held = held])
    BY <2>1, <2>2 DEF Struct, Aside
  <2> QED BY <2>3, <2>4, <2>5 DEF less, more, kept, held
<1> HIDE DEF c, h, w
<1>3. /\ Settled(s, c) /\ Settled(s, h) /\ Settled(s, w) /\ Settled(s, s)
  BY <1>2, AsideSettles, SettledReflexive
<1>4. CASE t \in ClipboardClear(c)
  <2>1. Settled(c, t)
    BY <1>3, <1>4, ClipboardClearLoses, LosesSettled DEF Settled
  <2> QED BY <1>3, <2>1, SettledTransitive
<1>5. CASE t \in ApplyClipboardSource(w, source)
  <2>1. Settled(w, t)
    BY <1>3, <1>5, ApplyClipboardSourceLoses, LosesSettled DEF Settled
  <2> QED BY <1>3, <2>1, SettledTransitive
<1> QED BY <1>1, <1>3, <1>4, <1>5

-----------------------------------------------------------------------------
(* The inductive invariant and the theorems.                               *)

\* Rotation's own part of the invariant (Tidy and Connected, see above), the
\* types of the other variables, the origin of every listed client (the newest
\* connection of its endpoint) and, when no address comes back, that the
\* current client is told.
Newest ==
    /\ \A c \in accepted : c[2] < nextToken
    /\ \A e \in DOMAIN rot.clients : \A c \in accepted :
          c[1] = e => c[2] <= rot.clients[e].token

IInv ==
    /\ Tidy(rot, None) /\ Connected(rot)
    /\ accepted \subseteq Endpoint \X Nat /\ nextToken \in Nat
    /\ since \in {"silence", "home", "other"}
    /\ \A e \in DOMAIN rot.clients : \E c \in accepted : c[1] = e
    /\ Newest
    /\ ~ReusePorts => Told(rot)

\* A server that just started, with whatever session it found to resume.
LEMMA BootTidy ==
    ASSUME NEW file \in Fingerprint \union {None}
    PROVE  Tidy(Boot(file), None) /\ Connected(Boot(file)) /\ Told(Boot(file))
           /\ DOMAIN Boot(file).clients = {}
<1> DEFINE b == Boot(file)
<1>1. /\ DOMAIN b.clients = {} /\ DOMAIN b.live = {}
      /\ b.clients \in [{} -> Entry] /\ b.live \in [{} -> Liveness]
  BY DEF Boot
<1>2. b \in Struct(b.clients, b.live)
  BY DEF Boot, Struct
<1>3. /\ b.current = None /\ ~b.keys /\ b.removed = None /\ b.silenced = None
      /\ b.grab = [client |-> FALSE, paused |-> FALSE] /\ b.paused = FALSE
  BY DEF Boot
<1> HIDE DEF b
<1>4. Typed(b)
  BY <1>1, <1>2 DEF Typed
<1>5. Tidy(b, None) /\ Connected(b) /\ Told(b)
  BY <1>1, <1>3, <1>4 DEF Tidy, Body, Armed, Connected, Told
<1> QED BY <1>1, <1>5 DEF b

\* The invariant holds when the server starts.
LEMMA InitIInv == Init => IInv
  BY BootTidy DEF Init, IInv, Newest

\* A handler of a settled outcome keeps the invariant, whoever switched.
LEMMA SettledIInv ==
    ASSUME IInv, Settled(rot, rot'), UNCHANGED <<accepted, nextToken>>,
           since' \in {"silence", "home", "other"}
    PROVE  IInv'
<1>1. Tidy(rot', None) /\ Connected(rot')
  BY DEF Settled
<1>2. \A e \in DOMAIN rot'.clients : \E c \in accepted' : c[1] = e
  BY DEF IInv, Settled
<1>3. ~ReusePorts => Told(rot')
  BY DEF IInv, Settled
<1>4. Newest'
  BY DEF IInv, Settled, Newest
<1> QED BY <1>1, <1>2, <1>3, <1>4 DEF IInv, Tidy, Body, Armed, Connected, Told, Typed

\* Every action keeps the invariant.
LEMMA NextIInv == IInv /\ [Next]_vars => IInv'
<1> SUFFICES ASSUME IInv, [Next]_vars PROVE IInv'
  OBVIOUS
<1> USE DEF Handle, HandleManual, TimePasses
<1>0. /\ Tidy(rot, None) /\ Connected(rot)
      /\ since \in {"silence", "home", "other"}
  BY DEF IInv
<1>1. ASSUME NEW e \in Endpoint, AddClientEvent(e) PROVE IInv'
  <2>1. nextToken \in Nat
    BY DEF IInv
  <2>2. Joined(rot, rot', e, nextToken)
    BY <1>0, <1>1, <2>1, AddClientJoins DEF AddClientEvent
  <2>3. /\ accepted' = accepted \union {<<e, nextToken>>}
        /\ nextToken' = nextToken + 1
        /\ since' \in {"silence", "home", "other"}
        /\ ~ReusePorts => \A c \in accepted : c[1] # e
    BY <1>0, <1>1 DEF AddClientEvent
  <2>4. ~ReusePorts => e \notin DOMAIN rot.clients
    BY <2>3 DEF IInv
  <2>5. \A x \in DOMAIN rot'.clients : \E c \in accepted' : c[1] = x
    <3>1. \E c \in accepted' : c[1] = e
      <4>1. <<e, nextToken>> \in accepted' /\ <<e, nextToken>>[1] = e
        BY <2>3
      <4> QED BY <4>1
    <3>2. \A x \in DOMAIN rot.clients : \E c \in accepted' : c[1] = x
      BY <2>3 DEF IInv
    <3> QED BY <2>2, <3>1, <3>2 DEF Joined
  <2>6. ~ReusePorts => Told(rot')
    BY <2>2, <2>4 DEF IInv, Joined
  <2>7. Tidy(rot', None) /\ Connected(rot')
    BY <2>2 DEF Joined
  <2>8. accepted' \subseteq Endpoint \X Nat /\ nextToken' \in Nat
    BY <2>1, <2>3 DEF IInv
  <2>9. Newest'
    <3>1. /\ accepted \subseteq Endpoint \X Nat
          /\ \A c \in accepted : c[2] \in Nat /\ c[2] < nextToken
      BY DEF IInv, Newest
    <3>2. \A c \in accepted' : c[2] < nextToken'
      BY <2>1, <2>3, <3>1
    <3>3. ASSUME NEW x \in DOMAIN rot'.clients, NEW c \in accepted', c[1] = x
          PROVE  c[2] <= rot'.clients[x].token
      <4>1. CASE x = e
        BY <2>1, <2>2, <2>3, <3>1, <4>1 DEF Joined
      <4>2. CASE x # e
        <5>1. c \in accepted
          BY <2>3, <3>3, <4>2
        <5>2. x \in DOMAIN rot.clients /\ rot'.clients[x].token = rot.clients[x].token
          BY <2>2, <4>2 DEF Joined
        <5> QED BY <3>3, <5>1, <5>2 DEF IInv, Newest
      <4> QED BY <4>1, <4>2
    <3> QED BY <3>2, <3>3 DEF Newest
  <2> QED BY <2>3, <2>5, <2>6, <2>7, <2>8, <2>9
          DEF IInv, Tidy, Body, Armed, Connected, Told, Typed
<1>2. ASSUME NEW c \in accepted, RemoveClientEvent(c) PROVE IInv'
  BY <1>0, <1>2, RemoveClientSettles, SettledIInv DEF RemoveClientEvent
<1>3. CASE SwitchNext
  <2>1. NextTarget(rot) \in Endpoint \union {None}
    BY <1>0 DEF NextTarget, First, Tidy, Body, Typed
  <2>2. Settled(rot, rot')
    BY <1>0, <1>3, <2>1, SwitchClientSettles DEF SwitchNext
  <2> QED BY <1>0, <1>3, <2>2, SettledIInv DEF SwitchNext
<1>4. CASE SwitchPrev
  <2>1. PrevTarget(rot) \in Endpoint \union {None}
    BY <1>0 DEF PrevTarget, Last, Tidy, Body, Typed
  <2>2. Settled(rot, rot')
    BY <1>0, <1>4, <2>1, SwitchClientSettles DEF SwitchPrev
  <2> QED BY <1>0, <1>4, <2>2, SettledIInv DEF SwitchPrev
<1>5. ASSUME NEW wanted \in SUBSET Fingerprint, SwitchTo(wanted) PROVE IInv'
  <2>1. Settled(rot, rot')
    BY <1>0, <1>5, SetClientSettles DEF SwitchTo
  <2> QED BY <1>0, <1>5, <2>1, SettledIInv DEF SwitchTo
<1>6. CASE PauseToggle
  BY <1>0, <1>6, TogglePauseSettles, SettledIInv DEF PauseToggle
<1>7. ASSUME NEW paused \in BOOLEAN, SetPaused(paused) PROVE IInv'
  BY <1>6, <1>7 DEF SetPaused
<1>8. ASSUME NEW grabbed \in BOOLEAN, InputBatch(grabbed) PROVE IInv'
  BY <1>0, <1>8, SendInputEventsSettles, SettledIInv DEF InputBatch
<1>9. ASSUME NEW e \in Endpoint, ClientHeardFrom(e) PROVE IInv'
  BY <1>0, <1>9, NoteClientHeardSettles, SettledIInv DEF ClientHeardFrom
<1>10. ASSUME NEW e \in Endpoint, SwitchRequest(e) PROVE IInv'
  BY <1>0, <1>10, SwitchRequestSettles, SettledIInv DEF SwitchRequest
<1>11. ASSUME NEW late \in BOOLEAN, PingTick(late) PROVE IInv'
  BY <1>0, <1>11, PingTickSettles, SettledIInv DEF PingTick
<1>12. ASSUME NEW source \in Copiers, NEW empty \in BOOLEAN,
              ClipboardUpdateSource(source, empty)
       PROVE  IInv'
  <2>1. source \in Endpoint \union {Local}
    BY BoundsAssumption
  <2>2. Settled(rot, rot')
    BY <1>0, <1>12, <2>1, ClipboardUpdateSettles DEF ClipboardUpdateSource
  <2> QED BY <1>0, <1>12, <2>2, SettledIInv DEF ClipboardUpdateSource
<1>13. CASE ClipboardDeadline
  <2>1. Settled(rot, rot')
    BY <1>0, <1>13, FlushPendingLocalLoses, LosesSettled
       DEF ClipboardDeadline
  <2> QED BY <1>0, <1>13, <2>1, SettledIInv DEF ClipboardDeadline
<1>14. ASSUME NEW e \in Endpoint, BulkQueueFull(e) PROVE IInv'
  <2>1. Settled(rot, rot')
    BY <1>0, <1>14, DropSettles DEF BulkQueueFull, Drop
  <2> QED BY <1>0, <1>14, <2>1, SettledIInv DEF BulkQueueFull
<1>15. CASE DebounceElapses
  <2>1. Aside(rot, rot')
    BY <1>0, <1>15 DEF DebounceElapses, Aside, Tidy, Body, Typed, Struct
  <2> QED BY <1>0, <1>15, <2>1, AsideSettles, SettledIInv DEF DebounceElapses
<1>16. ASSUME NEW source \in Copiers, ClipboardWindowElapses(source)
       PROVE  IInv'
  <2>1. Aside(rot, rot')
    BY <1>0, <1>16 DEF ClipboardWindowElapses, Aside, Tidy, Body, Typed, Struct
  <2> QED BY <1>0, <1>16, <2>1, AsideSettles, SettledIInv
          DEF ClipboardWindowElapses
<1>17. CASE RecoveryElapses
  <2> DEFINE over == [rot.removed EXCEPT !.recoverable = FALSE]
  <2>1. /\ rot \in Struct(rot.clients, rot.live)
        /\ rot.live \in [DOMAIN rot.live -> Liveness]
    BY <1>0 DEF Tidy, Body, Typed
  <2>2. rot.removed # None /\ rot' = [rot EXCEPT !.removed = over]
    BY <1>17 DEF RecoveryElapses
  <2>3. over \in Defunct
    BY <2>1, <2>2 DEF Struct, Defunct
  <2> HIDE DEF over
  <2>4. Aside(rot, rot')
    BY <2>1, <2>2, <2>3 DEF Aside, Struct
  <2> QED BY <1>0, <1>17, <2>4, AsideSettles, SettledIInv DEF RecoveryElapses
<1>18. ASSUME NEW e \in Quieters, GoesQuiet(e) PROVE IInv'
  <2> DEFINE entry == [rot.live[e] EXCEPT !.quiet = TRUE]
             live == [rot.live EXCEPT ![e] = entry]
  <2>1. /\ rot.live \in [DOMAIN rot.live -> Liveness] /\ e \in DOMAIN rot.live
    BY <1>0, <1>18 DEF Tidy, Body, Typed, GoesQuiet
  <2>2. rot' = [rot EXCEPT !.live = live]
    BY <1>18 DEF GoesQuiet
  <2>3. entry \in Liveness
    BY <2>1 DEF Liveness
  <2> HIDE DEF entry
  <2>4. DOMAIN live = DOMAIN rot.live /\ live \in [DOMAIN rot.live -> Liveness]
    BY <2>1, <2>3
  <2> HIDE DEF live
  <2>5. Settled(rot, rot')
    BY <1>0, <2>2, <2>4, LivenessSettles
  <2> QED BY <1>0, <1>18, <2>5, SettledIInv DEF GoesQuiet
<1>19. ASSUME NEW e \in Endpoint, CooldownElapses(e) PROVE IInv'
  <2> DEFINE entry == [rot.live[e] EXCEPT !.silenced = "cooled"]
             live == [rot.live EXCEPT ![e] = entry]
  <2>1. /\ rot.live \in [DOMAIN rot.live -> Liveness] /\ e \in DOMAIN rot.live
    BY <1>0, <1>19 DEF Tidy, Body, Typed, CooldownElapses
  <2>2. rot' = [rot EXCEPT !.live = live]
    BY <1>19 DEF CooldownElapses
  <2>3. entry \in Liveness
    BY <2>1 DEF Liveness
  <2> HIDE DEF entry
  <2>4. DOMAIN live = DOMAIN rot.live /\ live \in [DOMAIN rot.live -> Liveness]
    BY <2>1, <2>3
  <2> HIDE DEF live
  <2>5. Settled(rot, rot')
    BY <1>0, <2>2, <2>4, LivenessSettles
  <2> QED BY <1>0, <1>19, <2>5, SettledIInv DEF CooldownElapses
<1>20. ASSUME NEW stale \in BOOLEAN, Restart(stale) PROVE IInv'
  <2> DEFINE file == IF stale THEN None ELSE rot.file
  <2>1. file \in Fingerprint \union {None}
    BY <1>0 DEF Tidy, Body, Typed, Struct
  <2>2. /\ rot' = Boot(file) /\ accepted' = {} /\ nextToken' = 1
        /\ since' = "other"
    BY <1>20 DEF Restart
  <2> HIDE DEF file
  <2>3. Tidy(rot', None) /\ Connected(rot') /\ Told(rot')
        /\ DOMAIN rot'.clients = {}
    BY <2>1, <2>2, BootTidy
  <2> QED BY <2>2, <2>3 DEF IInv, Newest, Tidy, Body, Armed, Connected, Told, Typed
<1>21. CASE UNCHANGED vars
  BY <1>21 DEF IInv, Newest, vars, Tidy, Body, Armed, Connected, Told, Typed
<1> QED BY <1>1, <1>2, <1>3, <1>4, <1>5, <1>6, <1>7, <1>8, <1>9, <1>10, <1>11,
           <1>12, <1>13, <1>14, <1>15, <1>16, <1>17, <1>18, <1>19, <1>20, <1>21
        DEF Next, UserSwitch

\* IInv is invariant.
THEOREM Invariance == Spec => []IInv
<1>1. Init => IInv
  BY InitIInv
<1>2. IInv /\ [Next]_vars => IInv'
  BY NextIInv
<1> QED BY <1>1, <1>2, PTL DEF Spec

\* Type correctness: the struct stays within its types, and the current client
\* is connected between any two events, whichever writes failed.
THEOREM TypeCorrectness == Spec => []TypeOK
<1>1. IInv => TypeOK
  BY DEF IInv, Tidy, Body, Connected, TypeOK
<1> QED BY <1>1, Invariance, PTL

\* At most one client believes it has the input.
THEOREM OneActive == Spec => []SingleActive
<1>1. IInv => SingleActive
  BY NoneAssumption DEF IInv, Tidy, Body, Typed, SingleActive
<1> QED BY <1>1, Invariance, PTL

\* No machine but the target of the input holds a key, and none does while the
\* server is paused.
THEOREM KeysReleased == Spec => []NoStuckKeys
<1>1. IInv => NoStuckKeys
  BY NoneAssumption DEF IInv, Tidy, Body, Typed, NoStuckKeys
<1> QED BY <1>1, Invariance, PTL

\* The devices are grabbed for the target the rotation decided on.
THEOREM GrabAgrees == Spec => []GrabFollowsTarget
<1>1. IInv => GrabFollowsTarget
  BY DEF IInv, Tidy, Body, GrabFollowsTarget
<1> QED BY <1>1, Invariance, PTL

\* No connected client escapes the silence detector.
THEOREM AllWatched == Spec => []ClientsWatched
<1>1. IInv => ClientsWatched
  BY DEF IInv, Tidy, Body, ClientsWatched
<1> QED BY <1>1, Invariance, PTL

\* Automatic recovery is armed only while input is on the local machine.
THEOREM RecoveryArmedAtHome == Spec => []RecoveryMeansLocal
<1>1. IInv => RecoveryMeansLocal
  BY DEF IInv, Tidy, Armed, RecoveryMeansLocal
<1> QED BY <1>1, Invariance, PTL

\* Together: what every handler and every failed write leaves intact.
THEOREM StructSound == Spec => []RotationInv
<1>1. TypeOK /\ GrabFollowsTarget /\ ClientsWatched /\ RecoveryMeansLocal => RotationInv
  BY DEF RotationInv
<1> QED BY <1>1, TypeCorrectness, GrabAgrees, AllWatched, RecoveryArmedAtHome, PTL

\* If no connection comes from an address used before, the current client has
\* always been told that it is.
THEOREM CurrentTold == ~ReusePorts /\ Spec => []CurrentActivated
<1>1. ~ReusePorts /\ IInv => CurrentActivated
  BY DEF IInv, Told, CurrentActivated
<1>2. ASSUME ~ReusePorts PROVE Spec => []CurrentActivated
  <2>1. IInv => CurrentActivated
    BY <1>1, <1>2
  <2> QED BY <2>1, Invariance, PTL
<1> QED BY <1>2

-----------------------------------------------------------------------------
(***************************************************************************)
(* What a step may never do: leave the active_client file behind, keep a   *)
(* clipboard of a client that is gone, move the input for anyone but the   *)
(* user, a reconnect or a resumed session, or overrule the user.           *)
(*                                                                         *)
(* The argument is again about the states between the calls of a handler.  *)
(* Keeps is what every helper does to the file, the owner of the clipboard *)
(* and the silenced endpoint; Stays is what every helper does to the       *)
(* target, but for those that are asked to move it.                        *)
(***************************************************************************)

\* The file is right for a connected target and for the local machine.  (A
\* handler may make a client the target whose entry was just lost; the file
\* is then left alone until input comes home.)
Filed(s) ==
    /\ s.current \in DOMAIN s.clients => s.file = FpOf[s.current]
    /\ s.current = None => s.file \in {None, s.pending}

\* An owner of the clipboard that was lost is forgotten.
Disowned(s, t) ==
    /\ t.clip \in {s.clip, Local, None}
    /\ s.clip \in DOMAIN s.clients \ DOMAIN t.clients => t.clip # s.clip

Keeps(s, t) ==
    /\ Filed(s) => Filed(t)
    /\ t.pending = s.pending
    /\ t.silenced \in {s.silenced, None}
    /\ Disowned(s, t)

Stays(s, t) == t.current \in {s.current, None}

\* A record of a lost client, if new, is of the target or the silenced one.
Blames(s, t) ==
    t.removed # None =>
        \/ t.removed = s.removed
        \/ t.removed.endpoint \in {s.current, s.silenced} \ {None}

-----------------------------------------------------------------------------
(* The helpers.                                                            *)

LEMMA KeepsReflexive == \A s : Keeps(s, s)
  BY DEF Keeps, Disowned

\* Two calls, one after the other.
LEMMA DisownedTransitive ==
    ASSUME NEW s, NEW t, NEW u, DOMAIN s.clients \subseteq Endpoint,
           Disowned(s, t), Disowned(t, u)
    PROVE  Disowned(s, u)
  BY NoneAssumption DEF Disowned

LEMMA KeepsTransitive ==
    ASSUME NEW s, NEW t, NEW u, NEW old, Tidy(s, old), Keeps(s, t), Keeps(t, u)
    PROVE  Keeps(s, u)
<1>1. DOMAIN s.clients \subseteq Endpoint
  BY DEF Tidy, Body, Typed
<1>2. Disowned(s, u)
  BY <1>1, DisownedTransitive DEF Keeps
<1> QED BY <1>2 DEF Keeps

\* A change of other fields.
Beside(s, t) ==
    /\ DOMAIN s.clients \subseteq DOMAIN t.clients
    /\ s.current \in DOMAIN t.clients => s.current \in DOMAIN s.clients
    /\ t.current = s.current /\ t.file = s.file /\ t.pending = s.pending
    /\ t.silenced \in {s.silenced, None} /\ t.clip = s.clip

LEMMA BesideKeeps ==
    ASSUME NEW s, NEW t, Beside(s, t)
    PROVE  Keeps(s, t) /\ Stays(s, t)
  BY DEF Beside, Keeps, Filed, Disowned, Stays

\* The funnel brings the file in line, whatever it was.
LEMMA SetAndGrabFiles ==
    ASSUME NEW s, NEW client \in Endpoint \union {None}, Typed(s),
           NEW t, t = SetAndGrab(s, client)
    PROVE  Filed(t) /\ Keeps(s, t) /\ t.removed = s.removed
<1>1. /\ t.clients = s.clients /\ t.current = client
      /\ t.removed = s.removed /\ t.pending = s.pending /\ t.clip = s.clip
      /\ t.silenced \in {s.silenced, None}
      /\ t.file = CASE client = None -> None
                    [] client \in DOMAIN s.clients -> FpOf[client]
                    [] OTHER -> s.file
  BY DEF Typed, Struct, SetAndGrab
<1>2. client \in DOMAIN s.clients => client # None
  BY NoneAssumption DEF Typed
<1> QED BY <1>1, <1>2 DEF Filed, Keeps, Disowned

\* What the funnel does to those fields when input comes home.
LEMMA HomeFields ==
    ASSUME NEW t, NEW r, r = SetAndGrab(t, None), None \notin DOMAIN t.clients,
           {"clients", "current", "file", "pending", "clip", "silenced", "removed"}
              \subseteq DOMAIN t
    PROVE  /\ r.clients = t.clients /\ r.current = None /\ r.file = None
           /\ r.pending = t.pending /\ r.clip = t.clip /\ r.silenced = t.silenced
           /\ r.removed = t.removed
<1> DEFINE keys == t.keys /\ ~(t.current = None /\ None # None)
           live == IF None = None THEN t.live
                   ELSE [e \in DOMAIN t.live \union {None} |->
                            IF e = None THEN Heard ELSE t.live[e]]
           silenced == IF None = None THEN t.silenced ELSE None
           file == CASE None = None -> None
                     [] None \in DOMAIN t.clients -> FpOf[None]
                     [] OTHER -> t.file
           grab == [client |-> None # None, paused |-> t.paused]
<1>1. r = [t EXCEPT !.keys = keys, !.current = None, !.live = live,
                    !.silenced = silenced, !.file = file, !.grab = grab]
  BY DEF SetAndGrab
<1>2. silenced = t.silenced /\ file = None
  OBVIOUS
<1> HIDE DEF keys, live, silenced, file, grab
<1> QED BY <1>1, <1>2

\* handle_client_removal; forgetting the clipboard is left to its callers.
LEMMA HandleRemovalKeeps ==
    ASSUME NEW s, NEW old, NEW gone, Tidy(s, old)
    PROVE  LET r == HandleRemoval(s, gone)
           IN  /\ Filed(s) => Filed(r)
               /\ r.pending = s.pending /\ r.clip = s.clip
               /\ r.silenced \in {s.silenced, None}
               /\ Blames(s, r)
<1> DEFINE lost == gone \intersect DOMAIN s.clients
           wasCurrent == s.current \in lost
           wasSilenced == ~wasCurrent /\ s.silenced \in lost
           t == [s EXCEPT
                !.live = Restrict(s.live, DOMAIN s.live \ gone),
                !.clients = Restrict(s.clients, DOMAIN s.clients \ gone),
                !.window = s.window \ lost,
                !.removed =
                    CASE wasCurrent ->
                            [endpoint |-> s.current, recoverable |-> TRUE]
                      [] wasSilenced ->
                            [endpoint |-> s.silenced, recoverable |-> TRUE]
                      [] OTHER -> s.removed,
                !.silenced = IF wasSilenced THEN None ELSE s.silenced]
           r == HandleRemoval(s, gone)
<1>1. r = IF wasCurrent THEN SetAndGrab(t, None) ELSE t
  BY DEF HandleRemoval
<1>2. /\ t.clients = Restrict(s.clients, DOMAIN s.clients \ gone)
      /\ t.silenced = IF wasSilenced THEN None ELSE s.silenced
      /\ t.removed =
            CASE wasCurrent -> [endpoint |-> s.current, recoverable |-> TRUE]
              [] wasSilenced -> [endpoint |-> s.silenced, recoverable |-> TRUE]
              [] OTHER -> s.removed
      /\ t.current = s.current /\ t.file = s.file /\ t.pending = s.pending
      /\ t.clip = s.clip
      /\ DOMAIN t = DOMAIN s
  BY DEF Tidy, Body, Typed, Struct
<1>3. lost \subseteq Endpoint /\ None \notin Endpoint
  BY NoneAssumption DEF Tidy, Body, Typed
<1>4. DOMAIN t.clients = DOMAIN s.clients \ gone
  BY <1>2 DEF Restrict
<1>5. Blames(s, t)
  BY <1>2, <1>3 DEF Blames
<1>6. CASE ~wasCurrent
  <2>1. r = t
    BY <1>1, <1>6
  <2>2. Filed(s) => Filed(t)
    BY <1>2, <1>4 DEF Filed
  <2> HIDE DEF t, r
  <2> QED BY <1>2, <1>5, <2>1, <2>2 DEF r
<1>7. CASE wasCurrent
  <2>1. r = SetAndGrab(t, None)
    BY <1>1, <1>7
  <2>2. /\ r.clients = t.clients /\ r.current = None /\ r.file = None
        /\ r.pending = t.pending /\ r.clip = t.clip /\ r.silenced = t.silenced
        /\ r.removed = t.removed
    <3>1. /\ DOMAIN t = DOMAIN s
          /\ {"clients", "current", "file", "pending", "clip", "silenced", "removed"}
                \subseteq DOMAIN s
      BY <1>2 DEF Tidy, Body, Typed, Struct
    <3>2. None \notin DOMAIN t.clients
      BY <1>4, NoneAssumption DEF Tidy, Body, Typed
    <3> HIDE DEF t, r
    <3> QED BY <2>1, <3>1, <3>2, HomeFields
  <2>3. Filed(r)
    BY <2>2, <1>3, <1>4 DEF Filed, Tidy, Body, Typed
  <2>4. Blames(s, r)
    BY <1>5, <2>2 DEF Blames
  <2> HIDE DEF t, r
  <2> QED BY <1>2, <2>2, <2>3, <2>4 DEF r
<1> QED BY <1>6, <1>7

\* clipboard_clear.
LEMMA ClipboardClearKeeps ==
    ASSUME NEW s, NEW old, Tidy(s, old), NEW t \in ClipboardClear(s)
    PROVE  Keeps(s, t) /\ t.clip = None /\ Blames(s, t)
<1> DEFINE c == [s EXCEPT !.clip = None]
<1>1. /\ Aside(s, c) /\ c.current = s.current /\ c.file = s.file
      /\ c.pending = s.pending /\ c.silenced = s.silenced /\ c.clients = s.clients
      /\ c.removed = s.removed
      /\ c.clip = None
  BY DEF Tidy, Body, Typed, Struct, Aside
<1>2. PICK gone : t = HandleRemoval(c, gone)
  BY DEF ClipboardClear
<1> HIDE DEF c
<1>3. Tidy(c, old)
  BY <1>1, AsideTidy
<1>4. /\ Filed(c) => Filed(t)
      /\ t.pending = c.pending /\ t.clip = c.clip
      /\ t.silenced \in {c.silenced, None} /\ Blames(c, t)
  BY <1>2, <1>3, HandleRemovalKeeps
<1>5. Filed(s) => Filed(c)
  BY <1>1 DEF Filed
<1>6. s.clip \in DOMAIN s.clients => s.clip # None
  BY NoneAssumption DEF Tidy, Body, Typed
<1> QED BY <1>1, <1>4, <1>5, <1>6 DEF Keeps, Disowned, Blames

\* A set of failed writes.
LEMMA DropAllKeeps ==
    ASSUME NEW s, NEW old, NEW gone, Tidy(s, old), NEW t \in DropAll(s, gone)
    PROVE  Keeps(s, t) /\ Stays(s, t) /\ Blames(s, t)
<1> DEFINE r == HandleRemoval(s, gone)
<1>1. /\ Tidy(r, old) /\ Loses(s, r)
      /\ DOMAIN r.clients = DOMAIN s.clients \ gone
  BY HandleRemovalLoses
<1>2. /\ Filed(s) => Filed(r)
      /\ r.pending = s.pending /\ r.clip = s.clip
      /\ r.silenced \in {s.silenced, None} /\ Blames(s, r)
  BY HandleRemovalKeeps
<1>3. IF s.clip \in gone \intersect DOMAIN s.clients
      THEN t \in ClipboardClear(r) ELSE t = r
  BY DEF DropAll
<1>4. Stays(s, t)
  BY DropAllLoses DEF Loses, Stays
<1>5. DOMAIN s.clients \subseteq Endpoint
  BY DEF Tidy, Body, Typed
<1> HIDE DEF r
<1>6. CASE s.clip \in gone \intersect DOMAIN s.clients
  <2>1. Keeps(r, t) /\ t.clip = None /\ Blames(r, t)
    BY <1>1, <1>3, <1>6, ClipboardClearKeeps
  <2>2. Keeps(s, t)
    BY <1>2, <1>5, <2>1, NoneAssumption DEF Keeps, Disowned
  <2>3. Blames(s, t)
    BY <1>1, <1>2, <2>1 DEF Blames, Loses
  <2> QED BY <1>4, <2>2, <2>3
<1>7. CASE s.clip \notin gone \intersect DOMAIN s.clients
  <2>1. t = r
    BY <1>3, <1>7
  <2> QED BY <1>1, <1>2, <1>4, <1>7, <2>1 DEF Keeps, Disowned
<1> QED BY <1>6, <1>7

\* send_event sends, or loses its client.
LEMMA SendEventKeeps ==
    ASSUME NEW s, NEW old, NEW e, NEW sent, Tidy(s, old),
           NEW t \in SendEvent(s, e, sent)
    PROVE  \/ t = sent /\ e \in DOMAIN s.clients
           \/ Keeps(s, t) /\ Stays(s, t) /\ Blames(s, t)
<1>1. t = s => Keeps(s, t) /\ Stays(s, t) /\ Blames(s, t)
  BY KeepsReflexive DEF Stays, Blames
<1>2. \/ t = s
      \/ e \in DOMAIN s.clients /\ (t = sent \/ t \in DropAll(s, {e}))
  BY DEF SendEvent, Drop
<1> QED BY <1>1, <1>2, DropAllKeeps

\* send_event of a Switch.
LEMMA SendSwitchKeeps ==
    ASSUME NEW s, NEW old, NEW e, NEW enabled \in BOOLEAN, Tidy(s, old),
           NEW t \in SendSwitch(s, e, enabled)
    PROVE  Keeps(s, t) /\ Stays(s, t)
<1> DEFINE w == [s EXCEPT !.clients =
                   [s.clients EXCEPT ![e] = TakesSwitch(s.clients[e], enabled)]]
<1>1. \/ t = w /\ e \in DOMAIN s.clients
      \/ Keeps(s, t) /\ Stays(s, t)
  BY SendEventKeeps DEF SendSwitch
<1>2. Beside(s, w)
  BY DEF Tidy, Body, Typed, Struct, Beside
<1> QED BY <1>1, <1>2, BesideKeeps

\* send_event_to_remote_client.
LEMMA SendToCurrentKeeps ==
    ASSUME NEW s, NEW old, NEW sent, Tidy(s, old),
           NEW t \in SendToCurrent(s, sent)
    PROVE  \/ t = sent /\ s.current \in DOMAIN s.clients
           \/ Keeps(s, t) /\ Stays(s, t)
<1>1. CASE s.current = None
  <2>1. s.current \notin DOMAIN s.clients
    BY <1>1, NoneAssumption DEF Tidy, Body, Typed
  <2>2. t = s
    BY <1>1, <2>1 DEF SendToCurrent
  <2> QED BY <2>2, KeepsReflexive DEF Stays
<1>2. CASE s.current # None /\ s.current \in DOMAIN s.clients
  <2>1. t \in SendEvent(s, s.current, sent)
    BY <1>2 DEF SendToCurrent
  <2> QED BY <2>1, SendEventKeeps
<1>3. CASE s.current # None /\ s.current \notin DOMAIN s.clients
  <2>1. t = SetAndGrab(s, None)
    BY <1>3 DEF SendToCurrent
  <2>2. Typed(s) /\ None \in Endpoint \union {None}
    BY DEF Tidy, Body
  <2>3. t.current = None
    BY <1>3, <2>1, SetAndGrabHome DEF Tidy
  <2> QED BY <2>1, <2>2, <2>3, SetAndGrabFiles DEF Stays
<1> QED BY <1>1, <1>2, <1>3

\* update_current_client_clipboard.
LEMMA UpdateCurrentClipboardKeeps ==
    ASSUME NEW s, NEW old, Tidy(s, old), NEW t \in UpdateCurrentClipboard(s)
    PROVE  Keeps(s, t) /\ Stays(s, t)
<1>1. t = s \/ t \in SendToCurrent(s, s)
  BY DEF UpdateCurrentClipboard
<1> QED BY <1>1, SendToCurrentKeeps, KeepsReflexive DEF Stays

\* apply_clipboard_source: a new owner in place of the old one.
LEMMA ApplyClipboardSourceKeeps ==
    ASSUME NEW s, NEW old, NEW source \in Endpoint \union {Local},
           Tidy(s, old), NEW t \in ApplyClipboardSource(s, source)
    PROVE  /\ Keeps([s EXCEPT !.clip = source], t) /\ Stays(s, t)
           /\ source \in {s.clip, Local} => Keeps(s, t)
<1> DEFINE c == [s EXCEPT !.clip = source]
<1>1. /\ Aside(s, c) /\ c.current = s.current /\ c.file = s.file
      /\ c.pending = s.pending /\ c.silenced = s.silenced /\ c.clients = s.clients
      /\ c.clip = source
  BY DEF Tidy, Body, Typed, Struct, Aside
<1>2. t \in UpdateCurrentClipboard(c)
  BY DEF ApplyClipboardSource
<1> HIDE DEF c
<1>3. Tidy(c, old)
  BY <1>1, AsideTidy
<1>4. Keeps(c, t) /\ Stays(c, t)
  BY <1>2, <1>3, UpdateCurrentClipboardKeeps
<1>5. DOMAIN s.clients \subseteq Endpoint
  BY DEF Tidy, Body, Typed
<1>6. ASSUME source \in {s.clip, Local} PROVE Keeps(s, t)
  <2>1. Filed(s) => Filed(t)
    BY <1>1, <1>4 DEF Keeps, Filed
  <2>2. Disowned(s, t)
    BY <1>1, <1>4, <1>5, <1>6, NoneAssumption DEF Keeps, Disowned
  <2> QED BY <1>1, <1>4, <2>1, <2>2 DEF Keeps
<1> QED BY <1>1, <1>4, <1>6 DEF Stays, c

\* flush_pending_local_clipboard.
LEMMA FlushPendingLocalKeeps ==
    ASSUME NEW s, NEW old, Tidy(s, old), NEW t \in FlushPendingLocal(s)
    PROVE  Keeps(s, t) /\ Stays(s, t)
<1> DEFINE c == [s EXCEPT !.held = FALSE]
           w == [c EXCEPT !.window = @ \union {Local}]
<1>1. Aside(s, w) /\ Beside(s, c) /\ Beside(s, w)
  BY DEF Tidy, Body, Typed, Struct, Aside, Beside
<1>2. t = s \/ t = c \/ t \in ApplyClipboardSource(w, Local)
  BY DEF FlushPendingLocal
<1> HIDE DEF c, w
<1>3. /\ Keeps(s, c) /\ Stays(s, c) /\ Keeps(s, w)
      /\ Tidy(w, old) /\ w.current = s.current
  BY <1>1, BesideKeeps, AsideTidy DEF Beside
<1>4. CASE t \in ApplyClipboardSource(w, Local)
  <2>1. Keeps(w, t) /\ Stays(w, t)
    BY <1>3, <1>4, ApplyClipboardSourceKeeps
  <2> QED BY <1>3, <2>1, KeepsTransitive DEF Stays
<1> QED BY <1>2, <1>3, <1>4, KeepsReflexive DEF Stays

-----------------------------------------------------------------------------
(* Moving the target.                                                      *)

\* The Switch(true), and the Switch(false) to the client that was left.
LEMMA ActivateKeeps ==
    ASSUME NEW s, NEW old, NEW client, Tidy(s, old), NEW t \in Activate(s, client)
    PROVE  Keeps(s, t)
<1>1. \/ t = s
      \/ t \in SendSwitch(s, s.current, TRUE)
      \/ t = SetAndGrab(s, None)
  BY DEF Activate
<1>2. Typed(s) /\ None \in Endpoint \union {None}
  BY DEF Tidy, Body
<1> QED BY <1>1, <1>2, KeepsReflexive, SendSwitchKeeps, SetAndGrabFiles

LEMMA DeactivateKeeps ==
    ASSUME NEW s, NEW old, NEW left, Tidy(s, old), NEW t \in Deactivate(s, left)
    PROVE  Keeps(s, t)
<1>1. t = s \/ t \in SendSwitch(s, left, FALSE)
  BY DEF Deactivate
<1> QED BY <1>1, KeepsReflexive, SendSwitchKeeps

\* A change of target sets the file right even if it was not.
LEMMA ChangeCurrentFiles ==
    ASSUME NEW s, NEW client \in Endpoint \union {None}, Tidy(s, None),
           s.removed = None, NEW t \in ChangeCurrent(s, client)
    PROVE  Filed(t) /\ Keeps(s, t)
<1> DEFINE g == SetAndGrab(s, client)
<1>1. PICK h \in UpdateCurrentClipboard(g) :
        \E u \in Activate(h, client) : t \in Deactivate(u, s.current)
  BY DEF ChangeCurrent
<1>2. PICK u \in Activate(h, client) : t \in Deactivate(u, s.current)
  BY <1>1
<1>3. Tidy(g, s.current) /\ g.current = client
  BY SetAndGrabLeaves
<1>4. Filed(g) /\ Keeps(s, g)
  BY SetAndGrabFiles DEF Tidy, Body
<1> HIDE DEF g
<1>5. Tidy(h, s.current) /\ Loses(g, h) /\ Keeps(g, h)
  BY <1>3, UpdateCurrentClipboardLoses, UpdateCurrentClipboardKeeps
<1>6. client = None => h.current = None
  BY <1>3, <1>5 DEF Loses
<1>7. Tidy(u, s.current) /\ Keeps(h, u)
  BY <1>5, <1>6, ActivateTells, ActivateKeeps
<1>8. Keeps(u, t)
  BY <1>2, <1>7, DeactivateKeeps
<1>9. Filed(t)
  BY <1>4, <1>5, <1>7, <1>8 DEF Keeps
<1>10. Keeps(g, u)
  BY <1>3, <1>5, <1>7, KeepsTransitive
<1>11. Keeps(g, t)
  BY <1>3, <1>8, <1>10, KeepsTransitive
<1> QED BY <1>4, <1>9, <1>11, KeepsTransitive

\* update_current_client.  A move away from the local machine sets the file
\* right even if the session to resume was just taken off the list.
LEMMA UpdateCurrentFiles ==
    ASSUME NEW s, NEW client \in Endpoint \union {None}, Tidy(s, None),
           NEW t \in UpdateCurrent(s, client)
    PROVE  /\ Keeps(s, t)
           /\ client # None /\ (s.current # None => Filed(s)) => Filed(t)
<1>1. PICK f \in FlushPendingLocal(s) :
        LET u == [f EXCEPT !.removed = None]
        IN  t \in IF client = u.current THEN {u} ELSE ChangeCurrent(u, client)
  BY DEF UpdateCurrent
<1> DEFINE u == [f EXCEPT !.removed = None]
<1>2. Tidy(f, None) /\ Keeps(s, f) /\ Stays(s, f)
  BY FlushPendingLocalLoses, FlushPendingLocalKeeps
<1>3. Aside(f, u) /\ Beside(f, u) /\ u.removed = None
  BY <1>2 DEF Tidy, Body, Typed, Struct, Aside, Beside
<1>4. \/ t = u /\ client = u.current
      \/ client # u.current /\ t \in ChangeCurrent(u, client)
  BY <1>1
<1> HIDE DEF u
<1>5. Tidy(u, None) /\ Keeps(f, u) /\ u.current = f.current
  BY <1>2, <1>3, AsideTidy, BesideKeeps DEF Beside
<1>6. Keeps(s, u)
  BY <1>2, <1>5, KeepsTransitive
<1>7. CASE t = u /\ client = u.current
  BY <1>2, <1>5, <1>6, <1>7 DEF Keeps, Stays
<1>8. CASE client # u.current /\ t \in ChangeCurrent(u, client)
  <2>1. Filed(t) /\ Keeps(u, t)
    BY <1>3, <1>5, <1>8, ChangeCurrentFiles
  <2> QED BY <1>6, <2>1, KeepsTransitive
<1> QED BY <1>4, <1>7, <1>8

\* release_current_target_keys.
LEMMA ReleaseKeeps ==
    ASSUME NEW s, Tidy(s, None), NEW t \in ReleaseCurrentTargetKeys(s)
    PROVE  Keeps(s, t) /\ Stays(s, t)
<1>1. CASE s.current = None
  <2> DEFINE k == [s EXCEPT !.keys = FALSE]
  <2>1. t = k
    BY <1>1 DEF ReleaseCurrentTargetKeys
  <2>2. Beside(s, k)
    BY DEF Tidy, Body, Typed, Struct, Beside
  <2> HIDE DEF k
  <2> QED BY <2>1, <2>2, BesideKeeps
<1>2. CASE s.current # None
  <2>1. PICK r \in SendSwitch(s, s.current, FALSE) :
            t \in SendSwitch(r, s.current, TRUE)
    BY <1>2 DEF ReleaseCurrentTargetKeys
  <2>2. Tidy(r, None) /\ Keeps(s, r) /\ Stays(s, r)
    BY SendSwitchSwitches, SendSwitchKeeps
  <2>3. Keeps(r, t) /\ Stays(r, t)
    BY <2>1, <2>2, SendSwitchKeeps
  <2> QED BY <2>2, <2>3, KeepsTransitive DEF Stays
<1> QED BY <1>1, <1>2

-----------------------------------------------------------------------------
(* The handlers.                                                           *)

\* The entry of a new client.
LEMMA InsertClientKeeps ==
    ASSUME NEW s, NEW e \in Endpoint, NEW token \in Nat,
           Tidy(s, None), Connected(s), NEW t \in InsertClient(s, e, token)
    PROVE  Keeps(s, t) /\ Stays(s, t) /\ Blames(s, t)
<1> DEFINE w == [s EXCEPT
                !.clients = [x \in DOMAIN s.clients \union {e} |->
                    IF x = e
                    THEN [token |-> token, active |-> FALSE, keys |-> FALSE]
                    ELSE s.clients[x]],
                !.live = [x \in DOMAIN s.live \union {e} |->
                    IF x = e THEN Heard ELSE s.live[x]]]
<1>1. /\ DOMAIN w.clients = DOMAIN s.clients \union {e}
      /\ w.current = s.current /\ w.file = s.file /\ w.pending = s.pending
      /\ w.silenced = s.silenced /\ w.clip = s.clip /\ w.removed = s.removed
  BY DEF Tidy, Body, Typed, Struct
<1>2. /\ t = w \/ t \in SendEvent(w, e, w)
      /\ w \in InsertClient(s, e, token)
  BY <1>1 DEF InsertClient, SendEvent
<1> HIDE DEF w
<1>3. Tidy(w, None)
  BY <1>2, InsertClientJoins DEF Joined
<1>4. Keeps(s, w)
  <2>1. Beside(s, w)
    BY <1>1, NoneAssumption DEF Connected, Beside
  <2> QED BY <2>1, BesideKeeps
<1>5. CASE t = w
  BY <1>1, <1>4, <1>5 DEF Stays, Blames
<1>6. CASE t # w
  <2>1. Keeps(w, t) /\ Stays(w, t) /\ Blames(w, t)
    BY <1>2, <1>3, <1>6, SendEventKeeps
  <2> QED BY <1>1, <1>4, <2>1, KeepsTransitive DEF Stays, Blames
<1> QED BY <1>5, <1>6

\* The rules that follow a reconnect.
LEMMA ReactivationKeeps ==
    ASSUME NEW s, NEW e \in Endpoint, Tidy(s, None), NEW t,
           t \in ReplaceCurrent(s, e) \/ t \in RecoverRemoved(s, e)
    PROVE  Keeps(s, t)
<1> DEFINE r == [s EXCEPT !.removed = None]
<1>1. t \in {s, r} \/ t \in UpdateCurrent(s, e)
  BY DEF ReplaceCurrent, RecoverRemoved
<1>2. Beside(s, r)
  BY DEF Tidy, Body, Typed, Struct, Beside
<1> HIDE DEF r
<1> QED BY <1>1, <1>2, BesideKeeps, KeepsReflexive, UpdateCurrentFiles

\* What a handler may do but for recording a silence.
Handles(s, t) ==
    /\ Filed(s) => Filed(t)
    /\ s.clip \in DOMAIN s.clients \ DOMAIN t.clients => t.clip # s.clip
Hushes(s, t) == t.silenced \in {s.silenced, None}

LEMMA KeepsHandles == \A s, t : Keeps(s, t) => Handles(s, t) /\ Hushes(s, t)
  BY DEF Keeps, Disowned, Handles, Hushes

\* The rule for the session to resume, which is taken off the list.
LEMMA ResumeFiles ==
    ASSUME NEW s, NEW e \in Endpoint, Tidy(s, None), NEW t \in ResumeSession(s, e)
    PROVE  /\ Filed(s) => Filed(t)
           /\ Disowned(s, t) /\ Hushes(s, t)
<1> DEFINE p == [s EXCEPT !.pending = None]
<1>1. t = s \/ t \in UpdateCurrent(p, e)
  BY DEF ResumeSession
<1>2. /\ Aside(s, p) /\ p.clients = s.clients /\ p.current = s.current
      /\ p.file = s.file /\ p.clip = s.clip /\ p.silenced = s.silenced
  BY DEF Tidy, Body, Typed, Struct, Aside
<1> HIDE DEF p
<1>3. CASE t = s
  BY <1>3 DEF Disowned, Hushes
<1>4. CASE t \in UpdateCurrent(p, e)
  <2>1. Tidy(p, None) /\ e # None
    BY <1>2, AsideTidy, NoneAssumption
  <2>2. /\ Keeps(p, t)
        /\ (p.current # None => Filed(p)) => Filed(t)
    BY <1>4, <2>1, UpdateCurrentFiles
  <2>3. Filed(s) => (p.current # None => Filed(p))
    BY <1>2 DEF Filed
  <2> QED BY <1>2, <2>2, <2>3 DEF Keeps, Disowned, Hushes
<1> QED BY <1>1, <1>3, <1>4

\* The whole of add_client.
LEMMA AddClientHandles ==
    ASSUME NEW s, NEW e \in Endpoint, NEW token \in Nat,
           Tidy(s, None), Connected(s), NEW t \in AddClient(s, e, token)
    PROVE  /\ Handles(s, t) /\ Hushes(s, t)
           /\ s.current # None /\ t.current \notin {None, s.current}
                 => IpOf[t.current] = IpOf[s.current] \/ s.pending = FpOf[t.current]
<1>1. PICK i \in InsertClient(s, e, token) :
        \E u \in ReplaceCurrent(i, e) : \E v \in RecoverRemoved(u, e) :
            t \in ResumeSession(v, e)
  BY DEF AddClient
<1>2. PICK u \in ReplaceCurrent(i, e) : \E v \in RecoverRemoved(u, e) :
        t \in ResumeSession(v, e)
  BY <1>1
<1>3. PICK v \in RecoverRemoved(u, e) : t \in ResumeSession(v, e)
  BY <1>2
<1>4. Tidy(i, None) /\ Connected(i) /\ Keeps(s, i) /\ Stays(s, i) /\ Blames(s, i)
  BY InsertClientJoins, InsertClientKeeps DEF Joined
<1>5. Tidy(u, None) /\ Connected(u) /\ Keeps(i, u)
  BY <1>2, <1>4, ReactivationSettles, ReactivationKeeps DEF Settled
<1>6. Tidy(v, None) /\ Connected(v) /\ Keeps(u, v)
  BY <1>3, <1>5, ReactivationSettles, ReactivationKeeps DEF Settled
<1>7. Keeps(s, v)
  BY <1>4, <1>5, <1>6, KeepsTransitive
<1>8. (Filed(v) => Filed(t)) /\ Disowned(v, t) /\ Hushes(v, t)
  BY <1>3, <1>6, ResumeFiles
<1>9. Handles(s, t) /\ Hushes(s, t)
  <2>1. DOMAIN s.clients \subseteq Endpoint
    BY DEF Tidy, Body, Typed
  <2>2. Disowned(s, t)
    BY <1>7, <1>8, <2>1, DisownedTransitive DEF Keeps
  <2> QED BY <1>7, <1>8, <2>2 DEF Keeps, Handles, Hushes, Disowned
<1>10. ASSUME s.current # None, t.current \notin {None, s.current}
       PROVE  IpOf[t.current] = IpOf[s.current] \/ s.pending = FpOf[t.current]
  <2>1. u = i \/ (u \in UpdateCurrent(i, e) /\ i.current # None /\ IpOf[i.current] = IpOf[e])
    BY <1>2 DEF ReplaceCurrent
  <2>2. \/ v = u \/ v = [u EXCEPT !.removed = None]
        \/ /\ v \in UpdateCurrent(u, e) /\ u.removed # None
           /\ IpOf[u.removed.endpoint] = IpOf[e]
    BY <1>3 DEF RecoverRemoved
  <2>3. t = v \/ (v.pending = FpOf[e] /\ t \in UpdateCurrent([v EXCEPT !.pending = None], e))
    BY <1>3 DEF ResumeSession
  <2>4. u.current \in {i.current, e, None}
    BY <1>4, <2>1, UpdateCurrentSettles
  <2>5. v.current \in {u.current, e, None}
    <3> DEFINE r == [u EXCEPT !.removed = None]
    <3>1. r.current = u.current
      BY <1>5 DEF Tidy, Body, Typed, Struct
    <3>2. v = u \/ v = r \/ v \in UpdateCurrent(u, e)
      BY <2>2
    <3> HIDE DEF r
    <3>3. v \in UpdateCurrent(u, e) => v.current \in {e, None}
      BY <1>5, UpdateCurrentSettles
    <3> QED BY <3>1, <3>2, <3>3
  <2>6. t.current \in {v.current, e, None}
    <3> DEFINE p == [v EXCEPT !.pending = None]
    <3>1. Aside(v, p)
      BY <1>6 DEF Tidy, Body, Typed, Struct, Aside
    <3>2. t = v \/ t \in UpdateCurrent(p, e)
      BY <2>3
    <3> HIDE DEF p
    <3>3. Settled(v, p)
      BY <1>6, <3>1, AsideSettles
    <3> QED BY <3>2, <3>3, UpdateCurrentSettles DEF Settled
  <2>7. i.current \in {s.current, None}
    BY <1>4 DEF Stays
  <2>8. t.current = e
    BY <1>10, <2>4, <2>5, <2>6, <2>7
  <2>9. CASE u \in UpdateCurrent(i, e) /\ i.current # None /\ IpOf[i.current] = IpOf[e]
    BY <2>7, <2>8, <2>9
  <2>10. CASE /\ u = i /\ v \in UpdateCurrent(u, e) /\ u.removed # None
              /\ IpOf[u.removed.endpoint] = IpOf[e]
    <3>1. s.removed = None /\ s.silenced = None
      BY <1>10 DEF Tidy, Armed
    <3> QED BY <1>4, <2>8, <2>10, <3>1 DEF Blames
  <2>11. CASE u = i /\ (v = u \/ v = [u EXCEPT !.removed = None])
    <3>1. v.current = i.current
      BY <1>5, <2>11 DEF Tidy, Body, Typed, Struct
    <3>2. t # v
      BY <1>10, <2>7, <3>1
    <3>3. v.pending = s.pending
      BY <1>7 DEF Keeps
    <3> QED BY <2>3, <2>8, <3>2, <3>3
  <2> QED BY <2>1, <2>2, <2>9, <2>10, <2>11
<1> QED BY <1>9, <1>10

\* The calls that only write, or do nothing at all.
Quiet(s, t) == Handles(s, t) /\ Hushes(s, t) /\ Stays(s, t)

LEMMA KeepsQuiet == \A s, t : Keeps(s, t) /\ Stays(s, t) => Quiet(s, t)
  BY KeepsHandles DEF Quiet

LEMMA QuietReflexive == \A s : Quiet(s, s)
  BY DEF Quiet, Handles, Hushes, Stays

LEMMA BesideQuiet == \A s, t : Beside(s, t) => Quiet(s, t)
  BY BesideKeeps, KeepsQuiet

\* remove_client_and_clear_clipboard.
LEMMA RemoveClientQuiet ==
    ASSUME NEW s, NEW e, NEW token, Tidy(s, None), NEW t \in RemoveClient(s, e, token)
    PROVE  Quiet(s, t)
<1>1. t = s \/ t \in DropAll(s, {e})
  BY DEF RemoveClient, Drop
<1> QED BY <1>1, DropAllKeeps, KeepsQuiet, QuietReflexive

\* prev_client and next_client, set_client: nothing is left to recover from
\* silence, unless the server is paused.
LEMMA SwitchClientHandles ==
    ASSUME NEW s, NEW target \in Endpoint \union {None}, Tidy(s, None),
           Connected(s), NEW t \in SwitchClient(s, target)
    PROVE  /\ Handles(s, t)
           /\ s.paused => t = s
           /\ ~s.paused => t.silenced = None
           /\ ~s.paused /\ target = None => t.current = None
<1> DEFINE m == [s EXCEPT !.silenced = None]
           n == [m EXCEPT !.recent = TRUE]
<1>1. IF s.paused THEN t = s
      ELSE IF target = s.current \/ ~SwitchAllowed(s, target)
           THEN t \in ReleaseCurrentTargetKeys(m)
           ELSE t \in UpdateCurrent(n, target)
  BY DEF SwitchClient
<1>2. /\ Aside(s, m) /\ Aside(s, n) /\ m.silenced = None /\ n.silenced = None
      /\ m.current = s.current /\ m.clients = s.clients /\ n.clients = s.clients
      /\ Beside(s, m) /\ Beside(s, n)
  BY DEF Tidy, Body, Typed, Struct, Aside, Beside
<1> HIDE DEF m, n
<1>3. Tidy(m, None) /\ Tidy(n, None) /\ Connected(n) /\ Keeps(s, m) /\ Keeps(s, n)
  BY <1>2, AsideTidy, AsideSettles, BesideKeeps DEF Settled
<1>4. CASE s.paused
  BY <1>1, <1>4, QuietReflexive DEF Quiet
<1>5. CASE ~s.paused /\ t \in ReleaseCurrentTargetKeys(m) /\ (target = s.current \/ target # None)
  <2>1. Keeps(m, t) /\ Stays(m, t)
    BY <1>3, <1>5, ReleaseKeeps
  <2>2. Handles(s, t)
    BY <1>3, <2>1, KeepsTransitive, KeepsHandles
  <2> QED BY <1>2, <1>5, <2>1, <2>2 DEF Keeps, Stays
<1>6. CASE ~s.paused /\ t \in UpdateCurrent(n, target)
  <2>1. Keeps(n, t) /\ t.current \in {target, None}
    BY <1>3, <1>6, UpdateCurrentFiles, UpdateCurrentSettles
  <2>2. Handles(s, t)
    BY <1>3, <2>1, KeepsTransitive, KeepsHandles
  <2> QED BY <1>2, <1>6, <2>1, <2>2 DEF Keeps
<1> QED BY <1>1, <1>4, <1>5, <1>6 DEF SwitchAllowed

LEMMA SetClientHandles ==
    ASSUME NEW s, NEW wanted, Tidy(s, None), Connected(s), NEW t \in SetClient(s, wanted)
    PROVE  /\ Handles(s, t)
           /\ s.paused => t = s
           /\ ~s.paused => t.silenced = None
           /\ ~s.paused /\ wanted = {} => t.current = None
<1> DEFINE m == [s EXCEPT !.silenced = None]
           matching == {e \in DOMAIN s.clients : FpOf[e] \in wanted}
           targets == IF wanted = {} THEN {None} ELSE matching
<1>1. IF s.paused THEN t = s
      ELSE IF Cardinality(targets) = 1 /\ s.current \notin targets
           THEN \E target \in targets : t \in UpdateCurrent(m, target)
           ELSE t \in ReleaseCurrentTargetKeys(m)
  BY DEF SetClient
<1>2. /\ Aside(s, m) /\ m.silenced = None /\ m.current = s.current /\ Beside(s, m)
  BY DEF Tidy, Body, Typed, Struct, Aside, Beside
<1>3. targets \subseteq Endpoint \union {None}
  BY DEF Tidy, Body, Typed
<1>4. wanted = {} => targets = {None} /\ Cardinality(targets) = 1
  BY FS_Singleton
<1> HIDE DEF m, targets
<1>5. Tidy(m, None) /\ Connected(m) /\ Keeps(s, m)
  BY <1>2, AsideTidy, AsideSettles, BesideKeeps DEF Settled
<1>6. CASE s.paused
  BY <1>1, <1>6, QuietReflexive DEF Quiet
<1>7. CASE ~s.paused /\ t \in ReleaseCurrentTargetKeys(m) /\ (wanted = {} => s.current = None)
  <2>1. Keeps(m, t) /\ Stays(m, t)
    BY <1>5, <1>7, ReleaseKeeps
  <2>2. Handles(s, t)
    BY <1>5, <2>1, KeepsTransitive, KeepsHandles
  <2> QED BY <1>2, <1>7, <2>1, <2>2 DEF Keeps, Stays
<1>8. ASSUME ~s.paused, NEW target \in targets, t \in UpdateCurrent(m, target)
      PROVE  Handles(s, t) /\ t.silenced = None /\ (wanted = {} => t.current = None)
  <2>1. Keeps(m, t) /\ t.current \in {target, None}
    BY <1>3, <1>5, <1>8, UpdateCurrentFiles, UpdateCurrentSettles
  <2>2. Handles(s, t)
    BY <1>5, <2>1, KeepsTransitive, KeepsHandles
  <2> QED BY <1>2, <1>4, <2>1, <2>2 DEF Keeps
<1> QED BY <1>1, <1>4, <1>6, <1>7, <1>8

\* toggle_pause.
LEMMA TogglePauseQuiet ==
    ASSUME NEW s, Tidy(s, None), Connected(s), NEW t \in TogglePause(s)
    PROVE  Quiet(s, t)
<1>1. PICK r \in IF s.paused THEN {s} ELSE ReleaseCurrentTargetKeys(s) :
        t = [r EXCEPT !.paused = ~s.paused,
                      !.grab = [client |-> r.current # None,
                                paused |-> ~s.paused]]
  BY DEF TogglePause
<1>2. Tidy(r, None) /\ Keeps(s, r) /\ Stays(s, r)
  BY ReleaseSettles, ReleaseKeeps, KeepsReflexive DEF Stays, Settled
<1>3. Beside(r, t)
  <2> DEFINE grab == [client |-> r.current # None, paused |-> ~s.paused]
             paused == ~s.paused
  <2>1. t = [r EXCEPT !.paused = paused, !.grab = grab]
    BY <1>1
  <2> HIDE DEF grab, paused
  <2> QED BY <1>2, <2>1 DEF Tidy, Body, Typed, Struct, Beside
<1>4. Keeps(r, t) /\ Stays(r, t)
  BY <1>3, BesideKeeps
<1> QED BY <1>2, <1>4, KeepsTransitive, KeepsQuiet DEF Stays

\* send_input_events.
LEMMA SendInputEventsQuiet ==
    ASSUME NEW s, NEW grabbed, Tidy(s, None), NEW t \in SendInputEvents(s, grabbed)
    PROVE  Quiet(s, t)
<1> DEFINE here == [s EXCEPT !.keys = TRUE]
           there == [s EXCEPT !.clients =
                        [s.clients EXCEPT ![s.current] = HoldsKeys(s.clients[s.current])]]
<1>1. \/ t = s \/ t = here \/ t \in SendToCurrent(s, there)
  BY DEF SendInputEvents
<1>2. Beside(s, here) /\ Beside(s, there)
  BY DEF Tidy, Body, Typed, Struct, Beside
<1> HIDE DEF here, there
<1> QED BY <1>1, <1>2, BesideQuiet, QuietReflexive, SendToCurrentKeeps, KeepsQuiet

\* A change of liveness records.
LEMMA LivenessBeside ==
    ASSUME NEW s, NEW old, Tidy(s, old), NEW live
    PROVE  Beside(s, [s EXCEPT !.live = live])
  BY DEF Tidy, Body, Typed, Struct, Beside

\* note_client_heard: only the silenced endpoint comes back, from the local
\* machine.
LEMMA NoteClientHeardHandles ==
    ASSUME NEW s, NEW e, Tidy(s, None), Connected(s),
           NEW t \in NoteClientHeard(s, e)
    PROVE  /\ Handles(s, t) /\ Hushes(s, t)
           /\ Stays(s, t) \/ (s.current = None /\ s.silenced # None)
<1> DEFINE l == s.live[e]
           pongs == IF l.pongs < ReactivatePongs THEN l.pongs + 1 ELSE l.pongs
           Noted(entry) == [s EXCEPT !.live = [s.live EXCEPT ![e] = entry]]
           unquiet == [l EXCEPT !.quiet = FALSE]
           counted == [l EXCEPT !.quiet = FALSE, !.pongs = pongs]
<1>1. \/ t = s
      \/ t \in {Noted(unquiet), Noted(counted), Noted(Heard)}
      \/ /\ t \in UpdateCurrent(Noted(Heard), e) /\ e \in DOMAIN s.live
         /\ s.current = None /\ s.silenced = e
  BY DEF NoteClientHeard
<1> HIDE DEF l, pongs, unquiet, counted
<1>2. ASSUME NEW entry PROVE Beside(s, Noted(entry))
  BY LivenessBeside
<1> DEFINE n == Noted(Heard)
<1>3. Beside(s, n)
  BY <1>2
<1>4. CASE t = s \/ t \in {Noted(unquiet), Noted(counted), Noted(Heard)}
  BY <1>2, <1>4, BesideQuiet, QuietReflexive DEF Quiet
<1>5. CASE /\ t \in UpdateCurrent(n, e) /\ e \in DOMAIN s.live
           /\ s.current = None /\ s.silenced = e
  <2>1. e \in Endpoint /\ e # None
    BY <1>5, NoneAssumption DEF Tidy, Body, Typed
  <2>2. Settled(s, n)
    <3>1. /\ s.live \in [DOMAIN s.live -> Liveness]
          /\ [s.live EXCEPT ![e] = Heard] \in [DOMAIN s.live -> Liveness]
          /\ DOMAIN [s.live EXCEPT ![e] = Heard] = DOMAIN s.live
      BY <1>5, HeardType DEF Tidy, Body, Typed
    <3> QED BY <3>1, LivenessSettles
  <2> HIDE DEF n
  <2>3. Keeps(s, n) /\ Tidy(n, None)
    BY <1>3, <2>2, BesideKeeps DEF Settled
  <2>4. Keeps(n, t)
    BY <1>5, <2>1, <2>3, UpdateCurrentFiles
  <2> QED BY <1>5, <2>1, <2>3, <2>4, KeepsTransitive, KeepsHandles
<1> QED BY <1>1, <1>4, <1>5

\* switch_request_from_client.
LEMMA SwitchRequestQuiet ==
    ASSUME NEW s, NEW e, Tidy(s, None), Connected(s),
           NEW t \in SwitchRequestFrom(s, e)
    PROVE  Quiet(s, t)
<1>1. t = s \/ t \in UpdateCurrent(s, None)
  BY DEF SwitchRequestFrom
<1> QED BY <1>1, UpdateCurrentFiles, UpdateCurrentSettles, KeepsQuiet, QuietReflexive DEF Stays

\* ping_tick's miss detector.
LEMMA DeclareSilenceHandles ==
    ASSUME NEW s, Tidy(s, None), Connected(s), NEW t \in DeclareSilence(s)
    PROVE  (Filed(s) => Filed(t)) /\ Disowned(s, t) /\ Stays(s, t)
<1> DEFINE live == [s.live EXCEPT ![s.current] =
                      [@ EXCEPT !.silenced = "cooling", !.pongs = 0]]
           n == [s EXCEPT !.live = live]
<1>1. \/ t = s
      \/ /\ s.current # None /\ s.current \in DOMAIN s.live
         /\ \E u \in UpdateCurrent(n, None) : t = [u EXCEPT !.silenced = s.current]
  BY DEF DeclareSilence
<1>2. CASE t = s
  BY <1>2 DEF Disowned, Stays
<1>3. ASSUME s.current # None, s.current \in DOMAIN s.live,
             NEW u \in UpdateCurrent(n, None), t = [u EXCEPT !.silenced = s.current]
      PROVE  (Filed(s) => Filed(t)) /\ Disowned(s, t) /\ Stays(s, t)
  <2>1. live \in [DOMAIN s.live -> Liveness] /\ DOMAIN live = DOMAIN s.live
    <3> DEFINE l == s.live[s.current]
    <3>1. l \in Liveness /\ s.live \in [DOMAIN s.live -> Liveness]
      BY <1>3 DEF Tidy, Body, Typed
    <3> HIDE DEF l
    <3>2. [l EXCEPT !.silenced = "cooling", !.pongs = 0] \in Liveness
      <4>1. 0 \in 0 .. ReactivatePongs
        BY BoundsAssumption
      <4> QED BY <3>1, <4>1 DEF Liveness
    <3>3. live = [s.live EXCEPT ![s.current] = [l EXCEPT !.silenced = "cooling", !.pongs = 0]]
      BY DEF l
    <3> QED BY <3>1, <3>2, <3>3
  <2> HIDE DEF live
  <2>2. Settled(s, n) /\ Beside(s, n)
    BY <2>1, LivenessSettles, LivenessBeside
  <2> HIDE DEF n
  <2>3. Tidy(n, None) /\ Connected(n) /\ Keeps(s, n)
    BY <2>2, BesideKeeps DEF Settled
  <2>4. Keeps(n, u) /\ Tidy(u, None) /\ u.current = None
    BY <2>3, UpdateCurrentFiles, UpdateCurrentSettles DEF Settled
  <2>5. Keeps(s, u)
    BY <2>3, <2>4, KeepsTransitive
  <2>6. /\ t.current = u.current /\ t.file = u.file /\ t.pending = u.pending
        /\ t.clients = u.clients /\ t.clip = u.clip
    BY <1>3, <2>4 DEF Tidy, Body, Typed, Struct
  <2> QED BY <2>4, <2>5, <2>6 DEF Keeps, Filed, Disowned, Stays
<1> QED BY <1>1, <1>2, <1>3

\* ping_tick, on time and late: the records that time refreshes or restarts,
\* then the pings.
LEMMA PingTickHandles ==
    ASSUME NEW s, NEW late, Tidy(s, None), Connected(s), NEW t \in PingTickOf(s, late)
    PROVE  Handles(s, t) /\ Stays(s, t)
<1>1. \E u, live : /\ u = s \/ u \in DeclareSilence(s)
                   /\ t \in SendPings([u EXCEPT !.live = live])
                   /\ live \in [DOMAIN u.live -> Liveness] /\ DOMAIN live = DOMAIN u.live
  <2>1. CASE late
    <3> DEFINE calm == [e \in DOMAIN s.live |-> [s.live[e] EXCEPT !.quiet = FALSE]]
    <3>1. t \in SendPings([s EXCEPT !.live = calm])
      BY <2>1 DEF PingTickOf
    <3>2. calm \in [DOMAIN s.live -> Liveness] /\ DOMAIN calm = DOMAIN s.live
      BY DEF Tidy, Body, Typed, Liveness
    <3> HIDE DEF calm
    <3> QED BY <3>1, <3>2
  <2>2. CASE ~late
    <3>1. PICK u \in DeclareSilence(s) : t \in SendPings(ResetRecovering(u))
      BY <2>2 DEF PingTickOf
    <3> DEFINE reset == [e \in DOMAIN u.live |->
                           IF u.live[e].silenced # "no" /\ u.live[e].quiet
                           THEN [u.live[e] EXCEPT !.pongs = 0] ELSE u.live[e]]
    <3>2. ResetRecovering(u) = [u EXCEPT !.live = reset]
      BY DEF ResetRecovering
    <3>3. reset \in [DOMAIN u.live -> Liveness] /\ DOMAIN reset = DOMAIN u.live
      <4>1. u.live \in [DOMAIN u.live -> Liveness]
        BY DeclareSilenceSettles DEF Settled, Tidy, Body, Typed
      <4> QED BY <4>1, BoundsAssumption DEF Liveness
    <3> HIDE DEF reset
    <3> QED BY <3>1, <3>2, <3>3
  <2> QED BY <2>1, <2>2
<1>2. PICK u, live : /\ u = s \/ u \in DeclareSilence(s)
                     /\ t \in SendPings([u EXCEPT !.live = live])
                     /\ live \in [DOMAIN u.live -> Liveness] /\ DOMAIN live = DOMAIN u.live
  BY <1>1
<1>3. /\ Tidy(u, None) /\ Connected(u)
      /\ (Filed(s) => Filed(u)) /\ Disowned(s, u) /\ Stays(s, u)
  BY <1>2, DeclareSilenceSettles, DeclareSilenceHandles DEF Settled, Disowned, Stays
<1> DEFINE n == [u EXCEPT !.live = live]
<1>4. Settled(u, n) /\ Beside(u, n)
  BY <1>2, <1>3, LivenessSettles, LivenessBeside
<1> HIDE DEF n
<1>5. Tidy(n, None) /\ Keeps(u, n) /\ Stays(u, n)
  BY <1>4, BesideKeeps DEF Settled
<1>6. PICK gone : t \in DropAll(n, gone)
  BY <1>2 DEF SendPings, n
<1>7. Keeps(n, t) /\ Stays(n, t)
  BY <1>5, <1>6, DropAllKeeps
<1>8. Keeps(u, t)
  BY <1>3, <1>5, <1>7, KeepsTransitive
<1>9. Disowned(s, t)
  <2>1. DOMAIN s.clients \subseteq Endpoint
    BY DEF Tidy, Body, Typed
  <2> QED BY <1>3, <1>8, <2>1, DisownedTransitive DEF Keeps
<1> QED BY <1>3, <1>5, <1>7, <1>8, <1>9 DEF Keeps, Handles, Disowned, Stays

\* clipboard_update_source: the source of an update is the new owner.
LEMMA ClipboardUpdateQuiet ==
    ASSUME NEW s, NEW source \in Endpoint \union {Local}, NEW empty, Tidy(s, None),
           NEW t \in ClipboardUpdate(s, source, empty)
    PROVE  Quiet(s, t)
<1> DEFINE c == [s EXCEPT !.window = s.window \ {source},
                          !.held = s.held /\ source # Local]
           h == [s EXCEPT !.held = s.held \/ source = Local]
           w == [s EXCEPT !.window = s.window \union {source},
                          !.held = s.held /\ source # Local]
<1>1. \/ t = s \/ t = h
      \/ t \in ClipboardClear(c)
      \/ t \in ApplyClipboardSource(w, source)
  BY DEF ClipboardUpdate
<1>2. /\ Beside(s, c) /\ Beside(s, h) /\ Beside(s, w)
      /\ Aside(s, c) /\ Aside(s, w) /\ w.clients = s.clients
  <2> DEFINE less == s.window \ {source}
             more == s.window \union {source}
             kept == s.held /\ source # Local
             held == s.held \/ source = Local
  <2>1. /\ s \in Struct(s.clients, s.live)
        /\ s.live \in [DOMAIN s.live -> Liveness]
    BY DEF Tidy, Body, Typed
  <2>2. /\ less \in SUBSET (Endpoint \union {Local})
        /\ more \in SUBSET (Endpoint \union {Local})
        /\ kept \in BOOLEAN
    BY <2>1 DEF Struct
  <2> HIDE DEF less, more, kept, held
  <2>3. /\ Aside(s, [s EXCEPT !.window = less, !.held = kept])
        /\ Beside(s, [s EXCEPT !.window = less, !.held = kept])
    BY <2>1, <2>2 DEF Struct, Aside, Beside
  <2>4. /\ Aside(s, [s EXCEPT !.window = more, !.held = kept])
        /\ Beside(s, [s EXCEPT !.window = more, !.held = kept])
        /\ [s EXCEPT !.window = more, !.held = kept].clients = s.clients
    BY <2>1, <2>2 DEF Struct, Aside, Beside
  <2>5. Beside(s, [s EXCEPT !.held = held])
    BY <2>1 DEF Struct, Beside
  <2> QED BY <2>3, <2>4, <2>5 DEF less, more, kept, held
<1> HIDE DEF c, h, w
<1>3. /\ Tidy(c, None) /\ Tidy(w, None)
      /\ Keeps(s, c) /\ Stays(s, c) /\ Keeps(s, w) /\ Stays(s, w)
  BY <1>2, AsideTidy, BesideKeeps
<1>4. CASE t = s \/ t = h
  BY <1>2, <1>4, BesideQuiet, QuietReflexive
<1>5. CASE t \in ClipboardClear(c)
  <2>1. Keeps(c, t) /\ Stays(c, t)
    BY <1>3, <1>5, ClipboardClearKeeps, ClipboardClearLoses DEF Loses, Stays
  <2> QED BY <1>3, <2>1, KeepsTransitive, KeepsQuiet DEF Stays
<1>6. CASE t \in ApplyClipboardSource(w, source)
  <2> DEFINE o == [w EXCEPT !.clip = source]
  <2>1. Keeps(o, t) /\ Stays(w, t)
    BY <1>3, <1>6, ApplyClipboardSourceKeeps
  <2>2. /\ o.clients = s.clients /\ o.clip = source
        /\ o.current = s.current /\ o.file = s.file /\ o.pending = s.pending
        /\ o.silenced \in {s.silenced, None}
    BY <1>2, <1>3 DEF Tidy, Body, Typed, Struct, Beside
  <2> HIDE DEF o
  <2>3. Filed(s) => Filed(t)
    BY <2>1, <2>2 DEF Keeps, Filed
  <2>4. DOMAIN s.clients \subseteq Endpoint
    BY DEF Tidy, Body, Typed
  <2>5. s.clip \in DOMAIN s.clients \ DOMAIN t.clients => t.clip # s.clip
    BY <2>1, <2>2, <2>4, NoneAssumption DEF Keeps, Disowned
  <2> QED BY <1>3, <2>1, <2>2, <2>3, <2>5 DEF Quiet, Handles, Hushes, Stays, Keeps
<1> QED BY <1>1, <1>4, <1>5, <1>6

-----------------------------------------------------------------------------
(* The steps.                                                              *)

\* What the other invariant does not say: the file is right, and input waits
\* for a silenced client only while that is why it is on the local machine.
Waits == rot.silenced # None => since = "silence"
Remembers == Filed(rot) /\ Waits

\* Every handler of an event that moves no input, and time.
QuietStep ==
    \/ \E c \in accepted : RemoveClientEvent(c)
    \/ PauseToggle
    \/ \E paused \in BOOLEAN : SetPaused(paused)
    \/ \E grabbed \in BOOLEAN : InputBatch(grabbed)
    \/ \E e \in Endpoint : SwitchRequest(e)
    \/ \E source \in Copiers, empty \in BOOLEAN : ClipboardUpdateSource(source, empty)
    \/ ClipboardDeadline
    \/ \E e \in Endpoint : BulkQueueFull(e)

TimeStep ==
    \/ DebounceElapses
    \/ \E source \in Copiers : ClipboardWindowElapses(source)
    \/ RecoveryElapses
    \/ \E e \in Quieters : GoesQuiet(e)
    \/ \E e \in Endpoint : CooldownElapses(e)

LEMMA QuietStepQuiet ==
    ASSUME IInv, QuietStep
    PROVE  /\ Quiet(rot, rot')
           /\ since' = IF rot'.current # None THEN "other" ELSE since
<1>0. Tidy(rot, None) /\ Connected(rot)
  BY DEF IInv
<1> USE DEF Handle
<1>1. ASSUME NEW c \in accepted, RemoveClientEvent(c) PROVE Quiet(rot, rot')
  BY <1>0, <1>1, RemoveClientQuiet DEF RemoveClientEvent
<1>2. PauseToggle => Quiet(rot, rot')
  BY <1>0, TogglePauseQuiet DEF PauseToggle
<1>3. ASSUME NEW grabbed \in BOOLEAN, InputBatch(grabbed) PROVE Quiet(rot, rot')
  BY <1>0, <1>3, SendInputEventsQuiet DEF InputBatch
<1>4. ASSUME NEW e \in Endpoint, SwitchRequest(e) PROVE Quiet(rot, rot')
  BY <1>0, <1>4, SwitchRequestQuiet DEF SwitchRequest
<1>5. ASSUME NEW source \in Copiers, NEW empty \in BOOLEAN, ClipboardUpdateSource(source, empty)
      PROVE  Quiet(rot, rot')
  <2>1. source \in Endpoint \union {Local}
    BY BoundsAssumption
  <2> QED BY <1>0, <1>5, <2>1, ClipboardUpdateQuiet DEF ClipboardUpdateSource
<1>6. ClipboardDeadline => Quiet(rot, rot')
  BY <1>0, FlushPendingLocalKeeps, KeepsQuiet DEF ClipboardDeadline
<1>7. ASSUME NEW e \in Endpoint, BulkQueueFull(e) PROVE Quiet(rot, rot')
  BY <1>0, <1>7, DropAllKeeps, KeepsQuiet DEF BulkQueueFull, Drop
<1>8. since' = IF rot'.current # None THEN "other" ELSE since
  BY DEF QuietStep, RemoveClientEvent, PauseToggle, SetPaused, InputBatch, SwitchRequest,
         ClipboardUpdateSource, ClipboardDeadline, BulkQueueFull
<1> QED BY <1>1, <1>2, <1>3, <1>4, <1>5, <1>6, <1>7, <1>8 DEF QuietStep, SetPaused

LEMMA TimeStepQuiet ==
    ASSUME IInv, TimeStep
    PROVE  Quiet(rot, rot') /\ since' = since /\ rot'.current = rot.current
<1>1. Tidy(rot, None)
  BY DEF IInv
<1>2. Beside(rot, rot') /\ since' = since
  <2>1. CASE DebounceElapses \/ \E source \in Copiers : ClipboardWindowElapses(source)
    BY <1>1, <2>1 DEF DebounceElapses, ClipboardWindowElapses, TimePasses, Beside,
                      Tidy, Body, Typed, Struct
  <2>2. CASE RecoveryElapses
    <3> DEFINE over == [rot.removed EXCEPT !.recoverable = FALSE]
    <3>1. rot' = [rot EXCEPT !.removed = over] /\ since' = since
      BY <2>2 DEF RecoveryElapses, TimePasses
    <3> HIDE DEF over
    <3> QED BY <1>1, <3>1 DEF Beside, Tidy, Body, Typed, Struct
  <2>3. CASE \/ \E e \in Quieters : GoesQuiet(e)
             \/ \E e \in Endpoint : CooldownElapses(e)
    <3>1. (\E live : rot' = [rot EXCEPT !.live = live]) /\ since' = since
      BY <2>3 DEF GoesQuiet, CooldownElapses, TimePasses
    <3> QED BY <1>1, <3>1, LivenessBeside
  <2> QED BY <2>1, <2>2, <2>3 DEF TimeStep
<1> QED BY <1>2, BesideQuiet DEF Beside

\* A switch made by hand.
LEMMA UserSwitchHandles ==
    ASSUME IInv, UserSwitch
    PROVE  /\ Handles(rot, rot')
           /\ rot.paused => rot' = rot /\ since' = since
           /\ ~rot.paused => rot'.silenced = None
<1>0. Tidy(rot, None) /\ Connected(rot)
  BY DEF IInv
<1>1. CASE SwitchNext
  <2>1. NextTarget(rot) \in Endpoint \union {None}
    BY <1>0 DEF NextTarget, First, Tidy, Body, Typed
  <2> QED BY <1>0, <1>1, <2>1, SwitchClientHandles DEF SwitchNext, HandleManual
<1>2. CASE SwitchPrev
  <2>1. PrevTarget(rot) \in Endpoint \union {None}
    BY <1>0 DEF PrevTarget, Last, Tidy, Body, Typed
  <2> QED BY <1>0, <1>2, <2>1, SwitchClientHandles DEF SwitchPrev, HandleManual
<1>3. ASSUME NEW wanted \in SUBSET Fingerprint, SwitchTo(wanted)
      PROVE  /\ Handles(rot, rot')
             /\ rot.paused => rot' = rot /\ since' = since
             /\ ~rot.paused => rot'.silenced = None
  BY <1>0, <1>3, SetClientHandles DEF SwitchTo, HandleManual
<1> QED BY <1>1, <1>2, <1>3 DEF UserSwitch

LEMMA InitRemembers == Init => Remembers
  BY DEF Init, Boot, Remembers, Waits, Filed

\* Every step keeps what Remembers says, and forgets an owner it loses.
LEMMA StepRemembers ==
    ASSUME IInv, IInv', Remembers, [Next]_vars
    PROVE  /\ Remembers'
           /\ rot.clip \in DOMAIN rot.clients \ DOMAIN rot'.clients => rot'.clip # rot.clip
<1>0. /\ Tidy(rot, None) /\ Connected(rot) /\ DOMAIN rot.clients \subseteq Endpoint
      /\ Filed(rot) /\ Waits
      /\ rot'.silenced # None => rot'.current = None
  BY DEF IInv, Tidy, Body, Typed, Armed, Remembers
<1> DEFINE Goal == /\ Filed(rot') /\ (rot'.silenced # None => since' = "silence")
                   /\ rot.clip \in DOMAIN rot.clients \ DOMAIN rot'.clients
                         => rot'.clip # rot.clip
<1>1. ASSUME Handles(rot, rot'), Hushes(rot, rot'),
             since' = since \/ since' = IF rot'.current # None THEN "other" ELSE since
      PROVE  Goal
  BY <1>0, <1>1 DEF Handles, Hushes, Waits
<1>2. ASSUME NEW e \in Endpoint, AddClientEvent(e) PROVE Goal
  <2>1. nextToken \in Nat
    BY DEF IInv
  <2>2. Handles(rot, rot') /\ Hushes(rot, rot')
    BY <1>0, <1>2, <2>1, AddClientHandles DEF AddClientEvent, Handle
  <2> QED BY <1>1, <1>2, <2>2 DEF AddClientEvent, Handle
<1>3. ASSUME NEW e \in Endpoint, ClientHeardFrom(e) PROVE Goal
  <2>1. Handles(rot, rot') /\ Hushes(rot, rot')
    BY <1>0, <1>3, NoteClientHeardHandles DEF ClientHeardFrom, Handle
  <2> QED BY <1>1, <1>3, <2>1 DEF ClientHeardFrom, Handle
<1>4. ASSUME UserSwitch PROVE Goal
  BY <1>0, <1>4, UserSwitchHandles DEF Handles, Waits
<1>5. ASSUME NEW late \in BOOLEAN, PingTick(late) PROVE Goal
  <2>1. Handles(rot, rot')
    BY <1>0, <1>5, PingTickHandles DEF PingTick
  <2>2. rot'.silenced = rot.silenced => since' = since
    BY <1>5 DEF PingTick
  <2>3. rot'.silenced # rot.silenced => since' = "silence"
    BY <1>5 DEF PingTick
  <2> QED BY <1>0, <2>1, <2>2, <2>3 DEF Handles, Waits
<1>6. ASSUME QuietStep PROVE Goal
  BY <1>1, <1>6, QuietStepQuiet DEF Quiet
<1>7. ASSUME TimeStep PROVE Goal
  BY <1>1, <1>7, TimeStepQuiet DEF Quiet
<1>8. ASSUME NEW stale \in BOOLEAN, Restart(stale) PROVE Goal
  <2>1. \E file : rot' = Boot(file)
    BY <1>8 DEF Restart
  <2>2. /\ rot'.current = None /\ rot'.silenced = None /\ rot'.clip = None
        /\ rot'.file = rot'.pending
    BY <2>1 DEF Boot
  <2>3. Filed(rot')
    <3>1. DOMAIN rot'.clients \subseteq Endpoint
      BY DEF IInv, Tidy, Body, Typed
    <3> QED BY <2>2, <3>1, NoneAssumption DEF Filed
  <2> QED BY <1>0, <2>2, <2>3, NoneAssumption
<1>9. ASSUME UNCHANGED vars PROVE Goal
  BY <1>0, <1>9 DEF vars, Filed, Waits
<1>10. Goal
  BY <1>2, <1>3, <1>4, <1>5, <1>6, <1>7, <1>8, <1>9 DEF Next, QuietStep, TimeStep
<1>11. Filed(rot)' /\ Waits'
  BY <1>10 DEF Filed, Waits
<1> QED BY <1>10, <1>11 DEF Remembers

\* IInv and Remembers together are inductive.
LEMMA Remembered == Spec => []Remembers
<1>1. Init => Remembers
  BY InitRemembers
<1>2. IInv /\ IInv' /\ Remembers /\ [Next]_vars => Remembers'
  BY StepRemembers
<1> QED BY <1>1, <1>2, Invariance, PTL DEF Spec

-----------------------------------------------------------------------------
(* The theorems.                                                           *)

\* A crash at any moment resumes the right session (persist_active_client).
THEOREM FileFollows == Spec => []FileFollowsTarget
<1>1. IInv /\ Remembers => FileFollowsTarget
  BY DEF IInv, Remembers, Filed, Connected, FileFollowsTarget
<1> QED BY <1>1, Invariance, Remembered, PTL

\* No clipboard is left with an owner that a handler lost, by whichever write
\* (send_event_all, clipboard_clear).
THEOREM OwnersForgotten == Spec => OwnerLossClears
<1>1. IInv /\ IInv' /\ Remembers /\ [Next]_vars =>
        [rot.clip \in DOMAIN rot.clients \ DOMAIN rot'.clients
             => rot'.clip # rot.clip]_vars
  BY StepRemembers
<1> QED BY <1>1, Invariance, Remembered, PTL DEF Spec, OwnerLossClears

\* The way home is never debounced (switch_allowed).
LEMMA HatchStep ==
    ASSUME IInv, ~rot.paused
    PROVE  /\ SwitchNext /\ NextTarget(rot) = None => rot'.current = None
           /\ SwitchPrev /\ PrevTarget(rot) = None => rot'.current = None
           /\ SwitchTo({}) => rot'.current = None
<1>1. Tidy(rot, None) /\ Connected(rot) /\ None \in Endpoint \union {None}
  BY DEF IInv
<1>2. ASSUME NEW t \in SwitchClient(rot, None) PROVE t.current = None
  BY <1>1, SwitchClientHandles
<1>3. ASSUME NEW t \in SetClient(rot, {}) PROVE t.current = None
  BY <1>1, SetClientHandles
<1> QED BY <1>2, <1>3 DEF SwitchNext, SwitchPrev, SwitchTo, HandleManual

\* While not paused, a request for the local machine brings the input home
\* at once, whoever had it (switch_client, set_client).
THEOREM Hatch == Spec => EscapeHatch
<1>1. IInv /\ [Next]_vars =>
        [~rot.paused =>
          /\ SwitchNext /\ NextTarget(rot) = None => rot'.current = None
          /\ SwitchPrev /\ PrevTarget(rot) = None => rot'.current = None
          /\ SwitchTo({}) => rot'.current = None]_vars
  BY HatchStep
<1> QED BY <1>1, Invariance, PTL DEF Spec, EscapeHatch

\* A client that answers again does not overrule the user
\* (note_client_heard).
THEOREM UserOverSilence == Spec => SilenceYieldsToUser
<1>1. IInv /\ Remembers /\ [Next]_vars =>
        [(\E e \in Endpoint : ClientHeardFrom(e)) /\ rot.current = None
            /\ rot'.current # None => since = "silence"]_vars
  <2> SUFFICES ASSUME IInv, Remembers, NEW e \in Endpoint, ClientHeardFrom(e),
                      rot.current = None, rot'.current # None
               PROVE  since = "silence"
    OBVIOUS
  <2>1. Stays(rot, rot') \/ rot.silenced # None
    BY NoteClientHeardHandles DEF IInv, ClientHeardFrom, Handle
  <2> QED BY <2>1 DEF Stays, Remembers, Waits
<1> QED BY <1>1, Invariance, Remembered, PTL DEF Spec, SilenceYieldsToUser

\* Input goes from one client to another only by hand, to a reconnect from
\* the same IP, or to the session to resume (add_client).
LEMMA TheftStep ==
    ASSUME IInv, [Next]_vars, rot.current # None, rot'.current \notin {None, rot.current}
    PROVE  \/ UserSwitch
           \/ IpOf[rot'.current] = IpOf[rot.current]
           \/ rot.pending = FpOf[rot'.current]
<1>0. Tidy(rot, None) /\ Connected(rot) /\ nextToken \in Nat /\ ~Stays(rot, rot')
  BY DEF IInv, Stays
<1>1. ASSUME NEW e \in Endpoint, AddClientEvent(e)
      PROVE  IpOf[rot'.current] = IpOf[rot.current] \/ rot.pending = FpOf[rot'.current]
  BY <1>0, <1>1, AddClientHandles DEF AddClientEvent, Handle
<1>2. ASSUME NEW e \in Endpoint, ClientHeardFrom(e) PROVE FALSE
  BY <1>0, <1>2, NoteClientHeardHandles DEF ClientHeardFrom, Handle
<1>3. ASSUME NEW late \in BOOLEAN, PingTick(late) PROVE FALSE
  BY <1>0, <1>3, PingTickHandles DEF PingTick
<1>4. ~QuietStep
  BY <1>0, QuietStepQuiet DEF Quiet
<1>5. ~TimeStep
  BY <1>0, TimeStepQuiet DEF Quiet
<1>6. ASSUME NEW stale \in BOOLEAN, Restart(stale) PROVE FALSE
  BY <1>6 DEF Restart, Boot
<1>7. ~UNCHANGED vars
  BY DEF vars
<1> QED BY <1>1, <1>2, <1>3, <1>4, <1>5, <1>6, <1>7 DEF Next, QuietStep, TimeStep

\* The report of a connection that was replaced is not of the client in its
\* place: that one has a later token (remove_client_and_clear_clipboard).
LEMMA LateReport ==
    ASSUME IInv, NEW c \in accepted, NEW d \in accepted,
           c[1] = d[1], c[2] < d[2], d[1] \in DOMAIN rot.clients, RemoveClientEvent(c)
    PROVE  UNCHANGED rot
<1>1. d[2] <= rot.clients[c[1]].token
  BY DEF IInv, Newest
<1>2. c[2] \in Nat /\ d[2] \in Nat
  BY DEF IInv
<1>3. rot.clients[c[1]] \in Entry
  BY DEF IInv, Tidy, Body, Typed
<1>4. rot.clients[c[1]].token # c[2]
  BY <1>1, <1>2, <1>3 DEF Entry
<1> QED BY <1>4 DEF RemoveClientEvent, Handle, RemoveClient

\* No answer and no failed write takes the input from one client to another, an
\* arrival only for its own machine or session (add_client), and the end of a
\* replaced connection takes nothing from the client in its place.
THEOREM FocusKept == Spec => NoFocusTheft
<1>1. IInv /\ [Next]_vars =>
        [rot.current # None /\ rot'.current \notin {None, rot.current}
          => \/ UserSwitch
             \/ IpOf[rot'.current] = IpOf[rot.current]
             \/ rot.pending = FpOf[rot'.current]]_vars
  BY TheftStep
<1>2. IInv /\ [Next]_vars =>
        [\A c, d \in accepted :
            /\ c[1] = d[1] /\ c[2] < d[2] /\ d[1] \in DOMAIN rot.clients
            /\ RemoveClientEvent(c)
            => UNCHANGED rot]_vars
  BY LateReport
<1> QED BY <1>1, <1>2, Invariance, PTL
        DEF Spec, NoFocusTheft, InputIsMovedByHand, ReplacedTakesNothing
=============================================================================
