----------------------------- MODULE EdgeProofs -----------------------------
(***************************************************************************)
(* Proofs about EdgeSwitch, for any dwell, cooldown, layouts, targets and  *)
(* positions: the manager moves the input at most once per visit to an     *)
(* edge, only for a contact that was held, and its zones are the outline   *)
(* of the monitors.                                                        *)
(*                                                                         *)
(* The manager keeps a debounced state, a dwell timer, the cooldown and a  *)
(* latch; the properties speak of an observer that only sees polls and     *)
(* firings.  The invariant relates the two, for each direction by itself.  *)
(*                                                                         *)
(* The zones come from a sweep over the intervals of an edge that other    *)
(* outputs abut, the outline is defined on pixels.  The sweep keeps the    *)
(* gaps between the intervals; the gap around a pixel is the stretch of    *)
(* exposed pixels it is in.                                                *)
(***************************************************************************)
EXTENDS EdgeSwitch, FiniteSetTheorems, SequenceTheorems, WellFoundedInduction, TLAPS

DirState == [on : BOOLEAN, streak : 0 .. 1, entered : {None} \cup 0 .. Dwell,
             fired : {None} \cup 0 .. Cooldown, latched : BOOLEAN]
Sight == [poll : BOOLEAN, contact : {None} \cup 0 .. Dwell, away : BOOLEAN,
          since : {None} \cup 0 .. (Cooldown + Dwell)]

\* The debouncer and the polls: a pending change is one poll of the other
\* kind, and the direction counts as touched while the observer says so.
Debounces(s, w) ==
    /\ w.poll <=> (s.on <=> s.streak = 0)
    /\ s.on <=> w.contact # None

\* A dwell under way is no longer than the contact, and began when the
\* pointer had been away and the cooldown was over.
Dwells(s, w) ==
    s.entered # None =>
        /\ s.on /\ w.away /\ s.entered <= w.contact
        /\ w.since # None => w.since >= Cooldown + s.entered

\* The latch is set from a firing until the pointer was away, and no dwell is
\* under way till then; the cooldown runs from the last firing.
Rearms(s, w) ==
    /\ s.entered # None => ~s.latched
    /\ ~s.latched => w.away
    /\ s.fired = None => w.since = None
    /\ s.fired # None /\ w.since # None => w.since >= s.fired

Agree(s, w) == Debounces(s, w) /\ Dwells(s, w) /\ Rearms(s, w)

\* While anything depends on it, the last poll is where the pointer was seen
\* last, by the zones in force; nothing depends on it when the manager is gone.
Touched(d) == dirs[d].on \/ dirs[d].streak # 0
Sees(d) == Touched(d) => phase # "gone" /\ (seen[d].poll <=> InZone(d, lastPos))

IInv ==
    /\ dirs \in [Mapped -> DirState] /\ seen \in [Mapped -> Sight]
    /\ \A d \in Mapped : Agree(dirs[d], seen[d]) /\ Sees(d)

-----------------------------------------------------------------------------
(* One direction.                                                          *)

LEMMA Bounds == Dwell \in Nat /\ Cooldown \in Nat /\ None \notin Nat
  BY EdgeAssumption

LEMMA Anew ==
  /\ FreshDir \in DirState /\ FreshSeen \in Sight /\ Agree(FreshDir, FreshSeen)
  /\ ~FreshDir.on /\ FreshDir.streak = 0
  BY Bounds DEF FreshDir, FreshSeen, DirState, Sight, Agree, Debounces, Dwells, Rearms

\* Older: no age, or one more up to the limit.
LEMMA OlderAge ==
  ASSUME NEW limit \in Nat, NEW age \in {None} \cup 0 .. limit
  PROVE  /\ Older(age, limit) \in {None} \cup 0 .. limit
         /\ Older(age, limit) = None <=> age = None
         /\ age # None => /\ age \in Nat /\ Older(age, limit) \in Nat
                          /\ Older(age, limit) = IF age + 1 <= limit THEN age + 1 ELSE limit
  BY Bounds DEF Older, Sooner

LEMMA TickAgrees ==
  ASSUME NEW s \in DirState, NEW w \in Sight, Agree(s, w)
  PROVE  LET t == [s EXCEPT !.entered = Older(@, Dwell), !.fired = Older(@, Cooldown)]
             v == [w EXCEPT !.contact = Older(@, Dwell), !.since = Older(@, Cooldown + Dwell)]
         IN  t \in DirState /\ v \in Sight /\ Agree(t, v)
<1> DEFINE entered == Older(s.entered, Dwell)
           fired == Older(s.fired, Cooldown)
           contact == Older(w.contact, Dwell)
           since == Older(w.since, Cooldown + Dwell)
           t == [s EXCEPT !.entered = entered, !.fired = fired]
           v == [w EXCEPT !.contact = contact, !.since = since]
<1>1. /\ s.entered \in {None} \cup 0 .. Dwell /\ w.contact \in {None} \cup 0 .. Dwell
      /\ s.fired \in {None} \cup 0 .. Cooldown
      /\ w.since \in {None} \cup 0 .. (Cooldown + Dwell)
      /\ Dwell \in Nat /\ Cooldown \in Nat /\ Cooldown + Dwell \in Nat /\ None \notin Nat
  BY Bounds DEF DirState, Sight
<1>2. /\ entered \in {None} \cup 0 .. Dwell
      /\ entered = None <=> s.entered = None
      /\ s.entered # None => /\ s.entered \in Nat
                             /\ entered = IF s.entered + 1 <= Dwell THEN s.entered + 1 ELSE Dwell
  BY <1>1, OlderAge
<1>3. /\ fired \in {None} \cup 0 .. Cooldown
      /\ fired = None <=> s.fired = None
      /\ s.fired # None => /\ s.fired \in Nat
                           /\ fired = IF s.fired + 1 <= Cooldown THEN s.fired + 1 ELSE Cooldown
  BY <1>1, OlderAge
<1>4. /\ contact \in {None} \cup 0 .. Dwell
      /\ contact = None <=> w.contact = None
      /\ w.contact # None => /\ w.contact \in Nat
                             /\ contact = IF w.contact + 1 <= Dwell THEN w.contact + 1 ELSE Dwell
  BY <1>1, OlderAge
<1>5. /\ since \in {None} \cup 0 .. (Cooldown + Dwell)
      /\ since = None <=> w.since = None
      /\ w.since # None => /\ w.since \in Nat
                           /\ since = IF w.since + 1 <= Cooldown + Dwell THEN w.since + 1
                                                                         ELSE Cooldown + Dwell
  BY <1>1, OlderAge
<1> HIDE DEF entered, fired, contact, since
<1>6. t \in DirState /\ v \in Sight
  BY <1>2, <1>3, <1>4, <1>5 DEF DirState, Sight
<1>7. /\ t.on = s.on /\ t.streak = s.streak /\ t.entered = entered /\ t.fired = fired
      /\ t.latched = s.latched
      /\ v.poll = w.poll /\ v.contact = contact /\ v.away = w.away /\ v.since = since
  BY DEF DirState, Sight
<1> HIDE DEF t, v
<1>8. Debounces(t, v)
  BY <1>4, <1>7 DEF Agree, Debounces
<1>9. Dwells(t, v)
  BY <1>1, <1>2, <1>4, <1>5, <1>7 DEF Agree, Dwells, Debounces
<1>10. Rearms(t, v)
  BY <1>1, <1>2, <1>3, <1>5, <1>7 DEF Agree, Rearms
<1> QED
  BY <1>6, <1>8, <1>9, <1>10 DEF Agree, t, v, entered, fired, contact, since

\* The parts of a direction's state and of what was seen of it.
LEMMA Parts ==
  ASSUME NEW s \in DirState, NEW w \in Sight
  PROVE  /\ s.on \in BOOLEAN /\ s.streak \in {0, 1} /\ s.latched \in BOOLEAN
         /\ s.entered \in {None} \cup 0 .. Dwell /\ s.fired \in {None} \cup 0 .. Cooldown
         /\ w.poll \in BOOLEAN /\ w.away \in BOOLEAN
         /\ w.contact \in {None} \cup 0 .. Dwell
         /\ w.since \in {None} \cup 0 .. (Cooldown + Dwell)
  BY DEF DirState, Sight

\* What an observer makes of a poll.
LEMMA ObservedParts ==
  ASSUME NEW w \in Sight, NEW on \in BOOLEAN
  PROVE  LET v == Observed(w, on)
             twice == w.poll = on
         IN  /\ v \in Sight /\ v.poll = on /\ v.since = w.since
             /\ v.contact = IF ~twice THEN w.contact
                            ELSE IF ~on THEN None
                            ELSE IF w.contact = None THEN 0 ELSE w.contact
             /\ v.away = (w.away \/ (twice /\ ~on))
<1> DEFINE twice == w.poll = on
           contact == IF ~twice THEN w.contact
                      ELSE IF ~on THEN None ELSE IF w.contact = None THEN 0 ELSE w.contact
           away == w.away \/ (twice /\ ~on)
<1>1. contact \in {None} \cup 0 .. Dwell /\ away \in BOOLEAN
  BY Bounds DEF Sight
<1> HIDE DEF contact, away
<1>2. Observed(w, on) = [w EXCEPT !.poll = on, !.contact = contact, !.away = away]
  BY DEF Observed, contact, away
<1>3. [w EXCEPT !.poll = on, !.contact = contact, !.away = away] \in Sight
  BY <1>1 DEF Sight
<1>4. LET v == [w EXCEPT !.poll = on, !.contact = contact, !.away = away]
      IN  v.poll = on /\ v.since = w.since /\ v.contact = contact /\ v.away = away
  BY DEF Sight
<1> QED
  BY <1>2, <1>3, <1>4 DEF contact, away

\* The same relation of the parts alone, whatever records they are in.
LEMMA PolledAgrees ==
  ASSUME NEW s \in DirState, NEW w \in Sight, Agree(s, w), NEW on \in BOOLEAN
  PROVE  /\ Polled(s, on) \in DirState /\ Observed(w, on) \in Sight
         /\ Agree(Polled(s, on), Observed(w, on))
<1> DEFINE v == Observed(w, on)
           t == Polled(s, on)
<1>1. /\ v \in Sight /\ v.poll = on /\ v.since = w.since
      /\ v.contact = IF w.poll # on THEN w.contact
                     ELSE IF ~on THEN None ELSE IF w.contact = None THEN 0 ELSE w.contact
      /\ v.away = (w.away \/ (w.poll = on /\ ~on))
  BY ObservedParts
<1> HIDE DEF v
<1>2. CASE on = s.on
  <2>1. t = [s EXCEPT !.streak = 0]
    BY <1>2 DEF Polled, Debounced, Commits
  <2>2. /\ t \in DirState /\ t.on = s.on /\ t.streak = 0 /\ t.entered = s.entered
        /\ t.fired = s.fired /\ t.latched = s.latched
    BY <2>1 DEF DirState
  <2> HIDE DEF t
  <2>3. Debounces(t, v)
    BY <1>1, <1>2, <2>2, Parts, Bounds DEF Agree, Debounces
  <2>4. Dwells(t, v)
    BY <1>1, <1>2, <2>2, Parts, Bounds DEF Agree, Debounces, Dwells
  <2>5. Rearms(t, v)
    BY <1>1, <2>2, Parts DEF Agree, Rearms
  <2> QED
    BY <1>1, <2>2, <2>3, <2>4, <2>5 DEF Agree, t, v
<1>3. CASE on # s.on /\ s.streak = 0
  <2>1. t = [s EXCEPT !.streak = 1]
    <3>1. ~Commits(s, on)
      BY <1>3 DEF Commits, StablePolls
    <3>2. Debounced(s, on) = [s EXCEPT !.streak = 1]
      BY <1>3, <3>1 DEF Debounced
    <3> QED
      BY <3>1, <3>2 DEF Polled
  <2>2. /\ t \in DirState /\ t.on = s.on /\ t.streak = 1 /\ t.entered = s.entered
        /\ t.fired = s.fired /\ t.latched = s.latched
    BY <2>1 DEF DirState
  <2> HIDE DEF t
  <2>3. w.poll # on
    BY <1>3, Parts DEF Agree, Debounces
  <2>4. Debounces(t, v)
    BY <1>1, <1>3, <2>2, <2>3, Parts DEF Agree, Debounces
  <2>5. Dwells(t, v)
    BY <1>1, <2>2, <2>3, Parts DEF Agree, Debounces, Dwells
  <2>6. Rearms(t, v)
    BY <1>1, <2>2, Parts DEF Agree, Rearms
  <2> QED
    BY <1>1, <2>2, <2>4, <2>5, <2>6 DEF Agree, t, v
<1>4. CASE on # s.on /\ s.streak = 1
  <2> DEFINE r == [s EXCEPT !.on = on, !.streak = 0]
  <2>1. Commits(s, on) /\ Debounced(s, on) = r
    <3>1. Commits(s, on)
      BY <1>4 DEF Commits, StablePolls
    <3> QED
      BY <1>4, <3>1 DEF Debounced
  <2>2. /\ r \in DirState /\ r.on = on /\ r.streak = 0 /\ r.entered = s.entered
        /\ r.fired = s.fired /\ r.latched = s.latched
    <3>1. r \in DirState
      <4> DEFINE zero == 0
      <4>1. zero \in 0 .. 1 /\ r = [s EXCEPT !.on = on, !.streak = zero]
        OBVIOUS
      <4> HIDE DEF zero, r
      <4> QED
        BY <4>1 DEF DirState
    <3>2. /\ r.on = on /\ r.streak = 0 /\ r.entered = s.entered
          /\ r.fired = s.fired /\ r.latched = s.latched
      BY DEF DirState
    <3> HIDE DEF r
    <3> QED
      BY <3>1, <3>2
  <2>3. w.poll = on
    BY <1>4, Parts DEF Agree, Debounces
  <2>4. on => s.entered = None
    BY <1>4, Parts DEF Agree, Dwells
  <2> HIDE DEF r
  <2>5. CASE ~on
    <3>1. t = [r EXCEPT !.latched = FALSE, !.entered = None]
      BY <2>1, <2>5 DEF Polled
    <3>2. /\ t \in DirState /\ ~t.on /\ t.streak = 0 /\ t.entered = None
          /\ t.fired = s.fired /\ ~t.latched
      <4>1. r \in DirState
        BY <2>2
      <4>2. t \in DirState
        BY <3>1, <4>1 DEF DirState
      <4>3. /\ t.on = r.on /\ t.streak = r.streak /\ t.entered = None
            /\ t.fired = r.fired /\ t.latched = FALSE
        BY <3>1, <4>1 DEF DirState
      <4> QED
        BY <2>2, <2>5, <4>2, <4>3
    <3>3. ~v.poll /\ v.contact = None /\ v.away
      BY <1>1, <2>3, <2>5
    <3> HIDE DEF t
    <3>4. Debounces(t, v) /\ Dwells(t, v)
      BY <3>2, <3>3 DEF Debounces, Dwells
    <3>5. Rearms(t, v)
      BY <1>1, <3>2, <3>3 DEF Agree, Rearms
    <3>6. t \in DirState /\ v \in Sight /\ Agree(t, v)
      BY <1>1, <3>2, <3>4, <3>5 DEF Agree
    <3> QED
      BY <3>6 DEF t, v
  <2>6. CASE on /\ (r.latched \/ (r.fired # None /\ r.fired < Cooldown))
    <3>1. t = r
      BY <2>1, <2>6 DEF Polled, Enter
    <3> HIDE DEF t
    <3>2. v.poll /\ v.contact # None /\ v.since = w.since /\ (w.away => v.away)
      BY <1>1, <2>3, <2>6, Parts, Bounds
    <3>3. t.entered = None /\ t.on /\ t.streak = 0 /\ t.fired = s.fired /\ t.latched = s.latched
      BY <2>2, <2>4, <2>6, <3>1
    <3>4. Debounces(t, v) /\ Dwells(t, v)
      BY <3>2, <3>3 DEF Debounces, Dwells
    <3>5. Rearms(t, v)
      BY <3>2, <3>3 DEF Agree, Rearms
    <3> QED
      BY <1>1, <2>2, <3>1, <3>4, <3>5 DEF Agree, t, v
  <2>7. CASE on /\ ~r.latched /\ ~(r.fired # None /\ r.fired < Cooldown)
    <3>1. t = [r EXCEPT !.entered = 0]
      BY <2>1, <2>7 DEF Polled, Enter
    <3>2. /\ t \in DirState /\ t.on /\ t.streak = 0 /\ t.entered = 0
          /\ t.fired = s.fired /\ ~t.latched
      <4>1. r \in DirState /\ 0 \in 0 .. Dwell
        BY <2>2, Bounds
      <4>2. t \in DirState
        BY <3>1, <4>1 DEF DirState
      <4>3. /\ t.on = r.on /\ t.streak = r.streak /\ t.entered = 0
            /\ t.fired = r.fired /\ t.latched = r.latched
        BY <3>1, <4>1 DEF DirState
      <4> QED
        BY <2>2, <2>7, <4>2, <4>3
    <3>3. w.away /\ (w.since # None => w.since >= Cooldown)
      BY <2>2, <2>7, Parts, Bounds DEF Agree, Rearms
    <3>4. v.contact \in 0 .. Dwell
      BY <1>1, <2>3, <2>7, Parts, Bounds
    <3> HIDE DEF t
    <3>5. Debounces(t, v)
      <4>1. v.poll
        BY <1>1, <2>7
      <4>2. v.contact # None
        BY <3>4, Bounds
      <4> QED
        BY <3>2, <4>1, <4>2 DEF Debounces
    <3>6. Dwells(t, v)
      BY <1>1, <3>2, <3>3, <3>4, Parts, Bounds DEF Dwells
    <3>7. Rearms(t, v)
      BY <1>1, <3>2, <3>3, Parts DEF Agree, Rearms
    <3> QED
      BY <1>1, <3>2, <3>5, <3>6, <3>7 DEF Agree, t, v
  <2> QED
    BY <2>5, <2>6, <2>7
<1> QED
  BY <1>2, <1>3, <1>4, Parts

\* A firing, which the observer sees.
Seen(w) == [w EXCEPT !.away = FALSE, !.since = 0]
LEMMA FireAgrees ==
  ASSUME NEW s \in DirState, NEW w \in Sight, Agree(s, w)
  PROVE  Fire(s) \in DirState /\ Seen(w) \in Sight /\ Agree(Fire(s), Seen(w))
<1>1. /\ Fire(s) \in DirState /\ Fire(s).on = s.on /\ Fire(s).streak = s.streak
      /\ Fire(s).entered = None /\ Fire(s).fired = 0 /\ Fire(s).latched
  <2> DEFINE none == None
             zero == 0
             yes == TRUE
  <2>1. none \in {None} \cup 0 .. Dwell /\ zero \in {None} \cup 0 .. Cooldown /\ yes \in BOOLEAN
    BY Bounds
  <2>2. Fire(s) = [s EXCEPT !.entered = none, !.fired = zero, !.latched = yes]
    BY DEF Fire
  <2>3. /\ Fire(s).on = s.on /\ Fire(s).streak = s.streak /\ Fire(s).entered = None
        /\ Fire(s).fired = 0 /\ Fire(s).latched = TRUE
    BY <2>2 DEF DirState
  <2> HIDE DEF none, zero, yes
  <2>4. Fire(s) \in DirState
    BY <2>1, <2>2 DEF DirState
  <2> QED
    BY <2>3, <2>4
<1>2. /\ Seen(w) \in Sight /\ Seen(w).poll = w.poll /\ Seen(w).contact = w.contact
      /\ Seen(w).since = 0
  <2> DEFINE no == FALSE
             zero == 0
  <2>1. no \in BOOLEAN /\ zero \in 0 .. (Cooldown + Dwell)
    BY Bounds
  <2>2. Seen(w) = [w EXCEPT !.away = no, !.since = zero]
    BY DEF Seen
  <2>3. /\ Seen(w).poll = w.poll /\ Seen(w).contact = w.contact /\ Seen(w).since = 0
    BY <2>2 DEF Sight
  <2> HIDE DEF no, zero
  <2>4. Seen(w) \in Sight
    BY <2>1, <2>2 DEF Sight
  <2> QED
    BY <2>3, <2>4
<1> QED
  BY <1>1, <1>2, Bounds DEF Agree, Debounces, Dwells, Rearms

LEMMA FireKeeps ==
  ASSUME NEW s \in DirState, NEW w \in Sight
  PROVE  /\ Fire(s).on = s.on /\ Fire(s).streak = s.streak /\ Seen(w).poll = w.poll
  BY DEF Fire, Seen, DirState, Sight

\* Another layout.
LEMMA ForgetAgrees ==
  ASSUME NEW s \in DirState, NEW w \in Sight, Agree(s, w)
  PROVE  /\ Forget(s) \in DirState /\ ~Forget(s).on /\ Forget(s).streak = 0
         /\ [FreshSeen EXCEPT !.since = w.since] \in Sight
         /\ Agree(Forget(s), [FreshSeen EXCEPT !.since = w.since])
<1>1. /\ Forget(s) \in DirState /\ ~Forget(s).on /\ Forget(s).streak = 0
      /\ Forget(s).entered = None /\ Forget(s).fired = s.fired /\ ~Forget(s).latched
  <2> DEFINE no == FALSE
             zero == 0
             none == None
  <2>1. no \in BOOLEAN /\ zero \in 0 .. 1 /\ none \in {None} \cup 0 .. Dwell
    BY Bounds
  <2>2. Forget(s) = [s EXCEPT !.on = no, !.streak = zero, !.entered = none, !.latched = no]
    BY DEF Forget
  <2>3. /\ Forget(s).on = FALSE /\ Forget(s).streak = 0 /\ Forget(s).entered = None
        /\ Forget(s).fired = s.fired /\ Forget(s).latched = FALSE
    BY <2>2 DEF DirState
  <2> HIDE DEF no, zero, none
  <2>4. Forget(s) \in DirState
    BY <2>1, <2>2 DEF DirState
  <2> QED
    BY <2>3, <2>4
<1>2. /\ [FreshSeen EXCEPT !.since = w.since].poll = FALSE
      /\ [FreshSeen EXCEPT !.since = w.since].contact = None
      /\ [FreshSeen EXCEPT !.since = w.since].away = TRUE
      /\ [FreshSeen EXCEPT !.since = w.since].since = w.since
      /\ [FreshSeen EXCEPT !.since = w.since] \in Sight
  BY Anew, Parts DEF FreshSeen, Sight
<1> QED
  BY <1>1, <1>2, Parts DEF Agree, Debounces, Dwells, Rearms, Sight

-----------------------------------------------------------------------------
(* The manager.                                                            *)

LEMMA InitIInv == Init => IInv
<1> SUFFICES ASSUME Init
             PROVE  IInv
  OBVIOUS
<1>1. /\ dirs = [d \in Mapped |-> FreshDir] /\ seen = [d \in Mapped |-> FreshSeen]
  BY DEF Init
<1> QED
  BY <1>1, Anew DEF IInv, Sees, Touched

\* Every step but those below leaves the directions, what was seen of them,
\* the last position and the zones alone.
LEMMA Unchanged ==
  ASSUME IInv, UNCHANGED <<setting, dirs, seen, lastPos, layout>>, phase' # "gone" \/ phase' = phase
  PROVE  IInv'
  BY DEF IInv, Sees, Touched, InZone, Mapped

\* The steps that change every direction, from what they do to each.
LEMMA EachDirection ==
  ASSUME setting' = setting,
         DOMAIN dirs' = Mapped, DOMAIN seen' = Mapped,
         dirs' = [d \in Mapped |-> dirs'[d]], seen' = [d \in Mapped |-> seen'[d]],
         \A d \in Mapped : /\ dirs'[d] \in DirState /\ seen'[d] \in Sight
                           /\ Agree(dirs'[d], seen'[d])
                           /\ Sees(d)'
  PROVE  IInv'
<1>1. Mapped' = Mapped
  BY DEF Mapped
<1> QED
  BY <1>1 DEF IInv

LEMMA TickStep ==
  ASSUME IInv, Tick
  PROVE  IInv'
<1>1. /\ setting' = setting /\ lastPos' = lastPos /\ layout' = layout /\ phase' = phase
      /\ dirs' = [d \in Mapped |->
                    [dirs[d] EXCEPT !.entered = Older(@, Dwell), !.fired = Older(@, Cooldown)]]
      /\ seen' = [d \in Mapped |->
                    [seen[d] EXCEPT !.contact = Older(@, Dwell), !.since = Older(@, Cooldown + Dwell)]]
  BY DEF Tick, world
<1>2. ASSUME NEW d \in Mapped
      PROVE  /\ dirs'[d] \in DirState /\ seen'[d] \in Sight /\ Agree(dirs'[d], seen'[d])
             /\ Sees(d)'
  <2>1. dirs[d] \in DirState /\ seen[d] \in Sight /\ Agree(dirs[d], seen[d]) /\ Sees(d)
    BY DEF IInv
  <2>2. dirs'[d] \in DirState /\ seen'[d] \in Sight /\ Agree(dirs'[d], seen'[d])
    BY <1>1, <2>1, TickAgrees
  <2>3. dirs'[d].on = dirs[d].on /\ dirs'[d].streak = dirs[d].streak /\ seen'[d].poll = seen[d].poll
    BY <1>1, <2>1 DEF DirState, Sight
  <2>4. InZone(d, lastPos)' = InZone(d, lastPos)
    BY <1>1 DEF InZone, Mapped
  <2>5. Sees(d)'
    BY <1>1, <2>1, <2>3, <2>4 DEF Sees, Touched
  <2> QED
    BY <2>2, <2>5
<1> QED
  BY <1>1, <1>2, EachDirection

LEMMA HandlePositionStep ==
  ASSUME IInv, HandlePosition
  PROVE  IInv'
<1> DEFINE on(d) == InZone(d, Head(feed))
<1>1. /\ setting' = setting /\ lastPos' = Head(feed) /\ layout' = layout /\ phase' # "gone"
      /\ dirs' = [d \in Mapped |-> Polled(dirs[d], on(d))]
      /\ seen' = [d \in Mapped |-> Observed(seen[d], on(d))]
  BY DEF HandlePosition, world
<1>2. ASSUME NEW d \in Mapped
      PROVE  /\ dirs'[d] \in DirState /\ seen'[d] \in Sight /\ Agree(dirs'[d], seen'[d])
             /\ Sees(d)'
  <2>1. dirs[d] \in DirState /\ seen[d] \in Sight /\ Agree(dirs[d], seen[d])
    BY DEF IInv
  <2>2. on(d) \in BOOLEAN
    BY DEF InZone
  <2>3. dirs'[d] = Polled(dirs[d], on(d)) /\ seen'[d] = Observed(seen[d], on(d))
    BY <1>1
  <2>4. InZone(d, lastPos)' = on(d)
    BY <1>1 DEF InZone, Mapped
  <2> HIDE DEF on
  <2>5. dirs'[d] \in DirState /\ seen'[d] \in Sight /\ Agree(dirs'[d], seen'[d])
    BY <2>1, <2>2, <2>3, PolledAgrees
  <2>6. seen'[d].poll = on(d)
    BY <2>1, <2>2, <2>3, ObservedParts
  <2>7. Sees(d)'
    BY <1>1, <2>4, <2>6 DEF Sees, Touched
  <2> QED
    BY <2>5, <2>7
<1> QED
  BY <1>1, <1>2, EachDirection

LEMMA FireDueStep ==
  ASSUME IInv, FireDue
  PROVE  IInv'
<1>1. /\ setting' = setting /\ lastPos' = lastPos /\ layout' = layout /\ phase' # "gone"
      /\ dirs' = [d \in Mapped |-> IF d \in Completed THEN Fire(dirs[d]) ELSE dirs[d]]
      /\ seen' = [d \in Mapped |-> IF d \in Completed THEN Seen(seen[d]) ELSE seen[d]]
  BY DEF FireDue, world, Seen
<1>2. ASSUME NEW d \in Mapped
      PROVE  /\ dirs'[d] \in DirState /\ seen'[d] \in Sight /\ Agree(dirs'[d], seen'[d])
             /\ Sees(d)'
  <2>1. dirs[d] \in DirState /\ seen[d] \in Sight /\ Agree(dirs[d], seen[d]) /\ Sees(d)
    BY DEF IInv
  <2>2. dirs'[d] \in DirState /\ seen'[d] \in Sight /\ Agree(dirs'[d], seen'[d])
    BY <1>1, <2>1, FireAgrees
  <2>3. dirs'[d].on = dirs[d].on /\ dirs'[d].streak = dirs[d].streak /\ seen'[d].poll = seen[d].poll
    BY <1>1, <2>1, FireKeeps
  <2>4. InZone(d, lastPos)' = InZone(d, lastPos)
    BY <1>1 DEF InZone, Mapped
  <2>5. Sees(d)'
    BY <1>1, <2>1, <2>3, <2>4 DEF Sees, Touched
  <2> QED
    BY <2>2, <2>5
<1> QED
  BY <1>1, <1>2, EachDirection

LEMMA FinishRequeryStep ==
  ASSUME IInv, FinishRequery
  PROVE  IInv'
<1>1. setting' = setting /\ lastPos' = lastPos
  BY DEF FinishRequery, world
<1>2. CASE layout' = layout
  BY <1>1, <1>2, Unchanged DEF FinishRequery
<1>3. CASE layout' # layout
  <2>1. /\ dirs' = [d \in Mapped |-> Forget(dirs[d])]
        /\ seen' = [d \in Mapped |-> [FreshSeen EXCEPT !.since = seen[d].since]]
    BY <1>3 DEF FinishRequery
  <2>2. ASSUME NEW d \in Mapped
        PROVE  /\ dirs'[d] \in DirState /\ seen'[d] \in Sight /\ Agree(dirs'[d], seen'[d])
               /\ Sees(d)'
    <3>1. dirs[d] \in DirState /\ seen[d] \in Sight /\ Agree(dirs[d], seen[d])
      BY DEF IInv
    <3> QED
      BY <2>1, <3>1, ForgetAgrees DEF Sees, Touched
  <2> QED
    BY <1>1, <2>1, <2>2, EachDirection
<1> QED
  BY <1>2, <1>3

LEMMA LoseConnectionStep ==
  ASSUME IInv, LoseConnection
  PROVE  IInv'
<1>1. /\ setting' = setting
      /\ dirs' = [d \in Mapped |-> FreshDir] /\ seen' = [d \in Mapped |-> FreshSeen]
  BY DEF LoseConnection, world
<1>2. ASSUME NEW d \in Mapped
      PROVE  /\ dirs'[d] \in DirState /\ seen'[d] \in Sight /\ Agree(dirs'[d], seen'[d])
             /\ Sees(d)'
  BY <1>1, Anew DEF Sees, Touched
<1> QED
  BY <1>1, <1>2, EachDirection

\* A new manager, which may have another layout, starts with nothing.
LEMMA RespawnStep ==
  ASSUME IInv, Respawn
  PROVE  IInv'
<1>1. /\ UNCHANGED <<setting, dirs, seen, lastPos>> /\ phase = "gone"
  BY DEF Respawn, world
<1>2. \A d \in Mapped : ~Touched(d)
  BY <1>1 DEF IInv, Sees
<1> QED
  BY <1>1, <1>2 DEF IInv, Sees, Touched, Mapped

LEMMA NextIInv == IInv /\ [Next]_vars => IInv'
<1> SUFFICES ASSUME IInv, [Next]_vars
             PROVE  IInv'
  OBVIOUS
<1>1. CASE World \/ PollCursor \/ TakeRequest \/ StartRequery
  BY <1>1, Unchanged DEF World, MoveCursor, ChangeScreen, ChangeClients, PollCursor, TakeRequest,
                         StartRequery, world
<1>2. CASE SubmitSwitch
  BY <1>2, Unchanged DEF SubmitSwitch, world
<1>3. ASSUME NEW d \in due, ResolveTarget(d) \/ RequestReturn(d) PROVE IInv'
  BY <1>3, Unchanged DEF ResolveTarget, RequestReturn, world
<1>4. CASE Manager
  BY <1>2, <1>3, <1>4, HandlePositionStep, FireDueStep, FinishRequeryStep DEF Manager
<1>5. CASE UNCHANGED vars
  BY <1>5, Unchanged DEF vars
<1> QED
  BY <1>1, <1>4, <1>5, TickStep, LoseConnectionStep, RespawnStep DEF Next

\* The observer and the manager agree in every reachable state.
THEOREM Invariance == Spec => []IInv
<1>1. Init => IInv
  BY InitIInv
<1>2. IInv /\ [Next]_vars => IInv'
  BY NextIInv
<1> QED
  BY <1>1, <1>2, PTL DEF Spec

-----------------------------------------------------------------------------
(* What the manager asks for.                                              *)

\* A direction whose dwell is over, as the observer sees it.
LEMMA CompletedSeen ==
  ASSUME IInv, NEW d \in Completed
  PROVE  /\ d \in Mapped /\ seen[d].away /\ seen[d].since \in {None, Cooldown + Dwell}
         /\ seen[d].contact # None /\ seen[d].contact >= Dwell /\ Touched(d)
<1>1. /\ d \in Mapped /\ dirs[d].entered # None /\ dirs[d].entered >= Dwell
      /\ dirs[d] \in DirState /\ seen[d] \in Sight /\ Agree(dirs[d], seen[d])
  BY DEF Completed, IInv
<1> DEFINE s == dirs[d]
           w == seen[d]
<1>2. /\ s.entered \in {None} \cup 0 .. Dwell /\ w.contact \in {None} \cup 0 .. Dwell
      /\ w.since \in {None} \cup 0 .. (Cooldown + Dwell) /\ Dwell \in Nat /\ Cooldown \in Nat
  BY <1>1, Bounds DEF DirState, Sight
<1>3. /\ s.on /\ w.away /\ s.entered <= w.contact /\ w.contact # None
      /\ w.since # None => w.since >= Cooldown + s.entered
  BY <1>1 DEF Agree, Debounces, Dwells
<1>4. Touched(d)
  BY <1>3 DEF Touched
<1> HIDE DEF s, w
<1>5. s.entered # None /\ s.entered >= Dwell
  BY <1>1 DEF s
<1>6. s.entered = Dwell /\ w.contact >= Dwell
  BY <1>2, <1>3, <1>5
<1>7. w.since \in {None, Cooldown + Dwell}
  BY <1>2, <1>3, <1>6
<1> QED
  BY <1>1, <1>3, <1>4, <1>6, <1>7 DEF w

\* Every age but that of the last firing grows, or is forgotten.
LEMMA OnlyFiringsAreNew ==
  ASSUME IInv, [Next]_vars, NEW d \in Mapped, seen'[d].since = 0, seen[d].since # 0
  PROVE  seen[d].away /\ seen[d].since \in {None, Cooldown + Dwell}
<1>1. seen[d] \in Sight /\ None # 0
  BY Bounds DEF IInv
<1>2. CASE FireDue
  <2>1. seen' = [e \in Mapped |-> IF e \in Completed THEN Seen(seen[e]) ELSE seen[e]]
    BY <1>2 DEF FireDue, Seen
  <2>2. d \in Completed
    BY <2>1
  <2> QED
    BY <2>2, CompletedSeen
<1>3. ~Tick
  <2> SUFFICES ASSUME Tick
               PROVE  FALSE
    OBVIOUS
  <2>1. seen'[d] = [seen[d] EXCEPT !.contact = Older(@, Dwell), !.since = Older(@, Cooldown + Dwell)]
    BY DEF Tick
  <2>2. seen'[d].since = Older(seen[d].since, Cooldown + Dwell)
    BY <1>1, <2>1 DEF Sight
  <2> DEFINE age == seen[d].since
             limit == Cooldown + Dwell
  <2>3. age \in {None} \cup 0 .. limit /\ limit \in Nat
    BY <1>1, Bounds DEF Sight
  <2> HIDE DEF limit, age
  <2>4. /\ Older(age, limit) = None <=> age = None
        /\ age # None => /\ age \in Nat /\ Older(age, limit) = IF age + 1 <= limit THEN age + 1 ELSE limit
    BY <2>3, OlderAge
  <2>5. Older(age, limit) = 0 /\ age # 0
    BY <2>2 DEF age, limit
  <2> QED
    BY <1>1, <2>3, <2>4, <2>5
<1>4. ~HandlePosition
  <2> SUFFICES ASSUME HandlePosition
               PROVE  FALSE
    OBVIOUS
  <2>1. seen'[d] = Observed(seen[d], InZone(d, Head(feed))) /\ InZone(d, Head(feed)) \in BOOLEAN
    BY DEF HandlePosition, InZone
  <2> QED
    BY <1>1, <2>1, ObservedParts
<1>5. ~FinishRequery
  <2> SUFFICES ASSUME FinishRequery
               PROVE  FALSE
    OBVIOUS
  <2>1. seen' = seen \/ seen'[d] = [FreshSeen EXCEPT !.since = seen[d].since]
    BY DEF FinishRequery
  <2>2. [FreshSeen EXCEPT !.since = seen[d].since].since = seen[d].since
    BY DEF FreshSeen
  <2> QED
    BY <2>1, <2>2
<1>6. ~LoseConnection
  BY <1>1 DEF LoseConnection, FreshSeen
<1>7. seen' # seen
  OBVIOUS
<1> QED
  BY <1>2, <1>3, <1>4, <1>5, <1>6, <1>7
     DEF Next, World, Manager, MoveCursor, ChangeScreen, ChangeClients, PollCursor, TakeRequest,
         StartRequery, SubmitSwitch, ResolveTarget, RequestReturn, Respawn, vars, world

\* Edge resistance: of two firings of a direction the second comes a cooldown
\* and a dwell after the first, and after the pointer was seen away.
THEOREM OncePerVisit == Spec => OneSwitchPerVisit
<1>1. IInv /\ [Next]_vars
         => \A d \in Mapped : seen'[d].since = 0 /\ seen[d].since # 0 =>
               /\ seen[d].away
               /\ seen[d].since \in {None, Cooldown + Dwell}
  BY OnlyFiringsAreNew
<1>2. IInv /\ [Next]_vars
         => [\A d \in Mapped : seen'[d].since = 0 /\ seen[d].since # 0 =>
               /\ seen[d].away
               /\ seen[d].since \in {None, Cooldown + Dwell}]_vars
  BY <1>1
<1> QED
  BY <1>2, Invariance, PTL DEF Spec, OneSwitchPerVisit

\* Only a firing makes a direction due, if the pointer was last seen there.
LEMMA OnlyFiringsAreDue ==
  ASSUME IInv, [Next]_vars, NEW d \in due' \ due
  PROVE  /\ seen[d].contact # None /\ seen[d].contact >= Dwell
         /\ seen[d].poll /\ InZone(d, lastPos)'
<1>1. FireDue
  BY DEF Next, World, Manager, HandlePosition, FinishRequery, LoseConnection, Tick, MoveCursor,
         ChangeScreen, ChangeClients, PollCursor, TakeRequest, StartRequery, SubmitSwitch,
         ResolveTarget, RequestReturn, Respawn, vars, world
<1>2. d \in Completed /\ InZone(d, lastPos) /\ UNCHANGED <<setting, layout, lastPos>>
  BY <1>1 DEF FireDue, world
<1>3. InZone(d, lastPos)'
  BY <1>2 DEF InZone, Mapped
<1>4. d \in Mapped /\ Touched(d) /\ seen[d].contact # None /\ seen[d].contact >= Dwell
  BY <1>2, CompletedSeen
<1>5. seen[d].poll
  BY <1>2, <1>4 DEF IInv, Sees
<1> QED
  BY <1>3, <1>4, <1>5

\* No graze moves the input: a contact of a whole dwell does, the last poll
\* of which is in a zone of the layout in force.
THEOREM Meant == Spec => SwitchIsMeant
<1>1. IInv /\ [Next]_vars
         => [\A d \in due' \ due :
               /\ seen[d].contact # None /\ seen[d].contact >= Dwell
               /\ seen[d].poll /\ InZone(d, lastPos)']_vars
  BY OnlyFiringsAreDue
<1> QED
  BY <1>1, Invariance, PTL DEF Spec, SwitchIsMeant

-----------------------------------------------------------------------------
(* What the manager holds.                                                 *)

LEMMA SeqBounded ==
  ASSUME NEW S, NEW n \in Nat, NEW q
  PROVE  q \in SeqOf(S, n) <=> q \in Seq(S) /\ Len(q) <= n
<1>1. ASSUME q \in Seq(S), Len(q) <= n PROVE q \in SeqOf(S, n)
  <2>1. PICK m : m = Len(q)
    OBVIOUS
  <2>2. m \in 0 .. n /\ q \in [1 .. m -> S]
    BY <1>1, <2>1, LenProperties
  <2>3. PICK A : A = [1 .. m -> S]
    OBVIOUS
  <2>4. A \in {[1 .. j -> S] : j \in 0 .. n}
    BY <2>2, <2>3
  <2> QED BY <2>2, <2>3, <2>4 DEF SeqOf
<1>2. ASSUME q \in SeqOf(S, n) PROVE q \in Seq(S) /\ Len(q) <= n
  <2>1. PICK m \in 0 .. n : q \in [1 .. m -> S]
    BY <1>2 DEF SeqOf
  <2>2. q \in Seq(S)
    <3>1. PICK A : A = [1 .. m -> S]
      OBVIOUS
    <3>2. m \in Nat
      OBVIOUS
    <3>3. A \in {[1 .. j -> S] : j \in Nat}
      BY <3>1, <3>2
    <3> QED BY <2>1, <3>1, <3>3, SeqDef
  <2>3. Len(q) \in Nat /\ DOMAIN q = 1 .. Len(q) /\ DOMAIN q = 1 .. m
    BY <2>1, <2>2, LenProperties
  <2>4. Len(q) = m
    BY <2>1, <2>3
  <2> QED BY <2>1, <2>2, <2>4
<1> QED BY <1>1, <1>2

\* Taking the first of a sequence, and adding anything to it.
LEMMA Queue ==
  ASSUME NEW S, NEW q \in Seq(S)
  PROVE  /\ Len(q) \in Nat
         /\ q # <<>> => Head(q) \in S /\ Tail(q) \in Seq(S) /\ Len(Tail(q)) = Len(q) - 1
         /\ \A x \in S : Append(q, x) \in Seq(S) /\ Len(Append(q, x)) = Len(q) + 1
  OBVIOUS

LEMMA QueueOfAll ==
  ASSUME NEW q, \E S : q \in Seq(S), NEW x
  PROVE  (\E S : Append(q, x) \in Seq(S)) /\ Len(Append(q, x)) = Len(q) + 1
<1>1. PICK S : q \in Seq(S)
  OBVIOUS
<1>2. PICK T : T = S \cup {x}
  OBVIOUS
<1>3. q \in Seq(T) /\ x \in T
  BY <1>1, <1>2, SeqMonotonic
<1> QED BY <1>3, Queue

\* The manager's place, its queues, and what it has in hand.
Layouts == {LogicalLayout(m) : m \in setting.screens} \ {{}}
Place ==
    /\ setting \in Settings /\ screen \in setting.screens /\ layout \in Layouts
    /\ cursor \in setting.positions /\ clients \in setting.clientLists
    /\ lastPos \in setting.positions \cup {None}
Queues ==
    /\ feed \in Seq(setting.positions) /\ Len(feed) <= MaxFeed
    /\ (\E S : requests \in Seq(S)) /\ Len(requests) <= Capacity
Hands ==
    /\ phase \in {"idle", "acting", "sending", "asking", "gone"}
    /\ due \subseteq Mapped
    /\ phase = "sending" <=> chosen # None
Holds == Place /\ Queues /\ Hands

LEMMA Limits == MaxFeed \in Nat /\ Capacity \in Nat
  BY EdgeAssumption

LEMMA LayoutOf ==
  ASSUME screen \in setting.screens, LogicalLayout(screen) # {}
  PROVE  LogicalLayout(screen) \in Layouts
  BY DEF Layouts

LEMMA InitHolds == Init => Holds
<1> SUFFICES ASSUME Init
             PROVE  Holds
  OBVIOUS
<1>1. Place
  BY LayoutOf DEF Init, Place
<1>2. Queues
  <2>1. feed = <<>> /\ requests = <<>>
    BY DEF Init
  <2>2. <<>> \in Seq(setting.positions) /\ Len(<<>>) = 0
    BY EmptySeq
  <2> QED BY <2>1, <2>2, Limits DEF Queues
<1>3. Hands
  BY DEF Init, Hands
<1> QED BY <1>1, <1>2, <1>3 DEF Holds

LEMMA PlaceKept ==
  ASSUME Holds, [Next]_vars
  PROVE  Place'
<1>1. setting' = setting /\ Layouts' = Layouts /\ Place /\ Queues
  BY DEF Next, World, Manager, HandlePosition, FireDue, FinishRequery, LoseConnection, Tick,
         MoveCursor, ChangeScreen, ChangeClients, PollCursor, TakeRequest, StartRequery,
         SubmitSwitch, ResolveTarget, RequestReturn, Respawn, vars, world, Layouts, Holds
<1>2. screen' \in setting.screens /\ cursor' \in setting.positions /\ clients' \in setting.clientLists
  BY <1>1 DEF Next, World, Manager, HandlePosition, FireDue, FinishRequery, LoseConnection, Tick,
         MoveCursor, ChangeScreen, ChangeClients, PollCursor, TakeRequest, StartRequery,
         SubmitSwitch, ResolveTarget, RequestReturn, Respawn, vars, world, Place
<1>3. layout' \in Layouts
  <2>1. \/ layout' = layout
        \/ layout' = LogicalLayout(screen) /\ LogicalLayout(screen) # {}
    BY DEF Next, World, Manager, HandlePosition, FireDue, FinishRequery, LoseConnection, Tick,
         MoveCursor, ChangeScreen, ChangeClients, PollCursor, TakeRequest, StartRequery,
         SubmitSwitch, ResolveTarget, RequestReturn, Respawn, vars, world
  <2> QED BY <1>1, <2>1, LayoutOf DEF Place
<1>4. lastPos' \in setting.positions \cup {None}
  <2>1. lastPos' = lastPos \/ lastPos' = None \/ (lastPos' = Head(feed) /\ feed # <<>>)
    BY DEF Next, World, Manager, HandlePosition, FireDue, FinishRequery, LoseConnection, Tick,
         MoveCursor, ChangeScreen, ChangeClients, PollCursor, TakeRequest, StartRequery,
         SubmitSwitch, ResolveTarget, RequestReturn, Respawn, vars, world
  <2> QED BY <1>1, <2>1, Queue DEF Place, Queues
<1> QED BY <1>1, <1>2, <1>3, <1>4 DEF Place

LEMMA QueuesKept ==
  ASSUME Holds, [Next]_vars
  PROVE  Queues'
<1>1. setting' = setting /\ Queues
  BY DEF Next, World, Manager, HandlePosition, FireDue, FinishRequery, LoseConnection, Tick,
         MoveCursor, ChangeScreen, ChangeClients, PollCursor, TakeRequest, StartRequery,
         SubmitSwitch, ResolveTarget, RequestReturn, Respawn, vars, world, Holds
<1>2. feed' \in Seq(setting.positions) /\ Len(feed') <= MaxFeed
  <2>1. \/ feed' = feed
        \/ feed' = Append(feed, cursor) /\ Len(feed) < MaxFeed
        \/ feed' = Tail(feed) /\ feed # <<>>
        \/ feed' = <<>>
    BY DEF Next, World, Manager, HandlePosition, FireDue, FinishRequery, LoseConnection, Tick,
         MoveCursor, ChangeScreen, ChangeClients, PollCursor, TakeRequest, StartRequery,
         SubmitSwitch, ResolveTarget, RequestReturn, Respawn, vars, world
  <2>2. cursor \in setting.positions
    BY DEF Holds, Place
  <2>3. feed \in Seq(setting.positions) /\ Len(feed) <= MaxFeed /\ MaxFeed \in Nat
    BY <1>1, Limits DEF Queues
  <2>4. Len(feed) \in Nat
    BY <2>3, Queue
  <2>5. CASE feed' = Append(feed, cursor) /\ Len(feed) < MaxFeed
    <3>1. Append(feed, cursor) \in Seq(setting.positions) /\ Len(Append(feed, cursor)) = Len(feed) + 1
      BY <2>2, <2>3, Queue
    <3> QED BY <2>3, <2>4, <2>5, <3>1
  <2>6. CASE feed' = Tail(feed) /\ feed # <<>>
    <3>1. Tail(feed) \in Seq(setting.positions) /\ Len(Tail(feed)) = Len(feed) - 1
      BY <2>3, <2>6, Queue
    <3> QED BY <2>3, <2>4, <2>6, <3>1
  <2>7. CASE feed' = <<>>
    BY <2>3, <2>7, EmptySeq
  <2> QED BY <2>1, <2>3, <2>5, <2>6, <2>7
<1>3. (\E S : requests' \in Seq(S)) /\ Len(requests') <= Capacity
  <2>1. \/ requests' = requests
        \/ (\E x : requests' = Append(requests, x)) /\ Len(requests) < Capacity
        \/ requests' = Tail(requests) /\ requests # <<>>
        \/ requests' = <<>>
    BY DEF Next, World, Manager, HandlePosition, FireDue, FinishRequery, LoseConnection, Tick,
         MoveCursor, ChangeScreen, ChangeClients, PollCursor, TakeRequest, StartRequery,
         SubmitSwitch, ResolveTarget, RequestReturn, Respawn, vars, world
  <2>2. PICK S : requests \in Seq(S)
    BY <1>1 DEF Queues
  <2>3. Len(requests) \in Nat /\ Len(requests) <= Capacity /\ Capacity \in Nat
    BY <1>1, <2>2, Queue, Limits DEF Queues
  <2>4. CASE (\E x : requests' = Append(requests, x)) /\ Len(requests) < Capacity
    <3>1. PICK x : requests' = Append(requests, x)
      BY <2>4
    <3>2. (\E T : Append(requests, x) \in Seq(T)) /\ Len(Append(requests, x)) = Len(requests) + 1
      BY <2>2, QueueOfAll
    <3> QED BY <2>3, <2>4, <3>1, <3>2
  <2>5. CASE requests' = Tail(requests) /\ requests # <<>>
    <3>1. Tail(requests) \in Seq(S) /\ Len(Tail(requests)) = Len(requests) - 1
      BY <2>2, <2>5, Queue
    <3> QED BY <2>3, <2>5, <3>1
  <2>6. CASE requests' = <<>>
    BY <2>3, <2>6, EmptySeq
  <2> QED BY <1>1, <2>1, <2>4, <2>5, <2>6 DEF Queues
<1> QED BY <1>1, <1>2, <1>3 DEF Queues

LEMMA HandsKept ==
  ASSUME Holds, [Next]_vars
  PROVE  Hands'
<1>1. Hands /\ Mapped' = Mapped /\ Completed \subseteq Mapped
  BY DEF Next, World, Manager, HandlePosition, FireDue, FinishRequery, LoseConnection, Tick,
         MoveCursor, ChangeScreen, ChangeClients, PollCursor, TakeRequest, StartRequery,
         SubmitSwitch, ResolveTarget, RequestReturn, Respawn, vars, world, Holds, Mapped, Completed
<1>2. CASE World \/ PollCursor \/ Tick \/ TakeRequest \/ HandlePosition \/ UNCHANGED vars
  BY <1>1, <1>2 DEF World, MoveCursor, ChangeScreen, ChangeClients, PollCursor, Tick, TakeRequest,
                    HandlePosition, vars, world, Hands
<1>3. CASE FireDue
  BY <1>1, <1>3 DEF FireDue, Hands
<1>4. ASSUME NEW d \in due, ResolveTarget(d) \/ RequestReturn(d) PROVE Hands'
  BY <1>1, <1>4 DEF ResolveTarget, RequestReturn, Hands
<1>5. CASE SubmitSwitch
  BY <1>1, <1>5 DEF SubmitSwitch, Hands
<1>6. CASE StartRequery \/ FinishRequery \/ LoseConnection \/ Respawn
  BY <1>1, <1>6 DEF StartRequery, FinishRequery, LoseConnection, Respawn, Hands
<1> QED BY <1>2, <1>3, <1>4, <1>5, <1>6 DEF Next, Manager

LEMMA NextHolds == Holds /\ [Next]_vars => Holds'
  BY PlaceKept, QueuesKept, HandsKept DEF Holds

LEMMA TypeFollows == IInv /\ Holds => TypeOK
<1> SUFFICES ASSUME IInv, Holds
             PROVE  TypeOK
  OBVIOUS
<1>1. feed \in SeqOf(setting.positions, MaxFeed)
  BY SeqBounded, Limits DEF Holds, Queues
<1>2. dirs \in [Mapped -> [on : BOOLEAN, streak : 0..StablePolls - 1, entered : Ages(Dwell),
                           fired : Ages(Cooldown), latched : BOOLEAN]]
  BY DEF IInv, DirState, StablePolls, Ages
<1>3. \A d \in Mapped : dirs[d].entered # None => dirs[d].on /\ ~dirs[d].latched
  BY DEF IInv, Agree, Dwells, Rearms
<1>4. phase # "gone" => (phase = "sending") = (chosen # None)
  BY DEF Holds, Hands
<1> QED BY <1>1, <1>2, <1>3, <1>4 DEF TypeOK, Holds, Place, Queues, Hands, Layouts

-----------------------------------------------------------------------------
(* The outline: the sweep keeps the gaps between the abutting intervals.   *)

\* The least of a set of natural numbers, the least of the finite sets.
LEMMA LeastNumber ==
  ASSUME NEW N \in SUBSET Nat, N # {}
  PROVE  \E n \in N : \A m \in N : n <= m
<1>1. PICK n \in N : \A m \in N : ~(<<m, n>> \in OpToRel(<, Nat))
  BY WFMin, NatLessThanWellFounded, Zenon
<1>2. ASSUME NEW m \in N PROVE n <= m
  <2>1. m \in Nat /\ n \in Nat
    OBVIOUS
  <2>2. ~(m < n)
    BY <1>1, <2>1 DEF OpToRel
  <2> QED BY <2>1, <2>2
<1> QED BY <1>2

\* An interval of an edge has a first and a one-past-last coordinate.
Interval == {i \in Int \X Int : i[1] < i[2]}

LEMMA IntervalParts ==
  ASSUME NEW i \in Interval
  PROVE  i[1] \in Int /\ i[2] \in Int /\ i[1] < i[2]
  BY DEF Interval

\* The order of the sweep has a last one.
LEMMA LastExists ==
  ASSUME NEW S \in SUBSET Interval, IsFiniteSet(S), S # {}
  PROVE  LastOf(S) \in S /\ \A j \in S : Earlier(j, LastOf(S))
<1> DEFINE HasLast(U) == \E i \in U : \A j \in U : Earlier(j, i)
           N == {n \in Nat : \E U \in SUBSET S : U # {} /\ Cardinality(U) = n /\ ~HasLast(U)}
<1>1. N = {}
  <2>1. SUFFICES ASSUME N # {} PROVE FALSE
    OBVIOUS
  <2>2. PICK n \in N : \A m \in N : n <= m
    <3>1. N \subseteq Nat
      OBVIOUS
    <3> HIDE DEF N
    <3> QED BY <2>1, <3>1, LeastNumber
  <2>3. PICK U \in SUBSET S : U # {} /\ Cardinality(U) = n /\ ~HasLast(U)
    BY <2>2
  <2>4. PICK x \in U : TRUE
    BY <2>3
  <2>5. IsFiniteSet(U) /\ IsFiniteSet(U \ {x}) /\ Cardinality(U) \in Nat
        /\ Cardinality(U \ {x}) \in Nat /\ Cardinality(U \ {x}) = Cardinality(U) - 1
    BY FS_Subset, FS_RemoveElement, FS_CardinalityType
  <2>6. x \in Interval
    OBVIOUS
  <2>7. CASE U \ {x} = {}
    <3>1. \A j \in U : j = x
      BY <2>7
    <3>2. Earlier(x, x)
      BY <2>6, IntervalParts DEF Earlier
    <3> QED BY <2>3, <2>4, <3>1, <3>2
  <2>8. CASE U \ {x} # {}
    <3>1. HasLast(U \ {x})
      <4>1. PICK m \in Nat : m = Cardinality(U \ {x}) /\ m < n
        BY <2>2, <2>3, <2>5
      <4>2. m \notin N
        <5>1. n \in Nat /\ ~(n <= m)
          BY <2>2, <4>1
        <5> HIDE DEF N
        <5> QED BY <2>2, <5>1
      <4> QED BY <2>8, <4>1, <4>2
    <3>2. PICK y \in U \ {x} : \A j \in U \ {x} : Earlier(j, y)
      BY <3>1
    <3>3. y \in Interval
      OBVIOUS
    <3>4. CASE Earlier(x, y)
      BY <2>3, <3>2, <3>4
    <3>5. CASE ~Earlier(x, y)
      <4>1. \A j \in U : j \in Interval
        OBVIOUS
      <4>2. \A j \in U : Earlier(j, x)
        BY <2>6, <3>2, <3>3, <3>5, <4>1, IntervalParts DEF Earlier
      <4> QED BY <2>3, <2>4, <4>2
    <3> QED BY <3>4, <3>5
  <2> QED BY <2>7, <2>8
<1>2. Cardinality(S) \in Nat
  BY FS_CardinalityType
<1>3. HasLast(S)
  BY <1>1, <1>2
<1> QED BY <1>3 DEF LastOf

\* The sweep is what its steps say.
LEMMA SweepSteps ==
  ASSUME NEW from, NEW S \in SUBSET Interval, IsFiniteSet(S)
  PROVE  /\ Sweep(from, S)[{}] = [cursor |-> from, segments |-> {}]
         /\ \A U \in SUBSET S : U # {} =>
               Sweep(from, S)[U] = Pass(Sweep(from, S)[U \ {LastOf(U)}], LastOf(U))
<1> DEFINE Step(f, U) == IF U = {} THEN [cursor |-> from, segments |-> {}]
                         ELSE Pass(f[U \ {LastOf(U)}], LastOf(U))
           Small(n) == {U \in SUBSET S : Cardinality(U) <= n}
           Upto(n) == \E f : f = [U \in Small(n) |-> Step(f, U)]
           N == {n \in Nat : ~Upto(n)}
<1>1. ASSUME NEW U \in SUBSET S
      PROVE  /\ Cardinality(U) \in Nat
             /\ Cardinality(U) <= Cardinality(S)
             /\ Cardinality(U) = 0 <=> U = {}
             /\ U # {} => /\ U \ {LastOf(U)} \in SUBSET S
                          /\ Cardinality(U \ {LastOf(U)}) = Cardinality(U) - 1
  <2>1. IsFiniteSet(U) /\ Cardinality(U) <= Cardinality(S)
    BY FS_Subset
  <2>2. Cardinality(U) \in Nat /\ (Cardinality(U) = 0 <=> U = {})
    BY <2>1, FS_CardinalityType, FS_EmptySet
  <2>3. U # {} => LastOf(U) \in U
    BY <2>1, LastExists
  <2>4. U # {} => Cardinality(U \ {LastOf(U)}) = Cardinality(U) - 1
    BY <2>1, <2>3, FS_RemoveElement
  <2> QED BY <2>1, <2>2, <2>4
<1>2. N = {}
  <2>1. SUFFICES ASSUME N # {} PROVE FALSE
    OBVIOUS
  <2>2. PICK n \in N : \A m \in N : n <= m
    <3>1. N \subseteq Nat
      OBVIOUS
    <3> HIDE DEF N
    <3> QED BY <2>1, <3>1, LeastNumber
  <2>3. n \in Nat /\ ~Upto(n)
    BY <2>2
  <2>4. CASE n = 0
    <3>1. Small(0) = {{}}
      <4>1. ASSUME NEW U \in Small(0) PROVE U = {}
        <5>1. U \in SUBSET S /\ Cardinality(U) <= 0
          OBVIOUS
        <5>2. PICK n0 \in Nat : n0 = Cardinality(U)
          BY <1>1, <5>1
        <5>3. Cardinality(U) = 0
          BY <5>1, <5>2
        <5> QED BY <1>1, <5>1, <5>3
      <4>2. Cardinality({}) <= 0
        BY FS_EmptySet
      <4>3. {} \in Small(0)
        BY <4>2
      <4> QED BY <4>1, <4>3
    <3>2. [U \in {{}} |-> Step(<<>>, {})] = [U \in Small(0) |-> Step([V \in {{}} |-> Step(<<>>, {})], U)]
      BY <3>1 DEF Step
    <3> QED BY <2>3, <2>4, <3>2
  <2>5. CASE n # 0
    <3>1. n - 1 \in Nat /\ n - 1 < n
      BY <2>3, <2>5
    <3>2. n - 1 \notin N
      <4> HIDE DEF N
      <4> QED BY <2>2, <2>3, <3>1
    <3>3. PICK f : f = [U \in Small(n - 1) |-> Step(f, U)]
      BY <3>1, <3>2
    <3> DEFINE g == [U \in Small(n) |-> IF Cardinality(U) = n THEN Step(f, U) ELSE f[U]]
    <3>4. ASSUME NEW U \in Small(n) PROVE g[U] = Step(g, U)
      <4>1. Cardinality(U) \in Nat /\ Cardinality(U) <= n
        BY <1>1
      <4>2. U # {} => /\ U \ {LastOf(U)} \in Small(n - 1)
                      /\ U \ {LastOf(U)} \in Small(n)
                      /\ Cardinality(U \ {LastOf(U)}) # n
        BY <1>1, <2>3, <4>1
      <4>3. U # {} => g[U \ {LastOf(U)}] = f[U \ {LastOf(U)}]
        BY <4>2
      <4>4. Step(g, U) = Step(f, U)
        BY <4>3 DEF Step
      <4>5. CASE Cardinality(U) = n
        BY <4>4, <4>5
      <4>6. CASE Cardinality(U) # n
        <5>1. U \in Small(n - 1)
          BY <2>3, <4>1, <4>6
        <5>2. f[U] = Step(f, U)
          BY <3>3, <5>1
        <5>3. g[U] = f[U]
          BY <4>6
        <5> QED BY <4>4, <5>2, <5>3
      <4> QED BY <4>5, <4>6
    <3>5. g = [U \in Small(n) |-> Step(g, U)]
      BY <3>4
    <3> QED BY <2>3, <3>5
  <2> QED BY <2>4, <2>5
<1>3. Small(Cardinality(S)) = SUBSET S /\ Cardinality(S) \in Nat
  BY <1>1, FS_CardinalityType
<1>4. Upto(Cardinality(S))
  BY <1>2, <1>3
<1>5. \E f : f = [U \in SUBSET S |-> Step(f, U)]
  BY <1>3, <1>4
<1>6. Sweep(from, S) = CHOOSE f : f = [U \in SUBSET S |-> Step(f, U)]
  BY DEF Sweep, Step
<1> HIDE DEF Step
<1>7. Sweep(from, S) = [U \in SUBSET S |-> Step(Sweep(from, S), U)]
  BY <1>5, <1>6
<1>8. \A U \in SUBSET S : Sweep(from, S)[U] = Step(Sweep(from, S), U)
  BY <1>7
<1> QED BY <1>8 DEF Step

\* What a sweep over a set of intervals has reached, and the gaps it has left.
Reached(from, S, c) ==
    /\ c \in Int /\ from <= c
    /\ \A i \in S : i[2] <= c
    /\ c = from \/ \E i \in S : i[2] = c
Free(S, f, t) == f < t /\ \A i \in S : i[2] <= f \/ t <= i[1]
Starts(from, S, f) == f = from \/ \E i \in S : i[2] = f
Gap(from, S, f, t) == Free(S, f, t) /\ Starts(from, S, f) /\ \E i \in S : i[1] = t
Swept(from, S, w) ==
    /\ Reached(from, S, w.cursor)
    /\ w.segments = {s \in Int \X Int : Gap(from, S, s[1], s[2])}

\* An interval that is not before the others adds the gap in front of it.
LEMMA OneMoreGap ==
  ASSUME NEW from \in Int, NEW S \in SUBSET Interval, NEW m \in Interval,
         from <= m[1], \A j \in S : from <= j[1] /\ Earlier(j, m),
         NEW c, Reached(from, S, c), NEW f \in Int, NEW t \in Int
  PROVE  Gap(from, S \cup {m}, f, t) <=>
             Gap(from, S, f, t) \/ (c < m[1] /\ f = c /\ t = m[1])
<1>1. m[1] \in Int /\ m[2] \in Int /\ m[1] < m[2]
  BY IntervalParts
<1>2. \A j \in S : j[1] \in Int /\ j[2] \in Int /\ j[1] < j[2] /\ from <= j[1] /\ j[1] <= m[1]
  BY <1>1, IntervalParts DEF Earlier
<1>3. ASSUME Gap(from, S, f, t) PROVE Gap(from, S \cup {m}, f, t)
  BY <1>1, <1>2, <1>3 DEF Gap, Free, Starts
<1>4. ASSUME c < m[1], f = c, t = m[1] PROVE Gap(from, S \cup {m}, f, t)
  BY <1>1, <1>2, <1>4 DEF Gap, Free, Starts, Reached
<1>5. ASSUME Gap(from, S \cup {m}, f, t) PROVE Gap(from, S, f, t) \/ (c < m[1] /\ f = c /\ t = m[1])
  <2>1. f < t /\ (\A i \in S : i[2] <= f \/ t <= i[1]) /\ (m[2] <= f \/ t <= m[1])
    BY <1>5 DEF Gap, Free
  <2>2. t <= m[1]
    BY <1>1, <1>2, <1>5, <2>1 DEF Gap
  <2>3. f = from \/ \E i \in S : i[2] = f
    BY <1>1, <1>5, <2>1, <2>2 DEF Gap, Starts
  <2>4. CASE \E i \in S : i[1] = t
    BY <2>1, <2>3, <2>4 DEF Gap, Free, Starts
  <2>5. CASE ~\E i \in S : i[1] = t
    <3>1. t = m[1]
      BY <1>5, <2>5 DEF Gap
    <3>2. \A i \in S : i[2] <= f
      BY <1>2, <2>1, <2>5, <3>1
    <3>3. f <= c /\ c <= f
      BY <1>2, <2>3, <3>2 DEF Reached
    <3> QED BY <2>1, <3>1, <3>3 DEF Reached
  <2> QED BY <2>4, <2>5
<1> QED BY <1>3, <1>4, <1>5

LEMMA PassSweeps ==
  ASSUME NEW from \in Int, NEW S \in SUBSET Interval, NEW m \in Interval,
         from <= m[1], \A j \in S : from <= j[1] /\ Earlier(j, m),
         NEW w, Swept(from, S, w)
  PROVE  Swept(from, S \cup {m}, Pass(w, m))
<1>1. m[1] \in Int /\ m[2] \in Int /\ m[1] < m[2]
  BY IntervalParts
<1>2. PICK c \in Int : c = w.cursor /\ Reached(from, S, c)
  BY DEF Swept, Reached
<1>3. Pass(w, m).cursor = Later(c, m[2]) /\ Pass(w, m).segments = Push(w.segments, c, m[1])
  BY <1>2 DEF Pass
<1>4. Reached(from, S \cup {m}, Later(c, m[2]))
  BY <1>1, <1>2, IntervalParts DEF Reached, Later
<1>5. \A f, t \in Int : Gap(from, S \cup {m}, f, t) <=>
             Gap(from, S, f, t) \/ (c < m[1] /\ f = c /\ t = m[1])
  BY <1>2, OneMoreGap
<1>6. w.segments = {s \in Int \X Int : Gap(from, S, s[1], s[2])}
  BY DEF Swept
<1>7. Push(w.segments, c, m[1]) = {s \in Int \X Int : Gap(from, S \cup {m}, s[1], s[2])}
  <2>1. ASSUME NEW s \in Push(w.segments, c, m[1])
        PROVE  s \in Int \X Int /\ Gap(from, S \cup {m}, s[1], s[2])
    <3>1. s \in w.segments \/ (c < m[1] /\ s = <<c, m[1]>>)
      BY <2>1 DEF Push
    <3>2. CASE s \in w.segments
      <4>1. s \in Int \X Int /\ Gap(from, S, s[1], s[2])
        BY <1>6, <3>2
      <4>2. s[1] \in Int /\ s[2] \in Int
        BY <4>1
      <4> QED BY <1>5, <4>1, <4>2
    <3>3. CASE c < m[1] /\ s = <<c, m[1]>>
      <4>1. s \in Int \X Int /\ s[1] = c /\ s[2] = m[1]
        BY <1>1, <1>2, <3>3
      <4>2. Gap(from, S \cup {m}, c, m[1])
        BY <1>1, <1>2, <1>5, <3>3
      <4> QED BY <4>1, <4>2
    <3> QED BY <3>1, <3>2, <3>3
  <2>2. ASSUME NEW s \in Int \X Int, Gap(from, S \cup {m}, s[1], s[2])
        PROVE  s \in Push(w.segments, c, m[1])
    <3>1. s[1] \in Int /\ s[2] \in Int /\ s = <<s[1], s[2]>>
      OBVIOUS
    <3>2. Gap(from, S, s[1], s[2]) \/ (c < m[1] /\ s[1] = c /\ s[2] = m[1])
      BY <1>5, <2>2, <3>1
    <3> QED BY <1>6, <3>1, <3>2 DEF Push
  <2> QED BY <2>1, <2>2
<1> QED BY <1>3, <1>4, <1>7 DEF Swept

LEMMA SweepGaps ==
  ASSUME NEW from \in Int, NEW S \in SUBSET Interval, IsFiniteSet(S), \A i \in S : from <= i[1]
  PROVE  Swept(from, S, Sweep(from, S)[S])
<1> DEFINE N == {n \in Nat : \E U \in SUBSET S : Cardinality(U) = n /\ ~Swept(from, U, Sweep(from, S)[U])}
<1>1. N = {}
  <2>1. SUFFICES ASSUME N # {} PROVE FALSE
    OBVIOUS
  <2>2. PICK n \in N : \A m \in N : n <= m
    <3>1. N \subseteq Nat
      OBVIOUS
    <3> HIDE DEF N
    <3> QED BY <2>1, <3>1, LeastNumber
  <2>3. n \in Nat
    BY <2>2
  <2>4. PICK U \in SUBSET S : Cardinality(U) = n /\ ~Swept(from, U, Sweep(from, S)[U])
    BY <2>2
  <2>5. CASE U = {}
    <3>1. Sweep(from, S)[U] = [cursor |-> from, segments |-> {}]
      BY <2>5, SweepSteps
    <3>2. PICK w : w = Sweep(from, S)[U]
      OBVIOUS
    <3>3. w.cursor = from /\ w.segments = {}
      BY <3>1, <3>2
    <3>4. \A s \in Int \X Int : ~Gap(from, U, s[1], s[2])
      BY <2>5 DEF Gap
    <3>5. Swept(from, U, w)
      BY <2>5, <3>3, <3>4 DEF Swept, Reached
    <3> QED BY <2>4, <3>2, <3>5
  <2>6. CASE U # {}
    <3>1. IsFiniteSet(U)
      BY FS_Subset
    <3>2. PICK m \in U : m = LastOf(U) /\ \A j \in U : Earlier(j, m)
      BY <2>6, <3>1, LastExists
    <3>3. PICK V \in SUBSET S : V = U \ {m}
      OBVIOUS
    <3>4. Cardinality(V) \in Nat /\ Cardinality(V) = n - 1
      BY <2>3, <2>4, <3>1, <3>2, <3>3, FS_RemoveElement, FS_CardinalityType
    <3>5. Swept(from, V, Sweep(from, S)[V])
      <4>1. n - 1 \notin N
        <5>1. ~(n <= n - 1)
          BY <2>3
        <5> HIDE DEF N
        <5> QED BY <2>2, <5>1
      <4> QED BY <3>4, <4>1
    <3>6. PICK w : w = Sweep(from, S)[V]
      OBVIOUS
    <3>7. Sweep(from, S)[U] = Pass(w, m)
      BY <2>6, <3>2, <3>3, <3>6, SweepSteps
    <3>8. /\ m \in Interval /\ V \in SUBSET Interval /\ V \cup {m} = U
          /\ from <= m[1] /\ \A j \in V : from <= j[1] /\ Earlier(j, m)
      BY <3>2, <3>3
    <3>9. Swept(from, V \cup {m}, Pass(w, m))
      BY <3>5, <3>6, <3>8, PassSweeps
    <3> QED BY <2>4, <3>7, <3>8, <3>9
  <2> QED BY <2>5, <2>6
<1>2. Cardinality(S) \in Nat
  BY FS_CardinalityType
<1> QED BY <1>1, <1>2

\* The segments of an edge: the longest parts that no interval meets.
LEMMA SegmentsAreGaps ==
  ASSUME NEW from \in Int, NEW to \in Int, NEW S \in SUBSET Interval, IsFiniteSet(S),
         \A i \in S : from <= i[1] /\ i[2] <= to,
         NEW f \in Int, NEW t \in Int
  PROVE  <<f, t>> \in Push(Sweep(from, S)[S].segments, Sweep(from, S)[S].cursor, to) <=>
             Free(S, f, t) /\ Starts(from, S, f) /\ (t = to \/ \E i \in S : i[1] = t)
<1>1. PICK w : w = Sweep(from, S)[S]
  OBVIOUS
<1>2. Swept(from, S, w)
  BY <1>1, SweepGaps
<1>3. PICK c \in Int : c = w.cursor /\ Reached(from, S, c)
  BY <1>2 DEF Swept, Reached
<1>4. <<f, t>> \in w.segments <=> Gap(from, S, f, t)
  BY <1>2 DEF Swept
<1>5. <<f, t>> \in Push(w.segments, c, to) <=> Gap(from, S, f, t) \/ (c < to /\ f = c /\ t = to)
  BY <1>4 DEF Push
<1>6. \A i \in S : i[1] \in Int /\ i[2] \in Int /\ i[1] < i[2] /\ i[2] <= to
  BY IntervalParts
<1>7. ASSUME c < to, f = c, t = to PROVE Free(S, f, t) /\ Starts(from, S, f)
  BY <1>3, <1>7 DEF Free, Starts, Reached
<1>8. ASSUME Free(S, f, t), Starts(from, S, f), t = to PROVE c < to /\ f = c
  <2>1. \A i \in S : i[2] <= f
    BY <1>6, <1>8 DEF Free
  <2>2. f <= c /\ c <= f
    BY <1>3, <1>6, <1>8, <2>1 DEF Reached, Starts
  <2> QED BY <1>3, <1>8, <2>2 DEF Free
<1> QED BY <1>1, <1>3, <1>5, <1>7, <1>8 DEF Gap

\* Outputs, by their extents along and across an edge.
Rect == [x : Int, y : Int, width : Int, height : Int]

LEMMA Extents ==
  ASSUME NEW o \in Rect, NEW d \in Directions
  PROVE  /\ Along(o, d)[1] \in Int /\ Along(o, d)[2] \in Int
         /\ Across(o, d)[1] \in Int /\ Across(o, d)[2] \in Int
         /\ o.width > 0 /\ o.height > 0 <=>
               Along(o, d)[1] < Along(o, d)[2] /\ Across(o, d)[1] < Across(o, d)[2]
  BY DEF Rect, Along, Across

\* Covering and lying apart, by these extents.
LEMMA CoversPixel ==
  ASSUME NEW o \in Rect, NEW q \in Rect, NEW d \in Directions, NEW k \in Int, NEW n \in Int
  PROVE  LET e == IF Outward(d) THEN Across(o, d)[2] - 1 + n ELSE Across(o, d)[1] - n
         IN  Covers(q, EdgePixel(o, d, k, n)) <=>
                /\ Along(q, d)[1] <= k /\ k < Along(q, d)[2]
                /\ Across(q, d)[1] <= e /\ e < Across(q, d)[2]
<1> DEFINE e == IF Outward(d) THEN Across(o, d)[2] - 1 + n ELSE Across(o, d)[1] - n
<1>1. PICK z : z = e
  OBVIOUS
<1>2. CASE Upright(d)
  <2>1. EdgePixel(o, d, k, n)[1] = z /\ EdgePixel(o, d, k, n)[2] = k
    BY <1>1, <1>2 DEF EdgePixel
  <2>2. /\ Along(q, d)[1] = q.y /\ Along(q, d)[2] = q.y + q.height
        /\ Across(q, d)[1] = q.x /\ Across(q, d)[2] = q.x + q.width
    BY <1>2 DEF Along, Across
  <2> QED BY <1>1, <2>1, <2>2 DEF Covers
<1>3. CASE ~Upright(d)
  <2>1. EdgePixel(o, d, k, n)[1] = k /\ EdgePixel(o, d, k, n)[2] = z
    BY <1>1, <1>3 DEF EdgePixel
  <2>2. /\ Along(q, d)[1] = q.x /\ Along(q, d)[2] = q.x + q.width
        /\ Across(q, d)[1] = q.y /\ Across(q, d)[2] = q.y + q.height
    BY <1>3 DEF Along, Across
  <2> QED BY <1>1, <2>1, <2>2 DEF Covers
<1> QED BY <1>2, <1>3

LEMMA BesideEachOther ==
  ASSUME NEW o \in Rect, NEW q \in Rect, NEW d \in Directions, Beside(o, q) \/ Beside(q, o)
  PROVE  \/ Along(o, d)[2] <= Along(q, d)[1] \/ Along(q, d)[2] <= Along(o, d)[1]
         \/ Across(o, d)[2] <= Across(q, d)[1] \/ Across(q, d)[2] <= Across(o, d)[1]
  BY DEF Beside, Along, Across

\* The pixels beyond an edge are of those outputs that share its boundary.
LEMMA BeyondIsBoundary ==
  ASSUME NEW l \in SUBSET Rect, Disjoint(l), NEW o \in Visible(l), NEW d \in Directions,
         NEW k \in Int, Along(o, d)[1] <= k, k < Along(o, d)[2], NEW q \in l \ {o}
  PROVE  (\E n \in 1 .. (1 + Tolerance) : Covers(q, EdgePixel(o, d, k, n))) <=>
             /\ q \in Visible(l) /\ SharesBoundary(o, q, d)
             /\ Along(q, d)[1] <= k /\ k < Along(q, d)[2]
<1>1. o \in Rect /\ q \in Rect /\ o # q
  BY DEF Visible
<1>2. PICK a, b, a1, b1 \in Int : /\ a = Along(q, d)[1] /\ b = Along(q, d)[2]
                                 /\ a1 = Across(q, d)[1] /\ b1 = Across(q, d)[2]
  BY <1>1, Extents
<1>3. PICK f, t, f1, t1 \in Int : /\ f = Along(o, d)[1] /\ t = Along(o, d)[2]
                                 /\ f1 = Across(o, d)[1] /\ t1 = Across(o, d)[2]
  BY <1>1, Extents
<1>4. f1 < t1 /\ f <= k /\ k < t
  BY <1>1, <1>3, Extents DEF Visible
<1>5. q \in Visible(l) <=> a < b /\ a1 < b1
  BY <1>1, <1>2, Extents DEF Visible
<1>6. a < b /\ a1 < b1 => t <= a \/ b <= f \/ t1 <= a1 \/ b1 <= f1
  <2>1. ASSUME a < b, a1 < b1 PROVE Beside(o, q) \/ Beside(q, o)
    BY <1>1, <1>5, <2>1 DEF Disjoint
  <2> QED BY <1>1, <1>2, <1>3, <2>1, BesideEachOther
<1>7. \A n \in Int : Covers(q, EdgePixel(o, d, k, n)) <=>
          /\ a <= k /\ k < b
          /\ IF Outward(d) THEN a1 <= t1 - 1 + n /\ t1 - 1 + n < b1
                           ELSE a1 <= f1 - n /\ f1 - n < b1
  BY <1>1, <1>2, <1>3, CoversPixel
<1>8. SharesBoundary(o, q, d) <=> IF Outward(d) THEN a1 - t1 \in {-1, 0, 1} ELSE b1 - f1 \in {-1, 0, 1}
  BY <1>2, <1>3 DEF SharesBoundary, Tolerance
<1>9. 1 .. (1 + Tolerance) = {1, 2}
  BY DEF Tolerance
<1>10. CASE Outward(d)
  BY <1>2, <1>4, <1>5, <1>6, <1>7, <1>8, <1>9, <1>10
<1>11. CASE ~Outward(d)
  BY <1>2, <1>4, <1>5, <1>6, <1>7, <1>8, <1>9, <1>11
<1> QED BY <1>2, <1>10, <1>11

\* The intervals lie on the edge, and are of the outputs that share it.
LEMMA AbuttingParts ==
  ASSUME NEW l \in SUBSET Rect, IsFiniteSet(l), NEW o \in Visible(l), NEW d \in Directions
  PROVE  /\ Abutting(o, d, l) \subseteq Interval /\ IsFiniteSet(Abutting(o, d, l))
         /\ \A i \in Abutting(o, d, l) : Along(o, d)[1] <= i[1] /\ i[2] <= Along(o, d)[2]
<1> DEFINE clamp(q) == << Later(Along(q, d)[1], Along(o, d)[1]),
                          Sooner(Along(q, d)[2], Along(o, d)[2]) >>
           sharing == {p \in Visible(l) \ {o} : SharesBoundary(o, p, d)}
           all == {clamp(q) : q \in sharing}
<1>1. Abutting(o, d, l) = {i \in all : i[1] < i[2]}
  BY DEF Abutting
<1>2. IsFiniteSet(all)
  <2>1. sharing \in SUBSET l
    BY DEF Visible
  <2>2. IsFiniteSet(sharing)
    BY <2>1, FS_Subset
  <2> DEFINE f == [q \in sharing |-> clamp(q)]
  <2>3. f \in Surjection(sharing, all)
    <3> HIDE DEF sharing
    <3>1. f \in [sharing -> all]
      OBVIOUS
    <3>2. \A i \in all : \E q \in sharing : f[q] = i
      OBVIOUS
    <3> QED BY <3>1, <3>2 DEF Surjection
  <2> HIDE DEF f, sharing, all
  <2> QED BY <2>2, <2>3, FS_Surjection
<1>3. o \in Rect
  BY DEF Visible
<1>4. ASSUME NEW i \in Abutting(o, d, l)
      PROVE  i \in Interval /\ Along(o, d)[1] <= i[1] /\ i[2] <= Along(o, d)[2]
  <2>1. PICK q \in sharing : i = clamp(q)
    BY <1>1, <1>4
  <2>2. q \in Rect
    BY DEF Visible
  <2>3. PICK a, b, f, t \in Int : /\ a = Along(q, d)[1] /\ b = Along(q, d)[2]
                                 /\ f = Along(o, d)[1] /\ t = Along(o, d)[2]
    BY <1>3, <2>2, Extents
  <2>4. i = <<Later(a, f), Sooner(b, t)>> /\ i[1] < i[2]
    BY <1>1, <1>4, <2>1, <2>3
  <2> QED BY <2>3, <2>4 DEF Interval, Later, Sooner
<1>5. IsFiniteSet(Abutting(o, d, l))
  <2> HIDE DEF all
  <2>1. Abutting(o, d, l) \in SUBSET all
    BY <1>1
  <2> QED BY <1>2, <2>1, FS_Subset
<1> QED BY <1>4, <1>5

LEMMA CoveredLevel ==
  ASSUME NEW l \in SUBSET Rect, NEW o \in Visible(l), NEW d \in Directions,
         NEW k \in Int, Along(o, d)[1] <= k, k < Along(o, d)[2]
  PROVE  (\E i \in Abutting(o, d, l) : i[1] <= k /\ k < i[2]) <=>
             \E q \in Visible(l) \ {o} : /\ SharesBoundary(o, q, d)
                                        /\ Along(q, d)[1] <= k /\ k < Along(q, d)[2]
<1> DEFINE clamp(q) == << Later(Along(q, d)[1], Along(o, d)[1]),
                          Sooner(Along(q, d)[2], Along(o, d)[2]) >>
           sharing == {p \in Visible(l) \ {o} : SharesBoundary(o, p, d)}
<1>1. Abutting(o, d, l) = {i \in {clamp(q) : q \in sharing} : i[1] < i[2]}
  BY DEF Abutting
<1>2. o \in Rect /\ \A q \in sharing : q \in Rect
  BY DEF Visible
<1>3. ASSUME NEW q \in sharing
      PROVE  /\ Along(q, d)[1] <= k /\ k < Along(q, d)[2] <=>
                   clamp(q)[1] <= k /\ k < clamp(q)[2]
             /\ clamp(q)[1] <= k /\ k < clamp(q)[2] => clamp(q)[1] < clamp(q)[2]
  <2>1. PICK a, b, f, t \in Int : /\ a = Along(q, d)[1] /\ b = Along(q, d)[2]
                                 /\ f = Along(o, d)[1] /\ t = Along(o, d)[2]
    BY <1>2, Extents
  <2>2. f <= k /\ k < t
    BY <2>1
  <2>3. clamp(q)[1] = Later(a, f) /\ clamp(q)[2] = Sooner(b, t)
    BY <2>1
  <2> HIDE DEF clamp
  <2> QED BY <2>1, <2>2, <2>3 DEF Later, Sooner
<1> HIDE DEF clamp
<1> QED BY <1>1, <1>3

\* A pixel is exposed exactly if no interval has it.
LEMMA ExposedPixel ==
  ASSUME NEW l \in SUBSET Rect, Disjoint(l), NEW o \in Visible(l), NEW d \in Directions,
         NEW k \in Int, Along(o, d)[1] <= k, k < Along(o, d)[2]
  PROVE  PixelExposed(o, d, k, l) <=> ~\E i \in Abutting(o, d, l) : i[1] <= k /\ k < i[2]
<1>1. \A q \in l \ {o} :
        (\E n \in 1 .. (1 + Tolerance) : Covers(q, EdgePixel(o, d, k, n))) <=>
             /\ q \in Visible(l) /\ SharesBoundary(o, q, d)
             /\ Along(q, d)[1] <= k /\ k < Along(q, d)[2]
  BY BeyondIsBoundary
<1>2. Visible(l) \subseteq l
  BY DEF Visible
<1>3. PixelExposed(o, d, k, l) <=>
        ~\E q \in Visible(l) \ {o} : /\ SharesBoundary(o, q, d)
                                    /\ Along(q, d)[1] <= k /\ k < Along(q, d)[2]
  BY <1>1, <1>2 DEF PixelExposed
<1> QED BY <1>3, CoveredLevel

\* The gap around a place that no interval has, and the run of such places.
Ends(to, S, t) == t = to \/ \E i \in S : i[1] = t
Bare(S, k) == ~\E i \in S : i[1] <= k /\ k < i[2]

LEMMA GapAround ==
  ASSUME NEW from \in Int, NEW to \in Int, NEW S \in SUBSET Interval,
         NEW k \in Int, from <= k, k < to, Bare(S, k)
  PROVE  \E f, t \in Int : /\ f <= k /\ k < t
                           /\ Free(S, f, t) /\ Starts(from, S, f) /\ Ends(to, S, t)
<1> DEFINE N == {n \in Nat : Starts(from, S, k - n)}
           M == {n \in Nat : Ends(to, S, k + 1 + n)}
<1>1. \A i \in S : i[1] \in Int /\ i[2] \in Int /\ i[1] < i[2]
  BY IntervalParts
<1>2. PICK n \in N : \A m \in N : n <= m
  <2>1. k - from \in Nat /\ k - (k - from) = from
    OBVIOUS
  <2>2. k - from \in N
    BY <2>1 DEF Starts
  <2>3. N \subseteq Nat
    OBVIOUS
  <2> HIDE DEF N
  <2> QED BY <2>2, <2>3, LeastNumber
<1>3. PICK m \in M : \A x \in M : m <= x
  <2>1. to - k - 1 \in Nat /\ k + 1 + (to - k - 1) = to
    OBVIOUS
  <2>2. to - k - 1 \in M
    BY <2>1 DEF Ends
  <2>3. M \subseteq Nat
    OBVIOUS
  <2> HIDE DEF M
  <2> QED BY <2>2, <2>3, LeastNumber
<1>4. PICK f \in Int : f = k - n /\ f <= k /\ Starts(from, S, f)
  BY <1>2
<1>5. PICK t \in Int : t = k + 1 + m /\ k < t /\ Ends(to, S, t)
  BY <1>3
<1>6. ASSUME NEW i \in S PROVE i[2] <= f \/ t <= i[1]
  <2>1. CASE i[2] <= k
    <3>1. k - i[2] \in Nat /\ k - (k - i[2]) = i[2]
      BY <1>1, <2>1
    <3>2. k - i[2] \in N
      BY <3>1 DEF Starts
    <3>3. n <= k - i[2] /\ n \in Nat
      <4> HIDE DEF N
      <4>1. n <= k - i[2]
        BY <1>2, <3>2
      <4>2. n \in Nat
        BY <1>2 DEF N
      <4> QED BY <4>1, <4>2
    <3> QED BY <1>1, <1>4, <3>3
  <2>2. CASE ~(i[2] <= k)
    <3>1. i[1] - k - 1 \in Nat /\ k + 1 + (i[1] - k - 1) = i[1]
      BY <1>1, <2>2 DEF Bare
    <3>2. i[1] - k - 1 \in M
      BY <3>1 DEF Ends
    <3>3. m <= i[1] - k - 1 /\ m \in Nat
      <4> HIDE DEF M
      <4>1. m <= i[1] - k - 1
        BY <1>3, <3>2
      <4>2. m \in Nat
        BY <1>3 DEF M
      <4> QED BY <4>1, <4>2
    <3> QED BY <1>1, <1>5, <3>3
  <2> QED BY <2>1, <2>2
<1>7. Free(S, f, t)
  BY <1>4, <1>5, <1>6 DEF Free
<1> QED BY <1>4, <1>5, <1>7

InGap(from, to, S, exposed, f, t, k) ==
    /\ from \in Int /\ to \in Int /\ S \in SUBSET Interval
    /\ \A i \in S : from <= i[1] /\ i[2] <= to
    /\ \A x : x \in exposed <=> x \in from .. (to - 1) /\ Bare(S, x)
    /\ f \in Int /\ t \in Int /\ Free(S, f, t) /\ Starts(from, S, f) /\ Ends(to, S, t)
    /\ k \in Int /\ f <= k /\ k < t
LEMMA GapIsRun ==
  ASSUME NEW from, NEW to, NEW S, NEW exposed, NEW f, NEW t, NEW k,
         InGap(from, to, S, exposed, f, t, k)
  PROVE  /\ k \in exposed
         /\ \A j : j \in exposed /\ Sooner(j, k) .. Later(j, k) \subseteq exposed <=> j \in f .. (t - 1)
<1>0. /\ from \in Int /\ to \in Int /\ S \in SUBSET Interval /\ f \in Int /\ t \in Int
      /\ k \in Int /\ f <= k /\ k < t
      /\ Free(S, f, t) /\ Starts(from, S, f) /\ Ends(to, S, t)
      /\ \A i \in S : from <= i[1] /\ i[2] <= to
      /\ \A x : x \in exposed <=> x \in from .. (to - 1) /\ Bare(S, x)
  BY DEF InGap
<1>1. \A i \in S : i[1] \in Int /\ i[2] \in Int /\ i[1] < i[2] /\ from <= i[1] /\ i[2] <= to
  BY <1>0, IntervalParts
<1>2. from <= f /\ t <= to
  BY <1>0, <1>1 DEF Starts, Ends
<1>3. ASSUME NEW p \in Int, f <= p, p < t PROVE p \in exposed
  <2>1. p \in from .. (to - 1)
    BY <1>0, <1>2, <1>3
  <2>2. Bare(S, p)
    BY <1>0, <1>1, <1>3 DEF Bare, Free
  <2> QED BY <1>0, <2>1, <2>2
<1>4. ASSUME NEW j \in f .. (t - 1)
      PROVE  j \in exposed /\ Sooner(j, k) .. Later(j, k) \subseteq exposed
  <2>1. j \in Int /\ f <= j /\ j < t
    BY <1>0
  <2>2. Sooner(j, k) \in Int /\ Later(j, k) \in Int /\ f <= Sooner(j, k) /\ Later(j, k) < t
    BY <1>0, <2>1 DEF Sooner, Later
  <2>3. \A p \in Sooner(j, k) .. Later(j, k) : p \in Int /\ f <= p /\ p < t
    BY <1>0, <2>2
  <2> QED BY <1>3, <2>1, <2>3
<1>5. ASSUME NEW j \in exposed, Sooner(j, k) .. Later(j, k) \subseteq exposed
      PROVE  j \in f .. (t - 1)
  <2>1. j \in Int /\ from <= j /\ j <= to - 1
    BY <1>0
  <2>2. CASE j < f
    <3>1. Sooner(j, k) = j /\ Later(j, k) = k
      BY <1>0, <2>1, <2>2 DEF Sooner, Later
    <3>2. f - 1 \in exposed
      BY <1>0, <1>5, <2>1, <2>2, <3>1
    <3>3. Bare(S, f - 1)
      BY <1>0, <3>2
    <3> QED BY <1>0, <1>1, <2>1, <2>2, <3>3 DEF Starts, Bare
  <2>3. CASE t <= j
    <3>1. Sooner(j, k) = k /\ Later(j, k) = j
      BY <1>0, <2>1, <2>3 DEF Sooner, Later
    <3>2. t \in exposed
      BY <1>0, <1>5, <2>1, <2>3, <3>1
    <3>3. Bare(S, t)
      BY <1>0, <3>2
    <3> QED BY <1>0, <1>1, <2>1, <2>3, <3>3 DEF Ends, Bare
  <2> QED BY <1>0, <2>1, <2>2, <2>3
<1> QED BY <1>0, <1>3, <1>4, <1>5

\* Trimming both ends of a run, computed or counted in places.
LEMMA TrimParts ==
  ASSUME NEW f \in Int, NEW t \in Int, f < t,
         NEW x, x = ((t - f) * CornerTrimPercent) \div 100
  PROVE  x \in Nat /\ TrimCorners(<<f, t>>) = <<f + x, t - x>>
<1>1. x \in Nat
  BY DEF CornerTrimPercent
<1>2. TrimCorners(<<f, t>>) = <<f + x, t - x>>
  BY DEF TrimCorners
<1> QED BY <1>1, <1>2

Around(f, t, k, s, x, L, R) ==
    /\ f \in Int /\ t \in Int /\ k \in Int /\ f <= k /\ k < t
    /\ s = f .. (t - 1) /\ x = (Cardinality(s) * CornerTrimPercent) \div 100
    /\ \A j : j \in L <=> j \in s /\ j < k
    /\ \A j : j \in R <=> j \in s /\ j > k
LEMMA TrimIsCount ==
  ASSUME NEW f, NEW t, NEW k, NEW s, NEW x, NEW L, NEW R, Around(f, t, k, s, x, L, R)
  PROVE  /\ x \in Nat /\ TrimCorners(<<f, t>>) = <<f + x, t - x>>
         /\ Cardinality(L) >= x <=> f + x <= k
         /\ Cardinality(R) >= x <=> k < t - x
<1>0. /\ f \in Int /\ t \in Int /\ k \in Int /\ f <= k /\ k < t /\ f < t
      /\ s = f .. (t - 1) /\ x = (Cardinality(s) * CornerTrimPercent) \div 100
      /\ \A j : j \in L <=> j \in s /\ j < k
      /\ \A j : j \in R <=> j \in s /\ j > k
  BY DEF Around
<1>1. Cardinality(s) = t - f
  BY <1>0, FS_Interval
<1>2. x \in Nat /\ TrimCorners(<<f, t>>) = <<f + x, t - x>>
  BY <1>0, <1>1, TrimParts
<1>3. PICK k1, k2, t1 \in Int : k1 = k - 1 /\ k2 = k + 1 /\ t1 = t - 1
  BY <1>0
<1>4. L = f .. k1 /\ R = k2 .. t1
  <2>1. ASSUME NEW j PROVE j \in L <=> j \in f .. k1
    <3>1. j \in s <=> j \in Int /\ f <= j /\ j <= t - 1
      BY <1>0
    <3> QED BY <1>0, <1>3, <3>1
  <2>2. ASSUME NEW j PROVE j \in R <=> j \in k2 .. t1
    <3>1. j \in s <=> j \in Int /\ f <= j /\ j <= t - 1
      BY <1>0
    <3> QED BY <1>0, <1>3, <3>1
  <2>3. L = f .. k1
    BY <2>1, Zenon
  <2>4. R = k2 .. t1
    BY <2>2, Zenon
  <2> QED BY <2>3, <2>4
<1>5. Cardinality(f .. k1) = IF f > k1 THEN 0 ELSE k1 - f + 1
  BY <1>0, <1>3, FS_Interval
<1>6. Cardinality(k2 .. t1) = IF k2 > t1 THEN 0 ELSE t1 - k2 + 1
  BY <1>0, <1>3, FS_Interval
<1>7. Cardinality(f .. k1) = k - f /\ Cardinality(k2 .. t1) = t - 1 - k
  BY <1>0, <1>3, <1>5, <1>6
<1>8. Cardinality(L) = k - f /\ Cardinality(R) = t - 1 - k
  BY <1>4, <1>7
<1>9. Cardinality(L) >= x <=> f + x <= k
  BY <1>0, <1>2, <1>8
<1>10. Cardinality(R) >= x <=> k < t - x
  BY <1>0, <1>2, <1>8
<1> QED BY <1>2, <1>4, <1>9, <1>10

\* Every segment is a pair of coordinates.
LEMMA SegmentsArePairs ==
  ASSUME NEW from \in Int, NEW to \in Int, NEW S \in SUBSET Interval, IsFiniteSet(S),
         \A i \in S : from <= i[1] /\ i[2] <= to,
         NEW s \in Push(Sweep(from, S)[S].segments, Sweep(from, S)[S].cursor, to)
  PROVE  \E f, t \in Int : s = <<f, t>>
<1>1. PICK w : w = Sweep(from, S)[S]
  OBVIOUS
<1>2. Swept(from, S, w)
  BY <1>1, SweepGaps
<1>3. s \in w.segments \/ s = <<w.cursor, to>>
  BY <1>1 DEF Push
<1>4. w.cursor \in Int /\ w.segments \subseteq Int \X Int
  BY <1>2 DEF Swept, Reached
<1>5. CASE s \in w.segments
  <2>1. s \in Int \X Int
    BY <1>4, <1>5
  <2>2. s[1] \in Int /\ s[2] \in Int /\ s = <<s[1], s[2]>>
    BY <2>1
  <2> QED BY <2>2
<1> QED BY <1>3, <1>4, <1>5

\* A pixel of an edge is on its line, so a zone has it if its range does.
LEMMA ZoneOfEdge ==
  ASSUME NEW o \in Rect, NEW d \in Directions, NEW k \in Int, NEW f \in Int, NEW t \in Int,
         NEW z, z = [direction |-> d, edge |-> EdgeLine(o, d), range |-> <<f, t>>, output |-> o]
  PROVE  ZoneContains(z, EdgePixel(o, d, k, 0)) <=> f <= k /\ k < t
<1>1. PICK e \in Int : e = EdgeLine(o, d)
  BY Extents DEF EdgeLine
<1>2. PICK p : p = EdgePixel(o, d, k, 0)
  OBVIOUS
<1>3. p = IF Upright(d) THEN <<e, k>> ELSE <<k, e>>
  BY <1>1, <1>2, Extents DEF EdgePixel, EdgeLine
<1>4. z.direction = d /\ z.edge = e /\ z.range[1] = f /\ z.range[2] = t
  BY <1>1
<1> QED BY <1>2, <1>3, <1>4, <1>1 DEF ZoneContains

\* exposed_segments, trim_corner_dead_zones and edge_zones together: of any
\* finite layout without overlaps the zones are, pixel for pixel, what is
\* exposed of the outputs' edges, without the corners.
THEOREM Outline ==
  ASSUME NEW l \in SUBSET Rect, IsFiniteSet(l), Disjoint(l)
  PROVE  OutlineExact(l)
<1> SUFFICES ASSUME NEW o \in Visible(l), NEW d \in Directions,
                    NEW k \in Along(o, d)[1] .. (Along(o, d)[2] - 1)
             PROVE  LET pixels == Along(o, d)[1]..(Along(o, d)[2] - 1)
                        exposed == {x \in pixels : PixelExposed(o, d, x, l)}
                        stretch(x) == {j \in exposed : Sooner(j, x)..Later(j, x) \subseteq exposed}
                        inner(x) == LET s == stretch(x)
                                        ends == (Cardinality(s) * CornerTrimPercent) \div 100
                                    IN  /\ Cardinality({j \in s : j < x}) >= ends
                                        /\ Cardinality({j \in s : j > x}) >= ends
                        zones == {z \in EdgeZones(Directions, l) : z.output = o /\ z.direction = d}
                    IN  (\E z \in zones : ZoneContains(z, EdgePixel(o, d, k, 0)))
                                 <=> (k \in exposed /\ inner(k))
  BY DEF OutlineExact
<1>1. o \in Rect
  BY DEF Visible
<1>2. PICK from, to \in Int : from = Along(o, d)[1] /\ to = Along(o, d)[2]
  BY <1>1, Extents
<1>3. PICK S \in SUBSET Interval : S = Abutting(o, d, l)
  BY AbuttingParts
<1>4. IsFiniteSet(S) /\ \A i \in S : from <= i[1] /\ i[2] <= to
  BY <1>2, <1>3, AbuttingParts
<1>5. PICK exposed : exposed = {x \in from .. (to - 1) : PixelExposed(o, d, x, l)}
  OBVIOUS
<1>6. PICK stretch : stretch = {j \in exposed : Sooner(j, k) .. Later(j, k) \subseteq exposed}
  OBVIOUS
<1>7. PICK trim : trim = (Cardinality(stretch) * CornerTrimPercent) \div 100
  OBVIOUS
<1>7a. PICK L, R : L = {j \in stretch : j < k} /\ R = {j \in stretch : j > k}
  OBVIOUS
<1> DEFINE inner == Cardinality(L) >= trim /\ Cardinality(R) >= trim
           Segment(f, t) == Free(S, f, t) /\ Starts(from, S, f) /\ Ends(to, S, t)
           ZoneOf(s) == [direction |-> d, edge |-> EdgeLine(o, d), range |-> TrimCorners(s), output |-> o]
<1>8. PICK segments : segments = ExposedSegments(o, d, l)
  OBVIOUS
<1>9. PICK zones : zones = {z \in EdgeZones(Directions, l) : z.output = o /\ z.direction = d}
  OBVIOUS
<1>10. exposed = {x \in from .. (to - 1) : Bare(S, x)}
  <2>1. ASSUME NEW x \in from .. (to - 1) PROVE PixelExposed(o, d, x, l) <=> Bare(S, x)
    <3>1. x \in Int /\ Along(o, d)[1] <= x /\ x < Along(o, d)[2]
      BY <1>2
    <3> QED BY <1>3, <3>1, ExposedPixel DEF Bare
  <2> QED BY <1>5, <2>1
<1>11. segments = Push(Sweep(from, S)[S].segments, Sweep(from, S)[S].cursor, to)
  BY <1>2, <1>3, <1>8 DEF ExposedSegments
<1>12. ASSUME NEW f \in Int, NEW t \in Int
       PROVE  <<f, t>> \in segments <=> Segment(f, t)
  <2>1. <<f, t>> \in Push(Sweep(from, S)[S].segments, Sweep(from, S)[S].cursor, to) <=>
             Free(S, f, t) /\ Starts(from, S, f) /\ (t = to \/ \E i \in S : i[1] = t)
    <3>1. IsFiniteSet(S)
      BY <1>4
    <3>2. \A i \in S : from <= i[1] /\ i[2] <= to
      BY <1>4
    <3> HIDE DEF Segment, ZoneOf, inner
    <3> QED BY <3>1, <3>2, SegmentsAreGaps
  <2> QED BY <1>11, <2>1 DEF Ends
<1>13. \A s \in segments : \E f, t \in Int : s = <<f, t>>
  BY <1>4, <1>11, SegmentsArePairs
<1>14. ASSUME NEW s \in segments, TrimCorners(s)[1] < TrimCorners(s)[2]
       PROVE  ZoneOf(s) \in zones
  <2>1. s \in {e \in ExposedSegments(o, d, l) : TrimCorners(e)[1] < TrimCorners(e)[2]}
    BY <1>8, <1>14
  <2>2. ZoneOf(s) \in ZonesOf(o, d, l)
    BY <2>1 DEF ZonesOf
  <2>3. ZoneOf(s) \in EdgeZones(Directions, l)
    <3> HIDE DEF ZoneOf
    <3>1. PICK Z : Z = ZonesOf(o, d, l)
      OBVIOUS
    <3>2. Z \in {ZonesOf(q, e, l) : e \in Directions, q \in Visible(l)}
      BY <3>1
    <3> QED BY <2>2, <3>1, <3>2 DEF EdgeZones
  <2> QED BY <1>9, <2>3
<1>15. ASSUME NEW z \in zones
       PROVE  \E s \in segments : z = ZoneOf(s)
  <2>1. z \in EdgeZones(Directions, l) /\ z.output = o /\ z.direction = d
    BY <1>9
  <2>2. PICK d1 \in Directions, o1 \in Visible(l) : z \in ZonesOf(o1, d1, l)
    BY <2>1 DEF EdgeZones
  <2>3. PICK s \in ExposedSegments(o1, d1, l) :
          z = [direction |-> d1, edge |-> EdgeLine(o1, d1), range |-> TrimCorners(s), output |-> o1]
    BY <2>2 DEF ZonesOf
  <2>4. z.direction = d1 /\ z.output = o1
    BY <2>3
  <2> QED BY <1>8, <2>1, <2>3, <2>4
<1>16. ASSUME NEW f \in Int, NEW t \in Int, Segment(f, t), f <= k, k < t
       PROVE  /\ k \in exposed
              /\ TrimCorners(<<f, t>>) = <<f + trim, t - trim>> /\ trim \in Nat
              /\ inner <=> f + trim <= k /\ k < t - trim
  <2>1. k \in Int
    BY <1>2
  <2>2. Free(S, f, t) /\ Starts(from, S, f) /\ Ends(to, S, t)
    BY <1>16
  <2>3. /\ k \in exposed
        /\ \A j : j \in exposed /\ Sooner(j, k) .. Later(j, k) \subseteq exposed <=> j \in f .. (t - 1)
    <3>1. \A i \in S : from <= i[1] /\ i[2] <= to
      BY <1>4
    <3>2. \A x : x \in exposed <=> x \in from .. (to - 1) /\ Bare(S, x)
      BY <1>10
    <3>3. f <= k /\ k < t
      BY <1>16
    <3> HIDE DEF Segment, ZoneOf, inner
    <3>4. InGap(from, to, S, exposed, f, t, k)
      BY <1>2, <1>3, <2>1, <2>2, <3>1, <3>2, <3>3 DEF InGap
    <3> QED BY <3>4, GapIsRun
  <2>4. stretch = f .. (t - 1)
    BY <1>6, <2>3
  <2>5. f < t
    BY <1>16, <2>1
  <2>6. /\ trim \in Nat /\ TrimCorners(<<f, t>>) = <<f + trim, t - trim>>
        /\ Cardinality(L) >= trim <=> f + trim <= k
        /\ Cardinality(R) >= trim <=> k < t - trim
    <3>1. \A j : j \in L <=> j \in stretch /\ j < k
      BY <1>7a
    <3>2. \A j : j \in R <=> j \in stretch /\ j > k
      BY <1>7a
    <3>3. f <= k /\ k < t
      BY <1>16
    <3> HIDE DEF Segment, ZoneOf, inner
    <3>4. Around(f, t, k, stretch, trim, L, R)
      BY <1>7, <2>1, <2>4, <3>1, <3>2, <3>3 DEF Around
    <3> QED BY <3>4, TrimIsCount
  <2> QED BY <2>3, <2>6
<1>17. ASSUME NEW f \in Int, NEW t \in Int, NEW x \in Nat, TrimCorners(<<f, t>>) = <<f + x, t - x>>
       PROVE  ZoneContains(ZoneOf(<<f, t>>), EdgePixel(o, d, k, 0)) <=> f + x <= k /\ k < t - x
  <2>1. k \in Int /\ f + x \in Int /\ t - x \in Int
    BY <1>2
  <2>2. PICK f1, t1 \in Int : f1 = f + x /\ t1 = t - x
    BY <2>1
  <2>3. PICK z : z = ZoneOf(<<f, t>>)
    OBVIOUS
  <2>4. z = [direction |-> d, edge |-> EdgeLine(o, d), range |-> <<f1, t1>>, output |-> o]
    BY <1>17, <2>2, <2>3
  <2>5. ZoneContains(z, EdgePixel(o, d, k, 0)) <=> f1 <= k /\ k < t1
    BY <1>1, <2>1, <2>4, ZoneOfEdge
  <2> QED BY <2>2, <2>3, <2>5
<1> HIDE DEF inner, ZoneOf
<1>18. ASSUME NEW z \in zones, ZoneContains(z, EdgePixel(o, d, k, 0))
       PROVE  k \in exposed /\ inner
  <2>1. PICK s \in segments : z = ZoneOf(s)
    BY <1>15
  <2>2. PICK f, t \in Int : s = <<f, t>>
    BY <1>13
  <2>3. Segment(f, t)
    BY <1>12, <2>1, <2>2
  <2>4. f < t
    BY <2>3 DEF Free
  <2>5. PICK x \in Nat : TrimCorners(<<f, t>>) = <<f + x, t - x>>
    <3>1. PICK x : x = ((t - f) * CornerTrimPercent) \div 100
      OBVIOUS
    <3> QED BY <2>4, <3>1, TrimParts
  <2>6. f + x <= k /\ k < t - x
    BY <1>17, <1>18, <2>1, <2>2, <2>5
  <2>7. f <= k /\ k < t /\ k \in Int
    BY <1>2, <2>6
  <2>8. /\ k \in exposed
        /\ TrimCorners(<<f, t>>) = <<f + trim, t - trim>> /\ trim \in Nat
        /\ inner <=> f + trim <= k /\ k < t - trim
    BY <1>16, <2>3, <2>7
  <2>9. f + trim = f + x /\ t - trim = t - x
    BY <2>5, <2>8
  <2> QED BY <2>6, <2>8, <2>9
<1>19. ASSUME k \in exposed, inner
       PROVE  \E z \in zones : ZoneContains(z, EdgePixel(o, d, k, 0))
  <2>1. k \in Int /\ from <= k /\ k < to /\ Bare(S, k)
    BY <1>2, <1>10, <1>19
  <2>2. PICK f, t \in Int : f <= k /\ k < t /\ Segment(f, t)
    BY <2>1, GapAround
  <2>3. /\ TrimCorners(<<f, t>>) = <<f + trim, t - trim>> /\ trim \in Nat
        /\ f + trim <= k /\ k < t - trim
    BY <1>16, <1>19, <2>2
  <2>4. ZoneContains(ZoneOf(<<f, t>>), EdgePixel(o, d, k, 0))
    BY <1>17, <2>3
  <2>5. TrimCorners(<<f, t>>)[1] < TrimCorners(<<f, t>>)[2]
    BY <2>1, <2>3
  <2>6. <<f, t>> \in segments
    BY <1>12, <2>2
  <2>7. ZoneOf(<<f, t>>) \in zones
    BY <1>14, <2>5, <2>6
  <2> QED BY <2>4, <2>7
<1>20. (\E z \in zones : ZoneContains(z, EdgePixel(o, d, k, 0))) <=> (k \in exposed /\ inner)
  BY <1>18, <1>19
<1> QED BY <1>2, <1>5, <1>6, <1>7, <1>7a, <1>9, <1>20 DEF inner

-----------------------------------------------------------------------------
(* Every layout is of the kind the outline is exact for.                   *)

LEMMA RoundedInt ==
  ASSUME NEW n \in Int, NEW percent \in Int
  PROVE  Rounded(n, percent) \in Int
<1>1. CASE percent <= 0
  BY <1>1 DEF Rounded
<1>2. CASE percent > 0
  <2>1. PICK a, b \in Int : a = 2 * 100 * n + percent /\ b = 2 * percent /\ b > 0
    BY <1>2
  <2>2. a \div b \in Int
    BY <2>1
  <2> QED BY <1>2, <2>1, <2>2 DEF Rounded
<1> QED BY <1>1, <1>2

LEMMA LayoutsAreRects ==
  ASSUME NEW monitors \in SUBSET Monitors, IsFiniteSet(monitors)
  PROVE  LogicalLayout(monitors) \in SUBSET Rect /\ IsFiniteSet(LogicalLayout(monitors))
<1>1. ASSUME NEW m \in monitors PROVE LogicalOutput(m) \in Rect
  <2>1. /\ m.x \in Int /\ m.y \in Int /\ m.width \in Int /\ m.height \in Int /\ m.scale \in Int
    BY DEF Monitors
  <2>2. PICK w, h \in Int : /\ w = IF m.transform % 2 = 1 THEN m.height ELSE m.width
                            /\ h = IF m.transform % 2 = 1 THEN m.width ELSE m.height
    BY <2>1
  <2>3. Rounded(w, m.scale) \in Int /\ Rounded(h, m.scale) \in Int
    BY <2>1, <2>2, RoundedInt
  <2>4. LogicalOutput(m) = [x |-> m.x, y |-> m.y, width |-> Rounded(w, m.scale),
                            height |-> Rounded(h, m.scale)]
    BY <2>2 DEF LogicalOutput
  <2> QED BY <2>1, <2>3, <2>4 DEF Rect
<1>2. PICK enabled : enabled = {n \in monitors : ~n.disabled}
  OBVIOUS
<1>3. IsFiniteSet(enabled) /\ enabled \subseteq monitors
  BY <1>2, FS_Subset
<1>4. LogicalLayout(monitors) = {LogicalOutput(m) : m \in enabled}
  BY <1>2 DEF LogicalLayout
<1>5. IsFiniteSet({LogicalOutput(m) : m \in enabled})
  <2> DEFINE image == [m \in enabled |-> LogicalOutput(m)]
             T == {LogicalOutput(m) : m \in enabled}
  <2>1. image \in Surjection(enabled, T)
    BY DEF Surjection
  <2> HIDE DEF image, T
  <2>2. IsFiniteSet(T)
    BY <1>3, <2>1, FS_Surjection
  <2> QED BY <2>2 DEF T
<1> QED BY <1>1, <1>3, <1>4, <1>5

\* The manager's state is consistent, and its zones are the exposed outline
\* of its monitors, corners trimmed, pixel by pixel, if no monitor lies over
\* another one.
THEOREM ZonesRight == DisjointScreens => (Spec => []EdgeInv)
<1> SUFFICES ASSUME DisjointScreens
             PROVE  Spec => []EdgeInv
  OBVIOUS
<1>1. IInv /\ Holds => EdgeInv
  <2> SUFFICES ASSUME IInv, Holds
               PROVE  EdgeInv
    OBVIOUS
  <2>1. setting \in Settings /\ layout \in {LogicalLayout(m) : m \in setting.screens}
    BY DEF Holds, Place, Layouts
  <2>2. PICK m \in setting.screens : layout = LogicalLayout(m)
    BY <2>1
  <2>3. m \subseteq Monitors /\ IsFiniteSet(m) /\ Disjoint(layout)
    BY <2>1, <2>2, ScreensAssumption DEF DisjointScreens
  <2>4. layout \in SUBSET Rect /\ IsFiniteSet(layout)
    BY <2>2, <2>3, LayoutsAreRects
  <2>5. OutlineExact(layout)
    BY <2>3, <2>4, Outline
  <2> QED BY <2>5, TypeFollows DEF EdgeInv, ZonesAreOutline
<1>2. Init => Holds
  BY InitHolds
<1>3. Holds /\ [Next]_vars => Holds'
  BY NextHolds
<1> QED BY <1>1, <1>2, <1>3, Invariance, PTL DEF Spec

=============================================================================
