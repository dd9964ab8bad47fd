----------------------------- MODULE LinkProofs -----------------------------
(***************************************************************************)
(* Proofs about LinkFidelity, for any clients, samples, frame sizes, sleep *)
(* and cooldown: tiers are earned and paced for, the user is not left with *)
(* a wrong picture of the link for a whole cooldown, and the queues below  *)
(* the bulk stream stay short.                                             *)
(*                                                                         *)
(* The queues hold no more than the writer still has to wait for: the rest *)
(* of its sleep, or the debt that idle time has not paid off.  A debt that *)
(* reaches MIN_SLEEP is slept off at once.                                 *)
(***************************************************************************)
EXTENDS LinkFidelity, TLAPS

\* Who has a connection: clients on the server, the own end on a client.
Sides == joined \subseteq IF OnServer THEN Client ELSE {Own}

\* What the program's start leaves to choose.
Started == mode.throttle \in {Adaptive, Unthrottled, 4}

\* The tier, its streak and the rate of an end, from what it has earned.
Judgement == [good : 0 .. PromoteSamples, close : BOOLEAN]
Fair(e) ==
    /\ cell[e] = Effective(tracker[e].tier)
    /\ tracker[e].streak = earned[e].good
    /\ tracker[e].tier = "proximity" <=> earned[e].close
AllFair == earned \in [End -> Judgement] /\ \A e \in End : Fair(e)

\* A wrong picture is younger than the notification that made it.
Surfacing ==
    /\ unsaid \in Nat /\ unsaid < NotifyCooldown
    /\ monitor.since = None => unsaid = 0
    /\ monitor.since # None => unsaid <= monitor.since

\* What the writer has charged and not waited for.
Owed(w) == IF w.idle >= w.debt THEN 0 ELSE w.debt - w.idle
Pacing ==
    /\ backlog <= writer.sleep + Owed(writer)
    /\ writer.sleep > 0 => writer.debt = 0
    /\ mode.throttle = Unthrottled => backlog = 0

IInv == TypeOK /\ Sides /\ Started /\ AllFair /\ Surfacing /\ Pacing

-----------------------------------------------------------------------------
(* Data.                                                                   *)

\* The smaller of two numbers.
LEMMA MinOfTwo ==
  ASSUME NEW a \in Nat, NEW b \in Nat
  PROVE  Min({a, b}) = IF a <= b THEN a ELSE b
<1> DEFINE m == IF a <= b THEN a ELSE b
<1>1. m \in {a, b} /\ \A y \in {a, b} : m =< y
  OBVIOUS
<1>2. \A x \in {a, b} : (\A y \in {a, b} : x =< y) => x = m
  OBVIOUS
<1> HIDE DEF m
<1>3. Min({a, b}) \in {a, b} /\ \A y \in {a, b} : Min({a, b}) =< y
  BY <1>1 DEF Min
<1>4. Min({a, b}) = m
  BY <1>2, <1>3
<1> QED
  BY <1>4 DEF m

\* None of the constants that stand for something else is a client or a number.
LEMMA Apart ==
  /\ Own \notin Client /\ Home \notin Client
  /\ None \notin Nat /\ Adaptive \notin Nat
  /\ NotifyCooldown \in Nat \ {0} /\ MinSleep \in Nat \ {0} /\ Frame \subseteq Nat \ {0}
  BY FidelityAssumption

\* A verdict is one of three grades.
LEMMA VerdictGrade ==
  ASSUME NEW sighting
  PROVE  Verdict(sighting) \in Grade
  BY DEF Verdict, Grade

\* sample and the history of what it has seen go together.
LEMMA SampleEarns ==
  ASSUME NEW quality \in [tier : Tier, streak : 0 .. PromoteSamples],
         NEW history \in Judgement, NEW verdict \in Grade,
         quality.streak = history.good,
         quality.tier = "proximity" <=> history.close
  PROVE  /\ Sampled(quality, verdict) \in [tier : Tier, streak : 0 .. PromoteSamples]
         /\ Judged(history, verdict) \in Judgement
         /\ Sampled(quality, verdict).streak = Judged(history, verdict).good
         /\ Sampled(quality, verdict).tier = "proximity" <=> Judged(history, verdict).close
<1> DEFINE next == Min({quality.streak + 1, PromoteSamples})
<1>1. next = (IF quality.streak + 1 <= 3 THEN quality.streak + 1 ELSE 3)
  BY MinOfTwo DEF PromoteSamples
<1>2. next \in 0 .. PromoteSamples
  BY <1>1 DEF PromoteSamples
<1>3. Min({history.good + 1, PromoteSamples}) = next
  OBVIOUS
<1> HIDE DEF next
<1>4. CASE verdict = "good"
  <2>1. Sampled(quality, verdict) =
          [tier |-> IF next = PromoteSamples THEN "proximity" ELSE quality.tier, streak |-> next]
    BY <1>4 DEF Sampled, next
  <2>2. Judged(history, verdict) =
          [good |-> next, close |-> history.close \/ next = PromoteSamples]
    BY <1>3, <1>4 DEF Judged
  <2>3. quality.tier \in Tier /\ history.close \in BOOLEAN
    BY DEF Judgement
  <2>4. CASE next = PromoteSamples
    <3>1. Sampled(quality, verdict) = [tier |-> "proximity", streak |-> next]
      BY <2>1, <2>4
    <3>2. Judged(history, verdict) = [good |-> next, close |-> TRUE]
      BY <2>2, <2>4
    <3> QED
      BY <1>2, <3>1, <3>2 DEF Judgement, Tier
  <2>5. CASE next # PromoteSamples
    <3>1. Sampled(quality, verdict) = [tier |-> quality.tier, streak |-> next]
      BY <2>1, <2>5
    <3>2. Judged(history, verdict) = [good |-> next, close |-> history.close]
      BY <2>2, <2>3, <2>5
    <3> QED
      BY <1>2, <2>3, <3>1, <3>2 DEF Judgement, Tier
  <2> QED
    BY <2>4, <2>5
<1>5. CASE verdict = "fair"
  <2>1. Sampled(quality, verdict) = [tier |-> quality.tier, streak |-> 0]
    BY <1>5 DEF Sampled
  <2>2. Judged(history, verdict) = [good |-> 0, close |-> history.close]
    BY <1>5 DEF Judged, PromoteSamples, Judgement
  <2> QED
    BY <2>1, <2>2 DEF Judgement, Tier, PromoteSamples
<1>6. CASE verdict = "bad"
  <2>1. Sampled(quality, verdict) = [tier |-> "normal", streak |-> 0]
    BY <1>6 DEF Sampled
  <2>2. Judged(history, verdict) = [good |-> 0, close |-> FALSE]
    BY <1>6 DEF Judged
  <2> QED
    BY <2>1, <2>2 DEF Judgement, Tier, PromoteSamples
<1>7. verdict = "good" \/ verdict = "fair" \/ verdict = "bad"
  BY DEF Grade
<1> QED
  BY <1>4, <1>5, <1>6, <1>7

-----------------------------------------------------------------------------
(* What the actions have in common.                                        *)

Trackers == [End -> [tier : Tier, streak : 0 .. PromoteSamples]]

\* A rate is one of three.
LEMMA RateOfTier ==
  ASSUME Started, NEW tier
  PROVE  Effective(tier) \in Rate
  BY DEF Started, Effective, Rate, Unthrottled

\* A sample of some ends leaves every end what it has earned.
LEMMA SampleFair ==
  ASSUME IInv, NEW ends \in SUBSET End, NEW seen, Sample(ends, seen), mode' = mode
  PROVE  tracker' \in Trackers /\ cell' \in [End -> Rate] /\ AllFair'
<1>1. \A e \in End : /\ tracker[e] \in [tier : Tier, streak : 0 .. PromoteSamples]
                     /\ cell[e] \in Rate /\ Fair(e) /\ earned[e] \in Judgement
  BY DEF IInv, TypeOK, AllFair
<1>2. ASSUME NEW e \in End
      PROVE  /\ tracker'[e] \in [tier : Tier, streak : 0 .. PromoteSamples]
             /\ cell'[e] \in Rate /\ Fair(e)' /\ earned'[e] \in Judgement
  <2> DEFINE quality == Sampled(tracker[e], Verdict(seen[e]))
             history == Judged(earned[e], Verdict(seen[e]))
  <2>1. CASE e \in ends
    <3>1. /\ tracker'[e] = quality /\ cell'[e] = Paced(e, quality) /\ earned'[e] = history
      BY <2>1 DEF Sample
    <3>2. /\ quality \in [tier : Tier, streak : 0 .. PromoteSamples]
          /\ history \in Judgement
          /\ quality.streak = history.good
          /\ quality.tier = "proximity" <=> history.close
      BY <1>1, SampleEarns, VerdictGrade DEF Fair
    <3> HIDE DEF quality, history
    <3>3. cell'[e] = Effective(quality.tier)
      BY <1>1, <3>1 DEF Paced, Fair
    <3>4. Effective(quality.tier) \in Rate
      BY RateOfTier DEF IInv
    <3>5. cell'[e] = Effective(tracker[e].tier)'
      BY <3>1, <3>3 DEF Effective
    <3> QED
      BY <3>1, <3>2, <3>3, <3>4, <3>5 DEF Fair
  <2>2. CASE e \notin ends
    <3>1. tracker'[e] = tracker[e] /\ cell'[e] = cell[e] /\ earned'[e] = earned[e]
      BY <2>2 DEF Sample
    <3> QED
      BY <1>1, <3>1 DEF Fair, Effective
  <2> QED
    BY <2>1, <2>2
<1>3. tracker' \in Trackers /\ cell' \in [End -> Rate] /\ earned' \in [End -> Judgement]
  BY <1>2 DEF Sample, Trackers
<1> QED
  BY <1>2, <1>3 DEF AllFair

\* So does giving one end a new tracker.
LEMMA AnewFair ==
  ASSUME IInv, NEW e \in End, mode' = mode,
         tracker' = [tracker EXCEPT ![e] = NewTracker],
         cell' = [cell EXCEPT ![e] = Effective("normal")],
         earned' = [earned EXCEPT ![e] = NotJudged]
  PROVE  tracker' \in Trackers /\ cell' \in [End -> Rate] /\ AllFair'
<1>1. NewTracker \in [tier : Tier, streak : 0 .. PromoteSamples] /\ NotJudged \in Judgement
  BY DEF NewTracker, Tier, PromoteSamples, NotJudged, Judgement
<1>2. Effective("normal") \in Rate
  BY RateOfTier DEF IInv
<1>3. tracker \in Trackers /\ cell \in [End -> Rate] /\ earned \in [End -> Judgement]
  BY DEF IInv, TypeOK, Trackers, AllFair
<1>4. tracker' \in Trackers /\ cell' \in [End -> Rate] /\ earned' \in [End -> Judgement]
  BY <1>1, <1>2, <1>3 DEF Trackers
<1>5. ASSUME NEW f \in End PROVE Fair(f)'
  <2>1. CASE f = e
    <3>1. tracker'[f] = NewTracker /\ cell'[f] = Effective("normal") /\ earned'[f] = NotJudged
      BY <1>3, <2>1 DEF Trackers
    <3> QED
      BY <1>1, <3>1 DEF Fair, Effective, NewTracker, NotJudged
  <2>2. CASE f # e
    <3>1. tracker'[f] = tracker[f] /\ cell'[f] = cell[f] /\ earned'[f] = earned[f]
      BY <1>3, <2>2 DEF Trackers
    <3> QED
      BY <3>1 DEF IInv, AllFair, Fair, Effective
  <2> QED
    BY <2>1, <2>2
<1> QED
  BY <1>4, <1>5 DEF AllFair

-----------------------------------------------------------------------------
(* The server.                                                             *)

\* The parts of the invariant that the server's steps are about, given that
\* they leave the client's variables alone.
LEMMA ServerSteps ==
  ASSUME IInv, OnServer, mode' = mode, UNCHANGED client,
         joined' \subseteq Client,
         tracker' \in Trackers, cell' \in [End -> Rate], AllFair',
         current' \in joined' \cup {Home},
         mirror' = mirror \/ mirror' = ServerState(current', joined'),
         tick' \in Tier, recent' \in BOOLEAN
  PROVE  IInv'
<1>1. mirror'.clients \subseteq Client /\ mirror'.target \in mirror'.clients \cup {Home}
  BY DEF IInv, TypeOK, ServerState
<1>2. TypeOK'
  BY <1>1 DEF IInv, TypeOK, Trackers, client, End
<1>3. Sides' /\ Started'
  BY DEF IInv, Sides, Started, OnServer
<1>4. Surfacing' /\ Pacing'
  BY DEF IInv, Surfacing, Pacing, Owed, client
<1> QED
  BY <1>2, <1>3, <1>4 DEF IInv

\* What the server's steps start from.
LEMMA ServerFacts ==
  ASSUME IInv, OnServer
  PROVE  /\ joined \subseteq Client /\ Client \subseteq End
         /\ current \in joined \cup {Home}
         /\ tick \in Tier /\ recent \in BOOLEAN
         /\ tracker \in Trackers /\ cell \in [End -> Rate] /\ AllFair
  BY DEF IInv, Sides, TypeOK, Trackers, End

LEMMA AddClientStep ==
  ASSUME IInv, NEW c \in Client, AddClient(c)
  PROVE  IInv'
<1>1. /\ OnServer /\ mode' = mode /\ current' = current /\ tick' = tick /\ UNCHANGED client
      /\ joined' = joined \cup {c} /\ recent' = TRUE
      /\ mirror' = mirror \/ mirror' = ServerState(current', joined')
  BY DEF AddClient, Connected, Refreshed
<1>2. tracker' \in Trackers /\ cell' \in [End -> Rate] /\ AllFair'
  BY AnewFair, ServerFacts, <1>1 DEF AddClient, Connected
<1> QED
  BY <1>1, <1>2, ServerFacts, ServerSteps

LEMMA RemoveClientStep ==
  ASSUME IInv, NEW c \in Client, RemoveClient(c)
  PROVE  IInv'
<1>1. /\ OnServer /\ mode' = mode /\ tick' = tick /\ UNCHANGED client
      /\ joined' = joined \ {c} /\ recent' = TRUE
      /\ current' = IF current = c THEN Home ELSE current
      /\ mirror' = mirror \/ mirror' = ServerState(current', joined')
  BY DEF RemoveClient, Refreshed
<1>2. tracker' \in Trackers /\ cell' \in [End -> Rate] /\ AllFair'
  BY AnewFair, ServerFacts, <1>1 DEF RemoveClient
<1> QED
  BY <1>1, <1>2, ServerFacts, ServerSteps

LEMMA SwitchStep ==
  ASSUME IInv, NEW target \in Client \cup {Home}, Switch(target)
  PROVE  IInv'
<1>1. /\ OnServer /\ mode' = mode /\ tick' = tick /\ UNCHANGED client
      /\ UNCHANGED <<joined, tracker, cell, earned>> /\ recent' = TRUE
      /\ current' = target /\ target \in joined \cup {Home}
      /\ mirror' = mirror \/ mirror' = ServerState(current', joined')
  BY DEF Switch, Refreshed
<1>2. AllFair'
  BY <1>1, ServerFacts DEF AllFair, Fair, Effective
<1> QED
  BY <1>1, <1>2, ServerFacts, ServerSteps

LEMMA QualityTickStep ==
  ASSUME IInv, QualityTick
  PROVE  IInv'
<1>1. /\ OnServer /\ mode' = mode /\ UNCHANGED client /\ recent' = TRUE
      /\ UNCHANGED <<joined, current>>
      /\ mirror' = mirror \/ mirror' = ServerState(current', joined')
  BY DEF QualityTick, Refreshed
<1>2. tracker' \in Trackers /\ cell' \in [End -> Rate] /\ AllFair'
  <2>1. PICK seen \in [joined -> Sightings] : Sample(joined, seen)
    BY DEF QualityTick
  <2> QED
    BY <1>1, <2>1, ServerFacts, SampleFair
<1>3. FlushTier' \in Tier
  <2>1. \A e \in End : tracker'[e].tier \in Tier
    BY <1>2 DEF Trackers
  <2>2. (CurrentTier)' \in Tier
    BY <1>1, <2>1, ServerFacts DEF CurrentTier, Tier
  <2> QED
    BY <2>2 DEF FlushTier, Tier
<1>4. tick' \in Tier
  BY <1>3, <1>1, ServerFacts DEF QualityTick
<1> QED
  BY <1>1, <1>2, <1>4, ServerFacts, ServerSteps

\* A turn of the loop, and the end of the 100ms after a refresh.
LEMMA MirrorStep ==
  ASSUME IInv, OtherIteration \/ RefreshIsDue
  PROVE  IInv'
<1>1. /\ OnServer /\ mode' = mode /\ UNCHANGED client /\ recent' \in BOOLEAN
      /\ UNCHANGED <<joined, tracker, cell, earned, current, tick>>
      /\ mirror' = mirror \/ mirror' = ServerState(current', joined')
  BY DEF OtherIteration, RefreshIsDue, Refreshed
<1>2. AllFair'
  BY <1>1, ServerFacts DEF AllFair, Fair, Effective
<1> QED
  BY <1>1, <1>2, ServerFacts, ServerSteps

-----------------------------------------------------------------------------
(* A client.                                                               *)

\* The steps of a client leave the server's variables alone.
LEMMA ClientSteps ==
  ASSUME IInv, OnClient, mode' = mode, UNCHANGED server,
         joined' \subseteq {Own}, current' \in (joined' \cap Client) \cup {Home},
         tracker' \in Trackers, cell' \in [End -> Rate], AllFair',
         monitor' \in [degraded : BOOLEAN, since : {None} \cup 0 .. NotifyCooldown],
         writer'.debt \in 0 .. MinSleep - 1, writer'.idle \in 0 .. MinSleep,
         writer'.sleep \in Nat, backlog' \in Nat,
         Surfacing', Pacing'
  PROVE  IInv'
<1>1. TypeOK'
  BY DEF IInv, TypeOK, Trackers, server, End
<1>2. Sides' /\ Started'
  BY DEF IInv, Sides, Started, OnServer, OnClient
<1> QED
  BY <1>1, <1>2 DEF IInv

LEMMA ClientFacts ==
  ASSUME IInv, OnClient
  PROVE  /\ joined \subseteq {Own} /\ Own \in End
         /\ current \in (joined \cap Client) \cup {Home}
         /\ current = Home
         /\ tracker \in Trackers /\ cell \in [End -> Rate] /\ AllFair
         /\ monitor \in [degraded : BOOLEAN, since : {None} \cup 0 .. NotifyCooldown]
         /\ writer.debt \in 0 .. MinSleep - 1 /\ writer.idle \in 0 .. MinSleep
         /\ writer.sleep \in Nat /\ backlog \in Nat
         /\ Surfacing /\ Pacing
<1>1. joined \subseteq {Own}
  BY DEF IInv, Sides, OnServer, OnClient
<1> QED
  BY <1>1, Apart DEF IInv, TypeOK, Trackers, End

\* While the writer's variables stay, so does what they are bound by.
LEMMA PacingStays ==
  ASSUME IInv, UNCHANGED <<mode, writer, backlog>>
  PROVE  Pacing'
  BY DEF IInv, Pacing, Owed

\* check: the monitor stays in its type, and what is wrong with the picture
\* is younger than the last notification.
LEMMA CheckedSurfaces ==
  ASSUME IInv, OnClient, NEW verdict, monitor' = Checked(verdict),
         unsaid' = IF monitor'.degraded = (verdict = "bad") THEN 0
                     ELSE Min({unsaid + 1, NotifyCooldown + 1})
  PROVE  /\ monitor' \in [degraded : BOOLEAN, since : {None} \cup 0 .. NotifyCooldown]
         /\ Surfacing'
<1> DEFINE since == IF monitor.since = None THEN None
                    ELSE Min({monitor.since + 1, NotifyCooldown})
           changed == (verdict = "bad") # monitor.degraded
<1>1. /\ monitor \in [degraded : BOOLEAN, since : {None} \cup 0 .. NotifyCooldown]
      /\ Surfacing /\ NotifyCooldown \in Nat \ {0} /\ None \notin Nat
  BY ClientFacts, Apart
<1>2. /\ since = None <=> monitor.since = None
      /\ monitor.since # None =>
            since = IF monitor.since + 1 <= NotifyCooldown THEN monitor.since + 1
                                                           ELSE NotifyCooldown
  BY <1>1, MinOfTwo
<1>3. since \in {None} \cup 0 .. NotifyCooldown
  BY <1>1, <1>2
<1>4. Min({unsaid + 1, NotifyCooldown + 1}) = unsaid + 1
  BY <1>1, MinOfTwo DEF Surfacing
<1> HIDE DEF since
<1>5. CASE changed /\ since \in {None, NotifyCooldown}
  <2>1. monitor' = [degraded |-> verdict = "bad", since |-> 0]
    BY <1>5 DEF Checked, since
  <2>2. unsaid' = 0
    BY <2>1
  <2> QED
    BY <1>1, <2>1, <2>2 DEF Surfacing
<1>6. CASE ~(changed /\ since \in {None, NotifyCooldown})
  <2>1. monitor' = [monitor EXCEPT !.since = since]
    BY <1>6 DEF Checked, since
  <2>2. monitor'.degraded = monitor.degraded /\ monitor'.since = since
    BY <1>1, <2>1
  <2>3. monitor' \in [degraded : BOOLEAN, since : {None} \cup 0 .. NotifyCooldown]
    BY <1>1, <1>3, <2>1
  <2>4. CASE ~changed
    <3>1. unsaid' = 0
      BY <2>2, <2>4, <1>1
    <3> QED
      BY <1>1, <1>3, <2>2, <2>3, <3>1 DEF Surfacing
  <2>5. CASE changed
    <3>1. since \notin {None, NotifyCooldown}
      BY <1>6, <2>5
    <3>2. unsaid' = unsaid + 1
      BY <1>1, <1>4, <2>2, <2>5
    <3>3. monitor.since # None /\ since = monitor.since + 1 /\ since < NotifyCooldown
      BY <1>1, <1>2, <3>1
    <3> QED
      BY <1>1, <2>2, <2>3, <3>2, <3>3 DEF Surfacing
  <2> QED
    BY <2>4, <2>5
<1> QED
  BY <1>5, <1>6

LEMMA MonitorLinkStep ==
  ASSUME IInv, MonitorLink
  PROVE  IInv'
<1>1. PICK sighting \in Sightings :
        /\ Sample({Own}, [e \in {Own} |-> sighting])
        /\ monitor' = Checked(Verdict(sighting))
        /\ unsaid' = IF monitor'.degraded = (Verdict(sighting) = "bad") THEN 0
                       ELSE Min({unsaid + 1, NotifyCooldown + 1})
  BY DEF MonitorLink
<1>2. OnClient /\ UNCHANGED <<mode, joined, server, writer, backlog>>
  BY DEF MonitorLink
<1>3. tracker' \in Trackers /\ cell' \in [End -> Rate] /\ AllFair'
  BY <1>1, <1>2, ClientFacts, SampleFair
<1>4. /\ monitor' \in [degraded : BOOLEAN, since : {None} \cup 0 .. NotifyCooldown]
      /\ Surfacing'
  BY <1>1, <1>2, CheckedSurfaces
<1>5. Pacing'
  BY <1>2, PacingStays
<1>6. current' = current
  BY <1>2 DEF server
<1> QED
  BY <1>2, <1>3, <1>4, <1>5, <1>6, ClientFacts, ClientSteps

\* A frame adds its cost to the queues, and to what the writer waits for.
LEMMA ChargedPaces ==
  ASSUME IInv, OnClient, NEW len \in Frame, writer.sleep = 0,
         NEW cost \in Rate, mode.throttle = Unthrottled <=> cost = Unthrottled,
         mode' = mode,
         writer' = Charged(writer, len, cost), backlog' = backlog + len * cost
  PROVE  /\ writer'.debt \in 0 .. MinSleep - 1 /\ writer'.idle \in 0 .. MinSleep
         /\ writer'.sleep \in Nat /\ backlog' \in Nat /\ Pacing'
<1>1. /\ len \in Nat /\ cost \in Nat /\ MinSleep \in Nat \ {0} /\ backlog \in Nat
      /\ writer.debt \in 0 .. MinSleep - 1 /\ writer.idle \in 0 .. MinSleep /\ Pacing
  BY ClientFacts, Apart DEF Rate
<1>2. len * cost \in Nat
  BY <1>1
<1>3. Owed(writer) \in Nat /\ backlog <= Owed(writer)
  BY <1>1 DEF Pacing, Owed
<1> DEFINE debt == Owed(writer) + len * cost
<1>4. debt \in Nat /\ backlog' <= debt /\ backlog' \in Nat
  BY <1>1, <1>2, <1>3
<1>5. CASE cost = Unthrottled
  <2>1. writer' = [debt |-> 0, idle |-> 0, sleep |-> 0]
    BY <1>5 DEF Charged, NewWriter
  <2>2. backlog' = 0
    BY <1>1, <1>5 DEF Pacing, Unthrottled
  <2> QED
    BY <1>1, <2>1, <2>2 DEF Pacing, Owed
<1>6. CASE cost # Unthrottled /\ debt < MinSleep
  <2>1. writer' = [debt |-> debt, idle |-> 0, sleep |-> 0]
    BY <1>6 DEF Charged, Owed
  <2> HIDE DEF debt
  <2> QED
    BY <1>1, <1>4, <1>6, <2>1 DEF Pacing, Owed
<1>7. CASE cost # Unthrottled /\ ~(debt < MinSleep)
  <2>1. writer' = [debt |-> 0, idle |-> 0, sleep |-> debt]
    BY <1>7 DEF Charged, Owed
  <2> HIDE DEF debt
  <2> QED
    BY <1>1, <1>4, <1>7, <2>1 DEF Pacing, Owed
<1> QED
  BY <1>5, <1>6, <1>7

LEMMA WriteFrameStep ==
  ASSUME IInv, NEW len \in Frame, WriteFrame(len)
  PROVE  IInv'
<1>1. /\ OnClient /\ writer.sleep = 0 /\ writer' = Charged(writer, len, cell[Own])
      /\ backlog' = backlog + len * cell[Own]
      /\ UNCHANGED <<mode, joined, tracker, cell, earned, server, monitor, unsaid>>
  BY DEF WriteFrame
<1>2. cell[Own] = Effective(tracker[Own].tier) /\ cell[Own] \in Rate
  BY <1>1, ClientFacts DEF AllFair, Fair
<1>3. mode.throttle = Unthrottled <=> cell[Own] = Unthrottled
  BY <1>2, Apart DEF Effective, Unthrottled
<1>4. /\ writer'.debt \in 0 .. MinSleep - 1 /\ writer'.idle \in 0 .. MinSleep
      /\ writer'.sleep \in Nat /\ backlog' \in Nat /\ Pacing'
  BY <1>1, <1>2, <1>3, ChargedPaces
<1>5. AllFair' /\ Surfacing' /\ current' = current
  BY <1>1, ClientFacts DEF AllFair, Fair, Effective, Surfacing, server
<1> QED
  BY <1>1, <1>4, <1>5, ClientFacts, ClientSteps

\* A unit of time takes one unit from the queues, and at most one from what
\* the writer waits for.
LEMMA ElapseStep ==
  ASSUME IInv, Elapse
  PROVE  IInv'
<1>1. /\ OnClient
      /\ writer' = [writer EXCEPT !.sleep = IF @ > 0 THEN @ - 1 ELSE 0,
                                  !.idle = Min({@ + 1, MinSleep})]
      /\ backlog' = IF backlog > 0 THEN backlog - 1 ELSE 0
      /\ UNCHANGED <<mode, joined, tracker, cell, earned, server, monitor, unsaid>>
  BY DEF Elapse
<1>2. /\ MinSleep \in Nat \ {0} /\ backlog \in Nat /\ writer.sleep \in Nat
      /\ writer.debt \in 0 .. MinSleep - 1 /\ writer.idle \in 0 .. MinSleep /\ Pacing
  BY <1>1, ClientFacts, Apart
<1>3. Min({writer.idle + 1, MinSleep}) =
        IF writer.idle + 1 <= MinSleep THEN writer.idle + 1 ELSE MinSleep
  BY <1>2, MinOfTwo
<1>4. /\ writer'.debt = writer.debt
      /\ writer'.sleep = IF writer.sleep > 0 THEN writer.sleep - 1 ELSE 0
      /\ writer'.idle = IF writer.idle + 1 <= MinSleep THEN writer.idle + 1 ELSE MinSleep
  BY <1>1, <1>3
<1>5. /\ writer'.debt \in 0 .. MinSleep - 1 /\ writer'.idle \in 0 .. MinSleep
      /\ writer'.sleep \in Nat /\ backlog' \in Nat /\ Pacing'
  BY <1>1, <1>2, <1>4 DEF Pacing, Owed
<1>6. AllFair' /\ Surfacing' /\ current' = current
  BY <1>1, ClientFacts DEF AllFair, Fair, Effective, Surfacing, server
<1> QED
  BY <1>1, <1>5, <1>6, ClientFacts, ClientSteps

LEMMA ReconnectStep ==
  ASSUME IInv, Reconnect
  PROVE  IInv'
<1>1. /\ OnClient /\ mode' = mode /\ UNCHANGED server /\ joined' = joined \cup {Own}
      /\ monitor' = [degraded |-> FALSE, since |-> None] /\ unsaid' = 0
      /\ writer' = [debt |-> 0, idle |-> 0, sleep |-> 0] /\ backlog' = 0
  BY DEF Reconnect, Connected, NewMonitor, NewWriter
<1>2. tracker' \in Trackers /\ cell' \in [End -> Rate] /\ AllFair'
  BY <1>1, ClientFacts, AnewFair DEF Reconnect, Connected
<1>3. Surfacing' /\ Pacing'
  BY <1>1, Apart DEF Surfacing, Pacing, Owed
<1>4. current' = current /\ current = Home
  BY <1>1, ClientFacts DEF server
<1>5. /\ writer'.debt \in 0 .. MinSleep - 1 /\ writer'.idle \in 0 .. MinSleep
      /\ writer'.sleep \in Nat /\ backlog' \in Nat
  BY <1>1, Apart
<1> QED
  BY <1>1, <1>2, <1>3, <1>4, <1>5, ClientFacts, ClientSteps

-----------------------------------------------------------------------------
(* The theorems.                                                           *)

LEMMA InitIInv == Init => IInv
<1> SUFFICES ASSUME Init
             PROVE  IInv
  OBVIOUS
<1>1. Started
  BY DEF Init, Started
<1>2. TypeOK
  <2>1. Effective("normal") \in Rate
    BY <1>1, RateOfTier
  <2> QED
    BY <2>1, Apart DEF Init, TypeOK, ServerState, NewTracker, NewMonitor, NewWriter, Tier,
                       PromoteSamples, End, Rate, Unthrottled
<1>3. Sides
  BY DEF Init, Sides, OnServer
<1>4. AllFair
  BY DEF Init, AllFair, Fair, NotJudged, NewTracker, Judgement, PromoteSamples
<1>5. Surfacing /\ Pacing
  BY Apart DEF Init, Surfacing, Pacing, Owed, NewMonitor, NewWriter
<1> QED
  BY <1>1, <1>2, <1>3, <1>4, <1>5 DEF IInv

LEMMA NextIInv == IInv /\ [Next]_vars => IInv'
<1> SUFFICES ASSUME IInv, [Next]_vars
             PROVE  IInv'
  OBVIOUS
<1>1. CASE ServerNext
  <2>1. ASSUME NEW c \in Client, AddClient(c) \/ RemoveClient(c) PROVE IInv'
    BY <2>1, AddClientStep, RemoveClientStep
  <2>2. ASSUME NEW target \in Client \cup {Home}, Switch(target) PROVE IInv'
    BY <2>2, SwitchStep
  <2> QED
    BY <1>1, <2>1, <2>2, QualityTickStep, MirrorStep DEF ServerNext
<1>2. CASE ClientNext
  <2>1. ASSUME NEW len \in Frame, WriteFrame(len) PROVE IInv'
    BY <2>1, WriteFrameStep
  <2> QED
    BY <1>2, <2>1, MonitorLinkStep, ElapseStep, ReconnectStep DEF ClientNext
<1>3. CASE UNCHANGED vars
  BY <1>3 DEF vars, server, client, IInv, TypeOK, Sides, OnServer, Started, AllFair, Fair,
              Effective, Surfacing, Pacing, Owed
<1> QED
  BY <1>1, <1>2, <1>3 DEF Next

\* The invariant that the others follow from: every end has the tier it has
\* earned, and the rate of its tier (network/link_quality.rs, throttle.rs).
THEOREM Invariance == Spec => []IInv
<1>1. Init => IInv
  BY InitIInv
<1>2. IInv /\ [Next]_vars => IInv'
  BY NextIInv
<1> QED
  BY <1>1, <1>2, PTL DEF Spec

\* Transfers are paced for the tier of their own connection, a raised tier is
\* earned by that connection's samples, and what LinkMonitor told the user is
\* not wrong for a whole cooldown.
THEOREM Earned == Spec => []LinkInv
<1>1. IInv => LinkInv
  BY DEF IInv, LinkInv, CellFollowsTier, RaisedIsEarned, SurfacesInTime, AllFair, Fair,
         Surfacing, TypeOK
<1> QED
  BY <1>1, Invariance, PTL

\* Whenever the bulk writer is free to write, less than MIN_SLEEP of data is
\* queued below the stream (BulkThrottle::charge).
THEOREM ShortQueue == Spec => []QueueStaysShort
<1>1. IInv => QueueStaysShort
  BY Apart DEF IInv, QueueStaysShort, Pacing, Owed, TypeOK
<1> QED
  BY <1>1, Invariance, PTL

=============================================================================
