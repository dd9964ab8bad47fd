-------------------------- MODULE LifecycleProofs --------------------------
(***************************************************************************)
(* Proofs about Lifecycle, for any number of instances on each machine and *)
(* any sequence of releases: the lock does what single_instance.rs         *)
(* promises, through contention, crashes, updates and restarts.            *)
(*                                                                         *)
(* Two daemons of a machine could only have its devices together if both   *)
(* had its lock.  So the invariant says which stages have the lock, and    *)
(* what else a process must have got right for a step of another one not   *)
(* to take it away: nobody asks itself to leave, and the port is with a    *)
(* server that has the lock or is past its shutdown.                       *)
(***************************************************************************)
EXTENDS Lifecycle, TLAPS

\* The stages between taking the lock and letting go of it.
Locking == {"locked", "settling", "binding", "up", "closing"}

\* A process that got that far has its machine's lock.
LockHeld == \A p \in Process : proc[p].stage \in Locking => lock[p[1]] = p

\* The socket is a server's that serves or did.
PortHeld ==
    port # None => port[1] = Server /\ proc[port].stage \in {"up", "closing", "left"}

\* What an image holds, beyond its type: the release it was loaded from, the
\* one it builds, another process's pid if it asks; only a server binds.
Sound(p, i) ==
    /\ i.stage \notin {"unborn", "gone"} => i.release \in Release
    /\ i.job = "building" => i.pulled \in Release
    /\ i.stage = "asking" => i.target \in Process \ {p}
    /\ i.stage = "binding" => p[1] = Server

AllSound == \A p \in Process : Sound(p, proc[p])

\* A probe has the lock until it ends.
ProbeHolds == \A h \in Host : manual[h] = "probing" => lock[h] = Prober

IInv == TypeOK /\ LockHeld /\ PortHeld /\ AllSound /\ ProbeHolds

Protocols == {Protocol(r) : r \in Release}

-----------------------------------------------------------------------------
(* Lemmas.                                                                 *)

LEMMA HostFacts ==
    /\ Server \in Host /\ Client \in Host /\ Server # Client
    /\ \A p \in Process : p[1] \in Host /\ p \in Of(p[1])
    /\ \A h \in Host : Of(h) \subseteq Process
    /\ \A h \in Host : \A p \in Of(h) : p[1] = h
    /\ None \notin Process /\ Prober \notin Process /\ None # Prober
  BY LifecycleAssumption DEF Host, Process, Of

LEMMA SettingFacts ==
  ASSUME setting \in Settings
  PROVE  0 \in Release
  <1>1. \A q \in Seq(Nat) : q # <<>> => 0 \in 0 .. Len(q) - 1
    OBVIOUS
  <1> QED BY <1>1, SettingsAssumption DEF Release

LEMMA SameSetting ==
  ASSUME setting' = setting
  PROVE  /\ Release' = Release
         /\ Images' = Images
         /\ Protocols' = Protocols
  BY DEF Release, Images, Protocols, Protocol, OrNone

\* A process that takes another image leaves the invariant intact, if the
\* others keep the lock, and it has what its new stage stands for.
LEMMA OneMoves ==
  ASSUME IInv, NEW p \in Process, NEW i \in Images,
         proc' = [proc EXCEPT ![p] = i],
         setting' = setting, head' \in Release, disk' \in [Host -> Release],
         gate' \in [Host -> OrNone(Protocols)],
         lock' \in [Host -> OrNone(Process \cup {Prober})],
         pid' \in [Host -> OrNone(Process)],
         manual' = manual,
         wanted' \in [Host -> BOOLEAN],
         \A q \in Process \ {p} : lock[q[1]] = q => lock'[q[1]] = q,
         \A h \in Host : lock[h] = Prober => lock'[h] = Prober,
         i.stage \in Locking => lock'[p[1]] = p,
         \/ port' = None
         \/ port' = port /\ (port = p => i.stage \in {"up", "closing", "left"})
         \/ port' = p /\ p[1] = Server /\ i.stage \in {"up", "closing", "left"},
         Sound(p, i)
  PROVE  IInv'
  <1>1. /\ Release' = Release /\ Images' = Images /\ Protocols' = Protocols
    BY SameSetting
  <1>2. /\ proc \in [Process -> Images] /\ port \in OrNone(Process)
        /\ setting \in Settings
    BY DEF IInv, TypeOK
  <1>3. /\ proc' \in [Process -> Images]
        /\ proc'[p] = i /\ \A q \in Process \ {p} : proc'[q] = proc[q]
    BY <1>2
  <1>4. TypeOK'
    <2>1. port' \in OrNone(Process)
      BY <1>2 DEF OrNone
    <2> QED BY <1>1, <1>2, <1>3, <2>1 DEF IInv, TypeOK, OrNone, Protocols
  <1>5. LockHeld'
    BY <1>3 DEF IInv, LockHeld
  <1>6. PortHeld'
    BY <1>2, <1>3, HostFacts DEF IInv, PortHeld, OrNone
  <1>7. AllSound'
    BY <1>1, <1>3 DEF IInv, AllSound, Sound
  <1>8. ProbeHolds'
    BY DEF IInv, ProbeHolds
  <1> QED BY <1>4, <1>5, <1>6, <1>7, <1>8 DEF IInv

\* A step that leaves the processes alone.
LEMMA NobodyMoves ==
  ASSUME IInv, UNCHANGED <<proc, setting, port>>,
         head' \in Release, disk' \in [Host -> Release],
         gate' \in [Host -> OrNone(Protocols)],
         lock' \in [Host -> OrNone(Process \cup {Prober})],
         UNCHANGED pid,
         manual' \in [Host -> {"due", "probing", "gated", "ungated", "done"}],
         wanted' \in [Host -> BOOLEAN],
         \A q \in Process : lock[q[1]] = q => lock'[q[1]] = q,
         ProbeHolds'
  PROVE  IInv'
  <1>1. /\ Release' = Release /\ Images' = Images /\ Protocols' = Protocols
    BY SameSetting
  <1>2. TypeOK'
    BY <1>1 DEF IInv, TypeOK, OrNone, Protocols
  <1>3. LockHeld' /\ PortHeld' /\ AllSound'
    BY <1>1 DEF IInv, LockHeld, PortHeld, AllSound, Sound
  <1> QED BY <1>2, <1>3 DEF IInv

-----------------------------------------------------------------------------
(* Every action preserves the invariant.                                   *)

LEMMA Typing ==
  ASSUME IInv
  PROVE  /\ proc \in [Process -> Images] /\ setting \in Settings
         /\ head \in Release /\ disk \in [Host -> Release]
         /\ gate \in [Host -> OrNone(Protocols)]
         /\ lock \in [Host -> OrNone(Process \cup {Prober})]
         /\ pid \in [Host -> OrNone(Process)] /\ port \in OrNone(Process)
         /\ manual \in [Host -> {"due", "probing", "gated", "ungated", "done"}]
         /\ wanted \in [Host -> BOOLEAN]
  BY DEF IInv, TypeOK, Protocols

\* A new image is one, and it has all that a starting process needs.
LEMMA NewImage ==
  ASSUME NEW p \in Process, NEW r \in Release, NEW restarted \in BOOLEAN
  PROVE  /\ Image("starting", r, restarted) \in Images
         /\ Image("starting", r, restarted).stage = "starting"
         /\ Sound(p, Image("starting", r, restarted))
  BY DEF Image, Images, OrNone, Stage, Job, Sound

LEMMA GoneImage ==
  /\ Gone \in Images /\ Gone.stage = "gone"
  /\ \A p \in Process : Sound(p, Gone)
  BY DEF Gone, Image, Images, OrNone, Stage, Job, Sound

\* Where a process that takes a step is, for the steps below.
LEMMA Taking ==
  ASSUME IInv, NEW p \in Process
  PROVE  /\ proc \in [Process -> Images] /\ proc[p] \in Images /\ Sound(p, proc[p])
         /\ proc[p].stage \in Locking => lock[p[1]] = p
         /\ proc[p].stage \notin {"up", "closing", "left"} => port # p
  BY Typing, HostFacts DEF IInv, AllSound, LockHeld, PortHeld

LEMMA TakeLockStep ==
  ASSUME IInv, NEW p \in Process, TakeLock(p)
  PROVE  IInv'
  <1> DEFINE i == [proc[p] EXCEPT !.stage = "locked", !.target = None]
  <1>1. proc \in [Process -> Images] /\ proc[p] \in Images
    BY Taking
  <1>2. i \in Images /\ i.stage = "locked"
    BY <1>1 DEF Images, Stage, OrNone
  <1>3. proc[p].stage \notin {"unborn", "gone", "up", "closing", "left"}
    BY DEF TakeLock
  <1>4. Sound(p, i)
    <2>1. i.release = proc[p].release /\ i.job = proc[p].job /\ i.pulled = proc[p].pulled
      BY <1>1 DEF Images
    <2> HIDE DEF i
    <2> QED BY <1>2, <1>3, <2>1, Taking DEF Sound
  <1>5. proc' = [proc EXCEPT ![p] = i]
    <2>1. proc' = [proc EXCEPT ![p].stage = "locked", ![p].target = None]
      BY DEF TakeLock
    <2> QED BY <1>1, <2>1
  <1>6. lock[p[1]] = None /\ lock' = [lock EXCEPT ![p[1]] = p]
    BY DEF TakeLock
  <1>7. /\ lock' \in [Host -> OrNone(Process \cup {Prober})] /\ lock'[p[1]] = p
        /\ \A q \in Process \ {p} : lock[q[1]] = q => lock'[q[1]] = q
        /\ \A h \in Host : lock[h] = Prober => lock'[h] = Prober
    BY <1>6, Typing, HostFacts DEF OrNone
  <1> HIDE DEF i
  <1> QED BY <1>2, <1>3, <1>4, <1>5, <1>7, OneMoves, Typing, Taking DEF TakeLock

\* A step that does not touch the lock file's lock: the process must have had
\* the lock if its new stage stands for it.
LEMMA LockStays ==
  ASSUME IInv, NEW p \in Process, NEW i \in Images,
         proc' = [proc EXCEPT ![p] = i], UNCHANGED <<setting, lock, manual>>,
         head' \in Release, disk' \in [Host -> Release],
         gate' \in [Host -> OrNone(Protocols)], pid' \in [Host -> OrNone(Process)],
         wanted' \in [Host -> BOOLEAN],
         i.stage \in Locking => proc[p].stage \in Locking,
         \/ port' = port /\ (port = p => i.stage \in {"up", "closing", "left"})
         \/ port' = p /\ p[1] = Server /\ i.stage \in {"up", "closing", "left"},
         Sound(p, i)
  PROVE  IInv'
  BY OneMoves, Typing, Taking

\* The kernel takes back the lock and the port of a process that ends.
LEMMA Becoming ==
  ASSUME IInv, NEW p \in Process, NEW i \in Images, Becomes(p, i),
         UNCHANGED <<setting, head, disk, gate, pid, manual>>,
         wanted' \in [Host -> BOOLEAN],
         i.stage \notin Locking, Sound(p, i)
  PROVE  IInv'
  <1>1. /\ lock' \in [Host -> OrNone(Process \cup {Prober})]
        /\ \A q \in Process \ {p} : lock[q[1]] = q => lock'[q[1]] = q
        /\ \A h \in Host : lock[h] = Prober => lock'[h] = Prober
    BY Typing, HostFacts DEF Becomes, Without, OrNone
  <1>2. \/ port' = None
        \/ port' = port /\ (port = p => i.stage \in {"up", "closing", "left"})
    BY DEF Becomes, PortWithout
  <1> QED BY <1>1, <1>2, OneMoves, Typing DEF Becomes

LEMMA StartStep ==
  ASSUME IInv, NEW p \in Process, Start(p)
  PROVE  IInv'
  <1> DEFINE i == Image("starting", disk[p[1]], FALSE)
  <1>1. disk[p[1]] \in Release
    BY Typing, HostFacts
  <1>2. i \in Images /\ i.stage = "starting" /\ Sound(p, i)
    BY <1>1, NewImage
  <1>3. proc' = [proc EXCEPT ![p] = i] /\ port # p
    BY Taking DEF Start
  <1>4. wanted' \in [Host -> BOOLEAN]
    BY Typing DEF Start
  <1> HIDE DEF i
  <1> QED BY <1>2, <1>3, <1>4, LockStays, Typing DEF Start, Locking

LEMMA CrashStep ==
  ASSUME IInv, NEW p \in Process, Crash(p)
  PROVE  IInv'
  <1>1. wanted' \in [Host -> BOOLEAN]
    BY Typing DEF Crash
  <1> QED BY <1>1, GoneImage, Becoming DEF Crash, Locking

LEMMA ExitStep ==
  ASSUME IInv, NEW p \in Process, Exit(p)
  PROVE  IInv'
  BY GoneImage, Becoming, Typing DEF Exit, Locking

LEMMA ReexecStep ==
  ASSUME IInv, NEW p \in Process, Reexec(p)
  PROVE  IInv'
  <1>1. disk[p[1]] \in Release
    BY Typing, HostFacts
  <1> QED BY <1>1, NewImage, Becoming, Typing DEF Reexec, Locking

\* A process that only goes on to another stage.
LEMMA NextStage ==
  ASSUME IInv, NEW p \in Process, NEW stage \in Stage,
         proc[p].stage \notin {"unborn", "gone"}, stage # "asking",
         stage = "binding" => p[1] = Server
  PROVE  /\ [proc[p] EXCEPT !.stage = stage] \in Images
         /\ [proc[p] EXCEPT !.stage = stage].stage = stage
         /\ Sound(p, [proc[p] EXCEPT !.stage = stage])
         /\ [proc EXCEPT ![p].stage = stage]
               = [proc EXCEPT ![p] = [proc[p] EXCEPT !.stage = stage]]
  <1> DEFINE i == [proc[p] EXCEPT !.stage = stage]
  <1>1. proc \in [Process -> Images] /\ proc[p] \in Images
    BY Taking
  <1>2. i \in Images /\ i.stage = stage
    BY <1>1 DEF Images
  <1>3. i.release = proc[p].release /\ i.job = proc[p].job /\ i.pulled = proc[p].pulled
    BY <1>1 DEF Images
  <1>4. [proc EXCEPT ![p].stage = stage] = [proc EXCEPT ![p] = i]
    BY <1>1
  <1>5. Sound(p, i)
    <2> HIDE DEF i
    <2> QED BY <1>2, <1>3, Taking DEF Sound
  <1> QED BY <1>2, <1>4, <1>5

LEMMA WritePidStep ==
  ASSUME IInv, NEW p \in Process, WritePid(p)
  PROVE  IInv'
  <1>1. "settling" \in Stage
    BY DEF Stage
  <1>2. pid' \in [Host -> OrNone(Process)]
    BY Typing, HostFacts DEF WritePid, OrNone
  <1>3. proc[p].stage = "locked"
    BY DEF WritePid
  <1> DEFINE i == [proc[p] EXCEPT !.stage = "settling"]
  <1>4. i \in Images /\ i.stage = "settling" /\ Sound(p, i)
    BY <1>1, <1>3, NextStage
  <1>5. proc' = [proc EXCEPT ![p] = i]
    BY <1>1, <1>3, NextStage DEF WritePid
  <1> HIDE DEF i
  <1> QED BY <1>2, <1>3, <1>4, <1>5, LockStays, Typing, Taking DEF WritePid, Locking

LEMMA ServerRunsStep ==
  ASSUME IInv, NEW p \in Process, ServerRuns(p)
  PROVE  IInv'
  <1>1. "binding" \in Stage /\ proc[p].stage = "settling"
    BY DEF Stage, ServerRuns
  <1> DEFINE i == [proc[p] EXCEPT !.stage = "binding"]
  <1>2. i \in Images /\ i.stage = "binding" /\ Sound(p, i)
    BY <1>1, NextStage DEF ServerRuns
  <1>3. proc' = [proc EXCEPT ![p] = i]
    BY <1>1, NextStage DEF ServerRuns
  <1>4. gate' \in [Host -> OrNone(Protocols)]
    BY Typing DEF ServerRuns, OrNone
  <1> HIDE DEF i
  <1> QED BY <1>1, <1>2, <1>3, <1>4, LockStays, Typing, Taking DEF ServerRuns, Locking

LEMMA ClientRunsStep ==
  ASSUME IInv, NEW p \in Process, ClientRuns(p)
  PROVE  IInv'
  <1>1. "up" \in Stage /\ proc[p].stage = "settling"
    BY DEF Stage, ClientRuns
  <1> DEFINE i == [proc[p] EXCEPT !.stage = "up"]
  <1>2. i \in Images /\ i.stage = "up" /\ Sound(p, i)
    BY <1>1, NextStage
  <1>3. proc' = [proc EXCEPT ![p] = i]
    BY <1>1, NextStage DEF ClientRuns
  <1> HIDE DEF i
  <1> QED BY <1>1, <1>2, <1>3, LockStays, Typing, Taking DEF ClientRuns, Locking

LEMMA BindStep ==
  ASSUME IInv, NEW p \in Process, Bind(p)
  PROVE  IInv'
  <1>1. "up" \in Stage /\ proc[p].stage = "binding"
    BY DEF Stage, Bind
  <1> DEFINE i == [proc[p] EXCEPT !.stage = "up"]
  <1>2. i \in Images /\ i.stage = "up" /\ Sound(p, i)
    BY <1>1, NextStage
  <1>3. proc' = [proc EXCEPT ![p] = i]
    BY <1>1, NextStage DEF Bind
  <1>4. p[1] = Server
    BY <1>1, Taking DEF Sound
  <1> HIDE DEF i
  <1> QED BY <1>1, <1>2, <1>3, <1>4, LockStays, Typing, Taking DEF Bind, Locking

LEMMA CloseLoopsStep ==
  ASSUME IInv, NEW p \in Process, CloseLoops(p)
  PROVE  IInv'
  <1>1. "left" \in Stage /\ proc[p].stage = "closing"
    BY DEF Stage, CloseLoops
  <1> DEFINE i == [proc[p] EXCEPT !.stage = "left"]
  <1>2. i \in Images /\ i.stage = "left" /\ Sound(p, i)
    BY <1>1, NextStage
  <1>3. proc' = [proc EXCEPT ![p] = i]
    BY <1>1, NextStage DEF CloseLoops
  <1>4. /\ lock' \in [Host -> OrNone(Process \cup {Prober})]
        /\ \A q \in Process \ {p} : lock[q[1]] = q => lock'[q[1]] = q
        /\ \A h \in Host : lock[h] = Prober => lock'[h] = Prober
    BY Typing, HostFacts DEF CloseLoops, Without, OrNone
  <1> HIDE DEF i
  <1> QED BY <1>1, <1>2, <1>3, <1>4, OneMoves, Typing, Taking DEF CloseLoops, Locking

LEMMA GiveUpStep ==
  ASSUME IInv, NEW p \in Process, GiveUp(p)
  PROVE  IInv'
  <1>1. port # p
    BY Taking DEF GiveUp
  <1> QED BY <1>1, GoneImage, LockStays, Typing DEF GiveUp, Locking

LEMMA ReadPidStep ==
  ASSUME IInv, NEW p \in Process, ReadPid(p)
  PROVE  IInv'
  <1> DEFINE q == pid[p[1]]
             i == [proc[p] EXCEPT !.stage = "asking", !.target = q]
  <1>1. proc \in [Process -> Images] /\ proc[p] \in Images
    BY Taking
  <1>2. proc[p].stage = "starting" /\ port # p
    BY Taking DEF ReadPid
  <1>3. CASE q \in {None, p}
    <2>1. proc' = [proc EXCEPT ![p] = Gone]
      BY <1>3 DEF ReadPid
    <2> QED BY <1>2, <2>1, GoneImage, LockStays, Typing DEF ReadPid, Locking
  <1>4. CASE q \notin {None, p}
    <2>1. q \in Process
      BY <1>4, Typing, HostFacts DEF OrNone
    <2>2. i \in Images /\ i.stage = "asking" /\ i.target = q
      BY <1>1, <2>1 DEF Images, Stage, OrNone
    <2>3. i.release = proc[p].release /\ i.job = proc[p].job /\ i.pulled = proc[p].pulled
      BY <1>1 DEF Images
    <2>4. proc' = [proc EXCEPT ![p] = i]
      BY <1>4 DEF ReadPid
    <2>5. q # p
      BY <1>4
    <2> HIDE DEF i, q
    <2>6. Sound(p, i)
      BY <1>2, <2>1, <2>2, <2>3, <2>5, Taking DEF Sound
    <2> QED BY <1>2, <2>2, <2>4, <2>6, LockStays, Typing DEF ReadPid, Locking
  <1> QED BY <1>3, <1>4

LEMMA CommandStep ==
  ASSUME IInv, NEW p \in Process, NEW restart \in BOOLEAN, Command(p, restart)
  PROVE  IInv'
  <1> DEFINE i == [proc[p] EXCEPT !.stage = "closing", !.again = restart]
  <1>1. proc \in [Process -> Images] /\ proc[p] \in Images
    BY Taking
  <1>2. proc[p].stage \in {"binding", "up"}
    BY DEF Command, At
  <1>3. i \in Images /\ i.stage = "closing"
    BY <1>1 DEF Images, Stage
  <1>4. i.release = proc[p].release /\ i.job = proc[p].job /\ i.pulled = proc[p].pulled
    BY <1>1 DEF Images
  <1>5. proc' = [proc EXCEPT ![p] = i]
    <2>1. proc' = [proc EXCEPT ![p].stage = "closing", ![p].again = restart]
      BY DEF Command
    <2> QED BY <1>1, <2>1
  <1>6. wanted' \in [Host -> BOOLEAN]
    BY Typing DEF Command
  <1> HIDE DEF i
  <1>7. Sound(p, i)
    BY <1>2, <1>3, <1>4, Taking DEF Sound
  <1> QED BY <1>2, <1>3, <1>5, <1>6, <1>7, LockStays, Typing DEF Command, Locking

LEMMA CheckStep ==
  ASSUME IInv, NEW p \in Process, Check(p)
  PROVE  IInv'
  <1> DEFINE i == [proc[p] EXCEPT !.job = "pulling", !.found = head]
  <1>1. proc \in [Process -> Images] /\ proc[p] \in Images /\ head \in Release
    BY Taking, Typing
  <1>2. i \in Images /\ i.job = "pulling"
    BY <1>1 DEF Images, Job, OrNone
  <1>3. i.stage = proc[p].stage /\ i.release = proc[p].release /\ i.target = proc[p].target
    BY <1>1 DEF Images
  <1>4. proc' = [proc EXCEPT ![p] = i]
    <2>1. proc' = [proc EXCEPT ![p].job = "pulling", ![p].found = head]
      BY DEF Check
    <2> QED BY <1>1, <2>1
  <1> HIDE DEF i
  <1>5. Sound(p, i)
    BY <1>2, <1>3, Taking DEF Sound
  <1> QED BY <1>2, <1>3, <1>4, <1>5, LockStays, Typing, Taking DEF Check

LEMMA ScheduleRestartStep ==
  ASSUME IInv, NEW p \in Process, ScheduleRestart(p)
  PROVE  IInv'
  <1> DEFINE i == [proc[p] EXCEPT !.job = "idle", !.again = TRUE, !.stage = "closing"]
  <1>1. proc \in [Process -> Images] /\ proc[p] \in Images
    BY Taking
  <1>2. proc[p].stage \in {"binding", "up", "closing"}
    BY DEF ScheduleRestart, Looping, At
  <1>3. i \in Images /\ i.stage = "closing" /\ i.job = "idle" /\ i.release = proc[p].release
    BY <1>1 DEF Images, Stage, Job
  <1>4. proc' = [proc EXCEPT ![p] = i]
    <2>1. proc' = [proc EXCEPT ![p].job = "idle", ![p].again = TRUE, ![p].stage = "closing"]
      BY DEF ScheduleRestart
    <2> QED BY <1>1, <2>1
  <1> HIDE DEF i
  <1>5. Sound(p, i)
    BY <1>2, <1>3, Taking DEF Sound
  <1> QED BY <1>2, <1>3, <1>4, <1>5, LockStays, Typing DEF ScheduleRestart, Locking

\* What a server advertises, and so what the gate may become, is the version
\* of a release.
LEMMA ConstraintIsVersion ==
  ASSUME IInv, NEW h \in Host, NEW answered \in BOOLEAN
  PROVE  Constraint(h, answered) \in OrNone(Protocols)
  <1>1. Advertised(h) \subseteq Protocols
    BY Taking DEF Advertised, At, Protocols, Sound
  <1>2. gate[h] \in OrNone(Protocols)
    BY Typing
  <1>3. ASSUME Advertised(h) # {}
        PROVE  (CHOOSE v \in Advertised(h) : TRUE) \in Advertised(h)
    BY <1>3
  <1> QED BY <1>1, <1>2, <1>3 DEF Constraint, OrNone

LEMMA PullStep ==
  ASSUME IInv, NEW p \in Process, NEW answered \in BOOLEAN, Pull(p, answered)
  PROVE  IInv'
  <1> DEFINE h == p[1]
             constraint == IF h = Client THEN Constraint(h, answered) ELSE None
             pulls == [proc[p] EXCEPT !.job = "building", !.pulled = head]
             stops == [proc[p] EXCEPT !.job = "idle", !.found = None]
             i == IF Passes(head, constraint) THEN pulls ELSE stops
  <1>1. proc \in [Process -> Images] /\ proc[p] \in Images /\ head \in Release
    BY Taking, Typing
  <1>2. /\ pulls \in Images /\ pulls.stage = proc[p].stage /\ pulls.release = proc[p].release
        /\ pulls.target = proc[p].target /\ pulls.pulled = head
    BY <1>1 DEF Images, Job, OrNone
  <1>3. /\ stops \in Images /\ stops.stage = proc[p].stage /\ stops.release = proc[p].release
        /\ stops.target = proc[p].target /\ stops.job = "idle"
    BY <1>1 DEF Images, Job, OrNone
  <1>4. gate' \in [Host -> OrNone(Protocols)]
    <2>1. h \in Host /\ gate \in [Host -> OrNone(Protocols)]
      BY Typing, HostFacts
    <2>2. h = Client => constraint \in OrNone(Protocols)
      BY <2>1, ConstraintIsVersion
    <2>3. gate' = IF h = Client THEN [gate EXCEPT ![h] = constraint] ELSE gate
      BY DEF Pull
    <2> HIDE DEF constraint, h
    <2> QED BY <2>1, <2>2, <2>3
  <1>5. proc' = [proc EXCEPT ![p] = i]
    BY DEF Pull
  <1>6. i \in {pulls, stops}
    OBVIOUS
  <1> HIDE DEF i, pulls, stops
  <1>7. i \in Images /\ i.stage = proc[p].stage /\ Sound(p, i)
    BY <1>1, <1>2, <1>3, <1>6, Taking DEF Sound
  <1> QED BY <1>4, <1>5, <1>7, LockStays, Typing, Taking DEF Pull

LEMMA BuildStep ==
  ASSUME IInv, NEW p \in Process, NEW fails \in BOOLEAN, Build(p, fails)
  PROVE  IInv'
  <1> DEFINE job == IF fails \/ p \notin Looping THEN "idle" ELSE "grace"
             i == [proc[p] EXCEPT !.job = job, !.attempted = proc[p].found,
                                  !.found = None, !.pulled = None]
  <1>1. proc \in [Process -> Images] /\ proc[p] \in Images
    BY Taking
  <1>2. job \in Job /\ job # "building"
    BY DEF Job
  <1>3. proc' = [proc EXCEPT ![p].job = job, ![p].attempted = proc[p].found,
                             ![p].found = None, ![p].pulled = None]
    BY DEF Build
  <1>4. disk' \in [Host -> Release]
    <2>1. proc[p].pulled \in Release
      BY Taking DEF Build, Sound
    <2> QED BY <2>1, Typing, HostFacts DEF Build
  <1> HIDE DEF job
  <1>5. /\ i \in Images /\ i.stage = proc[p].stage /\ i.release = proc[p].release
        /\ i.target = proc[p].target /\ i.job = job
    BY <1>1, <1>2 DEF Images, OrNone
  <1>6. proc' = [proc EXCEPT ![p] = i]
    BY <1>1, <1>3
  <1> HIDE DEF i
  <1>7. Sound(p, i)
    BY <1>2, <1>5, Taking DEF Sound
  <1> QED BY <1>4, <1>5, <1>6, <1>7, LockStays, Typing, Taking DEF Build

\* SIGTERM moves two processes: the one that asks waits, the other one ends
\* or begins to close.
LEMMA AskStep ==
  ASSUME IInv, NEW p \in Process, Ask(p)
  PROVE  IInv'
  <1> DEFINE q == proc[p].target
             i == [proc[p] EXCEPT !.stage = "waiting"]
  <1>1. /\ proc \in [Process -> Images] /\ proc[p] \in Images
        /\ proc[p].stage = "asking" /\ q \in Process \ {p} /\ port # p
    BY Taking DEF Ask, Sound
  <1>2. wanted' \in [Host -> BOOLEAN]
    BY Typing DEF Ask
  <1>3. CASE q \notin Alive \/ proc[p].restarted
    BY <1>1, <1>2, <1>3, GoneImage, LockStays, Typing DEF Ask, Locking
  <1>4. CASE ~(q \notin Alive \/ proc[p].restarted)
    <2> DEFINE j == Terminated(q)
    <2>1. /\ proc' = [proc EXCEPT ![q] = j, ![p].stage = "waiting"]
          /\ lock' = Without(lock, Killed(q)) /\ port' = PortWithout(Killed(q))
          /\ UNCHANGED <<setting, head, disk, gate, pid, manual>>
      BY <1>4 DEF Ask
    <2>2. "waiting" \in Stage /\ "closing" \in Stage
      BY DEF Stage
    <2>3. i \in Images /\ i.stage = "waiting" /\ Sound(p, i)
      BY <1>1, <2>2, NextStage
    <2>4. j = Terminated(q)
      OBVIOUS
    <2> HIDE DEF j
    <2>5. /\ j \in Images /\ Sound(q, j)
          /\ \/ j.stage = "gone" /\ proc[q].stage \in NoHandlers
             \/ j.stage = "closing" /\ proc[q].stage \in {"binding", "up"}
             \/ j = proc[q] /\ proc[q].stage \notin NoHandlers
      <3>1. CASE proc[q].stage \in NoHandlers
        <4>1. Terminated(q) = Gone
          BY <3>1 DEF Terminated, NoHandlers
        <4> QED BY <1>1, <2>4, <3>1, <4>1, GoneImage
      <3>2. CASE proc[q].stage \in {"binding", "up"}
        <4>1. Terminated(q) = [proc[q] EXCEPT !.stage = "closing"]
          BY <3>2 DEF Terminated, NoHandlers
        <4> QED BY <1>1, <2>2, <2>4, <3>2, <4>1, NextStage
      <3>3. CASE ~(proc[q].stage \in NoHandlers) /\ ~(proc[q].stage \in {"binding", "up"})
        <4>1. Terminated(q) = proc[q]
          BY <3>3 DEF Terminated
        <4> QED BY <1>1, <2>4, <3>3, <4>1, Taking
      <3> QED BY <3>1, <3>2, <3>3
    <2>6. proc' = [proc EXCEPT ![q] = j, ![p] = i]
      BY <1>1, <2>1
    <2> HIDE DEF i, q
    <2>7. /\ proc' \in [Process -> Images] /\ proc'[p] = i /\ proc'[q] = j
          /\ \A r \in Process \ {p, q} : proc'[r] = proc[r]
      BY <1>1, <2>3, <2>5, <2>6
    <2>8. /\ lock' \in [Host -> OrNone(Process \cup {Prober})]
          /\ \A r \in Process : lock[r[1]] = r /\ (r = q => j.stage # "gone") => lock'[r[1]] = r
          /\ \A h \in Host : lock[h] = Prober => lock'[h] = Prober
      <3>1. Killed(q) \subseteq {q} /\ Prober \notin Killed(q) /\ (j.stage # "gone" => Killed(q) = {})
        BY <1>1, <2>5, HostFacts DEF Killed, NoHandlers
      <3>2. lock' = [h \in Host |-> IF lock[h] \in Killed(q) THEN None ELSE lock[h]]
        BY <2>1 DEF Without
      <3> QED BY <3>1, <3>2, Typing, HostFacts DEF OrNone
    <2>9. /\ port' \in OrNone(Process)
          /\ port' # None => port' = port
      BY <2>1, Typing DEF PortWithout, OrNone
    <2>10. /\ Release' = Release /\ Images' = Images /\ Protocols' = Protocols
      BY <2>1, SameSetting
    <2>11. TypeOK'
      BY <1>2, <2>1, <2>7, <2>8, <2>9, <2>10, Typing DEF TypeOK, OrNone, Protocols
    <2>12. LockHeld'
      <3> SUFFICES ASSUME NEW r \in Process, proc'[r].stage \in Locking
                   PROVE  lock'[r[1]] = r
        BY DEF LockHeld
      <3>1. CASE r = p
        BY <2>3, <2>7, <3>1 DEF Locking
      <3>2. CASE r = q
        BY <1>1, <2>5, <2>7, <2>8, <3>2, Taking DEF Locking
      <3>3. CASE r \notin {p, q}
        BY <2>7, <2>8, <3>3, Taking DEF Locking
      <3> QED BY <3>1, <3>2, <3>3
    <2>13. PortHeld'
      <3>1. ASSUME port' # None
            PROVE  port[1] = Server /\ port # p /\ proc[port].stage \in {"up", "closing", "left"}
                   /\ port \in Process /\ port' = port
        BY <1>1, <2>9, <3>1, Typing DEF IInv, PortHeld, OrNone
      <3>2. ASSUME port' # None, port # q
            PROVE  proc'[port] = proc[port]
        BY <2>7, <3>1, <3>2
      <3>3. ASSUME port' # None, port = q
            PROVE  proc'[port].stage \in {"up", "closing", "left"}
        BY <2>5, <2>7, <3>1, <3>3 DEF NoHandlers
      <3> QED BY <3>1, <3>2, <3>3 DEF PortHeld
    <2>14. AllSound'
      <3> SUFFICES ASSUME NEW r \in Process
                   PROVE  Sound(r, proc'[r])
        BY <2>10 DEF AllSound, Sound
      <3>1. r \notin {p, q} => Sound(r, proc[r])
        BY Taking
      <3> QED BY <1>1, <2>3, <2>5, <2>7, <3>1
    <2>15. ProbeHolds'
      BY <2>1, <2>8 DEF IInv, ProbeHolds
    <2> QED BY <2>11, <2>12, <2>13, <2>14, <2>15 DEF IInv
  <1> QED BY <1>3, <1>4

LEMMA DrainedStep ==
  ASSUME IInv, Drained
  PROVE  IInv'
  <1>1. /\ Release' = Release /\ Images' = Images /\ Protocols' = Protocols
    BY SameSetting DEF Drained
  <1>2. TypeOK'
    BY <1>1, Typing DEF Drained, TypeOK, OrNone, Protocols
  <1>3. LockHeld' /\ PortHeld' /\ AllSound' /\ ProbeHolds'
    BY <1>1 DEF Drained, IInv, LockHeld, PortHeld, AllSound, Sound, ProbeHolds
  <1> QED BY <1>2, <1>3 DEF IInv

LEMMA HandshakeStep ==
  ASSUME IInv, NEW c \in Process, NEW s \in Process, Handshake(c, s)
  PROVE  IInv'
  <1>1. Protocol(proc[s].release) \in Protocols
    BY Taking DEF Handshake, At, Sound, Protocols
  <1>2. gate' \in [Host -> OrNone(Protocols)]
    BY <1>1, Typing DEF Handshake, OrNone
  <1> QED BY <1>2, NobodyMoves, Typing DEF Handshake, IInv, ProbeHolds

LEMMA GateExpiresStep ==
  ASSUME IInv, NEW h \in Host, GateExpires(h)
  PROVE  IInv'
  <1>1. gate' \in [Host -> OrNone(Protocols)]
    BY Typing DEF GateExpires, OrNone
  <1> QED BY <1>1, NobodyMoves, Typing DEF GateExpires, IInv, ProbeHolds

LEMMA PublishStep ==
  ASSUME IInv, Publish
  PROVE  IInv'
  BY NobodyMoves, Typing DEF Publish, IInv, ProbeHolds

LEMMA ProbeServerStep ==
  ASSUME IInv, NEW h \in Host, ProbeServer(h)
  PROVE  IInv'
  <1>1. manual' \in [Host -> {"due", "probing", "gated", "ungated", "done"}]
    BY Typing DEF ProbeServer
  <1>2. /\ lock' \in [Host -> OrNone(Process \cup {Prober})]
        /\ \A q \in Process : lock[q[1]] = q => lock'[q[1]] = q
        /\ ProbeHolds'
    BY Typing, HostFacts DEF ProbeServer, OrNone, IInv, ProbeHolds
  <1> QED BY <1>1, <1>2, NobodyMoves, Typing DEF ProbeServer

LEMMA ProbeEndsStep ==
  ASSUME IInv, NEW h \in Host, ProbeEnds(h)
  PROVE  IInv'
  <1>1. /\ manual' \in [Host -> {"due", "probing", "gated", "ungated", "done"}]
        /\ wanted' \in [Host -> BOOLEAN]
    BY Typing DEF ProbeEnds
  <1>2. lock[h] = Prober
    BY DEF ProbeEnds, IInv, ProbeHolds
  <1>3. /\ lock' \in [Host -> OrNone(Process \cup {Prober})]
        /\ \A q \in Process : lock[q[1]] = q => lock'[q[1]] = q
        /\ ProbeHolds'
    BY <1>2, Typing, HostFacts DEF ProbeEnds, OrNone, IInv, ProbeHolds
  <1> QED BY <1>1, <1>3, NobodyMoves, Typing DEF ProbeEnds

LEMMA ManualUpdateStep ==
  ASSUME IInv, NEW h \in Host, NEW answered \in BOOLEAN, ManualUpdate(h, answered)
  PROVE  IInv'
  <1>1. /\ manual' \in [Host -> {"due", "probing", "gated", "ungated", "done"}]
        /\ ProbeHolds'
    BY Typing DEF ManualUpdate, IInv, ProbeHolds
  <1>2. gate' \in [Host -> OrNone(Protocols)]
    <2>1. gate' \in {gate, [gate EXCEPT ![h] = Constraint(h, answered)]}
      BY DEF ManualUpdate
    <2> QED BY <2>1, ConstraintIsVersion, Typing
  <1>3. disk' \in [Host -> Release]
    BY Typing DEF ManualUpdate
  <1> QED BY <1>1, <1>2, <1>3, NobodyMoves, Typing DEF ManualUpdate

LEMMA InitIInv == Init => IInv
  <1> SUFFICES ASSUME Init
               PROVE  IInv
    OBVIOUS
  <1>1. setting \in Settings /\ 0 \in Release
    BY SettingFacts DEF Init
  <1>2. gate \in [Host -> OrNone(Protocols)]
    <2>1. /\ setting.protocol \in Seq(Nat)
          /\ gate \in [Host -> {None} \cup Nat]
          /\ \A h \in Host :
                gate[h] \in {None} \cup {setting.protocol[i] : i \in DOMAIN setting.protocol}
      BY <1>1, SettingsAssumption DEF Init
    <2>2. \A s \in Seq(Nat) : \A i \in DOMAIN s :
             i - 1 \in 0 .. Len(s) - 1 /\ s[(i - 1) + 1] = s[i]
      OBVIOUS
    <2>3. {setting.protocol[i] : i \in DOMAIN setting.protocol} \subseteq Protocols
      <3> SUFFICES ASSUME NEW i \in DOMAIN setting.protocol
                   PROVE  setting.protocol[i] \in Protocols
        OBVIOUS
      <3>1. i - 1 \in Release /\ Protocol(i - 1) = setting.protocol[i]
        BY <2>1, <2>2 DEF Protocol, Release
      <3> QED BY <3>1 DEF Protocols
    <2> QED BY <2>1, <2>3 DEF OrNone
  <1>3. Image("unborn", None, FALSE) \in Images
    BY DEF Image, Images, OrNone, Stage, Job
  <1>4. TypeOK
    BY <1>1, <1>2, <1>3 DEF Init, TypeOK, OrNone, Protocols
  <1>5. \A p \in Process : proc[p].stage = "unborn" /\ proc[p].job = "idle"
    BY DEF Init, Image
  <1>6. LockHeld /\ PortHeld /\ AllSound
    BY <1>5 DEF Init, LockHeld, Locking, PortHeld, AllSound, Sound
  <1>7. ProbeHolds
    BY DEF Init, ProbeHolds
  <1> QED BY <1>4, <1>6, <1>7 DEF IInv

LEMMA NextIInv == IInv /\ [Next]_vars => IInv'
  <1> SUFFICES ASSUME IInv, [Next]_vars
               PROVE  IInv'
    OBVIOUS
  <1>1. ASSUME NEW p \in Process, Daemon(p)
        PROVE  IInv'
    BY <1>1, TakeLockStep, WritePidStep, ReadPidStep, AskStep, GiveUpStep, ServerRunsStep,
       ClientRunsStep, BindStep, CloseLoopsStep, ExitStep, ReexecStep DEF Daemon
  <1>2. ASSUME NEW p \in Process, Updater(p)
        PROVE  IInv'
    BY <1>2, CheckStep, PullStep, BuildStep, ScheduleRestartStep DEF Updater
  <1>3. ASSUME NEW p \in Process,
               \/ Start(p) \/ Crash(p)
               \/ \E restart \in BOOLEAN : Command(p, restart)
               \/ \E q \in Process : Handshake(p, q)
        PROVE  IInv'
    BY <1>3, StartStep, CrashStep, CommandStep, HandshakeStep
  <1>4. ASSUME NEW h \in Host,
               \/ ProbeServer(h) \/ ProbeEnds(h)
               \/ \E answered \in BOOLEAN : ManualUpdate(h, answered)
               \/ GateExpires(h)
        PROVE  IInv'
    BY <1>4, ProbeServerStep, ProbeEndsStep, ManualUpdateStep, GateExpiresStep
  <1>5. CASE Drained \/ Publish
    BY <1>5, DrainedStep, PublishStep
  <1>6. CASE UNCHANGED vars
    <2>1. /\ Release' = Release /\ Images' = Images /\ Protocols' = Protocols
      BY <1>6, SameSetting DEF vars
    <2>2. UNCHANGED <<TypeOK, LockHeld, PortHeld, AllSound, ProbeHolds>>
      BY <1>6, <2>1 DEF vars, TypeOK, LockHeld, PortHeld, AllSound, Sound, ProbeHolds, Protocols
    <2> QED BY <2>2 DEF IInv
  <1> QED BY <1>1, <1>2, <1>3, <1>4, <1>5, <1>6 DEF Next

-----------------------------------------------------------------------------
(* The invariant.                                                          *)

\* The lock is with whoever is past taking it, through contention, crashes,
\* updates, restarts and probes.
THEOREM Invariance == Spec => []IInv
<1>1. Init => IInv
  BY InitIInv
<1>2. IInv /\ [Next]_vars => IInv'
  BY NextIInv
<1> QED BY <1>1, <1>2, PTL DEF Spec

\* The server's socket is with the process that has the lock, or with the one
\* on its way out that a new server waits for.
THEOREM SocketAndLock == Spec => []LifecycleInv
<1>1. IInv => LifecycleInv
  <2> SUFFICES ASSUME IInv
               PROVE  LifecycleInv
    OBVIOUS
  <2>1. PortFollowsLock
    <3> SUFFICES ASSUME port # None
                 PROVE  lock[Server] = port \/ proc[port].stage = "left"
      BY DEF PortFollowsLock
    <3>1. port \in Process /\ port[1] = Server /\ proc[port].stage \in {"up", "closing", "left"}
      BY Typing DEF IInv, PortHeld, OrNone
    <3> QED BY <3>1, Taking DEF Locking
  <2> QED BY <2>1 DEF IInv, LifecycleInv
<1> QED BY <1>1, Invariance, PTL

-----------------------------------------------------------------------------
(* Lifecycle implements InstanceGuard.                                     *)

Has(h) == Looping \cap Of(h)

\* Whoever has a machine's devices has its lock: nobody else has them.
LEMMA Alone ==
  ASSUME IInv, NEW h \in Host, NEW p \in Has(h)
  PROVE  Has(h) = {p}
  <1> SUFFICES ASSUME NEW q \in Has(h)
               PROVE  q = p
    OBVIOUS
  <1>1. /\ p \in Process /\ q \in Process /\ p[1] = h /\ q[1] = h
        /\ proc[p].stage \in Locking /\ proc[q].stage \in Locking
    BY HostFacts DEF Has, Looping, At, Locking
  <1> QED BY <1>1, Taking

\* While a process is up to taking its machine's devices it has the lock, so
\* nobody has them.
LEMMA NobodyYet ==
  ASSUME IInv, NEW p \in Process, proc[p].stage = "settling"
  PROVE  Has(p[1]) = {}
  <1> SUFFICES ASSUME NEW q \in Has(p[1])
               PROVE  FALSE
    OBVIOUS
  <1>1. q \in Process /\ q[1] = p[1] /\ proc[q].stage \in {"binding", "up", "closing"}
    BY HostFacts DEF Has, Looping, At
  <1> QED BY <1>1, Taking DEF Locking

\* What the steps do to the set of those that have the devices.
LEMMA Same ==
  ASSUME Looping' = Looping
  PROVE  UNCHANGED [h \in Host |-> Has(h)]
  BY DEF Has

LEMMA Begins ==
  ASSUME IInv, NEW p \in Process, proc[p].stage = "settling",
         Looping' = Looping \cup {p}
  PROVE  Guard!Next
  <1>1. p[1] \in Host /\ Has(p[1]) = {}
    BY NobodyYet, HostFacts
  <1>2. Has(p[1])' = {p}
    BY <1>1, HostFacts DEF Has
  <1>3. \A h \in Host \ {p[1]} : (Looping \cap Of(h))' = Looping \cap Of(h)
    BY HostFacts DEF Of
  <1>4. Guard!Begin(p[1], p)
    BY <1>1, <1>2, <1>3 DEF Guard!Begin, Has
  <1> QED BY <1>1, <1>4 DEF Guard!Next

LEMMA Ends ==
  ASSUME IInv, NEW p \in Process, p \in Looping, Looping' = Looping \ {p}
  PROVE  Guard!Next
  <1>1. p[1] \in Host /\ Has(p[1]) = {p}
    BY Alone, HostFacts DEF Has
  <1>2. Has(p[1])' = {}
    BY <1>1 DEF Has, Of
  <1>3. \A h \in Host \ {p[1]} : (Looping \cap Of(h))' = Looping \cap Of(h)
    BY HostFacts DEF Of
  <1>4. Guard!End(p[1])
    BY <1>1, <1>2, <1>3 DEF Guard!End, Has
  <1> QED BY <1>1, <1>4 DEF Guard!Next

\* One process's image is replaced: it has the devices after the step if it
\* is then in one of the stages that has them.
LEMMA Replaced ==
  ASSUME IInv, NEW p \in Process, NEW i, proc' = [proc EXCEPT ![p] = i]
  PROVE  /\ i.stage \in {"binding", "up", "closing"} => Looping' = Looping \cup {p}
         /\ i.stage \notin {"binding", "up", "closing"} => Looping' = Looping \ {p}
  <1>1. proc'[p] = i /\ \A q \in Process \ {p} : proc'[q] = proc[q]
    BY Typing
  <1> QED BY <1>1 DEF Looping, At

\* The steps in which nobody takes the devices or lets go of them.
LEMMA StagesKept ==
  ASSUME \A q \in Process : proc'[q].stage = proc[q].stage
  PROVE  Looping' = Looping
  BY DEF Looping, At

LEMMA NotLooping ==
  ASSUME IInv, NEW p \in Process, p \notin Looping,
         NEW i, proc' = [proc EXCEPT ![p] = i], i.stage \notin {"binding", "up", "closing"}
  PROVE  Looping' = Looping
  BY Replaced

LEMMA StillLooping ==
  ASSUME IInv, NEW p \in Process, p \in Looping,
         NEW i, proc' = [proc EXCEPT ![p] = i], i.stage \in {"binding", "up", "closing"}
  PROVE  Looping' = Looping
  BY Replaced

LEMMA UpdaterKeeps ==
  ASSUME IInv, NEW p \in Process, Updater(p)
  PROVE  Looping' = Looping
  <1>1. proc \in [Process -> Images] /\ proc[p] \in Images
    BY Taking
  <1>2. ASSUME Check(p) PROVE Looping' = Looping
    <2>1. proc' = [proc EXCEPT ![p].job = "pulling", ![p].found = head]
      BY <1>2 DEF Check
    <2>2. \A q \in Process : proc'[q].stage = proc[q].stage
      BY <1>1, <2>1 DEF Images
    <2> QED BY <2>2, StagesKept
  <1>3. ASSUME NEW answered \in BOOLEAN, Pull(p, answered) PROVE Looping' = Looping
    <2> DEFINE pulls == [proc[p] EXCEPT !.job = "building", !.pulled = head]
               stops == [proc[p] EXCEPT !.job = "idle", !.found = None]
    <2>1. proc' \in {[proc EXCEPT ![p] = pulls], [proc EXCEPT ![p] = stops]}
      BY <1>3 DEF Pull
    <2>2. pulls.stage = proc[p].stage /\ stops.stage = proc[p].stage
      BY <1>1 DEF Images
    <2> HIDE DEF pulls, stops
    <2>3. \A q \in Process : proc'[q].stage = proc[q].stage
      BY <1>1, <2>1, <2>2
    <2> QED BY <2>3, StagesKept
  <1>4. ASSUME NEW fails \in BOOLEAN, Build(p, fails) PROVE Looping' = Looping
    <2> DEFINE job == IF fails \/ p \notin Looping THEN "idle" ELSE "grace"
    <2>1. proc' = [proc EXCEPT ![p].job = job, ![p].attempted = proc[p].found,
                               ![p].found = None, ![p].pulled = None]
      BY <1>4 DEF Build
    <2> HIDE DEF job
    <2>2. \A q \in Process : proc'[q].stage = proc[q].stage
      BY <1>1, <2>1 DEF Images
    <2> QED BY <2>2, StagesKept
  <1>5. ASSUME ScheduleRestart(p) PROVE Looping' = Looping
    <2> DEFINE i == [proc[p] EXCEPT !.job = "idle", !.again = TRUE, !.stage = "closing"]
    <2>1. proc' = [proc EXCEPT ![p].job = "idle", ![p].again = TRUE, ![p].stage = "closing"]
          /\ p \in Looping
      BY <1>5 DEF ScheduleRestart
    <2>2. proc' = [proc EXCEPT ![p] = i] /\ i.stage = "closing"
      BY <1>1, <2>1 DEF Images
    <2> HIDE DEF i
    <2> QED BY <2>1, <2>2, StillLooping
  <1> QED BY <1>2, <1>3, <1>4, <1>5 DEF Updater

\* SIGTERM does not take the devices from a process that has them: it closes
\* its loops first.
LEMMA AskKeeps ==
  ASSUME IInv, NEW p \in Process, Ask(p)
  PROVE  Looping' = Looping
  <1> DEFINE q == proc[p].target
  <1>1. /\ proc \in [Process -> Images] /\ proc[p] \in Images
        /\ proc[p].stage = "asking" /\ q \in Process \ {p}
    BY Taking DEF Ask, Sound
  <1>2. p \notin Looping
    BY <1>1 DEF Looping, At
  <1>3. CASE q \notin Alive \/ proc[p].restarted
    BY <1>2, <1>3, NotLooping, GoneImage DEF Ask
  <1>4. CASE ~(q \notin Alive \/ proc[p].restarted)
    <2> DEFINE i == [proc[p] EXCEPT !.stage = "waiting"]
               j == Terminated(q)
    <2>1. proc' = [proc EXCEPT ![q] = j, ![p].stage = "waiting"]
      BY <1>4 DEF Ask
    <2>2. i.stage = "waiting"
      BY <1>1 DEF Images
    <2>3. proc[q].stage \in {"binding", "up", "closing"} <=> j.stage \in {"binding", "up", "closing"}
      <3>1. CASE proc[q].stage \in NoHandlers
        <4>1. j = Gone
          BY <3>1 DEF Terminated, NoHandlers
        <4> QED BY <3>1, <4>1, GoneImage DEF NoHandlers
      <3>2. CASE proc[q].stage \in {"binding", "up"}
        <4>1. j = [proc[q] EXCEPT !.stage = "closing"]
          BY <3>2 DEF Terminated, NoHandlers
        <4>2. proc[q] \in Images
          BY <1>1
        <4>3. [proc[q] EXCEPT !.stage = "closing"].stage = "closing"
          BY <4>2 DEF Images
        <4> QED BY <3>2, <4>1, <4>3
      <3>3. CASE ~(proc[q].stage \in NoHandlers) /\ ~(proc[q].stage \in {"binding", "up"})
        <4>1. j = proc[q]
          BY <3>3 DEF Terminated
        <4> QED BY <4>1
      <3> QED BY <3>1, <3>2, <3>3
    <2> HIDE DEF j
    <2>4. proc' = [proc EXCEPT ![q] = j, ![p] = i]
      BY <1>1, <2>1
    <2> HIDE DEF i, q
    <2>5. /\ proc'[p] = i /\ proc'[q] = j
          /\ \A r \in Process \ {p, q} : proc'[r] = proc[r]
      BY <1>1, <2>4
    <2> QED BY <1>1, <2>2, <2>3, <2>5 DEF Looping, At
  <1> QED BY <1>3, <1>4

\* The other steps of a daemon: it takes the devices when it runs, and lets
\* go of them when its loops are closed.
LEMMA DaemonMaps ==
  ASSUME IInv, NEW p \in Process, Daemon(p)
  PROVE  Guard!Next \/ Looping' = Looping
  <1> DEFINE i(stage) == [proc[p] EXCEPT !.stage = stage]
  <1>1. proc \in [Process -> Images] /\ proc[p] \in Images
    BY Taking
  <1>2. \A stage \in Stage : i(stage).stage = stage
    BY <1>1 DEF Images
  <1>3. \A stage \in Stage : [proc EXCEPT ![p].stage = stage] = [proc EXCEPT ![p] = i(stage)]
    BY <1>1
  <1> HIDE DEF i
  <1>4. {"settling", "binding", "up", "left"} \subseteq Stage
    BY DEF Stage
  <1>5. ASSUME proc[p].stage \notin {"binding", "up", "closing"} PROVE p \notin Looping
    BY <1>5 DEF Looping, At
  <1>6. CASE TakeLock(p)
    <2> DEFINE j == [proc[p] EXCEPT !.stage = "locked", !.target = None]
    <2>1. proc' = [proc EXCEPT ![p].stage = "locked", ![p].target = None]
      BY <1>6 DEF TakeLock
    <2>2. proc' = [proc EXCEPT ![p] = j] /\ j.stage = "locked"
      BY <1>1, <2>1 DEF Images
    <2> HIDE DEF j
    <2> QED BY <1>5, <1>6, <2>2, NotLooping DEF TakeLock
  <1>7. CASE WritePid(p)
    BY <1>2, <1>3, <1>4, <1>5, <1>7, NotLooping DEF WritePid
  <1>8. CASE ReadPid(p)
    <2> DEFINE j == [proc[p] EXCEPT !.stage = "asking", !.target = pid[p[1]]]
    <2>1. proc' \in {[proc EXCEPT ![p] = Gone], [proc EXCEPT ![p] = j]}
      BY <1>8 DEF ReadPid
    <2>2. j.stage = "asking"
      BY <1>1 DEF Images
    <2> HIDE DEF j
    <2> QED BY <1>5, <1>8, <2>1, <2>2, NotLooping, GoneImage DEF ReadPid
  <1>9. CASE Ask(p)
    BY <1>9, AskKeeps
  <1>10. CASE GiveUp(p)
    BY <1>5, <1>10, NotLooping, GoneImage DEF GiveUp
  <1>11. CASE ServerRuns(p)
    <2>1. Looping' = Looping \cup {p}
      BY <1>2, <1>3, <1>4, <1>11, Replaced DEF ServerRuns
    <2> QED BY <1>11, <2>1, Begins DEF ServerRuns
  <1>12. CASE ClientRuns(p)
    <2>1. Looping' = Looping \cup {p}
      BY <1>2, <1>3, <1>4, <1>12, Replaced DEF ClientRuns
    <2> QED BY <1>12, <2>1, Begins DEF ClientRuns
  <1>13. CASE Bind(p)
    <2>1. p \in Looping
      BY <1>13 DEF Bind, Looping, At
    <2> QED BY <1>2, <1>3, <1>4, <1>13, <2>1, StillLooping DEF Bind
  <1>14. CASE CloseLoops(p)
    <2>1. p \in Looping
      BY <1>14 DEF CloseLoops, Looping, At
    <2>2. Looping' = Looping \ {p}
      BY <1>2, <1>3, <1>4, <1>14, Replaced DEF CloseLoops
    <2> QED BY <2>1, <2>2, Ends
  <1>15. CASE Exit(p)
    BY <1>5, <1>15, NotLooping, GoneImage DEF Exit, Becomes
  <1>16. CASE Reexec(p)
    <2>1. Image("starting", disk[p[1]], TRUE).stage = "starting"
      BY DEF Image
    <2> QED BY <1>5, <1>16, <2>1, NotLooping DEF Reexec, Becomes
  <1> QED BY <1>6, <1>7, <1>8, <1>9, <1>10, <1>11, <1>12, <1>13, <1>14, <1>15, <1>16 DEF Daemon

LEMMA CrashMaps ==
  ASSUME IInv, NEW p \in Process, Crash(p)
  PROVE  Guard!Next \/ Looping' = Looping
  <1>1. proc' = [proc EXCEPT ![p] = Gone]
    BY DEF Crash, Becomes
  <1>2. CASE p \in Looping
    <2>1. Looping' = Looping \ {p}
      BY <1>1, GoneImage, Replaced
    <2> QED BY <1>2, <2>1, Ends
  <1>3. CASE p \notin Looping
    BY <1>1, <1>3, GoneImage, NotLooping
  <1> QED BY <1>2, <1>3

LEMMA StartMaps ==
  ASSUME IInv, NEW p \in Process, Start(p)
  PROVE  Looping' = Looping
  <1>1. p \notin Looping
    BY DEF Start, Looping, At
  <1>2. Image("starting", disk[p[1]], FALSE).stage = "starting"
    BY DEF Image
  <1> QED BY <1>1, <1>2, NotLooping DEF Start

LEMMA CommandMaps ==
  ASSUME IInv, NEW p \in Process, NEW restart \in BOOLEAN, Command(p, restart)
  PROVE  Looping' = Looping
  <1> DEFINE i == [proc[p] EXCEPT !.stage = "closing", !.again = restart]
  <1>1. proc \in [Process -> Images] /\ proc[p] \in Images
    BY Taking
  <1>2. proc' = [proc EXCEPT ![p].stage = "closing", ![p].again = restart]
    BY DEF Command
  <1>3. proc' = [proc EXCEPT ![p] = i] /\ i.stage = "closing"
    BY <1>1, <1>2 DEF Images
  <1>4. p \in Looping
    BY DEF Command, Looping, At
  <1> HIDE DEF i
  <1> QED BY <1>3, <1>4, StillLooping

LEMMA StepMaps == IInv /\ [Next]_vars => [Guard!Next]_([h \in Host |-> Looping \cap Of(h)])
  <1> SUFFICES ASSUME IInv, [Next]_vars
               PROVE  Guard!Next \/ Looping' = Looping
    BY Same DEF Has
  <1>1. ASSUME NEW p \in Process, Daemon(p) \/ Crash(p)
        PROVE  Guard!Next \/ Looping' = Looping
    BY <1>1, DaemonMaps, CrashMaps
  <1>2. ASSUME NEW p \in Process,
               \/ Updater(p) \/ Start(p)
               \/ \E restart \in BOOLEAN : Command(p, restart)
        PROVE  Looping' = Looping
    BY <1>2, UpdaterKeeps, StartMaps, CommandMaps
  <1>3. ASSUME UNCHANGED proc
        PROVE  Looping' = Looping
    BY <1>3 DEF Looping, At
  <1>4. ASSUME NEW p \in Process, \E q \in Process : Handshake(p, q)
        PROVE  Looping' = Looping
    BY <1>3, <1>4 DEF Handshake
  <1>5. ASSUME NEW h \in Host,
               \/ ProbeServer(h) \/ ProbeEnds(h)
               \/ \E answered \in BOOLEAN : ManualUpdate(h, answered)
               \/ GateExpires(h)
        PROVE  Looping' = Looping
    BY <1>3, <1>5 DEF ProbeServer, ProbeEnds, ManualUpdate, GateExpires
  <1>6. CASE Drained \/ Publish
    BY <1>3, <1>6 DEF Drained, Publish
  <1>7. CASE UNCHANGED vars
    BY <1>3, <1>7 DEF vars
  <1> QED BY <1>1, <1>2, <1>4, <1>5, <1>6, <1>7 DEF Next

\* No two daemons of a machine ever have its keyboards and virtual devices,
\* and none gets them before the last one has let go.
THEOREM Implementation == Spec => OneAtATime
<1>1. Init => Guard!Init
  <2> SUFFICES ASSUME Init
               PROVE  Guard!Init
    OBVIOUS
  <2>1. \A p \in Process : proc[p].stage = "unborn"
    BY DEF Init, Image
  <2>2. Looping = {}
    BY <2>1 DEF Looping, At
  <2> QED BY <2>2 DEF Guard!Init
<1>2. IInv /\ [Next]_vars => [Guard!Next]_([h \in Host |-> Looping \cap Of(h)])
  BY StepMaps
<1> QED BY <1>1, <1>2, Invariance, PTL DEF Spec, OneAtATime, Guard!Spec
=============================================================================
