------------------------------ MODULE Lifecycle ------------------------------
(***************************************************************************)
(* How daemons start, take over from each other, update themselves and     *)
(* restart: the single-instance lock (single_instance.rs), the shutdown    *)
(* and the re-exec (main.rs), the update loop and its gate (autoupdate.rs, *)
(* update.rs), on a machine that runs the server and one that runs a       *)
(* client.                                                                 *)
(*                                                                         *)
(* A release is a number, the revision at the repository's HEAD; several   *)
(* releases may speak the same protocol version.  Clocks are left out: the *)
(* update loop may look at any time (its daily tick, or a hint), and two   *)
(* waits are taken to be long enough for what they wait for: the 5s that a *)
(* contender gives an instance that is shutting down, and the 5s that the  *)
(* server gives the socket of the one before it.                           *)
(***************************************************************************)
EXTENDS Naturals, Sequences

CONSTANTS
    Server, Client,   \* the two machines
    None,
    Prober,           \* a 'monux system update' that holds the flock
    MaxStarts,        \* bound: processes started on each machine
    Settings          \* the settings to check: see Init

Host == {Server, Client}
\* A process, by its machine and its pid.  A pid is not used twice.
Process == Host \X (1 .. MaxStarts)

ASSUME LifecycleAssumption ==
    /\ Server # Client /\ MaxStarts \in Nat
    /\ None \notin Process \cup {Prober} /\ Prober \notin Process

ASSUME SettingsAssumption ==
    \A s \in Settings :
        /\ s.protocol \in Seq(Nat) /\ s.protocol # <<>>
        /\ \A h \in Host : s.gate[h] \in {None} \cup {s.protocol[i] : i \in DOMAIN s.protocol}
        /\ s.gate \in [Host -> {None} \cup Nat]

Of(h) == {h} \X (1 .. MaxStarts)

VARIABLES
    setting,    \* how the programs were started, and bounds: fixed
    head,       \* the release the repository publishes
    disk,       \* for each machine, the release that is installed
    gate,       \* for each machine, the file server_protocol_version
    lock,       \* for each machine, who holds the flock
    pid,        \* for each machine, the pid written in the lock file
    port,       \* the process that has the server's UDP port
    proc,       \* the processes
    manual,     \* for each machine, how far its 'monux system update' is
    wanted,     \* history: for each machine, was a daemon started and not
                \* stopped since?
    left        \* bounds: crashes, commands and failed builds still to come

vars == <<setting, head, disk, gate, lock, pid, port, proc, manual, wanted, left>>

\* A process that is not there yet or any more; one before acquire; one that
\* found the lock held and read a pid; one that sent SIGTERM and polls; one
\* that took the lock; one that wrote its pid; a server without its port; one
\* that serves; one whose loops are being closed; one that returned from them.
Stage == {"unborn", "gone", "starting", "asking", "waiting", "locked", "settling",
          "binding", "up", "closing", "left"}
Job == {"idle", "pulling", "building", "grace"}
Release == 0 .. Len(setting.protocol) - 1
Protocol(r) == setting.protocol[r + 1]

\* An image: the release it was loaded from, MONUX_RESTARTED, and the flag
\* RESTART_AFTER_EXIT; the pid it read in the lock file; what its update loop
\* does, the revision that it saw at the remote, the one it pulled, and
\* last_attempted.
Image(stage, release, restarted) ==
    [stage |-> stage, release |-> release, restarted |-> restarted, again |-> FALSE,
     target |-> None, job |-> "idle", found |-> None, pulled |-> None, attempted |-> None]
Gone == Image("gone", None, FALSE)

\* A setting: the releases and their protocol versions, whether each machine's
\* daemon updates itself, how many are started on it, whether its user runs an
\* update by hand, the gate files at first, and bounds.
Init ==
    /\ setting \in Settings
    /\ head = 0
    /\ disk = [h \in Host |-> 0] /\ gate = setting.gate
    /\ lock = [h \in Host |-> None] /\ pid = [h \in Host |-> None] /\ port = None
    /\ proc = [p \in Process |-> Image("unborn", None, FALSE)]
    /\ manual = [h \in Host |-> IF h \in setting.manual THEN "due" ELSE "done"]
    /\ wanted = [h \in Host |-> FALSE]
    /\ left = setting.left

At(stages) == {p \in Process : proc[p].stage \in stages}
Alive == At(Stage \ {"unborn", "gone"})
\* The other processes on p's machine that are not about to exit.
Others(p) == {q \in (Alive \cap Of(p[1])) \ {p} : proc[q].again \/ proc[q].stage \notin {"closing", "left"}}
\* Those whose runtime still runs the update loop.
Looping == At({"binding", "up", "closing"})

-----------------------------------------------------------------------------
(* What happens to a process.                                              *)

\* The kernel takes back what a process has when it ends or execs.
Without(held, ps) == [h \in Host |-> IF held[h] \in ps THEN None ELSE held[h]]
PortWithout(ps) == IF port \in ps THEN None ELSE port

Becomes(p, image) ==
    /\ proc' = [proc EXCEPT ![p] = image]
    /\ lock' = Without(lock, {p}) /\ port' = PortWithout({p})

\* SIGTERM ends an image that has no handlers yet, starts the shutdown of one
\* that serves, and is swallowed by one that is shutting down.
NoHandlers == {"starting", "asking", "waiting", "locked", "settling"}
Terminated(q) ==
    CASE proc[q].stage \in NoHandlers -> Gone
      [] proc[q].stage \in {"binding", "up"} -> [proc[q] EXCEPT !.stage = "closing"]
      [] OTHER -> proc[q]
Killed(q) == IF proc[q].stage \in NoHandlers THEN {q} ELSE {}

\* The user, the desktop's autostart or systemd starts a daemon.
Start(p) ==
    LET h == p[1]
    IN  /\ proc[p].stage = "unborn" /\ p[2] <= setting.starts[h]
        /\ \A q \in Of(h) : q[2] < p[2] => proc[q].stage # "unborn"
        /\ proc' = [proc EXCEPT ![p] = Image("starting", disk[h], FALSE)]
        /\ wanted' = [wanted EXCEPT ![h] = TRUE]
        /\ UNCHANGED <<setting, head, disk, gate, lock, pid, port, manual, left>>

\* A crash or kill -9.
Crash(p) ==
    /\ left.crashes > 0 /\ p \in Alive
    /\ left' = [left EXCEPT !.crashes = @ - 1]
    /\ Becomes(p, Gone)
    /\ wanted' = [wanted EXCEPT ![p[1]] = FALSE]
    /\ UNCHANGED <<setting, head, disk, gate, pid, manual>>

-----------------------------------------------------------------------------
(* single_instance::acquire.                                               *)

\* Mutant of TakeLock: after the timeout the contender goes on without it.
TakeLockLate(p) ==
    /\ proc[p].stage \in {"starting", "waiting"}
    /\ lock[p[1]] = None \/ proc[p].stage = "waiting"
    /\ lock' = [lock EXCEPT ![p[1]] = p]
    /\ proc' = [proc EXCEPT ![p].stage = "locked", ![p].target = None]
    /\ UNCHANGED <<setting, head, disk, gate, pid, port, manual, wanted, left>>

\* try_lock succeeds at once, or while polling for a previous instance.
TakeLock(p) ==
    /\ proc[p].stage \in {"starting", "waiting"} /\ lock[p[1]] = None
    /\ lock' = [lock EXCEPT ![p[1]] = p]
    /\ proc' = [proc EXCEPT ![p].stage = "locked", ![p].target = None]
    /\ UNCHANGED <<setting, head, disk, gate, pid, port, manual, wanted, left>>

WritePid(p) ==
    /\ proc[p].stage = "locked"
    /\ pid' = [pid EXCEPT ![p[1]] = p]
    /\ proc' = [proc EXCEPT ![p].stage = "settling"]
    /\ UNCHANGED <<setting, head, disk, gate, lock, port, manual, wanted, left>>

\* The lock is held.  The pid in the file may not be the holder's: the holder
\* writes its own after it took the lock.  Without a pid, or with the
\* process's own, acquire fails.
ReadPid(p) ==
    LET q == pid[p[1]]
    IN  /\ proc[p].stage = "starting" /\ lock[p[1]] # None
        /\ proc' = [proc EXCEPT ![p] =
                       IF q \in {None, p} THEN Gone ELSE [@ EXCEPT !.stage = "asking", !.target = q]]
        /\ UNCHANGED <<setting, head, disk, gate, lock, pid, port, manual, wanted, left>>

\* Nobody is asked by a process that was restarted for an update, nor if the
\* pid is of no monux (any more): acquire fails.  Otherwise it sends SIGTERM.
\* (A start that was refused for an instance that had just exited counts as no
\* start: see StartsMeetAnother.)
Ask(p) ==
    LET q == proc[p].target
        refused == q \notin Alive \/ proc[p].restarted
    IN  /\ proc[p].stage = "asking"
        /\ wanted' = [wanted EXCEPT ![p[1]] = @ /\ (refused => Others(p) # {})]
        /\ proc' = IF refused THEN [proc EXCEPT ![p] = Gone]
                   ELSE [proc EXCEPT ![q] = Terminated(q), ![p].stage = "waiting"]
        /\ IF refused THEN UNCHANGED <<lock, port>>
           ELSE lock' = Without(lock, Killed(q)) /\ port' = PortWithout(Killed(q))
        /\ UNCHANGED <<setting, head, disk, gate, pid, manual, left>>

\* The one that has the lock is not the one that is leaving.
GiveUp(p) ==
    /\ proc[p].stage = "waiting"
    /\ lock[p[1]] \in Process /\ proc[lock[p[1]]].stage # "closing"
    /\ proc' = [proc EXCEPT ![p] = Gone]
    /\ UNCHANGED <<setting, head, disk, gate, lock, pid, port, manual, wanted, left>>

-----------------------------------------------------------------------------
(* The daemon's way up and down (main.rs).                                 *)

\* A server forgets the protocol version that its machine recorded as a
\* client (no client runs on it), and creates its devices.
ServerRuns(p) ==
    /\ proc[p].stage = "settling" /\ p[1] = Server
    /\ gate' = [gate EXCEPT ![Server] = None]
    /\ proc' = [proc EXCEPT ![p].stage = "binding"]
    /\ UNCHANGED <<setting, head, disk, lock, pid, port, manual, wanted, left>>

ClientRuns(p) ==
    /\ proc[p].stage = "settling" /\ p[1] = Client
    /\ proc' = [proc EXCEPT ![p].stage = "up"]
    /\ UNCHANGED <<setting, head, disk, gate, lock, pid, port, manual, wanted, left>>

\* Mutant of Bind: no retry.
BindOnce(p) ==
    /\ proc[p].stage = "binding"
    /\ IF port = None
       THEN port' = p /\ proc' = [proc EXCEPT ![p].stage = "up"] /\ UNCHANGED lock
       ELSE Becomes(p, Gone)
    /\ UNCHANGED <<setting, head, disk, gate, pid, manual, wanted, left>>

\* bind_server_with_retry, once the socket of the instance before is closed.
Bind(p) ==
    /\ proc[p].stage = "binding" /\ port = None
    /\ port' = p
    /\ proc' = [proc EXCEPT ![p].stage = "up"]
    /\ UNCHANGED <<setting, head, disk, gate, lock, pid, manual, wanted, left>>

\* The endpoint's driver closes the socket once the connections are drained;
\* the daemon does not wait for it longer than ENDPOINT_DRAIN_TIMEOUT.
Drained ==
    /\ port # None /\ proc[port].stage \in {"closing", "left"}
    /\ port' = None
    /\ UNCHANGED <<setting, head, disk, gate, lock, pid, proc, manual, wanted, left>>

\* close_loops is through and the lock goes out of scope.
CloseLoops(p) ==
    /\ proc[p].stage = "closing"
    /\ lock' = Without(lock, {p})
    /\ proc' = [proc EXCEPT ![p].stage = "left"]
    /\ UNCHANGED <<setting, head, disk, gate, pid, port, manual, wanted, left>>

\* The end of main: the runtime waits for a pull or a build.
Exit(p) ==
    /\ proc[p].stage = "left" /\ ~proc[p].again /\ proc[p].job \in {"idle", "grace"}
    /\ Becomes(p, Gone)
    /\ UNCHANGED <<setting, head, disk, gate, pid, manual, wanted, left>>

\* Mutant of Reexec: the image that was running is started again.
ReexecOld(p) ==
    /\ proc[p].stage = "left" /\ proc[p].again
    /\ Becomes(p, Image("starting", proc[p].release, TRUE))
    /\ UNCHANGED <<setting, head, disk, gate, pid, manual, wanted, left>>

\* Mutant of Reexec: the socket survives the exec.
ReexecWithSocket(p) ==
    /\ proc[p].stage = "left" /\ proc[p].again
    /\ proc' = [proc EXCEPT ![p] = Image("starting", disk[p[1]], TRUE)]
    /\ UNCHANGED <<setting, head, disk, gate, lock, pid, port, manual, wanted, left>>

\* reexec_after_update: the same pid, with the binary that is now on disk.
Reexec(p) ==
    /\ proc[p].stage = "left" /\ proc[p].again
    /\ Becomes(p, Image("starting", disk[p[1]], TRUE))
    /\ UNCHANGED <<setting, head, disk, gate, pid, manual, wanted, left>>

\* 'monux daemon exit' and 'monux daemon restart', over the control socket.
Command(p, restart) ==
    /\ left.commands > 0 /\ p \in At({"binding", "up"})
    /\ left' = [left EXCEPT !.commands = @ - 1]
    /\ proc' = [proc EXCEPT ![p].stage = "closing", ![p].again = restart]
    /\ wanted' = [wanted EXCEPT ![p[1]] = @ /\ restart]
    /\ UNCHANGED <<setting, head, disk, gate, lock, pid, port, manual>>

-----------------------------------------------------------------------------
(* The update gate.                                                        *)

\* The protocol versions that servers on other machines advertise.
Advertised(h) == {Protocol(proc[s].release) : s \in {t \in At({"binding", "up"}) : t[1] = Server /\ h # Server}}

\* refresh_protocol_constraint, if servers answer in time or if none does.
\* There is one server, and so at most one version.
Constraint(h, answered) ==
    IF answered /\ Advertised(h) # {} THEN CHOOSE v \in Advertised(h) : TRUE ELSE gate[h]

Passes(r, constraint) == constraint = None \/ Protocol(r) = constraint

\* Mutant of Handshake: only the version of a server that it gets on with.
HandshakeIfCompatible(c, s) ==
    /\ c \in At({"up"}) /\ c[1] = Client /\ s \in At({"up"}) /\ s[1] = Server
    /\ gate[Client] # Protocol(proc[s].release)
    /\ Protocol(proc[c].release) = Protocol(proc[s].release)
    /\ gate' = [gate EXCEPT ![Client] = Protocol(proc[s].release)]
    /\ UNCHANGED <<setting, head, disk, lock, pid, port, proc, manual, wanted, left>>

\* Connection::new: client and server exchange versions; whether they get on
\* or not, the client records the server's.  (A newer one also wakes its
\* update loop.)
Handshake(c, s) ==
    /\ c \in At({"up"}) /\ c[1] = Client /\ s \in At({"up"}) /\ s[1] = Server
    /\ gate[Client] # Protocol(proc[s].release)
    /\ gate' = [gate EXCEPT ![Client] = Protocol(proc[s].release)]
    /\ UNCHANGED <<setting, head, disk, lock, pid, port, proc, manual, wanted, left>>

\* The handshakes that are refused.  Their client connects anew; one that is
\* accepted stays connected, and exchanges versions once per connection.
Refused(c, s) == Handshake(c, s) /\ Protocol(proc[c].release) # Protocol(proc[s].release)

\* SERVER_PROTOCOL_VERSION_MAX_AGE since the file was last written: by a
\* handshake, or an update that servers answered.  The machine may have been
\* off, or cut off, or no client's; or its client is in a session that lasts.
GateExpires(h) ==
    /\ setting.expires /\ gate[h] # None
    /\ gate' = [gate EXCEPT ![h] = None]
    /\ UNCHANGED <<setting, head, disk, lock, pid, port, proc, manual, wanted, left>>

-----------------------------------------------------------------------------
(* The update loop (autoupdate.rs) and an update by hand.                  *)

Publish ==
    /\ head + 1 \in Release
    /\ head' = head + 1
    /\ UNCHANGED <<setting, disk, gate, lock, pid, port, proc, manual, wanted, left>>

\* The remote has a revision that is not this build's and was not attempted.
Check(p) ==
    /\ p \in At({"binding", "up"}) /\ setting.auto[p[1]]
    /\ proc[p].job = "idle" /\ head \notin {proc[p].release, proc[p].attempted}
    /\ proc' = [proc EXCEPT ![p].job = "pulling", ![p].found = head]
    /\ UNCHANGED <<setting, head, disk, gate, lock, pid, port, manual, wanted, left>>

\* update::run up to the build: what it pulls may be newer than what the check
\* saw.  A client refreshes its gate first.  A build the gate refuses is not
\* recorded as attempted.  (cargo's lock on the build directory lets one build
\* at a time run on a machine.)
Pull(p, answered) ==
    LET h == p[1]
        constraint == IF h = Client THEN Constraint(h, answered) ELSE None
    IN  /\ proc[p].job = "pulling"
        /\ \A q \in Of(h) : proc[q].job # "building"
        /\ gate' = IF h = Client THEN [gate EXCEPT ![h] = constraint] ELSE gate
        /\ proc' = [proc EXCEPT ![p] =
                       IF Passes(head, constraint)
                       THEN [@ EXCEPT !.job = "building", !.pulled = head]
                       ELSE [@ EXCEPT !.job = "idle", !.found = None]]
        /\ UNCHANGED <<setting, head, disk, lock, pid, port, manual, wanted, left>>

\* The build ends.  If the process is past its shutdown by then, its runtime
\* only waited for it, and nobody acts on the outcome.
Build(p, fails) ==
    /\ proc[p].job = "building"
    /\ fails => left.failures > 0
    /\ left' = IF fails THEN [left EXCEPT !.failures = @ - 1] ELSE left
    /\ disk' = IF fails THEN disk ELSE [disk EXCEPT ![p[1]] = proc[p].pulled]
    /\ proc' = [proc EXCEPT ![p].job = IF fails \/ p \notin Looping THEN "idle" ELSE "grace",
                            ![p].attempted = proc[p].found,
                            ![p].found = None, ![p].pulled = None]
    /\ UNCHANGED <<setting, head, gate, lock, pid, port, manual, wanted>>

\* RESTART_DELAY later: schedule_restart.
ScheduleRestart(p) ==
    /\ proc[p].job = "grace" /\ p \in Looping
    /\ proc' = [proc EXCEPT ![p].job = "idle", ![p].again = TRUE, ![p].stage = "closing"]
    /\ UNCHANGED <<setting, head, disk, gate, lock, pid, port, manual, wanted, left>>

\* 'monux system update' first finds out whether its machine is a server's.
\* live_holder tries the lock itself: if it is free it holds it for a moment.
\* (A start that meets it may be refused; SomeoneRuns does not count it.)
ProbeServer(h) ==
    /\ manual[h] = "due"
    /\ manual' = [manual EXCEPT ![h] =
                     CASE h = Client -> "gated"
                       [] h = Server /\ lock[h] = None -> "probing"
                       [] h = Server /\ lock[h] # None /\ pid[h] \in Alive -> "ungated"
                       [] OTHER -> "gated"]
    /\ lock' = IF h = Server /\ lock[h] = None THEN [lock EXCEPT ![h] = Prober] ELSE lock
    /\ UNCHANGED <<setting, head, disk, gate, pid, port, proc, wanted, left>>

ProbeEnds(h) ==
    /\ manual[h] = "probing"
    /\ manual' = [manual EXCEPT ![h] = "gated"]
    /\ lock' = [lock EXCEPT ![h] = None]
    /\ wanted' = [wanted EXCEPT ![h] = FALSE]
    /\ UNCHANGED <<setting, head, disk, gate, pid, port, proc, left>>

\* The rest of it, without the steps of its build.
ManualUpdate(h, answered) ==
    LET constraint == IF manual[h] = "gated" THEN Constraint(h, answered) ELSE None
    IN  /\ manual[h] \in {"gated", "ungated"}
        /\ gate' = IF manual[h] = "gated" THEN [gate EXCEPT ![h] = constraint] ELSE gate
        /\ disk' = IF Passes(head, constraint) THEN [disk EXCEPT ![h] = head] ELSE disk
        /\ manual' = [manual EXCEPT ![h] = "done"]
        /\ UNCHANGED <<setting, head, lock, pid, port, proc, wanted, left>>

-----------------------------------------------------------------------------

\* What a process does without anybody's doing: the daemon itself, and the
\* update loop beside it.
Daemon(p) ==
    \/ TakeLock(p) \/ WritePid(p) \/ ReadPid(p) \/ Ask(p) \/ GiveUp(p)
    \/ ServerRuns(p) \/ ClientRuns(p) \/ Bind(p)
    \/ CloseLoops(p) \/ Exit(p) \/ Reexec(p)
Updater(p) ==
    \/ Check(p) \/ \E answered \in BOOLEAN : Pull(p, answered)
    \/ \E fails \in BOOLEAN : Build(p, fails)
    \/ ScheduleRestart(p)

Next ==
    \/ \E p \in Process :
          \/ Daemon(p) \/ Updater(p) \/ Start(p) \/ Crash(p)
          \/ \E restart \in BOOLEAN : Command(p, restart)
          \/ \E q \in Process : Handshake(p, q)
    \/ \E h \in Host :
          \/ ProbeServer(h) \/ ProbeEnds(h) \/ \E answered \in BOOLEAN : ManualUpdate(h, answered)
          \/ GateExpires(h)
    \/ Drained \/ Publish

Spec == Init /\ [][Next]_vars

\* A process goes on, a client that a server refuses keeps trying to connect,
\* and a probe ends.  Nobody has to start, stop, crash or publish anything, and
\* no session has to end.
FairSpec ==
    /\ Spec
    /\ \A p \in Process : WF_vars(Daemon(p)) /\ WF_vars(Updater(p))
    /\ WF_vars(\E c, s \in Process : Refused(c, s))
    /\ \A h \in Host : WF_vars(ProbeEnds(h))

-----------------------------------------------------------------------------
(* Properties.                                                             *)

OrNone(S) == S \cup {None}
Images == [stage : Stage, release : OrNone(Release), restarted : BOOLEAN, again : BOOLEAN,
           target : OrNone(Process), job : Job, found : OrNone(Release),
           pulled : OrNone(Release), attempted : OrNone(Release)]

TypeOK ==
    /\ setting \in Settings
    /\ head \in Release
    /\ disk \in [Host -> Release]
    /\ gate \in [Host -> OrNone({Protocol(r) : r \in Release})]
    /\ lock \in [Host -> OrNone(Process \cup {Prober})]
    /\ pid \in [Host -> OrNone(Process)] /\ port \in OrNone(Process)
    /\ proc \in [Process -> Images]
    /\ manual \in [Host -> {"due", "probing", "gated", "ungated", "done"}]
    /\ wanted \in [Host -> BOOLEAN]

\* The server's port is with the process that has the lock, or still with the
\* one that is on its way out: bind_server_with_retry waits for nobody else.
PortFollowsLock ==
    port # None => \/ lock[Server] = port
                   \/ proc[port].stage = "left"

LifecycleInv == TypeOK /\ PortFollowsLock

\* single_instance.rs implements InstanceGuard: through starts that contend,
\* restarts, crashes and a lock file that names another process, no two
\* daemons of a machine have its keyboards and virtual devices.
Guard == INSTANCE InstanceGuard
    WITH Instance <- Process, running <- [h \in Host |-> Looping \cap Of(h)]
OneAtATime == Guard!Spec

Running(h) == Of(h) \cap At({"up"})

\* However instances contend for the lock: once a daemon was started, and
\* unless it was stopped or crashed, in the end one is up.  None of them
\* yields to one that yields to it.
SomeoneRuns == \A h \in Host : []<>(wanted[h] => Running(h) # {})

\* What single_instance.rs says: who finds the lock held finds an instance
\* alive, and takes over from it.  A start is refused only for another one.
StartsMeetAnother ==
    [][\A p \in Process :
          /\ proc[p].stage \in {"starting", "asking"} /\ proc'[p].stage = "gone"
          /\ left' = left
          => Others(p) # {}]_vars

\* A release that was published runs in the end, also if another start got in
\* between its installation and the restart; only a build that failed is not
\* tried again until there is another release.
GaveUp(p) == proc[p].job = "idle" /\ proc[p].attempted = head
UpdateTakesEffect ==
    setting.auto[Server] =>
        []<>(wanted[Server] => \E p \in Running(Server) : proc[p].release = head \/ GaveUp(p))

\* A client that got past a server that does not update itself, where records
\* expire: it may have built when it had none, and no server answered.
Overtook(c, s) ==
    /\ setting.expires /\ ~setting.auto[Server]
    /\ Protocol(proc[c].release) > Protocol(proc[s].release)

\* Server and client end up with releases that speak the same protocol
\* version, unless a build fails.  While its record is younger than two days a
\* client does not update past its server.  If the record expires it may, and
\* is stuck if the server stays where it is; a server that updates itself
\* catches up.  And whatever expires, a client that is behind its server, or
\* whose record is of a server that has updated since, is not kept back.
ProtocolsMeetAgain ==
    []<>(wanted[Server] /\ wanted[Client] =>
            \E s \in Running(Server), c \in Running(Client) :
                \/ Protocol(proc[s].release) = Protocol(proc[c].release)
                \/ Overtook(c, s)
                \/ GaveUp(s) \/ GaveUp(c))

-----------------------------------------------------------------------------
(* What the code's comments and documentation say, and the code does not   *)
(* always keep.                                                            *)

\* update.rs, on the record: it gates updates "so a client never installs a
\* build its server couldn't talk to", and "an older record means this machine
\* has not acted as a client in days".  A client whose session outlives the
\* record installs one (with expires, and no answer), and meets a server that
\* does not update itself no more.
MeetsEveryServer ==
    []<>(wanted[Server] /\ wanted[Client] =>
            \E s \in Running(Server), c \in Running(Client) :
                \/ Protocol(proc[s].release) = Protocol(proc[c].release)
                \/ GaveUp(s) \/ GaveUp(c))

=============================================================================
