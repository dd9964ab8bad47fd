------------------------------ MODULE Session ------------------------------
(***************************************************************************)
(* From a client's first packet to a member of the rotation that knows its *)
(* return edge: the reconnect loop of the client program (main.rs), the    *)
(* handshake with the approval of its certificate (approval.rs), the one   *)
(* slot that carries a certificate's fingerprint from the TLS verifier to  *)
(* the accept loop (server.rs), the exchange of versions, and the edges    *)
(* the rotation tells each member of.                                      *)
(*                                                                         *)
(* An endpoint is the addr:port a connection comes from.  A client binds a *)
(* fresh port for every attempt; an attempt here takes an endpoint that    *)
(* the server knows nothing of (Rotation has the case that it still does). *)
(***************************************************************************)
EXTENDS EdgeGeometry

CONSTANTS
    Machine,    \* the client machines; each has one certificate
    Endpoint,   \* addr:port pairs connections come from
    Address,    \* where the server may be
    Settings,   \* the settings to check: see Init
    Rediscover  \* failures in a row after which mDNS is asked again

ASSUME SessionAssumption ==
    /\ Endpoint \subseteq Nat /\ IsFiniteSet(Endpoint) /\ None \notin Machine \cup Endpoint
    /\ Rediscover \in Nat \ {0}
    /\ \A s \in Settings : /\ s.machines \cup s.approved \subseteq Machine /\ s.home \in Address
                          /\ DOMAIN s.target \subseteq Directions
                          /\ s.losses \in Nat /\ s.restarts \in Nat

VARIABLES
    setting,    \* who there is and how the programs were started: fixed
    conn,       \* the connection from each endpoint, if there is one
    machine,    \* the reconnect loop of each machine's client program
    slot,       \* the fingerprint on its way to the accept loop
    prompt,     \* the connection whose certificate the user is asked about
    known,      \* known_certs: approved certificates
    disk,       \* the certificates in the known_certs directory
    server,     \* where the server listens, and how often it restarted
    losses,     \* how often the network lost a connection
    raced       \* history: were two certificates verified between another
                \* one and the end of its handshake?

vars == <<setting, conn, machine, slot, prompt, known, disk, server, losses, raced>>

\* A connection: the machine at its other end, how far the server is with it,
\* whether packets still pass, the fingerprint the server took for it, the
\* directions it was told of (edge_info_sent), those messages that are still
\* on the way, the return edges the client inferred of them, and (history)
\* whether another certificate was verified since its own.
Stage == {"hello", "prompt", "stored", "named", "queued", "added", "over"}
Connection == [who : Machine, stage : Stage, up : BOOLEAN, id : Machine \cup {None},
               sent : SUBSET Directions,
               stream : Seq([kind : {"tell", "revoke"}, direction : Directions]),
               edges : SUBSET Directions, crossed : BOOLEAN]
ASSUME NotAConnection == None \notin Connection

NewConnection(m) == [who |-> m, stage |-> "hello", up |-> TRUE, id |-> None, sent |-> {},
                     stream |-> <<>>, edges |-> {}, crossed |-> FALSE]

Live == {e \in Endpoint : conn[e] # None}
At(stage) == {e \in Live : conn[e].stage = stage}
Members == At("added")

\* The program on machine m: which connection it is busy with, the address it
\* tries, the failures in a row, and whether it waits to try again.
Program == [at : Endpoint \cup {None}, address : Address, failures : 0..Rediscover,
            waiting : BOOLEAN]

\* A setting: the machines that run a client, those that speak another
\* protocol version, those named by --fingerprints and those approved in an
\* earlier run, whether the server may prompt (it may not in --www mode), the
\* server's --edge-map, the machines with an --edge-map of their own,
\* where the server is at first, and two bounds: how many connections the
\* network loses, and how often the server restarts.
Init ==
    /\ setting \in Settings
    /\ conn = [e \in Endpoint |-> None]
    /\ server = [address |-> setting.home, restarts |-> 0]
    /\ machine = [m \in Machine |->
                     [at |-> None, address |-> server.address, failures |-> 0, waiting |-> TRUE]]
    /\ slot = None /\ prompt = None
    /\ disk = setting.approved /\ known = disk
    /\ losses = 0 /\ raced = FALSE

-----------------------------------------------------------------------------
(* The two ends of a connection let go of it.                              *)

Attached(e) == machine[conn[e].who].at = e

\* The server is done with the connections of a set (the client may not have
\* noticed yet).
Drop(es) == [e \in Endpoint |->
    IF e \notin es \/ conn[e] = None THEN conn[e]
    ELSE IF Attached(e) THEN [conn[e] EXCEPT !.stage = "over", !.up = FALSE] ELSE None]

-----------------------------------------------------------------------------
(* The reconnect loop (main.rs client).                                    *)

\* The program after a failure or, if the session was up for HEALTHY_SESSION,
\* after a clean start: it waits for the next try, or asks mDNS first.  (The
\* count is only read by a client that found its server by mDNS.)
Again(p, healthy) ==
    LET n == IF healthy THEN 0 ELSE p.failures + 1
    IN  [p EXCEPT !.at = None, !.failures = IF setting.fromDiscovery THEN n ELSE 0,
                  !.waiting = ~setting.fromDiscovery \/ n < Rediscover]

\* Connection::new begins a handshake with the server at the known address,
\* from a fresh port (whichever: ports are all alike).
Connect(m) ==
    /\ machine[m].at = None /\ machine[m].waiting
    /\ machine[m].address = server.address
    /\ Live # Endpoint
    /\ LET e == CHOOSE f \in Endpoint : f \notin Live
       IN  /\ machine' = [machine EXCEPT ![m].at = e]
           /\ conn' = [conn EXCEPT ![e] = NewConnection(m)]
    /\ UNCHANGED <<setting, slot, prompt, known, disk, server, losses, raced>>

\* Nobody answers there.
ConnectFails(m) ==
    /\ machine[m].at = None /\ machine[m].waiting
    /\ machine[m].address # server.address
    /\ machine' = [machine EXCEPT ![m] = Again(machine[m], FALSE)]
    /\ UNCHANGED <<setting, conn, slot, prompt, known, disk, server, losses, raced>>

\* client::run returns: the session or the attempt is over for the client.
SessionEnds(m, healthy) ==
    LET e == machine[m].at
    IN  /\ e # None /\ ~conn[e].up
        /\ conn' = [conn EXCEPT ![e] = IF conn[e].stage = "over" THEN None ELSE conn[e]]
        /\ machine' = [machine EXCEPT ![m] = Again(machine[m], healthy)]
        /\ UNCHANGED <<setting, slot, prompt, known, disk, server, losses, raced>>

\* Mutant of Discover: only a failed discovery starts the loop again.
DiscoverForgets(m, found) ==
    /\ machine[m].at = None /\ ~machine[m].waiting
    /\ machine' = [machine EXCEPT ![m].failures = 0, ![m].waiting = TRUE]
    /\ UNCHANGED <<setting, conn, slot, prompt, known, disk, server, losses, raced>>

\* discover_server after the third failure: the server's address, or the old
\* one is kept.
Discover(m, found) ==
    /\ machine[m].at = None /\ ~machine[m].waiting
    /\ machine' = [machine EXCEPT ![m].address = IF found THEN server.address ELSE @,
                                  ![m].failures = 0, ![m].waiting = TRUE]
    /\ UNCHANGED <<setting, conn, slot, prompt, known, disk, server, losses, raced>>

-----------------------------------------------------------------------------
(* The server's TLS verifier (approval.rs).                                *)

Trusted == known \cup setting.preapproved

\* verify_client_cert for an accepted certificate: its fingerprint goes to
\* the slot.  One that is still there means that two handshakes crossed: both
\* are to be turned down.
Crossed(e) == At("stored") \ {e}
Store(c, e) ==
    /\ conn' = [f \in Endpoint |-> IF f \in Crossed(e) THEN [c[f] EXCEPT !.crossed = TRUE] ELSE c[f]]
    /\ raced' = (raced \/ \E f \in Crossed(e) : conn[f].crossed)

\* Mutant of StoreFingerprint: the old fingerprint is overwritten.
StoreFingerprintOver(e) ==
    /\ slot' = conn[e].who
    /\ Store([conn EXCEPT ![e].stage = "stored"], e)

StoreFingerprint(e) ==
    IF slot = None
    THEN slot' = conn[e].who /\ Store([conn EXCEPT ![e].stage = "stored"], e)
    ELSE slot' = None /\ Store(Drop({e}), e)

\* verify_cert lets a known or preapproved certificate through.
VerifyKnown(e) ==
    /\ e \in At("hello") /\ conn[e].who \in Trusted
    /\ known' = known \cup {conn[e].who}
    /\ StoreFingerprint(e)
    /\ UNCHANGED <<setting, machine, prompt, disk, server, losses>>

\* It turns an unknown one away while it may not ask.
VerifyRefused(e) ==
    /\ e \in At("hello") /\ conn[e].who \notin Trusted
    /\ ~setting.interactive \/ prompt # None
    /\ conn' = Drop({e})
    /\ UNCHANGED <<setting, machine, slot, prompt, known, disk, server, losses, raced>>

\* It asks the user, without a lock.
VerifyAsks(e) ==
    /\ e \in At("hello") /\ conn[e].who \notin Trusted
    /\ setting.interactive /\ prompt = None
    /\ prompt' = e
    /\ conn' = [conn EXCEPT ![e].stage = "prompt"]
    /\ UNCHANGED <<setting, machine, slot, known, disk, server, losses, raced>>

\* The user says yes.  The certificate may not make it to the disk.
Saved(m, written) == IF written THEN disk \cup {m} ELSE disk
Approve(e, written) ==
    /\ prompt = e /\ e \in At("prompt")
    /\ prompt' = None
    /\ known' = known \cup {conn[e].who}
    /\ disk' = Saved(conn[e].who, written)
    /\ StoreFingerprint(e)
    /\ UNCHANGED <<setting, machine, server, losses>>

\* The user says no, or nothing for PROMPT_TIMEOUT_SECS, or cannot be asked.
Disapprove(e) ==
    /\ prompt = e /\ e \in At("prompt")
    /\ prompt' = None
    /\ conn' = Drop({e})
    /\ UNCHANGED <<setting, machine, slot, known, disk, server, losses, raced>>

-----------------------------------------------------------------------------
(* The accept loop and handle_connection (server.rs).                      *)

\* The handshake fails or times out.  A fingerprint it stored stays.
HandshakeFails(e) ==
    /\ e \in At("hello") \cup At("stored") /\ ~conn[e].up
    /\ conn' = Drop({e})
    /\ UNCHANGED <<setting, machine, slot, prompt, known, disk, server, losses, raced>>

\* The handshake is complete: take the fingerprint, whosever it is.
TakeFingerprint(e) ==
    /\ e \in At("stored") /\ conn[e].up
    /\ slot' = None
    /\ conn' = IF slot = None THEN Drop({e})
               ELSE [conn EXCEPT ![e].stage = "named", ![e].id = slot]
    /\ UNCHANGED <<setting, machine, prompt, known, disk, server, losses, raced>>

\* ensure_compatible_version, on either side.
Compatible(m) == m \notin setting.outdated

\* Mutant of ExchangeVersions: the answer is not judged.
ExchangeVersionsOnly(e) ==
    /\ e \in At("named")
    /\ conn' = IF conn[e].up THEN [conn EXCEPT ![e].stage = "queued"] ELSE Drop({e})
    /\ UNCHANGED <<setting, machine, slot, prompt, known, disk, server, losses, raced>>

\* The versions are exchanged on both streams; a client that speaks another
\* one is turned away before the rotation hears of it.
ExchangeVersions(e) ==
    /\ e \in At("named")
    /\ conn' = IF conn[e].up /\ Compatible(conn[e].who)
               THEN [conn EXCEPT ![e].stage = "queued"] ELSE Drop({e})
    /\ UNCHANGED <<setting, machine, slot, prompt, known, disk, server, losses, raced>>

-----------------------------------------------------------------------------
(* The rotation's members and their edges.                                 *)

\* edge_info_directions: the directions of the server's --edge-map that lead
\* to the machine e is taken for.
IdOf(c) == [e \in {f \in Endpoint : c[f] # None} |-> c[e].id]
EdgeInfoDirections(c, members, e) ==
    {d \in DOMAIN setting.target : Resolve(setting.target[d], members, IdOf(c)) = c[e].id}

\* advertise_edge_info, for every member of a set: what is no longer so is
\* revoked, then what is new is told.  It counts as sent before it is written.
Advertise(c, members, told) ==
    [e \in Endpoint |->
        IF e \notin told THEN c[e] ELSE
        LET new == EdgeInfoDirections(c, members, e)
            msgs(kind, ds) == SetToSeq({[kind |-> kind, direction |-> d] : d \in ds})
        IN  [c[e] EXCEPT !.sent = new,
                         !.stream = IF c[e].up THEN @ \o msgs("revoke", c[e].sent \ new)
                                                      \o msgs("tell", new \ c[e].sent)
                                    ELSE @]]

\* Mutant of AddClient: only the new member is told.
AddClientAlone(e) ==
    /\ e \in At("queued")
    /\ conn' = Advertise([conn EXCEPT ![e].stage = "added"], Members \cup {e}, {e})
    /\ UNCHANGED <<setting, machine, slot, prompt, known, disk, server, losses, raced>>

\* add_client: the new member and the others, for whom "auto" may have
\* become ambiguous.
AddClient(e) ==
    /\ e \in At("queued")
    /\ conn' = Advertise([conn EXCEPT ![e].stage = "added"], Members \cup {e}, Members \cup {e})
    /\ UNCHANGED <<setting, machine, slot, prompt, known, disk, server, losses, raced>>

\* handle_client_removal, after handle_connection or a failed write found the
\* connection gone: for those that remain "auto" may resolve again.
RemoveClient(e) ==
    /\ e \in Members /\ ~conn[e].up
    /\ conn' = Advertise(Drop({e}), Members \ {e}, Members \ {e})
    /\ UNCHANGED <<setting, machine, slot, prompt, known, disk, server, losses, raced>>

\* EdgeInference::apply and ::revoke.  An --edge-map of its own wins.
Opposite(d) == CASE d = "left" -> "right" [] d = "right" -> "left"
                 [] d = "top" -> "bottom" [] d = "bottom" -> "top"
Infer(c) ==
    LET d == Opposite(Head(c.stream).direction)
    IN  IF c.who \in setting.explicit THEN {}
        ELSE IF Head(c.stream).kind = "tell" THEN c.edges \cup {d} ELSE c.edges \ {d}

\* The client's step loop handles the next message.
HandleEdgeInfo(e) ==
    /\ e \in Live /\ Attached(e) /\ conn[e].stream # <<>>
    /\ conn' = [conn EXCEPT ![e].edges = Infer(conn[e]), ![e].stream = Tail(@)]
    /\ UNCHANGED <<setting, machine, slot, prompt, known, disk, server, losses, raced>>

-----------------------------------------------------------------------------
(* The network and the server process.                                     *)

Lose(e) ==
    /\ e \in Live /\ conn[e].up /\ losses < setting.losses
    /\ conn' = [conn EXCEPT ![e].up = FALSE]
    /\ losses' = losses + 1
    /\ UNCHANGED <<setting, machine, slot, prompt, known, disk, server, raced>>

\* The server stops and starts again, maybe elsewhere: what it approved
\* without saving is forgotten.
RestartServer(a) ==
    /\ server.restarts < setting.restarts
    /\ server' = [address |-> a, restarts |-> server.restarts + 1]
    /\ known' = disk /\ slot' = None /\ prompt' = None
    /\ conn' = Drop(Endpoint)
    /\ UNCHANGED <<setting, machine, disk, losses, raced>>

ClientSide(m) ==
    \/ Connect(m)
    \/ ConnectFails(m)
    \/ \E yes \in BOOLEAN : SessionEnds(m, yes) \/ Discover(m, yes)

ServerSide(e) ==
    \/ VerifyKnown(e) \/ VerifyRefused(e) \/ VerifyAsks(e)
    \/ \E written \in BOOLEAN : Approve(e, written)
    \/ Disapprove(e)
    \/ HandshakeFails(e) \/ TakeFingerprint(e) \/ ExchangeVersions(e)
    \/ AddClient(e) \/ RemoveClient(e)

Next ==
    \/ \E m \in setting.machines : ClientSide(m)
    \/ \E e \in Endpoint : ServerSide(e) \/ HandleEdgeInfo(e) \/ Lose(e)
    \/ \E a \in Address : RestartServer(a)

Spec == Init /\ [][Next]_vars

\* The programs keep running: a reconnect loop goes on, a prompt ends, the
\* server works off what it accepted, and mDNS finds the server if it is
\* asked again and again.
Fairness ==
    /\ \A m \in Machine : WF_vars(m \in setting.machines /\ ClientSide(m))
    /\ \A m \in Machine : SF_vars(m \in setting.machines /\ Discover(m, TRUE))
    /\ \A e \in Endpoint : WF_vars(ServerSide(e))

FairSpec == Spec /\ Fairness

-----------------------------------------------------------------------------
(* What has to hold.                                                       *)

TypeOK ==
    /\ \A e \in Live : conn[e] \in Connection
    /\ machine \in [Machine -> Program]
    /\ slot \in Machine \cup {None} /\ prompt \in Endpoint \cup {None}
    /\ disk \subseteq Machine /\ known \subseteq Machine
    /\ server \in [address : Address, restarts : 0..setting.restarts]
    /\ losses \in 0..setting.losses /\ raced \in BOOLEAN

\* Only a machine whose certificate this server process accepted, and that
\* speaks its protocol, gets into the rotation; the user is asked about at
\* most one connection, and that one is remembered as long as the question
\* stands, also when its client has long given up (approval.rs verify_cert,
\* server.rs handle_connection).
OnlyAdmitted ==
    /\ \A e \in At("queued") \cup Members :
          conn[e].who \in known /\ conn[e].who \notin setting.outdated
    /\ At("prompt") = {prompt} \ {None}

SessionInv == TypeOK /\ OnlyAdmitted

\* Until two other certificates have been verified within one handshake - the
\* race the comment in verify_client_cert concedes - every connection has its
\* own machine's fingerprint, by which --shortcut-goto and the edges find it.
RightIdentity ==
    ~raced => \A e \in Live : conn[e].id \in {None, conn[e].who}

\* Once its messages are handled, a client watches exactly the edges opposite
\* to those that the server resolves to it now, however members came and went
\* before (rotation.rs advertise_edge_info, client.rs EdgeInference): the
\* pointer that entered a client by an edge gets back the same way.
EdgesAgree ==
    \A e \in Members :
        conn[e].up /\ Attached(e) /\ conn[e].stream = <<>> /\ conn[e].who \notin setting.explicit
            => conn[e].edges = {Opposite(d) : d \in EdgeInfoDirections(conn, Members, e)}

\* A machine alone, trusted and up to date, comes back into the rotation for
\* good after every loss and restart, wherever the server went, and also when
\* an attempt that died left its fingerprint in the slot.
InSession(m) == machine[m].at # None /\ machine[m].at \in Members /\ conn[machine[m].at].up
MayReturn(m) ==
    /\ setting.machines = {m} /\ setting.fromDiscovery
    /\ m \notin setting.outdated /\ m \in setting.preapproved \cup setting.approved
ComesBack == \A m \in Machine : MayReturn(m) => <>[]InSession(m)
=============================================================================
