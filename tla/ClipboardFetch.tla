--------------------------- MODULE ClipboardFetch ---------------------------
(***************************************************************************)
(* How a paste gets its content: the advertisement an application pastes   *)
(* from and its cache, the request to the rotation, its route to the       *)
(* machine that owns the clipboard, the serve there behind the caches of   *)
(* SharedClipboardReader, and the answer on its way back.                  *)
(*                                                                         *)
(* ClipboardHandoff says when clipboards are announced; here any focus     *)
(* change may happen at any time, and the types a rotation handler pushes  *)
(* arrive with the handler.  A clipboard offers one type.  Every           *)
(* connection has an address of its own, payloads arrive whole, and the    *)
(* update debounce and the size limits are left out.                       *)
(***************************************************************************)
EXTENDS ClipboardState

CONSTANTS
    Selections,  \* bound: <<machine, type>>, what applications copy where
    Pasters,     \* bound: the machines on which applications paste
    Arrivals,    \* bound: the machines that may make each connection
    MaxLosses,   \* bound: connections lost
    MaxTimeouts, \* bound: only the first of the fetches may time out
    Capacity     \* BULK_QUEUE_CAPACITY

ASSUME FetchAssumption ==
    /\ IsFiniteSet(Machine) /\ 0 \notin Machine
    /\ None \notin Int /\ None \notin Machine
    /\ Selections \subseteq (Machine \union {0}) \X Type
    /\ Pasters \subseteq Machine \union {0}
    /\ Arrivals \in [1 .. MaxConns -> SUBSET Machine]
    /\ MaxConns \in Nat /\ MaxLosses \in Nat
    /\ MaxCopies \in Nat /\ MaxFetches \in Nat
    /\ MaxTimeouts \in Nat /\ Capacity \in Nat
    /\ None \notin [host : Machine \union {0}, conn : 1 .. MaxConns,
                    for : 0 .. MaxConns, id : Nat]

vars == <<rotation, host, link, fetch, made>>

World == [server |-> rotation, host |-> host, link |-> link, fetch |-> fetch]

Becomes(w) ==
    /\ rotation' = w.server /\ host' = w.host
    /\ link' = w.link /\ fetch' = w.fetch

\* What an answer carries, the number of the copy it was read from, and 0 for
\* no bytes; "unread" is history, true if a read failed or was too slow.
Content(copy) == [copy |-> copy, unread |-> FALSE]
Gone == [copy |-> 0, unread |-> FALSE]
Unread == [copy |-> 0, unread |-> TRUE]

\* "tag" is history: the fetch a message belongs to.
Request(type, for, id, tag) ==
    [kind |-> "request", type |-> type, for |-> for, id |-> id, tag |-> tag]
Answer(type, for, id, content, tag) ==
    [kind |-> "answer", type |-> type, for |-> for, id |-> id,
     content |-> content, tag |-> tag]

HostOf(w, source) == IF source = Local THEN Local ELSE w.link[source].machine

ConnOf(m) == {c \in Conn : link[c].open /\ link[c].machine = m}

\* Any set of connections whose bulk queue may refuse a frame: it is full, or
\* its writer task has died with the connection.
MayRefuse ==
    SUBSET {c \in rotation.listed : ~link[c].open \/ Len(link[c].down) >= Capacity}

-----------------------------------------------------------------------------
(* The requester's side.                                                   *)

Pending(w, f) == w.fetch[f].stage = "waiting"

\* A fetch that is over, and what is left to know of it; "wrong" and "stale"
\* are history: it got the answer to another fetch, or content older than the
\* advertisement it is from.
Over(r, wrong, content) ==
    [r EXCEPT !.stage = "over", !.host = IF r.queued THEN @ ELSE Local,
              !.copy = 0, !.lost = FALSE, !.wrong = wrong,
              !.stale = ~NotOlder(content, r.copy)]

\* fetch_clipboard_data gets an answer, and serve_send or spawn_fetch puts it
\* in the cache of the advertisement it was fetched for; a requester that
\* timed out takes none.
Complete(w, f, type, content, tag) ==
    LET h == w.fetch[f].host
        data == IF type = w.fetch[f].type THEN content ELSE Gone
    IN  IF ~Pending(w, f) THEN w
        ELSE [w EXCEPT !.fetch[f] = Over(@, tag # f, data),
                       !.host[h].offer =
                            IF @ # None /\ f \in @.fetches
                            THEN [@ EXCEPT !.cache = data] ELSE @]

\* The answer will not come: the channel was dropped, which the requester
\* sees at once and does not cache.
Abandon(w, fs) ==
    [w EXCEPT !.fetch = [f \in Fetch |->
        IF f \in fs /\ Pending(w, f)
        THEN Over(w.fetch[f], FALSE, Gone) ELSE w.fetch[f]]]

\* History: a fetch lost what was under way for it.
Lose(w, fs) ==
    [w EXCEPT !.fetch = [f \in Fetch |->
        IF f \in fs /\ Pending(w, f) THEN [w.fetch[f] EXCEPT !.lost = TRUE] ELSE w.fetch[f]]]

\* retain: the fetches still waited for.
Retain(w, pending) ==
    [id \in {i \in DOMAIN pending : Pending(w, pending[i])} |-> pending[id]]

\* insert and remove of that table.
Asked(pending, id, f) ==
    [i \in DOMAIN pending \union {id} |-> IF i = id THEN f ELSE pending[i]]
Answered(pending, id) == [i \in DOMAIN pending \ {id} |-> pending[i]]

-----------------------------------------------------------------------------
(* Advertisements.                                                         *)

\* store_types at host h, for set_remote_clipboard too: a selection of our
\* own with an empty cache, or none at all.  The watcher ignores ours, and
\* reports that an application's selection was taken away.
StoreTypes(w, h, copy) ==
    LET old == w.host[h]
    IN  [w EXCEPT !.host[h] = [old EXCEPT
            !.app = 0, !.local = None, !.serving = h # Local,
            !.news = IF copy = 0 /\ old.app # 0 THEN 0 ELSE @,
            !.offer = IF copy = 0 THEN None
                      ELSE [copy |-> copy, cache |-> None, fetches |-> {}]]]

\* update_current_client_clipboard, with the input at "current".
AnnounceTo(w, current) ==
    IF w.server.target = None \/ w.server.target.source = current
       \/ (current # Local /\ ~w.link[current].open)
    THEN w
    ELSE StoreTypes(w, HostOf(w, current), w.server.target.copy)

\* clipboard_clear.
ClipboardClear(w) ==
    LET told == {Local} \union
                {w.link[c].machine : c \in {d \in w.server.listed : w.link[d].open}}
        failed == {w.server.pending[id] : id \in DOMAIN w.server.pending}
        v == [Abandon(w, failed) EXCEPT !.server.target = None,
                                        !.server.pending = <<>>]
    IN  [v EXCEPT !.host = [h \in Host |->
            IF h \in told THEN StoreTypes(v, h, 0).host[h] ELSE v.host[h]]]

\* handle_client_removal, and clipboard_clear if the owner is gone.
RemoveClient(w, c) ==
    LET v == [w EXCEPT !.server.listed = @ \ {c}]
    IN  IF c \notin w.server.listed THEN w
        ELSE IF w.server.target # None /\ w.server.target.source = c
             THEN ClipboardClear(v)
        ELSE v

-----------------------------------------------------------------------------
(* SharedClipboardReader.  An entry of either cache counts only while its  *)
(* epoch is the current one, so the model drops both at a new epoch and    *)
(* keeps, for the read that holds the mutex, whether it began in this one. *)

\* invalidate.
Invalidate(w, h) ==
    LET old == w.host[h]
    IN  [w EXCEPT !.host[h] = [old EXCEPT
            !.served = None, !.failed = None,
            !.lock = IF @ = None THEN None ELSE [@ EXCEPT !.fresh = FALSE]]]

\* Mutant of Remember: the epoch is loaded when the read ends.
RememberLate(w, h, f, copy) ==
    LET old == w.host[h]
    IN  [w EXCEPT !.host[h] = [old EXCEPT
            !.lock = None,
            !.served = IF copy = 0 THEN @ ELSE copy,
            !.failed = IF copy = 0 THEN w.fetch[f].type ELSE None]]

\* read ends and gives the mutex back: a payload is kept, and so is the fact
\* that there was none.
Remember(w, h, f, copy) ==
    LET old == w.host[h]
        fresh == old.lock.fresh
    IN  [w EXCEPT !.host[h] = [old EXCEPT
            !.lock = None,
            !.served = IF fresh /\ copy # 0 THEN copy ELSE @,
            !.failed = CASE fresh /\ copy = 0 -> w.fetch[f].type
                         [] copy # 0 -> None
                         [] OTHER -> @]]

\* The serving task answers, on the connection it was spawned for.  On the
\* server a refused frame removes the client; on a client it is given up.
Reply(w, f, content, refused) ==
    LET s == w.fetch[f].serve
        v == [w EXCEPT !.fetch[f].serve = None]
        msg == Answer(w.fetch[f].type, s.for, s.id, content, f)
    IN  IF refused
        THEN IF s.host = Local THEN RemoveClient(Lose(v, {f}), s.conn)
             ELSE Lose(v, {f})
        ELSE IF ~w.link[s.conn].open THEN Lose(v, {f})
        ELSE IF s.host = Local
             THEN [v EXCEPT !.link[s.conn].down = Append(@, msg)]
        ELSE [v EXCEPT !.link[s.conn].up = Append(@, msg)]

\* The frame of fetch f's serving task may be refused.
MayRefuseReply(f) ==
    LET s == fetch[f].serve
    IN  \/ ~link[s.conn].open
        \/ (s.host = Local /\ Len(link[s.conn].down) >= Capacity)
        \/ (s.host # Local /\ Len(link[s.conn].up) >= Capacity)

-----------------------------------------------------------------------------
(* The rotation.                                                           *)

\* send_bulk: "ok" as it returns, "w" after it.
SendBulk(w, c, msg, refuse) ==
    IF c \notin w.server.listed THEN [ok |-> FALSE, w |-> w]
    ELSE IF c \in refuse THEN [ok |-> FALSE, w |-> RemoveClient(w, c)]
    ELSE [ok |-> TRUE,
          w  |-> IF w.link[c].open
                 THEN [w EXCEPT !.link[c].down = Append(@, msg)]
                 ELSE Lose(w, {msg.tag})]

\* reply_empty_clipboard_fetch.
ReplyEmpty(w, c, id, f, refuse) ==
    LET r == SendBulk(w, c, Answer(w.fetch[f].type, Local, id, Gone, f), refuse)
    IN  IF r.ok THEN r.w ELSE Lose(r.w, {f})

\* Mutant of FailFetch: a client is left to its timeout.
FailFetchLocally(w, c, id, f, refuse) ==
    IF c = Local THEN Complete(w, f, w.fetch[f].type, Gone, f) ELSE w

\* fail_clipboard_fetch.
FailFetch(w, c, id, f, refuse) ==
    IF c = Local THEN Complete(w, f, w.fetch[f].type, Gone, f)
    ELSE ReplyEmpty(w, c, id, f, refuse)

Serving(h, c, for, id) == [host |-> h, conn |-> c, for |-> for, id |-> id]

\* clipboard_request_content when a client owns the clipboard: a request of
\* the server's own gets an id, a client's keeps the one it has.
RouteToOwner(w, c, id, f, refuse) ==
    LET owner == w.server.target.source
        own == w.server.nextId
        v == IF c = Local
             THEN [w EXCEPT !.server.nextId = @ + 1,
                            !.server.pending = Asked(Retain(w, @), own, f)]
             ELSE w
        r == SendBulk(v, owner, Request(w.fetch[f].type, c,
                        IF c = Local THEN own ELSE id, f), refuse)
    IN  IF r.ok THEN r.w
        ELSE IF c = Local
             THEN [Abandon(r.w, {f}) EXCEPT
                       !.server.pending = Answered(@, own)]
        ELSE ReplyEmpty(r.w, c, id, f, refuse)

\* clipboard_request_content, for connection c or for the server itself.
Route(w, c, id, f, refuse) ==
    LET target == w.server.target
    IN  IF target = None THEN FailFetch(w, c, id, f, refuse)
        ELSE IF made[target.copy].type # w.fetch[f].type
                \/ (target.source = Local /\ c = Local)
             THEN FailFetch(w, c, id, f, refuse)
        ELSE IF target.source # Local THEN RouteToOwner(w, c, id, f, refuse)
        ELSE IF c \in w.server.listed
             THEN [w EXCEPT !.fetch[f].serve = Serving(Local, c, Local, id)]
        ELSE Lose(w, {f})

\* clipboard_send_content_from_client.
SendContent(w, msg, refuse) ==
    IF msg.for # Local
    THEN LET r == SendBulk(w, msg.for, msg, refuse)
         IN  IF r.ok THEN r.w ELSE Lose(r.w, {msg.tag})
    ELSE IF msg.id \notin DOMAIN w.server.pending THEN w
    ELSE Complete([w EXCEPT !.server.pending =
                        Answered(@, msg.id)],
                  w.server.pending[msg.id], msg.type, msg.content, msg.tag)

\* clipboard_update_source.
UpdateSource(w, source, copy, current) ==
    LET target == w.server.target
        v == [Invalidate(w, Local) EXCEPT
                  !.server.target = [source |-> source, copy |-> copy]]
        same == /\ target # None
                /\ target.source = source
                /\ made[target.copy].type = made[copy].type
    IN  IF copy = 0 THEN ClipboardClear(w)
        ELSE IF same THEN v ELSE AnnounceTo(v, current)

-----------------------------------------------------------------------------
(* Steps.                                                                  *)

Init ==
    /\ rotation = [listed |-> {}, target |-> None, pending |-> <<>>, nextId |-> 0]
    /\ host = [h \in Host |->
                  [app |-> 0, news |-> None, local |-> None, serving |-> FALSE,
                   offer |-> None, served |-> None, failed |-> None,
                   lock |-> None]]
    /\ link = [c \in Conn |->
                  [machine |-> None, open |-> FALSE, up |-> <<>>, down |-> <<>>,
                   pending |-> <<>>, nextId |-> 0]]
    /\ fetch = [f \in Fetch |->
                  [stage |-> "unused", queued |-> FALSE, host |-> Local,
                   type |-> None, copy |-> 0, serve |-> None, lost |-> FALSE,
                   wrong |-> FALSE, stale |-> FALSE]]
    /\ made = <<>>

\* An application copies: its selection replaces ours.
CopyAt(h, type) ==
    /\ Len(made) < MaxCopies /\ <<h, type>> \in Selections
    /\ made' = Append(made, [host |-> h, type |-> type])
    /\ host' = [host EXCEPT ![h] = [@ EXCEPT
                    !.app = Len(made'), !.news = Len(made'), !.offer = None]]
    /\ UNCHANGED <<rotation, link, fetch>>

\* The server's watcher reports, with the input at "current".
ServerTypesChanged(current) ==
    /\ host[Local].news # None
    /\ Becomes(UpdateSource([World EXCEPT !.host[Local].news = None],
                            Local, host[Local].news, current))
    /\ UNCHANGED made

\* A client's watcher reports: set_local_clipboard while it is active.
ClientTypesChanged(m, active) ==
    /\ host[m].news # None /\ ConnOf(m) # {}
    /\ LET v == [World EXCEPT !.host[m].news = None]
       IN  Becomes(IF active
                   THEN Invalidate([v EXCEPT !.host[m].local = host[m].news,
                                             !.host[m].serving = FALSE], m)
                   ELSE v)
    /\ UNCHANGED made

\* A client announces its clipboard.
ClientAnnounces(m, current) ==
    /\ host[m].local # None
    /\ \E c \in ConnOf(m) :
          Becomes(UpdateSource(World, c, host[m].local, current))
    /\ UNCHANGED made

\* The input moves.
FocusMoves(current) ==
    /\ Becomes(AnnounceTo(World, current))
    /\ UNCHANGED made

\* An application pastes, or the writer fetches ahead, a type that is not in
\* the cache of the advertisement: fetch_clipboard_data queues a fetch.
Paste(f, h) ==
    LET offer == host[h].offer
    IN  /\ fetch[f].stage = "unused" /\ h \in Pasters
        /\ \A e \in 1 .. f - 1 : fetch[e].stage # "unused"
        /\ offer # None
        /\ offer.cache = None
        /\ fetch' = [fetch EXCEPT ![f] = [@ EXCEPT
                !.stage = "waiting", !.queued = TRUE, !.host = h,
                !.type = made[offer.copy].type, !.copy = offer.copy]]
        /\ host' = [host EXCEPT ![h].offer.fetches = @ \union {f}]
        /\ UNCHANGED <<rotation, link, made>>

\* CLIPBOARD_TIMEOUT_SECS pass.
FetchTimesOut(f) ==
    /\ f <= MaxTimeouts
    /\ Pending(World, f)
    /\ Becomes(Abandon(World, {f}))
    /\ UNCHANGED made

\* The client's loop takes a fetch, timed out or not, and sends a request.
ClientTakesFetch(f) ==
    /\ fetch[f].queued
    /\ \E c \in ConnOf(fetch[f].host) :
          /\ Len(link[c].up) < Capacity
          /\ link' = [link EXCEPT ![c] = [link[c] EXCEPT
                !.nextId = @ + 1,
                !.pending = Asked(Retain(World, @), link[c].nextId, f),
                !.up = Append(@, Request(fetch[f].type, Local,
                                         link[c].nextId, f))]]
    /\ fetch' = [fetch EXCEPT ![f].queued = FALSE,
                              ![f].host = IF Pending(World, f) THEN @ ELSE Local]
    /\ UNCHANGED <<rotation, host, made>>

\* The rotation takes a fetch of the server machine.
RotationTakesFetch(f, refuse) ==
    /\ fetch[f].queued /\ fetch[f].host = Local
    /\ Becomes(Route([World EXCEPT !.fetch[f].queued = FALSE],
                     Local, None, f, refuse))
    /\ UNCHANGED made

\* The rotation handles the next frame of a connection.
RotationReceives(c, refuse) ==
    LET msg == Head(link[c].up)
        w == [World EXCEPT !.link[c].up = Tail(@)]
    IN  /\ link[c].up # <<>>
        /\ Becomes(IF msg.kind = "request"
                   THEN Route(w, c, msg.id, msg.tag, refuse)
                   ELSE SendContent(w, msg, refuse))
        /\ UNCHANGED made

\* Mutant of Correlated: whichever fetch is waiting takes the answer.
CorrelatedByArrival(pending, id) == DOMAIN pending

\* The fetches an answer may be for.
Correlated(pending, id) == DOMAIN pending \intersect {id}

\* The client handles the next frame of its bulk stream: a request is served
\* by a task of its own, an answer completes the fetch that has its id.
ClientReceives(c) ==
    LET msg == Head(link[c].down)
        w == [World EXCEPT !.link[c].down = Tail(@)]
        ids == Correlated(link[c].pending, msg.id)
    IN  /\ link[c].down # <<>>
        /\ IF msg.kind = "request"
           THEN Becomes([w EXCEPT !.fetch[msg.tag].serve =
                            Serving(link[c].machine, c, msg.for, msg.id)])
           ELSE IF ids = {} THEN Becomes(w)
           ELSE \E id \in ids :
                  Becomes(Complete([w EXCEPT !.link[c].pending =
                                        Answered(@, id)],
                                   link[c].pending[id], msg.type,
                                   msg.content, msg.tag))
        /\ UNCHANGED made

-----------------------------------------------------------------------------
(* The serving task of fetch f.                                            *)

\* read gets the mutex and finds the payload in the cache, ...
ServeFromCache(f, refused) ==
    /\ fetch[f].serve # None
    /\ refused => MayRefuseReply(f)
    /\ LET h == host[fetch[f].serve.host]
       IN  /\ h.lock = None /\ h.served # None
           /\ made[h.served].type = fetch[f].type
           /\ Becomes(Reply(World, f, Content(h.served), refused))
    /\ UNCHANGED made

\* ... or, until NEGATIVE_SERVE_CACHE_TTL has passed, that there was none, ...
ServeNothing(f, refused) ==
    /\ fetch[f].serve # None
    /\ refused => MayRefuseReply(f)
    /\ LET h == host[fetch[f].serve.host]
       IN  /\ h.lock = None /\ h.failed = fetch[f].type
           /\ Becomes(Reply(World, f, Unread, refused))
    /\ UNCHANGED made

\* ... or begins a read of its own, ...
ServeBegins(f) ==
    /\ fetch[f].serve # None
    /\ LET h == fetch[f].serve.host
       IN  /\ host[h].lock = None
           /\ host[h].served # None
                => made[host[h].served].type # fetch[f].type
           /\ host' = [host EXCEPT ![h].lock =
                            [by |-> f, fresh |-> TRUE, got |-> None]]
    /\ UNCHANGED <<rotation, link, fetch, made>>

\* ... of what an application of this machine offers at that moment, ...
ServeReads(f) ==
    /\ fetch[f].serve # None
    /\ LET h == fetch[f].serve.host
           app == host[h].app
           found == app # 0 /\ made[app].type = fetch[f].type
       IN  /\ host[h].lock # None
           /\ host[h].lock.by = f /\ host[h].lock.got = None
           /\ host' = [host EXCEPT ![h].lock.got = IF found THEN app ELSE 0]
    /\ UNCHANGED <<rotation, link, fetch, made>>

\* ... and answers with it.
ServeEnds(f, refused) ==
    /\ fetch[f].serve # None
    /\ refused => MayRefuseReply(f)
    /\ LET h == fetch[f].serve.host
           got == host[h].lock.got
       IN  /\ host[h].lock # None
           /\ host[h].lock.by = f /\ got # None
           /\ Becomes(Reply(Remember(World, h, f, got), f,
                             IF got = 0 THEN Unread ELSE Content(got), refused))
    /\ UNCHANGED made

\* CLIPBOARD_SERVE_TIMEOUT_SECS pass: the read is dropped where it is.
ServeTimesOut(f, refused) ==
    /\ fetch[f].serve # None
    /\ refused => MayRefuseReply(f)
    /\ LET h == fetch[f].serve.host
           mine == host[h].lock # None /\ host[h].lock.by = f
           v == IF mine THEN [World EXCEPT !.host[h].lock = None] ELSE World
       IN  Becomes(Reply(v, f, Unread, refused))
    /\ UNCHANGED made

-----------------------------------------------------------------------------
(* Connections.                                                            *)



\* A machine connects; it is told of a clipboard that is not its own.
Connect(m, c) ==
    /\ ConnOf(m) = {}
    /\ link[c].machine = None /\ m \in Arrivals[c]
    /\ LET w == [World EXCEPT !.link[c].machine = m, !.link[c].open = TRUE,
                              !.server.listed = @ \union {c}]
           target == rotation.target
       IN  Becomes(IF target # None /\ HostOf(World, target.source) # m
                   THEN AnnounceTo(w, c) ELSE w)
    /\ UNCHANGED made

\* A machine loses its connection: its fetches fail, its advertisement goes,
\* and of what it sent an end may be lost.
Disconnect(c, n) ==
    LET m == link[c].machine
        waiting == {link[c].pending[id] : id \in DOMAIN link[c].pending}
        gone == SubSeq(link[c].up, n + 1, Len(link[c].up)) \o link[c].down
        asked == {f \in Fetch : fetch[f].queued /\ fetch[f].host = m}
        v == [Lose(Abandon(World, waiting), Tags(gone) \union asked) EXCEPT
                 !.link[c] = [link[c] EXCEPT !.open = FALSE, !.down = <<>>,
                                             !.up = SubSeq(@, 1, n),
                                             !.pending = <<>>, !.nextId = 0]]
    IN  /\ link[c].open
        /\ Cardinality({b \in Conn : link[b].machine # None /\ ~link[b].open})
               < MaxLosses
        /\ Becomes(IF host[m].serving
                   THEN [StoreTypes(v, m, 0) EXCEPT !.host[m].serving = FALSE]
                   ELSE v)
        /\ UNCHANGED made

\* The server notices, after it has handled what arrived.
ServerNoticesLoss(c) ==
    /\ c \in rotation.listed /\ ~link[c].open /\ link[c].up = <<>>
    /\ Becomes(RemoveClient(World, c))
    /\ UNCHANGED made

Next ==
    \/ \E h \in Host, type \in Type : CopyAt(h, type)
    \/ \E current \in rotation.listed \union {Local} :
          \/ ServerTypesChanged(current)
          \/ \E m \in Machine : ClientAnnounces(m, current)
          \/ FocusMoves(current)
    \/ \E m \in Machine, active \in BOOLEAN : ClientTypesChanged(m, active)
    \/ \E f \in Fetch, h \in Host : Paste(f, h)
    \/ \E f \in Fetch : FetchTimesOut(f)
    \/ \E f \in Fetch : ClientTakesFetch(f)
    \/ \E refuse \in MayRefuse :
          \/ \E f \in Fetch : RotationTakesFetch(f, refuse)
          \/ \E c \in Conn : RotationReceives(c, refuse)
    \/ \E c \in Conn : ClientReceives(c)
    \/ \E f \in Fetch : ServeBegins(f) \/ ServeReads(f)
    \/ \E f \in Fetch, refused \in BOOLEAN :
          \/ ServeFromCache(f, refused) \/ ServeNothing(f, refused)
          \/ ServeEnds(f, refused) \/ ServeTimesOut(f, refused)
    \/ \E m \in Machine, c \in Conn : Connect(m, c)
    \/ \E c \in Conn : \E n \in 0 .. Len(link[c].up) : Disconnect(c, n)
    \/ \E c \in Conn : ServerNoticesLoss(c)

Spec == Init /\ [][Next]_vars

-----------------------------------------------------------------------------
(* What the comments say, and the code does not keep.                      *)

\* rotation.rs: after a failed or slow read "the next paste simply
\* re-requests".
NextPasteRequests ==
    \A h \in Host :
        host[h].offer # None /\ host[h].offer.cache # None
            => ~host[h].offer.cache.unread

=============================================================================
