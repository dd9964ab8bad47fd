--------------------------- MODULE ClipboardState ---------------------------
(***************************************************************************)
(* What ClipboardFetch is about, the state of every machine, connection    *)
(* and fetch, and what has to hold of it.  It is a module of its own so    *)
(* that proofs can be about both halves of the clipboard.                  *)
(***************************************************************************)
EXTENDS Clipboards

CONSTANTS
    Type,        \* mime types
    MaxFetches   \* bound: fetches made

Fetch == 1 .. MaxFetches
Host == Machine \union {Local}

VARIABLES
    rotation, \* the rotation's clipboard state
    host,     \* each machine: its selection, its watcher, writer and reader
    link,     \* each connection: its bulk queues, and the client's fetches
    fetch,    \* each fetch: its requester's side, and the task that serves it
    made      \* history: the machine and the type of each copy

\* Content is no older than the copy whose announcement it answers.
NotOlder(content, copy) ==
    content.copy # 0 /\ made[content.copy].host = made[copy].host
        => content.copy >= copy

\* The fetches that the frames of a bulk queue belong to.
Tags(queue) == {queue[i].tag : i \in DOMAIN queue}

-----------------------------------------------------------------------------
(* Properties.                                                             *)

Contents == [copy : 0 .. MaxCopies, unread : BOOLEAN]

\* Types of the state of the rotation, the machines and the fetches.
FetchTypeOK ==
    /\ rotation.listed \subseteq Conn
    /\ rotation.target # None => /\ rotation.target.source \in Conn \union {Local}
                                 /\ rotation.target.copy \in Copy
    /\ \A id \in DOMAIN rotation.pending : rotation.pending[id] \in Fetch
    /\ \A h \in Host :
          /\ host[h].app \in 0 .. Len(made)
          /\ host[h].news \in 0 .. Len(made) \union {None}
          /\ host[h].local \in 0 .. Len(made) \union {None}
          /\ host[h].served \in 1 .. Len(made) \union {None}
          /\ host[h].failed \in Type \union {None}
          /\ host[h].offer # None =>
                /\ host[h].offer.copy \in 1 .. Len(made)
                /\ host[h].offer.cache \in Contents \union {None}
    /\ \A f \in Fetch :
          /\ fetch[f].stage \in {"unused", "waiting", "over"}
          /\ fetch[f].type \in Type \union {None}
          /\ fetch[f].copy \in 0 .. Len(made)

\* An answer completes the fetch it was made for and no other, late answers
\* and retries after a timeout included.
RightAnswer ==
    \A f \in Fetch : ~fetch[f].wrong

\* What is pasted from an advertisement is not older than what its owner had
\* when it was announced, for all the caches on the way.
PasteNotStale ==
    /\ \A f \in Fetch : ~fetch[f].stale
    /\ \A h \in Host :
          LET offer == host[h].offer
          IN  offer # None =>
                (offer.cache # None => NotOlder(offer.cache, offer.copy))

\* A fetch that is waited for is under way, unless a lost connection or a
\* refused frame took it: whatever cannot be served is answered at once and
\* none is left to its timeout.  Nor is a reader's mutex left behind.
UnderWay ==
    /\ \A f \in Fetch :
          fetch[f].stage = "waiting" =>
              \/ fetch[f].queued \/ fetch[f].lost
              \/ fetch[f].serve # None
              \/ \E c \in Conn : f \in Tags(link[c].up) \union Tags(link[c].down)
    /\ \A h \in Host :
          host[h].lock # None =>
              LET serve == fetch[host[h].lock.by].serve
              IN  serve # None /\ serve.host = h

\* The tables of fetches, serves and locks agree, as the run checks it.
FetchInv == FetchTypeOK /\ UnderWay

=============================================================================
