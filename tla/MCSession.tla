----------------------------- MODULE MCSession -----------------------------
(***************************************************************************)
(* Small settings: two machines whose handshakes cross, two members whose  *)
(* edges change as they come and go, and one machine alone whose server    *)
(* restarts elsewhere.                                                     *)
(***************************************************************************)
EXTENDS Session

CONSTANTS a, b, here

Auto == [kind |-> "auto"]
Named(p) == [kind |-> "named", prefixOf |-> p, addressOf |-> {}]
Default == [machines |-> {a, b}, outdated |-> {}, preapproved |-> {}, approved |-> {a, b},
            interactive |-> TRUE, fromDiscovery |-> FALSE, target |-> [d \in {} |-> Auto],
            explicit |-> {}, home |-> here, losses |-> 1, restarts |-> 0]
Alone == [Default EXCEPT !.machines = {a}, !.fromDiscovery = TRUE, !.losses = 2, !.restarts = 1]

MCSettings ==
    { \* a is known, b has to be approved, and what was approved may be lost
      [Default EXCEPT !.approved = {a}, !.restarts = 1],
      \* --www: b stays out
      [Default EXCEPT !.approved = {}, !.preapproved = {a}, !.interactive = FALSE, !.outdated = {a}],
      \* two members with edges, one of them ambiguous while both are there
      [Default EXCEPT !.target = [left |-> Auto, right |-> Named({b})]],
      [Default EXCEPT !.target = [left |-> Auto, top |-> Auto], !.explicit = {b}],
      Alone,
      [Alone EXCEPT !.approved = {}, !.preapproved = {a}, !.fromDiscovery = FALSE] }
=============================================================================
