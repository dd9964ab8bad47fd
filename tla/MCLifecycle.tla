---------------------------- MODULE MCLifecycle ----------------------------
(***************************************************************************)
(* Small settings: instances that contend, an update while they do, and a  *)
(* server and a client that have to keep speaking the same protocol.       *)
(***************************************************************************)
EXTENDS Lifecycle

None1 == [h \in Host |-> None]
Quiet == [protocol |-> <<1>>, auto |-> [h \in Host |-> TRUE],
          starts |-> [h \in Host |-> IF h = Server THEN 3 ELSE 0], manual |-> {},
          gate |-> None1, expires |-> FALSE, left |-> [crashes |-> 0, commands |-> 0, failures |-> 0]]
Pair == [Quiet EXCEPT !.starts = [h \in Host |-> 1], !.protocol = <<1, 2>>,
                      !.gate = [h \in Host |-> IF h = Client THEN 1 ELSE None]]

MCSettings ==
    { \* instances that contend while others crash, are stopped and restarted
      [Quiet EXCEPT !.left.crashes = 1, !.left.commands = 1],
      \* updates while they do, one of which fails to build
      [Quiet EXCEPT !.protocol = <<1, 1>>, !.left.failures = 1],
      [Quiet EXCEPT !.protocol = <<1, 1, 1>>, !.starts[Server] = 2],
      \* an update by hand on a machine that used to be a client
      [Quiet EXCEPT !.protocol = <<1, 2>>, !.starts[Server] = 2, !.manual = {Server}, !.gate[Server] = 1],
      \* a pair whose protocol changes
      [Pair EXCEPT !.protocol = <<1, 1, 2>>, !.left.failures = 1],
      [Pair EXCEPT !.protocol = <<1, 2, 3>>],
      [Pair EXCEPT !.expires = TRUE, !.left.crashes = 1, !.starts[Server] = 2],
      [Pair EXCEPT !.manual = {Client}],
      \* a server that does not update itself, and one in a session that outlives
      \* the client's record
      [Pair EXCEPT !.auto[Server] = FALSE],
      [Pair EXCEPT !.auto[Server] = FALSE, !.expires = TRUE] }
=============================================================================
