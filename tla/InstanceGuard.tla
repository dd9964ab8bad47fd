---------------------------- MODULE InstanceGuard ----------------------------
(***************************************************************************)
(* What single_instance.rs promises of each machine: one instance at a     *)
(* time has the keyboard grabs and the virtual devices, and the next one   *)
(* gets them after the one before let go of them.                          *)
(***************************************************************************)
CONSTANTS
    Host,       \* the machines
    Instance    \* the processes that may run on one

VARIABLE running    \* for each machine, the instances that have its devices

Init == running = [h \in Host |-> {}]

Begin(h, p) ==
    /\ running[h] = {}
    /\ running' = [running EXCEPT ![h] = {p}]

End(h) == running' = [running EXCEPT ![h] = {}]

Next == \E h \in Host : End(h) \/ \E p \in Instance : Begin(h, p)

Spec == Init /\ [][Next]_running

=============================================================================
