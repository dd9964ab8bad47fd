---------------------------- MODULE DeviceOutput ----------------------------
(***************************************************************************)
(* The session that writes to the virtual devices: the input half of       *)
(* client.rs and main.rs.                                                  *)
(*                                                                         *)
(* Input messages of one chunk of the stream are collected and written at  *)
(* its end, or before a message that must come after them.  The server     *)
(* sends input to the machine between Switch(true) and Switch(false) only  *)
(* (see Rotation).                                                         *)
(***************************************************************************)
EXTENDS VirtualDevices

vars == <<out, pending, active, unreleased, failed>>

\* The results of writing what is pending, if anything is.
Flushed == Write(out, pending)

Init ==
    /\ out = [pressed |-> {}, recent |-> {}, down |-> [d \in Device |-> {}], stray |-> FALSE]
    /\ pending = <<>> /\ active = FALSE
    /\ unreleased = FALSE /\ failed = FALSE

\* ServerEvent::Input: collected, whatever the state.
Input ==
    /\ active
    /\ \E n \in 1 .. MaxBatch : \E batch \in [1 .. n -> Event] :
          /\ Len(pending) + n <= MaxPending
          /\ pending' = pending \o batch
    /\ UNCHANGED <<out, active, unreleased, failed>>

\* The end of a chunk, a clipboard message: what is pending is written.
Flush ==
    /\ pending # <<>>
    /\ \E r \in Flushed :
          /\ out' = r.out
          /\ failed' = (failed \/ ~r.ok)
    /\ pending' = <<>>
    /\ UNCHANGED <<active, unreleased>>

SwitchOn ==
    /\ \E r \in Flushed :
          /\ out' = r.out
          /\ failed' = (failed \/ ~r.ok)
    /\ pending' = <<>> /\ active' = TRUE
    /\ UNCHANGED unreleased

\* Mutant of SwitchOff: the keys are released before the chunk's input is
\* written.
SwitchOffReleasesFirst ==
    /\ active
    /\ \E r \in ReleaseAll(out) : \E f \in Write(r.out, pending) :
          /\ out' = f.out
          /\ unreleased' = ~r.ok
          /\ failed' = (failed \/ ~r.ok \/ ~f.ok)
    /\ pending' = <<>> /\ active' = FALSE

\* Switch(false): first what is pending, then release_all.
SwitchOff ==
    /\ active
    /\ \E f \in Flushed : \E r \in ReleaseAll(f.out) :
          /\ out' = r.out
          /\ unreleased' = ~r.ok
          /\ failed' = (failed \/ ~r.ok \/ ~f.ok)
    /\ pending' = <<>> /\ active' = FALSE

\* The session ends between two messages: what is pending is dropped and
\* main.rs releases the keys before it connects again.
Lose ==
    /\ \E r \in ReleaseAll(out) :
          /\ out' = r.out
          /\ unreleased' = ~r.ok
          /\ failed' = (failed \/ ~r.ok)
    /\ pending' = <<>> /\ active' = FALSE

\* handle_motion_datagram: moves of the pointer while active.
Datagram ==
    /\ active /\ pending = <<>>
    /\ \E c \in Code \ Button :
          /\ Homes(c) = {"mouse"}
          /\ \E r \in Write(out, <<[code |-> c, value |-> 1]>>) :
                /\ out' = r.out
                /\ failed' = (failed \/ ~r.ok)
    /\ UNCHANGED <<pending, active, unreleased>>

\* REPEAT_MIN_INTERVAL passes.
Tick ==
    /\ out.recent # {}
    /\ out' = [out EXCEPT !.recent = {}]
    /\ UNCHANGED <<pending, active, unreleased, failed>>

Next == Input \/ Flush \/ SwitchOn \/ SwitchOff \/ Lose \/ Datagram \/ Tick
Spec == Init /\ [][Next]_vars

=============================================================================
