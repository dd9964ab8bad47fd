----------------------------- MODULE MCRotation -----------------------------
(***************************************************************************)
(* Small instances of Rotation: endpoints 1 and 2 are two ports of one     *)
(* machine (a reconnect usually takes a new port), endpoint 3 is another   *)
(* machine.                                                                *)
(***************************************************************************)
EXTENDS Rotation

MCEndpoint == {1, 2, 3}
MCIpOf == [e \in Endpoint |-> IF e = 3 THEN "ipB" ELSE "ipA"]
MCFpOf == [e \in Endpoint |-> IF e = 3 THEN "fpB" ELSE "fpA"]

TwoEndpoints == {1, 3}

=============================================================================
