--------------------------- MODULE MCLinkFidelity ---------------------------
(***************************************************************************)
(* Two clients; samples that are good, bad by the round trip or by the     *)
(* loss, in between, and with a loss that does not count; small and large  *)
(* frames.                                                                 *)
(***************************************************************************)
EXTENDS LinkFidelity

CONSTANTS A, B

MCClient == {A, B}
MCSightings ==
    {[rtt |-> "good", loss |-> "good", busy |-> TRUE],
     [rtt |-> "good", loss |-> "bad", busy |-> TRUE],
     [rtt |-> "good", loss |-> "bad", busy |-> FALSE],
     [rtt |-> "fair", loss |-> "good", busy |-> TRUE],
     [rtt |-> "bad", loss |-> "fair", busy |-> FALSE]}
MCFrame == {1, 3}
=============================================================================
