-------------------------- MODULE MCDeviceOutput --------------------------
(***************************************************************************)
(* A key, a button of both pointer devices, a touchpad's own button and    *)
(* an axis of the mouse.                                                   *)
(***************************************************************************)
EXTENDS DeviceOutput

CONSTANTS K, B, T, X

MCCode == {K, B, T, X}
MCButton == {K, B, T}
MCRepeating == {K}
MCSupports == [keyboard |-> {K}, mouse |-> {B, X}, touchpad |-> {B, T}]

=============================================================================
