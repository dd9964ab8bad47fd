------------------------- MODULE MCClipboardHandoff -------------------------
(***************************************************************************)
(* Small instances of ClipboardHandoff.                                    *)
(***************************************************************************)
EXTENDS ClipboardHandoff

=============================================================================
