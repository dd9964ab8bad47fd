----------------------------- MODULE Clipboards -----------------------------
(***************************************************************************)
(* Who has a clipboard: the names that ClipboardHandoff and ClipboardFetch *)
(* share.                                                                  *)
(***************************************************************************)
EXTENDS Integers, Sequences, FiniteSets

CONSTANTS
    Machine,      \* the client machines, each with one IP
    None,         \* Rust's None
    MaxConns,     \* bound: connections made
    MaxCopies     \* bound: copies made

Local == 0                  \* the server machine, as a source or as a target
Conn == 1 .. MaxConns
Copy == 1 .. MaxCopies

=============================================================================
