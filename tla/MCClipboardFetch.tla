-------------------------- MODULE MCClipboardFetch --------------------------
(* ClipboardFetch for one machine that copies, one that pastes, and the    *)
(* server, which does both.                                                *)
EXTENDS ClipboardFetch

CONSTANTS m1, m2, text, image

MCMachine == {m1, m2}
MCType == {text, image}
MCSelections == {<<m1, text>>, <<Local, image>>}
MCTextOnly == {<<m1, text>>, <<Local, text>>}
MCPasters == {m2, Local}
MCArrivals == <<{m2}, {m1, m2}>>

=============================================================================
