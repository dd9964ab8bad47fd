---------------------------- MODULE MCEdgeSwitch ----------------------------
(***************************************************************************)
(* Small settings: screens of one to three monitors, the pointer in the    *)
(* middle of one and at an edge, and clients that come and go.             *)
(***************************************************************************)
EXTENDS EdgeSwitch

CONSTANTS a, b

Monitor(x, y, w, h) == [x |-> x, y |-> y, width |-> w, height |-> h,
                        scale |-> 100, transform |-> 0, disabled |-> FALSE]

\* A high-resolution screen at scale 1.5, alone or with a lower one to its
\* right that was placed one pixel off, and turned.
Wide == [Monitor(0, 0, 45, 30) EXCEPT !.scale = 150]
One == {Wide, [Monitor(30, 0, 30, 20) EXCEPT !.disabled = TRUE]}
Two == {Wide, [Monitor(31, 6, 26, 20) EXCEPT !.transform = 1]}
\* The middle one lower than its neighbours.
Three == {Monitor(0, 0, 20, 20), Monitor(20, 10, 20, 20), Monitor(40, 0, 20, 20)}
Flat == {Monitor(0, 0, 30, 20), Monitor(30, 0, 0, 0)}
Off == {[Wide EXCEPT !.disabled = TRUE]}
Small == {Monitor(0, 0, 12, 12)}

Auto == [kind |-> "auto"]
Named(p, ad) == [kind |-> "named", prefixOf |-> p, addressOf |-> ad]

Setting(mode, target, screens, positions, lists) ==
    [mode |-> mode, target |-> target, screens |-> screens, positions |-> positions, clientLists |-> lists]

Middle == <<10, 10>>
RightOfOne == <<29, 10>>    \* inside the desktop while there are two

MCSettings ==
    { \* a server whose second monitor comes and goes
      Setting("server", [right |-> Auto], {One, Two, Off}, {Middle, RightOfOne}, {{a}, {a, b}}),
      \* a name that starts a's fingerprint and is the host name of both
      Setting("server", [right |-> Named({a}, {a, b})], {Three}, {Middle, <<59, 15>>}, {{a, b}, {b}, {}}),
      \* two edges that meet in a corner without a dead zone
      Setting("server", [right |-> Auto, bottom |-> Named({a, b}, {})], {Small},
              {<<6, 6>>, <<11, 11>>}, {{a}, {a, b}}),
      Setting("client", [left |-> Auto], {Flat, Three}, {Middle, <<0, 10>>}, {{}}) }

ASSUME DisjointScreens

\* The pointer is in the middle of the first, or well inside the third of
\* three monitors.
MidDesktop == {Setting("server", [right |-> Auto], {Three}, {Middle, <<50, 5>>}, {{a}})}
=============================================================================
