---------------------------- MODULE EdgeGeometry ----------------------------
(***************************************************************************)
(* The geometry of screen-edge switching (edge.rs): which parts of a       *)
(* monitor layout's outline the pointer can be pushed against, and when a  *)
(* polled position counts as pushed.  An output is its logical rectangle   *)
(* [x, y, width, height]; a layout is a set of them, made of what the      *)
(* compositor says of its monitors.                                        *)
(***************************************************************************)
EXTENDS Integers, FiniteSets, SequencesExt

CONSTANT None

\* parse_monitors_json: a disabled monitor is skipped, an odd transform turns
\* the mode's size, and the size is divided by the scale (here in percent)
\* and rounded; a scale that is not positive counts as 1.
Rounded(n, percent) == IF percent <= 0 THEN n ELSE (2 * 100 * n + percent) \div (2 * percent)
LogicalOutput(m) ==
    LET turned == m.transform % 2 = 1
        w == IF turned THEN m.height ELSE m.width
        h == IF turned THEN m.width ELSE m.height
    IN  [x |-> m.x, y |-> m.y, width |-> Rounded(w, m.scale), height |-> Rounded(h, m.scale)]
LogicalLayout(monitors) == {LogicalOutput(m) : m \in {n \in monitors : ~n.disabled}}

Directions == {"left", "right", "top", "bottom"}
Upright(d) == d \in {"left", "right"}

\* An output's first and one-past-last coordinate along and across the edges
\* of direction d.
Along(o, d) == IF Upright(d) THEN <<o.y, o.y + o.height>> ELSE <<o.x, o.x + o.width>>
Across(o, d) == IF Upright(d) THEN <<o.x, o.x + o.width>> ELSE <<o.y, o.y + o.height>>

Outward(d) == d \in {"right", "bottom"}

\* Fractional scales round each output by itself: two outputs share a
\* boundary when it is at most one pixel off.
Tolerance == 1
\* Mutant of SharesBoundary: rounded sizes are not tolerated.
SharesBoundaryExactly(o, q, d) ==
    0 = IF Outward(d) THEN Across(q, d)[1] - Across(o, d)[2] ELSE Across(q, d)[2] - Across(o, d)[1]

Visible(layout) == {o \in layout : o.width > 0 /\ o.height > 0}
SharesBoundary(o, q, d) ==
    LET gap == IF Outward(d) THEN Across(q, d)[1] - Across(o, d)[2]
                             ELSE Across(q, d)[2] - Across(o, d)[1]
    IN  gap \in -Tolerance..Tolerance

Later(a, b) == IF a >= b THEN a ELSE b
Sooner(a, b) == IF a <= b THEN a ELSE b

\* The intervals of d's edge of o that other outputs abut.
Abutting(o, d, layout) ==
    LET clamp(q) == << Later(Along(q, d)[1], Along(o, d)[1]),
                       Sooner(Along(q, d)[2], Along(o, d)[2]) >>
    IN  {i \in {clamp(q) : q \in {p \in Visible(layout) \ {o} : SharesBoundary(o, p, d)}} : i[1] < i[2]}

Earlier(a, b) == a[1] < b[1] \/ (a[1] = b[1] /\ a[2] <= b[2])

LastOf(intervals) == CHOOSE i \in intervals : \A j \in intervals : Earlier(j, i)

\* exposed_segments: sweep along the edge, and keep what no abutting interval
\* covers.  A segment is <<start, end>>.
Push(segments, from, to) == IF from < to THEN segments \cup {<<from, to>>} ELSE segments
Pass(sweep, i) == [cursor |-> Later(sweep.cursor, i[2]),
                   segments |-> Push(sweep.segments, sweep.cursor, i[1])]
Sweep(from, abutting) ==
    LET after[intervals \in SUBSET abutting] ==
            IF intervals = {} THEN [cursor |-> from, segments |-> {}]
            ELSE LET last == LastOf(intervals) IN Pass(after[intervals \ {last}], last)
    IN  after
ExposedSegments(o, d, layout) ==
    LET abutting == Abutting(o, d, layout)
        swept == Sweep(Along(o, d)[1], abutting)[abutting]
    IN  Push(swept.segments, swept.cursor, Along(o, d)[2])

\* trim_corner_dead_zones: CORNER_TRIM_PERCENT of a segment at each end
\* never triggers.
CornerTrimPercent == 8
TrimCorners(s) ==
    LET trim == ((s[2] - s[1]) * CornerTrimPercent) \div 100
    IN  <<s[1] + trim, s[2] - trim>>

\* The edge line of o: its first or last column or row.
EdgeLine(o, d) == IF Outward(d) THEN Across(o, d)[2] - 1 ELSE Across(o, d)[1]

\* edge_zones, for the mapped directions.
ZonesOf(o, d, layout) ==
    {[direction |-> d, edge |-> EdgeLine(o, d), range |-> TrimCorners(s), output |-> o] :
         s \in {e \in ExposedSegments(o, d, layout) : TrimCorners(e)[1] < TrimCorners(e)[2]}}
EdgeZones(mapped, layout) == UNION {ZonesOf(o, d, layout) : d \in mapped, o \in Visible(layout)}

\* zone_contains: the position is level with the zone and on or beyond its
\* line.
ZoneContains(zone, pos) ==
    LET along == IF Upright(zone.direction) THEN pos[2] ELSE pos[1]
        across == IF Upright(zone.direction) THEN pos[1] ELSE pos[2]
    IN  /\ zone.range[1] <= along /\ along < zone.range[2]
        /\ IF Outward(zone.direction) THEN across >= zone.edge ELSE across <= zone.edge

OnEdge(d, zones, pos) == \E z \in zones : z.direction = d /\ ZoneContains(z, pos)

\* resolve_edge_target, against the entries of the client list and the
\* machine each belongs to: the only entry for auto; for a name the one whose
\* fingerprint it starts, and if it starts none the one at its addresses.
Unique(s) == IF Cardinality(s) = 1 THEN CHOOSE e \in s : TRUE ELSE None
Resolve(target, entries, owner) ==
    LET of(machines) == {e \in entries : owner[e] \in machines}
        found == CASE target.kind = "auto" -> Unique(entries)
                   [] target.kind = "named" /\ of(target.prefixOf) # {} -> Unique(of(target.prefixOf))
                   [] OTHER -> Unique(of(target.addressOf))
    IN  IF found = None THEN None ELSE owner[found]

-----------------------------------------------------------------------------
(***************************************************************************)
(* The reference the sweep is checked against, stated on pixels.           *)
(***************************************************************************)
Covers(o, pos) == /\ o.x <= pos[1] /\ pos[1] < o.x + o.width
                  /\ o.y <= pos[2] /\ pos[2] < o.y + o.height

\* The edge pixel of o at coordinate k along d, and the pixels n beyond it.
EdgePixel(o, d, k, n) ==
    LET across == IF Outward(d) THEN Across(o, d)[2] - 1 + n ELSE Across(o, d)[1] - n
    IN  IF Upright(d) THEN <<across, k>> ELSE <<k, across>>

\* Nothing within the tolerance beyond the pixel: the pointer stops there.
\* (Outputs do not overlap, so another output that starts there abuts.)
PixelExposed(o, d, k, layout) ==
    \A n \in 1..(1 + Tolerance) : \A q \in layout \ {o} : ~Covers(q, EdgePixel(o, d, k, n))

\* No pixel is of two outputs.
Beside(o, q) == o.x + o.width <= q.x \/ o.y + o.height <= q.y
Disjoint(layout) == \A o, q \in Visible(layout) : o # q => Beside(o, q) \/ Beside(q, o)

\* A pixel of the interior of the desktop: one with another output's pixel
\* straight beyond it in direction d.
Interior(d, pos, layout) ==
    \E o \in layout : Covers(o, pos) /\ pos # EdgePixel(o, d, IF Upright(d) THEN pos[2] ELSE pos[1], 0)
=============================================================================
