---------------------------- MODULE Association ----------------------------
(* Which Mother hole a detected piece belongs to: mother_frame.py,         *)
(* roi_builder.py, spatial.py and association.py.                          *)
(*                                                                         *)
(* Lengths are thousandths of the Mother's width, in the frame of her own  *)
(* two axes, u to the right and v downwards. In that frame the boxes that  *)
(* are modelled are upright or lying, so that clipping two polygons is     *)
(* clipping two intervals; a box is its centre, its half sizes and which   *)
(* way it is tilted, by too little to change what it overlaps.             *)
EXTENDS Integers, FiniteSets

Holes == 1..5

Abs(n) == IF n < 0 THEN -n ELSE n

\* The axis of a box has no direction: its angle is read in -90..89, which
\* is what makes the left end of the picture the first hole.
MajorAxis(angle) == ((angle + 90) % 180) - 90

\* mother_pose() refuses a Mother that leans too much.
PoseRefused(c, angle) == Abs(MajorAxis(angle)) > c.max_mother_angle

Hole(c, h) == [x |-> c.hole_alphas[h], y |-> c.hole_beta]

Body(c) == [x |-> 0, y |-> 0, w |-> 500, h |-> c.mother_height \div 2]

BoltRoi(c, h) == [x |-> Hole(c, h).x, y |-> Hole(c, h).y,
                  w |-> c.bolt_half_width, h |-> c.bolt_half_height]

\* end = 1 for the region above the Mother, whose pieces touch her with
\* their lower end, and -1 for the one below.
PartRoi(c, h, class, end) ==
    LET spec == c.part_rois[class] IN
    [x |-> Hole(c, h).x, y |-> Hole(c, h).y - end * spec.offset,
     w |-> spec.width \div 2, h |-> spec.length \div 2]

ContainsPoint(roi, d) == Abs(d.x - roi.x) <= roi.w /\ Abs(d.y - roi.y) <= roi.h

\* The length two intervals share, each given by its middle and half size.
Shared(a, ra, b, rb) ==
    LET first == IF a - ra > b - rb THEN a - ra ELSE b - rb
        last  == IF a + ra < b + rb THEN a + ra ELSE b + rb
    IN IF last > first THEN last - first ELSE 0

Common(p, q) == Shared(p.x, p.w, q.x, q.w) * Shared(p.y, p.h, q.y, q.h)

Lies(d) == d.w >= d.h

\* The point of a part that should be at a hole when it hangs on that end. Of
\* a part that lies it is the end that is the lower (above) or the upper
\* (below) by its tilt, 1 if its right end hangs, and the right end for both
\* readings only if it lies exactly along the Mother.
Anchor(c, d, end) ==
    LET spec  == c.part_rois[d.class]
        reach == (2 * (IF Lies(d) THEN d.w ELSE d.h) * spec.offset) \div spec.length
    IN IF Lies(d) THEN [x |-> d.x + (IF end * d.tilt < 0 THEN -reach ELSE reach), y |-> d.y]
                  ELSE [x |-> d.x, y |-> d.y + end * reach]

Near(c, d, end) ==
    LET a == Anchor(c, d, end) IN
    {h \in Holes : (a.x - Hole(c, h).x) * (a.x - Hole(c, h).x)
                   + (a.y - Hole(c, h).y) * (a.y - Hole(c, h).y) <= c.tolerance * c.tolerance}

Matches(c, d, end) ==
    {h \in Near(c, d, end) :
        100 * Common(d, PartRoi(c, h, d.class, end)) >= c.overlap * 4 * d.w * d.h}

Slot(d) == IF d.class \in {"bolt_1", "bolt_2"} THEN "bolt" ELSE "part"

Ambiguous == [kind |-> "ambiguous"]
Ignored == [kind |-> "ignored"]
At(d, h, side) ==
    [kind |-> "at", id |-> d.id, class |-> d.class, hole |-> h, slot |-> Slot(d), side |-> side,
     orientation_ok |-> Slot(d) = "bolt" \/ ~Lies(d)]

\* Exactly one hole, or a doubt if the piece is at the Mother.
Resolve(c, d, matches, side) ==
    CASE Cardinality(matches) > 1 -> Ambiguous
      [] matches = {} -> IF Common(d, Body(c)) > 0 THEN Ambiguous ELSE Ignored
      [] OTHER -> At(d, CHOOSE h \in matches : TRUE, side)

AssociatePart(c, d) ==
    LET above == Matches(c, d, 1)
        below == Matches(c, d, -1)
        near  == Near(c, d, 1) \cup Near(c, d, -1)
    IN IF \/ above # {} /\ below # {}
          \/ above = {} /\ below = {} /\ near # {}
       THEN Ambiguous
       ELSE Resolve(c, d, above \cup below, IF below # {} THEN "below" ELSE "above")

AssociateOne(c, d) ==
    IF Slot(d) = "bolt"
    THEN Resolve(c, d, {h \in Holes : ContainsPoint(BoltRoi(c, h), d)}, "none")
    ELSE AssociatePart(c, d)

\* Every detection but the Mother, placed.
Associate(c, detections) ==
    {AssociateOne(c, d) : d \in {e \in detections : e.class # "mother_part"}}
=============================================================================
