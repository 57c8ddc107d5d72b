----------------------------- MODULE FinalCheck -----------------------------
(* hole_count_check.py: the finished assembly recognised a second time,    *)
(* from the empty holes in its picture and the colour of the bolts. The    *)
(* picture is given as the pieces on the table, in the frame of the Mother *)
(* (rotate_image() turns her level), and what the contours of OpenCV show  *)
(* of it is computed from them: the largest blob is the Mother with what   *)
(* touches her, and a hole is an inner contour if it is open.              *)
EXTENDS Association, Functions

HoleRadius == 40
\* JOINT_SAMPLE_RADIUS_FACTOR times the radius.
SampleRadius == 28
\* MOTHER_TRANSITION_MARGIN_RATIO, for a Mother of 540 pixels in 720 rows.
Margin == 40

MODEL_SIGNATURES ==
    [MODEL_A |-> <<1, 1>>, MODEL_B |-> <<2, 0>>, MODEL_C |-> <<0, 1>>]

RECIPE_TO_MODEL ==
    [recipe_1 |-> "MODEL_A", recipe_2 |-> "MODEL_B", recipe_3 |-> "MODEL_C"]

Placement(extra, index, bolt) == [extra_holes |-> extra, hole_index |-> index, bolt |-> bolt]
RECIPE_PLACEMENTS ==
    [MODEL_A |-> {Placement(1, 0, "bolt_1"), Placement(2, 3, "bolt_2")},
     MODEL_B |-> {Placement(1, 0, "bolt_1"), Placement(1, 2, "bolt_1")},
     MODEL_C |-> {Placement(2, 1, "bolt_2")}]

\* The blob of find_bar_and_holes(): the Mother and the parts at her.
Parts(c, pieces) == {p \in pieces : Slot(p) = "part" /\ Common(p, Body(c)) > 0}

Close(p, q, r) == Abs(p.x - q.x) < r /\ Abs(p.y - q.y) < r

\* The holes of a part, from one end to the other.
HolesOf(c, p) ==
    LET end(e) == Anchor(c, p, e) IN
    (IF Lies(p) THEN {end(1), [x |-> 2 * p.x - end(1).x, y |-> p.y]} ELSE {end(1), end(-1)})
    \cup (IF p.class = "part_3hole" THEN {[x |-> p.x, y |-> p.y]} ELSE {})

MotherHoles(c) == {Hole(c, h) : h \in Holes}

BoltsAt(pieces, q, r) == {b \in pieces : Slot(b) = "bolt" /\ Close(b, q, r)}

\* A hole is open if no bolt fills it and whatever else lies there has a
\* hole at the same place.
Open(c, pieces, q) ==
    /\ BoltsAt(pieces, q, HoleRadius) = {}
    /\ \A p \in Parts(c, pieces) :
          ContainsPoint(p, q) => \E o \in HolesOf(c, p) : Close(o, q, HoleRadius)
    /\ ContainsPoint(Body(c), q) => \E o \in MotherHoles(c) : Close(o, q, HoleRadius)

EmptyHoles(c, pieces) ==
    {q \in MotherHoles(c) \cup UNION {HolesOf(c, p) : p \in Parts(c, pieces)} : Open(c, pieces, q)}

Cross(p, q, o) == (q.x - p.x) * (o.y - p.y) - (q.y - p.y) * (o.x - p.x)

\* The points within ROTATION_LINE_TOL_PX of the line through p and q; in
\* hundredths of the Mother's width, where that is 3.
Inliers(points, p, q) ==
    LET at(o) == [x |-> o.x \div 10, y |-> o.y \div 10]
        dx == at(q).x - at(p).x
        dy == at(q).y - at(p).y
    IN {o \in points : Cross(at(p), at(q), at(o)) * Cross(at(p), at(q), at(o)) < 9 * (dx * dx + dy * dy)}

\* estimate_mother_angle(): the lines through most of the holes. Which of
\* several is taken is up to the order in which OpenCV lists the contours.
MotherLines(points) ==
    LET line(s) == LET p == CHOOSE o \in s : TRUE
                       q == CHOOSE o \in s : o # p
                   IN [from |-> p, to |-> q, inliers |-> Cardinality(Inliers(points, p, q))]
        lines   == {line(s) : s \in {{p, q} : p, q \in points} \ {{p} : p \in points}}
    IN {l \in lines : \A k \in lines : l.inliers >= k.inliers}

\* Within ROTATION_SKIP_DEG of the Mother's long axis.
AlongMother(l) == 19 * Abs(l.to.y - l.from.y) <= Abs(l.to.x - l.from.x)

\* The Mother is level when she is looked at: rotate_image() made her so, or
\* she was and the picture is left as it is.
Levelled(c, pieces, angle) ==
    LET lines == MotherLines(EmptyHoles(c, pieces))
        level == Abs(MajorAxis(angle)) <= 3
    IN IF lines = {} THEN level
       ELSE \A l \in lines : IF l.inliers >= 3 THEN AlongMother(l) ELSE level

InBand(c, q) == Abs(q.y) <= c.mother_height \div 2

\* per_vertical: the empty holes each vertical part has away from the band.
ExtraHoles(c, pieces, p) ==
    {q \in EmptyHoles(c, pieces) : ContainsPoint(p, q) /\ Abs(q.y) > c.mother_height \div 2 + Margin}

Verticals(c, pieces) == {p \in Parts(c, pieces) : ExtraHoles(c, pieces, p) # {}}

\* The open holes of the band that are not the socket of a joint's bolt.
BandHoles(c, pieces) ==
    {q \in EmptyHoles(c, pieces) :
        InBand(c, q) /\ \A p \in Verticals(c, pieces) : Abs(q.x - p.x) >= HoleRadius}

\* One joint of analyze_frame(): its index is its place among all the holes
\* found from left to right.
Joint(c, pieces, p) ==
    LET bolts == BoltsAt(pieces, [x |-> p.x, y |-> 0], SampleRadius) IN
    [extra_holes |-> Cardinality(ExtraHoles(c, pieces, p)),
     hole_index  |-> Cardinality({q \in BandHoles(c, pieces) : q.x < p.x})
                     + Cardinality({q \in Verticals(c, pieces) : q.x < p.x}),
     bolt        |-> IF bolts = {} THEN "none" ELSE (CHOOSE b \in bolts : TRUE).class]

HolesFound(c, pieces) == Cardinality(BandHoles(c, pieces)) + Cardinality(Verticals(c, pieces))

\* _try(): the joints and the placements can be matched one to one. Where
\* the five holes were not all found, position is not compared.
TryPlacements(c, pieces, expected, mirror) ==
    LET known == HolesFound(c, pieces) = 5
        Fits(p, e) ==
            LET j == Joint(c, pieces, p) IN
            /\ e.extra_holes = j.extra_holes
            /\ e.bolt = j.bolt
            /\ known => e.hole_index = (IF mirror THEN 4 - j.hole_index ELSE j.hole_index)
    IN \E m \in Bijection(Verticals(c, pieces), expected) : \A p \in DOMAIN m : Fits(p, m[p])

\* Not the code: only the reading from the left.
FaultyCheckPlacements(c, pieces, model) ==
    TryPlacements(c, pieces, RECIPE_PLACEMENTS[model], FALSE)

CheckPlacements(c, pieces, model) ==
    \E mirror \in {FALSE, TRUE} : TryPlacements(c, pieces, RECIPE_PLACEMENTS[model], mirror)

\* vertical_signature, as how many parts show one and how many two holes.
Signature(c, pieces) ==
    [n \in 1..2 |-> Cardinality({p \in Verticals(c, pieces) :
                                    Cardinality(ExtraHoles(c, pieces, p)) = n})]

ClassifyModel(c, pieces, angle) ==
    LET alike == {m \in DOMAIN MODEL_SIGNATURES : MODEL_SIGNATURES[m] = Signature(c, pieces)}
        three == \E p \in Verticals(c, pieces) : Cardinality(ExtraHoles(c, pieces, p)) > 2
    IN IF Levelled(c, pieces, angle) /\ ~three /\ \E m \in alike : CheckPlacements(c, pieces, m)
       THEN CHOOSE m \in alike : TRUE ELSE "none"
=============================================================================
