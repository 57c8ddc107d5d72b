----------------------------- MODULE BenchProofs -----------------------------
(***************************************************************************)
(* That the evaluators tell an assembly as it lies on the table.           *)
(*                                                                         *)
(* A picture of the Mother from her other end shows every piece at the     *)
(* opposite point.  The two readings of evaluate_symmetric() change places *)
(* then, and so its verdict does not change.                               *)
(*                                                                         *)
(* Where each piece alone is read rightly, no two are told to be in one    *)
(* place, since the worker cannot put them there.  A reading then accepts  *)
(* what is part of a finished assembly and passes what is one, and one     *)
(* that passes uses as many pieces of each class as the recipe has.        *)
(***************************************************************************)
EXTENDS Bench, FiniteSetTheorems, TLAPS

Kinds == Classes \ {"mother_part"}
Bars == {"part_2hole", "part_3hole"}

\* The boxes of pieces, which stand or lie.
Boxes ==
    {d \in [id : DOMAIN ClassOf, class : Kinds, x : Int, y : Int, w : Nat, h : Nat, tilt : {-1, 0, 1}] :
        \/ d.w = HalfSize[d.class][1] /\ d.h = HalfSize[d.class][2]
        \/ d.w = HalfSize[d.class][2] /\ d.h = HalfSize[d.class][1]}

Opposite(side) == CASE side = "above" -> "below" [] side = "below" -> "above" [] OTHER -> side

TurnedBox(d) ==
    [id |-> d.id, class |-> d.class, x |-> -d.x, y |-> -d.y, w |-> d.w, h |-> d.h,
     tilt |-> d.tilt]

TurnedAt(o) ==
    IF o.kind = "at"
    THEN [kind |-> "at", id |-> o.id, class |-> o.class, hole |-> 6 - o.hole, slot |-> o.slot,
          side |-> Opposite(o.side), orientation_ok |-> o.orientation_ok]
    ELSE o

\* The Mother's holes are alike from both ends.
HolesAlike(t) == t.hole_beta = 0 /\ \A h \in Holes : t.hole_alphas[6 - h] = -t.hole_alphas[h]

\* A part that lies is not in a region, which is too narrow for it, and if
\* either of its ends is near a hole, it is on the Mother.
LyingIsPlain(t) ==
    t.mother_height > 1 /\ \A k \in Bars :
       LET length == HalfSize[k][1]
           thick  == HalfSize[k][2]
           spec   == t.part_rois[k]
       IN /\ 100 * (spec.width \div 2) < t.overlap * length
          /\ t.tolerance < thick + t.mother_height \div 2
          /\ t.hole_alphas[5] + t.tolerance + (2 * length * spec.offset) \div spec.length < 500 + length

Turnable(t) == ValidConfig(t) /\ HolesAlike(t) /\ LyingIsPlain(t)

LEMMA SharedTurned ==
    ASSUME NEW a \in Int, NEW b \in Int, NEW ra \in Int, NEW rb \in Int
    PROVE  Shared(-a, ra, -b, rb) = Shared(a, ra, b, rb) /\ Shared(-a, ra, 0, rb) = Shared(a, ra, 0, rb)
BY DEF Shared

LEMMA SharedBounds ==
    ASSUME NEW a \in Int, NEW b \in Int, NEW ra \in Nat, NEW rb \in Nat
    PROVE  /\ Shared(a, ra, b, rb) \in Nat
           /\ Shared(a, ra, b, rb) <= 2 * ra
           /\ Shared(a, ra, b, rb) <= 2 * rb
BY DEF Shared

LEMMA SharedSome ==
    ASSUME NEW a \in Int, NEW b \in Int, NEW ra \in Nat, NEW rb \in Nat,
           ra > 0, rb > 0, ra + rb > a - b, ra + rb > b - a
    PROVE  Shared(a, ra, b, rb) \in Nat /\ Shared(a, ra, b, rb) > 0
BY DEF Shared

LEMMA BoxFields ==
    ASSUME NEW d \in Boxes
    PROVE  /\ d.x \in Int /\ d.y \in Int /\ d.w \in Nat /\ d.h \in Nat /\ d.class \in Kinds
           /\ d.id \in DOMAIN ClassOf
           /\ d.tilt \in {-1, 0, 1}
           /\ d = [id |-> d.id, class |-> d.class, x |-> d.x, y |-> d.y, w |-> d.w, h |-> d.h,
                   tilt |-> d.tilt]
           /\ d.class \in Bars <=> Slot(d) = "part"
           /\ Slot(d) \in {"bolt", "part"}
BY DEF Boxes, Kinds, Bars, Classes, Slot

LEMMA BoxTurned ==
    ASSUME NEW d \in Boxes
    PROVE  /\ TurnedBox(d) \in Boxes
           /\ TurnedBox(d).x = -d.x /\ TurnedBox(d).y = -d.y
           /\ TurnedBox(d).w = d.w /\ TurnedBox(d).h = d.h
           /\ TurnedBox(d).class = d.class /\ TurnedBox(d).id = d.id
           /\ TurnedBox(TurnedBox(d)) = d
           /\ Slot(TurnedBox(d)) = Slot(d) /\ (Lies(TurnedBox(d)) <=> Lies(d))
<1>1. /\ TurnedBox(d).x = -d.x /\ TurnedBox(d).y = -d.y
      /\ TurnedBox(d).w = d.w /\ TurnedBox(d).h = d.h
      /\ TurnedBox(d).class = d.class /\ TurnedBox(d).id = d.id
  BY DEF TurnedBox
<1>2. TurnedBox(d) \in Boxes
  <2>1. TurnedBox(d) \in [id : DOMAIN ClassOf, class : Kinds, x : Int, y : Int, w : Nat, h : Nat, tilt : {-1, 0, 1}]
    BY BoxFields DEF TurnedBox
  <2>2. QED BY <1>1, <2>1 DEF Boxes
<1>3. TurnedBox(TurnedBox(d)) = d
  <2>1. -(-d.x) = d.x /\ -(-d.y) = d.y
    BY BoxFields
  <2>2. QED BY <1>1, <2>1, BoxFields, Zenon DEF TurnedBox
<1>4. QED BY <1>1, <1>2, <1>3 DEF Slot, Lies

LEMMA Halves == \A n \in Nat : n \div 2 \in Nat
OBVIOUS

LEMMA ConfigFields ==
    ASSUME NEW t, ValidConfig(t)
    PROVE  /\ \A h \in Holes : t.hole_alphas[h] \in Int /\ -499 <= t.hole_alphas[h] /\ t.hole_alphas[h] <= 499
           /\ t.hole_beta \in Int /\ t.mother_height \in Nat /\ t.mother_height \div 2 \in Nat
           /\ t.bolt_half_width \in Nat /\ t.bolt_half_height \in Nat
           /\ t.tolerance \in Nat /\ t.tolerance > 0 /\ t.overlap \in Nat /\ t.overlap > 0
           /\ \A k \in Bars : /\ t.part_rois[k].width \in Nat /\ t.part_rois[k].width \div 2 \in Nat
                              /\ t.part_rois[k].length \in Nat /\ t.part_rois[k].length > 0
                              /\ t.part_rois[k].length \div 2 \in Nat
                              /\ t.part_rois[k].offset \in Nat
<1>1. /\ \A h \in Holes : t.hole_alphas[h] \in Int /\ -499 <= t.hole_alphas[h] /\ t.hole_alphas[h] <= 499
      /\ t.hole_beta \in Int /\ t.mother_height \in Nat
  <2>1. \A h \in Holes : t.hole_alphas[h] \in -499..499
    BY DEF ValidConfig
  <2>2. t.hole_beta \in Int /\ t.mother_height \in Nat
    BY DEF ValidConfig
  <2>3. \A n \in -499..499 : n \in Int /\ -499 <= n /\ n <= 499
    OBVIOUS
  <2>4. QED BY <2>1, <2>2, <2>3, Zenon
<1>2. /\ t.bolt_half_width \in Nat /\ t.bolt_half_height \in Nat
      /\ t.tolerance \in Nat /\ t.tolerance > 0 /\ t.overlap \in Nat /\ t.overlap > 0
  BY SMTT(40) DEF ValidConfig
<1>3. \A k \in Bars : /\ t.part_rois[k].width \in Nat
                      /\ t.part_rois[k].length \in Nat /\ t.part_rois[k].length > 0
                      /\ t.part_rois[k].offset \in Nat
  BY DEF ValidConfig, Bars
<1>4. QED BY <1>1, <1>2, <1>3, Halves

LEMMA Quotients == \A m \in Nat, n \in Nat \ {0} : m \div n \in Nat
OBVIOUS

LEMMA HolesTurned ==
    /\ \A h \in Holes : 6 - h \in Holes /\ 6 - (6 - h) = h
    /\ \A h, g \in Holes : 6 - h = 6 - g => h = g
BY DEF Holes

\* What has two members and what has not.
LEMMA ManyIsTwo ==
    ASSUME NEW S, IsFiniteSet(S)
    PROVE  /\ Cardinality(S) > 1 <=> \E a, b \in S : a # b
           /\ Cardinality(S) \in Nat
<1>1. Cardinality(S) \in Nat
  BY FS_CardinalityType
<1>2. CASE S = {}
  BY <1>2, FS_EmptySet
<1>3. CASE S # {}
  <2>1. PICK a \in S : TRUE
    BY <1>3
  <2>2. /\ IsFiniteSet(S \ {a}) /\ Cardinality(S \ {a}) = Cardinality(S) - 1
        /\ Cardinality(S \ {a}) \in Nat
    BY <2>1, FS_RemoveElement, FS_CardinalityType
  <2>3. S \ {a} = {} <=> Cardinality(S \ {a}) = 0
    BY <2>2, FS_EmptySet
  <2>4. S \ {a} # {} <=> \E b \in S : a # b
    OBVIOUS
  <2>5. (\E b, e \in S : b # e) <=> \E b \in S : a # b
    BY <2>1
  <2>6. QED BY <1>1, <2>2, <2>3, <2>4, <2>5
<1>4. QED BY <1>2, <1>3

LEMMA BodyTurned ==
    ASSUME NEW t, ValidConfig(t), NEW d \in Boxes
    PROVE  Common(TurnedBox(d), Body(t)) = Common(d, Body(t))
<1>1. /\ d.x \in Int /\ d.y \in Int /\ d.w \in Int /\ d.h \in Int /\ t.mother_height \div 2 \in Int
  BY BoxFields, ConfigFields
<1>2. /\ Shared(-d.x, d.w, 0, 500) = Shared(d.x, d.w, 0, 500)
      /\ Shared(-d.y, d.h, 0, t.mother_height \div 2) = Shared(d.y, d.h, 0, t.mother_height \div 2)
  BY <1>1, SharedTurned, SMTT(40)
<1>3. QED BY <1>2, BoxTurned DEF Common, Body

LEMMA BoltTurned ==
    ASSUME NEW t, Turnable(t), NEW d \in Boxes, NEW h \in Holes
    PROVE  ContainsPoint(BoltRoi(t, 6 - h), TurnedBox(d)) <=> ContainsPoint(BoltRoi(t, h), d)
<1>1. /\ t.hole_alphas[6 - h] = -t.hole_alphas[h] /\ t.hole_alphas[h] \in Int /\ t.hole_beta = 0
      /\ t.bolt_half_width \in Nat /\ t.bolt_half_height \in Nat
  BY ConfigFields DEF Turnable, HolesAlike
<1>2. TurnedBox(d).x = -d.x /\ TurnedBox(d).y = -d.y /\ d.x \in Int /\ d.y \in Int
  BY BoxTurned, BoxFields
<1>3. QED BY <1>1, <1>2 DEF ContainsPoint, BoltRoi, Hole, Abs

\* How far the end of a part is from its middle.
Reach(t, d) == (2 * (IF Lies(d) THEN d.w ELSE d.h) * t.part_rois[d.class].offset) \div t.part_rois[d.class].length

LEMMA ReachType ==
    ASSUME NEW t, ValidConfig(t), NEW d \in Boxes, d.class \in Bars
    PROVE  Reach(t, d) \in Nat
<1> DEFINE size == IF Lies(d) THEN d.w ELSE d.h
           offset == t.part_rois[d.class].offset
           length == t.part_rois[d.class].length
<1>1. size \in Nat
  BY BoxFields
<1>2. offset \in Nat /\ length \in Nat \ {0}
  BY ConfigFields
<1> HIDE DEF size, offset, length
<1>3. 2 * size * offset \in Nat
  BY <1>1, <1>2, SMTT(40)
<1>4. QED BY <1>2, <1>3, Quotients DEF Reach, size, offset, length

LEMMA AnchorIs ==
    ASSUME NEW t, ValidConfig(t), NEW d \in Boxes, d.class \in Bars, NEW e \in {1, -1}
    PROVE  /\ Lies(d) => /\ Anchor(t, d, e).x \in {d.x + Reach(t, d), d.x + -Reach(t, d)}
                         /\ Anchor(t, d, e).y = d.y
           /\ ~Lies(d) => Anchor(t, d, e).x = d.x /\ Anchor(t, d, e).y = d.y + e * Reach(t, d)
BY DEF Anchor, Reach

LEMMA AnchorTurned ==
    ASSUME NEW t, ValidConfig(t), NEW d \in Boxes, d.class \in Bars, ~Lies(d), NEW e \in {1, -1}
    PROVE  /\ Anchor(t, d, e).x \in Int /\ Anchor(t, d, e).y \in Int
           /\ Anchor(t, TurnedBox(d), -e).x = -Anchor(t, d, e).x
           /\ Anchor(t, TurnedBox(d), -e).y = -Anchor(t, d, e).y
<1>1. /\ TurnedBox(d) \in Boxes /\ TurnedBox(d).class = d.class /\ ~Lies(TurnedBox(d)) /\ -e \in {1, -1}
      /\ TurnedBox(d).x = -d.x /\ TurnedBox(d).y = -d.y /\ d.x \in Int /\ d.y \in Int
  BY BoxTurned, BoxFields
<1>2. Reach(t, TurnedBox(d)) = Reach(t, d) /\ Reach(t, d) \in Int
  BY <1>1, BoxTurned, ReachType DEF Reach
<1>3. /\ Anchor(t, d, e).x = d.x /\ Anchor(t, d, e).y = d.y + e * Reach(t, d)
      /\ Anchor(t, TurnedBox(d), -e).x = -d.x
      /\ Anchor(t, TurnedBox(d), -e).y = -d.y + (-e) * Reach(t, d)
  BY <1>1, <1>2, AnchorIs
<1>4. QED BY <1>1, <1>2, <1>3

LEMMA SquareTurned ==
    ASSUME NEW a \in Int, NEW b \in Int
    PROVE  (-a - (-b)) * (-a - (-b)) = (a - b) * (a - b)
<1> DEFINE n == a - b
<1>1. -a - (-b) = -n /\ n \in Int
  OBVIOUS
<1> HIDE DEF n
<1>2. (-n) * (-n) = n * n
  BY <1>1
<1>3. QED BY <1>1, <1>2 DEF n

LEMMA NearTurned ==
    ASSUME NEW t, Turnable(t), NEW d \in Boxes, d.class \in Bars, ~Lies(d), NEW e \in {1, -1}, NEW h \in Holes
    PROVE  6 - h \in Near(t, TurnedBox(d), -e) <=> h \in Near(t, d, e)
<1> DEFINE a == Anchor(t, d, e)
           b == Anchor(t, TurnedBox(d), -e)
<1>1. /\ a.x \in Int /\ a.y \in Int /\ b.x = -a.x /\ b.y = -a.y
  BY AnchorTurned DEF Turnable
<1>2. /\ t.hole_alphas[6 - h] = -t.hole_alphas[h] /\ t.hole_alphas[h] \in Int /\ 6 - h \in Holes
      /\ Hole(t, h).x = t.hole_alphas[h] /\ Hole(t, 6 - h).x = t.hole_alphas[6 - h]
      /\ Hole(t, h).y = 0 /\ Hole(t, 6 - h).y = 0
  BY ConfigFields, HolesTurned DEF Turnable, HolesAlike, Hole
<1>3. (b.x - Hole(t, 6 - h).x) * (b.x - Hole(t, 6 - h).x) = (a.x - Hole(t, h).x) * (a.x - Hole(t, h).x)
  BY <1>1, <1>2, SquareTurned
<1>4. (b.y - Hole(t, 6 - h).y) * (b.y - Hole(t, 6 - h).y) = (a.y - Hole(t, h).y) * (a.y - Hole(t, h).y)
  <2>1. -a.y - 0 = -a.y - (-0) /\ (-a.y) * (-a.y) = a.y * a.y /\ -a.y - 0 = -a.y /\ a.y - 0 = a.y
    BY <1>1
  <2>2. QED BY <1>1, <1>2, <2>1
<1>5. QED BY <1>2, <1>3, <1>4 DEF Near

LEMMA RegionTurned ==
    ASSUME NEW t, Turnable(t), NEW d \in Boxes, d.class \in Bars, NEW e \in {1, -1}, NEW h \in Holes
    PROVE  Common(TurnedBox(d), PartRoi(t, 6 - h, d.class, -e)) = Common(d, PartRoi(t, h, d.class, e))
<1> DEFINE offset == t.part_rois[d.class].offset
           width == t.part_rois[d.class].width \div 2
           length == t.part_rois[d.class].length \div 2
           x == t.hole_alphas[h]
<1>1. /\ offset \in Nat /\ width \in Nat /\ length \in Nat /\ x \in Int
      /\ t.hole_alphas[6 - h] = -x /\ t.hole_beta = 0
  BY ConfigFields DEF Turnable, HolesAlike
<1>2. /\ d.x \in Int /\ d.y \in Int /\ d.w \in Int /\ d.h \in Int
      /\ TurnedBox(d).x = -d.x /\ TurnedBox(d).y = -d.y
      /\ TurnedBox(d).w = d.w /\ TurnedBox(d).h = d.h
  BY BoxFields, BoxTurned
<1>3. PartRoi(t, 6 - h, d.class, -e) = [x |-> t.hole_alphas[6 - h], y |-> t.hole_beta - (-e) * offset, w |-> width, h |-> length]
  BY DEF PartRoi, Hole
<1>4. PartRoi(t, h, d.class, e) = [x |-> x, y |-> t.hole_beta - e * offset, w |-> width, h |-> length]
  BY DEF PartRoi, Hole
<1> HIDE DEF offset, width, length, x
<1>5. 0 - (-e) * offset = -(0 - e * offset) /\ 0 - e * offset \in Int
  BY <1>1
<1>6. Shared(-d.x, d.w, -x, width) = Shared(d.x, d.w, x, width)
  BY <1>1, <1>2, SharedTurned
<1>7. Shared(-d.y, d.h, -(0 - e * offset), length) = Shared(d.y, d.h, 0 - e * offset, length)
  BY <1>1, <1>2, <1>5, SharedTurned
<1>8. /\ PartRoi(t, 6 - h, d.class, -e).x = -x /\ PartRoi(t, 6 - h, d.class, -e).y = -(0 - e * offset)
      /\ PartRoi(t, 6 - h, d.class, -e).w = width /\ PartRoi(t, 6 - h, d.class, -e).h = length
  BY <1>1, <1>3, <1>5
<1>9. /\ PartRoi(t, h, d.class, e).x = x /\ PartRoi(t, h, d.class, e).y = 0 - e * offset
      /\ PartRoi(t, h, d.class, e).w = width /\ PartRoi(t, h, d.class, e).h = length
  BY <1>1, <1>4
<1>10. QED BY <1>2, <1>6, <1>7, <1>8, <1>9, Zenon DEF Common

LEMMA MatchesTurned ==
    ASSUME NEW t, Turnable(t), NEW d \in Boxes, d.class \in Bars, ~Lies(d), NEW e \in {1, -1}
    PROVE  /\ Near(t, TurnedBox(d), -e) = {6 - h : h \in Near(t, d, e)}
           /\ Matches(t, TurnedBox(d), -e) = {6 - h : h \in Matches(t, d, e)}
           /\ Matches(t, d, e) \subseteq Holes
<1>1. \A h \in Holes : 6 - h \in Near(t, TurnedBox(d), -e) <=> h \in Near(t, d, e)
  BY NearTurned
<1>2. Near(t, TurnedBox(d), -e) \subseteq Holes /\ Near(t, d, e) \subseteq Holes
  BY DEF Near
<1>3. \A h \in Holes : 6 - h \in Matches(t, TurnedBox(d), -e) <=> h \in Matches(t, d, e)
  <2>1. TurnedBox(d).class = d.class /\ TurnedBox(d).w = d.w /\ TurnedBox(d).h = d.h
    BY BoxTurned
  <2>2. \A h \in Holes : Common(TurnedBox(d), PartRoi(t, 6 - h, d.class, -e)) = Common(d, PartRoi(t, h, d.class, e))
    BY RegionTurned
  <2>3. \A h \in Holes : h \in Matches(t, d, e) <=>
            /\ h \in Near(t, d, e)
            /\ 100 * Common(d, PartRoi(t, h, d.class, e)) >= t.overlap * 4 * d.w * d.h
    BY Zenon DEF Matches
  <2>4. \A h \in Holes : 6 - h \in Matches(t, TurnedBox(d), -e) <=>
            /\ 6 - h \in Near(t, TurnedBox(d), -e)
            /\ 100 * Common(TurnedBox(d), PartRoi(t, 6 - h, d.class, -e)) >= t.overlap * 4 * d.w * d.h
    BY <2>1, Zenon DEF Matches
  <2>5. QED BY <1>1, <2>2, <2>3, <2>4, Zenon
<1>4. Matches(t, TurnedBox(d), -e) \subseteq Holes /\ Matches(t, d, e) \subseteq Holes
  BY <1>2 DEF Matches
<1>5. \A A, B \in SUBSET Holes : (\A h \in Holes : 6 - h \in B <=> h \in A) => B = {6 - h : h \in A}
  BY HolesTurned
<1>6. QED BY <1>1, <1>2, <1>3, <1>4, <1>5

----------------------------------------------------------------------------
(* A part that lies: which of its ends is taken for the upper one is its    *)
(* tilt's doing, whichever way she is seen, and so it is read the same way *)
(* from both ends only because it is too long for a region and touches her *)
(* near a hole.                                                            *)

LEMMA LyingSize ==
    ASSUME NEW d \in Boxes, d.class \in Bars, Lies(d)
    PROVE  d.w = HalfSize[d.class][1] /\ d.h = HalfSize[d.class][2]
<1>1. /\ HalfSize["part_2hole"] = <<257, 95>> /\ HalfSize["part_3hole"] = <<377, 100>>
  BY DEF HalfSize
<1>2. CASE d.class = "part_2hole"
  BY <1>1, <1>2 DEF Boxes, Lies
<1>3. CASE d.class = "part_3hole"
  BY <1>1, <1>3 DEF Boxes, Lies
<1>4. QED BY <1>2, <1>3 DEF Bars

LEMMA ProductBound ==
    ASSUME NEW a \in Nat, NEW b \in Nat, NEW p \in Nat, NEW q \in Nat, a <= p, b <= q
    PROVE  a * b <= p * q /\ a * b \in Nat
<1>1. a * b <= a * q
  OBVIOUS
<1>2. a * q <= p * q
  OBVIOUS
<1>3. QED BY <1>1, <1>2

LEMMA WithinRadius ==
    ASSUME NEW a \in Int, NEW b \in Int, NEW n \in Nat, a * a + b * b <= n * n
    PROVE  /\ a <= n /\ -a <= n
           /\ b <= n /\ -b <= n
<1>1. a * a >= 0 /\ b * b >= 0
  OBVIOUS
<1>2. a * a <= n * n /\ b * b <= n * n
  BY <1>1
<1>3. \A m \in Int : m * m <= n * n => m <= n
  OBVIOUS
<1>4. (-a) * (-a) = a * a /\ (-b) * (-b) = b * b
  OBVIOUS
<1>5. QED BY <1>2, <1>3, <1>4

LEMMA LyingMatchesNothing ==
    ASSUME NEW t, Turnable(t), NEW d \in Boxes, d.class \in Bars, Lies(d), NEW e \in {1, -1}
    PROVE  Matches(t, d, e) = {}
<1> DEFINE width == t.part_rois[d.class].width \div 2
           length == t.part_rois[d.class].length \div 2
<1>1. /\ width \in Nat /\ length \in Nat /\ t.overlap \in Nat
      /\ t.part_rois[d.class].offset \in Nat /\ t.hole_beta \in Int
      /\ \A h \in Holes : t.hole_alphas[h] \in Int
  BY ConfigFields DEF Turnable
<1>2. /\ d.x \in Int /\ d.y \in Int /\ d.w \in Nat /\ d.h \in Nat
  BY BoxFields
<1>3. 100 * width < t.overlap * d.w
  BY LyingSize DEF Turnable, LyingIsPlain
<1> SUFFICES ASSUME NEW h \in Matches(t, d, e) PROVE FALSE
  OBVIOUS
<1> DEFINE roi == PartRoi(t, h, d.class, e)
           sx == Shared(d.x, d.w, roi.x, roi.w)
           sy == Shared(d.y, d.h, roi.y, roi.h)
<1>4. h \in Holes /\ 100 * (sx * sy) >= t.overlap * 4 * d.w * d.h
  BY DEF Matches, Near, Common
<1>5. roi.x \in Int /\ roi.y \in Int /\ roi.w = width /\ roi.h = length
  BY <1>1, <1>4 DEF PartRoi, Hole
<1> HIDE DEF roi, width, length
<1>6. sx \in Nat /\ sy \in Nat /\ sx <= 2 * width /\ sy <= 2 * d.h
  BY <1>1, <1>2, <1>5, SharedBounds
<1> HIDE DEF sx, sy
<1>7. sx * sy <= 2 * width * (2 * d.h) /\ sx * sy \in Nat
  BY <1>1, <1>2, <1>6, ProductBound
<1>8. CASE d.class = "part_2hole"
  <2>1. d.w = 257 /\ d.h = 95
    BY <1>8, LyingSize DEF HalfSize
  <2>2. QED BY <1>1, <1>3, <1>4, <1>7, <2>1
<1>9. CASE d.class = "part_3hole"
  <2>1. d.w = 377 /\ d.h = 100
    BY <1>9, LyingSize DEF HalfSize
  <2>2. QED BY <1>1, <1>3, <1>4, <1>7, <2>1
<1>10. QED BY <1>8, <1>9 DEF Bars

LEMMA LyingNearTouches ==
    ASSUME NEW t, Turnable(t), NEW d \in Boxes, d.class \in Bars, Lies(d), NEW e \in {1, -1}, NEW h \in Near(t, d, e)
    PROVE  Common(d, Body(t)) > 0
<1> DEFINE reach == Reach(t, d)
           x == t.hole_alphas[h]
           last == t.hole_alphas[5]
<1>1. /\ h \in Holes
      /\ (Anchor(t, d, e).x - Hole(t, h).x) * (Anchor(t, d, e).x - Hole(t, h).x)
         + (Anchor(t, d, e).y - Hole(t, h).y) * (Anchor(t, d, e).y - Hole(t, h).y) <= t.tolerance * t.tolerance
  BY DEF Near
<1>2. /\ d.x \in Int /\ d.y \in Int /\ d.w \in Nat /\ d.h \in Nat /\ reach \in Nat
      /\ Anchor(t, d, e).x \in {d.x + reach, d.x + -reach} /\ Anchor(t, d, e).y = d.y
  BY BoxFields, AnchorIs, ReachType DEF Turnable
<1>3. /\ x \in Int /\ last \in Int /\ Hole(t, h).x = x /\ Hole(t, h).y = 0
      /\ t.tolerance \in Nat /\ t.mother_height \div 2 \in Nat /\ t.mother_height \in Nat
  BY <1>1, ConfigFields DEF Turnable, HolesAlike, Hole, Holes
<1>4. x <= last /\ -last <= x
  <2>1. \A i \in 1..4 : t.hole_alphas[i] < t.hole_alphas[i + 1]
    BY DEF Turnable, ValidConfig
  <2>2. \A i \in Holes : t.hole_alphas[i] \in Int
    BY ConfigFields DEF Turnable
  <2>3. t.hole_alphas[6 - 5] = -t.hole_alphas[5]
    BY DEF Turnable, HolesAlike, Holes
  <2>4. /\ t.hole_alphas[1] < t.hole_alphas[2] /\ t.hole_alphas[2] < t.hole_alphas[3]
        /\ t.hole_alphas[3] < t.hole_alphas[4] /\ t.hole_alphas[4] < t.hole_alphas[5]
        /\ t.hole_alphas[1] = -t.hole_alphas[5]
    BY <2>1, <2>3
  <2>5. h \in {1, 2, 3, 4, 5}
    BY <1>1 DEF Holes
  <2>6. /\ t.hole_alphas[1] \in Int /\ t.hole_alphas[2] \in Int /\ t.hole_alphas[3] \in Int
        /\ t.hole_alphas[4] \in Int /\ t.hole_alphas[5] \in Int
    BY <2>2 DEF Holes
  <2>7. QED BY <2>4, <2>5, <2>6
<1>5. /\ t.tolerance < d.h + t.mother_height \div 2
      /\ last + t.tolerance + reach < 500 + d.w
      /\ t.mother_height > 1
  <2>1. (2 * d.w * t.part_rois[d.class].offset) \div t.part_rois[d.class].length = reach
    BY DEF Reach
  <2>2. QED BY <2>1, LyingSize DEF Turnable, LyingIsPlain
<1> HIDE DEF reach, x, last
<1>6. PICK s \in {reach, -reach} :
          /\ d.x + s - x <= t.tolerance /\ -(d.x + s - x) <= t.tolerance
          /\ d.y <= t.tolerance /\ -d.y <= t.tolerance
  <2>1. PICK s \in {reach, -reach} : Anchor(t, d, e).x = d.x + s
    BY <1>2
  <2>2. d.x + s - x \in Int /\ d.y - 0 = d.y
    BY <1>2, <1>3, <2>1
  <2>3. (d.x + s - x) * (d.x + s - x) + d.y * d.y <= t.tolerance * t.tolerance
    BY <1>1, <1>2, <1>3, <2>1, <2>2
  <2>4. QED BY <1>2, <1>3, <2>1, <2>2, <2>3, WithinRadius
<1>7. d.w > 0 /\ d.h > 0 /\ t.mother_height \div 2 > 0
  <2>1. t.mother_height \div 2 > 0
    BY <1>3, <1>5
  <2>2. d.w > 0 /\ d.h > 0
    BY LyingSize DEF Bars, HalfSize
  <2>3. QED BY <2>1, <2>2
<1>8. Shared(d.x, d.w, 0, 500) > 0 /\ Shared(d.x, d.w, 0, 500) \in Nat
  <2>1. d.w + 500 > d.x - 0 /\ d.w + 500 > 0 - d.x
    BY <1>2, <1>3, <1>4, <1>5, <1>6
  <2>2. 0 \in Int
    OBVIOUS
  <2>3. \A m \in Nat : m > 0 /\ d.w + m > d.x - 0 /\ d.w + m > 0 - d.x =>
            Shared(d.x, d.w, 0, m) > 0 /\ Shared(d.x, d.w, 0, m) \in Nat
    BY <1>2, <1>7, <2>2, SharedSome, Zenon
  <2>4. QED BY <2>1, <2>3
<1>9. /\ Shared(d.y, d.h, 0, t.mother_height \div 2) > 0
      /\ Shared(d.y, d.h, 0, t.mother_height \div 2) \in Nat
  <2>1. d.h + t.mother_height \div 2 > d.y - 0 /\ d.h + t.mother_height \div 2 > 0 - d.y
    BY <1>2, <1>3, <1>5, <1>6
  <2>2. 0 \in Int
    OBVIOUS
  <2>3. QED BY <1>2, <1>3, <1>7, <2>1, <2>2, SharedSome, Zenon
<1>10. Common(d, Body(t)) = Shared(d.x, d.w, 0, 500) * Shared(d.y, d.h, 0, t.mother_height \div 2)
  BY DEF Common, Body
<1>11. \A a, b \in Nat : a > 0 /\ b > 0 => a * b > 0
  OBVIOUS
<1>12. QED BY <1>8, <1>9, <1>10, <1>11

----------------------------------------------------------------------------
(* What a turned piece is told to be.                                      *)

LEMMA AtIs ==
    ASSUME NEW d, NEW h, NEW side
    PROVE  /\ At(d, h, side).kind = "at" /\ At(d, h, side).id = d.id /\ At(d, h, side).class = d.class
           /\ At(d, h, side).hole = h /\ At(d, h, side).slot = Slot(d) /\ At(d, h, side).side = side
           /\ At(d, h, side).orientation_ok = (Slot(d) = "bolt" \/ ~Lies(d))
           /\ At(d, h, side) # Ambiguous /\ At(d, h, side) # Ignored
           /\ Ambiguous # Ignored /\ TurnedAt(Ambiguous) = Ambiguous /\ TurnedAt(Ignored) = Ignored
<1>1. /\ At(d, h, side).kind = "at" /\ At(d, h, side).id = d.id /\ At(d, h, side).class = d.class
      /\ At(d, h, side).hole = h /\ At(d, h, side).slot = Slot(d) /\ At(d, h, side).side = side
      /\ At(d, h, side).orientation_ok = (Slot(d) = "bolt" \/ ~Lies(d))
  BY DEF At
<1>2. Ambiguous.kind = "ambiguous" /\ Ignored.kind = "ignored"
  BY DEF Ambiguous, Ignored
<1>3. QED BY <1>1, <1>2 DEF TurnedAt

LEMMA AtTurned ==
    ASSUME NEW d \in Boxes, NEW h \in Holes, NEW side
    PROVE  TurnedAt(At(d, h, side)) = At(TurnedBox(d), 6 - h, Opposite(side))
<1>1. /\ TurnedBox(d).id = d.id /\ TurnedBox(d).class = d.class /\ Slot(TurnedBox(d)) = Slot(d)
      /\ Lies(TurnedBox(d)) <=> Lies(d)
  BY BoxTurned
<1>2. TurnedAt(At(d, h, side)) =
        [kind |-> "at", id |-> d.id, class |-> d.class, hole |-> 6 - h, slot |-> Slot(d),
         side |-> Opposite(side), orientation_ok |-> At(d, h, side).orientation_ok]
  <2> DEFINE o == At(d, h, side)
  <2>1. TurnedAt(o) = [kind |-> "at", id |-> o.id, class |-> o.class, hole |-> 6 - o.hole, slot |-> o.slot,
                       side |-> Opposite(o.side), orientation_ok |-> o.orientation_ok]
    BY AtIs DEF TurnedAt
  <2>2. /\ o.id = d.id /\ o.class = d.class /\ o.hole = h /\ o.slot = Slot(d) /\ o.side = side
    BY AtIs
  <2>3. QED BY <2>1, <2>2, Zenon
<1>3. At(TurnedBox(d), 6 - h, Opposite(side)) =
        [kind |-> "at", id |-> TurnedBox(d).id, class |-> TurnedBox(d).class, hole |-> 6 - h, slot |-> Slot(TurnedBox(d)),
         side |-> Opposite(side), orientation_ok |-> (Slot(TurnedBox(d)) = "bolt" \/ ~Lies(TurnedBox(d)))]
  BY Zenon DEF At
<1>4. (Slot(TurnedBox(d)) = "bolt" \/ ~Lies(TurnedBox(d))) = At(d, h, side).orientation_ok
  BY <1>1, AtIs
<1>5. QED BY <1>1, <1>2, <1>3, <1>4, Zenon

LEMMA HolesFinite == \A m \in SUBSET Holes : IsFiniteSet(m)
<1>1. \A n \in Int : IsFiniteSet(1..n)
  BY FS_Interval
<1>2. IsFiniteSet(Holes)
  <2>1. PICK n \in Int : n = 5
    OBVIOUS
  <2>2. Holes = 1..n
    BY <2>1 DEF Holes
  <2>3. QED BY <1>1, <2>2
<1>3. QED BY <1>2, FS_Subset

\* What is made of the holes a piece was found at.
LEMMA ResolveIs ==
    ASSUME NEW t, NEW d, NEW m \in SUBSET Holes, NEW side
    PROVE  /\ (\E a, b \in m : a # b) => Resolve(t, d, m, side) = Ambiguous
           /\ m = {} => Resolve(t, d, m, side) = IF Common(d, Body(t)) > 0 THEN Ambiguous ELSE Ignored
           /\ \A h : m = {h} => Resolve(t, d, m, side) = At(d, h, side)
<1>1. Cardinality(m) > 1 <=> \E a, b \in m : a # b
  BY HolesFinite, ManyIsTwo
<1>2. ASSUME NEW h, m = {h} PROVE (CHOOSE g \in m : TRUE) = h
  BY <1>2
<1>3. CASE \E a, b \in m : a # b
  <2>1. Resolve(t, d, m, side) = Ambiguous
    BY <1>1, <1>3 DEF Resolve
  <2>2. m # {} /\ \A h : m # {h}
    BY <1>3
  <2>3. QED BY <1>3, <2>1, <2>2, Zenon
<1>4. CASE ~\E a, b \in m : a # b
  <2>1. ~(Cardinality(m) > 1)
    BY <1>1, <1>4
  <2>2. m = {} => Resolve(t, d, m, side) = IF Common(d, Body(t)) > 0 THEN Ambiguous ELSE Ignored
    BY <2>1 DEF Resolve
  <2>3. \A h : m = {h} => Resolve(t, d, m, side) = At(d, h, side)
    BY <1>2, <2>1 DEF Resolve
  <2>4. QED BY <1>4, <2>2, <2>3, Zenon
<1>5. QED BY <1>3, <1>4

LEMMA ResolveTurned ==
    ASSUME NEW t, ValidConfig(t), NEW d \in Boxes, NEW m \in SUBSET Holes, NEW side, NEW other,
           m # {} => other = Opposite(side)
    PROVE  Resolve(t, TurnedBox(d), {6 - h : h \in m}, other) = TurnedAt(Resolve(t, d, m, side))
<1> DEFINE n == {6 - h : h \in m}
<1>1. n \in SUBSET Holes
  BY HolesTurned
<1>2. CASE \E a, b \in m : a # b
  <2>1. PICK a, b \in m : a # b
    BY <1>2
  <2>2. 6 - a \in n /\ 6 - b \in n /\ 6 - a # 6 - b
    BY <2>1, HolesTurned
  <2>3. QED BY <1>1, <1>2, <2>2, ResolveIs, AtIs
<1>3. CASE m = {}
  <2>1. n = {}
    BY <1>3
  <2>2. QED BY <1>1, <1>3, <2>1, ResolveIs, AtIs, BodyTurned
<1>4. CASE \E h : m = {h}
  <2>1. PICK h \in Holes : m = {h}
    BY <1>4
  <2>2. n = {6 - h}
    BY <2>1
  <2>3. Resolve(t, d, m, side) = At(d, h, side)
    BY <2>1, ResolveIs
  <2>4. Resolve(t, TurnedBox(d), n, other) = At(TurnedBox(d), 6 - h, other)
    BY <1>1, <2>2, ResolveIs
  <2>5. other = Opposite(side)
    BY <2>1
  <2>6. QED BY <2>3, <2>4, <2>5, AtTurned
<1>5. QED BY <1>2, <1>3, <1>4

\* A piece turned with the Mother is told to be at the opposite hole.
LEMMA AssociateTurned ==
    ASSUME NEW t, Turnable(t), NEW d \in Boxes
    PROVE  AssociateOne(t, TurnedBox(d)) = TurnedAt(AssociateOne(t, d))
<1>1. ValidConfig(t) /\ TurnedBox(d) \in Boxes /\ Slot(TurnedBox(d)) = Slot(d)
  BY BoxTurned DEF Turnable
<1>2. CASE Slot(d) = "bolt"
  <2> DEFINE m == {h \in Holes : ContainsPoint(BoltRoi(t, h), d)}
             n == {h \in Holes : ContainsPoint(BoltRoi(t, h), TurnedBox(d))}
  <2>1. \A h \in Holes : 6 - h \in n <=> h \in m
    BY BoltTurned, HolesTurned
  <2>2. n = {6 - h : h \in m}
    BY <2>1, HolesTurned
  <2>3. Opposite("none") = "none"
    BY DEF Opposite
  <2>4. Resolve(t, TurnedBox(d), n, "none") = TurnedAt(Resolve(t, d, m, "none"))
    BY <1>1, <2>2, <2>3, ResolveTurned
  <2>5. QED BY <1>1, <1>2, <2>4 DEF AssociateOne
<1>3. CASE Slot(d) # "bolt"
  <2> DEFINE up(b) == Matches(t, b, 1)
             down(b) == Matches(t, b, -1)
             near(b) == Near(t, b, 1) \cup Near(t, b, -1)
             side(b) == IF down(b) # {} THEN "below" ELSE "above"
             doubt(b) == \/ up(b) # {} /\ down(b) # {}
                         \/ up(b) = {} /\ down(b) = {} /\ near(b) # {}
             told(b) == IF doubt(b) THEN Ambiguous ELSE Resolve(t, b, up(b) \cup down(b), side(b))
  <2>1. /\ AssociateOne(t, d) = told(d)
        /\ AssociateOne(t, TurnedBox(d)) = told(TurnedBox(d))
        /\ d.class \in Bars
    BY <1>1, <1>3, BoxFields DEF AssociateOne, AssociatePart
  <2>2. CASE ~Lies(d)
    <3>1. /\ down(TurnedBox(d)) = {6 - h : h \in up(d)} /\ up(d) \subseteq Holes
          /\ up(TurnedBox(d)) = {6 - h : h \in down(d)} /\ down(d) \subseteq Holes
          /\ Near(t, TurnedBox(d), -1) = {6 - h : h \in Near(t, d, 1)}
          /\ Near(t, TurnedBox(d), 1) = {6 - h : h \in Near(t, d, -1)}
      <4>1. \A n \in Int : -(-n) = n
        OBVIOUS
      <4>2. \A e \in {1, -1} : /\ Near(t, TurnedBox(d), -e) = {6 - h : h \in Near(t, d, e)}
                               /\ Matches(t, TurnedBox(d), -e) = {6 - h : h \in Matches(t, d, e)}
                               /\ Matches(t, d, e) \subseteq Holes
        BY <2>1, <2>2, MatchesTurned
      <4>3. QED BY <4>1, <4>2
    <3>2. /\ down(TurnedBox(d)) = {} <=> up(d) = {}
          /\ up(TurnedBox(d)) = {} <=> down(d) = {}
          /\ near(TurnedBox(d)) = {} <=> near(d) = {}
      BY <3>1
    <3>3. doubt(TurnedBox(d)) <=> doubt(d)
      BY <3>2
    <3>4. CASE doubt(d)
      BY <2>1, <3>3, <3>4, AtIs
    <3>5. CASE ~doubt(d)
      <4>1. up(TurnedBox(d)) \cup down(TurnedBox(d)) = {6 - h : h \in up(d) \cup down(d)}
        BY <3>1
      <4>2. up(d) \cup down(d) # {} => side(TurnedBox(d)) = Opposite(side(d))
        BY <3>2, <3>5 DEF Opposite
      <4>3. up(d) \cup down(d) \in SUBSET Holes
        BY <3>1
      <4> HIDE DEF up, down, side
      <4>4. Resolve(t, TurnedBox(d), up(TurnedBox(d)) \cup down(TurnedBox(d)), side(TurnedBox(d)))
            = TurnedAt(Resolve(t, d, up(d) \cup down(d), side(d)))
        <5>1. PICK m, s, o : m = up(d) \cup down(d) /\ s = side(d) /\ o = side(TurnedBox(d))
          OBVIOUS
        <5>2. m \in SUBSET Holes /\ (m # {} => o = Opposite(s))
          BY <4>2, <4>3, <5>1
        <5>3. Resolve(t, TurnedBox(d), {6 - h : h \in m}, o) = TurnedAt(Resolve(t, d, m, s))
          BY <1>1, <5>2, ResolveTurned
        <5>4. up(TurnedBox(d)) \cup down(TurnedBox(d)) = {6 - h : h \in m}
          BY <4>1, <5>1
        <5>5. QED BY <5>1, <5>3, <5>4
      <4>5. QED BY <2>1, <3>3, <3>5, <4>4
    <3>6. QED BY <3>4, <3>5
  <2>3. CASE Lies(d)
    <3>1. ASSUME NEW b \in Boxes, b.class \in Bars, Lies(b)
          PROVE  told(b) = IF Common(b, Body(t)) > 0 THEN Ambiguous ELSE Ignored
      <4>1. up(b) = {} /\ down(b) = {}
        BY <3>1, LyingMatchesNothing
      <4>2. near(b) # {} => Common(b, Body(t)) > 0
        BY <3>1, LyingNearTouches
      <4>3. Resolve(t, b, {}, side(b)) = IF Common(b, Body(t)) > 0 THEN Ambiguous ELSE Ignored
        BY ResolveIs
      <4>4. up(b) \cup down(b) = {}
        BY <4>1
      <4>5. QED BY <4>1, <4>2, <4>3, <4>4
    <3>2. TurnedBox(d).class \in Bars /\ Lies(TurnedBox(d))
      BY <2>1, <2>3, BoxTurned
    <3>3. Common(TurnedBox(d), Body(t)) = Common(d, Body(t))
      BY <1>1, BodyTurned
    <3>4. QED BY <1>1, <2>1, <2>3, <3>1, <3>2, <3>3, AtIs
  <2>4. QED BY <2>2, <2>3
<1>4. QED BY <1>2, <1>3

----------------------------------------------------------------------------
(* One reading of what was placed: its status depends only on whether each *)
(* piece fits and whether all is there.                                    *)

\* Each piece is one the recipe asks for, and no two are at one place.
Fits(rec, observed, side) ==
    /\ \A o \in observed : /\ o.hole \in DOMAIN rec
                           /\ o.class = rec[o.hole][o.slot]
                           /\ o.orientation_ok
                           /\ o.slot = "part" => side = "any" \/ o.side = side
    /\ \A o, p \in observed : o.hole = p.hole /\ o.slot = p.slot => o.id = p.id

Full(rec, observed) ==
    \A h \in DOMAIN rec : \A slot \in {"bolt", "part"} : \E o \in observed : o.hole = h /\ o.slot = slot

\* What pieces are told to be, each once.
Placed(observed) ==
    /\ IsFiniteSet(observed)
    /\ \A o \in observed : o.slot \in {"bolt", "part"} /\ o.orientation_ok \in BOOLEAN /\ o.hole \in Holes
    /\ \A o, p \in observed : o.id = p.id => o = p

LEMMA SlotPairs ==
    ASSUME NEW rec
    PROVE  /\ \A h \in DOMAIN rec : \A slot \in {"bolt", "part"} : <<h, slot>> \in (DOMAIN rec) \X {"bolt", "part"}
           /\ \A h, slot : <<h, slot>>[1] = h /\ <<h, slot>>[2] = slot
           /\ \A u \in (DOMAIN rec) \X {"bolt", "part"} : u[1] \in DOMAIN rec /\ u[2] \in {"bolt", "part"}
OBVIOUS

LEMMA ErrorsNone ==
    ASSUME NEW rec, NEW observed, Placed(observed), NEW side
    PROVE  Errors(rec, observed, side) = {} <=> Fits(rec, observed, side)
<1> DEFINE required == {o \in observed : o.hole \in DOMAIN rec}
           slots == (DOMAIN rec) \X {"bolt", "part"}
           unexpected == {<<"UNEXPECTED_COMPONENT", o.id>> : o \in observed \ required}
           extra == {<<"EXTRA_COMPONENT", s>> : s \in {u \in slots : Cardinality(In(observed, u[1], u[2])) > 1}}
           wrong == {<<"WRONG", o.id>> : o \in {p \in required : p.class # rec[p.hole][p.slot]}}
           lying == {<<"PART_ORIENTATION_ERROR", o.id>> : o \in {p \in required : ~p.orientation_ok}}
           sided == {<<"PART_WRONG_SIDE", o.id>> :
                       o \in {p \in required : p.slot = "part" /\ side # "any" /\ p.side # side}}
<1>1. Errors(rec, observed, side) = unexpected \cup extra \cup wrong \cup lying \cup sided
  BY Zenon DEF Errors
<1>2. unexpected = {} <=> \A o \in observed : o.hole \in DOMAIN rec
  OBVIOUS
<1>3. wrong = {} <=> \A o \in required : o.class = rec[o.hole][o.slot]
  OBVIOUS
<1>4. lying = {} <=> \A o \in required : o.orientation_ok
  OBVIOUS
<1>5. sided = {} <=> \A o \in required : o.slot = "part" => side = "any" \/ o.side = side
  OBVIOUS
<1>6. extra = {} <=> \A h \in DOMAIN rec : \A slot \in {"bolt", "part"} : ~(Cardinality(In(observed, h, slot)) > 1)
  <2>1. extra = {} <=> \A u \in slots : ~(Cardinality(In(observed, u[1], u[2])) > 1)
    OBVIOUS
  <2>2. QED BY <2>1, SlotPairs, ZenonT(40)
<1>7. ASSUME NEW h, NEW slot
      PROVE  Cardinality(In(observed, h, slot)) > 1 <=> \E o, p \in In(observed, h, slot) : o # p
  <2>1. IsFiniteSet(In(observed, h, slot))
    BY FS_Subset DEF In, Placed
  <2>2. QED BY <2>1, ManyIsTwo
<1>8. extra = {} <=> \A o, p \in required : o.hole = p.hole /\ o.slot = p.slot => o.id = p.id
  <2>1. ASSUME extra = {}, NEW o \in required, NEW p \in required, o.hole = p.hole, o.slot = p.slot
        PROVE  o.id = p.id
    <3>1. o.hole \in DOMAIN rec /\ o.slot \in {"bolt", "part"} /\ o \in observed /\ p \in observed
      BY <2>1 DEF Placed
    <3>2. o \in In(observed, o.hole, o.slot) /\ p \in In(observed, o.hole, o.slot)
      BY <2>1, <3>1 DEF In
    <3>3. ~\E a, b \in In(observed, o.hole, o.slot) : a # b
      BY <1>6, <1>7, <2>1, <3>1
    <3>4. QED BY <3>2, <3>3
  <2>2. ASSUME \A o, p \in required : o.hole = p.hole /\ o.slot = p.slot => o.id = p.id,
               NEW h \in DOMAIN rec, NEW slot \in {"bolt", "part"}
        PROVE  ~(Cardinality(In(observed, h, slot)) > 1)
    <3>1. ASSUME NEW o \in In(observed, h, slot), NEW p \in In(observed, h, slot)
          PROVE  o = p
      <4>1. o \in required /\ p \in required /\ o.hole = p.hole /\ o.slot = p.slot
        BY <2>2 DEF In
      <4>2. QED BY <2>2, <4>1 DEF Placed
    <3>2. QED BY <1>7, <3>1
  <2>3. QED BY <1>6, <2>1, <2>2
<1> HIDE DEF unexpected, extra, wrong, lying, sided
<1>9. Errors(rec, observed, side) = {} <=>
        unexpected = {} /\ extra = {} /\ wrong = {} /\ lying = {} /\ sided = {}
  BY <1>1
<1>10. CASE \A o \in observed : o.hole \in DOMAIN rec
  <2>1. required = observed
    BY <1>10
  <2>2. wrong = {} <=> \A o \in observed : o.class = rec[o.hole][o.slot]
    BY <1>3, <2>1, Zenon
  <2>3. lying = {} <=> \A o \in observed : o.orientation_ok
    BY <1>4, <2>1, Zenon
  <2>4. sided = {} <=> \A o \in observed : o.slot = "part" => side = "any" \/ o.side = side
    BY <1>5, <2>1, Zenon
  <2>5. extra = {} <=> \A o, p \in observed : o.hole = p.hole /\ o.slot = p.slot => o.id = p.id
    BY <1>8, <2>1, Zenon
  <2>6. unexpected = {}
    BY <1>2, <1>10
  <2>7. Fits(rec, observed, side) <=>
          /\ \A o \in observed : o.class = rec[o.hole][o.slot]
          /\ \A o \in observed : o.orientation_ok
          /\ \A o \in observed : o.slot = "part" => side = "any" \/ o.side = side
          /\ \A o, p \in observed : o.hole = p.hole /\ o.slot = p.slot => o.id = p.id
    BY <1>10, Zenon DEF Fits
  <2>8. QED BY <1>9, <2>2, <2>3, <2>4, <2>5, <2>6, <2>7, Zenon
<1>11. CASE ~\A o \in observed : o.hole \in DOMAIN rec
  <2>1. ~Fits(rec, observed, side)
    BY <1>11, Zenon DEF Fits
  <2>2. QED BY <1>2, <1>9, <1>11, <2>1, Zenon
<1>12. QED BY <1>10, <1>11

LEMMA MissingNone ==
    ASSUME NEW rec, NEW observed
    PROVE  Missing(rec, observed) = {} <=> Full(rec, observed)
<1>1. Missing(rec, observed) = {} <=>
        \A h \in DOMAIN rec : \A slot \in {"bolt", "part"} : In(observed, h, slot) # {}
  <2>1. Missing(rec, observed) = {} <=>
          \A u \in (DOMAIN rec) \X {"bolt", "part"} : In(observed, u[1], u[2]) # {}
    BY DEF Missing
  <2>2. ASSUME NEW h \in DOMAIN rec, NEW slot \in {"bolt", "part"},
               \A u \in (DOMAIN rec) \X {"bolt", "part"} : In(observed, u[1], u[2]) # {}
        PROVE  In(observed, h, slot) # {}
    <3>1. In(observed, <<h, slot>>[1], <<h, slot>>[2]) # {}
      BY <2>2, SlotPairs, Zenon
    <3>2. QED BY <3>1, SlotPairs
  <2>3. ASSUME \A h \in DOMAIN rec : \A slot \in {"bolt", "part"} : In(observed, h, slot) # {},
               NEW u \in (DOMAIN rec) \X {"bolt", "part"}
        PROVE  In(observed, u[1], u[2]) # {}
    BY <2>3, SlotPairs
  <2>4. QED BY <2>1, <2>2, <2>3
<1>2. \A h, slot : In(observed, h, slot) # {} <=> \E o \in observed : o.hole = h /\ o.slot = slot
  BY DEF In
<1>3. QED BY <1>1, <1>2 DEF Full

StatusOf(rec, observed, side) ==
    IF ~Fits(rec, observed, side) THEN "NG" ELSE IF ~Full(rec, observed) THEN "IN_PROGRESS" ELSE "PASS"

LEMMA EvaluateIs ==
    ASSUME NEW rec, NEW observed, Placed(observed), NEW side
    PROVE  Evaluate(rec, observed, side).status = StatusOf(rec, observed, side)
<1>1. Evaluate(rec, observed, side).status =
        IF Errors(rec, observed, side) # {} THEN "NG"
        ELSE IF Missing(rec, observed) # {} THEN "IN_PROGRESS" ELSE "PASS"
  BY DEF Evaluate
<1>2. QED BY <1>1, ErrorsNone, MissingNone DEF StatusOf

\* The better of the two readings.
BetterOf(a, b) == IF StatusOrder[b] < StatusOrder[a] THEN b ELSE a

LEMMA SymmetricIs ==
    ASSUME NEW t, NEW rec, NEW observed, Placed(observed), Placed(Mirrored(observed))
    PROVE  EvaluateSymmetric(t, rec, observed).status =
             BetterOf(StatusOf(rec, observed, DirectSide(t)), StatusOf(rec, Mirrored(observed), "below"))
<1> DEFINE direct == Evaluate(rec, observed, DirectSide(t))
           mirrored == Evaluate(rec, Mirrored(observed), "below")
<1>1. /\ direct.status = StatusOf(rec, observed, DirectSide(t))
      /\ mirrored.status = StatusOf(rec, Mirrored(observed), "below")
  BY EvaluateIs
<1>2. direct.status \in {"PASS", "IN_PROGRESS", "NG"} /\ mirrored.status \in {"PASS", "IN_PROGRESS", "NG"}
  BY <1>1 DEF StatusOf
<1>3. EvaluateSymmetric(t, rec, observed) = IF FitsBetter(mirrored, direct) THEN mirrored ELSE direct
  BY Zenon DEF EvaluateSymmetric
<1>4. /\ FitsBetter(mirrored, direct) => StatusOrder[mirrored.status] < StatusOrder[direct.status]
                                         \/ mirrored.status = direct.status
      /\ StatusOrder[mirrored.status] < StatusOrder[direct.status] => FitsBetter(mirrored, direct)
  BY Zenon DEF FitsBetter
<1> HIDE DEF direct, mirrored
<1>5. QED BY <1>1, <1>3, <1>4, Zenon DEF BetterOf

LEMMA BetterEitherWay ==
    ASSUME NEW a \in {"PASS", "IN_PROGRESS", "NG"}, NEW b \in {"PASS", "IN_PROGRESS", "NG"}
    PROVE  /\ BetterOf(a, b) = BetterOf(b, a)
           /\ BetterOf(a, b) = "PASS" <=> a = "PASS" \/ b = "PASS"
           /\ BetterOf(a, b) = "NG" <=> a = "NG" /\ b = "NG"
           /\ BetterOf(a, b) \in {"PASS", "IN_PROGRESS", "NG"}
BY DEF BetterOf, StatusOrder

----------------------------------------------------------------------------
(* A picture and the one of the turned Mother.                             *)

LEMMA ImageFinite ==
    ASSUME NEW S, IsFiniteSet(S), NEW T, NEW f \in [S -> T]
    PROVE  IsFiniteSet({f[x] : x \in S})
<1> DEFINE image == {f[x] : x \in S}
<1>1. f \in Surjection(S, image)
  BY DEF Surjection
<1>2. QED BY <1>1, FS_Surjection

\* The boxes of a picture, no two of one piece.
Pictures == {D \in SUBSET Boxes : IsFiniteSet(D) /\ \A p, q \in D : p.id = q.id => p = q}

Told(t, D) == {AssociateOne(t, d) : d \in D}
Observed(t, D) == Told(t, D) \ {Ignored}
TurnedPicture(D) == {TurnedBox(d) : d \in D}

LEMMA AssociateType ==
    ASSUME NEW t, NEW d \in Boxes
    PROVE  \/ AssociateOne(t, d) \in {Ambiguous, Ignored}
           \/ \E h \in Holes, side \in {"above", "below", "none"} : AssociateOne(t, d) = At(d, h, side)
<1>1. ASSUME NEW m \in SUBSET Holes, NEW side \in {"above", "below", "none"}
      PROVE  \/ Resolve(t, d, m, side) \in {Ambiguous, Ignored}
             \/ \E h \in Holes : Resolve(t, d, m, side) = At(d, h, side)
  <2>1. CASE \E a, b \in m : a # b
    BY <2>1, ResolveIs
  <2>2. CASE m = {}
    BY <2>2, ResolveIs
  <2>3. CASE \E h \in Holes : m = {h}
    BY <2>3, ResolveIs
  <2>4. QED BY <2>1, <2>2, <2>3
<1>2. CASE Slot(d) = "bolt"
  BY <1>1, <1>2 DEF AssociateOne
<1>3. CASE Slot(d) # "bolt"
  <2> DEFINE m == Matches(t, d, 1) \cup Matches(t, d, -1)
             side == IF Matches(t, d, -1) # {} THEN "below" ELSE "above"
  <2>1. m \in SUBSET Holes
    BY DEF Matches, Near
  <2>2. side \in {"above", "below", "none"}
    OBVIOUS
  <2>3. AssociateOne(t, d) \in {Ambiguous, Resolve(t, d, m, side)}
    BY <1>3 DEF AssociateOne, AssociatePart
  <2> HIDE DEF m, side
  <2>4. QED BY <1>1, <2>1, <2>2, <2>3
<1>4. QED BY <1>2, <1>3

LEMMA ObservedIs ==
    ASSUME NEW t, NEW D \in Pictures, Ambiguous \notin Told(t, D)
    PROVE  /\ Placed(Observed(t, D))
           /\ \A o \in Observed(t, D) : \E d \in D, h \in Holes, side \in {"above", "below", "none"} :
                 o = AssociateOne(t, d) /\ o = At(d, h, side)
<1>1. \A o \in Observed(t, D) : \E d \in D, h \in Holes, side \in {"above", "below", "none"} :
         o = AssociateOne(t, d) /\ o = At(d, h, side)
  BY AssociateType DEF Observed, Told, Pictures
<1>2. IsFiniteSet(Observed(t, D))
  <2>1. PICK f \in [D -> Told(t, D)] : {f[d] : d \in D} = Told(t, D)
    <3> DEFINE f == [d \in D |-> AssociateOne(t, d)]
    <3>1. f \in [D -> Told(t, D)] /\ {f[d] : d \in D} = Told(t, D)
      BY DEF Told
    <3>2. QED BY <3>1
  <2>2. IsFiniteSet(D)
    BY DEF Pictures
  <2>3. IsFiniteSet({f[d] : d \in D})
    BY <2>2, ImageFinite
  <2>4. QED BY <2>1, <2>3, FS_Subset DEF Observed
<1>3. \A o \in Observed(t, D) : o.slot \in {"bolt", "part"} /\ o.orientation_ok \in BOOLEAN /\ o.hole \in Holes
  <2>1. ASSUME NEW d, NEW h, NEW side
        PROVE  At(d, h, side).slot \in {"bolt", "part"} /\ At(d, h, side).orientation_ok \in BOOLEAN
    <3>1. At(d, h, side).orientation_ok \in BOOLEAN
      BY DEF At
    <3>2. At(d, h, side).slot \in {"bolt", "part"}
      BY DEF At, Slot
    <3>3. QED BY <3>1, <3>2
  <2>2. QED BY <1>1, <2>1, AtIs
<1>4. ASSUME NEW o \in Observed(t, D), NEW p \in Observed(t, D), o.id = p.id
      PROVE  o = p
  <2>1. PICK d \in D, e \in D : o = AssociateOne(t, d) /\ p = AssociateOne(t, e) /\ o.id = d.id /\ p.id = e.id
    BY <1>1, AtIs
  <2>2. d = e
    BY <1>4, <2>1 DEF Pictures
  <2>3. QED BY <2>1, <2>2
<1>5. QED BY <1>1, <1>2, <1>3, <1>4 DEF Placed

LEMMA MirroredIs ==
    ASSUME NEW t, NEW D \in Pictures, Ambiguous \notin Told(t, D)
    PROVE  /\ Placed(Mirrored(Observed(t, D)))
           /\ \A o \in Observed(t, D) : \E m \in Mirrored(Observed(t, D)) :
                 /\ m.id = o.id /\ m.class = o.class /\ m.slot = o.slot /\ m.side = o.side
                 /\ m.orientation_ok = o.orientation_ok /\ m.hole = 6 - o.hole
           /\ \A m \in Mirrored(Observed(t, D)) : \E o \in Observed(t, D) :
                 /\ m.id = o.id /\ m.class = o.class /\ m.slot = o.slot /\ m.side = o.side
                 /\ m.orientation_ok = o.orientation_ok /\ m.hole = 6 - o.hole
<1> DEFINE O == Observed(t, D)
           Other(o) == [o EXCEPT !.hole = 6 - @]
<1>1. Mirrored(O) = {Other(o) : o \in O}
  BY Zenon DEF Mirrored
<1>2. ASSUME NEW o \in O
      PROVE  /\ Other(o).id = o.id /\ Other(o).class = o.class /\ Other(o).slot = o.slot
             /\ Other(o).side = o.side /\ Other(o).orientation_ok = o.orientation_ok
             /\ Other(o).hole = 6 - o.hole
  <2>1. PICK d, h, side : o = At(d, h, side)
    BY ObservedIs
  <2>2. QED BY <2>1 DEF At
<1>3. IsFiniteSet(Mirrored(O))
  <2> DEFINE f == [o \in O |-> Other(o)]
  <2>1. f \in [O -> Mirrored(O)] /\ {f[o] : o \in O} = Mirrored(O)
    BY <1>1
  <2>2. IsFiniteSet(O)
    BY ObservedIs DEF Placed
  <2> HIDE DEF O, f
  <2>3. IsFiniteSet({f[o] : o \in O})
    BY <2>1, <2>2, ImageFinite, SMTT(40)
  <2>4. QED BY <2>1, <2>3
<1> HIDE DEF Other
<1>4. Placed(Mirrored(O))
  <2>1. Placed(O)
    BY ObservedIs
  <2> HIDE DEF O
  <2>2. \A m \in Mirrored(O) : m.slot \in {"bolt", "part"} /\ m.orientation_ok \in BOOLEAN /\ m.hole \in Holes
    BY <1>1, <1>2, <2>1, HolesTurned DEF Placed
  <2>3. \A m, n \in Mirrored(O) : m.id = n.id => m = n
    BY <1>1, <1>2, <2>1 DEF Placed
  <2>4. QED BY <1>3, <2>2, <2>3 DEF Placed
<1>5. QED BY <1>1, <1>2, <1>4

LEMMA PictureTurned ==
    ASSUME NEW t, Turnable(t), NEW D \in Pictures
    PROVE  /\ TurnedPicture(D) \in Pictures
           /\ Told(t, TurnedPicture(D)) = {TurnedAt(o) : o \in Told(t, D)}
           /\ Ambiguous \in Told(t, TurnedPicture(D)) <=> Ambiguous \in Told(t, D)
<1> DEFINE E == TurnedPicture(D)
<1>1. \A d \in D : d \in Boxes /\ TurnedBox(d) \in Boxes /\ TurnedBox(d).id = d.id
  BY BoxTurned DEF Pictures
<1>2. IsFiniteSet(E)
  <2>1. PICK f \in [D -> E] : {f[d] : d \in D} = E
    <3> DEFINE f == [d \in D |-> TurnedBox(d)]
    <3>1. f \in [D -> E] /\ {f[d] : d \in D} = E
      BY DEF TurnedPicture
    <3>2. QED BY <3>1
  <2>2. IsFiniteSet(D)
    BY DEF Pictures
  <2> HIDE DEF E
  <2>3. IsFiniteSet({f[d] : d \in D})
    BY <2>2, ImageFinite
  <2>4. QED BY <2>1, <2>3
<1>3. E \in Pictures
  BY <1>1, <1>2 DEF Pictures, TurnedPicture
<1>4. \A d \in D : AssociateOne(t, TurnedBox(d)) = TurnedAt(AssociateOne(t, d))
  BY <1>1, AssociateTurned
<1>5. Told(t, E) = {TurnedAt(o) : o \in Told(t, D)}
  BY <1>4 DEF Told, TurnedPicture
<1>6. \A o \in Told(t, D) : TurnedAt(o) = Ambiguous <=> o = Ambiguous
  <2>1. ASSUME NEW d \in D
        PROVE  TurnedAt(AssociateOne(t, d)) = Ambiguous <=> AssociateOne(t, d) = Ambiguous
    <3>1. CASE AssociateOne(t, d) \in {Ambiguous, Ignored}
      BY <3>1, AtIs
    <3>2. CASE \E h \in Holes : \E side : AssociateOne(t, d) = At(d, h, side)
      <4>1. PICK h, side : h \in Holes /\ AssociateOne(t, d) = At(d, h, side)
        BY <3>2
      <4>2. TurnedAt(AssociateOne(t, d)) = At(TurnedBox(d), 6 - h, Opposite(side))
        BY <1>1, <4>1, AtTurned
      <4>3. QED BY <4>1, <4>2, AtIs
    <3>3. QED BY <1>1, <3>1, <3>2, AssociateType
  <2>2. QED BY <2>1 DEF Told
<1>7. QED BY <1>3, <1>5, <1>6

\* Where a piece is after the turn.
Across(o, p) ==
    /\ p.id = o.id /\ p.class = o.class /\ p.slot = o.slot /\ p.orientation_ok = o.orientation_ok
    /\ p.hole = 6 - o.hole /\ p.side = Opposite(o.side)

LEMMA ObservedTurned ==
    ASSUME NEW t, Turnable(t), NEW D \in Pictures, Ambiguous \notin Told(t, D)
    PROVE  /\ \A o \in Observed(t, D) : \E p \in Observed(t, TurnedPicture(D)) : Across(o, p)
           /\ \A p \in Observed(t, TurnedPicture(D)) : \E o \in Observed(t, D) : Across(o, p)
<1>1. Told(t, TurnedPicture(D)) = {TurnedAt(o) : o \in Told(t, D)}
  BY PictureTurned
<1>2. ASSUME NEW o \in Observed(t, D)
      PROVE  Across(o, TurnedAt(o)) /\ TurnedAt(o) # Ignored
  <2>1. PICK d \in D, h \in Holes, side \in {"above", "below", "none"} : o = At(d, h, side)
    BY ObservedIs
  <2>2. d \in Boxes
    BY DEF Pictures
  <2>3. TurnedAt(o) = At(TurnedBox(d), 6 - h, Opposite(side))
    BY <2>1, <2>2, AtTurned
  <2>4. /\ TurnedBox(d).id = d.id /\ TurnedBox(d).class = d.class
        /\ Slot(TurnedBox(d)) = Slot(d) /\ (Lies(TurnedBox(d)) <=> Lies(d))
    BY <2>2, BoxTurned
  <2>5. TurnedAt(o).orientation_ok = o.orientation_ok
    BY <2>1, <2>3, <2>4, AtIs
  <2>6. QED BY <2>1, <2>3, <2>4, <2>5, AtIs DEF Across
<1>3. \A o \in Observed(t, D) : TurnedAt(o) \in Observed(t, TurnedPicture(D))
  BY <1>1, <1>2 DEF Observed
<1>4. \A p \in Observed(t, TurnedPicture(D)) : \E o \in Observed(t, D) : p = TurnedAt(o)
  BY <1>1, AtIs DEF Observed
<1>5. QED BY <1>2, <1>3, <1>4

\* Two sets of pieces alike but for the side.
Alike(A, B, sideA, sideB) ==
    LET Same(a, b) ==
            /\ a.id = b.id /\ a.class = b.class /\ a.slot = b.slot /\ a.orientation_ok = b.orientation_ok
            /\ a.hole = b.hole /\ (a.side = sideA <=> b.side = sideB)
    IN /\ \A a \in A : \E b \in B : Same(a, b)
       /\ \A b \in B : \E a \in A : Same(a, b)

LEMMA AlikeStatus ==
    ASSUME NEW rec, NEW A, NEW B, NEW sideA, NEW sideB, sideA # "any", sideB # "any", Alike(A, B, sideA, sideB)
    PROVE  StatusOf(rec, A, sideA) = StatusOf(rec, B, sideB)
<1>1. Fits(rec, A, sideA) => Fits(rec, B, sideB)
  BY DEF Alike, Fits
<1>2. Fits(rec, B, sideB) => Fits(rec, A, sideA)
  BY DEF Alike, Fits
<1>3. Full(rec, A) <=> Full(rec, B)
  BY DEF Alike, Full
<1>4. QED BY <1>1, <1>2, <1>3 DEF StatusOf

\* The turned Mother's pieces read from the left are the pieces read from
\* the right.
LEMMA ReadingsChangePlaces ==
    ASSUME NEW t, Turnable(t), NEW D \in Pictures, Ambiguous \notin Told(t, D)
    PROVE  LET O == Observed(t, D)
               P == Observed(t, TurnedPicture(D))
           IN Alike(Mirrored(O), P, "below", "above") /\ Alike(Mirrored(P), O, "below", "above")
<1> DEFINE O == Observed(t, D)
           P == Observed(t, TurnedPicture(D))
<1>1. TurnedPicture(D) \in Pictures /\ Ambiguous \notin Told(t, TurnedPicture(D))
  BY PictureTurned
<1>2. \A s : /\ Opposite(s) = "above" <=> s = "below"
             /\ Opposite(s) = "below" <=> s = "above"
  BY DEF Opposite
<1>3. /\ \A o \in O : \E p \in P : Across(o, p)
      /\ \A p \in P : \E o \in O : Across(o, p)
  BY ObservedTurned
<1>4. \A o \in O : o.hole \in Holes /\ 6 - (6 - o.hole) = o.hole
  BY ObservedIs, HolesTurned DEF Placed
<1>5. /\ \A o \in O : \E m \in Mirrored(O) :
            /\ m.id = o.id /\ m.class = o.class /\ m.slot = o.slot /\ m.side = o.side
            /\ m.orientation_ok = o.orientation_ok /\ m.hole = 6 - o.hole
      /\ \A m \in Mirrored(O) : \E o \in O :
            /\ m.id = o.id /\ m.class = o.class /\ m.slot = o.slot /\ m.side = o.side
            /\ m.orientation_ok = o.orientation_ok /\ m.hole = 6 - o.hole
  BY MirroredIs
<1>6. /\ \A o \in P : \E m \in Mirrored(P) :
            /\ m.id = o.id /\ m.class = o.class /\ m.slot = o.slot /\ m.side = o.side
            /\ m.orientation_ok = o.orientation_ok /\ m.hole = 6 - o.hole
      /\ \A m \in Mirrored(P) : \E o \in P :
            /\ m.id = o.id /\ m.class = o.class /\ m.slot = o.slot /\ m.side = o.side
            /\ m.orientation_ok = o.orientation_ok /\ m.hole = 6 - o.hole
  BY <1>1, MirroredIs
<1> HIDE DEF O, P
<1>7. Alike(Mirrored(O), P, "below", "above")
  BY <1>2, <1>3, <1>5 DEF Alike, Across
<1>8. Alike(Mirrored(P), O, "below", "above")
  BY <1>2, <1>3, <1>4, <1>6, SMTT(40) DEF Alike, Across
<1>9. QED BY <1>7, <1>8 DEF O, P

----------------------------------------------------------------------------
(* The bench.                                                              *)

BenchTypeOK ==
    /\ job \in Jobs
    /\ DOMAIN place = job.kit
    /\ \A p \in job.kit : place[p] \in Places[ClassOf[p]] \cup {Aside}
    /\ angle \in 0..359

LEMMA BenchTyped == BenchInit /\ [][BenchNext]_bench => []BenchTypeOK
<1>1. BenchInit => BenchTypeOK
  BY DEF BenchInit, BenchTypeOK
<1>2. BenchTypeOK /\ [BenchNext]_bench => BenchTypeOK'
  <2> SUFFICES ASSUME BenchTypeOK, [BenchNext]_bench PROVE BenchTypeOK'
    OBVIOUS
  <2>1. CASE UNCHANGED bench
    BY <2>1 DEF BenchTypeOK, bench
  <2>2. ASSUME NEW p \in DOMAIN place, TakeAway(p) PROVE BenchTypeOK'
    BY <2>2 DEF BenchTypeOK, TakeAway
  <2>3. ASSUME NEW p \in DOMAIN place, NEW s \in Places[ClassOf[p]], Put(p, s) PROVE BenchTypeOK'
    BY <2>3 DEF BenchTypeOK, Put
  <2>4. ASSUME NEW a \in job.angles, Turn(a) PROVE BenchTypeOK'
    BY <2>4, JobsAssumption DEF BenchTypeOK, Turn
  <2>5. QED BY <2>1, <2>2, <2>3, <2>4 DEF BenchNext
<1>3. QED BY <1>1, <1>2, PTL

LEMMA BoxAtIs ==
    ASSUME NEW p \in DOMAIN ClassOf, NEW s \in [x : Int, y : Int, lies : BOOLEAN, tilt : {-1, 0, 1}]
    PROVE  /\ BoxAt(p, ClassOf[p], s) \in Boxes
           /\ BoxAt(p, ClassOf[p], s).id = p /\ BoxAt(p, ClassOf[p], s).class = ClassOf[p]
           /\ BoxAt(p, ClassOf[p], s).x = s.x /\ BoxAt(p, ClassOf[p], s).y = s.y
<1> DEFINE k == ClassOf[p]
           b == BoxAt(p, k, s)
<1>1. k \in Kinds
  BY JobsAssumption DEF Kinds
<1>2. HalfSize[k][1] \in Nat /\ HalfSize[k][2] \in Nat
  BY <1>1 DEF Kinds, Classes, HalfSize
<1>3. /\ b.id = p /\ b.class = k /\ b.x = s.x /\ b.y = s.y
      /\ b.w = IF k = "mother_part" \/ s.lies THEN HalfSize[k][1] ELSE HalfSize[k][2]
      /\ b.h = IF k = "mother_part" \/ s.lies THEN HalfSize[k][2] ELSE HalfSize[k][1]
  BY DEF BoxAt
<1>4. b \in [id : DOMAIN ClassOf, class : Kinds, x : Int, y : Int, w : Nat, h : Nat, tilt : {-1, 0, 1}]
  BY <1>1, <1>2 DEF BoxAt
<1>5. QED BY <1>3, <1>4 DEF Boxes

LEMMA SeenIs ==
    ASSUME NEW d \in Boxes, NEW e \in Int
    PROVE  /\ Seen(d, FALSE, 0) = d
           /\ Seen(d, TRUE, 0) = TurnedBox(d)
           /\ \A turned \in BOOLEAN : /\ Seen(d, turned, e) \in Boxes
                                      /\ Seen(d, turned, e).id = d.id
                                      /\ Seen(d, turned, e).class = d.class
<1>1. d.x \in Int /\ d.y \in Int /\ d.x + 0 = d.x /\ -d.x + 0 = -d.x /\ d.x + e \in Int /\ -d.x + e \in Int /\ -d.y \in Int
  BY BoxFields
<1>2. Seen(d, FALSE, 0) = d
  <2>1. Seen(d, FALSE, 0) = [id |-> d.id, class |-> d.class, x |-> d.x + 0, y |-> d.y, w |-> d.w, h |-> d.h,
                           tilt |-> d.tilt]
    BY DEF Seen
  <2>2. QED BY <1>1, <2>1, BoxFields
<1>3. Seen(d, TRUE, 0) = TurnedBox(d)
  <2>1. Seen(d, TRUE, 0) = [id |-> d.id, class |-> d.class, x |-> -d.x + 0, y |-> -d.y, w |-> d.w, h |-> d.h,
                          tilt |-> d.tilt]
    BY DEF Seen
  <2>2. QED BY <1>1, <2>1 DEF TurnedBox
<1>4. ASSUME NEW turned \in BOOLEAN
      PROVE  /\ Seen(d, turned, e) \in Boxes
             /\ Seen(d, turned, e).id = d.id /\ Seen(d, turned, e).class = d.class
  <2> DEFINE b == Seen(d, turned, e)
  <2>1. /\ b.id = d.id /\ b.class = d.class /\ b.w = d.w /\ b.h = d.h /\ b.tilt = d.tilt
        /\ b.x = (IF turned THEN -d.x ELSE d.x) + e /\ b.y = IF turned THEN -d.y ELSE d.y
    BY DEF Seen
  <2>2. b \in [id : DOMAIN ClassOf, class : Kinds, x : Int, y : Int, w : Nat, h : Nat, tilt : {-1, 0, 1}]
    BY <1>1, BoxFields DEF Seen
  <2>3. QED BY <2>1, <2>2 DEF Boxes
<1>5. QED BY <1>2, <1>3, <1>4

LEMMA PiecesAre ==
    ASSUME BenchTypeOK
    PROVE  /\ Pieces \in Pictures
           /\ \A e \in Int : \A a : InPicture(a, e) \in Pictures
           /\ \A a : InPicture(a, 0) = IF Turned(a) THEN TurnedPicture(Pieces) ELSE Pieces
<1> DEFINE K == DOMAIN place
           box(p) == BoxAt(p, ClassOf[p], place[p])
<1>1. IsFiniteSet(K) /\ K \subseteq DOMAIN ClassOf
  BY JobsAssumption DEF BenchTypeOK
<1>2. \A p \in K : place[p] \in [x : Int, y : Int, lies : BOOLEAN, tilt : {-1, 0, 1}]
  <2>1. Aside \in [x : Int, y : Int, lies : BOOLEAN, tilt : {-1, 0, 1}]
    BY DEF Aside
  <2>2. \A p \in K : Places[ClassOf[p]] \subseteq [x : Int, y : Int, lies : BOOLEAN, tilt : {-1, 0, 1}]
    BY <1>1, JobsAssumption
  <2>3. QED BY <2>1, <2>2 DEF BenchTypeOK
<1>3. \A p \in K : box(p) \in Boxes /\ box(p).id = p
  BY <1>1, <1>2, BoxAtIs
<1>4. Pieces = {box(p) : p \in K}
  BY DEF Pieces
<1> HIDE DEF box
<1>5. ASSUME NEW e \in Int, NEW turned \in BOOLEAN
      PROVE  {Seen(b, turned, e) : b \in Pieces} \in Pictures
  <2> DEFINE S == {Seen(b, turned, e) : b \in Pieces}
  <2>1. \A b \in Pieces : Seen(b, turned, e) \in Boxes /\ Seen(b, turned, e).id = b.id
    BY <1>3, <1>4, SeenIs, ZenonT(40)
  <2>2. \A b, d \in Pieces : b.id = d.id => b = d
    BY <1>3, <1>4
  <2>3. IsFiniteSet(S)
    <3>1. PICK f \in [K -> S] : {f[p] : p \in K} = S
      <4> DEFINE f == [p \in K |-> Seen(box(p), turned, e)]
      <4>1. f \in [K -> S] /\ {f[p] : p \in K} = S
        BY <1>4
      <4>2. QED BY <4>1
    <3> HIDE DEF S, K
    <3>2. IsFiniteSet({f[p] : p \in K})
      BY <1>1, ImageFinite
    <3>3. QED BY <3>1, <3>2
  <2>4. S \subseteq Boxes /\ \A p, q \in S : p.id = q.id => p = q
    BY <2>1, <2>2
  <2>5. QED BY <2>3, <2>4 DEF Pictures
<1>6. \A b \in Pieces : Seen(b, FALSE, 0) = b /\ Seen(b, TRUE, 0) = TurnedBox(b)
  <2>1. PICK e \in Int : TRUE
    OBVIOUS
  <2>2. QED BY <1>3, <1>4, <2>1, SeenIs
<1>7. /\ {Seen(b, FALSE, 0) : b \in Pieces} = Pieces
      /\ {Seen(b, TRUE, 0) : b \in Pieces} = TurnedPicture(Pieces)
  <2> HIDE DEF K, Pieces
  <2>1. {Seen(b, FALSE, 0) : b \in Pieces} = {b : b \in Pieces}
    BY <1>6
  <2>2. {Seen(b, TRUE, 0) : b \in Pieces} \subseteq {TurnedBox(b) : b \in Pieces}
    <3>1. ASSUME NEW b \in Pieces PROVE Seen(b, TRUE, 0) \in {TurnedBox(d) : d \in Pieces}
      <4>1. Seen(b, TRUE, 0) = TurnedBox(b)
        BY <1>6
      <4>2. QED BY <4>1
    <3>2. QED BY <3>1
  <2>3. {TurnedBox(b) : b \in Pieces} \subseteq {Seen(b, TRUE, 0) : b \in Pieces}
    <3>1. ASSUME NEW b \in Pieces PROVE TurnedBox(b) \in {Seen(d, TRUE, 0) : d \in Pieces}
      <4>1. TurnedBox(b) = Seen(b, TRUE, 0)
        BY <1>6
      <4>2. QED BY <4>1
    <3>2. QED BY <3>1
  <2>4. QED BY <2>1, <2>2, <2>3 DEF TurnedPicture
<1>8. \A a : Turned(a) \in BOOLEAN
  BY DEF Turned
<1>9. \A e \in Int : \A a : InPicture(a, e) \in Pictures
  BY <1>5, <1>8 DEF InPicture
<1>10. \A a : InPicture(a, 0) = IF Turned(a) THEN TurnedPicture(Pieces) ELSE Pieces
  <2> SUFFICES ASSUME NEW a PROVE InPicture(a, 0) = IF Turned(a) THEN TurnedPicture(Pieces) ELSE Pieces
    OBVIOUS
  <2>1. CASE Turned(a) = TRUE
    BY <1>7, <2>1 DEF InPicture
  <2>2. CASE Turned(a) = FALSE
    BY <1>7, <2>2 DEF InPicture
  <2>3. QED BY <1>8, <2>1, <2>2
<1>11. Pieces \in Pictures
  <2>1. 0 \in Int /\ FALSE \in BOOLEAN
    OBVIOUS
  <2>2. {Seen(b, FALSE, 0) : b \in Pieces} \in Pictures
    BY <1>5, <2>1
  <2>3. QED BY <1>7, <2>2
<1>12. QED BY <1>9, <1>10, <1>11

\* The verdict on a picture.
LEMMA JudgeIs ==
    ASSUME NEW t, NEW rec, NEW D \in Pictures, NEW a
    PROVE  JudgeAssembly(t, rec, D \cup {Mother}, a).status =
             IF PoseRefused(t, a) \/ Ambiguous \in Told(t, D) THEN "HOLD"
             ELSE IF t.allow_mirrored_holes
             THEN BetterOf(StatusOf(rec, Observed(t, D), DirectSide(t)),
                           StatusOf(rec, Mirrored(Observed(t, D)), "below"))
             ELSE StatusOf(rec, Observed(t, D), DirectSide(t))
<1>1. Mother.class = "mother_part"
  BY DEF Mother, BoxAt
<1>2. \A d \in D : d.class # "mother_part"
  BY DEF Pictures, Boxes, Kinds
<1>3. {d \in D \cup {Mother} : d.class = "mother_part"} = {Mother}
  BY <1>1, <1>2
<1>4. {d \in D \cup {Mother} : d.class # "mother_part"} = D
  BY <1>1, <1>2
<1>5. Cardinality({Mother}) = 1
  BY FS_Singleton
<1>6. Associate(t, D \cup {Mother}) = Told(t, D)
  BY <1>4, Zenon DEF Associate, Told
<1>7. JudgeAssembly(t, rec, D \cup {Mother}, a) =
        IF PoseRefused(t, a) \/ Ambiguous \in Told(t, D) THEN Hold
        ELSE IF t.allow_mirrored_holes THEN EvaluateSymmetric(t, rec, Observed(t, D))
        ELSE Evaluate(rec, Observed(t, D), DirectSide(t))
  BY <1>3, <1>5, <1>6 DEF JudgeAssembly, Observed
<1>8. CASE PoseRefused(t, a) \/ Ambiguous \in Told(t, D)
  BY <1>7, <1>8 DEF Hold
<1>9. CASE ~PoseRefused(t, a) /\ Ambiguous \notin Told(t, D)
  <2>1. Placed(Observed(t, D)) /\ Placed(Mirrored(Observed(t, D)))
    BY <1>9, ObservedIs, MirroredIs
  <2>2. QED BY <1>7, <1>9, <2>1, SymmetricIs, EvaluateIs
<1>10. QED BY <1>8, <1>9

LEMMA JudgeTurned ==
    ASSUME NEW t, Turnable(t), t.allow_mirrored_holes, ~t.allow_parts_below, NEW rec, NEW D \in Pictures,
           NEW a, ~PoseRefused(t, a), NEW b, ~PoseRefused(t, b)
    PROVE  JudgeAssembly(t, rec, TurnedPicture(D) \cup {Mother}, b).status
           = JudgeAssembly(t, rec, D \cup {Mother}, a).status
<1> DEFINE E == TurnedPicture(D)
           O == Observed(t, D)
           P == Observed(t, E)
<1>1. E \in Pictures /\ (Ambiguous \in Told(t, E) <=> Ambiguous \in Told(t, D))
  BY PictureTurned
<1>2. CASE Ambiguous \in Told(t, D)
  BY <1>1, <1>2, JudgeIs
<1>3. CASE Ambiguous \notin Told(t, D)
  <2>1. DirectSide(t) = "above"
    BY DEF DirectSide
  <2>2. JudgeAssembly(t, rec, D \cup {Mother}, a).status =
          BetterOf(StatusOf(rec, O, "above"), StatusOf(rec, Mirrored(O), "below"))
    BY <1>3, <2>1, JudgeIs
  <2>3. JudgeAssembly(t, rec, E \cup {Mother}, b).status =
          BetterOf(StatusOf(rec, P, "above"), StatusOf(rec, Mirrored(P), "below"))
    BY <1>1, <1>3, <2>1, JudgeIs
  <2>4. Alike(Mirrored(O), P, "below", "above") /\ Alike(Mirrored(P), O, "below", "above")
    BY <1>3, ReadingsChangePlaces
  <2> HIDE DEF O, P
  <2>5. /\ StatusOf(rec, P, "above") = StatusOf(rec, Mirrored(O), "below")
        /\ StatusOf(rec, Mirrored(P), "below") = StatusOf(rec, O, "above")
    BY <2>4, AlikeStatus
  <2>6. \A A, s : StatusOf(rec, A, s) \in {"PASS", "IN_PROGRESS", "NG"}
    BY DEF StatusOf
  <2>7. QED BY <2>2, <2>3, <2>5, <2>6, BetterEitherWay
<1>4. QED BY <1>2, <1>3

\* Turning the Mother with all that hangs on her does not change the verdict
\* on what lies on the table, whatever it is (TurningChangesNothing), where
\* her holes are alike from both ends, a part that lies is plain, and she
\* may lie as she does (evaluator.py:6, :12). With RT-DETR the verdict rests
\* on measurements that turning changes; nothing is proved of them.
THEOREM TurnedIsTheSame ==
    BenchInit /\ [][BenchNext]_bench =>
        [](/\ job.detector # "rtdetr" /\ Turnable(c)
           /\ \A a \in job.angles \cup {angle} : ~PoseRefused(c, a)
           => TurningChangesNothing)
<1> DEFINE Applies == /\ job.detector # "rtdetr" /\ Turnable(c)
                      /\ \A a \in job.angles \cup {angle} : ~PoseRefused(c, a)
<1>1. BenchTypeOK => (Applies => TurningChangesNothing)
  <2> SUFFICES ASSUME BenchTypeOK, Applies, c.allow_mirrored_holes, ~c.allow_parts_below, NEW a \in job.angles
               PROVE  Judged(a, Plain).status = Judged(angle, Plain).status
    BY DEF TurningChangesNothing
  <2> DEFINE D == Pieces
             verdict(E, b) == JudgeAssembly(c, r, E \cup {Mother}, b).status
  <2>1. /\ Judged(a, Plain).status = verdict(InPicture(a, 0), a)
        /\ Judged(angle, Plain).status = verdict(InPicture(angle, 0), angle)
    BY DEF Judged, Plain, Detections
  <2>2. ~PoseRefused(c, a) /\ ~PoseRefused(c, angle) /\ Turnable(c)
    OBVIOUS
  <2>3. /\ D \in Pictures
        /\ InPicture(a, 0) = IF Turned(a) THEN TurnedPicture(D) ELSE D
        /\ InPicture(angle, 0) = IF Turned(angle) THEN TurnedPicture(D) ELSE D
    BY PiecesAre
  <2>4. /\ verdict(TurnedPicture(D), a) = verdict(D, a)
        /\ verdict(TurnedPicture(D), angle) = verdict(D, a)
        /\ verdict(TurnedPicture(D), a) = verdict(D, angle)
    BY <2>2, <2>3, JudgeTurned
  <2> HIDE DEF D, verdict
  <2>5. QED BY <2>1, <2>3, <2>4
<1>2. QED BY <1>1, BenchTyped, PTL

----------------------------------------------------------------------------
(* A reading accepts what can still become a finished assembly, and passes *)
(* what is one.                                                            *)

ToldJoint(o) == <<o.class, o.hole, o.side>>
Joints(observed) == {ToldJoint(o) : o \in observed}

\* The finished assembly of a recipe, its parts on the given sides.
Goal(rec, sides) ==
    {<<rec[h].bolt, h, "none">> : h \in DOMAIN rec} \cup {<<rec[h].part, h, sides[h]>> : h \in DOMAIN rec}

SidesOf(side) == IF side = "any" THEN {"above", "below"} ELSE {side}

\* Pieces that are joined to holes, each place taken once.
Joined(observed) ==
    /\ Placed(observed)
    /\ \A o \in observed :
          /\ o.orientation_ok
          /\ \/ o.slot = "bolt" /\ o.class \in {"bolt_1", "bolt_2"} /\ o.side = "none"
             \/ o.slot = "part" /\ o.class \in Bars /\ o.side \in {"above", "below"}
    /\ \A o, p \in observed : o.hole = p.hole /\ o.slot = p.slot /\ o.side = p.side => o.id = p.id

LEMMA RecipeFields ==
    ASSUME NEW rec, ValidRecipe(rec), NEW h \in DOMAIN rec
    PROVE  /\ rec[h]["bolt"] = rec[h].bolt /\ rec[h]["part"] = rec[h].part
           /\ rec[h].bolt \in {"bolt_1", "bolt_2"} /\ rec[h].part \in Bars
           /\ h \in Holes
BY DEF ValidRecipe, Bars, Holes

LEMMA GoalMembers ==
    ASSUME NEW rec, ValidRecipe(rec), NEW sides, NEW class, NEW hole, NEW side
    PROVE  /\ class \in {"bolt_1", "bolt_2"} =>
                 (<<class, hole, side>> \in Goal(rec, sides)
                  <=> hole \in DOMAIN rec /\ class = rec[hole].bolt /\ side = "none")
           /\ class \in Bars =>
                 (<<class, hole, side>> \in Goal(rec, sides)
                  <=> hole \in DOMAIN rec /\ class = rec[hole].part /\ side = sides[hole])
<1>1. <<class, hole, side>> \in Goal(rec, sides) <=>
        \/ \E h \in DOMAIN rec : class = rec[h].bolt /\ hole = h /\ side = "none"
        \/ \E h \in DOMAIN rec : class = rec[h].part /\ hole = h /\ side = sides[h]
  BY DEF Goal
<1>2. \A h \in DOMAIN rec : rec[h].bolt \in {"bolt_1", "bolt_2"} /\ rec[h].part \in Bars
  BY RecipeFields
<1>3. {"bolt_1", "bolt_2"} \cap Bars = {}
  BY DEF Bars
<1>4. QED BY <1>1, <1>2, <1>3

\* Each joint of an accepted reading is one of a goal.
LEMMA FitsIsPartOfGoal ==
    ASSUME NEW rec, ValidRecipe(rec), NEW O, Joined(O), NEW side \in {"any", "above", "below"}, Fits(rec, O, side)
    PROVE  \E sides \in [DOMAIN rec -> SidesOf(side)] : Joints(O) \subseteq Goal(rec, sides)
<1> DEFINE PartAt(h) == {o \in O : o.hole = h /\ o.slot = "part"}
           sides == [h \in DOMAIN rec |->
                        IF PartAt(h) # {} THEN (CHOOSE o \in PartAt(h) : TRUE).side
                        ELSE IF side = "any" THEN "above" ELSE side]
<1>1. ASSUME NEW h \in DOMAIN rec, NEW o \in PartAt(h)
      PROVE  o.side = sides[h] /\ o.side \in SidesOf(side)
  <2>1. PICK p \in PartAt(h) : p = CHOOSE q \in PartAt(h) : TRUE
    BY <1>1
  <2>2. sides[h] = p.side
    BY <1>1, <2>1
  <2>3. o = p
    BY <1>1, <2>1 DEF Fits, Joined, Placed
  <2>4. o.side \in SidesOf(side)
    BY <1>1 DEF SidesOf, Fits, Joined
  <2>5. QED BY <2>2, <2>3, <2>4
<1>2. ASSUME NEW h \in DOMAIN rec
      PROVE  sides[h] \in SidesOf(side)
  <2>1. CASE PartAt(h) # {}
    <3>1. PICK o \in PartAt(h) : TRUE
      BY <2>1
    <3> HIDE DEF sides, PartAt
    <3>2. QED BY <1>1, <1>2, <3>1
  <2>2. CASE PartAt(h) = {}
    BY <2>2 DEF SidesOf
  <2>3. QED BY <2>1, <2>2
<1>3. sides \in [DOMAIN rec -> SidesOf(side)]
  BY <1>2
<1>4. ASSUME NEW o \in O PROVE ToldJoint(o) \in Goal(rec, sides)
  <2>1. o.hole \in DOMAIN rec /\ o.class = rec[o.hole][o.slot]
    BY DEF Fits
  <2>2. CASE o.slot = "bolt"
    <3>1. o.class \in {"bolt_1", "bolt_2"} /\ o.side = "none" /\ o.class = rec[o.hole].bolt
      BY <2>1, <2>2, RecipeFields DEF Joined
    <3>2. QED BY <2>1, <3>1, GoalMembers DEF ToldJoint
  <2>3. CASE o.slot = "part"
    <3>1. o.class \in Bars /\ o.class = rec[o.hole].part
      BY <2>1, <2>3, RecipeFields DEF Joined
    <3>2. o \in PartAt(o.hole)
      BY <2>3
    <3> HIDE DEF sides, PartAt
    <3>3. o.side = sides[o.hole]
      BY <1>1, <2>1, <3>2
    <3>4. QED BY <2>1, <3>1, <3>3, GoalMembers DEF ToldJoint
  <2>4. QED BY <2>2, <2>3 DEF Joined
<1>5. QED BY <1>3, <1>4 DEF Joints

LEMMA PartOfGoalFits ==
    ASSUME NEW rec, ValidRecipe(rec), NEW O, Joined(O), NEW side \in {"any", "above", "below"},
           NEW sides \in [DOMAIN rec -> SidesOf(side)], Joints(O) \subseteq Goal(rec, sides)
    PROVE  Fits(rec, O, side)
<1>1. ASSUME NEW o \in O
      PROVE  /\ o.hole \in DOMAIN rec /\ o.class = rec[o.hole][o.slot] /\ o.orientation_ok
             /\ o.slot = "part" => o.side = sides[o.hole] /\ o.side \in SidesOf(side)
  <2>1. <<o.class, o.hole, o.side>> \in Goal(rec, sides) /\ o.orientation_ok
    BY DEF Joints, ToldJoint, Joined
  <2>2. CASE o.slot = "bolt"
    <3>1. o.class \in {"bolt_1", "bolt_2"}
      BY <2>2 DEF Joined
    <3>2. o.hole \in DOMAIN rec /\ o.class = rec[o.hole].bolt
      BY <2>1, <3>1, GoalMembers
    <3>3. QED BY <2>1, <2>2, <3>2, RecipeFields
  <2>3. CASE o.slot = "part"
    <3>1. o.class \in Bars
      BY <2>3 DEF Joined
    <3>2. o.hole \in DOMAIN rec /\ o.class = rec[o.hole].part /\ o.side = sides[o.hole]
      BY <2>1, <3>1, GoalMembers
    <3>3. QED BY <2>1, <2>3, <3>2, RecipeFields
  <2>4. QED BY <2>2, <2>3 DEF Joined
<1>2. ASSUME NEW o \in O, NEW p \in O, o.hole = p.hole, o.slot = p.slot
      PROVE  o.id = p.id
  <2>1. o.side = p.side
    BY <1>1, <1>2 DEF Joined
  <2>2. QED BY <1>2, <2>1 DEF Joined
<1>3. QED BY <1>1, <1>2 DEF Fits, SidesOf
\* A reading is no NG as long as a finished assembly holds all of it, and a
\* PASS when it is one.
LEMMA StatusByGoals ==
    ASSUME NEW rec, ValidRecipe(rec), NEW O, Joined(O), NEW side \in {"any", "above", "below"}
    PROVE  LET fitting == [DOMAIN rec -> SidesOf(side)] IN
           /\ StatusOf(rec, O, side) # "NG" <=> \E sides \in fitting : Joints(O) \subseteq Goal(rec, sides)
           /\ StatusOf(rec, O, side) = "PASS" <=> \E sides \in fitting : Joints(O) = Goal(rec, sides)
           /\ StatusOf(rec, O, side) \in {"PASS", "IN_PROGRESS", "NG"}
<1> DEFINE fitting == [DOMAIN rec -> SidesOf(side)]
<1>1. Fits(rec, O, side) <=> \E sides \in fitting : Joints(O) \subseteq Goal(rec, sides)
  BY FitsIsPartOfGoal, PartOfGoalFits
<1>2. ASSUME NEW sides \in fitting, Joints(O) \subseteq Goal(rec, sides), Fits(rec, O, side), Full(rec, O)
      PROVE  Goal(rec, sides) \subseteq Joints(O)
  <2>1. ASSUME NEW h \in DOMAIN rec PROVE <<rec[h].bolt, h, "none">> \in Joints(O)
    <3>1. PICK o \in O : o.hole = h /\ o.slot = "bolt"
      BY <1>2 DEF Full
    <3>2. o.class = rec[h].bolt /\ o.side = "none"
      BY <1>2, <3>1, RecipeFields DEF Fits, Joined
    <3>3. QED BY <3>1, <3>2 DEF Joints, ToldJoint
  <2>2. ASSUME NEW h \in DOMAIN rec PROVE <<rec[h].part, h, sides[h]>> \in Joints(O)
    <3>1. PICK o \in O : o.hole = h /\ o.slot = "part"
      BY <1>2 DEF Full
    <3>2. o.class = rec[h].part /\ o.class \in Bars
      BY <1>2, <3>1, RecipeFields DEF Fits, Joined
    <3>3. <<o.class, h, o.side>> \in Goal(rec, sides)
      BY <1>2, <3>1 DEF Joints, ToldJoint
    <3>4. o.side = sides[h]
      BY <3>2, <3>3, GoalMembers
    <3>5. QED BY <3>1, <3>2, <3>4 DEF Joints, ToldJoint
  <2>3. QED BY <2>1, <2>2 DEF Goal
<1>3. ASSUME NEW sides \in fitting, Joints(O) = Goal(rec, sides)
      PROVE  Full(rec, O)
  <2>1. ASSUME NEW h \in DOMAIN rec PROVE \E o \in O : o.hole = h /\ o.slot = "bolt"
    <3>1. <<rec[h].bolt, h, "none">> \in Joints(O)
      BY <1>3 DEF Goal
    <3>2. PICK o \in O : o.class = rec[h].bolt /\ o.hole = h
      BY <3>1 DEF Joints, ToldJoint
    <3>3. o.class \in {"bolt_1", "bolt_2"}
      BY <3>2, RecipeFields
    <3>4. QED BY <3>2, <3>3 DEF Joined, Bars
  <2>2. ASSUME NEW h \in DOMAIN rec PROVE \E o \in O : o.hole = h /\ o.slot = "part"
    <3>1. <<rec[h].part, h, sides[h]>> \in Joints(O)
      BY <1>3 DEF Goal
    <3>2. PICK o \in O : o.class = rec[h].part /\ o.hole = h
      BY <3>1 DEF Joints, ToldJoint
    <3>3. o.class \in Bars
      BY <3>2, RecipeFields
    <3>4. QED BY <3>2, <3>3 DEF Joined, Bars
  <2>3. QED BY <2>1, <2>2 DEF Full
<1>4. ASSUME Fits(rec, O, side), Full(rec, O)
      PROVE  \E sides \in fitting : Joints(O) = Goal(rec, sides)
  <2>1. PICK sides \in fitting : Joints(O) \subseteq Goal(rec, sides)
    BY <1>1, <1>4
  <2>2. Goal(rec, sides) \subseteq Joints(O)
    BY <1>2, <1>4, <2>1
  <2>3. Joints(O) = Goal(rec, sides)
    BY <2>1, <2>2
  <2>4. QED BY <2>3, Zenon
<1>5. ASSUME NEW sides \in fitting, Joints(O) = Goal(rec, sides)
      PROVE  Fits(rec, O, side) /\ Full(rec, O)
  BY <1>1, <1>3, <1>5
<1> HIDE DEF fitting
<1>6. Fits(rec, O, side) /\ Full(rec, O) <=> \E sides \in fitting : Joints(O) = Goal(rec, sides)
  BY <1>4, <1>5
<1>7. /\ StatusOf(rec, O, side) # "NG" <=> Fits(rec, O, side)
      /\ StatusOf(rec, O, side) = "PASS" <=> Fits(rec, O, side) /\ Full(rec, O)
      /\ StatusOf(rec, O, side) \in {"PASS", "IN_PROGRESS", "NG"}
  BY DEF StatusOf
<1>8. QED BY <1>1, <1>6, <1>7 DEF fitting

\* The same assembly with its holes counted from the Mother's other end.
GoalBack(rec, sides) ==
    {<<rec[h].bolt, 6 - h, "none">> : h \in DOMAIN rec} \cup {<<rec[h].part, 6 - h, sides[h]>> : h \in DOMAIN rec}

\* The pieces M are the pieces O, their holes counted from the other end.
Mirrors(O, M) ==
    LET Other(o, m) == /\ m.id = o.id /\ m.class = o.class /\ m.slot = o.slot /\ m.side = o.side
                       /\ m.orientation_ok = o.orientation_ok /\ m.hole = 6 - o.hole
    IN /\ \A o \in O : \E m \in M : Other(o, m)
       /\ \A m \in M : \E o \in O : Other(o, m)

LEMMA JointsMirrored ==
    ASSUME NEW O, Joined(O), NEW M, Placed(M), Mirrors(O, M)
    PROVE  /\ Joined(M)
           /\ \A k, side : \A h \in Holes : <<k, h, side>> \in Joints(M) <=> <<k, 6 - h, side>> \in Joints(O)
<1>1. \A o \in O : o.hole \in Holes
  BY DEF Joined, Placed
<1>2. \A m \in M : m.hole \in Holes
  BY DEF Placed
<1>3. Joined(M)
  <2>1. \A m \in M :
          /\ m.orientation_ok
          /\ \/ m.slot = "bolt" /\ m.class \in {"bolt_1", "bolt_2"} /\ m.side = "none"
             \/ m.slot = "part" /\ m.class \in Bars /\ m.side \in {"above", "below"}
    BY DEF Joined, Mirrors
  <2>2. \A m, n \in M : m.hole = n.hole /\ m.slot = n.slot /\ m.side = n.side => m.id = n.id
    BY <1>1, HolesTurned DEF Joined, Mirrors
  <2>3. QED BY <2>1, <2>2 DEF Joined
<1>4. ASSUME NEW k, NEW side, NEW h \in Holes
      PROVE  <<k, h, side>> \in Joints(M) <=> <<k, 6 - h, side>> \in Joints(O)
  <2>1. <<k, h, side>> \in Joints(M) <=> \E m \in M : m.class = k /\ m.hole = h /\ m.side = side
    BY DEF Joints, ToldJoint
  <2>2. <<k, 6 - h, side>> \in Joints(O) <=> \E o \in O : o.class = k /\ o.hole = 6 - h /\ o.side = side
    BY DEF Joints, ToldJoint
  <2>3. ASSUME NEW m \in M, m.class = k /\ m.hole = h /\ m.side = side
        PROVE  \E o \in O : o.class = k /\ o.hole = 6 - h /\ o.side = side
    <3>1. PICK o \in O : m.class = o.class /\ m.side = o.side /\ m.hole = 6 - o.hole
      BY DEF Mirrors
    <3>2. o.hole = 6 - h
      BY <1>1, <2>3, <3>1, HolesTurned
    <3>3. QED BY <2>3, <3>1, <3>2
  <2>4. ASSUME NEW o \in O, o.class = k /\ o.hole = 6 - h /\ o.side = side
        PROVE  \E m \in M : m.class = k /\ m.hole = h /\ m.side = side
    <3>1. PICK m \in M : m.class = o.class /\ m.side = o.side /\ m.hole = 6 - o.hole
      BY DEF Mirrors
    <3>2. m.hole = h
      BY <2>4, <3>1, HolesTurned
    <3>3. QED BY <2>4, <3>1, <3>2
  <2>5. QED BY <2>1, <2>2, <2>3, <2>4
<1>5. QED BY <1>3, <1>4

\* The triples of T are those of S with their holes counted from the other end.
Triples(S) == \A j \in S : \E k, h, side : h \in Holes /\ j = <<k, h, side>>
Back(S, T) == \A k, h, side : h \in Holes => (<<k, h, side>> \in S <=> <<k, 6 - h, side>> \in T)

LEMMA BackKeepsSubsets ==
    ASSUME NEW S, NEW T, NEW U, NEW V, Back(S, T), Back(U, V), Triples(S), Triples(T)
    PROVE  S \subseteq U <=> T \subseteq V
<1>1. ASSUME S \subseteq U, NEW j \in T PROVE j \in V
  <2>1. PICK k, h, side : h \in Holes /\ j = <<k, h, side>>
    BY DEF Triples
  <2>2. PICK g \in Holes : h = 6 - g
    BY <2>1, HolesTurned
  <2>3. <<k, g, side>> \in S
    BY <1>1, <2>1, <2>2 DEF Back
  <2>4. QED BY <1>1, <2>1, <2>2, <2>3 DEF Back
<1>2. ASSUME T \subseteq V, NEW j \in S PROVE j \in U
  <2>1. PICK k, h, side : h \in Holes /\ j = <<k, h, side>>
    BY DEF Triples
  <2>2. <<k, 6 - h, side>> \in V
    BY <1>2, <2>1 DEF Back
  <2>3. QED BY <2>1, <2>2 DEF Back
<1>3. QED BY <1>1, <1>2

LEMMA MirroredGoals ==
    ASSUME NEW rec, ValidRecipe(rec), NEW sides, NEW O, Joined(O), NEW M, Placed(M), Mirrors(O, M)
    PROVE  /\ Joints(M) \subseteq Goal(rec, sides) <=> Joints(O) \subseteq GoalBack(rec, sides)
           /\ Joints(M) = Goal(rec, sides) <=> Joints(O) = GoalBack(rec, sides)
<1>1. Back(Joints(M), Joints(O))
  BY JointsMirrored DEF Back
<1>2. Back(Goal(rec, sides), GoalBack(rec, sides))
  <2>1. \A h \in DOMAIN rec : h \in Holes
    BY RecipeFields
  <2>2. ASSUME NEW k, NEW h, NEW side, h \in Holes
        PROVE  <<k, h, side>> \in Goal(rec, sides) <=> <<k, 6 - h, side>> \in GoalBack(rec, sides)
    <3>1. <<k, h, side>> \in Goal(rec, sides) <=>
            \/ \E g \in DOMAIN rec : k = rec[g].bolt /\ h = g /\ side = "none"
            \/ \E g \in DOMAIN rec : k = rec[g].part /\ h = g /\ side = sides[g]
      BY DEF Goal
    <3>2. <<k, 6 - h, side>> \in GoalBack(rec, sides) <=>
            \/ \E g \in DOMAIN rec : k = rec[g].bolt /\ 6 - h = 6 - g /\ side = "none"
            \/ \E g \in DOMAIN rec : k = rec[g].part /\ 6 - h = 6 - g /\ side = sides[g]
      BY DEF GoalBack
    <3>3. \A g \in DOMAIN rec : 6 - h = 6 - g <=> h = g
      BY <2>1, <2>2, HolesTurned
    <3>4. QED BY <3>1, <3>2, <3>3
  <2>3. QED BY <2>2 DEF Back
<1>3. Triples(Joints(M)) /\ Triples(Joints(O))
  BY DEF Joints, ToldJoint, Joined, Placed, Triples
<1>4. Triples(Goal(rec, sides))
  BY RecipeFields DEF Goal, Triples
<1>5. Triples(GoalBack(rec, sides))
  <2>1. \A h \in DOMAIN rec : 6 - h \in Holes
    BY RecipeFields, HolesTurned
  <2>2. QED BY <2>1 DEF GoalBack, Triples
<1>6. /\ Joints(M) \subseteq Goal(rec, sides) <=> Joints(O) \subseteq GoalBack(rec, sides)
      /\ Goal(rec, sides) \subseteq Joints(M) <=> GoalBack(rec, sides) \subseteq Joints(O)
  BY <1>1, <1>2, <1>3, <1>4, <1>5, BackKeepsSubsets
<1>7. QED BY <1>6
----------------------------------------------------------------------------
(* What is built on the bench.                                             *)

Spot == [x : Int, y : Int, lies : BOOLEAN, tilt : {-1, 0, 1}]

\* The two pieces are not at one place of the Mother.
Clear(p, a, q, b) ==
    \/ a = Aside \/ b = Aside
    \/ {Slot([class |-> ClassOf[p]]), Slot([class |-> ClassOf[q]])} = {"bolt", "part"}
    \/ Abs(a.x - b.x) >= 200
    \/ a.y * b.y < 0

Apart == \A p, q \in DOMAIN place : p # q => Clear(p, place[p], q, place[q])

LEMMA ClearEitherWay ==
    ASSUME NEW p, NEW q, NEW a \in Spot, NEW b \in Spot
    PROVE  Clear(p, a, q, b) => Clear(q, b, p, a)
<1>1. a.x \in Int /\ b.x \in Int /\ a.y \in Int /\ b.y \in Int
  BY DEF Spot
<1>2. Abs(a.x - b.x) >= 200 => Abs(b.x - a.x) >= 200
  BY <1>1 DEF Abs
<1>3. a.y * b.y = b.y * a.y
  BY <1>1
<1>4. \A m, n : {m, n} = {n, m}
  OBVIOUS
<1>5. QED BY <1>2, <1>3, <1>4, Zenon DEF Clear

LEMMA PlacesAreSpots ==
    /\ Aside \in Spot
    /\ \A p \in DOMAIN ClassOf : Places[ClassOf[p]] \subseteq Spot
    /\ BenchTypeOK => \A p \in DOMAIN place : p \in DOMAIN ClassOf /\ place[p] \in Spot
<1>1. Aside \in Spot
  BY DEF Aside, Spot
<1>2. \A p \in DOMAIN ClassOf : Places[ClassOf[p]] \subseteq Spot
  BY JobsAssumption DEF Spot
<1>3. QED BY <1>1, <1>2, JobsAssumption DEF BenchTypeOK

LEMMA ApartAlways == BenchInit /\ [][BenchNext]_bench => [](BenchTypeOK /\ Apart)
<1>1. BenchInit => Apart
  BY DEF BenchInit, Apart, Clear
<1>2. BenchTypeOK /\ Apart /\ [BenchNext]_bench => Apart'
  <2> SUFFICES ASSUME BenchTypeOK, Apart, [BenchNext]_bench PROVE Apart'
    OBVIOUS
  <2>1. CASE UNCHANGED place
    BY <2>1 DEF Apart
  <2>2. ASSUME NEW p \in DOMAIN place, TakeAway(p) PROVE Apart'
    BY <2>2 DEF Apart, Clear, TakeAway
  <2>3. ASSUME NEW p \in DOMAIN place, NEW s \in Places[ClassOf[p]], Put(p, s) PROVE Apart'
    <3>1. /\ place' = [place EXCEPT ![p] = s] /\ DOMAIN place' = DOMAIN place
          /\ place'[p] = s /\ \A q \in DOMAIN place \ {p} : place'[q] = place[q]
      BY <2>3 DEF Put
    <3>2. \A q \in DOMAIN place \ {p} : Clear(p, s, q, place[q]) /\ Clear(q, place[q], p, s)
      <4> TAKE q \in DOMAIN place \ {p}
      <4>1. s \in Spot /\ place[q] \in Spot
        BY PlacesAreSpots
      <4>2. Abs(s.x - place[q].x) = Abs(place[q].x - s.x) /\ s.y * place[q].y = place[q].y * s.y
        <5>1. s.x \in Int /\ s.y \in Int /\ place[q].x \in Int /\ place[q].y \in Int
          BY <4>1 DEF Spot
        <5>2. QED BY <5>1 DEF Abs
      <4>3. Clear(p, s, q, place[q])
        BY <2>3, <4>2 DEF Put, FitsBeside, Clear
      <4>4. QED BY <4>1, <4>3, ClearEitherWay
    <3>3. QED BY <3>1, <3>2 DEF Apart
  <2>4. ASSUME NEW a \in job.angles, Turn(a) PROVE Apart'
    BY <2>1, <2>4 DEF Turn
  <2>5. QED BY <2>1, <2>2, <2>3, <2>4 DEF BenchNext, bench
<1>3. QED BY <1>1, <1>2, BenchTyped, PTL
\* What a joint says of the piece that has it.
LEMMA JointsMean ==
    ASSUME NEW t, ValidConfig(t), NEW d \in Boxes, NEW j \in JointsOf(t, d)
    PROVE  /\ j = <<d.class, j[2], j[3]>> /\ j[2] \in Holes /\ d.x = t.hole_alphas[j[2]]
           /\ Slot(d) = "bolt" => j[3] = "none" /\ d.y = 0
           /\ Slot(d) = "part" => /\ ~Lies(d)
                                  /\ \/ j[3] = "above" /\ d.y <= 0
                                     \/ j[3] = "below" /\ d.y >= 0
<1>1. j \in {d.class} \X Holes \X {"none", "above", "below"}
  BY DEF JointsOf
<1>2. j = <<d.class, j[2], j[3]>> /\ j[2] \in Holes
  BY <1>1
<1>3. /\ d.x = t.hole_alphas[j[2]]
      /\ Slot(d) = "bolt" => j[3] = "none" /\ d.y = 0
      /\ Slot(d) # "bolt" => /\ ~Lies(d)
                             /\ \/ j[3] = "above" /\ Anchor(t, d, 1).y = 0
                                \/ j[3] = "below" /\ Anchor(t, d, -1).y = 0
  BY DEF JointsOf
<1>4. ASSUME Slot(d) = "part"
      PROVE  /\ ~Lies(d)
             /\ \/ j[3] = "above" /\ d.y <= 0
                \/ j[3] = "below" /\ d.y >= 0
  <2>1. d.class \in Bars /\ d.y \in Int
    BY <1>4, BoxFields
  <2>2. Reach(t, d) \in Nat
    BY <2>1, ReachType
  <2>3. PICK one, minus \in {1, -1} : one = 1 /\ minus = -1
    OBVIOUS
  <2>4. ~Lies(d)
    BY <1>3, <1>4
  <2>5. /\ Anchor(t, d, one).y = d.y + one * Reach(t, d)
        /\ Anchor(t, d, minus).y = d.y + minus * Reach(t, d)
    BY <2>1, <2>4, AnchorIs
  <2>6. \/ j[3] = "above" /\ Anchor(t, d, one).y = 0
        \/ j[3] = "below" /\ Anchor(t, d, minus).y = 0
    BY <1>3, <1>4, <2>3
  <2>7. PICK m \in Nat, y \in Int : m = Reach(t, d) /\ y = d.y
    BY <2>1, <2>2
  <2>8. /\ Anchor(t, d, one).y = y + m
        /\ Anchor(t, d, minus).y = y - m
    <3>1. one * m = m /\ y + minus * m = y - m
      BY <2>3
    <3>2. QED BY <2>5, <2>7, <3>1
  <2>9. y + m = 0 => y <= 0
    OBVIOUS
  <2>10. y - m = 0 => y >= 0
    OBVIOUS
  <2>11. \/ j[3] = "above" /\ y + m = 0
         \/ j[3] = "below" /\ y - m = 0
    BY <2>6, <2>8, Zenon
  <2>12. QED BY <2>4, <2>7, <2>9, <2>10, <2>11, Zenon
<1>5. QED BY <1>2, <1>3, <1>4

LEMMA SeenFields ==
    ASSUME NEW d \in Boxes, NEW turned \in BOOLEAN
    PROVE  /\ Seen(d, turned, 0) \in Boxes
           /\ Seen(d, turned, 0).x = IF turned THEN -d.x ELSE d.x
           /\ Seen(d, turned, 0).y = IF turned THEN -d.y ELSE d.y
           /\ Seen(d, turned, 0).class = d.class
           /\ Slot(Seen(d, turned, 0)) = Slot(d)
           /\ Lies(Seen(d, turned, 0)) <=> Lies(d)
<1>1. PICK e \in Int : TRUE
  OBVIOUS
<1>2. CASE turned = TRUE
  <2>1. Seen(d, turned, 0) = TurnedBox(d)
    BY <1>1, <1>2, SeenIs
  <2>2. QED BY <1>2, <2>1, BoxTurned
<1>3. CASE turned = FALSE
  <2>1. Seen(d, turned, 0) = d
    BY <1>1, <1>3, SeenIs
  <2>2. QED BY <1>3, <2>1
<1>4. QED BY <1>2, <1>3

BoxOf(p) == BoxAt(p, ClassOf[p], place[p])

\* A piece on the bench is told to be at the hole it is joined to.
LEMMA ToldAsJoined ==
    ASSUME BenchTypeOK, job.detector = "obb", NEW p \in DOMAIN place, NEW turned \in BOOLEAN, NEW e \in BoxErrors
    PROVE  LET z == Seen(BoxOf(p), turned, 0)
               told == AssociateOne(c, Seen(BoxOf(p), turned, e))
           IN /\ JointsOf(c, z) = {} => told = IF Common(z, Body(c)) > 0 THEN Ambiguous ELSE Ignored
              /\ \A j \in JointsOf(c, z) : told = At(BoxOf(p), j[2], j[3]) /\ JointsOf(c, z) = {j}
              /\ JointsOf(c, z) # {} => place[p] # Aside
<1> DEFINE z == Seen(BoxOf(p), turned, 0)
           told == AssociateOne(c, Seen(BoxOf(p), turned, e))
<1>1. job \in Jobs /\ p \in job.kit /\ place[p] \in Places[ClassOf[p]] \cup {Aside}
  BY DEF BenchTypeOK
<1>2. /\ ReadRightly(Configs[job.config], BoxAt(p, ClassOf[p], place[p]), turned)
      /\ JointsOf(Configs[job.config], Seen(BoxAt(p, ClassOf[p], Aside), turned, 0)) = {}
  BY <1>1, PlacesAssumption
<1>3. ReadRightly(c, BoxOf(p), turned)
  BY <1>2, Zenon DEF c, BoxOf
<1>4. place[p] = Aside => JointsOf(c, z) = {}
  BY <1>2, Zenon DEF c, BoxOf
<1>5. /\ \A i, j \in JointsOf(c, z) : i = j
      /\ told \in IF JointsOf(c, z) = {} THEN {IF Common(z, Body(c)) > 0 THEN Ambiguous ELSE Ignored}
                  ELSE {At(BoxOf(p), j[2], j[3]) : j \in JointsOf(c, z)}
  BY <1>3, Zenon DEF ReadRightly
<1> HIDE DEF z, told
<1>6. QED BY <1>4, <1>5 DEF z, told
LEMMA ConfigIsValid == BenchTypeOK => ValidConfig(c) /\ ValidRecipe(r)
BY JobsAssumption DEF BenchTypeOK, c, r

LEMMA BoxOfIs ==
    ASSUME BenchTypeOK, NEW p \in DOMAIN place
    PROVE  /\ BoxOf(p) \in Boxes /\ BoxOf(p).id = p /\ BoxOf(p).class = ClassOf[p]
           /\ BoxOf(p).x = place[p].x /\ BoxOf(p).y = place[p].y
           /\ place[p].x \in Int /\ place[p].y \in Int
           /\ Slot(BoxOf(p)) = Slot([class |-> ClassOf[p]])
<1>1. p \in DOMAIN ClassOf /\ place[p] \in Spot
  BY PlacesAreSpots
<1>2. BoxOf(p) \in Boxes /\ BoxOf(p).id = p /\ BoxOf(p).class = ClassOf[p]
      /\ BoxOf(p).x = place[p].x /\ BoxOf(p).y = place[p].y
  BY <1>1, BoxAtIs DEF BoxOf, Spot
<1>3. Slot(BoxOf(p)) = Slot([class |-> ClassOf[p]])
  BY <1>2 DEF Slot
<1>4. QED BY <1>1, <1>2, <1>3 DEF Spot

\* Two joined pieces of one slot are not at one hole, on one side of it.
LEMMA OnePieceEach ==
    ASSUME BenchTypeOK, Apart, NEW turned \in BOOLEAN, NEW p \in DOMAIN place, NEW q \in DOMAIN place,
           place[p] # Aside, place[q] # Aside, Slot(BoxOf(p)) = Slot(BoxOf(q)),
           NEW i \in JointsOf(c, Seen(BoxOf(p), turned, 0)), NEW j \in JointsOf(c, Seen(BoxOf(q), turned, 0)),
           i[2] = j[2], i[3] = j[3]
    PROVE  p = q
<1> DEFINE a == Seen(BoxOf(p), turned, 0)
           b == Seen(BoxOf(q), turned, 0)
<1>1. ValidConfig(c)
  BY ConfigIsValid
<1>2. BoxOf(p) \in Boxes /\ BoxOf(q) \in Boxes
  BY BoxOfIs
<1>3. /\ a \in Boxes /\ Slot(a) = Slot(BoxOf(p)) /\ b \in Boxes /\ Slot(b) = Slot(BoxOf(q))
      /\ a.x = (IF turned THEN -place[p].x ELSE place[p].x) /\ a.y = IF turned THEN -place[p].y ELSE place[p].y
      /\ b.x = (IF turned THEN -place[q].x ELSE place[q].x) /\ b.y = IF turned THEN -place[q].y ELSE place[q].y
  <2>1. /\ a \in Boxes /\ Slot(a) = Slot(BoxOf(p))
        /\ a.x = (IF turned THEN -BoxOf(p).x ELSE BoxOf(p).x)
        /\ a.y = (IF turned THEN -BoxOf(p).y ELSE BoxOf(p).y)
    BY <1>2, SeenFields
  <2>2. /\ b \in Boxes /\ Slot(b) = Slot(BoxOf(q))
        /\ b.x = (IF turned THEN -BoxOf(q).x ELSE BoxOf(q).x)
        /\ b.y = (IF turned THEN -BoxOf(q).y ELSE BoxOf(q).y)
    BY <1>2, SeenFields
  <2> HIDE DEF a, b
  <2>3. /\ BoxOf(p).x = place[p].x /\ BoxOf(p).y = place[p].y
        /\ BoxOf(q).x = place[q].x /\ BoxOf(q).y = place[q].y
    BY BoxOfIs
  <2>4. QED BY <2>1, <2>2, <2>3
<1>4. /\ a.x = c.hole_alphas[i[2]] /\ b.x = c.hole_alphas[j[2]]
      /\ Slot(a) = "bolt" => i[3] = "none" /\ a.y = 0
      /\ Slot(b) = "bolt" => j[3] = "none" /\ b.y = 0
      /\ Slot(a) = "part" => \/ i[3] = "above" /\ a.y <= 0
                             \/ i[3] = "below" /\ a.y >= 0
      /\ Slot(b) = "part" => \/ j[3] = "above" /\ b.y <= 0
                             \/ j[3] = "below" /\ b.y >= 0
  BY <1>1, <1>3, JointsMean
<1>5. Slot(a) = Slot(b) /\ Slot(a) \in {"bolt", "part"}
  BY <1>3, BoxFields
<1> HIDE DEF a, b
<1>6. PICK x1 \in Int, y1 \in Int, x2 \in Int, y2 \in Int :
        x1 = place[p].x /\ y1 = place[p].y /\ x2 = place[q].x /\ y2 = place[q].y
  BY BoxOfIs
<1>7. x1 = x2
  <2>1. (IF turned THEN -x1 ELSE x1) = IF turned THEN -x2 ELSE x2
    BY <1>3, <1>4, <1>6
  <2>2. QED BY <2>1
<1>8. \/ y1 = 0 /\ y2 = 0
      \/ y1 <= 0 /\ y2 <= 0
      \/ y1 >= 0 /\ y2 >= 0
  <2>1. \/ a.y = 0 /\ b.y = 0
        \/ a.y <= 0 /\ b.y <= 0
        \/ a.y >= 0 /\ b.y >= 0
    BY <1>4, <1>5
  <2>2. PICK y3 \in Int, y4 \in Int : y3 = a.y /\ y4 = b.y
    BY <1>3, BoxFields
  <2>3. y3 = (IF turned THEN -y1 ELSE y1) /\ y4 = IF turned THEN -y2 ELSE y2
    BY <1>3, <1>6, <2>2
  <2>4. \/ y3 = 0 /\ y4 = 0
        \/ y3 <= 0 /\ y4 <= 0
        \/ y3 >= 0 /\ y4 >= 0
    BY <2>1, <2>2, Zenon
  <2>5. QED BY <2>3, <2>4
<1>9. ~(y1 * y2 < 0) /\ ~(Abs(x1 - x2) >= 200)
  <2>1. ~(y1 * y2 < 0)
    BY <1>8
  <2>2. QED BY <1>7, <2>1 DEF Abs
<1>10. {Slot([class |-> ClassOf[p]]), Slot([class |-> ClassOf[q]])} # {"bolt", "part"}
  BY BoxOfIs
<1>11. ~Clear(p, place[p], q, place[q])
  BY <1>6, <1>9, <1>10, Zenon DEF Clear
<1>12. QED BY <1>11 DEF Apart
\* What is told from a picture is what has been built.
LEMMA PictureRead ==
    ASSUME BenchTypeOK, Apart, job.detector = "obb", NEW e \in BoxErrors
    PROVE  LET D == InPicture(angle, e) IN
           /\ Ambiguous \in Told(c, D) <=> Astray
           /\ ~Astray => Joined(Observed(c, D)) /\ Joints(Observed(c, D)) = Built
<1> DEFINE K == DOMAIN place
           D == InPicture(angle, e)
           z(p) == Seen(BoxOf(p), Turned(angle), 0)
           told(p) == AssociateOne(c, Seen(BoxOf(p), Turned(angle), e))
           O == Observed(c, D)
<1>1. Turned(angle) \in BOOLEAN
  BY DEF Turned
<1>2. Told(c, D) = {told(p) : p \in K} /\ InPicture(angle, 0) = {z(p) : p \in K}
  BY DEF Told, InPicture, Pieces, BoxOf
<1>3. \A p \in K :
        /\ JointsOf(c, z(p)) = {} => told(p) = IF Common(z(p), Body(c)) > 0 THEN Ambiguous ELSE Ignored
        /\ \A j \in JointsOf(c, z(p)) : told(p) = At(BoxOf(p), j[2], j[3]) /\ JointsOf(c, z(p)) = {j}
        /\ JointsOf(c, z(p)) # {} => place[p] # Aside
  BY <1>1, ToldAsJoined
<1>4. \A p \in K : \A j \in JointsOf(c, z(p)) :
        /\ j = <<BoxOf(p).class, j[2], j[3]>>
        /\ Slot(BoxOf(p)) = "bolt" => j[3] = "none"
        /\ Slot(BoxOf(p)) = "part" => ~Lies(BoxOf(p)) /\ j[3] \in {"above", "below"}
  <2> TAKE p \in K
  <2> TAKE j \in JointsOf(c, z(p))
  <2>1. BoxOf(p) \in Boxes /\ ValidConfig(c)
    BY BoxOfIs, ConfigIsValid
  <2>2. /\ z(p) \in Boxes /\ z(p).class = BoxOf(p).class /\ Slot(z(p)) = Slot(BoxOf(p))
        /\ Lies(z(p)) <=> Lies(BoxOf(p))
    BY <1>1, <2>1, SeenFields
  <2> HIDE DEF z
  <2>3. QED BY <2>1, <2>2, JointsMean
<1>5. Built = UNION {JointsOf(c, z(p)) : p \in K}
  BY <1>2 DEF Built
<1>6. Astray <=> \E p \in K : Common(z(p), Body(c)) > 0 /\ JointsOf(c, z(p)) = {}
  BY <1>2 DEF Astray
<1>7. D \in Pictures
  BY PiecesAre, JobsAssumption
<1> HIDE DEF z, told, D
<1>8. Ambiguous \in Told(c, D) <=> Astray
  <2>1. \A p \in K : told(p) = Ambiguous <=> Common(z(p), Body(c)) > 0 /\ JointsOf(c, z(p)) = {}
    BY <1>3, AtIs
  <2>2. QED BY <1>2, <1>6, <2>1
<1>9. ASSUME ~Astray
      PROVE  Joined(O) /\ Joints(O) = Built
  <2>1. \A o \in O : \E p \in K, j \in Built : j \in JointsOf(c, z(p)) /\ o = At(BoxOf(p), j[2], j[3])
    <3> TAKE o \in O
    <3>1. PICK p \in K : o = told(p) /\ o # Ignored /\ o # Ambiguous
      BY <1>2, <1>8, <1>9 DEF Observed
    <3>2. JointsOf(c, z(p)) # {}
      BY <1>3, <3>1
    <3>3. QED BY <1>3, <1>5, <3>1, <3>2
  <2>2. \A p \in K : \A j \in JointsOf(c, z(p)) : At(BoxOf(p), j[2], j[3]) \in O
    BY <1>2, <1>3, AtIs DEF Observed
  <2>3. \A p \in K : \A j \in JointsOf(c, z(p)) : ToldJoint(At(BoxOf(p), j[2], j[3])) = j
    <3> TAKE p \in K
    <3> TAKE j \in JointsOf(c, z(p))
    <3> DEFINE o == At(BoxOf(p), j[2], j[3])
    <3>1. o.class = BoxOf(p).class /\ o.hole = j[2] /\ o.side = j[3]
      BY AtIs
    <3>2. j = <<BoxOf(p).class, j[2], j[3]>>
      BY <1>4, Zenon
    <3> HIDE DEF o
    <3>3. ToldJoint(o) = <<BoxOf(p).class, j[2], j[3]>>
      BY <3>1, Zenon DEF ToldJoint
    <3>4. QED BY <3>2, <3>3, Zenon DEF o
  <2>4. Joints(O) = Built
    BY <1>5, <2>1, <2>2, <2>3 DEF Joints
  <2>5. Placed(O)
    BY <1>7, <1>8, <1>9, ObservedIs
  <2>6. ASSUME NEW o \in O
        PROVE  /\ o.orientation_ok
               /\ \/ o.slot = "bolt" /\ o.class \in {"bolt_1", "bolt_2"} /\ o.side = "none"
                  \/ o.slot = "part" /\ o.class \in Bars /\ o.side \in {"above", "below"}
    <3>1. PICK p \in K, j \in Built : j \in JointsOf(c, z(p)) /\ o = At(BoxOf(p), j[2], j[3])
      BY <2>1
    <3>2. /\ o.slot = Slot(BoxOf(p)) /\ o.class = BoxOf(p).class /\ o.side = j[3]
          /\ o.orientation_ok = (Slot(BoxOf(p)) = "bolt" \/ ~Lies(BoxOf(p)))
      BY <3>1, AtIs
    <3>3. /\ Slot(BoxOf(p)) \in {"bolt", "part"}
          /\ Slot(BoxOf(p)) = "part" <=> BoxOf(p).class \in Bars
          /\ Slot(BoxOf(p)) = "bolt" <=> BoxOf(p).class \in {"bolt_1", "bolt_2"}
      <4>1. BoxOf(p) \in Boxes
        BY BoxOfIs
      <4>2. QED BY <4>1, BoxFields DEF Slot
    <3>4. QED BY <1>4, <3>1, <3>2, <3>3
  <2>7. ASSUME NEW o \in O, NEW m \in O, o.hole = m.hole, o.slot = m.slot, o.side = m.side
        PROVE  o.id = m.id
    <3>1. PICK p \in K, i \in Built : i \in JointsOf(c, z(p)) /\ o = At(BoxOf(p), i[2], i[3])
      BY <2>1
    <3>2. PICK q \in K, j \in Built : j \in JointsOf(c, z(q)) /\ m = At(BoxOf(q), j[2], j[3])
      BY <2>1
    <3>3. i[2] = j[2] /\ i[3] = j[3] /\ Slot(BoxOf(p)) = Slot(BoxOf(q))
      BY <2>7, <3>1, <3>2, AtIs
    <3>4. place[p] # Aside /\ place[q] # Aside
      BY <1>3, <3>1, <3>2
    <3>5. p = q
      BY <1>1, <3>1, <3>2, <3>3, <3>4, OnePieceEach DEF z
    <3>6. QED BY <3>1, <3>2, <3>5, AtIs
  <2>8. QED BY <2>4, <2>5, <2>6, <2>7 DEF Joined
<1>10. QED BY <1>8, <1>9 DEF D
\* The finished assemblies a reading asks for.
DirectGoals == {Goal(r, sides) : sides \in [DOMAIN r -> SidesOf(DirectSide(c))]}
MirroredGoalsOf == {GoalBack(r, sides) : sides \in [DOMAIN r -> SidesOf("below")]}

LEMMA GoalsAre ==
    ASSUME ValidRecipe(r)
    PROVE  Goals = DirectGoals \cup (IF c.allow_mirrored_holes THEN MirroredGoalsOf ELSE {})
<1>1. \A sides : Finished(sides, FromLeft) = Goal(r, sides)
  BY DEF Finished, FromLeft, Goal
<1>2. \A sides : Finished(sides, FromRight) = GoalBack(r, sides)
  BY DEF Finished, FromRight, GoalBack
<1>3. SidesOf(DirectSide(c)) = IF c.allow_parts_below THEN {"above", "below"} ELSE {"above"}
  BY DEF SidesOf, DirectSide
<1>4. {Finished(sides, FromLeft) :
          sides \in [DOMAIN r -> IF c.allow_parts_below THEN {"above", "below"} ELSE {"above"}]} = DirectGoals
  BY <1>1, <1>3 DEF DirectGoals
<1>5. {Finished(sides, FromRight) : sides \in [DOMAIN r -> IF c.allow_mirrored_holes THEN {"below"} ELSE {}]}
      = IF c.allow_mirrored_holes THEN MirroredGoalsOf ELSE {}
  <2>1. CASE c.allow_mirrored_holes
    BY <1>2, <2>1 DEF MirroredGoalsOf, SidesOf
  <2>2. CASE ~c.allow_mirrored_holes
    <3>1. DOMAIN r # {}
      BY DEF ValidRecipe
    <3>2. [DOMAIN r -> {}] = {}
      BY <3>1
    <3>3. QED BY <2>2, <3>2
  <2>3. QED BY <2>1, <2>2
<1>6. QED BY <1>4, <1>5, Zenon DEF Goals

\* The verdict on a picture is what has been built: every reading of the
\* detector OBB tells a finished assembly, one to be finished, one that
\* cannot be and a piece astray apart, whatever recipe, thresholds, pieces
\* and places there are, if each piece alone is read rightly at each place
\* (evaluator.py:42, association.py:58).
THEOREM JudgedAsItIs ==
    BenchInit /\ [][BenchNext]_bench => [](job.detector = "obb" => JudgedAsBuilt)
<1>1. BenchTypeOK /\ Apart => (job.detector = "obb" => JudgedAsBuilt)
  <2> SUFFICES ASSUME BenchTypeOK, Apart, job.detector = "obb", NEW reading \in Readings
               PROVE  Judged(angle, reading).status = Truth
    BY DEF JudgedAsBuilt
  <2> DEFINE D == InPicture(angle, reading.error)
             O == Observed(c, D)
             M == Mirrored(O)
             side == DirectSide(c)
  <2>1. reading.error \in BoxErrors
    BY DEF Readings
  <2>2. /\ Ambiguous \in Told(c, D) <=> Astray
        /\ ~Astray => Joined(O) /\ Joints(O) = Built
    BY <2>1, PictureRead
  <2>3. D \in Pictures
    BY <2>1, PiecesAre, JobsAssumption
  <2>4. Judged(angle, reading).status = JudgeAssembly(c, r, D \cup {Mother}, angle).status
    BY DEF Judged, Detections
  <2>5. ValidConfig(c) /\ ValidRecipe(r)
    BY ConfigIsValid
  <2>6. CASE PoseRefused(c, angle) \/ Astray
    <3>1. Judged(angle, reading).status = "HOLD"
      BY <2>2, <2>3, <2>4, <2>6, JudgeIs
    <3>2. Truth = "HOLD"
      BY <2>6 DEF Truth
    <3>3. QED BY <3>1, <3>2
  <2>7. CASE ~PoseRefused(c, angle) /\ ~Astray
    <3>1. Judged(angle, reading).status =
            IF c.allow_mirrored_holes THEN BetterOf(StatusOf(r, O, side), StatusOf(r, M, "below"))
            ELSE StatusOf(r, O, side)
      BY <2>2, <2>3, <2>4, <2>7, JudgeIs
    <3>2. Placed(M) /\ Mirrors(O, M)
      BY <2>2, <2>3, <2>7, MirroredIs DEF Mirrors
    <3>3. Joined(O) /\ Joined(M) /\ Joints(O) = Built
      BY <2>2, <2>7, <3>2, JointsMirrored
    <3>4. side \in {"any", "above", "below"}
      BY DEF DirectSide
    <3> HIDE DEF D, O, M, side
    <3>5. /\ StatusOf(r, O, side) # "NG" <=> \E g \in DirectGoals : Built \subseteq g
          /\ StatusOf(r, O, side) = "PASS" <=> Built \in DirectGoals
          /\ StatusOf(r, O, side) \in {"PASS", "IN_PROGRESS", "NG"}
      <4>1. DirectGoals = {Goal(r, sides) : sides \in [DOMAIN r -> SidesOf(side)]}
        BY DEF DirectGoals, side
      <4>2. QED BY <2>5, <3>3, <3>4, <4>1, StatusByGoals
    <3>6. /\ StatusOf(r, M, "below") # "NG" <=> \E g \in MirroredGoalsOf : Built \subseteq g
          /\ StatusOf(r, M, "below") = "PASS" <=> Built \in MirroredGoalsOf
          /\ StatusOf(r, M, "below") \in {"PASS", "IN_PROGRESS", "NG"}
      <4> DEFINE below == [DOMAIN r -> SidesOf("below")]
      <4>1. /\ StatusOf(r, M, "below") # "NG" <=> \E sides \in below : Joints(M) \subseteq Goal(r, sides)
            /\ StatusOf(r, M, "below") = "PASS" <=> \E sides \in below : Joints(M) = Goal(r, sides)
            /\ StatusOf(r, M, "below") \in {"PASS", "IN_PROGRESS", "NG"}
        BY <2>5, <3>3, StatusByGoals
      <4>2. \A sides : /\ Joints(M) \subseteq Goal(r, sides) <=> Built \subseteq GoalBack(r, sides)
                       /\ Joints(M) = Goal(r, sides) <=> Built = GoalBack(r, sides)
        BY <2>5, <3>2, <3>3, MirroredGoals
      <4> HIDE DEF below
      <4>3. MirroredGoalsOf = {GoalBack(r, sides) : sides \in below}
        BY DEF MirroredGoalsOf, below
      <4>4. QED BY <4>1, <4>2, <4>3
    <3>7. Goals = DirectGoals \cup (IF c.allow_mirrored_holes THEN MirroredGoalsOf ELSE {})
      BY <2>5, GoalsAre
    <3>8. Truth = IF Built \in Goals THEN "PASS"
                  ELSE IF \E g \in Goals : Built \subseteq g THEN "IN_PROGRESS" ELSE "NG"
      BY <2>7 DEF Truth
    <3>9. CASE ~c.allow_mirrored_holes
      BY <3>1, <3>5, <3>7, <3>8, <3>9
    <3>10. CASE c.allow_mirrored_holes
      <4> DEFINE verdict == BetterOf(StatusOf(r, O, side), StatusOf(r, M, "below"))
      <4>1. /\ verdict = "PASS" <=> Built \in Goals
            /\ verdict = "NG" <=> ~\E g \in Goals : Built \subseteq g
            /\ verdict \in {"PASS", "IN_PROGRESS", "NG"}
        <5>1. /\ verdict = "PASS" <=> StatusOf(r, O, side) = "PASS" \/ StatusOf(r, M, "below") = "PASS"
              /\ verdict = "NG" <=> StatusOf(r, O, side) = "NG" /\ StatusOf(r, M, "below") = "NG"
              /\ verdict \in {"PASS", "IN_PROGRESS", "NG"}
          BY <3>5, <3>6, BetterEitherWay
        <5>2. QED BY <3>5, <3>6, <3>7, <3>10, <5>1
      <4>2. Judged(angle, reading).status = verdict
        BY <3>1, <3>10
      <4> HIDE DEF verdict
      <4>3. QED BY <3>8, <4>1, <4>2
    <3>11. QED BY <3>9, <3>10
  <2>8. QED BY <2>6, <2>7
<1>2. QED BY <1>1, ApartAlways, PTL
----------------------------------------------------------------------------
(* What a finished assembly is made of.                                    *)

\* The pieces of a class that were placed, and the holes that want one.
Used(t, D, k) == {d \in D : d.class = k /\ AssociateOne(t, d) # Ignored}
Wanting(rec, k) == {h \in DOMAIN rec : rec[h].bolt = k \/ rec[h].part = k}

\* The reading X is of the pieces of D that were placed.
Reads(t, D, X) ==
    /\ Placed(X)
    /\ \A x \in X : \E d \in D : /\ AssociateOne(t, d) # Ignored
                                 /\ x.id = d.id /\ x.class = d.class /\ x.slot = Slot(d)
    /\ \A d \in D : AssociateOne(t, d) # Ignored =>
          \E x \in X : x.id = d.id /\ x.class = d.class /\ x.slot = Slot(d)

LEMMA BothRead ==
    ASSUME NEW t, NEW D \in Pictures, Ambiguous \notin Told(t, D)
    PROVE  Reads(t, D, Observed(t, D)) /\ Reads(t, D, Mirrored(Observed(t, D)))
<1> DEFINE O == Observed(t, D)
           M == Mirrored(O)
           Same(x, d) == x.id = d.id /\ x.class = d.class /\ x.slot = Slot(d)
<1>1. \A o \in O : \E d \in D : o = AssociateOne(t, d) /\ AssociateOne(t, d) # Ignored /\ Same(o, d)
  BY ObservedIs, AtIs
<1>2. \A d \in D : AssociateOne(t, d) # Ignored => AssociateOne(t, d) \in O
  BY DEF Observed, Told
<1>3. \A d \in D : AssociateOne(t, d) # Ignored => Same(AssociateOne(t, d), d)
  <2> TAKE d \in D
  <2> HAVE AssociateOne(t, d) # Ignored
  <2>1. d \in Boxes /\ AssociateOne(t, d) # Ambiguous
    BY DEF Pictures, Told
  <2>2. PICK h, side : AssociateOne(t, d) = At(d, h, side)
    BY <2>1, AssociateType
  <2>3. QED BY <2>2, AtIs
<1>4. Placed(O) /\ Placed(M)
  BY ObservedIs, MirroredIs
<1>5. /\ \A o \in O : \E m \in M : m.id = o.id /\ m.class = o.class /\ m.slot = o.slot
      /\ \A m \in M : \E o \in O : m.id = o.id /\ m.class = o.class /\ m.slot = o.slot
  BY MirroredIs
<1> HIDE DEF O, M
<1>6. Reads(t, D, O)
  BY <1>1, <1>2, <1>3, <1>4 DEF Reads
<1>7. Reads(t, D, M)
  BY <1>4, <1>5, <1>6 DEF Reads
<1>8. QED BY <1>6, <1>7 DEF O, M

\* A reading that passes has a piece for each hole that wants one, and each
\* piece that was placed is in a hole.
LEMMA UsedAsWanted ==
    ASSUME NEW t, NEW rec, ValidRecipe(rec), NEW D \in Pictures, NEW X, Reads(t, D, X), NEW side,
           Fits(rec, X, side), Full(rec, X), NEW k \in Kinds
    PROVE  Cardinality(Used(t, D, k)) = Cardinality(Wanting(rec, k))
<1> DEFINE U == Used(t, D, k)
           W == Wanting(rec, k)
           In2(h, d) == \E x \in X : x.hole = h /\ x.class = k /\ x.id = d.id
<1>1. \A h \in W : \E d \in U : In2(h, d)
  <2> TAKE h \in W
  <2>1. PICK slot \in {"bolt", "part"} : rec[h][slot] = k /\ h \in DOMAIN rec
    BY RecipeFields DEF Wanting
  <2>2. PICK x \in X : x.hole = h /\ x.slot = slot
    BY <2>1 DEF Full
  <2>3. x.class = k
    BY <2>1, <2>2 DEF Fits
  <2>4. QED BY <2>2, <2>3 DEF Reads, Used
<1>2. \A d \in U : \E h \in W : In2(h, d)
  <2> TAKE d \in U
  <2>1. PICK x \in X : x.id = d.id /\ x.class = k
    BY DEF Reads, Used
  <2>2. x.hole \in DOMAIN rec /\ k = rec[x.hole][x.slot] /\ x.slot \in {"bolt", "part"}
    BY <2>1 DEF Fits, Reads, Placed
  <2>3. x.hole \in W
    BY <2>2, RecipeFields DEF Wanting
  <2>4. QED BY <2>1, <2>3
<1>3. \A g, h \in W, d \in U : In2(g, d) /\ In2(h, d) => g = h
  BY DEF Reads, Placed
<1>4. \A x \in X : x.class = k => x.slot = Slot([class |-> k])
  BY DEF Reads, Slot
<1>5. \A h \in W, d, e \in U : In2(h, d) /\ In2(h, e) => d = e
  <2> TAKE h \in W, d, e \in U
  <2> HAVE In2(h, d) /\ In2(h, e)
  <2>1. PICK x \in X : x.hole = h /\ x.class = k /\ x.id = d.id
    OBVIOUS
  <2>2. PICK y \in X : y.hole = h /\ y.class = k /\ y.id = e.id
    OBVIOUS
  <2>3. x.slot = y.slot
    BY <1>4, <2>1, <2>2
  <2>4. x.id = y.id
    BY <2>1, <2>2, <2>3 DEF Fits
  <2>5. QED BY <2>1, <2>2, <2>4 DEF Used, Pictures
<1> HIDE DEF U, W, In2
<1>6. PICK f \in [W -> U] : \A h \in W : In2(h, f[h])
  <2> DEFINE f == [h \in W |-> CHOOSE d \in U : In2(h, d)]
  <2>1. f \in [W -> U] /\ \A h \in W : In2(h, f[h])
    BY <1>1
  <2>2. QED BY <2>1
<1>7. f \in Bijection(W, U)
  <2>1. \A g, h \in W : f[g] = f[h] => g = h
    BY <1>3, <1>6
  <2>2. \A d \in U : \E h \in W : f[h] = d
    BY <1>2, <1>5, <1>6
  <2>3. QED BY <1>6, <2>1, <2>2 DEF Bijection, Injection, IsInjective, Surjection
<1>8. IsFiniteSet(W)
  <2>1. W \in SUBSET Holes
    BY RecipeFields DEF W, Wanting
  <2>2. QED BY <2>1, HolesFinite, Zenon
<1>9. Cardinality(U) = Cardinality(W)
  <2>1. ExistsBijection(W, U)
    BY <1>7 DEF ExistsBijection
  <2>2. QED BY <1>8, <2>1, FS_Bijection
<1>10. QED BY <1>9 DEF U, W
\* The verdict PASS and the materials agree on what a product is made of:
\* when a picture passes, the materials in it are READY just when no piece
\* is left over (materials.py:19, evaluator.py:42).
THEOREM ProductOfMaterials ==
    BenchInit /\ [][BenchNext]_bench => [](job.detector = "obb" => MaterialsMakeTheProduct)
<1>1. BenchTypeOK => (job.detector = "obb" => MaterialsMakeTheProduct)
  <2> SUFFICES ASSUME BenchTypeOK, job.detector = "obb", Judged(angle, Plain).status = "PASS"
               PROVE  EvaluateMaterials(r, Detections(angle, 0)) = "READY"
                      <=> Ignored \notin Associate(c, Detections(angle, 0))
    BY DEF MaterialsMakeTheProduct
  <2> DEFINE D == InPicture(angle, 0)
             All == D \cup {Mother}
             O == Observed(c, D)
             ofClass(k) == {d \in All : d.class = k}
             counts == [k \in Classes |-> Cardinality(ofClass(k))]
  <2>1. D \in Pictures /\ ValidRecipe(r)
    BY PiecesAre, ConfigIsValid
  <2>2. JudgeAssembly(c, r, All, angle).status = "PASS"
    BY DEF Judged, Plain, Detections
  <2>3. Ambiguous \notin Told(c, D)
    BY <2>1, <2>2, JudgeIs
  <2>4. \E X, side : Reads(c, D, X) /\ Fits(r, X, side) /\ Full(r, X)
    <3>1. \A X, side : StatusOf(r, X, side) = "PASS" => Fits(r, X, side) /\ Full(r, X)
      BY DEF StatusOf
    <3>2. \A a, b : BetterOf(a, b) = "PASS" => a = "PASS" \/ b = "PASS"
      BY DEF BetterOf
    <3>3. StatusOf(r, O, DirectSide(c)) = "PASS" \/ StatusOf(r, Mirrored(O), "below") = "PASS"
      BY <2>1, <2>2, <2>3, <3>2, JudgeIs
    <3>4. QED BY <2>1, <2>3, <3>1, <3>3, BothRead
  <2>5. \A k \in Kinds : Cardinality(Used(c, D, k)) = Cardinality(Wanting(r, k))
    BY <2>1, <2>4, UsedAsWanted
  <2>6. Mother.class = "mother_part" /\ \A d \in D : d.class \in Kinds
    BY <2>1, BoxFields DEF Mother, BoxAt, Pictures
  <2> HIDE DEF D
  <2>7. \A k \in Kinds : /\ ofClass(k) = {d \in D : d.class = k}
                         /\ Expected(r)[k] = Cardinality(Wanting(r, k))
    BY <2>6 DEF Kinds, Expected, Wanting
  <2>8. Cardinality(ofClass("mother_part")) = 1 /\ Expected(r)["mother_part"] = 1
    <3>1. ofClass("mother_part") = {Mother}
      BY <2>6 DEF Kinds
    <3>2. QED BY <3>1, FS_Singleton DEF Expected, Classes
  <2>9. \A k \in Kinds : Cardinality(ofClass(k)) = Expected(r)[k] <=> Used(c, D, k) = {d \in D : d.class = k}
    <3> TAKE k \in Kinds
    <3>1. IsFiniteSet({d \in D : d.class = k}) /\ Used(c, D, k) \in SUBSET {d \in D : d.class = k}
      BY <2>1, FS_Subset DEF Pictures, Used
    <3>2. Cardinality({d \in D : d.class = k}) = Cardinality(Used(c, D, k)) <=> Used(c, D, k) = {d \in D : d.class = k}
      BY <3>1, FS_Subset
    <3>3. QED BY <2>5, <2>7, <3>2
  <2>10. counts = Expected(r) <=> \A k \in Kinds : Used(c, D, k) = {d \in D : d.class = k}
    <3>1. counts = Expected(r) <=> \A k \in Classes : Cardinality(ofClass(k)) = Expected(r)[k]
      <4>1. Expected(r) = [k \in Classes |-> Expected(r)[k]]
        BY DEF Expected
      <4> HIDE DEF ofClass
      <4>2. QED BY <4>1
    <3> HIDE DEF counts, ofClass
    <3>2. Classes = Kinds \cup {"mother_part"}
      BY DEF Kinds, Classes
    <3>3. QED BY <2>8, <2>9, <3>1, <3>2
  <2>11. Associate(c, Detections(angle, 0)) = Told(c, D)
    <3>1. {d \in All : d.class # "mother_part"} = D
      BY <2>6 DEF Kinds
    <3>2. QED BY <3>1, Zenon DEF Associate, Told, Detections, D
  <2>12. Ignored \notin Told(c, D) <=> \A k \in Kinds : Used(c, D, k) = {d \in D : d.class = k}
    BY <2>6 DEF Told, Used
  <2>13. EvaluateMaterials(r, Detections(angle, 0)) = "READY" <=> counts = Expected(r)
    BY DEF EvaluateMaterials, Detections, D
  <2>14. QED BY <2>10, <2>11, <2>12, <2>13
<1>2. QED BY <1>1, BenchTyped, PTL
=============================================================================
