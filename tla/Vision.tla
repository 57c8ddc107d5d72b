------------------------------- MODULE Vision -------------------------------
(* rtdetr_adapter.py and rule_based_adapter.py: how boxes without an       *)
(* angle, or no detector at all, still give pieces with axes. Both start   *)
(* from the pieces on the table in the frame of the Mother, who leans by   *)
(* the angle whose cosine and sine, in thousandths, are in "lean", and     *)
(* give what the evaluators are told, in the frame of the Mother they saw. *)
EXTENDS FinalCheck, SequencesExt

Larger(a, b) == IF a > b THEN a ELSE b
Smaller(a, b) == IF a < b THEN a ELSE b
Cos(lean) == Abs(lean[1])
Sin(lean) == Abs(lean[2])

----------------------------------------------------------------------------
(* rtdetr_adapter.py *)

\* The upright box around a leaning piece, in the picture.
Around(lean, p) ==
    [p EXCEPT !.x = (p.x * lean[1] - p.y * lean[2]) \div 1000,
              !.y = (p.x * lean[2] + p.y * lean[1]) \div 1000,
              !.w = (p.w * Cos(lean) + p.h * Sin(lean)) \div 1000,
              !.h = (p.w * Sin(lean) + p.h * Cos(lean)) \div 1000]

\* _iou(p, q) > 0.5
Overlap(p, q) ==
    LET common == Common(p, q)
    IN 2 * common > 4 * p.w * p.h + 4 * q.w * q.h - common

\* Not the code: what was found twice stays twice.
FaultyDedup(boxes) == {boxes[i] : i \in DOMAIN boxes}

\* The boxes in the order of their confidence; one that lies on a better
\* one of its class is dropped.
Dedup(boxes) ==
    FoldLeft(LAMBDA kept, b :
                IF \E k \in kept : k.class = b.class /\ Overlap(k, b) THEN kept ELSE kept \cup {b},
             {}, boxes)

\* det of bar_dims_from_aabb(), in thousandths.
Det(lean) == (lean[1] * lean[1] - lean[2] * lean[2]) \div 1000

InversionIsStable(lean) == Abs(Det(lean)) >= 600

\* bar_dims_from_aabb(): <<length, thickness>> of a bar whose long axis
\* leans by "lean", from the box around it.
BarDims(box, lean) ==
    LET width  == 2 * box.w
        height == 2 * box.h
        sign   == IF Det(lean) < 0 THEN -1 ELSE 1
        length == (sign * (width * Cos(lean) - height * Sin(lean))) \div Abs(Det(lean))
        thick  == (sign * (height * Cos(lean) - width * Sin(lean))) \div Abs(Det(lean))
        dims   == IF Abs(Det(lean)) > 300 /\ length > 0 /\ thick > 0
                  THEN <<length, thick>> ELSE <<width, height>>
    IN <<Larger(dims[1], dims[2]), Smaller(dims[1], dims[2])>>

PART_NOMINAL_RATIO == [part_2hole |-> <<515, 190>>, part_3hole |-> <<755, 200>>]

\* measure_bar_along_axis(), which is held to succeed: how far her blob goes
\* along the axis, and the median of how thick it is.
MeasuredAlongAxis(mother) == <<2 * mother.w, 2 * mother.h>>

\* The Mother as convert() sees her: measured where the box does not tell her
\* size.
MotherDims(lean, mother) ==
    IF InversionIsStable(lean) THEN BarDims(Around(lean, mother), lean)
    ELSE MeasuredAlongAxis(mother)

\* estimate_part_axis() trusts the blob in the box of a part if it is long
\* and about as long as the box.
TrustedBlob(p, b) ==
    LET long == Larger(p.w, p.h) IN
    /\ 22 * Smaller(p.w, p.h) <= 10 * long
    /\ 10 * long \in 7 * Larger(b.w, b.h) .. 13 * Larger(b.w, b.h)

\* A part as convert() sees it, p being where it is and b the box around it:
\* as it lies if that could be measured, else held to stand at right angles
\* to the Mother. Lengths are halved at the end.
PartDims(lean, p, b, length, measured) ==
    LET across == <<-lean[2], lean[1]>>
        ratio  == PART_NOMINAL_RATIO[p.class]
        dims   == IF InversionIsStable(across) THEN BarDims(b, across)
                  ELSE <<(ratio[1] * length) \div 1000, (ratio[2] * length) \div 1000>>
    IN IF measured /\ TrustedBlob(p, b) THEN <<p.w, p.h>> ELSE <<dims[2] \div 2, dims[1] \div 2>>

\* convert(): the pieces as detections in the frame of the Mother, whose
\* length is 1000 there whatever was made of it. Every piece is detected
\* twice, the second time displaced by "error" with less confidence.
RTDETR(lean, mother, pieces, error, measured) ==
    LET twice  == SetToSeq(pieces) \o SetToSeq({[p EXCEPT !.x = @ + error] : p \in pieces})
        kept   == Dedup([i \in DOMAIN twice |->
                            [Around(lean, twice[i]) EXCEPT !.id = <<@, i>>]])
        dims   == MotherDims(lean, mother)
        scaled(n) == (n * 1000) \div dims[1]
        seen(i) == LET p == twice[i]
                       b == Around(lean, p)
                       size == IF Slot(p) = "bolt" THEN <<b.w, b.h>>
                               ELSE PartDims(lean, p, b, dims[1], measured)
                   IN [p EXCEPT !.id = <<p.id, i>>, !.x = scaled(@), !.y = scaled(@),
                                !.w = scaled(size[1]), !.h = scaled(size[2])]
    IN {seen(k.id[2]) : k \in kept} \cup {[mother EXCEPT !.id = <<@, 0>>]}

\* mother_height as a share of the length the Mother was given.
HeightSeen(lean, mother) ==
    LET dims == MotherDims(lean, mother) IN (dims[2] * 1000) \div dims[1]

\* estimate_mother_axis(): MIN_HOLE_INLIERS of her holes must be in sight.
AxisFound(c, pieces) ==
    \A l \in MotherLines(EmptyHoles(c, pieces)) : l.inliers >= 3 /\ AlongMother(l)

----------------------------------------------------------------------------
(* rule_based_adapter.py *)

\* _bolt_color(): a bar has neither colour.
BoltColor(p) == IF Slot(p) = "bolt" THEN p.class ELSE "none"

\* find_all_blobs(): the Mother is one blob with all that touches her.
AtMother(c, pieces) == {p \in pieces : Common(p, Body(c)) > 0}

HOLE_COUNT_TO_CLASS(n) ==
    CASE n = 5 -> "mother_part" [] n = 3 -> "part_3hole" [] n = 2 -> "part_2hole" [] OTHER -> "none"

\* _classify_by_length(): the nominal length that is nearest, within 12 %.
ClassifyByLength(length, mother_length) ==
    LET error(k) == Abs(length * 1000 - PART_NOMINAL_RATIO[k][1] * mother_length)
                    \div PART_NOMINAL_RATIO[k][1]
        close == {k \in DOMAIN PART_NOMINAL_RATIO : 25 * error(k) < 3 * mother_length}
    IN IF close = {} THEN "none"
       ELSE CHOOSE k \in close : \A l \in close : error(k) <= error(l)

\* A bar in the picture: how many open holes it shows, and how long it is.
\* In "hidden" one hole is not seen.
LooseBar(p, hidden) ==
    [piece |-> p, length |-> 2 * Larger(p.w, p.h),
     holes |-> (IF p.class = "part_3hole" THEN 3 ELSE 2) - (IF p.id \in hidden THEN 1 ELSE 0)]

\* The blob around the Mother, as the box around it.
MotherBar(c, mother, pieces) ==
    LET blob  == AtMother(c, pieces) \cup {mother}
        left  == CHOOSE p \in blob : \A q \in blob : p.x - p.w <= q.x - q.w
        right == CHOOSE p \in blob : \A q \in blob : p.x + p.w >= q.x + q.w
    IN [piece |-> mother, length |-> right.x + right.w - (left.x - left.w),
        holes |-> Cardinality(EmptyHoles(c, pieces))]

\* convert(): bolts by their colour, bars by their holes, and where the
\* Mother is known, the remaining bars by their length.
RuleBased(c, mother, pieces, hidden) ==
    LET loose   == pieces \ AtMother(c, pieces)
        bars    == {LooseBar(p, hidden) : p \in {q \in loose : BoltColor(q) = "none"}}
                   \cup {MotherBar(c, mother, pieces)}
        mothers == {b \in bars : HOLE_COUNT_TO_CLASS(b.holes) = "mother_part"}
        name(b) == IF HOLE_COUNT_TO_CLASS(b.holes) # "none" THEN HOLE_COUNT_TO_CLASS(b.holes)
                   ELSE IF mothers = {} THEN "none"
                   ELSE ClassifyByLength(b.length, (CHOOSE m \in mothers : TRUE).length)
    IN {[p EXCEPT !.class = BoltColor(p)] : p \in {q \in loose : BoltColor(q) # "none"}}
       \cup {[b.piece EXCEPT !.class = name(b)] : b \in {d \in bars : name(d) # "none"}}
=============================================================================
