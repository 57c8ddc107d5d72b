----------------------------- MODULE Evaluators -----------------------------
(* The two evaluators, materials.py and evaluator.py, the recipe they      *)
(* compare with and the branch of InspectionService.update() that chooses. *)
(* A recipe is a function from the required holes to a bolt and a part.    *)
EXTENDS Association

Classes == {"mother_part", "bolt_1", "bolt_2", "part_2hole", "part_3hole"}

\* Recipe.__post_init__; one placement per hole is the function's shape.
ValidRecipe(r) ==
    /\ DOMAIN r # {} /\ DOMAIN r \subseteq 1..4
    /\ \A h \in DOMAIN r : r[h].bolt \in {"bolt_1", "bolt_2"}
                           /\ r[h].part \in {"part_2hole", "part_3hole"}

ValidConfig(c) ==
    /\ {c.bolt_half_width, c.bolt_half_height, c.tolerance} \subseteq Nat \ {0}
    /\ c.overlap \in 1..100 /\ c.max_mother_angle \in 1..89
    /\ \A h \in Holes : c.hole_alphas[h] \in -499..499
    /\ \A h \in 1..4 : c.hole_alphas[h] < c.hole_alphas[h + 1]
    /\ c.hole_beta \in Int /\ c.mother_height \in Nat
    /\ 2 * Abs(c.hole_beta) <= c.mother_height
    /\ {c.allow_mirrored_holes, c.allow_parts_below} \subseteq BOOLEAN
    /\ DOMAIN c.part_rois = {"part_2hole", "part_3hole"}
    /\ \A p \in DOMAIN c.part_rois :
          {c.part_rois[p].width, c.part_rois[p].length, c.part_rois[p].offset} \subseteq Nat \ {0}

Expected(r) ==
    [k \in Classes |->
        IF k = "mother_part" THEN 1
        ELSE Cardinality({h \in DOMAIN r : r[h].bolt = k \/ r[h].part = k})]

\* Not the code: a component the recipe does not use is overlooked.
FaultyEvaluateMaterials(r, detections) ==
    LET observed == [k \in Classes |-> Cardinality({d \in detections : d.class = k})]
    IN IF \A k \in Classes : Expected(r)[k] > 0 => observed[k] = Expected(r)[k] THEN "READY"
       ELSE IF \E k \in Classes : observed[k] > Expected(r)[k] THEN "NG" ELSE "IN_PROGRESS"

EvaluateMaterials(r, detections) ==
    LET observed == [k \in Classes |-> Cardinality({d \in detections : d.class = k})]
    IN IF observed = Expected(r) THEN "READY"
       ELSE IF \E k \in Classes : observed[k] > Expected(r)[k] THEN "NG" ELSE "IN_PROGRESS"

In(observed, h, slot) == {o \in observed : o.hole = h /\ o.slot = slot}

\* The issues of a reading: those that are errors and those that only say
\* what is still missing. "any" is expected_side = None.
Errors(r, observed, side) ==
    LET required == {o \in observed : o.hole \in DOMAIN r} IN
    {<<"UNEXPECTED_COMPONENT", o.id>> : o \in observed \ required}
    \cup {<<"EXTRA_COMPONENT", s>> :
             s \in {t \in (DOMAIN r) \X {"bolt", "part"} : Cardinality(In(observed, t[1], t[2])) > 1}}
    \cup {<<"WRONG", o.id>> : o \in {p \in required : p.class # r[p.hole][p.slot]}}
    \cup {<<"PART_ORIENTATION_ERROR", o.id>> : o \in {p \in required : ~p.orientation_ok}}
    \cup {<<"PART_WRONG_SIDE", o.id>> :
             o \in {p \in required : p.slot = "part" /\ side # "any" /\ p.side # side}}

Missing(r, observed) ==
    {<<"MISSING", s>> : s \in {t \in (DOMAIN r) \X {"bolt", "part"} : In(observed, t[1], t[2]) = {}}}

Evaluate(r, observed, side) ==
    LET errors  == Errors(r, observed, side)
        missing == Missing(r, observed)
    IN [status |-> IF errors # {} THEN "NG" ELSE IF missing # {} THEN "IN_PROGRESS" ELSE "PASS",
        issues |-> errors \cup missing]

StatusOrder == [PASS |-> 0, IN_PROGRESS |-> 1, NG |-> 2]

\* rank(a) < rank(b)
FitsBetter(a, b) ==
    \/ StatusOrder[a.status] < StatusOrder[b.status]
    \/ a.status = b.status /\ Cardinality(a.issues) < Cardinality(b.issues)

DirectSide(c) == IF c.allow_parts_below THEN "any" ELSE "above"

\* Not the code: the number of the holes counted from nought.
FaultyMirrored(observed) == {[o EXCEPT !.hole = IF @ = 5 THEN 5 ELSE 5 - @] : o \in observed}

\* The assembly read from the Mother's other end.
Mirrored(observed) == {[o EXCEPT !.hole = 6 - @] : o \in observed}

\* Not the code: the turned assembly need not have its parts on the other side.
FaultySymmetric(c, r, observed) ==
    LET direct   == Evaluate(r, observed, DirectSide(c))
        mirrored == Evaluate(r, Mirrored(observed), DirectSide(c))
    IN IF FitsBetter(mirrored, direct) THEN mirrored ELSE direct

EvaluateSymmetric(c, r, observed) ==
    LET direct   == Evaluate(r, observed, DirectSide(c))
        mirrored == Evaluate(r, Mirrored(observed), "below")
    IN IF FitsBetter(mirrored, direct) THEN mirrored ELSE direct

Hold == [status |-> "HOLD", issues |-> {}]

\* The candidate of one usable frame of the assembly phase.
JudgeAssembly(c, r, detections, angle) ==
    LET placed == Associate(c, detections) IN
    IF \/ Cardinality({d \in detections : d.class = "mother_part"}) # 1
       \/ PoseRefused(c, angle)
       \/ Ambiguous \in placed
    THEN Hold
    ELSE LET observed == placed \ {Ignored} IN
         IF c.allow_mirrored_holes THEN EvaluateSymmetric(c, r, observed)
         ELSE Evaluate(r, observed, DirectSide(c))
=============================================================================
