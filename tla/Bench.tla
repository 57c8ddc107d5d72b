------------------------------- MODULE Bench -------------------------------
(* The assembly on the table, as the worker's hands change it, and what    *)
(* the evaluators and the final check make of its picture.                 *)
EXTENDS Evaluators, Vision

CONSTANTS
    Jobs,     \* [recipe, config, detector, kit, angles]: what is made, judged
              \* by which thresholds from what is seen by which detector, from
              \* which pieces, and how the Mother may lie
    Recipes,  \* recipe name |-> recipe
    Configs,  \* config name |-> thresholds
    ClassOf,  \* piece |-> class
    Places,   \* class |-> where such a piece can be put, in the Mother's frame
    Lean,     \* angle |-> cosine and sine of it, in thousandths, for -90..89
    BoxErrors \* by how much a detector misplaces a box along the Mother

ASSUME JobsAssumption ==
    /\ \A j \in Jobs :
          /\ j.recipe \in DOMAIN Recipes /\ ValidRecipe(Recipes[j.recipe])
          /\ j.config \in DOMAIN Configs /\ ValidConfig(Configs[j.config])
          /\ j.angles \subseteq 0..359
          /\ j.detector \in {"obb", "rtdetr", "rule_based"}
          /\ j.kit \subseteq DOMAIN ClassOf /\ IsFiniteSet(j.kit)
    /\ \A p \in DOMAIN ClassOf : ClassOf[p] \in DOMAIN Places /\ ClassOf[p] \in Classes \ {"mother_part"}
    /\ "mother" \notin DOMAIN ClassOf
    /\ \A k \in DOMAIN Places : Places[k] \subseteq [x : Int, y : Int, lies : BOOLEAN, tilt : {-1, 0, 1}]
    /\ BoxErrors \subseteq Int

HalfSize ==
    [mother_part |-> <<500, 92>>, bolt_1 |-> <<37, 37>>, bolt_2 |-> <<37, 37>>,
     part_2hole  |-> <<257, 95>>, part_3hole |-> <<377, 100>>]

\* Beside the Mother, where a piece waits.
Aside == [x |-> 0, y |-> 2000, lies |-> FALSE, tilt |-> 0]

\* The box of a piece somewhere: a part stands unless it lies.
BoxAt(id, class, s) ==
    LET size == HalfSize[class] IN
    [id |-> id, class |-> class, x |-> s.x, y |-> s.y, tilt |-> s.tilt,
     w |-> IF class = "mother_part" \/ s.lies THEN size[1] ELSE size[2],
     h |-> IF class = "mother_part" \/ s.lies THEN size[2] ELSE size[1]]

\* The same box in the picture, from her other end if it is turned; a half
\* turn leaves a tilt as it is.
Seen(p, turned, error) ==
    [id |-> p.id, class |-> p.class, x |-> (IF turned THEN -p.x ELSE p.x) + error,
     y |-> IF turned THEN -p.y ELSE p.y, w |-> p.w, h |-> p.h, tilt |-> p.tilt]

\* A piece joined to a hole: a bolt in it, a part with an end hole on it.
JointsOf(t, p) ==
    {j \in {p.class} \X Holes \X {"none", "above", "below"} :
        /\ p.x = t.hole_alphas[j[2]]
        /\ IF Slot(p) = "bolt" THEN j[3] = "none" /\ p.y = 0
           ELSE /\ ~Lies(p)
                /\ \/ j[3] = "above" /\ Anchor(t, p, 1).y = 0
                   \/ j[3] = "below" /\ Anchor(t, p, -1).y = 0}

\* Read from a picture, a piece alone is told to be at the hole it is joined
\* to, or else in doubt if it touches the Mother.
ReadRightly(t, p, turned) ==
    LET joints == JointsOf(t, Seen(p, turned, 0))
        apart  == IF Common(Seen(p, turned, 0), Body(t)) > 0 THEN Ambiguous ELSE Ignored
    IN /\ \A i, j \in joints : i = j
       /\ \A e \in BoxErrors :
             AssociateOne(t, Seen(p, turned, e)) \in
                IF joints = {} THEN {apart} ELSE {At(p, j[2], j[3]) : j \in joints}

\* A place is right on a hole, or so far from each that no error of the
\* boxes hides it. What lies between is not on the bench.
ASSUME PlacesAssumption ==
    \A j \in Jobs : j.detector = "obb" =>
        \A p \in j.kit, turned \in BOOLEAN :
           /\ \A s \in Places[ClassOf[p]] \cup {Aside} :
                 ReadRightly(Configs[j.config], BoxAt(p, ClassOf[p], s), turned)
           /\ JointsOf(Configs[j.config], Seen(BoxAt(p, ClassOf[p], Aside), turned, 0)) = {}

VARIABLES
    job,
    place,    \* piece |-> [x, y, lies, tilt]
    angle

bench == <<job, place, angle>>

r == Recipes[job.recipe]
c == Configs[job.config]

Pieces == {BoxAt(p, ClassOf[p], place[p]) : p \in DOMAIN place}

\* The picture shows the Mother from her other end: MajorAxis() took the
\* opposite direction for her right.
Turned(a) == ((a + 90) \div 180) % 2 = 1

InPicture(a, error) == {Seen(p, Turned(a), error) : p \in Pieces}

Mother == BoxAt("mother", "mother_part", [x |-> 0, y |-> 0, lies |-> FALSE, tilt |-> 0])

Detections(a, error) == InPicture(a, error) \cup {Mother}

\* What a detector may make of a picture: the boxes a little off, and how
\* the bars lie measured or not. A part that lies and is not measured counts
\* as standing (rtdetr_adapter.py:237), so nothing is said of that reading.
Readings ==
    {[error |-> e, measured |-> m] : e \in BoxErrors,
        m \in IF job.detector = "rtdetr" /\ \A p \in DOMAIN place : ~place[p].lies
              THEN BOOLEAN ELSE {TRUE}}

Judged(a, reading) ==
    IF job.detector # "rtdetr" THEN JudgeAssembly(c, r, Detections(a, reading.error), a)
    ELSE JudgeAssembly([c EXCEPT !.mother_height = HeightSeen(Lean[a], Mother)], r,
                       RTDETR(Lean[a], Mother, InPicture(a, 0), reading.error, reading.measured), a)

\* What is made of a picture without a detector, some holes not seen.
WithoutDetector(hidden) == RuleBased(c, Mother, InPicture(angle, 0), hidden)

\* The pieces that do not touch the Mother.
Beside == InPicture(angle, 0) \ AtMother(c, InPicture(angle, 0))

Plain == [error |-> 0, measured |-> TRUE]

BenchInit ==
    /\ job \in Jobs
    /\ place = [p \in job.kit |-> Aside]
    /\ angle = 0

\* Two pieces of one kind do not fit into one place, nor do two parts side
\* by side within a part's width.
FitsBeside(p, s) ==
    \A q \in DOMAIN place \ {p} :
       \/ place[q] = Aside
       \/ {Slot([class |-> ClassOf[p]]), Slot([class |-> ClassOf[q]])} = {"bolt", "part"}
       \/ Abs(place[q].x - s.x) >= 200
       \/ place[q].y * s.y < 0

Put(p, s) ==
    /\ place[p] = Aside /\ FitsBeside(p, s)
    /\ place' = [place EXCEPT ![p] = s]
    /\ UNCHANGED <<job, angle>>

TakeAway(p) ==
    /\ place[p] # Aside
    /\ place' = [place EXCEPT ![p] = Aside]
    /\ UNCHANGED <<job, angle>>

\* The worker turns the Mother with everything on her.
Turn(a) == angle # a /\ angle' = a /\ UNCHANGED <<job, place>>

BenchNext ==
    \/ \E p \in DOMAIN place : TakeAway(p) \/ \E s \in Places[ClassOf[p]] : Put(p, s)
    \/ \E a \in job.angles : Turn(a)

----------------------------------------------------------------------------
(* What has really been built, told from where the pieces are.             *)

Built == UNION {JointsOf(c, p) : p \in InPicture(angle, 0)}

\* Something is at the Mother that is not joined to her.
Astray == \E p \in InPicture(angle, 0) : Common(p, Body(c)) > 0 /\ JointsOf(c, p) = {}

\* The finished assembly with its parts on the given sides, read from the
\* left or from the right.
Finished(sides, Number(_)) ==
    {<<r[h].bolt, Number(h), "none">> : h \in DOMAIN r}
    \cup {<<r[h].part, Number(h), sides[h]>> : h \in DOMAIN r}

FromLeft(h) == h
FromRight(h) == 6 - h

Goals ==
    {Finished(sides, FromLeft) :
        sides \in [DOMAIN r -> IF c.allow_parts_below THEN {"above", "below"} ELSE {"above"}]}
    \cup {Finished(sides, FromRight) :
            sides \in [DOMAIN r -> IF c.allow_mirrored_holes THEN {"below"} ELSE {}]}

Truth ==
    LET built == Built
        goals == Goals
    IN IF PoseRefused(c, angle) \/ Astray THEN "HOLD"
       ELSE IF built \in goals THEN "PASS"
       ELSE IF \E g \in goals : built \subseteq g THEN "IN_PROGRESS" ELSE "NG"

\* The verdict of a picture is what has been built: PASS for a finished
\* assembly and nothing else at the Mother, IN_PROGRESS for what can still
\* become one by adding pieces, NG for what cannot, HOLD for a piece at the
\* Mother that belongs to no hole, whichever way the boxes are a little off
\* (evaluate_symmetric() tries two readings, either of which may be wrong).
\* With RT-DETR too, which finds pieces twice and cannot always tell how a
\* part lies, if the holes show her axis. Without a detector a PASS is true.
JudgedAsBuilt ==
    LET truth == Truth IN
    /\ job.detector = "obb" \/ (job.detector = "rtdetr" /\ AxisFound(c, InPicture(angle, 0))) =>
           \A reading \in Readings : Judged(angle, reading).status = truth
    /\ job.detector = "rule_based" =>
           (JudgeAssembly(c, r, WithoutDetector({}), angle).status = "PASS" => truth = "PASS")

\* Where both readings are allowed and parts below are not, turning the
\* Mother with all that hangs on her does not change the verdict
\* (evaluator.py:12: the mirrored reading asks for "below").
TurningChangesNothing ==
    (c.allow_mirrored_holes /\ ~c.allow_parts_below) =>
        LET judged == Judged(angle, Plain) IN
        \A a \in job.angles \ {angle} : Judged(a, Plain).status = judged.status

\* The two evaluators agree on what a product is made of: a finished product
\* with nothing left over is what the material check calls READY, and a
\* finished product of materials that were READY leaves nothing over. And
\* without a detector the materials are still told right while they lie
\* apart, a hidden hole of a short part made up for by its length, and
\* nothing is READY unless what lies beside the Mother is what is needed
\* (rule_based_adapter.py:22: bolts in holes make other classes of bars).
MaterialsMakeTheProduct ==
    /\ job.detector = "rule_based" =>
        \A hidden \in SUBSET {p.id : p \in {q \in Beside : q.class = "part_2hole"}} :
            LET told == EvaluateMaterials(r, WithoutDetector(hidden)) IN
            /\ Beside = InPicture(angle, 0) =>
                   told = EvaluateMaterials(r, Detections(angle, 0))
            /\ told = "READY" =>
                   \A k \in Classes \ {"mother_part"} :
                      Cardinality({p \in Beside : p.class = k}) = Expected(r)[k]
    /\ Judged(angle, Plain).status = "PASS" =>
           ((EvaluateMaterials(r, Detections(angle, 0)) = "READY")
            <=> (Ignored \notin Associate(c, Detections(angle, 0))))

\* The final check, which knows neither holes nor sides from the detector,
\* never contradicts a PASS (live_inspection.py:245).
FinalCheckAgrees ==
    Judged(angle, Plain).status = "PASS" =>
        ClassifyModel(c, InPicture(angle, 0), angle) = RECIPE_TO_MODEL[job.recipe]
=============================================================================
