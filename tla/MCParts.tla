------------------------------ MODULE MCParts ------------------------------
(* The parts that share no state with the station's loop or with one       *)
(* another: the assembly on the bench with what is made of its picture,    *)
(* the records of a product, the live inspection from the command line and *)
(* the photos on their way to the training sets.  One of them runs, the    *)
(* others stand as they began.                                             *)
EXTENDS Bench, Records, LiveInspection, Scoring, Rehearsal, Training, TLC

VARIABLE part
vars == <<part, bench, records, live, predictions, rehearsal, datasets, classifier>>

(* Recipes and thresholds *)
Pair(b, p) == [bolt |-> b, part |-> p]
MCRecipes ==
    [recipe_1 |-> (1 :> Pair("bolt_1", "part_2hole") @@ 4 :> Pair("bolt_2", "part_3hole")),
     recipe_2 |-> (1 :> Pair("bolt_1", "part_2hole") @@ 3 :> Pair("bolt_1", "part_2hole")),
     recipe_3 |-> (2 :> Pair("bolt_2", "part_3hole"))]

Config(lean, mirrored, below) ==
    [max_mother_angle |-> lean, allow_mirrored_holes |-> mirrored, allow_parts_below |-> below,
     hole_alphas |-> <<-400, -200, 0, 200, 400>>, hole_beta |-> 0, mother_height |-> 185,
     bolt_half_width |-> 70, bolt_half_height |-> 92,
     part_rois |-> [part_2hole |-> [width |-> 180, length |-> 500, offset |-> 180],
                    part_3hole |-> [width |-> 180, length |-> 800, offset |-> 330]],
     overlap |-> 60, tolerance |-> 100]

\* An empty bench, a camera session without frames, a scenario at its own speed.
RestingJob == [recipe |-> "recipe_3", config |-> "mvp", detector |-> "obb", kit |-> {}, angles |-> {0}]
RestingSession == [logging |-> FALSE, length |-> 0, reported |-> 0, max_frames |-> -1]

Init ==
    /\ part \in {"bench", "records", "live", "scoring", "rehearsal", "rtdetr", "yolo_obb", "carved", "classifier"}
    /\ BenchInit /\ (part # "bench" => job = RestingJob)
    /\ RecordsInit
    /\ LiveInit /\ (part # "live" => session = RestingSession)
    /\ ScoringInit
    /\ RehearsalInit /\ (part # "rehearsal" => rehearsed = MCRecipes["recipe_3"] /\ pace.speed = 1)
    /\ DatasetsInit
    /\ ClassificationInit

Next ==
    \/ part = "bench" /\ BenchNext /\ UNCHANGED <<part, records, live, predictions, rehearsal, datasets, classifier>>
    \/ part = "records" /\ RecordsNext /\ UNCHANGED <<part, bench, live, predictions, rehearsal, datasets, classifier>>
    \/ part = "live" /\ LiveNext /\ UNCHANGED <<part, bench, records, predictions, rehearsal, datasets, classifier>>
    \/ part = "scoring" /\ ScoringNext /\ UNCHANGED <<part, bench, records, live, rehearsal, datasets, classifier>>
    \/ part = "rehearsal" /\ RehearsalNext /\ UNCHANGED <<part, bench, records, live, predictions, datasets, classifier>>
    \/ part \in DOMAIN Formats /\ SetNext(part) /\ UNCHANGED <<part, bench, records, live, predictions, rehearsal, classifier>>
    \/ part = "carved" /\ CarvedNext /\ UNCHANGED <<part, bench, records, live, predictions, rehearsal, classifier>>
    \/ part = "classifier" /\ ClassificationNext /\ UNCHANGED <<part, bench, records, live, predictions, rehearsal, datasets>>

Spec == Init /\ [][Next]_vars

(* Bench *)
MCConfigs ==
    [mvp |-> Config(15, FALSE, FALSE), rtdetr_live |-> Config(89, TRUE, FALSE),
     parts_below |-> Config(89, TRUE, TRUE)]

MCClassOf ==
    [b1 |-> "bolt_1", b2x |-> "bolt_2", b2 |-> "bolt_2", p2 |-> "part_2hole", p3 |-> "part_3hole",
     b1x |-> "bolt_1", p2x |-> "part_2hole"]

S(x, y, lies) == [x |-> x, y |-> y, lies |-> lies, tilt |-> 0]
HangingLeft(s) == [s EXCEPT !.tilt = -1]
Bolts == {S(x, 0, FALSE) : x \in {-400, -200, 0, 200, 400}}
Parts1(y, xs) == {S(x, y * e, FALSE) : x \in xs, e \in {-1, 1}}
MCPlaces ==
    [bolt_1 |-> Bolts \cup {S(-300, 0, FALSE)},
     bolt_2 |-> Bolts,
     part_2hole |-> Parts1(185, {-400, 0, 400}) \cup {S(-300, -185, FALSE), HangingLeft(S(-400, -180, TRUE))},
     part_3hole |-> Parts1(311, {-200, 200}) \cup {S(200, -461, FALSE), S(200, -900, FALSE)}]

MCBoxErrors == {-20, 0, 20}

\* The cosine and sine of the angle read in -90..89.
MCLean ==
    0 :> <<1000, 0>> @@ 20 :> <<940, 342>> @@ 40 :> <<766, 643>>
    @@ 180 :> <<1000, 0>> @@ 220 :> <<766, 643>>

Job(recipe, config, detector, kit, angles) ==
    [recipe |-> recipe, config |-> config, detector |-> detector, kit |-> kit, angles |-> angles]
MCJobs ==
    {RestingJob,
     Job("recipe_1", "rtdetr_live", "obb", {"b1", "b2", "p2", "p3"}, {0, 220}),
     Job("recipe_1", "mvp", "obb", {"b1", "b2", "p2", "p3"}, {0, 40}),
     Job("recipe_2", "rtdetr_live", "obb", {"b1", "b1x", "p2", "p2x"}, {0, 180}),
     Job("recipe_3", "parts_below", "obb", {"b2", "p2", "p3"}, {0, 180}),
     Job("recipe_3", "rtdetr_live", "rtdetr", {"b2", "p2", "p3"}, {0, 20, 40}),
     Job("recipe_2", "rtdetr_live", "rtdetr", {"b1", "b1x", "p2", "p2x"}, {0, 40}),
     Job("recipe_3", "rtdetr_live", "rule_based", {"b2", "b2x", "p2", "p3"}, {0}),
     Job("recipe_1", "rtdetr_live", "rule_based", {"b1", "b2", "p2", "p3"}, {0})}

(* Records *)
Issue(code, hole, missing) == [code |-> code, hole |-> hole, missing |-> missing]
Told(in, status, issues) == [phase |-> in, status |-> status, issues |-> issues]
MCVerdicts ==
    LET excess == Issue("MATERIAL_EXCESS", 0, FALSE)
        lacking == Issue("MATERIAL_MISSING", 0, FALSE)
        wrong == Issue("WRONG_BOLT", 1, FALSE)
        missing == Issue("MISSING_PART", 4, TRUE)
        lean == Issue("ANGLE", 0, FALSE)
    IN {Told("CHECK_MATERIALS", "HOLD", {}), Told("CHECK_MATERIALS", "NG", {excess, lacking}),
        Told("CHECK_MATERIALS", "IN_PROGRESS", {lacking}),
        Told("ASSEMBLING", "HOLD", {lean}), Told("ASSEMBLING", "NG", {wrong}),
        Told("ASSEMBLING", "NG", {wrong, missing}), Told("ASSEMBLING", "PASS", {}),
        Told("ASSEMBLING", "IN_PROGRESS", {missing})}

(* LiveInspection: axes near the vertical, one far from it, and none. *)
View(shows, hole, numbering, axis) ==
    [shows |-> shows, hole |-> hole, numbering |-> numbering, axis |-> axis]
MCViews ==
    {View("HOLD", 0, "none", NoAxis), View("READY", 0, "none", 80000),
     View("NG", 0, "none", NoAxis), View("IN_PROGRESS", 0, "direct", -85000),
     View("PASS", 0, "mirrored", -85000), View("PASS", 0, "direct", 80000),
     View("NG", 2, "direct", 80000), View("NG", 2, "mirrored", -85000),
     View("NG", 1, "direct", NoAxis)}
MCSessions ==
    {RestingSession,
     [logging |-> FALSE, length |-> 5, reported |-> 0, max_frames |-> -1]}
    \cup {[logging |-> TRUE, length |-> 5, reported |-> n, max_frames |-> f] :
             n \in {0, 4, 5}, f \in {-1, 4}}

(* Scoring: a change that nobody annotated, an error across two segments, and *)
(* a segment no longer than the grace.                                        *)
Stretch(start, end, expected) == [start |-> start, end |-> end, expected |-> expected]
MCSegments ==
    <<Stretch(1, 4, "IN_PROGRESS"), Stretch(4, 5, "none"), Stretch(5, 9, "NG"),
      Stretch(9, 14, "PASS"), Stretch(14, 15, "IN_PROGRESS")>>
MCErrorEvents == <<[start |-> 5, end |-> 8], [start |-> 7, end |-> 11]>>

(* Rehearsal: mvp.json for a Mother of 1000 by 160. *)
MCBaseConfig ==
    [mother_height |-> 160, bolt_half_height |-> 80, stable_duration_ms |-> 400,
     material_stable_duration_ms |-> 1000, max_frame_gap_ms |-> 250] @@ Config(15, FALSE, FALSE)
MCRehearsed == {MCRecipes[name] : name \in {"recipe_1", "recipe_3"}}

\* What web.server does by itself, its --speed 2 and 4 at its frame rate, 4 with
\* pauses that leave no millisecond to spare, the 8 to 10 of the source's comment at
\* 50 frames a second and more, and 8 at ten, which is too few.
Pace(speed, period, lates) == [speed |-> speed, period |-> period, lates |-> lates]
MCPaces ==
    {Pace(1, 100, {40}), Pace(2, 100, {20}), Pace(4, 100, {0, 50}), Pace(4, 17, {3}),
     Pace(8, 17, {8}), Pace(10, 17, {3}), Pace(8, 100, {0})}

(* Datasets: one picture in up to three sources and under two names, a name *)
(* in two folders, an iconic one of them, a photo of two classes in a       *)
(* folder of one.                                                           *)
Photo(folder, name, picture) == [folder |-> folder, name |-> name, picture |-> picture]
MCUnlabelled ==
    {Photo("2_hole_label", "2_hole_2", "hand"), Photo("iconic/part_2hole", "img_3", "part"),
     Photo("train_obb", "t_5", "bolts"), Photo("val_obb", "v_1", "hand")}
MCPhotos ==
    MCUnlabelled
    \cup {Photo("iconic/bolt_1", "img_1", "bolt"), Photo("iconic/bolt_1", "img_3", "bolts"),
          Photo("model_a", "model_a_1", "assembly"),
          Photo("2_hole_label", "2_hole_1", "part"),
          Photo("train", "recipe1_1", "assembly"), Photo("train", "recipe1_2", "halfway"),
          Photo("train", "2_hole_1", "halfway"),
          Photo("train_obb", "t_1", "bolt"), Photo("train_obb", "t_2", "part"),
          Photo("train_obb", "t_3", "hand"), Photo("train_obb", "t_4", "halfway"),
          Photo("test_obb", "t_6", "assembly")}
MCShows ==
    [bolt |-> {"bolt_1"}, bolts |-> {"bolt_1"}, part |-> {"part_2hole"},
     hand |-> {"part_2hole", "bolt_1"}, assembly |-> {"mother_part", "bolt_1", "part_2hole"},
     halfway |-> {"mother_part", "bolt_1"}]
MCLocalNames ==
    "2_hole_label" :> <<"part_2hole", "bolt_1">> @@ "train" :> <<"mother_part", "bolt_1", "part_2hole">>
MCSources ==
    <<[folder |-> "2_hole_label", single |-> "part_2hole"], [folder |-> "train", single |-> "no"]>>
Group(source, folder) == [source |-> source, folder |-> folder]
MCGroups ==
    <<Group("iconic", "iconic/bolt_1"), Group("iconic", "iconic/part_2hole"), Group("assembled_labeled", "model_a"),
      Group("labeled_data", "picking_part_2hole"), Group("labeled_data", "process_model_a")>>
MCNameOrder == <<"2_hole_1", "2_hole_2", "recipe1_1", "recipe1_2">>
MCGroupOf ==
    [name \in {"2_hole_1", "2_hole_2"} |-> "picking_part_2hole"]
    @@ [name \in {"t_1", "t_2", "t_3", "t_4", "t_5"} |-> "t"]
    @@ [name \in {"recipe1_1", "recipe1_2"} |-> "process_model_a"]

(* Classification: a folder in the layout of the detectors with a piece in  *)
(* it, folders by class, one of them without the first class.               *)
Sample(layout, split, class, name) ==
    [layout |-> layout, split |-> split, class |-> class, name |-> name]
MCAlbums ==
    {{},
     {Sample("images", "train", "model_a", "1"), Sample("images", "train", "model_b", "1"),
      Sample("images", "train", "model_b", "2"), Sample("images", "train", "bolt_1", "1"),
      Sample("images", "test", "model_a", "2"), Sample("images", "test", "model_b", "3")},
     {Sample("folders", "train", "model_b", "1"), Sample("folders", "train", "model_c", "1"),
      Sample("folders", "test", "model_c", "2")},
     {Sample("folders", "train", "model_a", "1"), Sample("folders", "train", "model_b", "1"),
      Sample("folders", "train", "model_c", "1"),
      Sample("folders", "test", "model_b", "2"), Sample("folders", "test", "model_c", "2")},
     {Sample("folders", "test", "model_b", "7"), Sample("folders", "test", "model_c", "7")}}
MCModelNames == {"model_a", "model_b", "model_c"}
MCSortedNames == <<"bolt_1", "model_a", "model_b", "model_c">>
=============================================================================
