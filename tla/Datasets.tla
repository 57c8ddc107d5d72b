------------------------------ MODULE Datasets ------------------------------
(* The photographs on their way to the training sets: the folders as they  *)
(* were labelled, labeled_data_merged, the two sets made of all sources by *)
(* prepare_rtdetr_dataset.py and prepare_obb_from_sources.py, and the one  *)
(* that prepare_obb_dataset.py makes of a labelled train/test folder.      *)
EXTENDS Integers, Sequences, SequencesExt, FiniteSets

CONSTANTS
    Photos,      \* [folder, name, picture]: files, some with the same content
    Shows,       \* picture |-> classes of the parts in it
    Unlabelled,  \* photos labelled only while the program is in use
    LOCAL_NAMES, \* folder |-> class names by which its labels count, from 0
    SOURCES,     \* merge_labeled_data's folders, [folder, single]
    NameOrder,   \* names of the photos merged, sorted
    Groups,      \* the groups in the order in which they are split
    GroupOf      \* name of a merged or carved photo |-> its group

\* data/iconic has a folder for each class.
IconicFolders == {g.folder : g \in {h \in ToSet(Groups) : h.source = "iconic"}}

\* A label file lies beside its photo or in a folder like the photo's, but those
\* of the iconic photos in one folder for all classes, where the name alone
\* leads to it.
SameLabel(p, q) ==
    p.name = q.name /\ (p.folder = q.folder \/ {p.folder, q.folder} \subseteq IconicFolders)

ASSUME PhotosAssumption ==
    /\ Unlabelled \subseteq Photos
    /\ \A p \in Photos : Shows[p.picture] # {}
    /\ \A p, q \in Photos : (p.folder = q.folder /\ p.name = q.name) => p = q
    /\ \A p, q \in Photos \ Unlabelled : SameLabel(p, q) => p = q

\* An iconic photo shows pieces of its folder's class only, which is the class
\* that auto_label_iconic.py gives to all of them.
ASSUME IconicAssumption ==
    \A p, q \in Photos : p.folder = q.folder /\ p.folder \in IconicFolders
                         => Shows[p.picture] = Shows[q.picture] /\ Cardinality(Shows[p.picture]) = 1

\* A folder's counting has a number for all that is in its photos, and what a
\* folder is said to hold is in each of them: somebody has looked
\* (merge_labeled_data.py:14, :52).
ASSUME SourcesAssumption ==
    /\ SOURCES \in Seq([folder : DOMAIN LOCAL_NAMES, single : STRING])
    /\ \A folder \in DOMAIN LOCAL_NAMES : LOCAL_NAMES[folder] \in Seq(STRING)
    /\ \A s \in ToSet(SOURCES) : \A p \in {q \in Photos : q.folder = s.folder} :
          /\ Shows[p.picture] \subseteq ToSet(LOCAL_NAMES[s.folder])
          /\ s.single = "no" \/ s.single \in Shows[p.picture]

VARIABLES
    labelled,  \* photos whose label files are as they were written for them
    merged,    \* items in labeled_data_merged
    cut_short, \* history: a merge ended between a photo and its label
    sets,      \* model |-> [train, val], items
    torn,      \* history: models whose build ended between a photo and its label
    building,  \* [model, next, seen], a preparation under way, or idle
    reused,    \* history: models whose set was built over an older one
    carved,    \* [train, val, test], items
    overlaid   \* history: carved was written over an older one

datasets == <<labelled, merged, cut_short, sets, torn, building, reused, carved, overlaid>>

Formats == [rtdetr |-> "aabb", yolo_obb |-> "obb"]
Idle == [model |-> "none", next |-> 0, seen |-> {}]
NoSplit == [train |-> {}, val |-> {}]
NoCarved == [train |-> {}, val |-> {}, test |-> {}]
NoLabel == [format |-> "none", classes |-> {}]

DatasetsInit ==
    /\ labelled = Photos \ Unlabelled /\ merged = {} /\ cut_short = FALSE
    /\ sets = [model \in DOMAIN Formats |-> NoSplit] /\ building = Idle
    /\ torn = {} /\ reused = {}
    /\ carved = NoCarved /\ overlaid = FALSE

InFolder(folder) == {p \in Photos : p.folder = folder}
Names(items) == {item.name : item \in items}
Pictures(items) == {item.picture : item \in items}
Item(p, label) == [name |-> p.name, picture |-> p.picture, label |-> label]

\* Files written into a folder replace those of the same names.
Into(folder, items) == {old \in folder : old.name \notin Names(items)} \cup items

\* What another photo's label was in the same file is lost.
Label(p) ==
    /\ p \notin labelled /\ labelled' = {q \in labelled : ~SameLabel(p, q)} \cup {p}
    /\ UNCHANGED <<merged, cut_short, sets, torn, building, reused, carved, overlaid>>

----------------------------------------------------------------------------
(* merge_labeled_data.py *)

\* The numbers in a photo's label file, by its own folder's counting.
LocalIds(p) == {i \in 0..(Len(LOCAL_NAMES[p.folder]) - 1) : LOCAL_NAMES[p.folder][i + 1] \in Shows[p.picture]}

UsedIds(folder) == UNION {LocalIds(p) : p \in InFolder(folder) \cap labelled}

\* Not the code: the folder is taken for what it should be.
FaultyRefused(s) == FALSE

\* build_local_to_canonical(): a folder of one class has one number.
Refused(s) == s.single # "no" /\ Cardinality(UsedIds(s.folder)) # 1

Canonical(s, i) == IF s.single # "no" THEN s.single ELSE LOCAL_NAMES[s.folder][i + 1]

\* What is there under the name is kept.
MergeFolder(items, s) ==
    items \cup {Item(p, [format |-> "aabb", classes |-> {Canonical(s, i) : i \in LocalIds(p)}]) :
                p \in {q \in InFolder(s.folder) \cap labelled : q.name \notin Names(items)}}

\* How many folders can be merged: an error ends the program, what was merged
\* before it stays.
Mergeable == {n \in 0..Len(SOURCES) : \A i \in 1..n : ~Refused(SOURCES[i])}
MergedUpTo(n) == FoldLeft(MergeFolder, merged, SubSeq(SOURCES, 1, n))

Merge ==
    LET done == CHOOSE n \in Mergeable : \A k \in Mergeable : k <= n
    IN /\ merged' = MergedUpTo(done)
       /\ UNCHANGED <<labelled, cut_short, sets, torn, building, reused, carved, overlaid>>

Precedes(name, other) ==
    \E i, j \in DOMAIN NameOrder : i < j /\ NameOrder[i] = name /\ NameOrder[j] = other

\* The program ends in a folder, after a photo or between it and its label.
BreakMerge ==
    \E n \in Mergeable \ {0} :
        LET before == MergedUpTo(n - 1)
            new == MergeFolder(before, SOURCES[n]) \ before
        IN \E at \in new : \E label \in {at.label, NoLabel} :
              /\ merged' = before \cup {item \in new : Precedes(item.name, at.name)}
                                  \cup {[at EXCEPT !.label = label]}
              /\ cut_short' = (cut_short \/ label = NoLabel)
              /\ UNCHANGED <<labelled, sets, torn, building, reused, carved, overlaid>>

----------------------------------------------------------------------------
(* prepare_rtdetr_dataset.py, prepare_obb_from_sources.py *)

\* Python's round() of a / b.
Round(a, b) ==
    LET rest == a % b
        up == 2 * rest > b \/ (2 * rest = b /\ (a \div b) % 2 = 1)
    IN a \div b + (IF up THEN 1 ELSE 0)

\* val-ratio is 0.15.
NVal(n) == IF n = 0 THEN 0 ELSE IF Round(15 * n, 100) > 1 THEN Round(15 * n, 100) ELSE 1

\* What is read under a photo's name; iconic has oriented labels, the others
\* upright ones.
WrittenFor(p) == {q \in labelled : SameLabel(p, q)}
Labelled(p, format) ==
    IF WrittenFor(p) = {} THEN NoLabel
    ELSE [format |-> format, classes |-> Shows[(CHOOSE q \in WrittenFor(p) : TRUE).picture]]

\* convert_label_file(): the upright boxes around the oriented ones; the numbers
\* of an upright one are taken for corners.
Upright(label) == [label EXCEPT !.format = IF @ = "obb" THEN "aabb" ELSE "garbled"]

\* convert_aabb_file_to_obb(): upright boxes as rectangles at no angle; the first
\* corners of an oriented one are taken for centre and size.
Oriented(label) == [label EXCEPT !.format = IF @ = "aabb" THEN "obb" ELSE "garbled"]

\* Not the code: one conversion for all sources.
FaultyConvert(label, model, source) == IF model = "rtdetr" THEN Upright(label) ELSE Oriented(label)

\* The convert_fn of the calls; read_aabb_lines() and read_obb_lines() give a
\* file as it is.
Convert(label, model, source) ==
    IF model = "rtdetr" THEN IF source = "iconic" THEN Upright(label) ELSE label
    ELSE IF source = "iconic" THEN label ELSE Oriented(label)

Converted(item, model, source) ==
    IF item.label = NoLabel THEN item ELSE [item EXCEPT !.label = Convert(@, model, source)]

GroupItems(g) ==
    IF g.source = "labeled_data" THEN {item \in merged : GroupOf[item.name] = g.folder}
    ELSE {Item(p, Labelled(p, IF g.source = "iconic" THEN "obb" ELSE "aabb")) : p \in InFolder(g.folder)}

\* Not the code: every group forgets the pictures of those before it.
FaultyPicks(items, seen) ==
    LET usable == {item \in items : item.label # NoLabel} IN
    {k \in SUBSET usable : /\ Cardinality(k) = Cardinality(Pictures(k))
                           /\ Pictures(k) = Pictures(usable)}

\* What can be copied of a shuffled list: one file of each picture not seen.
Picks(items, seen) ==
    LET usable == {item \in items : item.label # NoLabel} IN
    {k \in SUBSET usable : /\ Cardinality(k) = Cardinality(Pictures(k))
                           /\ Pictures(k) = Pictures(usable) \ seen}

StartBuild(model) ==
    /\ building = Idle
    /\ building' = [model |-> model, next |-> 1, seen |-> {}]
    /\ reused' = IF sets[model] = NoSplit THEN reused ELSE reused \cup {model}
    /\ UNCHANGED <<labelled, merged, cut_short, sets, torn, carved, overlaid>>

\* _split_and_copy(): the files drawn for validation stand first in the list.
SplitAndCopy ==
    /\ building # Idle /\ building.next <= Len(Groups)
    /\ LET model == building.model
           g == Groups[building.next]
           items == {Converted(item, model, g.source) : item \in GroupItems(g)}
       IN \E drawn \in SUBSET items :
             /\ Cardinality(drawn) = NVal(Cardinality(items))
             /\ \E val \in Picks(drawn, building.seen) :
                \E train \in Picks(items \ drawn, building.seen \cup Pictures(val)) :
                   /\ sets' = [sets EXCEPT ![model] = [train |-> Into(@.train, train), val |-> Into(@.val, val)]]
                   /\ building' = [building EXCEPT !.next = @ + 1,
                                                   !.seen = @ \cup Pictures(train \cup val)]
    /\ UNCHANGED <<labelled, merged, cut_short, torn, reused, carved, overlaid>>

\* copy2() of one file, and its label not yet written: a label of that name that
\* was in the folder is still there.
CopyUntil(folder, files, at) ==
    LET there == Into(folder, files \ {at})
        left  == {old.label : old \in {item \in there : item.name = at.name}} \cup {NoLabel}
    IN IF at \notin files THEN there
       ELSE Into(there, {[at EXCEPT !.label = CHOOSE l \in left : l # NoLabel \/ left = {NoLabel}]})

\* The program ends between a photo and its label, those for validation before
\* those for training.
BreakBuild ==
    /\ building # Idle /\ building.next <= Len(Groups)
    /\ LET model == building.model
           g == Groups[building.next]
           items == {Converted(item, model, g.source) : item \in GroupItems(g)}
       IN \E drawn \in SUBSET items :
             /\ Cardinality(drawn) = NVal(Cardinality(items))
             /\ \E val \in Picks(drawn, building.seen) :
                \E train \in Picks(items \ drawn, building.seen \cup Pictures(val)) :
                \E at \in val \cup train, files \in SUBSET (val \cup train) :
                   /\ at \in files
                   /\ IF at \in val THEN files \subseteq val ELSE val \subseteq files
                   /\ sets' = [sets EXCEPT ![model] = [train |-> CopyUntil(@.train, files \cap train, at),
                                                       val |-> CopyUntil(@.val, files \cap val, at)]]
                   /\ building' = Idle /\ torn' = torn \cup {model}
    /\ UNCHANGED <<labelled, merged, cut_short, reused, carved, overlaid>>

\* The program ends, with its work done or broken off.
EndBuild ==
    /\ building # Idle /\ building' = Idle
    /\ UNCHANGED <<labelled, merged, cut_short, sets, torn, reused, carved, overlaid>>

----------------------------------------------------------------------------
(* prepare_obb_dataset.py *)

CarvedFolders == {"train_obb", "val_obb", "test_obb"}

\* carve_val(): val-frac is 0.10, and five files give at least one.
NCarved(n) == IF n >= 5 /\ Round(10 * n, 100) = 0 THEN 1 ELSE Round(10 * n, 100)

\* collect(): the files of a split with readable, oriented labels.
Samples(split) == {Item(p, Labelled(p, "obb")) : p \in InFolder(split) \cap labelled}

\* What can be taken of the training photos: the same share of every group,
\* nothing if there is a folder of validation photos.
Carvable(given) ==
    LET trained == Samples("train_obb")
        OfGroup(items, g) == {item \in items : GroupOf[item.name] = g}
    IN IF given # {} THEN {{}}
       ELSE {drawn \in SUBSET trained :
                \A g \in {GroupOf[item.name] : item \in trained} :
                   Cardinality(OfGroup(drawn, g)) = NCarved(Cardinality(OfGroup(trained, g)))}

Carve(clean) ==
    LET given == Samples("val_obb")
        old == IF clean THEN NoCarved ELSE carved
    IN \E drawn \in Carvable(given) :
          /\ Samples("train_obb") \cup Samples("test_obb") # {}
          /\ carved' = [train |-> Into(old.train, Samples("train_obb") \ drawn),
                        val   |-> Into(old.val, given \cup drawn),
                        test  |-> Into(old.test, Samples("test_obb"))]
          /\ overlaid' = (old # NoCarved)
          /\ UNCHANGED <<labelled, merged, cut_short, sets, torn, building, reused>>

\* One model's set, and the carved set, are each made of photos of their own
\* without regard to the other.
SetNext(model) ==
    \/ \E p \in Unlabelled : p.folder \notin CarvedFolders /\ Label(p)
    \/ Merge
    \/ BreakMerge
    \/ StartBuild(model)
    \/ SplitAndCopy
    \/ BreakBuild
    \/ EndBuild

CarvedNext ==
    \/ \E p \in Unlabelled : p.folder \in CarvedFolders /\ Label(p)
    \/ \E clean \in BOOLEAN : Carve(clean)
=============================================================================
