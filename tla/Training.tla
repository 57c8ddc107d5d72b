------------------------------ MODULE Training ------------------------------
(* What the networks are trained with and judged by: the sets made of the  *)
(* photographs and the classifier's albums.                                *)
EXTENDS Datasets, Classification

\* A model is not validated with what it was trained on.  No picture is on
\* both sides of a set built into an empty folder, under whichever names and
\* in whichever sources it lies, however often the merge and the build were
\* broken off and repeated elsewhere; no file is on both sides of a carved set
\* unless it was given for both, or the set was laid over an older one; and a
\* cross-validation tests every photo in one fold only, with a network that
\* has not seen it but, if it was trained at all, has seen its class, if there
\* is a second photo of it
\* (prepare_rtdetr_dataset.py:103, prepare_obb_dataset.py:127, train.py:116).
ValidatedOnUnseen ==
    /\ \A model \in DOMAIN sets \ reused :
          Pictures(sets[model].train) \cap Pictures(sets[model].val) = {}
    /\ ~overlaid => Names(carved.train) \cap Names(carved.val)
                    \subseteq Names(InFolder("train_obb")) \cap Names(InFolder("val_obb"))
    /\ LET folds == validation.folds IN
       /\ validation.samples = UNION {folds[j] : j \in DOMAIN folds}
       /\ \A j \in DOMAIN folds, s \in UNION {folds[i] : i \in DOMAIN folds} :
             s \in folds[j] =>
                LET trainees == UNION {folds[i] : i \in DOMAIN folds \ {j}} IN
                /\ s \notin trainees
                /\ trainees # {} /\ (\E other \in validation.samples \ {s} : other.class = s.class)
                      => s.class \in Labels(trainees)

\* The pictures whose labels a file of a set can carry: its own, and those of
\* iconic photos of its name.
MayTell(item) ==
    {q.picture : q \in {r \in Photos : \E p \in Photos : /\ p.name = item.name /\ p.picture = item.picture
                                                      /\ SameLabel(p, r)}}

\* Every label names the classes its picture shows, by the common numbers and
\* in the format of its model, also where folders count classes differently,
\* merged files have one name, labels come late or a build lies over an older one;
\* only iconic photos of one name in two class folders, whose labels are in one
\* file, may carry each other's.  A merged photo is without a label only if a
\* merge was cut short, and is then in no set.  And a report on the classifier
\* counts what its answers mean by name, also for a folder with other classes
\* than it was trained on: the right ones, the photos of each class, and those
\* wrongly given and wrongly denied it (merge_labeled_data.py:63, :131, :137,
\* auto_label_iconic.py:157, prepare_rtdetr_dataset.py:191,
\* prepare_obb_from_sources.py:154, evaluate.py:87).
LabelsTellTheirPictures ==
    /\ LET Tells(format, picture) == [format |-> format, classes |-> Shows[picture]]
       IN /\ \A item \in merged : \/ item.label = Tells("aabb", item.picture)
                                  \/ cut_short /\ item.label = NoLabel
          /\ \A item \in carved.train \cup carved.val \cup carved.test :
                item.label = Tells("obb", item.picture)
          /\ \A m \in DOMAIN sets \ torn : \A item \in sets[m].train \cup sets[m].val :
                \E picture \in MayTell(item) : item.label = Tells(Formats[m], picture)
    /\ LET of == tested.of
           told == tested.report.per_class
           Are(c) == {s \in DOMAIN of : of[s].true = c}
           Taken(c) == {s \in DOMAIN of : of[s].pred = c}
       IN tested # Untested =>
             /\ tested.report.n = Cardinality(DOMAIN of)
             /\ tested.report.right = Cardinality({s \in DOMAIN of : of[s].true = of[s].pred})
             /\ \A s \in DOMAIN of : of[s].true = s.class
             /\ Labels(DOMAIN of) \subseteq DOMAIN told
             /\ \A c \in DOMAIN told :
                   told[c] = [tp |-> Cardinality(Are(c) \cap Taken(c)),
                              fp |-> Cardinality(Taken(c) \ Are(c)),
                              fn |-> Cardinality(Are(c) \ Taken(c)),
                              support |-> Cardinality(Are(c))]
=============================================================================
