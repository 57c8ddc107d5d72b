--------------------------- MODULE Classification ---------------------------
(* The classifier of photographs of finished assemblies: training into a   *)
(* checkpoint, cross-validation without one, and the evaluation of a       *)
(* checkpoint on a folder that need not be the one it was trained on.      *)
EXTENDS Integers, Sequences, SequencesExt, FiniteSets

CONSTANTS
    Albums,      \* folders: sets of [layout, split, class, name]
    SortedNames, \* the names of classes in their order
    ModelNames,    \* the names that begin with model_
    KFolds       \* what --cv can be

\* scan() looks for photos to train and to test with only.
ASSUME AlbumsAssumption ==
    /\ \A album \in Albums : IsFiniteSet(album)
    /\ \A album \in Albums : \A s \in album : s.split \in {"train", "test"} /\ s.class \in ToSet(SortedNames)
    /\ SortedNames \in Seq(STRING) /\ IsInjective(SortedNames)
    /\ KFolds \subseteq Nat \ {0}

VARIABLES
    checkpoint, \* [classes, taught]: meta["classes"] and what the network learned
    validation, \* [samples, folds, next], a cross-validation under way, or NoValidation
    tested      \* [of, report]: the last report, and history: [true, pred] of each photo

classifier == <<checkpoint, validation, tested>>

NoCheckpoint == [classes |-> <<>>, taught |-> <<>>]
NoValidation == [samples |-> {}, folds |-> <<>>, next |-> 0]
NoReport == [n |-> 0, right |-> 0, per_class |-> <<>>]
Untested == [of |-> <<>>, report |-> NoReport]

ClassificationInit == checkpoint = NoCheckpoint /\ validation = NoValidation /\ tested = Untested

\* scan(): in the layout of the detectors only finished assemblies count.
Scan(album) == {s \in album : s.layout = "images" => s.class \in ModelNames}

OfSplit(samples, split) == {s \in samples : s.split = split}
Labels(samples) == {s.class : s \in samples}

\* class_names()
ClassNames(samples) ==
    FoldLeft(LAMBDA classes, c : IF c \in Labels(samples) THEN Append(classes, c) ELSE classes,
             <<>>, SortedNames)

\* make_torch_dataset(): the number a class is taught by.
Numbered(classes) == [c \in ToSet(classes) |-> CHOOSE i \in DOMAIN classes : classes[i] = c]

\* confusion_matrix() of [true, pred] numbers, one of each sample.
Cell(answers, t, p) == Cardinality({s \in DOMAIN answers : answers[s] = [true |-> t, pred |-> p]})

\* report(): tp, fp and fn are sums of the matrix; precision and recall are
\* their shares.
Report(answers, classes) ==
    LET Row(t) == SumFunction([p \in DOMAIN classes |-> Cell(answers, t, p)])
        Column(p) == SumFunction([t \in DOMAIN classes |-> Cell(answers, t, p)])
    IN [n |-> SumFunction([t \in DOMAIN classes |-> Row(t)]),
        right |-> SumFunction([i \in DOMAIN classes |-> Cell(answers, i, i)]),
        per_class |-> [c \in ToSet(classes) |->
                          LET i == Numbered(classes)[c] IN
                          [tp |-> Cell(answers, i, i), fp |-> Column(i) - Cell(answers, i, i),
                           fn |-> Row(i) - Cell(answers, i, i), support |-> Row(i)]]]

\* The network: it answers with the number it was taught, save for mistakes.
Answers(taught, samples, mistaken) ==
    [s \in samples |-> IF s \in mistaken
                       THEN CHOOSE i \in 1..Cardinality(DOMAIN taught) : i # taught[s.class]
                       ELSE taught[s.class]]

\* fit(): the answers to the tests of a network taught by these classes.
Fit(tests, classes, mistaken) ==
    LET index == Numbered(classes)
        answer == Answers(index, tests, mistaken)
    IN [s \in tests |-> [true |-> index[s.class], pred |-> answer[s]]]

\* save_checkpoint(), load_checkpoint(): the classes in the order in which the
\* network was taught them go with the network.
Checkpoint(classes) == [classes |-> classes, taught |-> Numbered(classes)]

\* decide(): the answer is named by the checkpoint's classes.
Decide(number, classes) == classes[number]

\* predict_batch() of a loaded checkpoint.
Predicted(loaded, samples, mistaken) ==
    LET answer == Answers(loaded.taught, samples, mistaken)
    IN [s \in samples |-> Decide(answer[s], loaded.classes)]

\* By name: what a person who looks at the answers sees.
Named(answers, classes) ==
    [s \in DOMAIN answers |-> [true |-> s.class, pred |-> Decide(answers[s].pred, classes)]]

\* main() of train.py, before the first epoch.
Trainable(samples) ==
    LET trained == OfSplit(samples, "train") IN
    /\ samples # {}
    /\ Labels(OfSplit(samples, "test")) \subseteq Labels(trained)

Mistakes(samples, classes) == IF Len(classes) > 1 THEN SUBSET samples ELSE {{}}

Train(album) ==
    LET samples == Scan(album)
        classes == ClassNames(OfSplit(samples, "train"))
        tests == OfSplit(samples, "test")
    IN /\ validation = NoValidation /\ Trainable(samples)
       /\ \E mistaken \in Mistakes(tests, classes) :
             LET answers == Fit(tests, classes, mistaken) IN
             tested' = IF tests = {} THEN Untested
                       ELSE [of |-> Named(answers, classes), report |-> Report(answers, classes)]
       /\ checkpoint' = Checkpoint(classes)
       /\ UNCHANGED validation

\* Not the code: the rest of a class that does not fill the folds goes nowhere.
FaultyFolds(orders, k) ==
    [j \in 1..k |-> UNION {{orders[c][i] : i \in {n \in DOMAIN orders[c] : n % k = j % k /\ n <= (Len(orders[c]) \div k) * k}} :
                           c \in DOMAIN orders}]

\* stratified_folds(): the photos of a class, shuffled, are dealt out in turn.
Folds(orders, k) ==
    [j \in 1..k |-> UNION {{orders[c][i] : i \in {n \in DOMAIN orders[c] : n % k = j % k}} : c \in DOMAIN orders}]

Shuffles(samples) ==
    LET OfClass(c) == {s \in samples : s.class = c}
    IN {o \in [Labels(samples) -> UNION {SetToSeqs(OfClass(c)) : c \in Labels(samples)}] :
           \A c \in Labels(samples) : o[c] \in SetToSeqs(OfClass(c))}

StartValidation(album, k) ==
    LET samples == Scan(album) IN
    /\ validation = NoValidation /\ Trainable(samples)
    /\ \E orders \in Shuffles(samples) :
          validation' = [samples |-> samples, folds |-> Folds(orders, k), next |-> 1]
    /\ tested' = Untested
    /\ UNCHANGED checkpoint

Tests == validation.folds[validation.next]
Trainees == UNION {validation.folds[j] : j \in DOMAIN validation.folds \ {validation.next}}

\* One fold; its classes are those of the training photos of the folder.
FitFold ==
    LET classes == ClassNames(OfSplit(validation.samples, "train")) IN
    /\ validation.next \in DOMAIN validation.folds
    /\ Tests # {} /\ Trainees # {}
    /\ \E mistaken \in Mistakes(Tests, classes) :
          LET answers == Fit(Tests, classes, mistaken) IN
          tested' = [of |-> Named(answers, classes), report |-> Report(answers, classes)]
    /\ validation' = [validation EXCEPT !.next = @ + 1]
    /\ UNCHANGED checkpoint

\* All folds are done, or one has no photo to train or to test with, which
\* ends the program.
EndValidation ==
    /\ validation # NoValidation
    /\ validation.next \in DOMAIN validation.folds => Tests = {} \/ Trainees = {}
    /\ validation' = NoValidation
    /\ UNCHANGED <<checkpoint, tested>>

\* Not the code: numbered by the classes of the folder under evaluation.
FaultyTrueNumbers(samples) == Numbered(ClassNames(samples))

\* evaluate.py: index of a label in the checkpoint's classes.
TrueNumbers(samples) == Numbered(checkpoint.classes)

\* main() of evaluate.py.
EvaluateCheckpoint(album, split) ==
    LET samples == IF split = "all" THEN Scan(album) ELSE OfSplit(Scan(album), split) IN
    /\ validation = NoValidation /\ checkpoint # NoCheckpoint
    /\ samples # {} /\ Labels(samples) \subseteq ToSet(checkpoint.classes)
    /\ \E mistaken \in Mistakes(samples, checkpoint.classes) :
          LET decided == Predicted(checkpoint, samples, mistaken)
              answers == [s \in samples |-> [true |-> TrueNumbers(samples)[s.class],
                                             pred |-> Numbered(checkpoint.classes)[decided[s]]]]
          IN tested' = [of |-> [s \in samples |-> [true |-> s.class, pred |-> decided[s]]],
                        report |-> Report(answers, checkpoint.classes)]
    /\ UNCHANGED <<checkpoint, validation>>

ClassificationNext ==
    \/ \E album \in Albums : Train(album)
    \/ \E album \in Albums, k \in KFolds : StartValidation(album, k)
    \/ FitFold
    \/ EndValidation
    \/ \E album \in Albums, split \in {"train", "test", "all"} : EvaluateCheckpoint(album, split)
=============================================================================
