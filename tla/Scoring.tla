------------------------------ MODULE Scoring ------------------------------
(* evaluate_video.py: the rows that an inspection logged are held against  *)
(* what a person wrote down of the video, in milliseconds.                 *)
EXTENDS Integers, Sequences, FiniteSets, Functions

CONSTANTS
    Segments,   \* annotation: <<[start, end, expected]>>, expected may be "none"
    ErrorEvents,     \* annotation: must_detect_window_ms of the errors, [start, end]
    Grace,      \* grace_ms
    FrameMs,    \* 1000 / video_fps
    MaxRows,    \* bound: rows
    MaxMissing  \* bound: frames between two rows that were not logged

Expectations == {"none", "READY", "IN_PROGRESS", "PASS", "NG", "HOLD"}

\* validate(): the segments are contiguous and not empty; and so far apart are
\* the frames that no time stamp is repeated.
ASSUME SegmentsAssumption ==
    /\ Segments \in Seq([start : Int, end : Int, expected : Expectations])
    /\ \A i \in DOMAIN Segments : Segments[i].start < Segments[i].end
    /\ \A i \in 1..(Len(Segments) - 1) : Segments[i].end = Segments[i + 1].start
    /\ \A n \in DOMAIN ErrorEvents : ErrorEvents[n].start \in Int /\ ErrorEvents[n].end \in Int
    /\ Grace \in Nat /\ FrameMs \in Nat \ {0, 1}

VARIABLE predictions   \* predictions.jsonl: [frame_index, at, status, cause]

ScoringInit == predictions = <<>>

\* A row of the video: frames can be missing, time stamps are a little late.
LogRow(missing, late, status, cause) ==
    /\ Len(predictions) < MaxRows
    /\ cause => status = "NG"
    /\ LET index == IF predictions = <<>> THEN missing ELSE predictions[Len(predictions)].frame_index + 1 + missing
       IN predictions' = Append(predictions, [frame_index |-> index, at |-> index * FrameMs + late,
                                status |-> status, cause |-> cause])

ScoringNext ==
    \E missing \in 0..MaxMissing, late \in {0, 1}, status \in {"IN_PROGRESS", "PASS", "NG"}, cause \in BOOLEAN :
        LogRow(missing, late, status, cause)

Least(x, y) == IF x < y THEN x ELSE y
Most(x, y) == IF x > y THEN x ELSE y

\* Not the code: every row lasts until the next.
FaultyEnds(i) == IF i = Len(predictions) THEN predictions[i].at + FrameMs ELSE predictions[i + 1].at

\* A row lasts until the next one, but missing frames are not bridged.
Ends(i) ==
    IF i = Len(predictions) THEN predictions[i].at + FrameMs
    ELSE IF predictions[i + 1].frame_index = predictions[i].frame_index + 1 THEN predictions[i + 1].at
    ELSE Least(predictions[i].at + FrameMs, predictions[i + 1].at)

Window(a, b) == {i \in DOMAIN predictions : predictions[i].at < b /\ Ends(i) > a}

\* The time of some rows between a and b.
Within(some, a, b) ==
    SumFunction([i \in some |-> Most(0, Least(Ends(i), b) - Most(predictions[i].at, a))])

ScoredFrom(s) == Least(s.start + Grace, s.end)
ScoredRows(s) == IF s.expected = "none" THEN {} ELSE Window(ScoredFrom(s), s.end)

ShownTime(s, status) ==
    Within({i \in ScoredRows(s) : predictions[i].status = status}, ScoredFrom(s), s.end)

Expecting(statuses) == {n \in DOMAIN Segments : Segments[n].expected \in statuses}

\* confusion_duration_ms
Confusion(expected, status) ==
    SumFunction([n \in Expecting({expected}) |-> ShownTime(Segments[n], status)])

\* An NG begins where the sample before is not one or is not the frame before.
NgBegins(samples, i) ==
    /\ predictions[i].status = "NG"
    /\ ~(/\ i - 1 \in samples /\ predictions[i - 1].status = "NG"
         /\ predictions[i].frame_index = predictions[i - 1].frame_index + 1)

FalseNgEpisodes ==
    SumFunction([n \in Expecting({"IN_PROGRESS", "PASS"}) |->
        Cardinality({i \in ScoredRows(Segments[n]) : NgBegins(ScoredRows(Segments[n]), i)})])

FalsePassTime ==
    SumFunction([n \in Expecting({"READY", "IN_PROGRESS", "NG", "HOLD"}) |->
        ShownTime(Segments[n], "PASS")])

Covered(a, b) == Within(Window(a, b), a, b)
FullyCovered(e) == Covered(e.start, e.end) > 0 /\ Covered(e.start, e.end) >= e.end - e.start
NgDetected(e) == \E i \in Window(e.start, e.end) : predictions[i].status = "NG"
CauseMatched(e) == \E i \in Window(e.start, e.end) : predictions[i].cause

----------------------------------------------------------------------------

\* The row that tells what was shown in one millisecond: the last one before
\* it, if its frame was still the video's.
RowAt(t) ==
    {i \in DOMAIN predictions :
        /\ predictions[i].at <= t /\ \A k \in (i + 1)..Len(predictions) : predictions[k].at > t
        /\ \/ t < predictions[i].at + FrameMs
           \/ i < Len(predictions) /\ predictions[i + 1].frame_index = predictions[i].frame_index + 1}
Showed(t) == IF RowAt(t) = {} THEN "dark" ELSE predictions[CHOOSE i \in RowAt(t) : TRUE].status

Scored(n) == IF Segments[n].expected = "none" THEN {} ELSE ScoredFrom(Segments[n])..(Segments[n].end - 1)

\* Where NG comes up in what is scored of a segment; one that is no longer than
\* the grace has the NG that stands across its end.
Onsets(n) ==
    IF Scored(n) = {}
    THEN {t \in {Segments[n].end} : \E i \in RowAt(t) : predictions[i].status = "NG" /\ i \in RowAt(t - 1)}
    ELSE {t \in Scored(n) : Showed(t) = "NG" /\ (t - 1 \in Scored(n) => Showed(t - 1) # "NG")}

\* The score of a log with rows counts milliseconds: the time of a status in
\* each expectation, the passes where none was due, and the stretches of NG
\* where none was due are as a look at the screen in every millisecond would
\* find them.  A time of missing frames counts for nothing, and an error
\* counts only if each millisecond of its window is told, found exactly if
\* NG, or the NG of its cause, was there.  Only a segment no longer than the
\* grace counts an NG of which nothing is scored (evaluate_video.py:84, :106,
\* :126, :148).
ScoreIsTheTime ==
    LET statuses == {"IN_PROGRESS", "PASS", "NG"}
        scored == UNION {Scored(n) : n \in DOMAIN Segments}
    IN predictions # <<>> =>
       /\ \A expected \in statuses, status \in statuses :
             Confusion(expected, status) = Cardinality({t \in UNION {Scored(n) : n \in Expecting({expected})} :
                                                           Showed(t) = status})
       /\ FalsePassTime = Cardinality({t \in scored : /\ t \notin UNION {Scored(n) : n \in Expecting({"PASS"})}
                                                      /\ Showed(t) = "PASS"})
       /\ FalseNgEpisodes = SumFunction([n \in Expecting({"IN_PROGRESS", "PASS"}) |-> Cardinality(Onsets(n))])
       /\ \A n \in DOMAIN ErrorEvents :
             LET e == ErrorEvents[n]
                 window == e.start..(e.end - 1)
             IN /\ FullyCovered(e) <=> window # {} /\ \A t \in window : Showed(t) # "dark"
                /\ FullyCovered(e) =>
                      /\ NgDetected(e) <=> \E t \in window : Showed(t) = "NG"
                      /\ CauseMatched(e) <=> \E t \in window : \E i \in RowAt(t) : predictions[i].cause
=============================================================================
