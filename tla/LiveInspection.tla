--------------------------- MODULE LiveInspection ---------------------------
(* The inspection of a camera or of a video from the command line: its     *)
(* loop, the keys, the angle that RTDETRAdapter remembers between frames,  *)
(* the log of an evaluation and what evaluate_video makes of the log.      *)
EXTENDS FinalCheck, Sequences

CONSTANTS
    Views,       \* what a frame can show: [shows, hole, numbering, axis]
    Sessions,    \* [logging, length, reported, max_frames]: arguments and video
    HoldFrames,  \* angle_hold_frames
    Dt,          \* 1000 / video_fps
    NoAxis       \* no holes found to measure the Mother's angle by

\* A frame lasts longer than its time stamp can be late.
ASSUME LiveAssumption ==
    /\ Dt \in Nat \ {0, 1} /\ HoldFrames \in Nat
    /\ \A s \in Sessions : s.logging \in BOOLEAN /\ s.length \in Nat /\ s.reported \in Int
    /\ NoAxis \notin Int /\ \A v \in Views : v.axis \in Int \cup {NoAxis}

VARIABLES
    session,
    recipe_id,
    core,         \* what the service shows, as Verdict describes it
    confirmed,    \* snapshot.confirmed, a view's candidate or NoVerdict
    adapter,      \* [mother_angle, lost]
    final_check,  \* the expected model of the check made, or "none"
    frame_index,
    turn,         \* the loop is to "read", or to look at the "key", or is "over"
    metadata,     \* [completed, stop_reason, frame_count, numbering, first, last]
    row,          \* last row of predictions.jsonl
    saved,        \* metadata.json
    looks,        \* history: the axis each frame showed since the last forgetting
    passed,       \* history: a stable PASS was shown since then
    where         \* history: hole in the picture of the confirmed wrong piece

live == <<session, recipe_id, core, confirmed, adapter, final_check, frame_index, turn,
          metadata, row, saved, looks, passed, where>>

Service == INSTANCE Verdict WITH Deviations <- {"IN_PROGRESS", "NG"}

NoVerdict == [status |-> "HOLD", hole |-> 0]
NewAdapter == [mother_angle |-> NoAxis, lost |-> 0]
NewLog ==
    [completed |-> FALSE, stop_reason |-> "none", frame_count |-> 0, numbering |-> "none",
     first |-> 0, last |-> 0]
NoRow == [status |-> "HOLD", hole |-> 0, numbering |-> "none"]

LiveInit ==
    /\ session \in Sessions /\ recipe_id = "recipe_1"
    /\ core = Service!Blank /\ confirmed = NoVerdict
    /\ adapter = NewAdapter /\ final_check = "none"
    /\ frame_index = 0 /\ turn = "read"
    /\ metadata = NewLog /\ row = NoRow /\ saved = NewLog
    /\ looks = <<>> /\ passed = FALSE /\ where = 0

(* Angles of axes, in 1/1000 degree. *)
WrapHalfPi(x) == ((x + 90000) % 180000) - 90000

\* convert(): smoothed when measured, held for a while when not.
AngleAfter(a, axis) ==
    IF axis # NoAxis
    THEN [mother_angle |-> IF a.mother_angle = NoAxis THEN axis
                           ELSE a.mother_angle + (35 * WrapHalfPi(axis - a.mother_angle)) \div 100,
          lost |-> 0]
    ELSE IF a.mother_angle # NoAxis /\ a.lost < HoldFrames
         THEN [a EXCEPT !.lost = @ + 1]
         ELSE [a EXCEPT !.mother_angle = NoAxis]

\* The issue names the hole by the recipe's number, the picture shows another
\* one if the assembly was read from its other end.
HoleInPicture(hole, numbering) == IF numbering = "mirrored" THEN 6 - hole ELSE hole

\* InspectionService.update(): which candidate is confirmed with the status.
Confirmed(view) ==
    IF core'.status = "HOLD" THEN NoVerdict
    ELSE IF core'.stable THEN [status |-> view.shows, hole |-> view.hole] ELSE confirmed

\* Not the code: the numbering of whatever this frame shows.
FaultyNumbering(view) == IF confirmed' = NoVerdict THEN "none" ELSE view.numbering

\* EvaluationLog.write(): confirmed_hole_numbering.
Numbering(view) ==
    IF confirmed' = NoVerdict THEN "none"
    ELSE IF core'.stable THEN view.numbering ELSE metadata.numbering

Write(view, at) ==
    IF ~session.logging THEN UNCHANGED <<metadata, row>>
    ELSE /\ row' = [status |-> confirmed'.status, hole |-> confirmed'.hole, numbering |-> Numbering(view)]
         /\ metadata' = [metadata EXCEPT !.frame_count = @ + 1, !.numbering = Numbering(view),
                                         !.last = at,
                                         !.first = IF metadata.frame_count = 0 THEN at ELSE @]

\* One frame read and judged; a stable PASS is checked once.
Inspect(view, late) ==
    /\ turn = "read" /\ frame_index < session.length /\ frame_index # session.max_frames
    /\ view.shows \in Service!Showing(core.phase) \cup {"HOLD"}
    /\ (view.numbering = "none") = (view.shows = "HOLD" \/ core.phase = "CHECK_MATERIALS")
    /\ Service!Frame(view.shows)
    /\ confirmed' = Confirmed(view)
    /\ adapter' = AngleAfter(adapter, view.axis)
    /\ final_check' = IF final_check = "none" /\ core'.status = "PASS" /\ core'.stable
                      THEN RECIPE_TO_MODEL[recipe_id] ELSE final_check
    /\ Write(view, frame_index * Dt + late)
    /\ frame_index' = frame_index + 1
    /\ turn' = "key"
    /\ looks' = Append(looks, view.axis)
    /\ passed' = (passed \/ (core'.status = "PASS" /\ core'.stable))
    /\ where' = IF confirmed'.status # "NG" THEN 0
                ELSE IF core'.stable THEN HoleInPicture(view.hole, view.numbering) ELSE where
    /\ UNCHANGED <<session, recipe_id, saved>>

\* The log's __exit__() writes the metadata.
Exit(completed, reason) ==
    /\ turn' = "over"
    /\ metadata' = [metadata EXCEPT !.completed = completed, !.stop_reason = reason]
    /\ saved' = IF session.logging THEN metadata' ELSE saved
    /\ UNCHANGED <<session, recipe_id, core, confirmed, adapter, final_check, frame_index, row,
                   looks, passed, where>>

LimitReached == turn = "read" /\ frame_index = session.max_frames /\ Exit(FALSE, "max_frames")

\* read() ends the video, or fails before its end.
ReadEnds ==
    /\ turn = "read" /\ frame_index # session.max_frames
    /\ LET complete == session.reported > 0 /\ frame_index >= session.reported
       IN Exit(complete, IF complete THEN "eof" ELSE "read_failed_or_unknown_length")

Quit == turn = "key" /\ Exit(FALSE, "user_quit")

\* Time stamps that do not increase, an exception anywhere, Ctrl+C.
Raise == turn # "over" /\ Exit(FALSE, "exception")

\* The process is gone without __exit__().
Killed ==
    /\ turn # "over" /\ turn' = "over"
    /\ UNCHANGED <<session, recipe_id, core, confirmed, adapter, final_check, frame_index,
                   metadata, row, saved, looks, passed, where>>

NoKey ==
    /\ turn = "key" /\ turn' = "read"
    /\ UNCHANGED <<session, recipe_id, core, confirmed, adapter, final_check, frame_index,
                   metadata, row, saved, looks, passed, where>>

\* Not the code: the adapter remembers the last product's angle.
FaultyForget == Service!Restart /\ confirmed' = NoVerdict /\ final_check' = "none" /\ UNCHANGED adapter

Forget == Service!Restart /\ confirmed' = NoVerdict /\ final_check' = "none" /\ adapter' = NewAdapter

\* The keys 1, 2, 3 and n; a log must be of one recipe and one product.
Choose(next) ==
    /\ turn = "key" /\ ~session.logging
    /\ turn' = "read" /\ recipe_id' = next
    /\ Forget
    /\ looks' = <<>> /\ passed' = FALSE /\ where' = 0
    /\ UNCHANGED <<session, frame_index, metadata, row, saved>>

LiveNext ==
    \/ \E view \in Views, late \in {0, 1} : Inspect(view, late)
    \/ LimitReached \/ ReadEnds \/ Quit \/ Raise \/ Killed \/ NoKey
    \/ \E next \in DOMAIN RECIPE_TO_MODEL : Choose(next)

----------------------------------------------------------------------------
(* evaluate_video.py *)

\* cause_matches() for the event that a piece is in the wrong hole.
CauseMatches(hole) == row.status = "NG" /\ HoleInPicture(row.hole, row.numbering) = hole

\* validate(): rows there are, and as many as the metadata says.
Valid == saved.frame_count > 0 /\ saved.frame_count = metadata.frame_count

\* evaluate(): consecutive frames cover the time between them, the last one Dt.
Provisional ==
    ~saved.completed \/ saved.last + Dt - saved.first < session.length * Dt

AxisDistance(x, y) == Abs(WrapHalfPi(x - y))

\* The axes seen since they were last lost for more than HoldFrames frames.
Recent ==
    LET Lost(i) == i > HoldFrames /\ \A k \in (i - HoldFrames)..i : looks[k] = NoAxis
        from == {i \in 0..Len(looks) : i = 0 \/ Lost(i)}
        start == CHOOSE i \in from : \A k \in from : k <= i
    IN {looks[i] : i \in (start + 1)..Len(looks)} \ {NoAxis}

\* What the session keeps between frames is of the product and the recipe it
\* shows: a final check follows a stable PASS since the last key and is held
\* against this recipe, and an angle is kept exactly while the Mother was
\* measured since that key and not lost for too long; it then lies no farther
\* from any such measure than these do from one another, also across the
\* vertical where +90 becomes -90 degrees (live_inspection.py:245, :287,
\* rtdetr_adapter.py:184).
KeptIsOfThisProduct ==
    /\ (final_check # "none") <=> passed
    /\ passed => final_check = RECIPE_TO_MODEL[recipe_id]
    /\ (adapter.mother_angle # NoAxis) <=> (Recent # {})
    /\ (\A x, y \in Recent : AxisDistance(x, y) <= 45000) =>
          \A x \in Recent : \E y, z \in Recent : AxisDistance(adapter.mother_angle, x) <= AxisDistance(y, z)

\* An evaluation reads in the log what happened: the wrong hole it finds in a
\* row is the one in which the confirmed verdict saw the piece, whatever the
\* frame of the row shows and from whichever end it was read; a log of a
\* whole video with a true frame count is accepted; and a log that is accepted
\* and not called provisional holds every frame of the video, though it
\* stopped early, was killed, or was told too small a count
\* (evaluation_log.py:45, evaluate_video.py:31, live_inspection.py:211).
LogTellsTheRun ==
    /\ session.logging =>
          \A hole \in 1..5 : CauseMatches(hole) <=> (confirmed.status = "NG" /\ hole = where)
    /\ (session.logging /\ turn = "over" /\ Valid /\ ~Provisional) => frame_index = session.length
    /\ saved.completed => frame_index >= session.reported /\ Valid
=============================================================================
