---------------------------- MODULE CameraSource ----------------------------
(***************************************************************************)
(* web/source.py, class CameraSource in its threaded mode: the pipeline's  *)
(* loop thread pulls frames out of the generator frames(), an inference    *)
(* thread works on the latest picture only, and each frame carries the     *)
(* last result there is.  A picture is known by when it was captured:      *)
(* "new" after the last reset of the source, "old" before it.  A video     *)
(* file is Length pictures at positions 0 .. Length - 1.                   *)
(***************************************************************************)
EXTENDS Integers, FiniteSets

CONSTANTS
    Modes       \* [kind, end, length, model]: camera or video file, video_end,
                \* the pictures of the file, and whether there is a detector

ASSUME ModesAssumption ==
    Modes \subseteq [kind : {"camera", "video"}, end : {"hold", "loop", "stop"},
                     length : Nat, model : BOOLEAN]

VARIABLES
    mode,       \* how this source was started
    lpc,        \* where the loop thread is
    position,   \* the picture of the file that the next read returns
    rewind,     \* _rewind
    atEnd,      \* at_end
    lastImg,    \* _last_img: its position in the file, or NoImage
    latest,     \* _latest: when its picture was captured
    fresh,      \* the inference thread has not taken _latest yet
    ipc,        \* where the inference thread is
    inferring,  \* the picture it works on
    result,     \* _result: the picture it is of, whether detections or an error
    inferStop,  \* _infer_stop
    frame,      \* the frame yielded to the pipeline, with its jpeg or without
    shown,      \* history: the position of the picture captured last
    nth         \* history: pictures since the last reset, wrapped by file length

sourceVars == <<mode, lpc, position, rewind, atEnd, lastImg, latest, fresh, ipc,
                inferring, result, inferStop, frame, shown, nth>>
fileVars == <<position, rewind, atEnd, lastImg, shown, nth>>
inferVars == <<ipc, inferring, result>>

NoImage == -1
NoFrame == [of |-> "none", jpeg |-> FALSE]

\* What a tag becomes when the source is reset.
Aged(tag) == IF tag = "new" THEN "old" ELSE tag

IsVideo == mode.kind = "video"

\* _start_infer_thread(): with a detector only.
InferStart == IF mode.model THEN "look" ELSE "ended"

-----------------------------------------------------------------------------
SourceInit ==
    /\ mode \in Modes
    /\ lpc = "capture"
    /\ position = 0 /\ rewind = FALSE /\ atEnd = FALSE /\ lastImg = NoImage
    /\ latest = "none" /\ fresh = FALSE
    /\ ipc = InferStart
    /\ inferring = "none" /\ result = "none" /\ inferStop = FALSE
    /\ frame = NoFrame
    /\ shown = NoImage /\ nth = 0

\* Mutants (each the definition after it with a plausible bug): the rewind is
\* marked as done without seeking; "at end" outlives the rewind; closing leaves the inference thread running; an
\* exception ends the inference thread.
FaultyRewound == position
FaultyClose == lpc' = "closed" /\ UNCHANGED inferStop /\ frame' = NoFrame
FaultyInferDone ==
    /\ ipc = "busy"
    /\ ipc' \in {"look", "ended"}
    /\ result' = inferring /\ inferring' = "none"
    /\ UNCHANGED <<mode, lpc, latest, fresh, inferStop, frame>>
    /\ UNCHANGED fileVars

\* The position of the next read once a pending rewind is carried out.
Rewound == IF rewind THEN 0 ELSE position
AtEOF == IsVideo /\ Rewound = mode.length

\* The generator returns, is closed by the loop's break, or dies with it:
\* its finally stops the inference thread and releases the capture.
Close == lpc' = "closed" /\ inferStop' = TRUE /\ frame' = NoFrame

\* --video-end stop: a read past the last picture ends the generator.
VideoEnds ==
    /\ lpc = "capture" /\ AtEOF /\ mode.end = "stop"
    /\ Close
    /\ rewind' = FALSE
    /\ atEnd' = (atEnd /\ ~rewind)
    /\ UNCHANGED <<mode, position, lastImg, latest, fresh, shown, nth>>
    /\ UNCHANGED inferVars

\* Past the last picture: the last one again (hold), or from the start.
Holding == AtEOF /\ mode.end = "hold" /\ lastImg # NoImage
FaultyAtEndNext == Holding \/ atEnd
AtEndNext == Holding \/ (atEnd /\ ~rewind)
Picture == IF Holding THEN lastImg ELSE IF AtEOF THEN 0 ELSE Rewound

ReadVideo ==
    /\ IsVideo /\ mode.length > 0
    /\ ~(AtEOF /\ mode.end = "stop")
    /\ position' = IF Holding THEN Rewound ELSE Picture + 1
    /\ atEnd' = AtEndNext
    /\ rewind' = FALSE
    /\ lastImg' = Picture /\ shown' = Picture
    /\ nth' = IF nth = 2 * mode.length THEN mode.length + 1 ELSE nth + 1

ReadCamera == ~IsVideo /\ UNCHANGED fileVars

\* A picture: with a detector it becomes _latest, and the frame's detections
\* are attached in the next step; without one the frame has none.
CaptureImage ==
    /\ lpc = "capture"
    /\ ReadCamera \/ ReadVideo
    /\ IF mode.model
       THEN /\ latest' = "new" /\ fresh' = TRUE
            /\ lpc' = "attach" /\ UNCHANGED frame
       ELSE /\ frame' = [of |-> "none", jpeg |-> TRUE]
            /\ lpc' = "serve" /\ UNCHANGED <<latest, fresh>>
    /\ UNCHANGED <<mode, inferStop>> /\ UNCHANGED inferVars

\* _reopen(): a file is read from its first picture again.
Reopened == position' = 0

\* No picture: an invalid frame without a jpeg, and the capture is reopened.
ReadFails ==
    /\ lpc = "capture"
    /\ IsVideo => (mode.length = 0 /\ mode.end # "stop")
    /\ frame' = NoFrame
    /\ lpc' = "serve"
    /\ Reopened
    /\ rewind' = (rewind /\ ~IsVideo) /\ atEnd' = (atEnd /\ ~rewind)
    /\ UNCHANGED <<mode, lastImg, latest, fresh, inferStop, shown, nth>>
    /\ UNCHANGED inferVars

\* The last result is read without the lock and attached to this frame.
Attach ==
    /\ lpc = "attach"
    /\ frame' = [of |-> result, jpeg |-> TRUE]
    /\ lpc' = "serve"
    /\ UNCHANGED <<mode, latest, fresh, inferStop>>
    /\ UNCHANGED fileVars /\ UNCHANGED inferVars

\* _infer_loop: stopped, or takes the latest picture if it is another one,
InferStops ==
    /\ ipc = "look" /\ inferStop
    /\ ipc' = "ended"
    /\ UNCHANGED <<mode, lpc, latest, fresh, inferring, result, inferStop, frame>>
    /\ UNCHANGED fileVars

InferLooks ==
    /\ ipc = "look" /\ ~inferStop /\ fresh
    /\ ipc' = "busy" /\ inferring' = latest /\ fresh' = FALSE
    /\ UNCHANGED <<mode, lpc, latest, result, inferStop, frame>>
    /\ UNCHANGED fileVars

\* and stores what it found; after an exception that is an invalid, empty
\* result of the same picture, and the thread goes on.
InferDone ==
    /\ ipc = "busy"
    /\ ipc' = "look"
    /\ result' = inferring
    /\ inferring' = "none"
    /\ UNCHANGED <<mode, lpc, latest, fresh, inferStop, frame>>
    /\ UNCHANGED fileVars

\* reset(recipe): a file is rewound before the next read.  What is in flight
\* (_latest, the inference, _result, this frame) is left as it is: it is now old.
SourceReset ==
    /\ rewind' = IF IsVideo THEN TRUE ELSE rewind
    /\ latest' = Aged(latest) /\ inferring' = Aged(inferring)
    /\ result' = Aged(result)
    /\ nth' = 0
    /\ UNCHANGED <<position, atEnd, lastImg, fresh, ipc, shown>>

-----------------------------------------------------------------------------
(* A new job plays the video from its first picture, in order and without   *)
(* a gap, whenever the reset came: the nth picture captured since then is   *)
(* picture nth - 1; past the end it is the last one (hold) or it wraps      *)
(* (loop).  And the screen's "video at end" is on exactly while a held      *)
(* picture is shown again: it never survives the first picture after a      *)
(* reset and never comes on in another mode.  source.py:233, :347-363.      *)
PlaysFromStart ==
    IsVideo /\ nth > 0 =>
        /\ shown = CASE mode.end = "hold" -> (IF nth > mode.length THEN mode.length ELSE nth) - 1
                     [] mode.end = "loop" -> (nth - 1) % mode.length
                     [] mode.end = "stop" -> nth - 1
        /\ atEnd <=> (mode.end = "hold" /\ nth > mode.length)
=============================================================================
