------------------------------ MODULE Screens ------------------------------
(***************************************************************************)
(* The way from the camera to the browsers: CameraSource and Hub with the  *)
(* pipeline's loop between them (Pipeline models what it does with a       *)
(* frame; here it only carries the judgement on and applies a reset).      *)
(***************************************************************************)
EXTENDS CameraSource, Hub

CONSTANTS
    Setups,       \* how the station is started and which pages there are:
                  \* records [mode, who], mode one of Modes
    MaxResets     \* bound on the resets of a behaviour

ASSUME SetupsAssumption == {p.mode : p \in Setups} = Modes

VARIABLE
    resets            \* resets so far

vars == <<mode, lpc, position, rewind, atEnd, lastImg, latest, fresh, ipc, inferring,
          result, inferStop, frame, shown, nth, who, last, clients, conn, backlog, stray,
          shows, hasJpeg, event, viewer, current, pool, press, resets>>

Init ==
    /\ \E p \in Setups : mode = p.mode /\ who = p.who
    /\ SourceInit /\ HubInit
    /\ resets = 0

\* One round of _loop: the frame is judged and published.
Publishes(of) ==
    /\ SetLast(of, frame.jpeg)
    /\ lpc' = "schedule"
    /\ UNCHANGED <<mode, inferStop, frame, clients, conn>>

Serve ==
    /\ lpc = "serve"
    /\ Publishes(frame.of)
    /\ backlog' = [i \in DOMAIN backlog |-> Outdated(backlog[i])]
    /\ shows' = [s \in Displays |-> Outdated(shows[s])]
    /\ UNCHANGED resets
    /\ UNCHANGED <<latest, fresh>> /\ UNCHANGED fileVars /\ UNCHANGED inferVars

\* The same with a command that resets the source, applied before the frame
\* is judged: everything captured so far is old from here on.
ServeReset ==
    LET Older(payload) == [of |-> Aged(payload.of), newest |-> FALSE]
    IN  /\ lpc = "serve" /\ resets < MaxResets
        /\ resets' = resets + 1
        /\ SourceReset
        /\ Publishes(Aged(frame.of))
        /\ backlog' = [i \in DOMAIN backlog |-> Older(backlog[i])]
        /\ shows' = [s \in Displays |-> Older(shows[s])]

\* The server is shut down: the loop finds _stop set and leaves its for
\* statement, which closes the generator.
Break ==
    /\ lpc = "serve"
    /\ Close
    /\ UNCHANGED <<mode, latest, fresh, resets>>
    /\ UNCHANGED fileVars /\ UNCHANGED inferVars /\ UNCHANGED hubVars

ScheduleStep ==
    /\ lpc = "schedule"
    /\ lpc' = "capture" /\ frame' = NoFrame
    /\ Schedule
    /\ UNCHANGED <<mode, latest, fresh, inferStop, resets>>
    /\ UNCHANGED fileVars /\ UNCHANGED inferVars

SourceStep ==
    /\ \/ CaptureImage \/ ReadFails \/ VideoEnds \/ Attach
       \/ InferStops \/ InferLooks \/ InferDone
    /\ UNCHANGED resets /\ UNCHANGED hubVars

Browser ==
    \/ \E s \in Displays : Join(s) \/ Greet(s) \/ Vanish(s) \/ Leave(s)
    \/ \E v \in Viewers : Watch(v) \/ WaitTimesOut(v) \/ ShowJpeg(v) \/ StopWatching(v)
    \/ Fanout \/ JobStarts \/ Press \/ PressEnds
BrowserStep == Browser /\ UNCHANGED resets /\ UNCHANGED sourceVars

Loop == Serve \/ ServeReset \/ ScheduleStep
Next == Loop \/ Break \/ SourceStep \/ BrowserStep

(* Fairness: the loop and the inference thread keep running, the event     *)
(* loop runs what it was given, a wait of a second ends, and a camera that *)
(* fails to read delivers again some time.                                 *)
Fairness ==
    /\ WF_vars(Loop)
    /\ WF_vars(SourceStep /\ (CaptureImage \/ VideoEnds \/ Attach))
    /\ SF_vars(SourceStep /\ CaptureImage)
    /\ WF_vars(SourceStep /\ (InferStops \/ InferLooks \/ InferDone))
    /\ WF_vars(BrowserStep /\ Fanout)
    /\ WF_vars(BrowserStep /\ JobStarts)
    /\ WF_vars(BrowserStep /\ PressEnds)
    /\ \A s \in Displays :
           WF_vars(BrowserStep /\ Greet(s))
    /\ \A v \in Viewers :
           WF_vars(BrowserStep /\ (WaitTimesOut(v) \/ ShowJpeg(v)))

Spec == Init /\ [][Next]_vars /\ Fairness

-----------------------------------------------------------------------------
(* Once the event loop has caught up, every screen that was greeted shows   *)
(* the last payload published, however its joining interleaved with the    *)
(* publishing thread (which reads the clients without a lock).             *)
(* server.py:59-64, :91-94.                                                 *)
ScreensCatchUp ==
    lpc # "schedule" /\ backlog = <<>> =>
        \A s \in Displays : conn[s] = "on" /\ Published /\ ~stray => shows[s] = last

(* A product is never shown the judgement of the one before it for good:   *)
(* after the last reset a connected screen gets a judgement of a picture   *)
(* captured after it, unless it leaves or the source ends.  source.py:310-320, :381-396, server.py:58-74. *)
CanJudge == mode.model /\ (IsVideo => mode.length > 0) /\ lpc # "closed"
NewProductReachesScreens ==
    \A s \in Displays :
        (conn[s] = "on" /\ CanJudge /\ resets = MaxResets)
            ~> (shows[s].of = "new" \/ conn[s] # "on" \/ ~CanJudge)

(* The inference thread does not outlive the source: however the generator *)
(* ends, the thread ends too, also out of a running inference.             *)
(* source.py:313, :401-403.                                                 *)
InferenceEnds == (lpc = "closed") ~> (ipc = "ended")

(* A viewer that does not have the last jpeg gets it, although the viewers *)
(* share one event and each clears it for all, and although the jpeg may   *)
(* have been the last one.  server.py:108-113.                              *)
ViewersSeeOn ==
    \A v \in Viewers :
        (viewer[v] # "off" /\ hasJpeg /\ v \notin current)
            ~> (v \in current \/ viewer[v] = "off")

(* A press of [complete] gets a thread of the executor, however many       *)
(* viewers wait on its threads.  server.py:109, :140.                       *)
PressesAreServed == (press = "queued") ~> (press = "running")
=============================================================================
