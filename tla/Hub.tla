-------------------------------- MODULE Hub --------------------------------
(***************************************************************************)
(* web/server.py, class Hub with the handlers that use it: the pipeline    *)
(* thread publishes, the event loop sends to the browsers' websockets and  *)
(* feeds the MJPEG viewers, whose waits share the default thread pool with *)
(* the [complete] handler.  A payload is [of, newest]: which picture its   *)
(* judgement is of (CameraSource's tags) and whether it is the last one    *)
(* published.                                                              *)
(***************************************************************************)
EXTENDS Sequences, FiniteSets, Naturals

CONSTANTS
    Displays,      \* browser pages with a websocket
    Viewers,       \* browser pages that show the MJPEG stream
    Workers,       \* threads of the event loop's default executor
    MaxBacklog     \* bound on the fan-outs scheduled and not yet run

VARIABLES
    who,           \* the pages that come and go in this behaviour
    last,          \* hub.last (NoPayload: nothing published yet)
    clients,       \* hub.clients
    conn,          \* where each screen's ws_endpoint is
    backlog,       \* fan-outs handed to the event loop
    stray,         \* history: the last payload had no client when it was published,
                   \* but an older one was still to be fanned out
    shows,         \* the payload each screen shows
    hasJpeg,       \* hub.last_jpeg is not None
    event,         \* hub.jpeg_event
    viewer,        \* where each viewer's generator is
    current,       \* history: the viewers that have the last jpeg
    pool,          \* jobs waiting for a thread of the executor
    press          \* a press of [complete]: idle, queued or running

hubVars == <<who, last, clients, conn, backlog, stray, shows, hasJpeg, event, viewer,
             current, pool, press>>
wsVars == <<clients, conn, backlog, stray, shows>>
videoVars == <<hasJpeg, event, viewer, current, pool, press>>

NoPayload == [of |-> "none", newest |-> FALSE]
Outdated(payload) == [payload EXCEPT !.newest = FALSE]

HubInit ==
    /\ who \subseteq Displays \cup Viewers
    /\ last = NoPayload
    /\ clients = {} /\ backlog = <<>> /\ stray = FALSE
    /\ conn = [s \in Displays |-> "off"]
    /\ shows = [s \in Displays |-> NoPayload]
    /\ hasJpeg = FALSE /\ event = FALSE
    /\ viewer = [v \in Viewers |-> "off"]
    /\ current = {}
    /\ pool = <<>> /\ press = "idle"

Published == last.newest

\* Mutants: a new page is not sent the last payload; a viewer waits without a
\* timeout; the executor starts the job submitted last.
FaultyGreet(s) ==
    /\ conn[s] = "joined"
    /\ conn' = [conn EXCEPT ![s] = "on"]
    /\ UNCHANGED <<who, last, clients, backlog, stray, shows>> /\ UNCHANGED videoVars
FaultyWaitTimesOut(v) == FALSE /\ UNCHANGED hubVars
FaultyEnqueue(job) == <<job>> \o pool

\* The first half of publish: last, the jpeg, and the event, which wakes
\* every viewer that waits on it.
SetLast(of, jpeg) ==
    /\ last' = [of |-> of, newest |-> TRUE]
    /\ IF jpeg
       THEN /\ hasJpeg' = TRUE /\ event' = TRUE /\ current' = {}
            /\ viewer' = [v \in Viewers |->
                              IF viewer[v] = "waiting" THEN "woken" ELSE viewer[v]]
       ELSE UNCHANGED <<hasJpeg, event, current, viewer>>
    /\ UNCHANGED <<who, pool, press, stray>>

\* The second half: if anyone is connected, a fan-out of this payload.
Schedule ==
    /\ clients # {} => Len(backlog) < MaxBacklog
    /\ backlog' = IF clients # {} THEN Append(backlog, last) ELSE backlog
    /\ stray' = (clients = {} /\ backlog # <<>>)
    /\ UNCHANGED <<who, last, clients, conn, shows>> /\ UNCHANGED videoVars

\* _fanout and the _send tasks it starts; a send to a browser that is gone
\* raises, and the client is discarded.
Fanout ==
    /\ backlog # <<>>
    /\ backlog' = Tail(backlog)
    /\ shows' = [s \in Displays |->
                     IF s \in clients /\ conn[s] # "gone" THEN Head(backlog) ELSE shows[s]]
    /\ clients' = {s \in clients : conn[s] # "gone"}
    /\ UNCHANGED <<who, last, conn, stray>> /\ UNCHANGED videoVars

\* ws_endpoint: join the clients first,
Join(s) ==
    /\ s \in who /\ conn[s] = "off"
    /\ conn' = [conn EXCEPT ![s] = "joined"]
    /\ clients' = clients \cup {s}
    /\ shows' = [shows EXCEPT ![s] = NoPayload]
    /\ UNCHANGED <<who, last, backlog, stray>> /\ UNCHANGED videoVars

\* then send what hub.last holds by now,
Greet(s) ==
    /\ conn[s] = "joined"
    /\ conn' = [conn EXCEPT ![s] = "on"]
    /\ shows' = IF Published THEN [shows EXCEPT ![s] = last] ELSE shows
    /\ UNCHANGED <<who, last, clients, backlog, stray>> /\ UNCHANGED videoVars

\* until the browser goes away and the handler notices it.
Vanish(s) ==
    /\ conn[s] \in {"joined", "on"}
    /\ conn' = [conn EXCEPT ![s] = "gone"]
    /\ UNCHANGED <<who, last, clients, backlog, shows, stray>> /\ UNCHANGED videoVars

Leave(s) ==
    /\ conn[s] = "gone"
    /\ conn' = [conn EXCEPT ![s] = "off"]
    /\ clients' = clients \ {s}
    /\ UNCHANGED <<who, last, backlog, shows, stray>> /\ UNCHANGED videoVars

\* The executor: jobs start in the order they were submitted.
Busy == Cardinality({v \in Viewers : viewer[v] = "waiting"})
            + (IF press = "running" THEN 1 ELSE 0)
Enqueue(job) == Append(pool, job)

JobStarts ==
    /\ pool # <<>> /\ Busy < Workers
    /\ pool' = Tail(pool)
    /\ IF Head(pool) = "press"
       THEN press' = "running" /\ UNCHANGED viewer
       ELSE /\ viewer' = [viewer EXCEPT ![Head(pool)] = IF event THEN "woken" ELSE "waiting"]
            /\ UNCHANGED press
    /\ UNCHANGED <<who, last, hasJpeg, event, current>> /\ UNCHANGED wsVars

\* video / gen: wait for the event, at most a second,
Watch(v) ==
    /\ v \in who /\ viewer[v] = "off"
    /\ viewer' = [viewer EXCEPT ![v] = "queued"]
    /\ pool' = Enqueue(v)
    /\ UNCHANGED <<who, last, hasJpeg, event, current, press>> /\ UNCHANGED wsVars

WaitTimesOut(v) ==
    /\ viewer[v] = "waiting"
    /\ viewer' = [viewer EXCEPT ![v] = "woken"]
    /\ UNCHANGED <<who, last, hasJpeg, event, current, pool, press>> /\ UNCHANGED wsVars

\* clear it for everybody, send the last jpeg, wait again;
ShowJpeg(v) ==
    /\ viewer[v] = "woken"
    /\ event' = FALSE
    /\ current' = IF hasJpeg THEN current \cup {v} ELSE current
    /\ viewer' = [viewer EXCEPT ![v] = "queued"]
    /\ pool' = Enqueue(v)
    /\ UNCHANGED <<who, last, hasJpeg, press>> /\ UNCHANGED wsVars

\* a viewer that closed the page is noticed when it is sent to.
StopWatching(v) ==
    /\ viewer[v] = "woken"
    /\ event' = FALSE
    /\ viewer' = [viewer EXCEPT ![v] = "off"]
    /\ current' = current \ {v}
    /\ UNCHANGED <<who, last, hasJpeg, pool, press>> /\ UNCHANGED wsVars

\* POST /api/complete: pipeline.complete runs on the executor and ends after
\* its own timeout at the latest.
Press ==
    /\ who \cap Viewers # {}
    /\ press = "idle"
    /\ press' = "queued"
    /\ pool' = Enqueue("press")
    /\ UNCHANGED <<who, last, hasJpeg, event, viewer, current>> /\ UNCHANGED wsVars

PressEnds ==
    /\ press = "running"
    /\ press' = "idle"
    /\ UNCHANGED <<who, last, hasJpeg, event, viewer, current, pool>> /\ UNCHANGED wsVars

=============================================================================
