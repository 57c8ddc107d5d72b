------------------------------ MODULE Records ------------------------------
(* What store.py keeps of one product, from the events of the core to the  *)
(* summary that the history, the analysis and the MES read, and the rows   *)
(* it keeps per minute of the frames.                                      *)
EXTENDS Integers, Sequences, SequencesExt, FiniteSets

CONSTANTS
    Verdicts,     \* verdicts that can be shown: [phase, status, issues]
    MaxEvents,    \* bound: events of one product
    MaxMinutes,   \* bound: minutes
    MaxFrames     \* bound: frames in one minute

ASSUME RecordsAssumption == MaxMinutes \in Nat \ {0} /\ MaxFrames \in Nat

\* An NG has a reason that is not only something missing, and materials are
\* counted without holes (evaluator.py, materials.py).
ASSUME VerdictsAssumption ==
    \A v \in Verdicts :
        /\ IsFiniteSet(v.issues)
        /\ v.status = "NG" => \E issue \in v.issues : ~issue.missing
        /\ v.phase = "CHECK_MATERIALS" => \A issue \in v.issues : issue.hole = 0

VARIABLES
    phase,    \* the core's
    events,   \* rows of the product's events
    product,  \* [result, ng, material_ng, hold, first_pass]
    minute,   \* the clock
    bucket,   \* _bucket
    rows,     \* the metrics table: minute |-> frames
    frames,   \* what was really there: minute |-> frames
    ended     \* close_run() was called

records == <<phase, events, product, minute, bucket, rows, frames, ended>>

OpenProduct == [result |-> "OPEN", ng |-> 0, material_ng |-> 0, hold |-> 0, first_pass |-> 0]
NoBucket == [minute |-> 0, frames |-> 0]

RecordsInit ==
    /\ phase = "CHECK_MATERIALS" /\ events = <<>> /\ product = OpenProduct
    /\ minute = 1 /\ bucket = NoBucket
    /\ rows = [m \in 1..MaxMinutes |-> 0] /\ frames = [m \in 1..MaxMinutes |-> 0]
    /\ ended = FALSE

\* A row is told in one phase and may begin another.
Event(type, evaluated, status, issues) ==
    [type |-> type, evaluated |-> evaluated, status |-> status, issues |-> issues,
     phase |-> IF type = "ASSEMBLY_STARTED" THEN "ASSEMBLING" ELSE evaluated]

\* What the core shows, and therefore has told, last.
Shown == IF events = <<>> THEN Event("none", "CHECK_MATERIALS", "HOLD", {}) ELSE Last(events)

\* record(): the row of a changed verdict, which can be the same status for
\* other reasons.
RecordChange(v) ==
    /\ product.result = "OPEN" /\ Len(events) < MaxEvents
    /\ v.phase = phase /\ <<Shown.status, Shown.issues>> # <<v.status, v.issues>>
    /\ events' = Append(events, Event("STATUS_CHANGED", phase, v.status, v.issues))
    /\ UNCHANGED <<phase, product, minute, bucket, rows, frames, ended>>

RecordStart ==
    /\ product.result = "OPEN" /\ Len(events) < MaxEvents /\ phase = "CHECK_MATERIALS"
    /\ phase' = "ASSEMBLING"
    /\ events' = Append(events, Event("ASSEMBLY_STARTED", phase, "HOLD", {}))
    /\ UNCHANGED <<product, minute, bucket, rows, frames, ended>>

\* One turn of the loop in close_product(); before stands for prev and
\* prev_non_hold.
Fresh == [any |-> "none", judged |-> "none"]
\* Not the code: what was shown before the gate still counts after it.
FaultyCountEvent(n, e) ==
    IF e.type = "ASSEMBLY_STARTED" THEN n
    ELSE LET ng == e.status = "NG" /\ n.before.judged # "NG" IN
         [hold |-> n.hold + (IF e.status = "HOLD" /\ n.before.any # "HOLD" THEN 1 ELSE 0),
          ng |-> n.ng + (IF ng /\ e.evaluated = "ASSEMBLING" THEN 1 ELSE 0),
          material_ng |-> n.material_ng + (IF ng /\ e.evaluated # "ASSEMBLING" THEN 1 ELSE 0),
          before |-> [any |-> e.status,
                      judged |-> IF e.status # "HOLD" THEN e.status ELSE n.before.judged]]

CountEvent(n, e) ==
    IF e.type = "ASSEMBLY_STARTED" THEN [n EXCEPT !.before = Fresh]
    ELSE LET ng == e.status = "NG" /\ n.before.judged # "NG" IN
         [hold |-> n.hold + (IF e.status = "HOLD" /\ n.before.any # "HOLD" THEN 1 ELSE 0),
          ng |-> n.ng + (IF ng /\ e.evaluated = "ASSEMBLING" THEN 1 ELSE 0),
          material_ng |-> n.material_ng + (IF ng /\ e.evaluated # "ASSEMBLING" THEN 1 ELSE 0),
          before |-> [any |-> e.status,
                      judged |-> IF e.status # "HOLD" THEN e.status ELSE n.before.judged]]

Closing == [COMPLETED |-> "PRODUCT_COMPLETED", ABANDONED |-> "PRODUCT_ABANDONED"]

CloseProduct(result) ==
    LET n == FoldLeft(LAMBDA count, e : CountEvent(count, e),
                      [hold |-> 0, ng |-> 0, material_ng |-> 0, before |-> Fresh], events)
    IN /\ product.result = "OPEN"
       /\ product' = [result |-> result, ng |-> n.ng, material_ng |-> n.material_ng, hold |-> n.hold,
                      first_pass |-> IF result = "COMPLETED" /\ n.ng = 0 /\ n.material_ng = 0
                                     THEN 1 ELSE 0]
       /\ events' = Append(events, Event(Closing[result], Shown.phase, Shown.status, {}))
       /\ UNCHANGED <<phase, minute, bucket, rows, frames, ended>>

\* The issues of the rows of a status, as event_issues holds them.
IssuesOf(status) ==
    UNION {{[row |-> i, issue |-> issue] : issue \in events[i].issues} :
              i \in {j \in DOMAIN events : events[j].status = status}}

\* ng_codes(): the reasons of every NG that was shown.
NgCodes == {issue \in {x.issue : x \in IssuesOf("NG")} : ~issue.missing}

\* pareto(): how often the code of an issue is among those of an NG.
Pareto(evaluated, code) ==
    Cardinality({x \in IssuesOf("NG") : events[x.row].evaluated = evaluated /\ x.issue.code = code})

\* heatmap()
Heatmap(hole) == Cardinality({x \in IssuesOf("NG") : x.issue.hole = hole})

\* hold_reasons()
HoldReasons == {x.issue.code : x \in IssuesOf("HOLD")}

\* recovery(): for every assembly NG the next row that is no HOLD, LEAD() of
\* the window query; a row is the pair of their places.
Recoveries ==
    LET judged == {i \in DOMAIN events : /\ events[i].evaluated = "ASSEMBLING"
                                         /\ events[i].type = "STATUS_CHANGED"
                                         /\ events[i].status # "HOLD"}
    IN {p \in judged \X judged : /\ events[p[1]].status = "NG" /\ p[1] < p[2]
                                 /\ \A k \in judged : ~(p[1] < k /\ k < p[2])}

\* percentile(): the place in the sorted list of n, round() to the even one.
Rank(p, n) ==
    LET x == p * n + 50
        up == 2 * (x % 100) > 100 \/ (x % 100 = 50 /\ (x \div 100) % 2 = 1)
        k == x \div 100 + (IF up THEN 1 ELSE 0)
    IN IF k < 1 THEN 1 ELSE IF k > n THEN n ELSE k

\* Not the code: the row of the minute that has begun.
FaultyFlush == [rows EXCEPT ![minute] = bucket.frames]

\* flush_metrics(): the row of the minute is replaced.
Flush == [rows EXCEPT ![bucket.minute] = bucket.frames]

\* frame(): a frame of another minute writes the old one first.
CountFrame ==
    /\ ~ended /\ frames[minute] < MaxFrames
    /\ frames' = [frames EXCEPT ![minute] = @ + 1]
    /\ IF bucket.minute = minute
       THEN bucket' = [bucket EXCEPT !.frames = @ + 1] /\ rows' = rows
       ELSE /\ bucket' = [minute |-> minute, frames |-> 1]
            /\ rows' = IF bucket = NoBucket THEN rows ELSE Flush
    /\ UNCHANGED <<phase, events, product, minute, ended>>

NextMinute ==
    /\ minute < MaxMinutes /\ minute' = minute + 1
    /\ UNCHANGED <<phase, events, product, bucket, rows, frames, ended>>

\* close_run(), after the loop has ended.
CloseRun ==
    /\ ~ended /\ product.result # "OPEN"
    /\ ended' = TRUE /\ bucket' = NoBucket
    /\ rows' = IF bucket = NoBucket THEN rows ELSE Flush
    /\ UNCHANGED <<phase, events, product, minute, frames>>

RecordsNext ==
    \/ \E v \in Verdicts : RecordChange(v)
    \/ RecordStart
    \/ \E result \in {"COMPLETED", "ABANDONED"} : CloseProduct(result)
    \/ CountFrame
    \/ NextMinute
    \/ CloseRun

RecordsSpec == RecordsInit /\ [][RecordsNext]_records

----------------------------------------------------------------------------

\* Where the verdicts of one phase are, and those among them that judge.
Telling(evaluated) ==
    {i \in DOMAIN events : events[i].type = "STATUS_CHANGED" /\ events[i].evaluated = evaluated}
Judges(evaluated) == {i \in Telling(evaluated) : events[i].status # "HOLD"}

\* The place before i, if there is one.
Before(places, i) == {k \in places : k < i /\ \A j \in places : j < i => j <= k}

\* How many unbroken stretches of a status there are in some places.
Stretches(places, status) ==
    Cardinality({i \in places : /\ events[i].status = status
                                /\ \A k \in Before(places, i) : events[k].status # status})

\* What was judged last is a status.
Stays(places, status) == \E i \in places : events[i].status = status /\ \A k \in places : k <= i

Codes == {issue.code : issue \in UNION {v.issues : v \in Verdicts}}

\* A closed product's counts are those of the stretches in which NG, or HOLD,
\* was on the screen in each phase, a HOLD in between not ending an NG and
\* the HOLD of the gate not being one, and so not those of the events in which the
\* status turned NG, as the column's comment has it (schema.sql:37); it is a first pass exactly if it is
\* finished and no NG was ever told, so that the MES is sent no NG codes
\* with it; the analysis has a bar for a phase, and heat in a hole, if and
\* only if an NG of the phase was counted, and one named the hole; recovery() gives a
\* time for every row that told an assembly NG, a row that only gives an NG other
\* reasons included, but one that still stood in the end, each until the next row, an NG
\* too, not until IN_PROGRESS or PASS as it says of itself; as many of them as NGs were
\* counted, but one that still stood, do lead to one of these two.  The
\* row that closes the product repeats its last status and counts for nothing
\* (store.py:154, :173, :195, :331, :350).
SummaryTellsTheEvents ==
    product.result # "OPEN" =>
        LET assembly  == Judges("ASSEMBLING")
            materials == Judges("CHECK_MATERIALS")
        IN /\ product.ng = Stretches(assembly, "NG")
           /\ product.material_ng = Stretches(materials, "NG")
           /\ product.hold = Stretches(Telling("ASSEMBLING"), "HOLD")
                             + Stretches(Telling("CHECK_MATERIALS"), "HOLD")
           /\ (product.first_pass = 1) <=> (product.result = "COMPLETED" /\ NgCodes = {})
           /\ product.ng > 0 <=> \E code \in Codes : Pareto("ASSEMBLING", code) > 0
           /\ product.material_ng > 0 <=> \E code \in Codes : Pareto("CHECK_MATERIALS", code) > 0
           /\ \A hole \in 1..5 :
                 Heatmap(hole) > 0 <=> \E i \in assembly :
                                           /\ events[i].status = "NG"
                                           /\ \E issue \in events[i].issues : issue.hole = hole
           /\ HoldReasons # {} => product.hold > 0
           /\ LET standing == IF Stays(assembly, "NG") THEN 1 ELSE 0
              IN /\ Cardinality(Recoveries)
                       = Cardinality({i \in assembly : events[i].status = "NG"}) - standing
                 /\ Cardinality({p \in Recoveries : events[p[2]].status # "NG"}) = product.ng - standing

\* What percentile() picks is within one of what it says: p in 100 values are
\* not above it, and no more are below it.
RanksAreNear ==
    \A n \in 1..60, p \in {10, 50, 90, 95} : p * n <= 100 * Rank(p, n) /\ 100 * (Rank(p, n) - 1) <= p * n

\* No frame is lost between the minutes: every frame of the run is in the row
\* of its minute or still in the bucket, and once the run is closed in a row
\* (store.py:265 replaces the row, so one minute must not be written twice);
\* and the times the row gives of them are near the percentiles (store.py:72).
FramesAreCounted ==
    /\ RanksAreNear
    /\ \A m \in 1..MaxMinutes :
          rows[m] + (IF bucket.minute = m THEN bucket.frames ELSE 0) = frames[m]
    /\ ended => bucket = NoBucket
=============================================================================
