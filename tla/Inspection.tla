----------------------------- MODULE Inspection -----------------------------
(***************************************************************************)
(* The judgement core: InspectionService.update feeds each frame's         *)
(* evaluation to the StateMachine, whose TemporalFilter decides when a     *)
(* candidate has been seen long enough to become the confirmed verdict.    *)
(*                                                                         *)
(* Detections, geometry and the two evaluators are pure functions of one   *)
(* frame.  Here a frame carries what they return: a candidate of the       *)
(* current phase, or Hold when the frame gives no usable observation       *)
(* (INPUT_UNAVAILABLE, MOTHER_NOT_FOUND, MULTIPLE_MOTHERS, a pose error,   *)
(* AMBIGUOUS_ASSOCIATION).  Issue lists are opaque values.                 *)
(***************************************************************************)
EXTENDS Integers, Sequences

CONSTANTS
  MaterialShortages,   \* issue lists of MATERIAL_MISSING only
  MaterialErrors,      \* issue lists with MATERIAL_UNEXPECTED or MATERIAL_EXCESS
  AssemblyShortages,   \* issue lists of MISSING_BOLT / MISSING_PART only
  AssemblyErrors,      \* issue lists with a wrong, extra or misplaced component
  NoIssues,            \* the empty issue list
  None,                \* Python's None
  MaterialDuration,    \* config material_stable_duration_ms
  StableDuration,      \* config stable_duration_ms
  MaxFrameGap,         \* config max_frame_gap_ms
  MaxFrameId,          \* bound: frame ids offered
  MaxTimestamp         \* bound: capture timestamps offered

Candidate(s, issues) == [status |-> s, issues |-> issues]

Hold == Candidate("HOLD", NoIssues)

\* What evaluate_materials can return for a frame.
MaterialCandidates ==
  {Candidate("READY", NoIssues)}
    \union {Candidate("IN_PROGRESS", i) : i \in MaterialShortages}
    \union {Candidate("NG", i) : i \in MaterialErrors}

\* What evaluate / evaluate_symmetric can return for a frame.
AssemblyCandidates ==
  {Candidate("PASS", NoIssues)}
    \union {Candidate("IN_PROGRESS", i) : i \in AssemblyShortages}
    \union {Candidate("NG", i) : i \in AssemblyErrors}

Phases == {"CHECK_MATERIALS", "ASSEMBLING"}

Evaluations(p) == IF p = "CHECK_MATERIALS" THEN MaterialCandidates ELSE AssemblyCandidates

Candidates == MaterialCandidates \union AssemblyCandidates

\* load_config insists on positive durations and a positive gap.
ASSUME ConfigAssumption ==
  /\ MaterialDuration \in Nat \ {0}
  /\ StableDuration \in Nat \ {0}
  /\ MaxFrameGap \in Nat \ {0}

ASSUME BoundAssumption == MaxFrameId \in Nat /\ MaxTimestamp \in Nat

\* What an update returns to its caller.
Snapshots ==
  [status : {"HOLD", "READY", "IN_PROGRESS", "NG", "PASS"}, candidate : Candidates \union {Hold},
   confirmed : Candidates \union {None}, stable : BOOLEAN, phase : Phases, evaluated_phase : Phases]

ASSUME NoneAssumption == None \notin Candidates \union {Hold} \union Snapshots

VARIABLES
  phase, status, confirmed,      \* StateMachine
  filter,                        \* StateMachine.filter, a TemporalFilter
  last_id, last_timestamp,       \* InspectionService: last frame accepted in order
  event_sequence,                \* InspectionService: events since reset
  snapshot,                      \* what the last update since reset returned
  told,                          \* history: the verdict the events so far describe
  trail                          \* history: the frames since the last interruption

machine == <<phase, status, confirmed, filter>>
vars == <<machine, last_id, last_timestamp, event_sequence, snapshot, told, trail>>

-----------------------------------------------------------------------------
(* TemporalFilter                                                          *)

\* TemporalFilter.reset; key, since and previous are meaningless at count 0.
EmptyFilter(d) == [duration |-> d, key |-> None, since |-> 0, previous |-> 0, count |-> 0]

\* Operators named Faulty... are not the code: each is a plausible mistake in the
\* definition that follows it, which a property below must notice.
FaultyRestarts(f, c, ts) ==
  f.count = 0 \/ c.status # f.key.status \/ ts - f.previous > MaxFrameGap

\* Another candidate, or a gap since the previous frame, restarts the count.
Restarts(f, c, ts) == c # f.key \/ (f.count > 0 /\ ts - f.previous > MaxFrameGap)

FaultyFiltered(f, c, ts) ==
  IF c.status = "HOLD"
    THEN EmptyFilter(f.duration)
    ELSE [duration |-> f.duration, key |-> c, previous |-> ts,
          since |-> IF f.count = 0 THEN ts ELSE f.since, count |-> f.count + 1]

\* The filter after update(candidate, timestamp_ms).
Filtered(f, c, ts) ==
  IF c.status = "HOLD"
    THEN EmptyFilter(f.duration)
    ELSE [duration |-> f.duration, key |-> c, previous |-> ts,
          since |-> IF Restarts(f, c, ts) THEN ts ELSE f.since,
          count |-> IF Restarts(f, c, ts) THEN 1 ELSE f.count + 1]

\* What that update returns.
IsStable(f, c, ts) ==
  LET g == Filtered(f, c, ts)
  IN  c.status # "HOLD" /\ g.count >= 2 /\ ts - g.since >= g.duration
-----------------------------------------------------------------------------
(* StateMachine.update                                                     *)

Invalidate(c) ==
  /\ c.status = "HOLD"
  /\ status' = "HOLD" /\ confirmed' = None
  /\ UNCHANGED phase

FaultyOpensGate(c) == phase = "CHECK_MATERIALS" /\ c.status \in {"READY", "IN_PROGRESS"}

\* A stable READY opens the gate: a fresh filter, no verdict yet.
OpensGate(c) == phase = "CHECK_MATERIALS" /\ c.status = "READY"

FaultyStartAssembly(c, stable) ==
  /\ stable /\ OpensGate(c)
  /\ phase' = "ASSEMBLING" /\ status' = c.status /\ confirmed' = c

StartAssembly(c, stable) ==
  /\ stable /\ OpensGate(c)
  /\ phase' = "ASSEMBLING" /\ status' = "HOLD" /\ confirmed' = None

Confirm(c, stable) ==
  /\ stable /\ ~OpensGate(c)
  /\ status' = c.status /\ confirmed' = c
  /\ UNCHANGED phase

\* During a transient the last confirmed verdict stays on display.
Retain(c, stable) ==
  /\ c.status # "HOLD" /\ ~stable
  /\ UNCHANGED <<phase, status, confirmed>>

FaultyStateMachineUpdate(c, ts, stable) ==
  /\ \/ Invalidate(c)
     \/ StartAssembly(c, stable)
     \/ Confirm(c, stable)
     \/ Retain(c, stable)
  /\ filter' = IF stable /\ OpensGate(c) THEN [Filtered(filter, c, ts) EXCEPT !.duration = StableDuration]
                                         ELSE Filtered(filter, c, ts)

StateMachineUpdate(c, ts, stable) ==
  /\ \/ Invalidate(c)
     \/ StartAssembly(c, stable)
     \/ Confirm(c, stable)
     \/ Retain(c, stable)
  /\ filter' = IF stable /\ OpensGate(c) THEN EmptyFilter(StableDuration)
                                         ELSE Filtered(filter, c, ts)

Changed == <<phase, status, confirmed>>' # <<phase, status, confirmed>>
-----------------------------------------------------------------------------
(* InspectionService                                                       *)

InOrder(id, ts) == id > last_id /\ ts > last_timestamp

FaultyFrameGap(ts) == last_timestamp >= 0 /\ ts - last_timestamp > 2 * MaxFrameGap

FrameGap(ts) == last_timestamp >= 0 /\ ts - last_timestamp > MaxFrameGap

\* Any reason at all replaces the evaluation by HOLD.
Judged(id, ts, seen) == IF InOrder(id, ts) /\ ~FrameGap(ts) THEN seen ELSE Hold

AcceptFrame(id, ts) ==
  IF InOrder(id, ts) THEN last_id' = id /\ last_timestamp' = ts
                     ELSE UNCHANGED <<last_id, last_timestamp>>

EmitEvents ==
  IF Changed
    THEN /\ event_sequence' = event_sequence + 1
         /\ told' = [phase |-> phase', status |-> status', confirmed |-> confirmed']
    ELSE UNCHANGED <<event_sequence, told>>

\* History only.  The trail lists the frames received in order, each with the
\* phase it was examined in and what it showed.  A frame that shows nothing
\* usable, or is out of order, leaves only itself (dated by the newest frame).
Interrupts(id, ts, seen) == seen = Hold \/ id <= last_id \/ ts <= last_timestamp

Watch(id, ts, seen) ==
  trail' = IF ~Interrupts(id, ts, seen)
             THEN Append(trail, [phase |-> phase, candidate |-> seen, at |-> ts])
             ELSE <<[phase |-> phase, candidate |-> Hold,
                     at |-> IF InOrder(id, ts) THEN ts ELSE last_timestamp]>>

Update(id, ts, seen) ==
  LET c      == Judged(id, ts, seen)
      stable == IsStable(filter, c, ts)
  IN  /\ StateMachineUpdate(c, ts, stable)
      /\ AcceptFrame(id, ts)
      /\ EmitEvents
      /\ snapshot' = [status |-> status', candidate |-> c, confirmed |-> confirmed',
                      stable |-> stable, phase |-> phase', evaluated_phase |-> phase]
      /\ Watch(id, ts, seen)

\* InspectionService.reset, with or without a new recipe.
Reset ==
  /\ phase' = "CHECK_MATERIALS" /\ status' = "HOLD" /\ confirmed' = None
  /\ filter' = EmptyFilter(MaterialDuration)
  /\ last_id' = -1 /\ last_timestamp' = -1
  /\ event_sequence' = 0
  /\ snapshot' = None
  /\ told' = [phase |-> phase', status |-> status', confirmed |-> confirmed']
  /\ trail' = <<>>

Init ==
  /\ phase = "CHECK_MATERIALS" /\ status = "HOLD" /\ confirmed = None
  /\ filter = EmptyFilter(MaterialDuration)
  /\ last_id = -1 /\ last_timestamp = -1
  /\ event_sequence = 0
  /\ snapshot = None
  /\ told = [phase |-> phase, status |-> status, confirmed |-> confirmed]
  /\ trail = <<>>

Next ==
  \/ \E id \in 0..MaxFrameId, ts \in 0..MaxTimestamp :
        \E seen \in Evaluations(phase) \union {Hold} : Update(id, ts, seen)
  \/ Reset

Spec == Init /\ [][Next]_vars
-----------------------------------------------------------------------------
(* Properties                                                              *)

Times == 0..MaxTimestamp

TrailEntry == [phase : Phases, candidate : Candidates \union {Hold}, at : Times]

\* Type invariant.  In particular the confirmed verdict and the displayed status
\* always agree, READY is never displayed, and the filter's key is a candidate
\* the current phase can produce.
TypeOK ==
  /\ phase \in Phases
  /\ confirmed \in {None} \union (Evaluations(phase) \ {Candidate("READY", NoIssues)})
  /\ status = IF confirmed = None THEN "HOLD" ELSE confirmed.status
  /\ filter \in [duration : {MaterialDuration, StableDuration}, key : Candidates \union {None},
                  since : Times, previous : Times, count : Nat]
  /\ filter.count > 0 => filter.key \in Evaluations(phase)
  /\ last_id \in -1..MaxFrameId /\ last_timestamp \in -1..MaxTimestamp
  /\ last_id = -1 <=> last_timestamp = -1
  /\ event_sequence \in Nat
  /\ trail \in Seq(TrailEntry)

Duration(p) == IF p = "CHECK_MATERIALS" THEN MaterialDuration ELSE StableDuration

\* The frame at position i of trail t followed its predecessor in time.
Timely(t, i) == i = 1 \/ t[i].at - t[i-1].at \in 1..MaxFrameGap

\* Positions a..b of trail t are one uninterrupted observation of one candidate.
Run(t, a, b) ==
  /\ t[b].candidate # Hold
  /\ \A i \in a..b : /\ t[i].candidate = t[b].candidate
                      /\ t[i].phase = t[b].phase
                      /\ Timely(t, i)

\* The frames of t up to position b are evidence enough for what frame b shows.
Supported(t, b) ==
  \E a \in 1..b : Run(t, a, b) /\ t[b].at - t[a].at >= Duration(t[b].phase)

\* "stable" is reported exactly when the frames received since the last
\* interruption show the same candidate, in the same phase, without a frame gap,
\* for that phase's duration (temporal.py:16-25, inspection_service.py:29-36):
\* a filter that forgets to restart reports it too early, one that restarts
\* needlessly or keeps the material duration reports it too late.
StableIffSupported ==
  snapshot # None => (snapshot.stable <=> trail # <<>> /\ Supported(trail, Len(trail)))

\* Frame i neither interrupted the view nor supported a verdict of its own.
Transient(t, i) == Timely(t, i) /\ t[i].candidate # Hold /\ ~Supported(t, i)

\* Frame b supports a verdict in phase p, and only transients follow it.
LastSupported(t, p, b) ==
  /\ t[b].phase = p /\ Supported(t, b)
  /\ \A i \in (b + 1)..Len(t) : Transient(t, i)

\* The confirmed verdict is always the last one the unbroken trail supports in
\* the current phase, and there is none when it supports none: nothing survives
\* a frame gap, a replayed frame, an unusable frame, the gate or a reset, and a
\* short transient takes nothing away (state_machine.py:18-27).
VerdictIsLastSupported ==
  LET last == {b \in 1..Len(trail) : LastSupported(trail, phase, b)}
  IN  IF confirmed = None THEN last = {}
                          ELSE \E b \in last : trail[b].candidate = confirmed

\* Filter f holds the longest run that ends trail t in phase p, and nothing when
\* the last frame is no evidence in p.
Matches(f, t, p) ==
  LET n == Len(t)
      a == n - f.count + 1
      Evidence(i, c) == t[i].candidate = c /\ c # Hold /\ t[i].phase = p /\ Timely(t, i)
  IN  /\ f.duration = Duration(p)
      /\ f.count = 0 => f.key = None
      /\ f.count \in 0..n
      /\ f.count > 0 => f.previous = t[n].at /\ f.since = t[a].at
      /\ \A i \in a..n : Evidence(i, f.key)
      /\ f.count = 0 /\ n > 0 => ~Evidence(n, t[n].candidate)
      /\ f.count > 0 /\ n > f.count => ~Evidence(a - 1, f.key)

\* The trail is dated in order, up to the last accepted frame, and no frame
\* was examined for assembly before the gate opened.
TrailInOrder ==
  /\ trail = <<>> <=> last_timestamp = -1
  /\ trail # <<>> => trail[Len(trail)].at = last_timestamp
  /\ \A i, j \in 1..Len(trail) : i < j => trail[i].at < trail[j].at
  /\ \A i \in 1..Len(trail) :
        /\ trail[i].candidate \in Evaluations(trail[i].phase) \union {Hold}
        /\ phase = "CHECK_MATERIALS" => trail[i].phase = "CHECK_MATERIALS"

\* The strengthening the proofs rest on: the filter's four fields are exactly a
\* summary of the trail (temporal.py:10-25).
FilterMatchesTrail == TrailInOrder /\ Matches(filter, trail, phase)

ReadySupported ==
  LET n == Len(trail)
  IN  n > 0 /\ trail[n].candidate.status = "READY" /\ Supported(trail, n)

\* The gate is one way and opens exactly on a stable READY: a step enters
\* ASSEMBLING iff the trail then supports READY, it carries no verdict over, and
\* only a reset leads back (state_machine.py:22-26).
GateOpensOnReady ==
  [][/\ (phase = "CHECK_MATERIALS" /\ phase' = "ASSEMBLING") <=> ReadySupported'
     /\ ReadySupported' => confirmed' = None
     /\ (phase = "ASSEMBLING" /\ phase' # phase) => snapshot' = None]_vars

\* Whoever follows only the events knows the phase, the status and the confirmed
\* candidate after every update: no change goes unreported
\* (inspection_service.py:67-78, state_machine.py:29). Proved, not checked by a run.
EventsTellTheVerdict ==
  told = [phase |-> phase, status |-> status, confirmed |-> confirmed]

\* What a reader of the snapshots sees: the verdict on display, whether this very
\* frame supports it, and whether the filter holds a candidate.
Seen ==
  [phase |-> phase, status |-> status, stable |-> snapshot # None /\ snapshot.stable,
   watching |-> filter.count > 0]

Promise == INSTANCE Verdict WITH core <- Seen, Deviations <- {"IN_PROGRESS", "NG"}

\* The core implements Verdict: no single frame after a reset, an interruption or
\* the gate is ever reported stable, a stable frame reports its own status, and
\* an unstable one leaves the display alone (state_machine.py:15-30).
ImplementsVerdict == Promise!Spec
=============================================================================
