-------------------------- MODULE InspectionProofs --------------------------
(***************************************************************************)
(* Proofs about Inspection for every choice of durations, gap, issue lists *)
(* and bounds.                                                             *)
(***************************************************************************)
EXTENDS Inspection, TLAPS

-----------------------------------------------------------------------------
(* Type correctness                                                        *)

\* What a filter can hold while the machine is in phase p.
FilterType(f, p) ==
  /\ f \in [duration : {MaterialDuration, StableDuration}, key : Candidates \union {None},
            since : Times, previous : Times, count : Nat]
  /\ f.count > 0 => f.key \in Evaluations(p)

\* What a frame shows is a candidate, and it is Hold exactly when its status is.
LEMMA EvaluationShape ==
  ASSUME NEW p \in Phases, NEW c \in Evaluations(p) \union {Hold}
  PROVE  /\ c \in Candidates \union {Hold}
         /\ c.status = "HOLD" <=> c = Hold
         /\ c # None
  BY NoneAssumption
     DEF Evaluations, MaterialCandidates, AssemblyCandidates, Candidates, Candidate, Hold, Phases

\* One update of the temporal filter yields a filter of the same phase.
LEMMA FilteredType ==
  ASSUME NEW p \in Phases, NEW f, FilterType(f, p),
         NEW c \in Evaluations(p) \union {Hold}, NEW ts \in Times
  PROVE  /\ FilterType(Filtered(f, c, ts), p)
         /\ Filtered(f, c, ts).duration = f.duration
         /\ c = Hold => Filtered(f, c, ts).count = 0
<1>1. CASE c.status = "HOLD"
  BY <1>1, EvaluationShape, BoundAssumption DEF FilterType, Filtered, EmptyFilter, Times
<1>2. CASE c.status # "HOLD"
  <2>1. c \in Evaluations(p) /\ c # Hold /\ c \in Candidates
    BY <1>2, EvaluationShape DEF Hold, Candidate
  <2> QED
    BY <1>2, <2>1 DEF FilterType, Filtered, Times
<1> QED BY <1>1, <1>2

\* The evaluation an update acts on is one of the current phase, or Hold.
LEMMA JudgedType ==
  ASSUME NEW id, NEW ts, NEW seen \in Evaluations(phase) \union {Hold}
  PROVE  Judged(id, ts, seen) \in Evaluations(phase) \union {Hold}
  BY DEF Judged

\* Every update keeps the type invariant.
LEMMA UpdateType ==
  ASSUME TypeOK, NEW id \in 0..MaxFrameId, NEW ts \in 0..MaxTimestamp,
         NEW seen \in Evaluations(phase) \union {Hold}, Update(id, ts, seen)
  PROVE  TypeOK'
<1> DEFINE c == Judged(id, ts, seen)
           stable == IsStable(filter, c, ts)
<1>1. /\ c \in Evaluations(phase) \union {Hold}
      /\ c \in Candidates \union {Hold}
      /\ c.status = "HOLD" <=> c = Hold
      /\ c # None /\ ts \in Times /\ phase \in Phases
  BY JudgedType, EvaluationShape DEF TypeOK, Times
<1>2. StateMachineUpdate(c, ts, stable) /\ AcceptFrame(id, ts) /\ Watch(id, ts, seen) /\ EmitEvents
  BY DEF Update
<1> HIDE DEF c
<1>3. FilterType(filter, phase)
  BY DEF TypeOK, FilterType
<1>4. FilterType(Filtered(filter, c, ts), phase)
  BY <1>1, <1>3, FilteredType
<1>5. stable => c # Hold
  BY <1>1 DEF IsStable
<1>6. /\ phase' \in Phases
      /\ confirmed' \in {None} \union (Evaluations(phase') \ {Candidate("READY", NoIssues)})
      /\ status' = IF confirmed' = None THEN "HOLD" ELSE confirmed'.status
  <2>1. CASE Invalidate(c)
    BY <2>1, <1>1 DEF Invalidate, TypeOK
  <2>2. CASE StartAssembly(c, stable)
    BY <2>2 DEF StartAssembly, Phases
  <2>3. CASE Confirm(c, stable)
    <3>1. c # Candidate("READY", NoIssues)
      BY <2>3, <1>1 DEF Confirm, OpensGate, Phases, Candidate, Evaluations, AssemblyCandidates
    <3> QED BY <3>1, <2>3, <1>1, <1>5 DEF Confirm
  <2>4. CASE Retain(c, stable)
    BY <2>4 DEF Retain, TypeOK
  <2> QED BY <2>1, <2>2, <2>3, <2>4, <1>2 DEF StateMachineUpdate
<1>7. FilterType(filter', phase')
  <2>1. CASE stable /\ OpensGate(c)
    BY <2>1, <1>2, BoundAssumption DEF StateMachineUpdate, EmptyFilter, FilterType, Times
  <2>2. CASE ~(stable /\ OpensGate(c))
    <3>1. phase' = phase
      BY <2>2, <1>2, <1>1 DEF StateMachineUpdate, Invalidate, StartAssembly, Confirm, Retain
    <3> QED BY <3>1, <2>2, <1>2, <1>4 DEF StateMachineUpdate
  <2> QED BY <2>1, <2>2
<1>8. /\ last_id' \in -1..MaxFrameId /\ last_timestamp' \in -1..MaxTimestamp
      /\ last_id' = -1 <=> last_timestamp' = -1
  BY <1>2, BoundAssumption DEF AcceptFrame, TypeOK
<1>9. event_sequence' \in Nat
  BY <1>2 DEF EmitEvents, TypeOK
<1>10. trail' \in Seq(TrailEntry)
  <2> DEFINE at == IF InOrder(id, ts) THEN ts ELSE last_timestamp
  <2>1. at \in Times
    BY BoundAssumption DEF InOrder, TypeOK, Times
  <2>2. CASE Interrupts(id, ts, seen)
    <3>1. trail' = <<[phase |-> phase, candidate |-> Hold, at |-> at]>>
      BY <2>2, <1>2 DEF Watch
    <3> HIDE DEF at
    <3>2. [phase |-> phase, candidate |-> Hold, at |-> at] \in TrailEntry
      BY <2>1, <1>1 DEF TrailEntry
    <3> QED BY <3>1, <3>2
  <2>3. CASE ~Interrupts(id, ts, seen)
    <3>1. trail' = Append(trail, [phase |-> phase, candidate |-> seen, at |-> ts])
      BY <2>3, <1>2 DEF Watch
    <3>2. [phase |-> phase, candidate |-> seen, at |-> ts] \in TrailEntry
      BY <1>1, EvaluationShape DEF TrailEntry
    <3> QED BY <3>1, <3>2 DEF TypeOK
  <2> QED BY <2>2, <2>3
<1> QED BY <1>6, <1>7, <1>8, <1>9, <1>10 DEF TypeOK, FilterType

\* A reset, like the initial state, is typed.
LEMMA FreshType ==
  ASSUME NEW p, p = "CHECK_MATERIALS"
  PROVE  FilterType(EmptyFilter(MaterialDuration), p)
  BY BoundAssumption DEF FilterType, EmptyFilter, Times

\* The type invariant holds: the displayed status is always that of the confirmed
\* candidate, READY is never displayed, a verdict is one the phase can produce.
THEOREM TypeCorrect == Spec => []TypeOK
<1>1. Init => TypeOK
  BY FreshType, BoundAssumption DEF Init, TypeOK, FilterType, Phases
<1>2. TypeOK /\ [Next]_vars => TypeOK'
  <2> SUFFICES ASSUME TypeOK, [Next]_vars PROVE TypeOK'
    OBVIOUS
  <2>1. ASSUME NEW id \in 0..MaxFrameId, NEW ts \in 0..MaxTimestamp,
               NEW seen \in Evaluations(phase) \union {Hold}, Update(id, ts, seen)
        PROVE  TypeOK'
    BY <2>1, UpdateType
  <2>2. CASE Reset
    BY <2>2, FreshType, BoundAssumption DEF Reset, TypeOK, FilterType, Phases
  <2>3. CASE UNCHANGED vars
    BY <2>3 DEF vars, machine, TypeOK
  <2> QED BY <2>1, <2>2, <2>3 DEF Next
<1> QED BY <1>1, <1>2, PTL DEF Spec
-----------------------------------------------------------------------------
(* The trail and the runs in it                                            *)

\* Appending a frame changes nothing about the frames already there.
LEMMA AppendedTrail ==
  ASSUME NEW t \in Seq(TrailEntry), NEW e \in TrailEntry
  PROVE  /\ Append(t, e) \in Seq(TrailEntry)
         /\ Len(Append(t, e)) = Len(t) + 1
         /\ Append(t, e)[Len(t) + 1] = e
         /\ \A i \in 1..Len(t) : Append(t, e)[i] = t[i]
         /\ \A i \in 1..Len(t) : Timely(Append(t, e), i) <=> Timely(t, i)
         /\ \A i \in 1..Len(t) : Supported(Append(t, e), i) <=> Supported(t, i)
<1> DEFINE u == Append(t, e)
<1>1. /\ u \in Seq(TrailEntry) /\ Len(u) = Len(t) + 1 /\ u[Len(t) + 1] = e
      /\ \A i \in 1..Len(t) : u[i] = t[i]
  OBVIOUS
<1>2. Len(t) \in Nat
  OBVIOUS
<1> HIDE DEF u
<1>3. \A i \in 1..Len(t) : Timely(u, i) <=> Timely(t, i)
  <2> TAKE i \in 1..Len(t)
  <2>1. CASE i = 1
    BY <2>1 DEF Timely
  <2>2. CASE i # 1
    <3>1. i - 1 \in 1..Len(t)
      BY <2>2, <1>2
    <3> QED BY <3>1, <1>1 DEF Timely
  <2> QED BY <2>1, <2>2
<1>4. \A b \in 1..Len(t) : \A a \in 1..b : Run(u, a, b) <=> Run(t, a, b)
  <2> TAKE b \in 1..Len(t)
  <2> TAKE a \in 1..b
  <2>1. \A i \in a..b : i \in 1..Len(t)
    BY <1>2
  <2> QED BY <2>1, <1>1, <1>3 DEF Run
<1>5. \A b \in 1..Len(t) : Supported(u, b) <=> Supported(t, b)
  <2> TAKE b \in 1..Len(t)
  <2>1. \A a \in 1..b : a \in 1..Len(t)
    BY <1>2
  <2> QED BY <2>1, <1>1, <1>4 DEF Supported
<1> QED BY <1>1, <1>3, <1>5 DEF u

\* When the filter matches the trail, counting from its first key frame decides
\* exactly whether the trail supports what the last frame shows.
LEMMA CountIsSupport ==
  ASSUME NEW p \in Phases, NEW t \in Seq(TrailEntry), NEW f,
         FilterType(f, p), Matches(f, t, p),
         \A i, j \in 1..Len(t) : i < j => t[i].at < t[j].at,
         Len(t) > 0 => t[Len(t)].phase = p
  PROVE  (f.count >= 2 /\ f.previous - f.since >= f.duration)
            <=> (Len(t) > 0 /\ Supported(t, Len(t)))
<1> DEFINE n == Len(t)
           a == n - f.count + 1
<1>1. n \in Nat /\ f.count \in Nat /\ f.count <= n /\ Duration(p) \in Nat \ {0}
  BY ConfigAssumption DEF FilterType, Matches, Duration, Phases
<1>2. \A i \in 1..n : t[i].at \in Nat
  <2> TAKE i \in 1..n
  <2>1. t[i] \in TrailEntry
    OBVIOUS
  <2> QED BY <2>1, BoundAssumption DEF TrailEntry, Times
<1>3. \A i \in a..n : t[i].candidate = f.key /\ f.key # Hold /\ t[i].phase = p /\ Timely(t, i)
  BY DEF Matches
<1>4. ASSUME f.count >= 2, f.previous - f.since >= f.duration
      PROVE  n > 0 /\ Supported(t, n)
  <2>1. n > 0 /\ a \in 1..n /\ n \in a..n
    BY <1>1, <1>4
  <2>2. Run(t, a, n)
    BY <2>1, <1>3 DEF Run
  <2>3. t[n].at - t[a].at >= Duration(t[n].phase)
    BY <2>1, <1>1, <1>3, <1>4 DEF Matches
  <2> QED BY <2>1, <2>2, <2>3 DEF Supported
<1>5. ASSUME n > 0, Supported(t, n)
      PROVE  f.count >= 2 /\ f.previous - f.since >= f.duration
  <2>1. PICK s \in 1..n : Run(t, s, n) /\ t[n].at - t[s].at >= Duration(t[n].phase)
    BY <1>5 DEF Supported
  <2>2. t[n].phase = p /\ t[n].candidate # Hold /\ n \in s..n
    BY <2>1, <1>1, <1>5 DEF Run
  <2>3. s < n
    BY <2>1, <2>2, <1>1, <1>2, <1>5
  <2>4. f.count > 0
    <3>1. Timely(t, n)
      BY <2>1, <2>2 DEF Run
    <3> QED BY <3>1, <2>2, <1>1, <1>5 DEF Matches
  <2>5. a \in 1..n /\ n \in a..n /\ t[n].candidate = f.key /\ f.key # Hold
    BY <2>4, <1>1, <1>3
  <2>6. a <= s
    <3> SUFFICES ASSUME s < a PROVE FALSE
      BY <1>1, <2>5
    <3>1. a - 1 \in s..n /\ n > f.count
      BY <1>1, <2>5
    <3>2. t[a - 1].candidate = f.key /\ t[a - 1].phase = p /\ Timely(t, a - 1)
      BY <3>1, <2>1, <2>2, <2>5 DEF Run
    <3> QED BY <3>1, <3>2, <2>4, <2>5 DEF Matches
  <2>7. t[a].at <= t[s].at
    BY <2>5, <2>6, <1>2
  <2>8. f.count >= 2
    BY <2>3, <2>6, <1>1
  <2>9. f.previous = t[n].at /\ f.since = t[a].at /\ f.duration = Duration(p)
    BY <2>4 DEF Matches
  <2>10. t[n].at - t[s].at >= Duration(p) /\ t[n].at \in Nat /\ t[a].at \in Nat /\ t[s].at \in Nat
    BY <2>1, <2>2, <2>5, <1>2
  <2> HIDE DEF a, n
  <2> QED BY <2>7, <2>8, <2>9, <2>10, <1>1, SMTT(40)
<1> QED BY <1>4, <1>5
-----------------------------------------------------------------------------
(* One update                                                              *)

UpdateContext(id, ts, seen) ==
  /\ TypeOK /\ FilterMatchesTrail
  /\ id \in 0..MaxFrameId /\ ts \in 0..MaxTimestamp
  /\ seen \in Evaluations(phase) \union {Hold}
  /\ Update(id, ts, seen)

Entry(c, ts) == [phase |-> phase, candidate |-> c, at |-> ts]

\* A frame that interrupts the view leaves a one-entry trail and is judged Hold.
LEMMA Interrupted ==
  ASSUME NEW id, NEW ts, NEW seen, UpdateContext(id, ts, seen), Interrupts(id, ts, seen)
  PROVE  /\ Judged(id, ts, seen) = Hold
         /\ \E at \in Times : trail' = <<Entry(Hold, at)>> /\ at = last_timestamp'
<1> USE DEF UpdateContext
<1>1. Judged(id, ts, seen) = Hold
  BY DEF Interrupts, Judged, InOrder, TypeOK
<1> DEFINE at == IF InOrder(id, ts) THEN ts ELSE last_timestamp
<1>2. at \in Times /\ at = last_timestamp'
  BY BoundAssumption DEF InOrder, TypeOK, Times, Update, AcceptFrame
<1>3. trail' = <<Entry(Hold, at)>>
  BY DEF Update, Watch, Entry
<1> QED BY <1>1, <1>2, <1>3

\* Any other frame extends the trail with what it shows; it is judged Hold
\* exactly when it comes after a gap.
LEMMA Extended ==
  ASSUME NEW id, NEW ts, NEW seen, UpdateContext(id, ts, seen), ~Interrupts(id, ts, seen)
  PROVE  /\ seen # Hold /\ seen \in Evaluations(phase)
         /\ trail' = Append(trail, Entry(seen, ts)) /\ Entry(seen, ts) \in TrailEntry
         /\ last_timestamp' = ts /\ ts > last_timestamp
         /\ Timely(trail', Len(trail) + 1) <=> ~FrameGap(ts)
         /\ Judged(id, ts, seen) = IF FrameGap(ts) THEN Hold ELSE seen
<1> USE DEF UpdateContext
<1>1. seen # Hold /\ InOrder(id, ts) /\ ts > last_timestamp /\ seen \in Evaluations(phase)
  BY DEF Interrupts, InOrder, TypeOK
<1>2. trail' = Append(trail, Entry(seen, ts)) /\ last_timestamp' = ts
  BY <1>1 DEF Update, Watch, AcceptFrame, Entry
<1>3. Entry(seen, ts) \in TrailEntry /\ phase \in Phases
  BY EvaluationShape DEF Entry, TrailEntry, TypeOK, Times
<1>4. trail \in Seq(TrailEntry) /\ Len(trail) \in Nat
  BY DEF TypeOK
<1>5. Timely(trail', Len(trail) + 1) <=> ~FrameGap(ts)
  <2>1. CASE Len(trail) = 0
    <3>1. trail = <<>>
      BY <2>1, <1>4
    <3>2. last_timestamp = -1
      BY <3>1 DEF FilterMatchesTrail, TrailInOrder
    <3> QED BY <2>1, <3>2 DEF Timely, FrameGap
  <2>2. CASE Len(trail) > 0
    <3>1. trail # <<>> /\ Len(trail) \in 1..Len(trail)
      BY <2>2, <1>4
    <3>2. trail[Len(trail)].at = last_timestamp /\ last_timestamp # -1
      BY <3>1 DEF FilterMatchesTrail, TrailInOrder
    <3>3. /\ trail'[Len(trail) + 1] = Entry(seen, ts)
          /\ trail'[Len(trail)] = trail[Len(trail)]
      BY <3>1, <1>2, <1>3, <1>4, AppendedTrail
    <3>4. last_timestamp \in 0..MaxTimestamp /\ ts \in 0..MaxTimestamp
      BY <3>2, BoundAssumption DEF TypeOK
    <3>5. trail'[Len(trail) + 1].at - trail'[Len(trail) + 1 - 1].at = ts - last_timestamp
      BY <3>2, <3>3, <1>4 DEF Entry
    <3> QED BY <3>4, <3>5, <2>2, <1>1, <1>4, ConfigAssumption, BoundAssumption DEF Timely, FrameGap
  <2> QED BY <2>1, <2>2, <1>4
<1>6. Judged(id, ts, seen) = IF FrameGap(ts) THEN Hold ELSE seen
  BY <1>1 DEF Judged
<1> QED BY <1>1, <1>2, <1>3, <1>5, <1>6

\* Every update keeps the trail dated in order.
LEMMA TrailStaysInOrder ==
  ASSUME NEW id, NEW ts, NEW seen, UpdateContext(id, ts, seen)
  PROVE  TrailInOrder' /\ trail' # <<>> /\ trail'[Len(trail')].phase = phase
<1> USE DEF UpdateContext
<1>1. phase' = "CHECK_MATERIALS" => phase = "CHECK_MATERIALS"
  BY DEF Update, StateMachineUpdate, Invalidate, StartAssembly, Confirm, Retain
<1>2. CASE Interrupts(id, ts, seen)
  <2>1. PICK at \in Times : trail' = <<Entry(Hold, at)>> /\ at = last_timestamp'
    BY <1>2, Interrupted
  <2>2. /\ trail' # <<>> /\ Len(trail') = 1 /\ trail'[1] = Entry(Hold, at)
        /\ last_timestamp' # -1
    BY <2>1, BoundAssumption DEF Times
  <2> QED BY <1>1, <2>1, <2>2 DEF TrailInOrder, Entry
<1>3. CASE ~Interrupts(id, ts, seen)
  <2> DEFINE n == Len(trail)
  <2>1. n \in Nat /\ trail \in Seq(TrailEntry)
    BY DEF TypeOK
  <2>2. /\ trail' = Append(trail, Entry(seen, ts)) /\ Entry(seen, ts) \in TrailEntry
        /\ last_timestamp' = ts /\ ts > last_timestamp /\ seen \in Evaluations(phase)
    BY <1>3, Extended
  <2>3. /\ Len(trail') = n + 1 /\ trail'[n + 1] = Entry(seen, ts)
        /\ \A i \in 1..n : trail'[i] = trail[i]
    BY <2>1, <2>2, AppendedTrail
  <2>4. \A i \in 1..n : trail[i].at \in Nat /\ trail[i].at <= last_timestamp
    <3> TAKE i \in 1..n
    <3>1. trail[i] \in TrailEntry /\ trail[n] \in TrailEntry
      BY <2>1
    <3>2. trail[n].at = last_timestamp
      BY <2>1 DEF FilterMatchesTrail, TrailInOrder
    <3>3. i = n \/ trail[i].at < trail[n].at
      BY <2>1 DEF FilterMatchesTrail, TrailInOrder
    <3> QED BY <3>1, <3>2, <3>3, BoundAssumption DEF TrailEntry, Times
  <2>5. ts \in Nat /\ ts # -1
    BY BoundAssumption
  <2>6. \A i, j \in 1..(n + 1) : i < j => trail'[i].at < trail'[j].at
    <3> TAKE i, j \in 1..(n + 1)
    <3> SUFFICES ASSUME i < j PROVE trail'[i].at < trail'[j].at
      OBVIOUS
    <3>1. i \in 1..n /\ (j \in 1..n \/ j = n + 1)
      BY <2>1
    <3>2. CASE j \in 1..n
      BY <3>1, <3>2, <2>3 DEF FilterMatchesTrail, TrailInOrder
    <3>3. CASE j = n + 1
      <4>1. trail'[j].at = ts /\ trail'[i].at = trail[i].at
        BY <3>1, <3>3, <2>3 DEF Entry
      <4>2. last_timestamp \in Int
        BY BoundAssumption DEF TypeOK
      <4> QED BY <4>1, <4>2, <3>1, <2>2, <2>4, <2>5
    <3> QED BY <3>1, <3>2, <3>3
  <2>7. \A i \in 1..(n + 1) :
           /\ trail'[i].candidate \in Evaluations(trail'[i].phase) \union {Hold}
           /\ phase' = "CHECK_MATERIALS" => trail'[i].phase = "CHECK_MATERIALS"
    <3> TAKE i \in 1..(n + 1)
    <3>1. CASE i \in 1..n
      BY <3>1, <2>3, <1>1 DEF FilterMatchesTrail, TrailInOrder
    <3>2. CASE i = n + 1
      BY <3>2, <2>2, <2>3, <1>1 DEF Entry
    <3> QED BY <3>1, <3>2, <2>1
  <2>8. trail' # <<>> /\ trail'[Len(trail')].at = ts /\ trail'[Len(trail')].phase = phase
    BY <2>1, <2>2, <2>3 DEF Entry
  <2> QED BY <2>2, <2>3, <2>5, <2>6, <2>7, <2>8 DEF TrailInOrder
<1> QED BY <1>2, <1>3

\* What must be shown of a counting filter for it to match a trail.
LEMMA MatchesIntro ==
  ASSUME NEW f, NEW t, NEW p, NEW n \in Nat, NEW a \in Int,
         Len(t) = n, a = n - f.count + 1,
         f.count \in 1..n, f.duration = Duration(p), f.key # Hold,
         f.previous = t[n].at, f.since = t[a].at,
         \A i \in a..n : t[i].candidate = f.key /\ t[i].phase = p /\ Timely(t, i),
         n > f.count => ~(t[a - 1].candidate = f.key /\ t[a - 1].phase = p /\ Timely(t, a - 1))
  PROVE  Matches(f, t, p)
  BY DEF Matches

\* The filter updated with the judged candidate summarises the updated trail.
LEMMA FilteredMatches ==
  ASSUME NEW id, NEW ts, NEW seen, UpdateContext(id, ts, seen)
  PROVE  Matches(Filtered(filter, Judged(id, ts, seen), ts), trail', phase)
<1> DEFINE c == Judged(id, ts, seen)
           g == Filtered(filter, c, ts)
           n == Len(trail)
<1> USE DEF UpdateContext
<1>1. /\ phase \in Phases /\ ts \in Times /\ FilterType(filter, phase)
      /\ c \in Evaluations(phase) \union {Hold} /\ Matches(filter, trail, phase)
      /\ n \in Nat /\ trail \in Seq(TrailEntry)
      /\ filter.duration = Duration(phase)
  BY JudgedType DEF TypeOK, Times, FilterType, FilterMatchesTrail, Matches
<1>2. ASSUME c = Hold, trail' # <<>>, Len(trail') \in Nat,
             \/ trail'[Len(trail')].candidate = Hold
             \/ ~Timely(trail', Len(trail'))
      PROVE  Matches(g, trail', phase)
  <2>1. g = EmptyFilter(Duration(phase))
    BY <1>1, <1>2 DEF Filtered, Hold, Candidate
  <2>2. g.count = 0 /\ g.key = None /\ g.duration = Duration(phase)
    BY <2>1 DEF EmptyFilter
  <2> QED BY <2>2, <1>2 DEF Matches
<1>3. CASE Interrupts(id, ts, seen)
  <2>1. PICK at \in Times : trail' = <<Entry(Hold, at)>>
    BY <1>3, Interrupted
  <2>2. trail' # <<>> /\ Len(trail') = 1 /\ trail'[1].candidate = Hold
    BY <2>1 DEF Entry
  <2> QED BY <2>2, <1>2, <1>3, Interrupted
<1>4. CASE ~Interrupts(id, ts, seen)
  <2>1. /\ seen # Hold /\ seen \in Evaluations(phase)
        /\ trail' = Append(trail, Entry(seen, ts)) /\ Entry(seen, ts) \in TrailEntry
        /\ Timely(trail', n + 1) <=> ~FrameGap(ts)
        /\ c = IF FrameGap(ts) THEN Hold ELSE seen
    BY <1>4, Extended
  <2>2. /\ Len(trail') = n + 1 /\ trail'[n + 1] = Entry(seen, ts)
        /\ \A i \in 1..n : trail'[i] = trail[i]
        /\ \A i \in 1..n : Timely(trail', i) <=> Timely(trail, i)
    BY <1>1, <2>1, AppendedTrail
  <2>3. CASE FrameGap(ts)
    <3>1. trail' # <<>> /\ Len(trail') \in Nat
      BY <1>1, <2>1
    <3> QED BY <3>1, <2>1, <2>2, <2>3, <1>2
  <2>4. CASE ~FrameGap(ts)
    <3>1. c = seen /\ c # Hold /\ c # None /\ c.status # "HOLD" /\ Timely(trail', n + 1)
      BY <2>1, <2>4, <1>1, EvaluationShape
    <3>2. /\ trail'[n + 1].candidate = c /\ trail'[n + 1].phase = phase
          /\ trail'[n + 1].at = ts
      BY <2>2, <3>1 DEF Entry
    <3>3. Restarts(filter, c, ts) <=> c # filter.key
      <4>1. ASSUME filter.count > 0 PROVE ~(ts - filter.previous > MaxFrameGap)
        <5>1. n > 0 /\ trail # <<>> /\ filter.previous = trail[n].at
          BY <4>1, <1>1 DEF Matches, FilterType
        <5>2. filter.previous = last_timestamp /\ last_timestamp >= 0
          BY <5>1, BoundAssumption DEF FilterMatchesTrail, TrailInOrder, TypeOK
        <5> QED BY <5>2, <2>4 DEF FrameGap
      <4> QED BY <4>1 DEF Restarts
    <3>4. filter.count \in 0..n /\ (filter.count = 0 => c # filter.key)
      BY <1>1, <3>1 DEF Matches
    <3> HIDE DEF c, n
    <3>5. CASE c # filter.key
      <4>1. g = [duration |-> filter.duration, key |-> c, previous |-> ts, since |-> ts, count |-> 1]
        BY <3>1, <3>3, <3>5 DEF Filtered
      <4>2. g.duration = Duration(phase) /\ g.key = c /\ g.previous = ts /\ g.since = ts /\ g.count = 1
        BY <4>1, <1>1
      <4> HIDE DEF g
      <4>3. n > 0 => ~(trail[n].candidate = c /\ trail[n].phase = phase /\ Timely(trail, n))
        <5>1. CASE filter.count = 0
          BY <5>1, <3>1, <1>1 DEF Matches, n
        <5>2. CASE filter.count > 0
          <6>1. n \in (n - filter.count + 1)..n
            BY <5>2, <1>1, <3>4
          <6> QED BY <6>1, <3>5, <1>1 DEF Matches, n
        <5> QED BY <5>1, <5>2, <3>4, <1>1
      <4>4. n > 0 => ~(trail'[n].candidate = c /\ trail'[n].phase = phase /\ Timely(trail', n))
        BY <4>3, <2>2, <1>1
      <4>5. n + 1 = (n + 1) - g.count + 1 /\ g.count \in 1..(n + 1) /\ (n + 1) - 1 = n /\ n + 1 \in Nat
        BY <4>2, <1>1
      <4>6. \A i \in (n + 1)..(n + 1) :
              trail'[i].candidate = c /\ trail'[i].phase = phase /\ Timely(trail', i)
        <5>1. \A i \in (n + 1)..(n + 1) : i = n + 1
          BY <1>1
        <5> QED BY <5>1, <3>1, <3>2
      <4>7. n + 1 > g.count => n > 0
        BY <4>2, <1>1
      <4>8. n + 1 > g.count => ~(trail'[(n + 1) - 1].candidate = g.key /\ trail'[(n + 1) - 1].phase = phase
                                   /\ Timely(trail', (n + 1) - 1))
        BY <4>2, <4>4, <4>5, <4>7
      <4>9. Len(trail') = n + 1 /\ g.key # Hold /\ g.previous = trail'[n + 1].at /\ g.since = trail'[n + 1].at
        BY <4>2, <3>1, <3>2, <2>2
      <4> DEFINE m == n + 1
      <4>10. Matches(g, trail', phase)
        <5>1. /\ m \in Nat /\ m \in Int /\ Len(trail') = m /\ m = m - g.count + 1 /\ g.count \in 1..m
              /\ g.duration = Duration(phase) /\ g.key # Hold
              /\ g.previous = trail'[m].at /\ g.since = trail'[m].at
          BY <4>2, <4>5, <4>9
        <5>2. /\ \A i \in m..m : trail'[i].candidate = g.key /\ trail'[i].phase = phase /\ Timely(trail', i)
              /\ m > g.count => ~(trail'[m - 1].candidate = g.key /\ trail'[m - 1].phase = phase
                                  /\ Timely(trail', m - 1))
          BY <4>2, <4>6, <4>8
        <5> HIDE DEF m
        <5> QED BY <5>1, <5>2, MatchesIntro
      <4> QED BY <4>10 DEF g, c
    <3>6. CASE c = filter.key
      <4> DEFINE k == filter.count
                 a == n - k + 1
      <4>1. g = [duration |-> filter.duration, key |-> c, previous |-> ts, since |-> filter.since, count |-> k + 1]
        BY <3>1, <3>3, <3>6 DEF Filtered
      <4>2. /\ g.duration = Duration(phase) /\ g.key = c /\ g.previous = ts
            /\ g.since = filter.since /\ g.count = k + 1
        BY <4>1, <1>1
      <4>0. k # 0 /\ k \in 0..n
        BY <3>4, <3>6
      <4>3. /\ k \in 1..n /\ a \in 1..n /\ g.count \in 1..(n + 1) /\ a = (n + 1) - g.count + 1
            /\ n + 1 \in Nat /\ a \in Int
        BY <4>0, <4>2, <1>1
      <4> HIDE DEF g
      <4>4. filter.since = trail[a].at
        BY <4>3, <1>1 DEF Matches, n
      <4>5. g.since = trail'[a].at
        BY <4>2, <4>3, <4>4, <2>2
      <4>6. \A i \in a..(n + 1) : trail'[i].candidate = c /\ trail'[i].phase = phase /\ Timely(trail', i)
        <5> TAKE i \in a..(n + 1)
        <5>1. CASE i = n + 1
          BY <5>1, <3>1, <3>2
        <5>2. CASE i # n + 1
          <6>1. i \in a..n /\ i \in 1..n
            BY <5>2, <4>3, <1>1
          <6>2. trail[i].candidate = c /\ trail[i].phase = phase /\ Timely(trail, i)
            BY <6>1, <3>6, <1>1 DEF Matches, n
          <6> QED BY <6>1, <6>2, <2>2
        <5> QED BY <5>1, <5>2
      <4>7. n + 1 > k + 1 => ~(trail'[a - 1].candidate = c /\ trail'[a - 1].phase = phase /\ Timely(trail', a - 1))
        <5> SUFFICES ASSUME n > k
                     PROVE  ~(trail'[a - 1].candidate = c /\ trail'[a - 1].phase = phase /\ Timely(trail', a - 1))
          BY <4>3, <1>1
        <5>1. a - 1 \in 1..n
          BY <4>3, <1>1
        <5>2. ~(trail[a - 1].candidate = c /\ trail[a - 1].phase = phase /\ Timely(trail, a - 1))
          BY <4>3, <3>1, <3>6, <1>1 DEF Matches, n
        <5> QED BY <5>1, <5>2, <2>2
      <4>8. Len(trail') = n + 1 /\ g.key # Hold /\ g.previous = trail'[n + 1].at
        BY <4>2, <3>1, <3>2, <2>2
      <4> HIDE DEF a, k
      <4>9. Matches(g, trail', phase)
        BY <4>2, <4>3, <4>5, <4>6, <4>7, <4>8, MatchesIntro
      <4> QED BY <4>9 DEF g, c
    <3> QED BY <3>5, <3>6
  <2> QED BY <2>3, <2>4
<1> QED BY <1>3, <1>4

\* What an update reports as stable is what its trail supports.
LEMMA StableIsSupport ==
  ASSUME NEW id, NEW ts, NEW seen, UpdateContext(id, ts, seen)
  PROVE  IsStable(filter, Judged(id, ts, seen), ts) <=> Supported(trail', Len(trail'))
<1> DEFINE c == Judged(id, ts, seen)
           g == Filtered(filter, c, ts)
<1> USE DEF UpdateContext
<1>1. /\ phase \in Phases /\ ts \in Times /\ FilterType(filter, phase)
      /\ c \in Evaluations(phase) \union {Hold} /\ (c.status = "HOLD" <=> c = Hold)
  BY JudgedType, EvaluationShape DEF TypeOK, Times, FilterType
<1>5. Matches(g, trail', phase)
  BY FilteredMatches
<1> HIDE DEF c
<1>2. FilterType(g, phase) /\ (c = Hold => g.count = 0)
  BY <1>1, FilteredType
<1>3. /\ \A i, j \in 1..Len(trail') : i < j => trail'[i].at < trail'[j].at
      /\ trail' # <<>> /\ trail'[Len(trail')].phase = phase
  BY TrailStaysInOrder DEF TrailInOrder
<1>4. trail' \in Seq(TrailEntry) /\ Len(trail') > 0
  BY <1>3, UpdateType DEF TypeOK
<1>6. c # Hold => g.previous = ts
  BY <1>1 DEF Filtered
<1>7. IsStable(filter, c, ts) <=> (g.count >= 2 /\ g.previous - g.since >= g.duration)
  <2>1. IsStable(filter, c, ts) <=> (c # Hold /\ g.count >= 2 /\ ts - g.since >= g.duration)
    BY <1>1 DEF IsStable
  <2> QED BY <2>1, <1>2, <1>6
<1> HIDE DEF g
<1>8. (g.count >= 2 /\ g.previous - g.since >= g.duration)
         <=> (Len(trail') > 0 /\ Supported(trail', Len(trail')))
  BY <1>1, <1>2, <1>3, <1>4, <1>5, CountIsSupport
<1> QED BY <1>4, <1>7, <1>8 DEF c

\* An update that opens the gate replaces the filter; any other keeps the phase.
LEMMA MatchesAfterUpdate ==
  ASSUME NEW id, NEW ts, NEW seen, UpdateContext(id, ts, seen)
  PROVE  FilterMatchesTrail'
<1> DEFINE c == Judged(id, ts, seen)
           stable == IsStable(filter, c, ts)
<1> USE DEF UpdateContext
<1>1. StateMachineUpdate(c, ts, stable)
  BY DEF Update
<1>2. TrailInOrder' /\ trail' # <<>> /\ trail'[Len(trail')].phase = phase
  BY TrailStaysInOrder
<1>3. c \in Evaluations(phase) \union {Hold} /\ (c.status = "HOLD" <=> c = Hold) /\ phase \in Phases
  BY JudgedType, EvaluationShape DEF TypeOK
<1>4. Matches(Filtered(filter, c, ts), trail', phase)
  BY FilteredMatches
<1> HIDE DEF c
<1>5. CASE stable /\ OpensGate(c)
  <2>1. /\ phase' = "ASSEMBLING" /\ phase = "CHECK_MATERIALS"
        /\ filter' = EmptyFilter(StableDuration)
    BY <1>1, <1>5 DEF StateMachineUpdate, Invalidate, StartAssembly, Confirm, Retain, OpensGate
  <2>2. filter'.count = 0 /\ filter'.key = None /\ filter'.duration = Duration(phase')
    BY <2>1 DEF EmptyFilter, Duration
  <2>3. Len(trail') \in Nat
    BY UpdateType DEF TypeOK
  <2>4. Matches(filter', trail', phase')
    BY <1>2, <2>1, <2>2, <2>3 DEF Matches
  <2> QED BY <1>2, <2>4 DEF FilterMatchesTrail
<1>6. CASE ~(stable /\ OpensGate(c))
  <2>1. phase' = phase /\ filter' = Filtered(filter, c, ts)
    BY <1>1, <1>6 DEF StateMachineUpdate, Invalidate, StartAssembly, Confirm, Retain
  <2> QED BY <1>2, <1>4, <2>1 DEF FilterMatchesTrail
<1> QED BY <1>5, <1>6

\* A fresh machine matches the empty trail.
LEMMA FreshMatches ==
  Matches(EmptyFilter(MaterialDuration), <<>>, "CHECK_MATERIALS")
  BY DEF Matches, EmptyFilter, Duration

-----------------------------------------------------------------------------
(* Theorems                                                                *)

\* The filter is at all times an exact summary of the frames received since the
\* last interruption.
THEOREM FilterSound == Spec => []FilterMatchesTrail
<1>1. Init => FilterMatchesTrail
  BY FreshMatches DEF Init, FilterMatchesTrail, TrailInOrder
<1>2. TypeOK /\ FilterMatchesTrail /\ [Next]_vars => FilterMatchesTrail'
  <2> SUFFICES ASSUME TypeOK, FilterMatchesTrail, [Next]_vars PROVE FilterMatchesTrail'
    OBVIOUS
  <2>1. ASSUME NEW id \in 0..MaxFrameId, NEW ts \in 0..MaxTimestamp,
               NEW seen \in Evaluations(phase) \union {Hold}, Update(id, ts, seen)
        PROVE  FilterMatchesTrail'
    BY <2>1, MatchesAfterUpdate DEF UpdateContext
  <2>2. CASE Reset
    BY <2>2, FreshMatches DEF Reset, FilterMatchesTrail, TrailInOrder
  <2>3. CASE UNCHANGED vars
    BY <2>3 DEF vars, machine, FilterMatchesTrail, TrailInOrder
  <2> QED BY <2>1, <2>2, <2>3 DEF Next
<1> QED BY <1>1, <1>2, TypeCorrect, PTL DEF Spec

\* "stable" is reported exactly on sufficient uninterrupted evidence.
THEOREM StableSound == Spec => []StableIffSupported
<1>1. Init => StableIffSupported
  BY DEF Init, StableIffSupported
<1>2. TypeOK /\ FilterMatchesTrail /\ StableIffSupported /\ [Next]_vars => StableIffSupported'
  <2> SUFFICES ASSUME TypeOK, FilterMatchesTrail, StableIffSupported, [Next]_vars
               PROVE  StableIffSupported'
    OBVIOUS
  <2>1. ASSUME NEW id \in 0..MaxFrameId, NEW ts \in 0..MaxTimestamp,
               NEW seen \in Evaluations(phase) \union {Hold}, Update(id, ts, seen)
        PROVE  StableIffSupported'
    <3>1. UpdateContext(id, ts, seen)
      BY <2>1 DEF UpdateContext
    <3>2. snapshot'.stable = IsStable(filter, Judged(id, ts, seen), ts)
      BY <2>1 DEF Update
    <3> QED BY <3>1, <3>2, StableIsSupport, TrailStaysInOrder DEF StableIffSupported
  <2>2. CASE Reset
    BY <2>2 DEF Reset, StableIffSupported
  <2>3. CASE UNCHANGED vars
    BY <2>3 DEF vars, machine, StableIffSupported
  <2> QED BY <2>1, <2>2, <2>3 DEF Next
<1> QED BY <1>1, <1>2, TypeCorrect, FilterSound, PTL DEF Spec

\* One update keeps the verdict the last supported one.
LEMMA VerdictAfterUpdate ==
  ASSUME NEW id, NEW ts, NEW seen, UpdateContext(id, ts, seen), VerdictIsLastSupported
  PROVE  VerdictIsLastSupported'
<1> DEFINE c == Judged(id, ts, seen)
           stable == IsStable(filter, c, ts)
           n == Len(trail)
           last == {b \in 1..Len(trail) : LastSupported(trail, phase, b)}
<1> USE DEF UpdateContext
<1>1. /\ c \in Evaluations(phase) \union {Hold} /\ (c.status = "HOLD" <=> c = Hold)
      /\ c # None /\ phase \in Phases /\ trail \in Seq(TrailEntry) /\ n \in Nat
  BY JudgedType, EvaluationShape DEF TypeOK
<1>2. StateMachineUpdate(c, ts, stable)
  BY DEF Update
<1>3. stable <=> Supported(trail', Len(trail'))
  BY StableIsSupport
<1>4. stable => c # Hold
  BY <1>1 DEF IsStable
<1>5. CASE c = Hold
  <2>1. phase' = phase /\ confirmed' = None
    BY <1>1, <1>2, <1>4, <1>5 DEF StateMachineUpdate, Invalidate, StartAssembly, Confirm, Retain
  <2>2. ~Supported(trail', Len(trail'))
    BY <1>3, <1>4, <1>5
  <2>3. \A b \in 1..Len(trail') : ~LastSupported(trail', phase', b)
    <3>1. CASE Interrupts(id, ts, seen)
      <4>1. PICK at \in Times : trail' = <<Entry(Hold, at)>>
        BY <3>1, Interrupted
      <4>2. Len(trail') = 1 /\ \A b \in 1..1 : b = 1
        BY <4>1
      <4> QED BY <4>2, <2>2 DEF LastSupported
    <3>2. CASE ~Interrupts(id, ts, seen)
      <4>1. /\ trail' = Append(trail, Entry(seen, ts)) /\ Entry(seen, ts) \in TrailEntry
            /\ ~Timely(trail', n + 1)
        BY <3>2, <1>5, Extended
      <4>2. Len(trail') = n + 1
        BY <4>1, <1>1, AppendedTrail
      <4>3. ASSUME NEW b \in 1..(n + 1), LastSupported(trail', phase', b) PROVE FALSE
        <5>1. CASE b = n + 1
          BY <5>1, <4>2, <4>3, <2>2 DEF LastSupported
        <5>2. CASE b # n + 1
          <6>1. n + 1 \in (b + 1)..Len(trail')
            BY <5>2, <4>2, <1>1
          <6> QED BY <6>1, <4>1, <4>3 DEF LastSupported, Transient
        <5> QED BY <5>1, <5>2
      <4> QED BY <4>2, <4>3
    <3> QED BY <3>1, <3>2
  <2> QED BY <2>1, <2>3 DEF VerdictIsLastSupported
<1>6. CASE c # Hold
  <2>1. ~Interrupts(id, ts, seen) /\ ~FrameGap(ts) /\ c = seen
    <3>1. ~Interrupts(id, ts, seen)
      BY <1>6, Interrupted
    <3> QED BY <3>1, <1>6, Extended
  <2>2. /\ trail' = Append(trail, Entry(c, ts)) /\ Entry(c, ts) \in TrailEntry
        /\ Timely(trail', n + 1)
    BY <2>1, Extended
  <2> HIDE DEF c, n, stable
  <2>3. /\ Len(trail') = n + 1 /\ trail'[n + 1] = Entry(c, ts)
        /\ \A i \in 1..n : trail'[i] = trail[i]
        /\ \A i \in 1..n : Timely(trail', i) <=> Timely(trail, i)
        /\ \A i \in 1..n : Supported(trail', i) <=> Supported(trail, i)
    BY <2>2, <1>1, AppendedTrail DEF n
  <2>4. trail'[n + 1].candidate = c /\ trail'[n + 1].phase = phase
    BY <2>3 DEF Entry
  <2>5. CASE stable
    <3>1. Supported(trail', n + 1) /\ n + 1 \in 1..(n + 1) /\ (n + 1 + 1)..(n + 1) = {}
      BY <2>5, <2>3, <1>1, <1>3
    <3>2. CASE OpensGate(c)
      <4>1. phase = "CHECK_MATERIALS" /\ phase' = "ASSEMBLING" /\ confirmed' = None
        BY <3>2, <2>5, <1>2 DEF StateMachineUpdate, Invalidate, StartAssembly, Confirm, Retain, OpensGate
      <4>2. \A b \in 1..(n + 1) : trail'[b].phase = "CHECK_MATERIALS"
        <5> TAKE b \in 1..(n + 1)
        <5>1. b \in 1..n \/ b = n + 1
          BY <1>1
        <5> QED BY <5>1, <4>1, <2>3, <2>4 DEF FilterMatchesTrail, TrailInOrder, n
      <4> QED BY <4>1, <4>2, <2>3 DEF VerdictIsLastSupported, LastSupported
    <3>3. CASE ~OpensGate(c)
      <4>1. phase' = phase /\ confirmed' = c
        BY <3>3, <2>5, <1>1, <1>2, <1>6 DEF StateMachineUpdate, Invalidate, StartAssembly, Confirm, Retain
      <4>2. LastSupported(trail', phase', n + 1)
        BY <4>1, <3>1, <2>3, <2>4 DEF LastSupported
      <4> QED BY <4>1, <4>2, <3>1, <2>3, <2>4, <1>1 DEF VerdictIsLastSupported
    <3> QED BY <3>2, <3>3
  <2>6. CASE ~stable
    <3>1. phase' = phase /\ confirmed' = confirmed
      BY <2>6, <1>1, <1>2, <1>6 DEF StateMachineUpdate, Invalidate, StartAssembly, Confirm, Retain
    <3>2. ~Supported(trail', n + 1)
      BY <2>6, <2>3, <1>3
    <3>3. Transient(trail', n + 1)
      BY <3>2, <2>2, <2>4, <1>6 DEF Transient
    <3>4. \A i \in 1..n : Transient(trail', i) <=> Transient(trail, i)
      BY <2>3 DEF Transient
    <3>5. \A b \in 1..n : LastSupported(trail', phase', b) <=> LastSupported(trail, phase, b)
      <4> TAKE b \in 1..n
      <4>1. /\ (b + 1)..(n + 1) = ((b + 1)..n) \union {n + 1}
            /\ \A i \in (b + 1)..n : i \in 1..n
        BY <1>1
      <4> QED BY <4>1, <3>1, <3>3, <3>4, <2>3 DEF LastSupported, n
    <3>6. ~LastSupported(trail', phase', n + 1)
      BY <3>2 DEF LastSupported
    <3>7. 1..(n + 1) = (1..n) \union {n + 1}
      BY <1>1
    <3>8. {b \in 1..Len(trail') : LastSupported(trail', phase', b)} = last
      BY <3>5, <3>6, <3>7, <2>3 DEF n
    <3>9. \A b \in last : trail'[b].candidate = trail[b].candidate
      BY <2>3 DEF n
    <3> HIDE DEF last
    <3>10. IF confirmed = None THEN last = {} ELSE \E b \in last : trail[b].candidate = confirmed
      BY DEF VerdictIsLastSupported, last
    <3> QED BY <3>1, <3>8, <3>9, <3>10 DEF VerdictIsLastSupported
  <2> QED BY <2>5, <2>6
<1> QED BY <1>5, <1>6

\* The confirmed verdict is at all times the last one the unbroken trail supports.
THEOREM VerdictSound == Spec => []VerdictIsLastSupported
<1>1. Init => VerdictIsLastSupported
  BY DEF Init, VerdictIsLastSupported
<1>2. TypeOK /\ FilterMatchesTrail /\ VerdictIsLastSupported /\ [Next]_vars
         => VerdictIsLastSupported'
  <2> SUFFICES ASSUME TypeOK, FilterMatchesTrail, VerdictIsLastSupported, [Next]_vars
               PROVE  VerdictIsLastSupported'
    OBVIOUS
  <2>1. ASSUME NEW id \in 0..MaxFrameId, NEW ts \in 0..MaxTimestamp,
               NEW seen \in Evaluations(phase) \union {Hold}, Update(id, ts, seen)
        PROVE  VerdictIsLastSupported'
    BY <2>1, VerdictAfterUpdate DEF UpdateContext
  <2>2. CASE Reset
    BY <2>2 DEF Reset, VerdictIsLastSupported
  <2>3. CASE UNCHANGED vars
    BY <2>3 DEF vars, machine, VerdictIsLastSupported
  <2> QED BY <2>1, <2>2, <2>3 DEF Next
<1> QED BY <1>1, <1>2, TypeCorrect, FilterSound, PTL DEF Spec

\* A client that follows only the events always knows the machine's verdict.
THEOREM EventsSound == Spec => []EventsTellTheVerdict
<1>1. Init => EventsTellTheVerdict
  BY DEF Init, EventsTellTheVerdict
<1>2. EventsTellTheVerdict /\ [Next]_vars => EventsTellTheVerdict'
  <2> SUFFICES ASSUME EventsTellTheVerdict, [Next]_vars PROVE EventsTellTheVerdict'
    OBVIOUS
  <2>1. ASSUME NEW id, NEW ts, NEW seen, Update(id, ts, seen)
        PROVE  EventsTellTheVerdict'
    BY <2>1 DEF Update, EmitEvents, Changed, EventsTellTheVerdict
  <2>2. CASE Reset
    BY <2>2 DEF Reset, EventsTellTheVerdict
  <2>3. CASE UNCHANGED vars
    BY <2>3 DEF vars, machine, EventsTellTheVerdict
  <2> QED BY <2>1, <2>2, <2>3 DEF Next
<1> QED BY <1>1, <1>2, PTL DEF Spec

\* An update opens the gate exactly when its trail supports READY.
LEMMA GateAfterUpdate ==
  ASSUME NEW id, NEW ts, NEW seen, UpdateContext(id, ts, seen)
  PROVE  /\ (phase = "CHECK_MATERIALS" /\ phase' = "ASSEMBLING") <=> ReadySupported'
         /\ ReadySupported' => confirmed' = None
         /\ phase = "ASSEMBLING" => phase' = phase
<1> DEFINE c == Judged(id, ts, seen)
           stable == IsStable(filter, c, ts)
<1> USE DEF UpdateContext
<1>1. /\ c \in Evaluations(phase) \union {Hold} /\ (c.status = "HOLD" <=> c = Hold)
      /\ phase \in Phases /\ StateMachineUpdate(c, ts, stable)
  BY JudgedType, EvaluationShape DEF TypeOK, Update
<1>2. stable <=> Supported(trail', Len(trail'))
  BY StableIsSupport
<1>3. trail' # <<>> /\ Len(trail') > 0
  BY TrailStaysInOrder, UpdateType, SMTT(40) DEF TypeOK
<1>4. stable => c # Hold /\ trail'[Len(trail')].candidate = c
  <2> SUFFICES ASSUME stable PROVE c # Hold /\ trail'[Len(trail')].candidate = c
    OBVIOUS
  <2>1. c # Hold
    BY <1>1 DEF IsStable
  <2>2. ~Interrupts(id, ts, seen)
    BY <2>1, Interrupted
  <2>3. trail' = Append(trail, Entry(c, ts)) /\ Entry(c, ts) \in TrailEntry
    BY <2>1, <2>2, Extended
  <2>4. trail \in Seq(TrailEntry)
    BY DEF TypeOK
  <2> HIDE DEF c, stable
  <2> QED BY <2>1, <2>3, <2>4, AppendedTrail DEF Entry
<1> HIDE DEF c, stable
<1>5. ReadySupported' <=> (stable /\ c.status = "READY")
  BY <1>2, <1>3, <1>4 DEF ReadySupported
<1>6. c.status = "READY" => phase = "CHECK_MATERIALS"
  BY <1>1 DEF Evaluations, AssemblyCandidates, Candidate, Hold, Phases
<1> QED BY <1>1, <1>5, <1>6
        DEF StateMachineUpdate, Invalidate, StartAssembly, Confirm, Retain, OpensGate, Phases

\* The gate opens exactly on a supported READY and only a reset closes it.
THEOREM GateSound == Spec => GateOpensOnReady
<1> DEFINE Gate == /\ (phase = "CHECK_MATERIALS" /\ phase' = "ASSEMBLING") <=> ReadySupported'
                   /\ ReadySupported' => confirmed' = None
                   /\ (phase = "ASSEMBLING" /\ phase' # phase) => snapshot' = None
<1>1. TypeOK /\ FilterMatchesTrail /\ [Next]_vars => [Gate]_vars
  <2> SUFFICES ASSUME TypeOK, FilterMatchesTrail, Next PROVE Gate
    OBVIOUS
  <2>1. ASSUME NEW id \in 0..MaxFrameId, NEW ts \in 0..MaxTimestamp,
               NEW seen \in Evaluations(phase) \union {Hold}, Update(id, ts, seen)
        PROVE  Gate
    BY <2>1, GateAfterUpdate DEF UpdateContext
  <2>2. CASE Reset
    BY <2>2 DEF Reset, ReadySupported
  <2> QED BY <2>1, <2>2 DEF Next
<1> QED BY <1>1, TypeCorrect, FilterSound, PTL DEF Spec, GateOpensOnReady
-----------------------------------------------------------------------------
(* The abstract specification                                              *)

\* One update takes the filter from not watching to watching at most, never to a
\* stable verdict, and shows one of the outcomes Verdict allows.
LEMMA UpdateShowsVerdict ==
  ASSUME TypeOK, TypeOK', NEW id \in 0..MaxFrameId, NEW ts \in 0..MaxTimestamp,
         NEW seen \in Evaluations(phase) \union {Hold}, Update(id, ts, seen)
  PROVE  \E s \in Promise!Showing(phase) \union {"HOLD"} : Promise!Frame(s)
<1> DEFINE c == Judged(id, ts, seen)
           stable == IsStable(filter, c, ts)
<1>1. /\ c \in Evaluations(phase) \union {Hold}
      /\ (c.status = "HOLD" <=> c = Hold)
      /\ phase \in Phases
  BY JudgedType, EvaluationShape DEF TypeOK
<1>2. StateMachineUpdate(c, ts, stable) /\ snapshot'.stable = stable
  BY DEF Update
<1>3. stable \in BOOLEAN /\ snapshot' # None
  <2>1. stable \in BOOLEAN
    BY DEF IsStable
  <2>2. status' \in {"HOLD", "READY", "IN_PROGRESS", "NG", "PASS"}
    BY DEF TypeOK, Phases, Evaluations, MaterialCandidates, AssemblyCandidates, Candidate
  <2>3. confirmed' \in Candidates \union {None} /\ phase' \in Phases
    BY DEF TypeOK, Phases, Evaluations, Candidates
  <2>4. c \in Candidates \union {Hold}
    BY <1>1, EvaluationShape
  <2>5. snapshot' = [status |-> status', candidate |-> c, confirmed |-> confirmed',
                     stable |-> stable, phase |-> phase', evaluated_phase |-> phase]
    BY DEF Update
  <2> HIDE DEF c, stable
  <2>6. snapshot' \in Snapshots
    BY <1>1, <2>1, <2>2, <2>3, <2>4, <2>5 DEF Snapshots
  <2> QED BY <2>1, <2>6, NoneAssumption
<1>4. Seen' = [phase |-> phase', status |-> status', stable |-> stable, watching |-> filter'.count > 0]
  BY <1>2, <1>3 DEF Seen
<1>5. c.status \in Promise!Showing(phase) \union {"HOLD"}
  BY <1>1 DEF Promise!Showing, Phases, Evaluations, MaterialCandidates, AssemblyCandidates,
              Candidate, Hold
<1>6. c.status = "HOLD" => ~stable
  BY DEF IsStable
<1>7. c.status # "HOLD" => Filtered(filter, c, ts).count > 0
  BY DEF Filtered, TypeOK
<1>8. stable => filter.count > 0
  BY ConfigAssumption DEF IsStable, Filtered, TypeOK
<1>9. c.status = "HOLD" => Filtered(filter, c, ts).count = 0
  BY DEF Filtered, EmptyFilter
<1>10. c.status = "READY" => phase = "CHECK_MATERIALS"
  BY <1>1 DEF Evaluations, AssemblyCandidates, Candidate, Hold, Phases
<1> HIDE DEF c, stable
<1>11. Promise!Frame(c.status)
  <2>1. CASE Invalidate(c)
    <3>1. filter'.count = 0 /\ ~stable /\ phase' = phase /\ status' = "HOLD"
      BY <2>1, <1>2, <1>6, <1>9 DEF Invalidate, StateMachineUpdate
    <3>2. (filter'.count > 0) = FALSE /\ stable = FALSE
      BY <3>1, <1>3
    <3>3. Seen' = Promise!Lost(Seen)
      BY <3>1, <3>2, <1>4, Zenon DEF Seen, Promise!Lost
    <3> QED BY <3>3, <2>1 DEF Invalidate, Promise!Frame, Promise!After
  <2>2. CASE StartAssembly(c, stable)
    <3>1. /\ filter'.count = 0 /\ stable /\ c.status = "READY"
          /\ phase' = "ASSEMBLING" /\ status' = "HOLD"
      BY <2>2, <1>2 DEF StartAssembly, OpensGate, StateMachineUpdate, EmptyFilter
    <3>2. (filter'.count > 0) = FALSE /\ stable = TRUE
      BY <3>1, <1>3
    <3>3. Seen' = Promise!Settled(Seen, c.status)
      BY <3>1, <3>2, <1>4, Zenon DEF Promise!Settled
    <3> QED BY <3>1, <3>3, <2>2, <1>8, <1>6 DEF StartAssembly, Seen, Promise!Frame, Promise!After
  <2>3. CASE Confirm(c, stable)
    <3>1. c.status # "READY"
      BY <2>3, <1>10 DEF Confirm, OpensGate
    <3>2. filter'.count > 0
      BY <2>3, <1>2, <1>6, <1>7 DEF Confirm, StateMachineUpdate
    <3>3. Seen' = Promise!Settled(Seen, c.status)
      BY <3>1, <3>2, <2>3, <1>3, <1>4 DEF Confirm, Seen, Promise!Settled
    <3> QED BY <3>3, <2>3, <1>8, <1>6 DEF Confirm, Seen, Promise!Frame, Promise!After
  <2>4. CASE Retain(c, stable)
    <3>1. filter'.count > 0
      BY <2>4, <1>2, <1>7 DEF Retain, StateMachineUpdate
    <3>2. Seen' = Promise!Unsettled(Seen)
      BY <3>1, <2>4, <1>3, <1>4 DEF Retain, Seen, Promise!Unsettled
    <3> QED BY <3>2, <2>4 DEF Retain, Promise!Frame, Promise!After
  <2> QED BY <2>1, <2>2, <2>3, <2>4, <1>2 DEF StateMachineUpdate
<1> QED BY <1>5, <1>11

\* The judgement core implements Verdict, on which the frame loop relies.
THEOREM CoreImplementsVerdict == Spec => ImplementsVerdict
<1>1. Init => Promise!Init
  <2> SUFFICES ASSUME Init PROVE Promise!Init
    OBVIOUS
  <2>1. phase = "CHECK_MATERIALS" /\ status = "HOLD"
    BY DEF Init
  <2>2. (snapshot # None /\ snapshot.stable) = FALSE /\ (filter.count > 0) = FALSE
    BY DEF Init, EmptyFilter
  <2> QED BY <2>1, <2>2, Zenon DEF Promise!Init, Seen, Promise!Blank
<1>2. TypeOK /\ TypeOK' /\ [Next]_vars => [Promise!Next]_Seen
  <2> SUFFICES ASSUME TypeOK, TypeOK', [Next]_vars PROVE [Promise!Next]_Seen
    OBVIOUS
  <2>1. ASSUME NEW id \in 0..MaxFrameId, NEW ts \in 0..MaxTimestamp,
               NEW seen \in Evaluations(phase) \union {Hold}, Update(id, ts, seen)
        PROVE  Promise!Next
    <3>1. Seen.phase = phase
      BY DEF Seen
    <3> QED BY <2>1, <3>1, UpdateShowsVerdict DEF Promise!Next
  <2>2. CASE Reset
    <3>1. phase' = "CHECK_MATERIALS" /\ status' = "HOLD"
      BY <2>2 DEF Reset
    <3>2. (snapshot' # None /\ snapshot'.stable) = FALSE /\ (filter'.count > 0) = FALSE
      BY <2>2 DEF Reset, EmptyFilter
    <3>3. Seen' = Promise!Blank
      BY <3>1, <3>2, Zenon DEF Seen, Promise!Blank
    <3> QED BY <3>3 DEF Promise!Next, Promise!Restart
  <2>3. CASE UNCHANGED vars
    BY <2>3 DEF vars, machine, Seen
  <2> QED BY <2>1, <2>2, <2>3 DEF Next
<1> QED BY <1>1, <1>2, TypeCorrect, PTL DEF Spec, ImplementsVerdict, Promise!Spec
=============================================================================
