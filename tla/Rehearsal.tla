----------------------------- MODULE Rehearsal -----------------------------
(* DemoSource of web/source.py: a scenario of nine stages, played at any   *)
(* speed by the clock, before the judgement core, whose windows are        *)
(* shortened with it. Times are milliseconds; the core is Inspection.      *)
EXTENDS Evaluators, FiniteSetsExt, Sequences

CONSTANTS
    Rehearsed,  \* recipes
    BaseConfig, \* thresholds, durations and frame gap before demo_config()
    Paces,      \* [speed, period, lates]: --speed, 1000 / --fps, and by how much
                \* sleep() and the judgement exceed the period
    MaxHeld     \* bound: how long the last stage is watched

ASSUME RehearsalAssumption ==
    /\ ValidConfig(BaseConfig) /\ \A r \in Rehearsed : ValidRecipe(r)
    /\ \A p \in Paces : {p.speed, p.period} \subseteq Nat \ {0} /\ p.lates \subseteq Nat /\ p.lates # {} /\ IsFiniteSet(p.lates)

VARIABLES
    pace,       \* of the server's command line
    rehearsed,  \* recipe of the source and of the service
    stage,      \* stage_i, from 1
    into,       \* since stage_started
    now,        \* time stamps, since the reset
    gate, verdict, settled, watch,   \* the service's machine
    seen_at,    \* the service's last_timestamp
    story       \* history: what was shown last in each stage that is over

rehearsal == <<pace, rehearsed, stage, into, now, gate, verdict, settled, watch, seen_at, story>>

Unsettled == [status |-> "None", issues |-> {}]

Quick(ms, speed) == IF ms \div speed < 1 THEN 1 ELSE ms \div speed

\* Not the code: the window of the materials keeps its length.
FaultyDemoConfig(speed) == [BaseConfig EXCEPT !.stable_duration_ms = Quick(@, speed)]

\* demo_config(): both windows, but not the frame gap.
DemoConfig(speed) ==
    [BaseConfig EXCEPT !.stable_duration_ms = Quick(@, speed),
                       !.material_stable_duration_ms = Quick(@, speed)]

Core(speed) == INSTANCE Inspection WITH
    phase <- gate, status <- verdict, confirmed <- settled, filter <- watch,
    last_id <- -1, last_timestamp <- seen_at, event_sequence <- 0,
    snapshot <- "None", told <- "None", trail <- <<>>,
    MaterialShortages <- {}, MaterialErrors <- {}, AssemblyShortages <- {}, AssemblyErrors <- {},
    NoIssues <- {}, None <- Unsettled, MaxFrameId <- 0, MaxTimestamp <- 0,
    MaterialDuration <- DemoConfig(speed).material_stable_duration_ms,
    StableDuration <- DemoConfig(speed).stable_duration_ms,
    MaxFrameGap <- DemoConfig(speed).max_frame_gap_ms

(* What is shown, in the frame of the Mother. *)
Thing(id, class, x, y, w, h) ==
    [id |-> id, class |-> class, x |-> x, y |-> y, w |-> w, h |-> h, tilt |-> 0]

\* PART_LEN
HalfLength == [part_2hole |-> 160, part_3hole |-> 250]

\* _placed()
Placed(h, bolt, part) ==
    LET x == BaseConfig.hole_alphas[h] IN
    {Thing(<<"b", h>>, bolt, x, 0, 40, 40),
     Thing(<<"p", h>>, part, x, 40 - HalfLength[part], 45, HalfLength[part])}

\* _scattered()
Scattered(r) ==
    LET k(h) == Cardinality({g \in DOMAIN r : g < h}) IN
    UNION {{Thing(<<"sb", h>>, r[h].bolt, 400 * k(h) - 480, -580, 40, 40),
            Thing(<<"sp", h>>, r[h].part, 400 * k(h) - 270, -580, HalfLength[r[h].part], 45)} : h \in DOMAIN r}

OtherBolt(b) == IF b = "bolt_2" THEN "bolt_1" ELSE "bolt_2"

\* _build_stages(): Mother's angle, the other detections, and for how long.
Stage(angle, shows, ms) == [angle |-> angle, shows |-> shows, ms |-> ms]
Stages(r, speed) ==
    LET first  == Min(DOMAIN r)
        final  == Max(DOMAIN r)
        begun  == Placed(first, r[first].bolt, r[first].part)
        done   == UNION {Placed(h, r[h].bolt, r[h].part) : h \in DOMAIN r}
        second == Min(DOMAIN r \ {first})
        wrong  == IF final = first THEN {Thing(<<"x", 5>>, "bolt_1", 400, 0, 40, 40)}
                  ELSE Placed(second, OtherBolt(r[final].bolt), r[second].part)
        extra  == {Thing(<<"extra", 0>>, r[final].part, 380, -380, HalfLength[r[final].part], 45)}
    IN <<Stage(0, {}, 1000), Stage(0, Scattered(r) \cup extra, 1600), Stage(0, Scattered(r), 1600),
         Stage(0, {}, 1000), Stage(0, begun, 1400), Stage(0, begun \cup wrong, 2000),
         Stage(0, done, 1600), Stage(26, done, 3600), Stage(0, done, MaxHeld * speed)>>

\* The candidate of a frame of stage s of the scenario of one recipe, judged
\* by another if that has just been chosen.
Judge(r, of, s, phase, speed) ==
    LET at == Stages(of, speed)[s]
        shows == at.shows \cup {Thing(<<"m", 0>>, "mother_part", 0, 0, 500, 80)}
    IN IF phase = "ASSEMBLING" THEN JudgeAssembly(DemoConfig(speed), r, shows, at.angle)
       ELSE LET told == EvaluateMaterials(r, shows) IN
            [status |-> told,
             issues |-> IF told = "READY" THEN {}
                        ELSE {<<k, Cardinality({d \in shows : d.class = k})>> : k \in Classes}]

\* The window of a service that has just begun, as it is over a frame of the
\* first phase.
Unseen(speed) == Core(speed)!EmptyFilter(DemoConfig(speed).material_stable_duration_ms)

RehearsalInit ==
    /\ rehearsed \in Rehearsed /\ stage = 1 /\ into = 0 /\ now = 0
    /\ gate = "CHECK_MATERIALS" /\ verdict = "HOLD" /\ settled = Unsettled
    /\ \E p \in Paces : pace = p /\ watch = Unseen(p.speed)
    /\ seen_at = -1 /\ story = <<>>

\* Whether the stage is over; a fraction of a millisecond may decide.
Over ==
    LET left == Stages(rehearsed, pace.speed)[stage].ms \div pace.speed - into IN
    IF left > 0 \/ stage = 9 THEN {FALSE} ELSE IF left < 0 THEN {TRUE} ELSE BOOLEAN

\* frames(): the next stage if this one is over; the frame, judged; a pause.
Play(p, over, late) ==
    LET s == IF over THEN stage + 1 ELSE stage
        seen == Core(p.speed)!Judged(0, now, Judge(rehearsed, rehearsed, s, gate, p.speed))
    IN /\ over \in Over
       /\ stage = 9 => into < MaxHeld
       /\ Core(p.speed)!StateMachineUpdate(seen, now, Core(p.speed)!IsStable(watch, seen, now))
       /\ seen_at' = now
       /\ stage' = s
       /\ into' = (IF over THEN 0 ELSE into) + p.period + late
       /\ now' = now + p.period + late
       /\ story' = IF over THEN Append(story, <<gate, verdict>>) ELSE story
       /\ UNCHANGED <<pace, rehearsed>>

\* reset(recipe), of the service and of the source, comes between a frame and
\* its judgement: the frame still shows the old scenario.
PlayReset(p, r, over, late) ==
    LET s == IF over THEN stage + 1 ELSE stage IN
    /\ over \in Over
    /\ rehearsed' = r /\ stage' = 1 /\ story' = <<>>
    /\ gate' = "CHECK_MATERIALS" /\ verdict' = "HOLD" /\ settled' = Unsettled
    /\ watch' = Core(p.speed)!Filtered(Unseen(p.speed),
                                      Judge(r, rehearsed, s, "CHECK_MATERIALS", p.speed), 0)
    /\ seen_at' = 0 /\ into' = p.period + late /\ now' = p.period + late
    /\ UNCHANGED pace

RehearsalNext ==
    \E p \in Paces : p = pace /\ \E over \in BOOLEAN, late \in p.lates :
        Play(p, over, late) \/ \E r \in Rehearsed : PlayReset(p, r, over, late)

----------------------------------------------------------------------------

\* A stage at its pace outlasts its window by the longest pause, and no pause is
\* a frame gap.
LongEnough(i) ==
    LET pause  == pace.period + Max(pace.lates)
        window == IF i <= 3 THEN BaseConfig.material_stable_duration_ms ELSE BaseConfig.stable_duration_ms
    IN /\ pause <= BaseConfig.max_frame_gap_ms
       /\ Stages(rehearsed, 1)[i].ms - window >= pause * pace.speed

\* However it is hurried, and whenever it is begun anew, the rehearsal shows what
\* it announces up to the first stage that is too short for its frames: every NG
\* and PASS is confirmed and the gate opens in its stage, a tilted Mother is a
\* HOLD, and what was right before is a PASS again (source.py:52, :56, :66, :101).
\* At the source's own ten frames a second that is the whole story up to speed 4,
\* but at the 8 of its comment (source.py:73) the materials' stages show two frames
\* of 100 ms for a window of 125: the NG goes unconfirmed, and nothing is said here.
RehearsalTellsItsStory ==
    LET Due(i) == Len(story) >= i /\ \A j \in 2..i : LongEnough(j)
        Told(i, phase, status) == Due(i) => story[i] = <<phase, status>>
    IN /\ Told(2, "CHECK_MATERIALS", "NG")
       /\ Due(3) => story[3][1] = "ASSEMBLING"
       /\ Told(4, "ASSEMBLING", "IN_PROGRESS")
       /\ Told(5, "ASSEMBLING", IF Cardinality(DOMAIN rehearsed) = 1 THEN "PASS" ELSE "IN_PROGRESS")
       /\ Told(6, "ASSEMBLING", "NG")
       /\ Told(7, "ASSEMBLING", "PASS")
       /\ Told(8, "ASSEMBLING", "HOLD")
       /\ Due(8) /\ stage = 9 /\ into >= MaxHeld => verdict = "PASS"
=============================================================================
