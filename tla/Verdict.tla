------------------------------- MODULE Verdict -------------------------------
(***************************************************************************)
(* What the judgement core promises to whoever feeds it frames and reads   *)
(* its snapshots, without its filter and its clocks: the abstract          *)
(* specification that Inspection implements and Pipeline relies on.        *)
(***************************************************************************)

CONSTANT Deviations   \* the statuses that report something missing or wrong

VARIABLE core    \* what a snapshot says, and whether a candidate is under watch

Blank == [phase |-> "CHECK_MATERIALS", status |-> "HOLD", stable |-> FALSE, watching |-> FALSE]

\* The candidate statuses a frame can show in each phase, HOLD apart.
Showing(p) ==
  Deviations \union (IF p = "CHECK_MATERIALS" THEN {"READY"} ELSE {"PASS"})

\* An unusable frame, a frame gap, a replayed frame: no verdict any more.
Lost(k) == [phase |-> k.phase, status |-> "HOLD", stable |-> FALSE, watching |-> FALSE]

\* A candidate not watched long enough: the verdict stays on display.
Unsettled(k) == [phase |-> k.phase, status |-> k.status, stable |-> FALSE, watching |-> TRUE]

\* A candidate watched long enough: READY opens the gate, any other is the verdict.
Settled(k, s) ==
  IF s = "READY"
    THEN [phase |-> "ASSEMBLING", status |-> "HOLD", stable |-> TRUE, watching |-> FALSE]
    ELSE [phase |-> k.phase, status |-> s, stable |-> TRUE, watching |-> TRUE]

\* The outcomes of one frame that shows s: never settled by a single frame.
After(k, s) ==
  IF s = "HOLD" THEN {Lost(k)}
  ELSE {Unsettled(k)} \union (IF k.watching THEN {Settled(k, s)} ELSE {})

Frame(s) == core' \in After(core, s)

Restart == core' = Blank

Init == core = Blank

Next == (\E s \in Showing(core.phase) \union {"HOLD"} : Frame(s)) \/ Restart

Spec == Init /\ [][Next]_core
=============================================================================
