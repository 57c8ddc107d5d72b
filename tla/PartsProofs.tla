------------------------------ MODULE PartsProofs ------------------------------
(***************************************************************************)
(* What the parts of the station that stand alone promise for any bounds:  *)
(* that the log of an inspection, however it ends, tells what was judged;  *)
(* that the final check and the held angle are of the product on the       *)
(* table; and that nothing is validated on what it was trained on.         *)
(***************************************************************************)
EXTENDS LiveInspection, Training, RecordsProofs

-----------------------------------------------------------------------------
(* LiveInspection: the log of a run                                        *)

LogFields == {"completed", "stop_reason", "frame_count", "numbering", "first", "last"}

\* The log counts the frames and knows when the first and the last were shown, to
\* one millisecond; its last row is the verdict of the last frame, with the
\* numbering of the frame that confirmed it.
Logged ==
    /\ metadata.frame_count = frame_index
    /\ frame_index > 0 =>
          /\ metadata.first \in {0, 1}
          /\ metadata.last \in {(frame_index - 1) * Dt, (frame_index - 1) * Dt + 1}
    /\ row.status = confirmed.status /\ row.hole = confirmed.hole
    /\ row.numbering = metadata.numbering
    /\ where = IF confirmed.status = "NG" THEN HoleInPicture(confirmed.hole, metadata.numbering) ELSE 0

\* It is saved when the run is over, if it is saved at all, and then is of the
\* whole video only if every frame there is said to be was read.
Saved ==
    /\ turn # "over" => saved = NewLog /\ ~metadata.completed
    /\ saved = NewLog \/ saved = metadata
    /\ saved.completed => session.logging /\ session.reported > 0 /\ frame_index >= session.reported

LogInv ==
    /\ session \in Sessions /\ frame_index \in 0..session.length
    /\ DOMAIN metadata = LogFields
    /\ session.logging => Logged
    /\ ~session.logging => saved = NewLog
    /\ Saved

\* As many frames as the time of a video takes, to less than one frame, are all.
LEMMA FramesFillTheTime ==
    ASSUME NEW n \in Nat, NEW k \in 0..n, NEW d \in Nat \ {0, 1}, k * d + 1 >= n * d
    PROVE  k = n
<1>1. SUFFICES ASSUME k + 1 <= n PROVE FALSE
  OBVIOUS
<1>2. (k + 1) * d <= n * d
  BY <1>1
<1>3. (k + 1) * d = k * d + d
  OBVIOUS
<1>4. k * d \in Nat /\ n * d \in Nat
  OBVIOUS
<1> DEFINE x == k * d
           y == n * d
           z == (k + 1) * d
<1>5. x \in Nat /\ y \in Nat /\ z <= y /\ z = x + d /\ x + 1 >= y
  BY <1>2, <1>3, <1>4
<1> HIDE DEF x, y, z
<1>6. QED BY <1>5

\* The log of a run that begins is empty.
LEMMA LogInit == LiveInit => LogInv
BY LiveAssumption DEF LiveInit, LogInv, Logged, Saved, LogFields, NewLog, NoRow, NoVerdict

\* A frame is logged as it was judged.
LEMMA LogFrame ==
    ASSUME LogInv, NEW view \in Views, NEW late \in {0, 1}, Inspect(view, late)
    PROVE  LogInv'
<1> DEFINE at == frame_index * Dt + late
<1>1. /\ session' = session /\ saved' = saved /\ frame_index' = frame_index + 1 /\ turn = "read" /\ turn' = "key"
      /\ confirmed' = Confirmed(view) /\ Write(view, at)
      /\ where' = IF confirmed'.status # "NG" THEN 0
                  ELSE IF core'.stable THEN HoleInPicture(view.hole, view.numbering) ELSE where
  BY DEF Inspect
<1>2. frame_index < session.length /\ session \in Sessions /\ frame_index \in 0..session.length
  BY DEF Inspect, LogInv
<1>3. frame_index' \in 0..session.length /\ frame_index \in Nat /\ session.logging \in BOOLEAN
  BY <1>1, <1>2, LiveAssumption
<1>4. CASE ~session.logging
  <2>1. UNCHANGED <<metadata, row>>
    BY <1>1, <1>4 DEF Write
  <2>2. saved = NewLog /\ ~metadata.completed /\ DOMAIN metadata = LogFields
    BY <1>1 DEF LogInv, Saved
  <2>3. QED BY <1>1, <1>2, <1>3, <1>4, <2>1, <2>2 DEF LogInv, Saved, NewLog
<1>5. CASE session.logging
  <2> DEFINE count == metadata.frame_count + 1
             first == IF metadata.frame_count = 0 THEN at ELSE metadata.first
             numbering == Numbering(view)
  <2>1. /\ row' = [status |-> confirmed'.status, hole |-> confirmed'.hole, numbering |-> numbering]
        /\ metadata' = [metadata EXCEPT !.frame_count = count, !.numbering = numbering,
                                        !.last = at, !.first = first]
    BY <1>1, <1>5 DEF Write
  <2>2. /\ DOMAIN metadata = LogFields /\ Logged /\ saved = NewLog /\ ~metadata.completed
    BY <1>1, <1>5 DEF LogInv, Saved
  <2>3. /\ metadata'.frame_count = count /\ metadata'.numbering = numbering
        /\ metadata'.last = at /\ metadata'.completed = metadata.completed
        /\ metadata'.first = first /\ DOMAIN metadata' = LogFields
    <3> HIDE DEF count, first, numbering, at
    <3>1. QED BY <2>1, <2>2 DEF LogFields
  <2>4. metadata'.frame_count = frame_index'
    BY <1>1, <2>2, <2>3 DEF Logged
  <2>5. metadata'.first \in {0, 1} /\ metadata'.last \in {(frame_index' - 1) * Dt, (frame_index' - 1) * Dt + 1}
    <3>1. frame_index' - 1 = frame_index
      BY <1>1, <1>3
    <3>2. at \in {frame_index * Dt, frame_index * Dt + 1}
      BY <1>3, LiveAssumption
    <3>3. metadata'.last \in {(frame_index' - 1) * Dt, (frame_index' - 1) * Dt + 1}
      BY <2>3, <3>1, <3>2, Zenon
    <3>4. first \in {0, 1}
      <4>1. CASE frame_index = 0
        BY <2>2, <4>1, LiveAssumption DEF Logged
      <4>2. CASE frame_index > 0
        BY <2>2, <4>2 DEF Logged
      <4>3. QED BY <1>3, <4>1, <4>2
    <3>5. QED BY <2>3, <3>3, <3>4, Zenon
  <2>6. row'.status = confirmed'.status /\ row'.hole = confirmed'.hole /\ row'.numbering = metadata'.numbering
    <3> HIDE DEF numbering
    <3>1. QED BY <2>1, <2>3
  <2>7. where' = IF confirmed'.status = "NG" THEN HoleInPicture(confirmed'.hole, numbering) ELSE 0
    <3>1. CASE confirmed'.status # "NG"
      BY <1>1, <3>1
    <3>2. CASE confirmed'.status = "NG" /\ core'.stable
      <4>1. confirmed' # NoVerdict /\ confirmed'.hole = view.hole
        BY <1>1, <3>2 DEF Confirmed, NoVerdict
      <4>2. numbering = view.numbering
        BY <3>2, <4>1 DEF Numbering
      <4>3. QED BY <1>1, <3>2, <4>1, <4>2
    <3>3. CASE confirmed'.status = "NG" /\ ~core'.stable
      <4>1. confirmed' # NoVerdict /\ confirmed' = confirmed
        BY <1>1, <3>3 DEF Confirmed, NoVerdict
      <4>2. numbering = metadata.numbering
        BY <3>3, <4>1 DEF Numbering
      <4>3. QED BY <1>1, <2>2, <3>3, <4>1, <4>2 DEF Logged
    <3>4. QED BY <3>1, <3>2, <3>3
  <2>8. Logged'
    BY <2>3, <2>4, <2>5, <2>6, <2>7 DEF Logged
  <2>9. Saved'
    BY <1>1, <2>2, <2>3 DEF Saved, NewLog
  <2>10. QED BY <1>1, <1>2, <1>3, <1>5, <2>3, <2>8, <2>9 DEF LogInv
<1>6. QED BY <1>3, <1>4, <1>5

\* A log is closed as of the frames it holds; it is complete only at the end that
\* the video has said.
LEMMA LogExit ==
    ASSUME LogInv, NEW completed \in BOOLEAN, NEW reason, Exit(completed, reason),
           completed => session.reported > 0 /\ frame_index >= session.reported
    PROVE  LogInv'
<1>1. /\ turn' = "over" /\ UNCHANGED <<session, frame_index, row, confirmed, where>>
      /\ metadata' = [metadata EXCEPT !.completed = completed, !.stop_reason = reason]
      /\ saved' = IF session.logging THEN metadata' ELSE saved
  BY DEF Exit
<1>2. DOMAIN metadata = LogFields
  BY DEF LogInv
<1>3. /\ metadata'.frame_count = metadata.frame_count /\ metadata'.numbering = metadata.numbering
      /\ metadata'.first = metadata.first /\ metadata'.last = metadata.last
      /\ metadata'.completed = completed /\ DOMAIN metadata' = LogFields
  BY <1>1, <1>2 DEF LogFields
<1>4. CASE session.logging
  <2>1. Logged'
    BY <1>1, <1>3, <1>4 DEF LogInv, Logged
  <2>2. Saved'
    BY <1>1, <1>3, <1>4 DEF Saved
  <2>3. QED BY <1>1, <1>3, <1>4, <2>1, <2>2 DEF LogInv
<1>5. CASE ~session.logging
  <2>1. saved' = NewLog /\ ~saved'.completed
    BY <1>1, <1>5 DEF LogInv, NewLog
  <2>2. QED BY <1>1, <1>3, <1>5, <2>1 DEF LogInv, Saved
<1>6. QED BY <1>4, <1>5, LiveAssumption DEF LogInv

\* Every step of an inspection keeps the invariant of its log.
LEMMA LogKept == LogInv /\ [LiveNext]_live => LogInv'
<1> SUFFICES ASSUME LogInv, [LiveNext]_live PROVE LogInv'
  OBVIOUS
<1>1. CASE \E view \in Views, late \in {0, 1} : Inspect(view, late)
  BY <1>1, LogFrame
<1>2. CASE LimitReached
  BY <1>2, LogExit DEF LimitReached
<1>3. CASE ReadEnds
  <2> DEFINE complete == session.reported > 0 /\ frame_index >= session.reported
  <2>1. Exit(complete, IF complete THEN "eof" ELSE "read_failed_or_unknown_length")
    BY <1>3 DEF ReadEnds
  <2>2. complete \in BOOLEAN /\ (complete => session.reported > 0 /\ frame_index >= session.reported)
    OBVIOUS
  <2> HIDE DEF complete
  <2>3. QED BY <2>1, <2>2, LogExit
<1>4. CASE Quit
  BY <1>4, LogExit DEF Quit
<1>5. CASE Raise
  BY <1>5, LogExit DEF Raise
<1>6. CASE Killed
  BY <1>6 DEF Killed, LogInv, Logged, Saved
<1>7. CASE NoKey
  BY <1>7 DEF NoKey, LogInv, Logged, Saved
<1>8. CASE \E next \in DOMAIN RECIPE_TO_MODEL : Choose(next)
  BY <1>8 DEF Choose, LogInv, Saved
<1>9. CASE UNCHANGED live
  BY <1>9 DEF live, LogInv, Logged, Saved
<1>10. QED BY <1>1, <1>2, <1>3, <1>4, <1>5, <1>6, <1>7, <1>8, <1>9 DEF LiveNext

\* For every video, whatever length it is said to have and however its inspection
\* ends, what an evaluation reads in the log is what was confirmed, and a log it
\* accepts and does not call provisional holds every frame (evaluation_log.py
\* write, __exit__; evaluate_video.py cause_matches, validate, evaluate).
THEOREM LogIsHonest == LiveInit /\ [][LiveNext]_live => []LogTellsTheRun
<1>1. ASSUME LogInv PROVE LogTellsTheRun
  <2>1. ASSUME session.logging, NEW hole \in 1..5
        PROVE  CauseMatches(hole) <=> (confirmed.status = "NG" /\ hole = where)
    BY <1>1, <2>1 DEF LogInv, Logged, CauseMatches
  <2>2. session \in Sessions /\ session.length \in Nat /\ session.reported \in Int
        /\ frame_index \in 0..session.length
    BY <1>1, LiveAssumption DEF LogInv
  <2>3. ASSUME session.logging, turn = "over", Valid, ~Provisional PROVE frame_index = session.length
    <3>1. saved = metadata /\ saved.frame_count > 0
      BY <1>1, <2>3 DEF LogInv, Saved, NewLog, Valid
    <3>2. frame_index > 0 /\ metadata.first \in {0, 1}
          /\ metadata.last \in {(frame_index - 1) * Dt, (frame_index - 1) * Dt + 1}
      BY <1>1, <2>2, <2>3, <3>1 DEF LogInv, Logged
    <3> DEFINE before == (frame_index - 1) * Dt
               all == session.length * Dt
               read == frame_index * Dt
    <3>3. before \in Nat /\ all \in Nat /\ read = before + Dt /\ Dt \in Nat
      BY <2>2, <3>2, LiveAssumption
    <3>4. metadata.last + Dt - metadata.first >= all
      <4>1. ~(saved.last + Dt - saved.first < all)
        BY <2>3 DEF Provisional
      <4>2. metadata.last \in {before, before + 1} /\ metadata.first \in {0, 1}
        BY <3>2
      <4> HIDE DEF before, all
      <4>3. QED BY <3>1, <3>3, <4>1, <4>2
    <3>5. read + 1 >= all
      <4>1. metadata.last \in {before, before + 1} /\ metadata.first \in {0, 1}
        BY <3>2
      <4> HIDE DEF before, all, read
      <4>2. QED BY <3>3, <3>4, <4>1
    <3>6. QED BY <2>2, <3>5, FramesFillTheTime, LiveAssumption
  <2>4. ASSUME saved.completed PROVE frame_index >= session.reported /\ Valid
    <3>1. saved = metadata /\ session.logging /\ session.reported > 0 /\ frame_index >= session.reported
      BY <1>1, <2>4 DEF LogInv, Saved, NewLog
    <3>2. metadata.frame_count = frame_index
      BY <1>1, <3>1 DEF LogInv, Logged
    <3>3. QED BY <2>2, <3>1, <3>2 DEF Valid
  <2>5. QED BY <2>1, <2>3, <2>4 DEF LogTellsTheRun
<1>2. QED BY <1>1, LogInit, LogKept, PTL
-----------------------------------------------------------------------------
(* LiveInspection: the angle that is held                                  *)

\* An axis is an angle up to half a turn.
LEMMA WrapTurnsBy ==
    ASSUME NEW x \in Int
    PROVE  \E k \in Int : WrapHalfPi(x) = x + 180000 * k /\ -90000 <= WrapHalfPi(x) /\ WrapHalfPi(x) < 90000
<1> DEFINE q == (x + 90000) \div 180000
           r == (x + 90000) % 180000
<1>1. q \in Int /\ r \in Int /\ 0 <= r /\ r < 180000 /\ x + 90000 = 180000 * q + r
  OBVIOUS
<1>2. WrapHalfPi(x) = r - 90000
  BY DEF WrapHalfPi
<1> DEFINE w == WrapHalfPi(x)
<1>3. w = r - 90000
  BY <1>2
<1> HIDE DEF q, r, w
<1>4. w = x + 180000 * (-q) /\ -q \in Int /\ -90000 <= w /\ w < 90000
  BY <1>1, <1>3
<1>5. \E k \in Int : w = x + 180000 * k /\ -90000 <= w /\ w < 90000
  BY <1>4
<1>6. QED BY <1>5 DEF w

HalfTurn == 180000
Eighth == 45000

\* Angle X is angle x turned by half turns: the same axis.
TurnOf(X, x) == \E k \in Int : X = x + HalfTurn * k

\* Two angles turned by half turns until they are near each other are as far apart
\* as the axes; they are not nearer as axes unless a half turn is nearer.
LEMMA DistanceOfTurns ==
    ASSUME NEW x \in Int, NEW y \in Int, NEW X \in Int, NEW Y \in Int,
           TurnOf(X, x), TurnOf(Y, y)
    PROVE  /\ Abs(X - Y) <= 45000 => AxisDistance(x, y) = Abs(X - Y)
           /\ Abs(X - Y) < 135000 /\ AxisDistance(x, y) <= 45000 => Abs(X - Y) <= 45000
<1> DEFINE w == WrapHalfPi(x - y)
           D == X - Y
<1>1. PICK k \in Int : w = (x - y) + 180000 * k /\ -90000 <= w /\ w < 90000
  BY SMT, WrapTurnsBy
<1>2. PICK a \in Int : X = x + HalfTurn * a
  BY Zenon DEF TurnOf
<1>3. PICK b \in Int : Y = y + HalfTurn * b
  BY Zenon DEF TurnOf
<1>4. AxisDistance(x, y) = IF w < 0 THEN -w ELSE w
  BY SMT DEF AxisDistance, Abs
<1>5. Abs(D) = IF D < 0 THEN -D ELSE D
  BY SMT DEF Abs
<1> HIDE DEF w
<1> DEFINE n == b - a + k
<1>6. w - D = 180000 * n /\ n \in Int /\ D \in Int /\ w \in Int
  BY SMT, <1>1, <1>2, <1>3 DEF HalfTurn
<1> HIDE DEF n, D
<1>7. Abs(D) < 135000 => n \in {-1, 0, 1}
  BY SMT, <1>1, <1>5, <1>6
<1>8. QED
  <2>1. /\ Abs(D) <= 45000 => AxisDistance(x, y) = Abs(D)
        /\ Abs(D) < 135000 /\ AxisDistance(x, y) <= 45000 => Abs(D) <= 45000
    BY SMT, <1>1, <1>4, <1>5, <1>6, <1>7
  <2>2. QED BY <2>1 DEF D

\* Axes that are near one another, pairwise.
Alike(S) == \A x, y \in S : AxisDistance(x, y) <= Eighth

\* The angle m lies between two of the axes S, turned so that between them
\* lies a turn of each.
Bracketed(S, m) ==
    \E lo, hi \in Int :
        /\ lo <= m /\ m <= hi /\ hi - lo <= Eighth
        /\ \E x \in S : TurnOf(lo, x)
        /\ \E x \in S : TurnOf(hi, x)
        /\ \A x \in S : \E X \in Int : TurnOf(X, x) /\ lo <= X /\ X <= hi

\* Smoothing moves towards what is measured, and not beyond it.
LEMMA SmoothingStaysBetween ==
    ASSUME NEW d \in Int
    PROVE  /\ (35 * d) \div 100 \in Int
           /\ d >= 0 => 0 <= (35 * d) \div 100 /\ (35 * d) \div 100 <= d
           /\ d < 0 => d <= (35 * d) \div 100 /\ (35 * d) \div 100 <= 0
<1> DEFINE q == (35 * d) \div 100
           r == (35 * d) % 100
<1>1. q \in Int /\ r \in 0..99 /\ 35 * d = 100 * q + r
  BY SMT
<1> HIDE DEF q, r
<1>2. /\ d >= 0 => 0 <= q /\ q <= d
      /\ d < 0 => d <= q /\ q <= 0
  BY SMT, <1>1
<1>3. QED BY <1>1, <1>2 DEF q

\* An axis measured near those before has a turn that is near both ends of the bracket
\* and the angle in it.
LEMMA MeasuredIsNear ==
    ASSUME NEW lo \in Int, NEW hi \in Int, NEW m \in Int, NEW axis \in Int,
           NEW x \in Int, TurnOf(lo, x), NEW y \in Int, TurnOf(hi, y),
           lo <= m, m <= hi, hi - lo <= 45000,
           AxisDistance(axis, x) <= 45000, AxisDistance(axis, y) <= 45000,
           NEW X \in Int, TurnOf(X, axis), m - 90000 <= X, X < m + 90000
    PROVE  X - lo <= 45000 /\ lo - X <= 45000 /\ X - hi <= 45000 /\ hi - X <= 45000
<1>1. Abs(X - lo) < 135000
  BY SMT DEF Abs
<1>2. Abs(X - lo) <= 45000
  BY SMT, <1>1, DistanceOfTurns
<1>3. X - lo <= 45000 /\ lo - X <= 45000
  BY SMT, <1>2 DEF Abs
<1>4. Abs(X - hi) < 135000
  BY SMT, <1>3 DEF Abs
<1>5. Abs(X - hi) <= 45000
  BY SMT, <1>4, DistanceOfTurns
<1>6. X - hi <= 45000 /\ hi - X <= 45000
  BY SMT, <1>5 DEF Abs
<1>7. QED BY <1>3, <1>6, SMT

\* An axis measured near those before leaves the angle held between them all.
LEMMA SmoothedIsBracketed ==
    ASSUME NEW S \in SUBSET Int, NEW m \in Int, NEW axis \in Int,
           Alike(S \cup {axis}), Bracketed(S, m)
    PROVE  Bracketed(S \cup {axis}, m + (35 * WrapHalfPi(axis - m)) \div 100)
<1> DEFINE T == S \cup {axis}
           D == axis - m
           d == WrapHalfPi(D)
           s == (35 * d) \div 100
           X == m + d
           v == m + s
<1>1. PICK lo \in Int, hi \in Int :
        /\ lo <= m /\ m <= hi /\ hi - lo <= Eighth
        /\ \E x \in S : TurnOf(lo, x)
        /\ \E x \in S : TurnOf(hi, x)
        /\ \A x \in S : \E Z \in Int : TurnOf(Z, x) /\ lo <= Z /\ Z <= hi
  BY Zenon DEF Bracketed
<1>2. D \in Int
  BY SMT
<1>3. PICK j \in Int : d = D + 180000 * j /\ -90000 <= d /\ d < 90000
  <2> HIDE DEF D
  <2>1. QED BY SMT, <1>2, WrapTurnsBy
<1>4. d \in Int
  <2> HIDE DEF D, d
  <2>1. QED BY SMT, <1>2, <1>3
<1>5. s \in Int /\ (d >= 0 => 0 <= s /\ s <= d) /\ (d < 0 => d <= s /\ s <= 0)
  <2> HIDE DEF d
  <2>1. QED BY SMT, <1>4, SmoothingStaysBetween
<1> HIDE DEF d, s
<1>6. X \in Int /\ TurnOf(X, axis) /\ m - 90000 <= X /\ X < m + 90000
  BY SMT, <1>3, <1>4 DEF TurnOf, HalfTurn
<1>7. PICK x \in S : TurnOf(lo, x)
  BY <1>1, Zenon
<1>8. PICK y \in S : TurnOf(hi, y)
  BY <1>1, Zenon
<1>9. x \in Int /\ y \in Int
  BY SMT
<1>10. AxisDistance(axis, x) <= 45000 /\ AxisDistance(axis, y) <= 45000
  BY SMT DEF Alike, Eighth
<1>11. X - lo <= 45000 /\ lo - X <= 45000 /\ X - hi <= 45000 /\ hi - X <= 45000
  <2> HIDE DEF X
  <2>1. QED BY SMT, <1>1, <1>6, <1>7, <1>8, <1>9, <1>10, MeasuredIsNear DEF Eighth
<1> DEFINE low == IF X < lo THEN X ELSE lo
           high == IF X > hi THEN X ELSE hi
<1>12. low \in Int /\ high \in Int /\ high - low <= Eighth /\ low <= lo /\ hi <= high
       /\ low <= X /\ X <= high /\ low <= v /\ v <= high
  BY SMT, <1>1, <1>4, <1>5, <1>11 DEF Eighth
<1> HIDE DEF X, v
<1>13. (\E z \in T : TurnOf(low, z)) /\ (\E z \in T : TurnOf(high, z))
  BY SMT, <1>6, <1>7, <1>8
<1> HIDE DEF low, high
<1>14. ASSUME NEW z \in T PROVE \E Z \in Int : TurnOf(Z, z) /\ low <= Z /\ Z <= high
  <2>1. CASE z = axis
    BY SMT, <1>6, <1>12, <2>1
  <2>2. CASE z \in S
    <3>1. PICK Z \in Int : TurnOf(Z, z) /\ lo <= Z /\ Z <= hi
      BY SMT, <1>1, <2>2
    <3>2. low <= Z /\ Z <= high
      BY SMT, <1>12, <3>1
    <3>3. QED BY SMT, <3>1, <3>2
  <2>3. QED BY SMT, <2>1, <2>2
<1> HIDE DEF T
<1>15. Bracketed(T, v)
  BY Zenon, <1>12, <1>13, <1>14 DEF Bracketed
<1>16. QED BY SMT, <1>15 DEF T, v, s, d

Axes == Int \cup {NoAxis}

\* Where the axes that count begin in s: the places after which none had been
\* seen for more than HoldFrames frames, and the beginning.
Starts(s) ==
    {i \in 0..Len(s) : i = 0 \/ (i > HoldFrames /\ \A k \in (i - HoldFrames)..i : s[k] = NoAxis)}
Latest(st, s) == st \in Starts(s) /\ \A i \in Starts(s) : i <= st
RecentOf(s) ==
    LET start == CHOOSE i \in Starts(s) : \A k \in Starts(s) : k <= i
    IN {s[i] : i \in (start + 1)..Len(s)} \ {NoAxis}

\* What is recent is what was seen since the latest of these places.
LEMMA RecentSince ==
    ASSUME NEW s \in Seq(Axes), NEW st, Latest(st, s)
    PROVE  RecentOf(s) = {s[i] : i \in (st + 1)..Len(s)} \ {NoAxis}
<1> DEFINE start == CHOOSE i \in Starts(s) : \A k \in Starts(s) : k <= i
<1>1. \E i \in Starts(s) : \A k \in Starts(s) : k <= i
  BY DEF Latest
<1>2. start \in Starts(s) /\ \A k \in Starts(s) : k <= start
  BY <1>1
<1>3. start = st
  <2>1. Starts(s) \subseteq Int
    BY DEF Starts
  <2> HIDE DEF start
  <2>2. start <= st /\ st <= start /\ start \in Int /\ st \in Int
    BY <1>2, <2>1 DEF Latest
  <2>3. QED BY <2>2
<1>4. QED BY <1>3 DEF RecentOf

\* A measurement counts, and nothing else changes.
LEMMA MeasuredCounts ==
    ASSUME NEW s \in Seq(Axes), NEW st, Latest(st, s), NEW axis \in Int
    PROVE  /\ Latest(st, Append(s, axis))
           /\ RecentOf(Append(s, axis)) = RecentOf(s) \cup {axis}
<1> DEFINE t == Append(s, axis)
           n == Len(s)
<1>1. /\ t \in Seq(Axes) /\ n \in Nat /\ Len(t) = n + 1 /\ t[n + 1] = axis
      /\ \A k \in 1..n : t[k] = s[k]
  BY DEF Axes
<1>2. HoldFrames \in Nat /\ axis # NoAxis
  BY LiveAssumption
<1> HIDE DEF t, n
<1>3. Starts(t) = Starts(s)
  <2>1. ASSUME NEW i \in 0..n PROVE i \in Starts(t) <=> i \in Starts(s)
    BY <1>1, <1>2 DEF Starts, n
  <2>2. n + 1 \notin Starts(t)
    BY <1>1, <1>2 DEF Starts
  <2>3. Starts(t) \subseteq 0..(n + 1) /\ Starts(s) \subseteq 0..n
    BY <1>1 DEF Starts, n
  <2>4. QED BY <1>1, <2>1, <2>2, <2>3
<1>4. Latest(st, t) /\ st \in 0..n
  BY <1>3 DEF Latest, Starts, n
<1>5. RecentOf(t) = {t[i] : i \in (st + 1)..(n + 1)} \ {NoAxis}
  BY <1>1, <1>4, RecentSince
<1>6. RecentOf(s) = {s[i] : i \in (st + 1)..n} \ {NoAxis}
  BY RecentSince DEF n
<1>7. {t[i] : i \in (st + 1)..(n + 1)} = {s[i] : i \in (st + 1)..n} \cup {axis}
  BY <1>1, <1>4
<1>8. RecentOf(t) = RecentOf(s) \cup {axis}
  <2> DEFINE A == {t[i] : i \in (st + 1)..(n + 1)}
             B == {s[i] : i \in (st + 1)..n}
  <2>1. A = B \cup {axis} /\ RecentOf(t) = A \ {NoAxis} /\ RecentOf(s) = B \ {NoAxis}
    BY <1>5, <1>6, <1>7
  <2> HIDE DEF A, B
  <2>2. QED BY <1>2, <2>1
<1>9. QED BY <1>4, <1>8 DEF t

\* A miss takes nothing away until there have been more than HoldFrames of them.
LEMMA MissedCounts ==
    ASSUME NEW s \in Seq(Axes), NEW st, Latest(st, s)
    PROVE  LET t == Append(s, NoAxis)
               n == Len(s)
           IN IF n >= HoldFrames /\ \A k \in (n + 1 - HoldFrames)..n : s[k] = NoAxis
              THEN Latest(n + 1, t) /\ RecentOf(t) = {}
              ELSE Latest(st, t) /\ RecentOf(t) = RecentOf(s)
<1> DEFINE t == Append(s, NoAxis)
           n == Len(s)
           gone == n >= HoldFrames /\ \A k \in (n + 1 - HoldFrames)..n : s[k] = NoAxis
<1>1. /\ t \in Seq(Axes) /\ n \in Nat /\ Len(t) = n + 1 /\ t[n + 1] = NoAxis
      /\ \A k \in 1..n : t[k] = s[k]
  BY DEF Axes
<1>2. HoldFrames \in Nat
  BY LiveAssumption
<1> HIDE DEF t, n
<1>3. ASSUME NEW i \in 0..n PROVE i \in Starts(t) <=> i \in Starts(s)
  BY <1>1, <1>2, SMTT(40) DEF Starts, n
<1>4. n + 1 \in Starts(t) <=> gone
  <2> DEFINE l == n + 1
             all == \A k \in (l - HoldFrames)..l : t[k] = NoAxis
             before == \A k \in (n + 1 - HoldFrames)..n : s[k] = NoAxis
  <2>1. l \in 0..Len(t) /\ l # 0 /\ l \in Nat
    BY <1>1
  <2>2. l > HoldFrames => (all <=> before)
    BY <1>1, <1>2
  <2>3. l > HoldFrames <=> n >= HoldFrames
    BY <1>1, <1>2
  <2>4. gone <=> n >= HoldFrames /\ before
    OBVIOUS
  <2>5. l \in Starts(t) <=> l > HoldFrames /\ all
    <3> HIDE DEF l
    <3>1. QED BY <2>1, Zenon DEF Starts
  <2> HIDE DEF all, before, gone
  <2>6. l \in Starts(t) <=> gone
    BY <2>2, <2>3, <2>4, <2>5
  <2>7. QED BY <2>6
<1>5. Starts(t) \subseteq 0..(n + 1) /\ Starts(s) \subseteq 0..n
  BY <1>1 DEF Starts, n
<1> HIDE DEF gone
<1>6. CASE gone
  <2>1. Latest(n + 1, t)
    BY <1>1, <1>4, <1>5, <1>6 DEF Latest
  <2>2. RecentOf(t) = {t[i] : i \in (n + 1 + 1)..(n + 1)} \ {NoAxis}
    BY <1>1, <2>1, RecentSince
  <2>3. RecentOf(t) = {}
    BY <1>1, <2>2
  <2>4. QED BY <1>6, <2>1, <2>3 DEF gone, t, n
<1>7. CASE ~gone
  <2>1. Starts(t) = Starts(s)
    <3>1. \A i \in 0..n : i \in Starts(t) <=> i \in Starts(s)
      BY <1>3
    <3>2. n + 1 \notin Starts(t)
      BY <1>4, <1>7
    <3>3. \A i \in 0..(n + 1) : i = n + 1 \/ i \in 0..n
      BY <1>1
    <3>4. \A i \in 0..n : i \in 0..(n + 1)
      BY <1>1
    <3>5. QED BY <1>5, <3>1, <3>2, <3>3, <3>4, Zenon
  <2>2. Latest(st, t) /\ st \in 0..n
    BY <1>5, <2>1 DEF Latest
  <2>3. RecentOf(t) = {t[i] : i \in (st + 1)..(n + 1)} \ {NoAxis}
    BY <1>1, <2>2, RecentSince
  <2>4. RecentOf(s) = {s[i] : i \in (st + 1)..n} \ {NoAxis}
    BY RecentSince DEF n
  <2>5. {t[i] : i \in (st + 1)..(n + 1)} = {s[i] : i \in (st + 1)..n} \cup {NoAxis}
    BY <1>1, <2>2
  <2>6. RecentOf(t) = RecentOf(s)
    BY <2>3, <2>4, <2>5
  <2>7. QED BY <1>7, <2>2, <2>6 DEF gone, t, n
<1>8. QED BY <1>6, <1>7

\* The adapter's memory a after the axes s.  An angle is held while an axis is
\* recent, the frames since the last one are counted, and it is among the recent.
Held(s, a) ==
    /\ a.mother_angle # NoAxis <=> RecentOf(s) # {}
    /\ a.mother_angle # NoAxis =>
          /\ a.lost <= HoldFrames /\ a.lost < Len(s)
          /\ s[Len(s) - a.lost] # NoAxis
          /\ \A k \in (Len(s) - a.lost + 1)..Len(s) : s[k] = NoAxis
    /\ RecentOf(s) # {} /\ Alike(RecentOf(s)) => Bracketed(RecentOf(s), a.mother_angle)

AdapterType == [mother_angle : Axes, lost : Nat]

\* A measurement is held, smoothed if one is held.
LEMMA HeldMeasured ==
    ASSUME NEW s \in Seq(Axes), NEW st, Latest(st, s), NEW a \in AdapterType, Held(s, a),
           NEW axis \in Int
    PROVE  AngleAfter(a, axis) \in AdapterType /\ Held(Append(s, axis), AngleAfter(a, axis))
<1> DEFINE t == Append(s, axis)
           b == AngleAfter(a, axis)
           R == RecentOf(s)
           m == a.mother_angle
           smoothed == m + (35 * WrapHalfPi(axis - m)) \div 100
<1>1. axis # NoAxis /\ HoldFrames \in Nat /\ Len(t) = Len(s) + 1 /\ t[Len(s) + 1] = axis /\ Len(s) \in Nat
  BY LiveAssumption, SMT DEF Axes
<1>2. RecentOf(t) = R \cup {axis}
  BY MeasuredCounts
<1>3. R \subseteq Int
  <2>1. R = {s[i] : i \in (st + 1)..Len(s)} \ {NoAxis} /\ st \in 0..Len(s)
    BY RecentSince, SMT DEF Latest, Starts
  <2> HIDE DEF R
  <2>2. QED BY SMT, <2>1 DEF Axes
<1>4. m \in Axes
  BY SMT DEF AdapterType
<1>5. b = [mother_angle |-> IF m = NoAxis THEN axis ELSE smoothed, lost |-> 0]
  BY <1>1, Zenon DEF AngleAfter
<1> HIDE DEF b
<1>6. m # NoAxis => smoothed \in Int /\ m \in Int
  <2> SUFFICES ASSUME m # NoAxis PROVE smoothed \in Int /\ m \in Int
    BY Zenon
  <2>1. m \in Int
    BY <1>4, Zenon DEF Axes
  <2> DEFINE D == axis - m
             d == WrapHalfPi(D)
  <2> HIDE DEF m
  <2>2. D \in Int
    BY SMT, <2>1
  <2>3. d \in Int
    BY <2>2, SMT DEF WrapHalfPi
  <2>4. (35 * d) \div 100 \in Int
    <3> HIDE DEF d
    <3>1. QED BY SMT, <2>3, SmoothingStaysBetween
  <2>5. QED
    <3> DEFINE e == (35 * d) \div 100
    <3> HIDE DEF e
    <3>1. m + e \in Int
      BY SMT, <2>1, <2>4 DEF e
    <3>2. QED BY <2>1, <3>1, Zenon DEF e, d, D
<1> HIDE DEF smoothed
<1>7. b.mother_angle = (IF m = NoAxis THEN axis ELSE smoothed) /\ b.lost = 0 /\ b.mother_angle \in Int
      /\ b \in AdapterType
  <2> HIDE DEF m
  <2>1. b.mother_angle = (IF m = NoAxis THEN axis ELSE smoothed) /\ b.lost = 0
    BY <1>5, SMT
  <2>2. b.mother_angle \in Int
    BY <1>6, <2>1, SMT
  <2>3. QED BY <1>5, <1>6, <2>1, <2>2, SMT DEF AdapterType, Axes
<1>8. b.mother_angle # NoAxis /\ RecentOf(t) # {}
  BY <1>2, <1>7, LiveAssumption, Zenon
<1>9. /\ b.lost <= HoldFrames /\ b.lost < Len(t) /\ t[Len(t) - b.lost] # NoAxis
      /\ \A k \in (Len(t) - b.lost + 1)..Len(t) : t[k] = NoAxis
  <2> HIDE DEF t
  <2>1. b.lost = 0
    BY <1>7
  <2> DEFINE n == Len(s)
  <2>2. n \in Nat /\ Len(t) = n + 1 /\ t[n + 1] # NoAxis
    BY <1>1
  <2>3. 0 <= HoldFrames /\ 0 < Len(t) /\ Len(t) - 0 = n + 1 /\ Len(t) - 0 + 1 = n + 2
    BY SMT, <1>1, <2>2
  <2>4. t[Len(t) - 0] # NoAxis /\ \A k \in (Len(t) - 0 + 1)..Len(t) : t[k] = NoAxis
    BY SMT, <2>2, <2>3
  <2>5. QED BY SMT, <2>1, <2>3, <2>4
<1>10. ASSUME Alike(RecentOf(t)) PROVE Bracketed(RecentOf(t), b.mother_angle)
  <2> HIDE DEF t
  <2>1. CASE m = NoAxis
    <3>1. RecentOf(t) = {axis} /\ b.mother_angle = axis
      BY <1>2, <1>7, <2>1, Zenon DEF Held
    <3>2. TurnOf(axis, axis)
      BY SMT DEF TurnOf, HalfTurn
    <3>3. axis <= axis /\ axis - axis <= Eighth
      BY SMT DEF Eighth
    <3>4. Bracketed({axis}, axis)
      BY <3>2, <3>3, Zenon DEF Bracketed
    <3>5. QED BY <3>1, <3>4
  <2>2. CASE m # NoAxis
    <3>1. R # {} /\ m \in Int /\ b.mother_angle = smoothed
      BY <1>6, <1>7, <2>2, Zenon DEF Held
    <3>2. Alike(R \cup {axis})
      BY <1>2, <1>10, Zenon
    <3>3. Alike(R)
      BY <3>2, Zenon DEF Alike
    <3>4. Bracketed(R, m)
      BY <3>1, <3>3, Zenon DEF Held
    <3> HIDE DEF R, m
    <3>5. R \in SUBSET Int
      BY <1>3, Zenon
    <3>6. Bracketed(R \cup {axis}, smoothed)
      BY <3>1, <3>2, <3>4, <3>5, SmoothedIsBracketed, Zenon DEF smoothed
    <3>7. QED BY <1>2, <3>1, <3>6, Zenon
  <2>3. QED BY <2>1, <2>2, Zenon
<1>11. Held(t, b)
  <2> HIDE DEF t
  <2>1. QED BY <1>8, <1>9, <1>10, Zenon DEF Held
<1>12. QED BY <1>7, <1>11, Zenon DEF b, t

\* A miss is counted while the angle is held, and one too many takes it away.
LEMMA HeldMissed ==
    ASSUME NEW s \in Seq(Axes), NEW st, Latest(st, s), NEW a \in AdapterType, Held(s, a)
    PROVE  AngleAfter(a, NoAxis) \in AdapterType /\ Held(Append(s, NoAxis), AngleAfter(a, NoAxis))
<1> DEFINE t == Append(s, NoAxis)
           b == AngleAfter(a, NoAxis)
           n == Len(s)
           gone == n >= HoldFrames /\ \A k \in (n + 1 - HoldFrames)..n : s[k] = NoAxis
<1>1. /\ n \in Nat /\ Len(t) = n + 1 /\ t[n + 1] = NoAxis
      /\ \A k \in 1..n : t[k] = s[k]
  BY SMT DEF Axes
<1>2. HoldFrames \in Nat
  BY LiveAssumption
<1>3. a.mother_angle \in Axes /\ a.lost \in Nat
      /\ a = [mother_angle |-> a.mother_angle, lost |-> a.lost]
  BY SMT DEF AdapterType
<1>4. IF gone THEN RecentOf(t) = {} ELSE RecentOf(t) = RecentOf(s)
  BY MissedCounts, Zenon
<1> HIDE DEF gone
<1>5. CASE a.mother_angle = NoAxis
  <2>1. RecentOf(t) = {}
    BY <1>4, <1>5, Zenon DEF Held
  <2>2. b = [a EXCEPT !.mother_angle = NoAxis]
    BY <1>5, Zenon DEF AngleAfter
  <2>3. b \in AdapterType /\ b.mother_angle = NoAxis
    <3> HIDE DEF b
    <3>1. QED BY <1>3, <2>2, SMT DEF AdapterType, Axes
  <2> HIDE DEF t, b
  <2>4. Held(t, b)
    BY <2>1, <2>3, Zenon DEF Held
  <2>5. QED BY <2>3, <2>4, Zenon DEF t, b
<1>6. CASE a.mother_angle # NoAxis
  <2> DEFINE l == a.lost
  <2>1. /\ l \in Nat /\ l <= HoldFrames /\ l < n /\ s[n - l] # NoAxis
        /\ \A k \in (n - l + 1)..n : s[k] = NoAxis
    BY <1>3, <1>6 DEF Held
  <2>2. CASE l < HoldFrames
    <3>1. b = [a EXCEPT !.lost = l + 1]
      BY <1>6, <2>2, Zenon DEF AngleAfter
    <3>2. b \in AdapterType /\ b.mother_angle = a.mother_angle /\ b.lost = l + 1
      <4> HIDE DEF b
      <4>1. QED BY <1>3, <3>1, SMT DEF AdapterType, Axes
    <3>3. ~gone
      <4>1. ASSUME gone PROVE FALSE
        <5>1. n - l \in (n + 1 - HoldFrames)..n
          BY SMT, <1>1, <1>2, <2>1, <2>2
        <5>2. QED BY <2>1, <4>1, <5>1, Zenon DEF gone
      <4>2. QED BY <4>1
    <3>4. RecentOf(t) = RecentOf(s) /\ RecentOf(s) # {}
      BY <1>4, <1>6, <3>3, Zenon DEF Held
    <3>5. /\ l + 1 <= HoldFrames /\ l + 1 < n + 1
          /\ t[(n + 1) - (l + 1)] # NoAxis
          /\ \A k \in ((n + 1) - (l + 1) + 1)..(n + 1) : t[k] = NoAxis
      <4> HIDE DEF t, n, l
      <4>1. (n + 1) - (l + 1) = n - l /\ n - l \in 1..n /\ l + 1 <= HoldFrames /\ l + 1 < n + 1
        BY SMT, <1>1, <1>2, <2>1, <2>2
      <4>2. t[n - l] # NoAxis
        BY <1>1, <2>1, <4>1, Zenon
      <4>3. ASSUME NEW k \in (n - l + 1)..(n + 1) PROVE t[k] = NoAxis
        <5>1. k = n + 1 \/ (k \in (n - l + 1)..n /\ k \in 1..n)
          BY SMT, <1>1, <2>1, <4>1
        <5>2. QED BY <1>1, <2>1, <5>1, Zenon
      <4>4. QED BY <4>1, <4>2, <4>3
    <3> HIDE DEF t, b, n
    <3>6. Held(t, b)
      <4>1. /\ b.lost <= HoldFrames /\ b.lost < Len(t) /\ t[Len(t) - b.lost] # NoAxis
            /\ \A k \in (Len(t) - b.lost + 1)..Len(t) : t[k] = NoAxis
        BY <1>1, <3>2, <3>5
      <4>2. Alike(RecentOf(t)) => Bracketed(RecentOf(t), b.mother_angle)
        BY <3>2, <3>4, Zenon DEF Held
      <4>3. QED BY <1>6, <3>2, <3>4, <4>1, <4>2, Zenon DEF Held
    <3>7. QED BY <3>2, <3>6, Zenon DEF t, b
  <2>3. CASE ~(l < HoldFrames)
    <3>1. b = [a EXCEPT !.mother_angle = NoAxis]
      BY <1>6, <2>3, Zenon DEF AngleAfter
    <3>2. b \in AdapterType /\ b.mother_angle = NoAxis
      <4> HIDE DEF b
      <4>1. QED BY <1>3, <3>1, SMT DEF AdapterType, Axes
    <3>3. gone
      <4>1. l = HoldFrames /\ n >= HoldFrames /\ n + 1 - HoldFrames = n - l + 1
        BY SMT, <1>1, <1>2, <2>1, <2>3
      <4>2. QED BY <2>1, <4>1 DEF gone
    <3>4. RecentOf(t) = {}
      BY <1>4, <3>3, Zenon
    <3> HIDE DEF t, b
    <3>5. Held(t, b)
      BY <3>2, <3>4, Zenon DEF Held
    <3>6. QED BY <3>2, <3>5, Zenon DEF t, b
  <2>4. QED BY <2>2, <2>3, Zenon
<1>7. QED BY <1>5, <1>6, Zenon

\* What is kept between frames, with the axes that the adapter's memory rests on.
KeptInv ==
    /\ recipe_id \in DOMAIN RECIPE_TO_MODEL
    /\ (final_check # "none") <=> passed
    /\ passed => final_check = RECIPE_TO_MODEL[recipe_id]
    /\ looks \in Seq(Axes) /\ adapter \in AdapterType
    /\ \E st : Latest(st, looks)
    /\ Held(looks, adapter)

\* Nothing is kept at first, nor after a key.
LEMMA NothingHeld == (\E st : Latest(st, <<>>)) /\ Held(<<>>, NewAdapter) /\ NewAdapter \in AdapterType
<1>1. <<>> \in Seq(Axes) /\ Len(<<>>) = 0
  OBVIOUS
<1>2. Latest(0, <<>>)
  BY <1>1, LiveAssumption DEF Latest, Starts
<1>3. RecentOf(<<>>) = {}
  <2>1. RecentOf(<<>>) = {<<>>[i] : i \in (0 + 1)..Len(<<>>)} \ {NoAxis}
    BY <1>1, <1>2, RecentSince, Zenon
  <2>2. (0 + 1)..Len(<<>>) = {}
    BY <1>1, SMT
  <2>3. QED BY <2>1, <2>2, Zenon
<1>4. NewAdapter.mother_angle = NoAxis /\ NewAdapter \in AdapterType
  BY SMT DEF NewAdapter, AdapterType, Axes
<1>5. QED BY <1>2, <1>3, <1>4, Zenon DEF Held

\* A session begins with nothing kept.
LEMMA KeptInit == LiveInit => KeptInv
<1> SUFFICES ASSUME LiveInit PROVE KeptInv
  OBVIOUS
<1>1. recipe_id \in DOMAIN RECIPE_TO_MODEL /\ <<>> \in Seq(Axes)
  BY SMT DEF LiveInit, RECIPE_TO_MODEL
<1>2. final_check = "none" /\ ~passed /\ looks = <<>> /\ adapter = NewAdapter
  BY DEF LiveInit
<1>3. QED BY <1>1, <1>2, NothingHeld, Zenon DEF KeptInv

\* A frame that is judged leaves behind only what belongs to the product it shows.
LEMMA KeptFrame ==
    ASSUME KeptInv, NEW view \in Views, NEW late \in {0, 1}, Inspect(view, late)
    PROVE  KeptInv'
<1>1. /\ recipe_id' = recipe_id /\ adapter' = AngleAfter(adapter, view.axis)
      /\ looks' = Append(looks, view.axis)
      /\ final_check' = IF final_check = "none" /\ core'.status = "PASS" /\ core'.stable
                        THEN RECIPE_TO_MODEL[recipe_id] ELSE final_check
      /\ passed' = (passed \/ (core'.status = "PASS" /\ core'.stable))
  BY DEF Inspect
<1>2. looks \in Seq(Axes) /\ adapter \in AdapterType /\ Held(looks, adapter)
  BY DEF KeptInv
<1>3. PICK st : Latest(st, looks)
  BY DEF KeptInv
<1>4. RECIPE_TO_MODEL[recipe_id] # "none"
  BY SMT DEF KeptInv, RECIPE_TO_MODEL
<1>5. /\ (final_check' # "none") <=> passed'
      /\ passed' => final_check' = RECIPE_TO_MODEL[recipe_id']
  BY <1>1, <1>4, Zenon DEF KeptInv
<1>6. view.axis \in Int \/ view.axis = NoAxis
  BY LiveAssumption, Zenon
<1>7. looks' \in Seq(Axes)
  BY <1>1, <1>2, <1>6, SMT DEF Axes
<1>8. adapter' \in AdapterType /\ Held(looks', adapter') /\ \E i : Latest(i, looks')
  <2>1. CASE view.axis \in Int
    BY <1>1, <1>2, <1>3, <2>1, HeldMeasured, MeasuredCounts, Zenon
  <2>2. CASE view.axis = NoAxis
    <3>1. \E i : Latest(i, Append(looks, NoAxis))
      BY <1>2, <1>3, MissedCounts, Zenon
    <3>2. QED BY <1>1, <1>2, <1>3, <2>2, <3>1, HeldMissed, Zenon
  <2>3. QED BY <1>6, <2>1, <2>2
<1>9. recipe_id' \in DOMAIN RECIPE_TO_MODEL
  BY <1>1 DEF KeptInv
<1>10. QED BY <1>5, <1>7, <1>8, <1>9, Zenon DEF KeptInv

\* Every step of an inspection keeps the invariant of what is kept.
LEMMA KeptKept == KeptInv /\ [LiveNext]_live => KeptInv'
<1> SUFFICES ASSUME KeptInv, [LiveNext]_live PROVE KeptInv'
  OBVIOUS
<1>1. CASE \E view \in Views, late \in {0, 1} : Inspect(view, late)
  BY <1>1, KeptFrame
<1>2. ASSUME UNCHANGED <<recipe_id, adapter, final_check, looks, passed>> PROVE KeptInv'
  BY <1>2, Zenon DEF KeptInv
<1>3. CASE LimitReached \/ ReadEnds \/ Quit \/ Raise \/ Killed \/ NoKey \/ UNCHANGED live
  <2>1. UNCHANGED <<recipe_id, adapter, final_check, looks, passed>>
    BY <1>3, Zenon DEF LimitReached, ReadEnds, Quit, Raise, Killed, NoKey, Exit, live
  <2>2. QED BY <1>2, <2>1
<1>4. CASE \E next \in DOMAIN RECIPE_TO_MODEL : Choose(next)
  <2>1. PICK next \in DOMAIN RECIPE_TO_MODEL : Choose(next)
    BY <1>4
  <2>2. /\ recipe_id' = next /\ final_check' = "none" /\ ~passed' /\ looks' = <<>>
        /\ adapter' = NewAdapter
    BY <2>1, Zenon DEF Choose, Forget
  <2>3. <<>> \in Seq(Axes)
    OBVIOUS
  <2>4. QED BY <2>1, <2>2, <2>3, NothingHeld, Zenon DEF KeptInv
<1>5. QED BY <1>1, <1>3, <1>4, Zenon DEF LiveNext

\* An angle held in a bracket of axes that are near one another is as near to each of
\* them as two of them are.
LEMMA HeldIsNear ==
    ASSUME NEW S \in SUBSET Int, NEW m \in Int, Bracketed(S, m), NEW x \in S
    PROVE  \E y, z \in S : AxisDistance(m, x) <= AxisDistance(y, z)
<1>1. PICK lo \in Int, hi \in Int :
        /\ lo <= m /\ m <= hi /\ hi - lo <= Eighth
        /\ \E y \in S : TurnOf(lo, y)
        /\ \E y \in S : TurnOf(hi, y)
        /\ \A y \in S : \E X \in Int : TurnOf(X, y) /\ lo <= X /\ X <= hi
  BY Zenon DEF Bracketed
<1>2. PICK z \in S : TurnOf(lo, z)
  BY <1>1, Zenon
<1>3. PICK y \in S : TurnOf(hi, y)
  BY <1>1, Zenon
<1>4. PICK X \in Int : TurnOf(X, x) /\ lo <= X /\ X <= hi
  BY <1>1, Zenon
<1>5. x \in Int /\ y \in Int /\ z \in Int
  BY SMT
<1>6. TurnOf(m, m)
  BY SMT DEF TurnOf, HalfTurn
<1>7. AxisDistance(m, x) = Abs(m - X)
  <2>1. Abs(m - X) <= 45000
    BY SMT, <1>1, <1>4 DEF Abs, Eighth
  <2>2. QED BY SMT, <1>4, <1>5, <1>6, <2>1, DistanceOfTurns
<1>8. AxisDistance(y, z) = Abs(hi - lo)
  <2>1. Abs(hi - lo) <= 45000
    BY SMT, <1>1 DEF Abs, Eighth
  <2>2. QED BY SMT, <1>1, <1>2, <1>3, <1>5, <2>1, DistanceOfTurns
<1>9. Abs(m - X) <= Abs(hi - lo)
  BY SMT, <1>1, <1>4 DEF Abs
<1>10. QED BY <1>7, <1>8, <1>9, Zenon

\* For frames that show whatever axes and however many misses the adapter bridges, an
\* inspection keeps a final check exactly after a stable PASS since the last key, an
\* angle exactly while the Mother was measured since that key and not lost too long,
\* and that angle lies between the measurements (live_inspection.py main,
\* rtdetr_adapter.py convert).
THEOREM NothingIsKeptOver == LiveInit /\ [][LiveNext]_live => []KeptIsOfThisProduct
<1>1. ASSUME KeptInv PROVE KeptIsOfThisProduct
  <2> DEFINE R == Recent
             m == adapter.mother_angle
  <2>1. R = RecentOf(looks)
    BY DEF Recent, RecentOf, Starts
  <2>2. PICK st : Latest(st, looks)
    BY <1>1, Zenon DEF KeptInv
  <2>3. looks \in Seq(Axes) /\ m \in Axes
    BY <1>1, SMT DEF KeptInv, AdapterType
  <2>4. (m # NoAxis <=> R # {}) /\ (R # {} /\ Alike(R) => Bracketed(R, m))
    BY <1>1, <2>1, Zenon DEF KeptInv, Held
  <2>5. R \in SUBSET Int
    <3> HIDE DEF R
    <3>1. R = {looks[i] : i \in (st + 1)..Len(looks)} \ {NoAxis} /\ st \in 0..Len(looks)
      BY <2>1, <2>2, <2>3, RecentSince, SMT DEF Latest, Starts
    <3>2. QED BY SMT, <2>3, <3>1 DEF Axes
  <2>6. ASSUME \A x, y \in R : AxisDistance(x, y) <= 45000
        PROVE  \A x \in R : \E y, z \in R : AxisDistance(m, x) <= AxisDistance(y, z)
    <3> HIDE DEF R, m
    <3>1. Alike(R)
      BY <2>6, SMT DEF Alike, Eighth
    <3>2. ASSUME NEW x \in R
          PROVE  \E y, z \in R : AxisDistance(m, x) <= AxisDistance(y, z)
      <4>1. R # {}
        OBVIOUS
      <4>2. m \in Int
        BY <2>3, <2>4, <4>1 DEF Axes
      <4>3. Bracketed(R, m)
        BY <2>4, <3>1, <4>1
      <4>4. QED BY <2>5, <3>2, <4>2, <4>3, HeldIsNear, Zenon
    <3>3. QED BY <3>2, Zenon
  <2>7. (final_check # "none") <=> passed
    BY <1>1, Zenon DEF KeptInv
  <2>8. passed => final_check = RECIPE_TO_MODEL[recipe_id]
    BY <1>1, Zenon DEF KeptInv
  <2>9. (m # NoAxis) <=> (R # {})
    BY <2>4, Zenon
  <2>10. (\A x, y \in R : AxisDistance(x, y) <= 45000)
         => \A x \in R : \E y, z \in R : AxisDistance(m, x) <= AxisDistance(y, z)
    <3> HIDE DEF R, m
    <3>1. HAVE \A x, y \in R : AxisDistance(x, y) <= 45000
    <3>2. QED BY <2>6, <3>1
  <2>11. QED BY <2>7, <2>8, <2>9, <2>10 DEF KeptIsOfThisProduct
<1>2. QED BY <1>1, KeptInit, KeptKept, PTL

-----------------------------------------------------------------------------
(* Training: what is learned from, for any photos, folders, groups and     *)
(* albums                                                                  *)

TrainingInit == DatasetsInit /\ ClassificationInit

\* The programs run in any order, one at a time, and can be broken off.
TrainingNext ==
    \/ (\E model \in DOMAIN Formats : SetNext(model)) /\ UNCHANGED classifier
    \/ CarvedNext /\ UNCHANGED classifier
    \/ ClassificationNext /\ UNCHANGED datasets

training == <<datasets, classifier>>
-----------------------------------------------------------------------------
(* The sets made of all sources                                            *)

\* While a set is built in an empty folder, what is in it is among the pictures seen.
UnseenInv ==
    /\ DOMAIN sets = DOMAIN Formats
    /\ DOMAIN building = {"model", "next", "seen"}
    /\ building # Idle =>
          /\ building.model \in DOMAIN Formats
          /\ LET set == sets[building.model] IN
             building.model \notin reused => Pictures(set.train) \cup Pictures(set.val) \subseteq building.seen
    /\ \A model \in DOMAIN sets \ reused :
          Pictures(sets[model].train) \cap Pictures(sets[model].val) = {}

\* Files written into a folder add no pictures but theirs.
LEMMA IntoAdds ==
    ASSUME NEW folder, NEW items
    PROVE  Pictures(Into(folder, items)) \subseteq Pictures(folder) \cup Pictures(items)
BY DEF Pictures, Into

\* So do files of which the last is copied without its label.
LEMMA CopyUntilAdds ==
    ASSUME NEW folder, NEW files, NEW at
    PROVE  Pictures(CopyUntil(folder, files, at)) \subseteq Pictures(folder) \cup Pictures(files)
<1> DEFINE there == Into(folder, files \ {at})
           left == {old.label : old \in {item \in there : item.name = at.name}} \cup {NoLabel}
           label == CHOOSE l \in left : l # NoLabel \/ left = {NoLabel}
           bare == [at EXCEPT !.label = label]
<1>1. CopyUntil(folder, files, at) = IF at \notin files THEN there ELSE Into(there, {bare})
  BY DEF CopyUntil
<1>2. Pictures(there) \subseteq Pictures(folder) \cup Pictures(files)
  <2>1. Pictures(there) \subseteq Pictures(folder) \cup Pictures(files \ {at})
    BY IntoAdds
  <2>2. Pictures(files \ {at}) \subseteq Pictures(files)
    BY DEF Pictures
  <2>3. QED BY <2>1, <2>2
<1> HIDE DEF there, label
<1>3. bare.picture = at.picture
  OBVIOUS
<1> HIDE DEF bare
<1>4. Pictures(Into(there, {bare})) \subseteq Pictures(there) \cup Pictures({bare})
  BY IntoAdds
<1>5. at \in files => Pictures({bare}) \subseteq Pictures(files)
  BY <1>3 DEF Pictures
<1>6. QED BY <1>1, <1>2, <1>4, <1>5

\* A group split and copied shares no picture with what is there, nor its two parts
\* with each other.
LEMMA SplitKeepsApart ==
    ASSUME UnseenInv, SplitAndCopy
    PROVE  UnseenInv'
<1> DEFINE model == building.model
           g == Groups[building.next]
           items == {Converted(item, model, g.source) : item \in GroupItems(g)}
<1>1. /\ building # Idle /\ UNCHANGED reused
      /\ \E drawn \in SUBSET items : \E val \in Picks(drawn, building.seen) :
         \E train \in Picks(items \ drawn, building.seen \cup Pictures(val)) :
            /\ sets' = [sets EXCEPT ![model] = [train |-> Into(@.train, train), val |-> Into(@.val, val)]]
            /\ building' = [building EXCEPT !.next = @ + 1, !.seen = @ \cup Pictures(train \cup val)]
  BY Zenon DEF SplitAndCopy
<1> HIDE DEF items
<1> DEFINE Copied(val, train) ==
      /\ sets' = [sets EXCEPT ![model] = [train |-> Into(@.train, train), val |-> Into(@.val, val)]]
      /\ building' = [building EXCEPT !.next = @ + 1, !.seen = @ \cup Pictures(train \cup val)]
<1>2. PICK drawn \in SUBSET items : \E val \in Picks(drawn, building.seen) :
         \E train \in Picks(items \ drawn, building.seen \cup Pictures(val)) : Copied(val, train)
  BY <1>1, Zenon
<1>2a. PICK val \in Picks(drawn, building.seen) :
         \E train \in Picks(items \ drawn, building.seen \cup Pictures(val)) : Copied(val, train)
  BY <1>2, Zenon
<1>3. PICK train \in Picks(items \ drawn, building.seen \cup Pictures(val)) : Copied(val, train)
  BY <1>2a, Zenon
<1>4. Pictures(val) \cap building.seen = {} /\ Pictures(train) \cap (building.seen \cup Pictures(val)) = {}
  <2>1. Pictures(val) = Pictures({item \in drawn : item.label # NoLabel}) \ building.seen
    BY Zenon DEF Picks
  <2>2. Pictures(train) = Pictures({item \in items \ drawn : item.label # NoLabel}) \ (building.seen \cup Pictures(val))
    BY Zenon DEF Picks
  <2>3. QED BY <2>1, <2>2
<1>5. /\ DOMAIN sets = DOMAIN Formats /\ DOMAIN building = {"model", "next", "seen"} /\ model \in DOMAIN Formats
      /\ model \notin reused => Pictures(sets[model].train) \cup Pictures(sets[model].val) \subseteq building.seen
      /\ \A m \in DOMAIN sets \ reused : Pictures(sets[m].train) \cap Pictures(sets[m].val) = {}
  BY <1>1 DEF UnseenInv
<1> DEFINE set == [train |-> Into(sets[model].train, train), val |-> Into(sets[model].val, val)]
<1>6. sets' = [sets EXCEPT ![model] = set]
  BY <1>3, Zenon
<1>7. set.train = Into(sets[model].train, train) /\ set.val = Into(sets[model].val, val)
  OBVIOUS
<1> HIDE DEF set
<1>8. sets'[model] = set /\ DOMAIN sets' = DOMAIN Formats
      /\ \A m \in DOMAIN Formats \ {model} : sets'[m] = sets[m]
  BY <1>5, <1>6
<1>9. building'.model = model /\ DOMAIN building' = {"model", "next", "seen"}
      /\ building'.seen = building.seen \cup Pictures(train \cup val)
  <2> DEFINE next == building.next + 1
             seen == building.seen \cup Pictures(train \cup val)
  <2>1. building' = [building EXCEPT !.next = next, !.seen = seen]
    BY <1>3, Zenon
  <2> HIDE DEF next, seen
  <2>2. building'.model = model /\ DOMAIN building' = {"model", "next", "seen"} /\ building'.seen = seen
    BY <1>5, <2>1
  <2>3. QED BY <2>2 DEF seen
<1>10. Pictures(train \cup val) = Pictures(train) \cup Pictures(val)
  BY DEF Pictures
<1>11. /\ Pictures(set.train) \subseteq Pictures(sets[model].train) \cup Pictures(train)
       /\ Pictures(set.val) \subseteq Pictures(sets[model].val) \cup Pictures(val)
  BY <1>7, IntoAdds, Zenon
<1> DEFINE T == Pictures(sets[model].train)
           V == Pictures(sets[model].val)
           t == Pictures(train)
           v == Pictures(val)
           S == building.seen
<1>12. ASSUME model \notin reused
       PROVE  /\ Pictures(set.train) \cup Pictures(set.val) \subseteq building'.seen
              /\ Pictures(set.train) \cap Pictures(set.val) = {}
  <2>1. T \cup V \subseteq S /\ T \cap V = {}
    BY <1>5, <1>12
  <2>2. v \cap S = {} /\ t \cap (S \cup v) = {} /\ building'.seen = S \cup t \cup v
    BY <1>4, <1>9, <1>10
  <2>3. Pictures(set.train) \subseteq T \cup t /\ Pictures(set.val) \subseteq V \cup v
    BY <1>11
  <2> HIDE DEF T, V, t, v, S
  <2>4. QED BY <2>1, <2>2, <2>3
<1> HIDE DEF model
<1>13. \A m \in DOMAIN sets' \ reused' : Pictures(sets'[m].train) \cap Pictures(sets'[m].val) = {}
  <2> TAKE m \in DOMAIN sets' \ reused'
  <2>1. CASE m = model
    BY <1>1, <1>8, <1>12, <2>1
  <2>2. CASE m # model
    BY <1>1, <1>5, <1>8, <2>2
  <2>3. QED BY <2>1, <2>2
<1>14. QED BY <1>1, <1>5, <1>8, <1>9, <1>12, <1>13 DEF UnseenInv

\* Nor does a part of it, when the program ends.
LEMMA BreakKeepsApart ==
    ASSUME UnseenInv, BreakBuild
    PROVE  UnseenInv'
<1> DEFINE model == building.model
           g == Groups[building.next]
           items == {Converted(item, model, g.source) : item \in GroupItems(g)}
           Copied(files, train, val, at) ==
              /\ sets' = [sets EXCEPT ![model] = [train |-> CopyUntil(@.train, files \cap train, at),
                                                  val |-> CopyUntil(@.val, files \cap val, at)]]
              /\ building' = Idle
<1>1. /\ building # Idle /\ UNCHANGED reused
      /\ \E drawn \in SUBSET items : \E val \in Picks(drawn, building.seen) :
         \E train \in Picks(items \ drawn, building.seen \cup Pictures(val)) :
         \E at \in val \cup train, files \in SUBSET (val \cup train) : Copied(files, train, val, at)
  BY ZenonT(40) DEF BreakBuild
<1> HIDE DEF items, Copied
<1>2. PICK drawn \in SUBSET items : \E val \in Picks(drawn, building.seen) :
         \E train \in Picks(items \ drawn, building.seen \cup Pictures(val)) :
         \E at \in val \cup train, files \in SUBSET (val \cup train) : Copied(files, train, val, at)
  BY <1>1, Zenon
<1>3. PICK val \in Picks(drawn, building.seen) :
         \E train \in Picks(items \ drawn, building.seen \cup Pictures(val)) :
         \E at \in val \cup train, files \in SUBSET (val \cup train) : Copied(files, train, val, at)
  BY <1>2, Zenon
<1>4. PICK train \in Picks(items \ drawn, building.seen \cup Pictures(val)) :
         \E at \in val \cup train, files \in SUBSET (val \cup train) : Copied(files, train, val, at)
  BY <1>3, Zenon
<1>5. PICK at \in val \cup train, files \in SUBSET (val \cup train) : Copied(files, train, val, at)
  BY <1>4, Zenon
<1>6. Pictures(val) \cap building.seen = {} /\ Pictures(train) \cap (building.seen \cup Pictures(val)) = {}
  <2>1. Pictures(val) = Pictures({item \in drawn : item.label # NoLabel}) \ building.seen
    BY Zenon DEF Picks
  <2>2. Pictures(train) = Pictures({item \in items \ drawn : item.label # NoLabel}) \ (building.seen \cup Pictures(val))
    BY Zenon DEF Picks
  <2>3. QED BY <2>1, <2>2
<1>7. /\ DOMAIN sets = DOMAIN Formats /\ model \in DOMAIN Formats
      /\ model \notin reused => Pictures(sets[model].train) \cup Pictures(sets[model].val) \subseteq building.seen
      /\ \A m \in DOMAIN sets \ reused : Pictures(sets[m].train) \cap Pictures(sets[m].val) = {}
  BY <1>1 DEF UnseenInv
<1> DEFINE set == [train |-> CopyUntil(sets[model].train, files \cap train, at),
                   val |-> CopyUntil(sets[model].val, files \cap val, at)]
<1>8. sets' = [sets EXCEPT ![model] = set] /\ building' = Idle
  BY <1>5, Zenon DEF Copied
<1>9. /\ Pictures(set.train) \subseteq Pictures(sets[model].train) \cup Pictures(train)
      /\ Pictures(set.val) \subseteq Pictures(sets[model].val) \cup Pictures(val)
  <2>1. set.train = CopyUntil(sets[model].train, files \cap train, at)
        /\ set.val = CopyUntil(sets[model].val, files \cap val, at)
    OBVIOUS
  <2>2. /\ Pictures(set.train) \subseteq Pictures(sets[model].train) \cup Pictures(files \cap train)
        /\ Pictures(set.val) \subseteq Pictures(sets[model].val) \cup Pictures(files \cap val)
    BY <2>1, CopyUntilAdds, Zenon
  <2>3. Pictures(files \cap train) \subseteq Pictures(train) /\ Pictures(files \cap val) \subseteq Pictures(val)
    BY DEF Pictures
  <2> HIDE DEF set
  <2>4. QED BY <2>2, <2>3
<1> HIDE DEF set
<1>10. model \notin reused => Pictures(set.train) \cap Pictures(set.val) = {}
  <2> DEFINE T == Pictures(sets[model].train)
             V == Pictures(sets[model].val)
             t == Pictures(train)
             v == Pictures(val)
             S == building.seen
  <2> SUFFICES ASSUME model \notin reused PROVE Pictures(set.train) \cap Pictures(set.val) = {}
    OBVIOUS
  <2>1. T \cup V \subseteq S /\ T \cap V = {}
    BY <1>7
  <2>2. v \cap S = {} /\ t \cap (S \cup v) = {}
    BY <1>6
  <2>3. Pictures(set.train) \subseteq T \cup t /\ Pictures(set.val) \subseteq V \cup v
    BY <1>9
  <2> HIDE DEF T, V, t, v, S
  <2>4. QED BY <2>1, <2>2, <2>3
<1>11. sets'[model] = set /\ DOMAIN sets' = DOMAIN Formats
       /\ \A m \in DOMAIN Formats \ {model} : sets'[m] = sets[m]
  BY <1>7, <1>8
<1> HIDE DEF model
<1>12. \A m \in DOMAIN sets' \ reused' : Pictures(sets'[m].train) \cap Pictures(sets'[m].val) = {}
  <2> TAKE m \in DOMAIN sets' \ reused'
  <2>1. CASE m = model
    BY <1>1, <1>10, <1>11, <2>1
  <2>2. CASE m # model
    BY <1>1, <1>7, <1>11, <2>2
  <2>3. QED BY <2>1, <2>2
<1>13. building' = Idle /\ DOMAIN building' = {"model", "next", "seen"}
  BY <1>8 DEF Idle
<1>14. QED BY <1>11, <1>12, <1>13, Zenon DEF UnseenInv

\* The sets of all sources: every step keeps the invariant.
LEMMA UnseenKept == UnseenInv /\ [TrainingNext]_training => UnseenInv'
<1> SUFFICES ASSUME UnseenInv, [TrainingNext]_training PROVE UnseenInv'
  OBVIOUS
<1>1. ASSUME UNCHANGED <<sets, building, reused>> PROVE UnseenInv'
  BY <1>1, Zenon DEF UnseenInv
<1>2. CASE \E model \in DOMAIN Formats : StartBuild(model)
  <2>1. PICK model \in DOMAIN Formats : StartBuild(model)
    BY <1>2
  <2>2. /\ building' = [model |-> model, next |-> 1, seen |-> {}] /\ sets' = sets
        /\ reused' = IF sets[model] = NoSplit THEN reused ELSE reused \cup {model}
    BY <2>1, Zenon DEF StartBuild
  <2>3. DOMAIN building' = {"model", "next", "seen"} /\ building'.model = model /\ building'.seen = {}
    BY <2>2
  <2>4. ASSUME model \notin reused'
        PROVE  Pictures(sets[model].train) \cup Pictures(sets[model].val) = {}
    <3>1. sets[model] = NoSplit
      BY <2>2, <2>4
    <3>2. sets[model].train = {} /\ sets[model].val = {}
      BY <3>1 DEF NoSplit
    <3>3. QED BY <3>2 DEF Pictures
  <2>5. reused \subseteq reused'
    BY <2>2
  <2>6. QED BY <2>1, <2>2, <2>3, <2>4, <2>5 DEF UnseenInv
<1>3. CASE SplitAndCopy
  BY <1>3, SplitKeepsApart
<1>4. CASE EndBuild
  <2>1. building' = Idle /\ UNCHANGED <<sets, reused>>
    BY <1>4 DEF EndBuild
  <2>2. DOMAIN Idle = {"model", "next", "seen"}
    BY DEF Idle
  <2>3. QED BY <2>1, <2>2, Zenon DEF UnseenInv
<1>5. CASE BreakBuild
  BY <1>5, BreakKeepsApart
<1>6. CASE \/ \E p \in Unlabelled : Label(p)
           \/ Merge
           \/ BreakMerge
           \/ CarvedNext
           \/ UNCHANGED datasets
  <2>1. UNCHANGED <<sets, building, reused>>
    BY <1>6, Zenon DEF Label, Merge, BreakMerge, CarvedNext, Carve, datasets
  <2>2. QED BY <1>1, <2>1
<1>7. QED BY <1>2, <1>3, <1>4, <1>5, <1>6, Zenon DEF TrainingNext, SetNext, training
-----------------------------------------------------------------------------
(* The carved set                                                          *)

\* What is on both sides was given for both.
CarvedInv ==
    ~overlaid => Names(carved.train) \cap Names(carved.val)
                    \subseteq Names(InFolder("train_obb")) \cap Names(InFolder("val_obb"))

\* A file of a folder is one photo of it.
LEMMA SamplesAreOfTheFolder ==
    ASSUME NEW split
    PROVE  /\ Names(Samples(split)) \subseteq Names(InFolder(split))
           /\ \A x, y \in Samples(split) : x.name = y.name => x = y
<1>1. ASSUME NEW x \in Samples(split)
      PROVE  \E p \in InFolder(split) : x = Item(p, Labelled(p, "obb")) /\ x.name = p.name
  <2>1. PICK p \in InFolder(split) : x = Item(p, Labelled(p, "obb"))
    BY DEF Samples
  <2>2. x.name = p.name
    BY <2>1 DEF Item
  <2>3. QED BY <2>1, <2>2
<1>2. \A p, q \in InFolder(split) : p.name = q.name => p = q
  BY PhotosAssumption DEF InFolder
<1>3. \A x, y \in Samples(split) : x.name = y.name => x = y
  <2> TAKE x, y \in Samples(split)
  <2>1. PICK p \in InFolder(split) : x = Item(p, Labelled(p, "obb")) /\ x.name = p.name
    BY <1>1
  <2>2. PICK q \in InFolder(split) : y = Item(q, Labelled(q, "obb")) /\ y.name = q.name
    BY <1>1
  <2>3. QED BY <1>2, <2>1, <2>2
<1>4. Names(Samples(split)) \subseteq Names(InFolder(split))
  BY <1>1 DEF Names
<1>5. QED BY <1>3, <1>4

\* A set carved into an empty folder keeps the two sides apart.
LEMMA CarveKeepsApart ==
    ASSUME NEW clean \in BOOLEAN, Carve(clean)
    PROVE  CarvedInv'
<1> SUFFICES ASSUME ~overlaid'
             PROVE  Names(carved'.train) \cap Names(carved'.val)
                      \subseteq Names(InFolder("train_obb")) \cap Names(InFolder("val_obb"))
  BY Zenon DEF CarvedInv, Names, InFolder
<1> DEFINE given == Samples("val_obb")
           trained == Samples("train_obb")
           old == IF clean THEN NoCarved ELSE carved
<1>1. PICK drawn \in Carvable(given) :
         /\ carved' = [train |-> Into(old.train, trained \ drawn), val |-> Into(old.val, given \cup drawn),
                       test |-> Into(old.test, Samples("test_obb"))]
         /\ overlaid' = (old # NoCarved)
  BY Zenon DEF Carve
<1>2. old = NoCarved
  BY <1>1
<1>3. old.train = {} /\ old.val = {}
  BY <1>2 DEF NoCarved
<1> HIDE DEF old, given, trained
<1>4. carved'.train = trained \ drawn /\ carved'.val = given \cup drawn
  <2>1. carved'.train = Into(old.train, trained \ drawn) /\ carved'.val = Into(old.val, given \cup drawn)
    BY <1>1
  <2>2. QED BY <1>3, <2>1 DEF Into
<1>5. CASE given # {}
  <2>1. drawn = {}
    BY <1>1, <1>5, Zenon DEF Carvable
  <2>2. carved'.train = trained /\ carved'.val = given
    BY <1>4, <2>1
  <2>3. QED BY <2>2, SamplesAreOfTheFolder DEF given, trained
<1>6. CASE given = {}
  <2>1. drawn \subseteq trained
    BY <1>1, <1>6, Zenon DEF Carvable, trained
  <2>2. \A x, y \in trained : x.name = y.name => x = y
    BY SamplesAreOfTheFolder, Zenon DEF trained
  <2>3. carved'.train = trained \ drawn /\ carved'.val = drawn
    BY <1>4, <1>6
  <2>4. Names(carved'.train) \cap Names(carved'.val) = {}
    BY <2>1, <2>2, <2>3 DEF Names
  <2>5. QED BY <2>4
<1>7. QED BY <1>5, <1>6

\* The carved set: every step keeps the invariant.
LEMMA CarvedKept == CarvedInv /\ [TrainingNext]_training => CarvedInv'
<1> SUFFICES ASSUME CarvedInv, [TrainingNext]_training PROVE CarvedInv'
  OBVIOUS
<1>1. CASE \E clean \in BOOLEAN : Carve(clean)
  BY <1>1, CarveKeepsApart
<1>2. CASE UNCHANGED <<carved, overlaid>>
  BY <1>2, Zenon DEF CarvedInv
<1>3. QED
  BY <1>1, <1>2, Zenon DEF TrainingNext, SetNext, CarvedNext, Label, Merge, BreakMerge, StartBuild,
                           SplitAndCopy, BreakBuild, EndBuild, training, datasets
-----------------------------------------------------------------------------
(* The folds                                                               *)

\* A cross-validation deals out the photos of each class in some order.
FoldsInv ==
    validation = NoValidation
    \/ \E k \in KFolds : \E orders \in Shuffles(validation.samples) :
          /\ IsFiniteSet(validation.samples)
          /\ validation.folds = Folds(orders, k)

\* An order of finitely many photos holds each of them once.
LEMMA EachOnce ==
    ASSUME NEW S, IsFiniteSet(S), NEW o \in SetToSeqs(S)
    PROVE  LET n == Cardinality(S) IN
           /\ n \in Nat /\ DOMAIN o = 1..n /\ \A i \in 1..n : o[i] \in S
           /\ \A i, j \in 1..n : o[i] = o[j] => i = j
           /\ \A s \in S : \E i \in 1..n : o[i] = s
<1> DEFINE n == Cardinality(S)
<1>1. n \in Nat
  BY FS_CardinalityType
<1>2. o \in [1..n -> S] /\ \A i, j \in 1..n : i # j => o[i] # o[j]
  BY DEF SetToSeqs
<1>3. IsFiniteSet(1..n) /\ Cardinality(1..n) = n
  <2> HIDE DEF n
  <2>1. QED BY <1>1, FS_Interval
<1>4. o \in Injection(1..n, S)
  BY <1>2, Zenon DEF Injection, IsInjective
<1>5. o \in Surjection(1..n, S)
  BY <1>3, <1>4, FS_Injection
<1>6. \A s \in S : \E i \in 1..n : o[i] = s
  BY <1>5, Zenon DEF Surjection
<1>7. QED BY <1>1, <1>2, <1>6

\* Photos next to one another are dealt into different folds.
LEMMA NextIsElsewhere ==
    ASSUME NEW k \in Nat \ {0, 1}, NEW i \in Nat
    PROVE  (i + 1) % k # i % k
<1> SUFFICES ASSUME (i + 1) % k = i % k PROVE FALSE
  OBVIOUS
<1> DEFINE q == i \div k
           p == (i + 1) \div k
           r == i % k
<1>1. q \in Int /\ p \in Int /\ r \in Int /\ i = k * q + r /\ i + 1 = k * p + r
  OBVIOUS
<1> HIDE DEF q, p, r
<1> DEFINE d == p - q
<1>2. d \in Int /\ k * d = k * p - k * q
  BY <1>1
<1>3. k * d = 1
  BY <1>1, <1>2
<1> HIDE DEF d
<1>4. CASE d >= 1
  <2>1. k * d >= k * 1
    BY <1>2, <1>4
  <2>2. QED BY <1>3, <2>1
<1>5. CASE d <= 0
  <2>1. k * d <= k * 0
    BY <1>2, <1>5
  <2>2. QED BY <1>3, <2>1
<1>6. QED BY <1>2, <1>4, <1>5

\* Every place in the order belongs to one fold.
LEMMA OneFold ==
    ASSUME NEW k \in Nat \ {0}
    PROVE  /\ \A i \in Nat : \E j \in 1..k : j % k = i % k
           /\ \A i, j \in 1..k : i % k = j % k => i = j
<1>1. \A i \in Nat : i % k \in Nat /\ i % k < k
  OBVIOUS
<1>2. \A j \in 0..(k - 1) : j % k = j
  OBVIOUS
<1>3. k % k = 0
  OBVIOUS
<1>4. ASSUME NEW i \in Nat PROVE \E j \in 1..k : j % k = i % k
  <2> DEFINE r == i % k
  <2>1. r \in 0..(k - 1)
    BY <1>1
  <2> HIDE DEF r
  <2>2. CASE r = 0
    <3>1. k \in 1..k /\ k % k = r
      BY <1>3, <2>2
    <3>2. QED BY <3>1, Zenon DEF r
  <2>3. CASE r # 0
    <3>1. r \in 1..k
      BY <2>1, <2>3
    <3>2. r % k = r
      BY <1>2, <2>1, Zenon
    <3>3. QED BY <3>1, <3>2, Zenon DEF r
  <2>4. QED BY <2>2, <2>3
<1>5. ASSUME NEW i \in 1..k, NEW j \in 1..k, i % k = j % k PROVE i = j
  <2>1. \A l \in 1..k : l % k = IF l = k THEN 0 ELSE l
    <3> TAKE l \in 1..k
    <3>1. CASE l = k
      BY <1>3, <3>1
    <3>2. CASE l # k
      <4>1. l \in 0..(k - 1)
        BY <3>2
      <4>2. l % k = l
        BY <1>2, <4>1, Zenon
      <4>3. QED BY <3>2, <4>2
    <3>3. QED BY <3>1, <3>2
  <2>2. QED BY <1>5, <2>1
<1>6. QED BY <1>4, <1>5

OfClass(S, c) == {s \in S : s.class = c}
Count(S, s) == Cardinality(OfClass(S, s.class))

\* A photo is in the folds that its place in the order of its class says.
LEMMA DealtByPlace ==
    ASSUME NEW S, IsFiniteSet(S), NEW k \in Nat \ {0}, NEW orders \in Shuffles(S), NEW j \in 1..k, NEW s
    PROVE  s \in Folds(orders, k)[j] <=>
             s \in S /\ \E i \in 1..Count(S, s) : orders[s.class][i] = s /\ i % k = j % k
<1>1. /\ DOMAIN orders = Labels(S)
      /\ \A c \in Labels(S) : orders[c] \in SetToSeqs(OfClass(S, c))
  BY Zenon DEF Shuffles, OfClass
<1>2. \A c : IsFiniteSet(OfClass(S, c))
  BY FS_Subset DEF OfClass
<1>3. \A c \in Labels(S) : LET n == Cardinality(OfClass(S, c)) IN
         DOMAIN orders[c] = 1..n /\ \A i \in 1..n : orders[c][i] \in S /\ orders[c][i].class = c
  <2> TAKE c \in Labels(S)
  <2>1. LET n == Cardinality(OfClass(S, c)) IN
         DOMAIN orders[c] = 1..n /\ \A i \in 1..n : orders[c][i] \in OfClass(S, c)
    BY <1>1, <1>2, EachOnce, Zenon
  <2>2. QED BY <2>1 DEF OfClass
<1> DEFINE F == Folds(orders, k)[j]
           Dealt(c) == {orders[c][i] : i \in {n \in DOMAIN orders[c] : n % k = j % k}}
<1>4. F = UNION {Dealt(c) : c \in DOMAIN orders}
  BY Zenon DEF Folds
<1>5. \A c, t : t \in Dealt(c) <=> \E i \in DOMAIN orders[c] : t = orders[c][i] /\ i % k = j % k
  BY Zenon
<1> HIDE DEF F, Dealt
<1>6. \A t : t \in F <=> \E c \in DOMAIN orders : t \in Dealt(c)
  BY <1>4
<1>7. ASSUME s \in F
      PROVE  s \in S /\ \E i \in 1..Count(S, s) : orders[s.class][i] = s /\ i % k = j % k
  <2>1. PICK c \in DOMAIN orders : s \in Dealt(c)
    BY <1>6, <1>7, Zenon
  <2>2. PICK i \in DOMAIN orders[c] : s = orders[c][i] /\ i % k = j % k
    BY <1>5, <2>1
  <2> DEFINE n == Cardinality(OfClass(S, c))
  <2>3. c \in Labels(S)
    BY <1>1
  <2>4. DOMAIN orders[c] = 1..n /\ \A l \in 1..n : orders[c][l] \in S /\ orders[c][l].class = c
    BY <1>3, <2>3, Zenon
  <2>5. i \in 1..n /\ orders[c][i] \in S /\ orders[c][i].class = c
    BY <2>2, <2>4, Zenon
  <2>6. s.class = c /\ s \in S
    BY <2>2, <2>5, Zenon
  <2>7. QED BY <2>2, <2>5, <2>6, Zenon DEF Count
<1>8. ASSUME s \in S, NEW i \in 1..Count(S, s), orders[s.class][i] = s, i % k = j % k
      PROVE  s \in F
  <2>1. s.class \in Labels(S)
    BY <1>8, Zenon DEF Labels
  <2>2. i \in DOMAIN orders[s.class]
    BY <1>3, <2>1, Zenon DEF Count
  <2>3. s \in Dealt(s.class)
    BY <1>5, <1>8, <2>2, Zenon
  <2>4. QED BY <1>1, <1>6, <2>1, <2>3, Zenon
<1>9. QED BY <1>7, <1>8, Zenon DEF F

\* What is said of the folds of a cross-validation.
FoldsAreFair(samples, folds) ==
    /\ samples = UNION {folds[j] : j \in DOMAIN folds}
    /\ \A j \in DOMAIN folds, s \in UNION {folds[i] : i \in DOMAIN folds} :
          s \in folds[j] =>
             LET trainees == UNION {folds[i] : i \in DOMAIN folds \ {j}} IN
             /\ s \notin trainees
             /\ trainees # {} /\ (\E other \in samples \ {s} : other.class = s.class)
                   => s.class \in Labels(trainees)

\* Folds dealt in turn are fair.
LEMMA DealtFairly ==
    ASSUME NEW S, IsFiniteSet(S), NEW k \in Nat \ {0}, NEW orders \in Shuffles(S)
    PROVE  FoldsAreFair(S, Folds(orders, k))
<1> DEFINE folds == Folds(orders, k)
<1>1. DOMAIN folds = 1..k
  BY DEF Folds
<1>2. \A j \in 1..k : \A s : s \in folds[j] <=> s \in S /\ \E i \in 1..Count(S, s) : orders[s.class][i] = s /\ i % k = j % k
  <2>1. IsFiniteSet(S) /\ k \in Nat \ {0} /\ orders \in Shuffles(S)
    OBVIOUS
  <2>2. ASSUME NEW j \in 1..k, NEW s
        PROVE  s \in Folds(orders, k)[j] <=>
                 s \in S /\ \E i \in 1..Count(S, s) : orders[s.class][i] = s /\ i % k = j % k
    BY <2>1, DealtByPlace
  <2>3. QED BY <2>2, Zenon
<1> HIDE DEF folds
<1>3. ASSUME NEW s \in S
      PROVE  /\ s.class \in Labels(S) /\ Count(S, s) \in Nat
             /\ \A i \in 1..Count(S, s) : orders[s.class][i] \in OfClass(S, s.class)
             /\ \A i, l \in 1..Count(S, s) : orders[s.class][i] = orders[s.class][l] => i = l
             /\ \A t \in OfClass(S, s.class) : \E i \in 1..Count(S, s) : orders[s.class][i] = t
  <2>1. s.class \in Labels(S)
    BY Zenon DEF Labels
  <2>2. orders[s.class] \in SetToSeqs(OfClass(S, s.class))
    BY <2>1, Zenon DEF Shuffles, OfClass
  <2>3. IsFiniteSet(OfClass(S, s.class))
    BY FS_Subset DEF OfClass
  <2> DEFINE C == OfClass(S, s.class)
             o == orders[s.class]
  <2> HIDE DEF C, o
  <2>4. IsFiniteSet(C) /\ o \in SetToSeqs(C)
    BY <2>2, <2>3, Zenon DEF C, o
  <2>5. LET n == Cardinality(C) IN
        /\ n \in Nat /\ \A i \in 1..n : o[i] \in C
        /\ \A i, l \in 1..n : o[i] = o[l] => i = l
        /\ \A t \in C : \E i \in 1..n : o[i] = t
    BY <2>4, EachOnce, Zenon
  <2>6. QED BY <2>1, <2>5, Zenon DEF Count, C, o
<1>4. S = UNION {folds[j] : j \in 1..k}
  <2>1. ASSUME NEW s \in S PROVE \E j \in 1..k : s \in folds[j]
    <3>1. PICK i \in 1..Count(S, s) : orders[s.class][i] = s
      <4>1. s \in OfClass(S, s.class)
        BY DEF OfClass
      <4>2. QED BY <1>3, <4>1, Zenon
    <3>2. i \in Nat
      BY <1>3
    <3>3. PICK j \in 1..k : j % k = i % k
      BY <3>2, OneFold
    <3>4. QED BY <1>2, <3>1, <3>3
  <2>2. \A j \in 1..k : \A s \in folds[j] : s \in S
    BY <1>2, Zenon
  <2>3. QED BY <2>1, <2>2
<1>5. ASSUME NEW j \in 1..k, NEW s \in folds[j], NEW i \in 1..k, s \in folds[i] PROVE i = j
  <2>1. s \in S
    BY <1>2, Zenon
  <2>2. PICK p \in 1..Count(S, s) : orders[s.class][p] = s /\ p % k = j % k
    BY <1>2, Zenon
  <2>3. PICK q \in 1..Count(S, s) : orders[s.class][q] = s /\ q % k = i % k
    BY <1>2, <1>5, Zenon
  <2>4. p = q
    BY <1>3, <2>1, <2>2, <2>3, Zenon
  <2>5. QED BY <2>2, <2>3, <2>4, OneFold, Zenon
<1>6. ASSUME NEW j \in 1..k, NEW s \in folds[j], NEW other \in S \ {s}, other.class = s.class, k # 1
      PROVE  \E i \in 1..k \ {j} : \E t \in folds[i] : t.class = s.class
  <2>1. s \in S
    BY <1>2, Zenon
  <2> DEFINE n == Count(S, s)
             o == orders[s.class]
  <2>2. PICK p \in 1..n : o[p] = s /\ p % k = j % k
    BY <1>2, Zenon
  <2>3. PICK q \in 1..n : o[q] = other
    <3>1. other \in OfClass(S, s.class)
      BY <1>6, Zenon DEF OfClass
    <3>2. QED BY <1>3, <2>1, <3>1, Zenon
  <2>4. n \in Nat /\ p # q
    BY <1>3, <2>1, <2>2, <2>3, Zenon
  <2>5. PICK r \in 1..n : r % k # p % k
    <3> HIDE DEF n, o
    <3>1. k \in Nat \ {0, 1} /\ p \in Nat /\ q \in Nat
      BY <1>6, <2>4
    <3>2. CASE p < n
      <4>1. p + 1 \in 1..n
        BY <2>4, <3>2
      <4>2. QED BY <3>1, <4>1, NextIsElsewhere
    <3>3. CASE ~(p < n)
      <4>1. p - 1 \in 1..n /\ p - 1 \in Nat /\ (p - 1) + 1 = p
        BY <2>4, <3>1, <3>3
      <4>2. p % k # (p - 1) % k
        BY <3>1, <4>1, NextIsElsewhere
      <4>3. QED BY <4>1, <4>2
    <3>4. QED BY <3>2, <3>3
  <2>6. r \in Nat
    BY <2>4
  <2>7. PICK i \in 1..k : i % k = r % k
    BY <2>6, OneFold, Zenon
  <2>8. i # j
    BY <2>2, <2>5, <2>7, Zenon
  <2>9. o[r] \in S /\ o[r].class = s.class
    BY <1>3, <2>1 DEF OfClass
  <2>10. o[r] \in folds[i]
    <3>1. Count(S, o[r]) = n
      BY <2>9, Zenon DEF Count
    <3>2. orders[o[r].class][r] = o[r]
      BY <2>9, Zenon
    <3>3. QED BY <1>2, <2>7, <2>9, <3>1, <3>2, Zenon
  <2>11. QED BY <2>8, <2>9, <2>10, Zenon
<1>7. ASSUME NEW j \in 1..k, NEW s \in folds[j]
      PROVE  LET trainees == UNION {folds[i] : i \in (1..k) \ {j}} IN
             /\ s \notin trainees
             /\ trainees # {} /\ (\E other \in S \ {s} : other.class = s.class)
                   => s.class \in Labels(trainees)
  <2> DEFINE trainees == UNION {folds[i] : i \in (1..k) \ {j}}
  <2>1. \A t : t \in trainees <=> \E i \in (1..k) \ {j} : t \in folds[i]
    OBVIOUS
  <2> HIDE DEF trainees
  <2>2. s \notin trainees
    BY <1>5, <2>1, Zenon
  <2>3. ASSUME trainees # {}, NEW other \in S \ {s}, other.class = s.class
        PROVE  s.class \in Labels(trainees)
    <3>1. k # 1
      <4>1. PICK i \in (1..k) \ {j} : TRUE
        BY <2>1, <2>3, Zenon
      <4>2. QED BY <4>1
    <3>2. QED BY <1>6, <2>1, <2>3, <3>1, Zenon DEF Labels
  <2>4. QED BY <2>2, <2>3, Zenon DEF trainees
<1>8. FoldsAreFair(S, folds)
  BY <1>1, <1>4, <1>7, Zenon DEF FoldsAreFair
<1>9. QED BY <1>8 DEF folds

\* Every step of the classifier keeps the invariant of the folds.
LEMMA FoldsKept == FoldsInv /\ [TrainingNext]_training => FoldsInv'
<1> SUFFICES ASSUME FoldsInv, [TrainingNext]_training PROVE FoldsInv'
  OBVIOUS
<1>1. CASE UNCHANGED validation
  BY <1>1, Zenon DEF FoldsInv
<1>2. CASE \E album \in Albums, k \in KFolds : StartValidation(album, k)
  <2>1. PICK album \in Albums, k \in KFolds : StartValidation(album, k)
    BY <1>2, Zenon
  <2> DEFINE samples == Scan(album)
  <2>2. PICK orders \in Shuffles(samples) :
          validation' = [samples |-> samples, folds |-> Folds(orders, k), next |-> 1]
    BY <2>1, Zenon DEF StartValidation
  <2>3. IsFiniteSet(samples)
    BY AlbumsAssumption, FS_Subset DEF Scan
  <2> HIDE DEF samples
  <2>4. validation'.samples = samples /\ validation'.folds = Folds(orders, k)
    BY <2>2
  <2>5. QED BY <2>2, <2>3, <2>4, Zenon DEF FoldsInv
<1>3. CASE FitFold
  <2>1. validation.next \in DOMAIN validation.folds /\ validation' = [validation EXCEPT !.next = @ + 1]
    BY <1>3, Zenon DEF FitFold
  <2>2. validation # NoValidation
    BY <2>1 DEF NoValidation
  <2>3. validation'.samples = validation.samples /\ validation'.folds = validation.folds
    BY <2>1
  <2>4. QED BY <2>2, <2>3, Zenon DEF FoldsInv
<1>4. CASE EndValidation
  BY <1>4, Zenon DEF EndValidation, FoldsInv
<1>5. QED
  BY <1>1, <1>2, <1>3, <1>4, Zenon DEF TrainingNext, ClassificationNext, Train, EvaluateCheckpoint, classifier, training

-----------------------------------------------------------------------------
(* The labels                                                              *)

\* The files whose label tells what their picture shows.
Truly(format) == {Item(p, [format |-> format, classes |-> Shows[p.picture]]) : p \in Photos}

\* Those whose label tells what a picture with the same label file shows.
ToldIn(format) ==
    {Item(x[1], [format |-> format, classes |-> Shows[x[2].picture]]) :
        x \in {y \in Photos \X Photos : SameLabel(y[1], y[2])}}

\* What a merge leaves: no label is missing unless it was cut short.
Bare == {Item(p, NoLabel) : p \in Photos}
Left(cut) == Truly("aabb") \cup (IF cut THEN Bare ELSE {})

\* A label file holds one photo's label.
OneEach == labelled \subseteq Photos /\ \A p, q \in labelled : SameLabel(p, q) => p = q

LabelsInv ==
    /\ OneEach
    /\ merged \subseteq Left(cut_short)
    /\ carved.train \cup carved.val \cup carved.test \subseteq Truly("obb")
    /\ DOMAIN sets = DOMAIN Formats
    /\ \A m \in DOMAIN Formats \ torn : sets[m].train \cup sets[m].val \subseteq ToldIn(Formats[m])
    /\ DOMAIN building = {"model", "next", "seen"}
    /\ building # Idle => building.model \in DOMAIN Formats

\* Copying adds nothing but the files that are copied.
LEMMA IntoTold ==
    ASSUME NEW all, NEW folder \in SUBSET all, NEW items \in SUBSET all
    PROVE  Into(folder, items) \subseteq all
BY DEF Into

\* A label with the numbers of its folder, and of no other folder, names what the
\* picture shows.
LEMMA NumbersAreNames ==
    ASSUME NEW s \in ToSet(SOURCES), ~Refused(s), NEW p \in InFolder(s.folder) \cap labelled
    PROVE  {Canonical(s, i) : i \in LocalIds(p)} = Shows[p.picture]
<1> DEFINE names == LOCAL_NAMES[s.folder]
           shown == Shows[p.picture]
           ids == LocalIds(p)
<1>1. s.folder \in DOMAIN LOCAL_NAMES /\ names \in Seq(STRING)
  <2>1. PICK j \in DOMAIN SOURCES : s = SOURCES[j]
    BY DEF ToSet
  <2> DEFINE R == [folder : DOMAIN LOCAL_NAMES, single : STRING]
  <2>2. SOURCES \in Seq(R)
    BY SourcesAssumption
  <2> HIDE DEF R
  <2>3. s \in R
    BY <2>1, <2>2
  <2>4. s.folder \in DOMAIN LOCAL_NAMES
    BY <2>3 DEF R
  <2>5. QED BY <2>4, SourcesAssumption
<1>2. p \in Photos /\ p.folder = s.folder
  BY DEF InFolder
<1>3. shown \subseteq ToSet(names) /\ (s.single = "no" \/ s.single \in shown)
  BY <1>2, SourcesAssumption
<1>4. ids = {i \in 0..(Len(names) - 1) : names[i + 1] \in shown}
  BY <1>2, Zenon DEF LocalIds
<1>5. \A c \in shown : \E i \in ids : names[i + 1] = c
  <2> SUFFICES ASSUME NEW c \in shown PROVE \E i \in ids : names[i + 1] = c
    OBVIOUS
  <2>1. PICK j \in DOMAIN names : names[j] = c
    BY <1>3 DEF ToSet
  <2> HIDE DEF names, shown, ids
  <2>2. j \in 1..Len(names)
    BY <1>1, <2>1
  <2>3. j - 1 \in 0..(Len(names) - 1) /\ (j - 1) + 1 = j
    BY <1>1, <2>2
  <2>4. j - 1 \in ids
    BY <1>4, <2>1, <2>3
  <2>5. QED BY <2>1, <2>3, <2>4
<1>6. \A i \in ids : names[i + 1] \in shown
  BY <1>4
<1>7. CASE s.single = "no"
  <2>1. {Canonical(s, i) : i \in ids} = {names[i + 1] : i \in ids}
    BY <1>7 DEF Canonical
  <2> HIDE DEF names, shown, ids
  <2>2. {names[i + 1] : i \in ids} = shown
    BY <1>5, <1>6
  <2>3. QED BY <2>1, <2>2 DEF shown, ids
<1>8. CASE s.single # "no"
  <2>1. {Canonical(s, i) : i \in ids} = {s.single : i \in ids}
    BY <1>8 DEF Canonical
  <2>2. Cardinality(UsedIds(s.folder)) = 1
    BY <1>8 DEF Refused
  <2>3. ids \subseteq UsedIds(s.folder)
    BY DEF UsedIds
  <2>4. IsFiniteSet(UsedIds(s.folder))
    <3>1. \A q \in InFolder(s.folder) : LocalIds(q) \subseteq 0..(Len(names) - 1)
      BY DEF LocalIds, InFolder
    <3>2. UsedIds(s.folder) \in SUBSET (0..(Len(names) - 1))
      BY <3>1 DEF UsedIds
    <3>3. Len(names) \in Nat
      BY <1>1
    <3> HIDE DEF names
    <3>4. IsFiniteSet(0..(Len(names) - 1))
      BY <3>3, FS_Interval
    <3>5. QED BY <3>2, <3>4, FS_Subset
  <2>5. PICK x : UsedIds(s.folder) = {x}
    BY <2>2, <2>4, FS_Singleton
  <2> HIDE DEF names, shown, ids
  <2>6. ids \subseteq {x}
    BY <2>3, <2>5
  <2>7. s.single \in shown
    BY <1>3, <1>8
  <2>8. PICK k \in ids : names[k + 1] = s.single
    BY <1>5, <2>7
  <2>9. ids = {x} /\ names[x + 1] = s.single
    BY <2>6, <2>8
  <2>10. shown = {s.single}
    BY <1>5, <2>7, <2>9
  <2>11. {s.single : i \in ids} = {s.single}
    BY <2>9
  <2>12. QED BY <2>1, <2>10, <2>11 DEF shown, ids
<1>9. QED BY <1>7, <1>8

\* A folder that is merged brings labels that tell their pictures.
LEMMA FolderTold ==
    ASSUME NEW s \in ToSet(SOURCES), ~Refused(s), NEW items
    PROVE  MergeFolder(items, s) \ items \subseteq Truly("aabb")
<1>1. ASSUME NEW p \in InFolder(s.folder) \cap labelled
      PROVE  Item(p, [format |-> "aabb", classes |-> {Canonical(s, i) : i \in LocalIds(p)}]) \in Truly("aabb")
  <2>1. {Canonical(s, i) : i \in LocalIds(p)} = Shows[p.picture]
    BY NumbersAreNames, Zenon
  <2>2. p \in Photos
    BY DEF InFolder
  <2>3. QED BY <2>1, <2>2 DEF Truly
<1>2. QED BY <1>1 DEF MergeFolder

\* So does a whole merge, as far as it comes.
LEMMA MergedTold ==
    ASSUME merged \subseteq Left(cut_short), NEW done \in Mergeable
    PROVE  MergedUpTo(done) \subseteq Left(cut_short)
<1> DEFINE q == SubSeq(SOURCES, 1, done)
           V == SUBSET Left(cut_short)
           S == DOMAIN q
           last(t) == CHOOSE x \in t : \A y \in t : x >= y
           pick == [t \in SUBSET S |-> last(t)]
           G == [p \in S \X V |-> MergeFolder(p[2], q[p[1]])]
           Rec(it) == it = [t \in SUBSET S |-> IF t = {} THEN merged ELSE MergeFolder(it[t \ {last(t)}], q[last(t)])]
           it == CHOOSE it : Rec(it)
<1>1. MergedUpTo(done) = FoldLeft(MergeFolder, merged, q)
  BY Zenon DEF MergedUpTo
<1>2. FoldLeft(MergeFolder, merged, q) = it[S]
  BY DEF FoldLeft, MapThenFoldSet, Max
<1>3. SOURCES \in Seq([folder : DOMAIN LOCAL_NAMES, single : STRING]) /\ Len(SOURCES) \in Nat
  BY SourcesAssumption
<1>5. done \in 0..Len(SOURCES) /\ \A i \in 1..done : ~Refused(SOURCES[i])
  BY DEF Mergeable
<1>6. S = 1..done /\ done \in Nat /\ \A i \in S : q[i] = SOURCES[i] /\ i \in DOMAIN SOURCES
  BY <1>3, <1>5
<1>7. IsFiniteSet(S)
  BY <1>6, FS_Interval
<1>8. \A i \in S : q[i] \in ToSet(SOURCES) /\ ~Refused(q[i])
  BY <1>5, <1>6 DEF ToSet
<1> HIDE DEF q
<1>9. \A t \in SUBSET S : t # {} => last(t) \in t
  <2>1. ASSUME NEW t \in SUBSET S, t # {} PROVE \E x \in t : \A y \in t : x >= y
    <3>1. t \in SUBSET (0..done)
      BY <1>6
    <3> HIDE DEF S
    <3>2. QED BY <1>6, <2>1, <3>1, GreatestNatural
  <2> HIDE DEF S
  <2>2. QED BY <2>1, Zenon
<1>10. \A t \in SUBSET S : pick[t] = last(t)
  OBVIOUS
<1>11. \A x \in S, n \in V : G[<<x, n>>] = MergeFolder(n, q[x])
  OBVIOUS
<1>12. \A i \in S, items \in V : MergeFolder(items, q[i]) \in V
  <2> TAKE i \in S, items \in V
  <2>1. MergeFolder(items, q[i]) \ items \subseteq Truly("aabb")
    BY <1>8, FolderTold
  <2>2. QED BY <2>1 DEF Left
<1>12a. G \in [S \X V -> V]
  BY <1>12
<1> HIDE DEF last, pick, G, S, V
<1>13. merged \in V
  BY DEF V
<1>14. PICK h \in [SUBSET S -> V] : IsFold(h, S, merged, G, pick)
  <2>1. \A t \in SUBSET S : t # {} => pick[t] \in t
    BY <1>9, <1>10, Zenon
  <2>2. QED BY <1>7, <1>12a, <1>13, <2>1, FoldExists, Zenon
<1>15. Rec(h)
  <2>1. \A t \in SUBSET S : t # {} =>
           G[<<pick[t], h[t \ {pick[t]}]>>] = MergeFolder(h[t \ {last(t)}], q[last(t)])
    BY <1>9, <1>10, <1>11
  <2>2. QED BY <1>14, <2>1 DEF IsFold
<1>16. Rec(it)
  <2> HIDE DEF Rec
  <2>1. QED BY <1>15, Zenon
<1> HIDE DEF it
<1>17. \A t \in SUBSET S : it[t] = IF t = {} THEN merged ELSE MergeFolder(it[t \ {last(t)}], q[last(t)])
  BY <1>16, Zenon
<1> DEFINE W == {t \in SUBSET S : it[t] \in V}
<1>18. S \in W
  <2>1. {} \in W
    BY <1>13, <1>17
  <2>2. ASSUME NEW t \in SUBSET S, t # {}, t \ {pick[t]} \in W PROVE t \in W
    <3>1. it[t \ {last(t)}] \in V /\ last(t) \in S
      BY <1>9, <1>10, <2>2
    <3>2. it[t] = MergeFolder(it[t \ {last(t)}], q[last(t)])
      BY <1>17, <2>2, Zenon
    <3>3. MergeFolder(it[t \ {last(t)}], q[last(t)]) \in V
      BY <1>12, <3>1, Zenon
    <3>4. QED BY <3>2, <3>3
  <2>3. \A t \in SUBSET S : t # {} => pick[t] \in t
    BY <1>9, <1>10, Zenon
  <2> HIDE DEF W
  <2>4. \A t \in SUBSET S : t # {} /\ t \ {pick[t]} \in W => t \in W
    BY <2>2, Zenon
  <2>5. QED BY <1>7, <2>1, <2>3, <2>4, EachPicked, Z3
<1>19. QED BY <1>1, <1>2, <1>18 DEF V

\* A merge, done as far as it can be or cut short, leaves labels that tell their
\* pictures.
LEMMA MergeTold ==
    ASSUME merged \subseteq Left(cut_short), Merge \/ BreakMerge
    PROVE  merged' \subseteq Left(cut_short')
<1>0. SOURCES \in Seq([folder : DOMAIN LOCAL_NAMES, single : STRING]) /\ Len(SOURCES) \in Nat
  BY SourcesAssumption
<1>1. CASE Merge
  <2> DEFINE done == CHOOSE n \in Mergeable : \A k \in Mergeable : k <= n
  <2>1. merged' = MergedUpTo(done) /\ cut_short' = cut_short
    BY <1>1, Zenon DEF Merge
  <2>2. Mergeable \in SUBSET (0..Len(SOURCES)) /\ 0 \in Mergeable
    BY <1>0 DEF Mergeable
  <2>3. PICK x \in Mergeable : \A y \in Mergeable : x >= y
    BY <1>0, <2>2, GreatestNatural
  <2>4. \A y \in Mergeable : y <= x
    BY <1>0, <2>2, <2>3
  <2>5. done \in Mergeable
    BY <2>4, Zenon
  <2>6. QED BY <2>1, <2>5, MergedTold, Zenon
<1>2. CASE BreakMerge
  <2>1. PICK n \in Mergeable \ {0} :
           LET before == MergedUpTo(n - 1)
               new == MergeFolder(before, SOURCES[n]) \ before
           IN \E at \in new : \E label \in {at.label, NoLabel} :
                 /\ merged' = before \cup {item \in new : Precedes(item.name, at.name)}
                                     \cup {[at EXCEPT !.label = label]}
                 /\ cut_short' = (cut_short \/ label = NoLabel)
    BY <1>2, Zenon DEF BreakMerge
  <2> DEFINE before == MergedUpTo(n - 1)
             new == MergeFolder(before, SOURCES[n]) \ before
  <2>2. PICK at \in new : \E label \in {at.label, NoLabel} :
                 /\ merged' = before \cup {item \in new : Precedes(item.name, at.name)}
                                     \cup {[at EXCEPT !.label = label]}
                 /\ cut_short' = (cut_short \/ label = NoLabel)
    BY <2>1, Zenon
  <2>3. PICK label \in {at.label, NoLabel} :
                 /\ merged' = before \cup {item \in new : Precedes(item.name, at.name)}
                                     \cup {[at EXCEPT !.label = label]}
                 /\ cut_short' = (cut_short \/ label = NoLabel)
    BY <2>2, Zenon
  <2>4. n - 1 \in Mergeable /\ n \in 1..Len(SOURCES) /\ ~Refused(SOURCES[n])
    BY <1>0 DEF Mergeable
  <2>5. before \subseteq Left(cut_short)
    BY <2>4, MergedTold
  <2>6. SOURCES[n] \in ToSet(SOURCES)
    BY <1>0, <2>4 DEF ToSet
  <2>7. new \subseteq Truly("aabb")
    BY <2>4, <2>6, FolderTold
  <2> HIDE DEF before, new
  <2>8. PICK p \in Photos : at = Item(p, [format |-> "aabb", classes |-> Shows[p.picture]])
    BY <2>7 DEF Truly
  <2>9. [at EXCEPT !.label = label] = Item(p, label)
    BY <2>8 DEF Item
  <2>10. at.label = [format |-> "aabb", classes |-> Shows[p.picture]]
    BY <2>8 DEF Item
  <2>11. Item(p, label) \in Left(cut_short')
    <3>1. CASE label = NoLabel
      BY <2>3, <3>1 DEF Left, Bare
    <3>2. CASE label = at.label
      BY <2>10, <3>2 DEF Left, Truly
    <3>3. QED BY <3>1, <3>2
  <2>12. Left(cut_short) \subseteq Left(cut_short') /\ Truly("aabb") \subseteq Left(cut_short')
    BY <2>3 DEF Left
  <2>13. QED BY <2>3, <2>5, <2>7, <2>9, <2>11, <2>12
<1>3. QED BY <1>1, <1>2

\* The format in which the labels of a source are written.
FormatOf(source) == IF source = "iconic" THEN "obb" ELSE "aabb"

\* Of a source's labels the conversion chosen for it keeps the classes and makes the
\* format that of the model.
LEMMA ConvertedTold ==
    ASSUME NEW model \in DOMAIN Formats, NEW source, NEW item \in ToldIn(FormatOf(source))
    PROVE  Converted(item, model, source) \in ToldIn(Formats[model])
<1>1. PICK x \in {y \in Photos \X Photos : SameLabel(y[1], y[2])} :
         item = Item(x[1], [format |-> FormatOf(source), classes |-> Shows[x[2].picture]])
  BY DEF ToldIn
<1> DEFINE p == x[1]
           q == x[2]
           Tells(format) == [format |-> format, classes |-> Shows[q.picture]]
<1>2. q \in Photos
  OBVIOUS
<1>3. item = [name |-> p.name, picture |-> p.picture, label |-> Tells(FormatOf(source))]
  BY <1>1 DEF Item
<1>4. item.label # NoLabel
  <2>1. Shows[q.picture] # {}
    BY <1>2, PhotosAssumption
  <2>2. item.label.classes = Shows[q.picture] /\ NoLabel.classes = {}
    BY <1>3 DEF NoLabel
  <2>3. QED BY <2>1, <2>2
<1>5. Converted(item, model, source) = [item EXCEPT !.label = Convert(item.label, model, source)]
  BY <1>4 DEF Converted
<1>6. DOMAIN Formats = {"rtdetr", "yolo_obb"} /\ Formats.rtdetr = "aabb" /\ Formats.yolo_obb = "obb"
  BY DEF Formats
<1>7. Convert(item.label, model, source) = Tells(Formats[model])
  <2>1. Upright(Tells("obb")) = Tells("aabb") /\ Oriented(Tells("aabb")) = Tells("obb")
    BY DEF Upright, Oriented
  <2>2. item.label = Tells(FormatOf(source))
    BY <1>3
  <2> HIDE DEF Tells
  <2>3. CASE model = "rtdetr"
    BY <1>6, <2>1, <2>2, <2>3 DEF Convert, FormatOf
  <2>4. CASE model = "yolo_obb"
    BY <1>6, <2>1, <2>2, <2>4 DEF Convert, FormatOf
  <2>5. QED BY <1>6, <2>3, <2>4
<1>8. Converted(item, model, source) = Item(p, Tells(Formats[model]))
  <2>1. [item EXCEPT !.label = Tells(Formats[model])]
          = [name |-> p.name, picture |-> p.picture, label |-> Tells(Formats[model])]
    BY <1>3
  <2>2. QED BY <1>5, <1>7, <2>1, Zenon DEF Item
<1>9. QED BY <1>8, Zenon DEF ToldIn

\* What is read under a photo's name was written for one that has its label file.
LEMMA LabelledTold ==
    ASSUME NEW p \in Photos, NEW format, OneEach
    PROVE  /\ Labelled(p, format) # NoLabel => Item(p, Labelled(p, format)) \in ToldIn(format)
           /\ p \in labelled => Item(p, Labelled(p, format)) \in Truly(format)
<1> DEFINE q == CHOOSE q \in WrittenFor(p) : TRUE
<1>1. CASE WrittenFor(p) = {}
  <2>1. Labelled(p, format) = NoLabel
    BY <1>1 DEF Labelled
  <2>2. p \notin labelled
    BY <1>1 DEF WrittenFor, SameLabel
  <2>3. QED BY <2>1, <2>2
<1>2. CASE WrittenFor(p) # {}
  <2>1. q \in WrittenFor(p)
    BY <1>2, Zenon
  <2>2. Labelled(p, format) = [format |-> format, classes |-> Shows[q.picture]]
    BY <1>2, Zenon DEF Labelled
  <2> HIDE DEF q
  <2>3. q \in labelled /\ q \in Photos /\ SameLabel(p, q)
    BY <2>1 DEF WrittenFor, OneEach
  <2>4. Item(p, Labelled(p, format)) \in ToldIn(format)
    <3>1. <<p, q>> \in {y \in Photos \X Photos : SameLabel(y[1], y[2])}
      BY <2>3
    <3>2. <<p, q>>[1] = p /\ <<p, q>>[2] = q
      OBVIOUS
    <3>3. QED BY <2>2, <3>1, <3>2, Zenon DEF ToldIn
  <2>5. p \in labelled => p = q
    BY <2>3, Zenon DEF OneEach
  <2>6. p \in labelled => Item(p, Labelled(p, format)) \in Truly(format)
    BY <2>2, <2>5, Zenon DEF Truly
  <2>7. QED BY <2>4, <2>6
<1>3. QED BY <1>1, <1>2

LEMMA TrulyTold ==
    ASSUME NEW format PROVE Truly(format) \subseteq ToldIn(format)
<1> SUFFICES ASSUME NEW p \in Photos
             PROVE  Item(p, [format |-> format, classes |-> Shows[p.picture]]) \in ToldIn(format)
  BY DEF Truly
<1>1. <<p, p>> \in {y \in Photos \X Photos : SameLabel(y[1], y[2])}
  BY DEF SameLabel
<1>2. <<p, p>>[1] = p /\ <<p, p>>[2] = p
  OBVIOUS
<1>3. QED BY <1>1, <1>2, Zenon DEF ToldIn

\* What can be used of a group is told in the model's format.
LEMMA GroupTold ==
    ASSUME NEW model \in DOMAIN Formats, merged \subseteq Left(cut_short), OneEach, NEW g, NEW item \in GroupItems(g),
           Converted(item, model, g.source).label # NoLabel
    PROVE  Converted(item, model, g.source) \in ToldIn(Formats[model])
<1>0. item.label # NoLabel
  BY DEF Converted
<1>1. CASE g.source = "labeled_data"
  <2>1. item \in merged
    BY <1>1 DEF GroupItems
  <2>2. item \notin Bare
    BY <1>0 DEF Bare, Item
  <2>3. item \in Truly("aabb")
    BY <2>1, <2>2 DEF Left
  <2>4. item \in ToldIn(FormatOf(g.source))
    BY <1>1, <2>3, TrulyTold DEF FormatOf
  <2>5. QED BY <2>4, ConvertedTold
<1>2. CASE g.source # "labeled_data"
  <2> DEFINE format == FormatOf(g.source)
  <2>1. PICK p \in InFolder(g.folder) : item = Item(p, Labelled(p, format))
    BY <1>2 DEF GroupItems, FormatOf
  <2>2. p \in Photos /\ Labelled(p, format) # NoLabel
    BY <1>0, <2>1 DEF InFolder, Item
  <2> HIDE DEF format
  <2>3. item \in ToldIn(format)
    BY <2>1, <2>2, LabelledTold
  <2>4. QED BY <2>3, ConvertedTold DEF format
<1>3. QED BY <1>1, <1>2

\* Splitting and copying a group.
LEMMA SplitTold ==
    ASSUME LabelsInv, SplitAndCopy
    PROVE  LabelsInv'
<1> DEFINE model == building.model
           g == Groups[building.next]
           items == {Converted(item, model, g.source) : item \in GroupItems(g)}
           Copied(val, train) ==
              /\ sets' = [sets EXCEPT ![model] = [train |-> Into(@.train, train), val |-> Into(@.val, val)]]
              /\ building' = [building EXCEPT !.next = @ + 1, !.seen = @ \cup Pictures(train \cup val)]
<1>1. /\ building # Idle /\ UNCHANGED <<labelled, merged, cut_short, torn, carved>>
      /\ \E drawn \in SUBSET items : \E val \in Picks(drawn, building.seen) :
         \E train \in Picks(items \ drawn, building.seen \cup Pictures(val)) : Copied(val, train)
  BY Zenon DEF SplitAndCopy
<1>2. model \in DOMAIN Formats /\ OneEach /\ merged \subseteq Left(cut_short) /\ DOMAIN building = {"model", "next", "seen"}
      /\ DOMAIN sets = DOMAIN Formats
      /\ \A m \in DOMAIN Formats \ torn : sets[m].train \cup sets[m].val \subseteq ToldIn(Formats[m])
      /\ carved.train \cup carved.val \cup carved.test \subseteq Truly("obb")
  BY <1>1 DEF LabelsInv
<1>3. \A item \in items : item.label # NoLabel => item \in ToldIn(Formats[model])
  BY <1>2, GroupTold
<1> HIDE DEF items, Copied
<1>4. PICK drawn \in SUBSET items : \E val \in Picks(drawn, building.seen) :
         \E train \in Picks(items \ drawn, building.seen \cup Pictures(val)) : Copied(val, train)
  BY <1>1, Zenon
<1>5. PICK val \in Picks(drawn, building.seen) :
         \E train \in Picks(items \ drawn, building.seen \cup Pictures(val)) : Copied(val, train)
  BY <1>4, Zenon
<1>6. PICK train \in Picks(items \ drawn, building.seen \cup Pictures(val)) : Copied(val, train)
  BY <1>5, Zenon
<1>7. val \subseteq ToldIn(Formats[model]) /\ train \subseteq ToldIn(Formats[model])
  <2>1. val \subseteq {item \in drawn : item.label # NoLabel}
    BY Zenon DEF Picks
  <2>2. train \subseteq {item \in items \ drawn : item.label # NoLabel}
    BY Zenon DEF Picks
  <2>3. QED BY <1>3, <2>1, <2>2, Zenon
<1> DEFINE set == [train |-> Into(sets[model].train, train), val |-> Into(sets[model].val, val)]
           all == ToldIn(Formats[model])
<1>8. model \notin torn => set.train \cup set.val \subseteq all
  <2> SUFFICES ASSUME model \notin torn PROVE set.train \cup set.val \subseteq all
    OBVIOUS
  <2>1. sets[model].train \in SUBSET all /\ sets[model].val \in SUBSET all
    BY <1>2
  <2>2. train \in SUBSET all /\ val \in SUBSET all
    BY <1>7
  <2> HIDE DEF all
  <2>3. Into(sets[model].train, train) \subseteq all /\ Into(sets[model].val, val) \subseteq all
    BY <2>1, <2>2, IntoTold, Zenon
  <2>4. QED BY <2>3
<1>9. sets' = [sets EXCEPT ![model] = set]
  BY <1>6, Zenon DEF Copied
<1> HIDE DEF set
<1>10. DOMAIN sets' = DOMAIN Formats /\ \A m \in DOMAIN Formats \ torn : sets'[m].train \cup sets'[m].val \subseteq ToldIn(Formats[m])
  <2>1. DOMAIN sets' = DOMAIN Formats /\ sets'[model] = set
        /\ \A m \in DOMAIN Formats \ {model} : sets'[m] = sets[m]
    BY <1>2, <1>9
  <2> HIDE DEF model
  <2>2. ASSUME NEW m \in DOMAIN Formats \ torn PROVE sets'[m].train \cup sets'[m].val \subseteq ToldIn(Formats[m])
    <3>1. CASE m = model
      BY <1>8, <2>1, <3>1
    <3>2. CASE m # model
      <4>1. sets'[m] = sets[m]
        BY <2>1, <3>2
      <4>2. QED BY <1>2, <4>1
    <3>3. QED BY <3>1, <3>2
  <2>3. QED BY <2>1, <2>2
<1>11. building'.model = model /\ DOMAIN building' = {"model", "next", "seen"}
  <2> DEFINE next == building.next + 1
             seen == building.seen \cup Pictures(train \cup val)
  <2>1. building' = [building EXCEPT !.next = next, !.seen = seen]
    BY <1>6, Zenon DEF Copied
  <2> HIDE DEF next, seen
  <2>2. QED BY <1>2, <2>1
<1>12. UNCHANGED <<merged, cut_short, torn, carved>> /\ OneEach'
  BY <1>1, <1>2 DEF OneEach
<1>13. QED BY <1>1, <1>2, <1>10, <1>11, <1>12 DEF LabelsInv

\* A part of it, when the program ends, is another model's business no more than the
\* whole.
LEMMA BreakTold ==
    ASSUME LabelsInv, BreakBuild
    PROVE  LabelsInv'
<1> DEFINE model == building.model
<1>1. /\ building' = Idle /\ torn' = torn \cup {model} /\ \E set : sets' = [sets EXCEPT ![model] = set]
      /\ UNCHANGED <<labelled, merged, cut_short, carved>>
  BY Zenon DEF BreakBuild
<1>2. PICK set : sets' = [sets EXCEPT ![model] = set]
  BY <1>1
<1> HIDE DEF model
<1>3. DOMAIN sets' = DOMAIN Formats /\ \A m \in DOMAIN Formats \ torn' : sets'[m] = sets[m] /\ m \notin torn
  BY <1>1, <1>2 DEF LabelsInv
<1>4. \A m \in DOMAIN Formats \ torn' : sets'[m].train \cup sets'[m].val \subseteq ToldIn(Formats[m])
  <2> TAKE m \in DOMAIN Formats \ torn'
  <2>1. sets'[m] = sets[m] /\ m \notin torn
    BY <1>3
  <2>2. sets[m].train \cup sets[m].val \subseteq ToldIn(Formats[m])
    BY <2>1 DEF LabelsInv
  <2>3. QED BY <2>1, <2>2
<1>5. building' = Idle /\ DOMAIN building' = {"model", "next", "seen"}
  BY <1>1 DEF Idle
<1>6. OneEach' /\ UNCHANGED <<merged, cut_short, carved>>
  BY <1>1 DEF LabelsInv, OneEach
<1>7. QED BY <1>3, <1>4, <1>5, <1>6 DEF LabelsInv

\* Carving a set out of the labelled photos.
LEMMA CarveTold ==
    ASSUME LabelsInv, NEW clean \in BOOLEAN, Carve(clean)
    PROVE  LabelsInv'
<1> DEFINE given == Samples("val_obb")
           old == IF clean THEN NoCarved ELSE carved
           all == Truly("obb")
<1>1. \A split : Samples(split) \subseteq all
  <2>1. OneEach
    BY DEF LabelsInv
  <2>2. QED BY <2>1, LabelledTold DEF Samples, InFolder
<1>2. PICK drawn \in Carvable(given) :
        carved' = [train |-> Into(old.train, Samples("train_obb") \ drawn),
                   val   |-> Into(old.val, given \cup drawn),
                   test  |-> Into(old.test, Samples("test_obb"))]
  BY Zenon DEF Carve
<1>3. drawn \subseteq all
  <2>1. drawn \subseteq Samples("train_obb")
    BY DEF Carvable
  <2>2. QED BY <1>1, <2>1
<1>4. old.train \subseteq all /\ old.val \subseteq all /\ old.test \subseteq all
  BY DEF LabelsInv, NoCarved
<1>5. given \subseteq all
  BY <1>1
<1> HIDE DEF all, old, given
<1>6. /\ Into(old.train, Samples("train_obb") \ drawn) \subseteq all
      /\ Into(old.val, given \cup drawn) \subseteq all
      /\ Into(old.test, Samples("test_obb")) \subseteq all
  <2>1. /\ Samples("train_obb") \ drawn \in SUBSET all /\ given \cup drawn \in SUBSET all /\ Samples("test_obb") \in SUBSET all
        /\ old.train \in SUBSET all /\ old.val \in SUBSET all /\ old.test \in SUBSET all
    BY <1>1, <1>3, <1>4, <1>5
  <2>2. QED BY <2>1, IntoTold, Zenon
<1>7. carved'.train \cup carved'.val \cup carved'.test \subseteq all
  BY <1>2, <1>6
<1>8. UNCHANGED <<labelled, merged, cut_short, sets, torn, building>>
  BY Zenon DEF Carve
<1>9. OneEach'
  BY <1>8 DEF LabelsInv, OneEach
<1>10. QED BY <1>7, <1>8, <1>9 DEF LabelsInv, all

\* Every step of the dataset tools keeps the labels true.
LEMMA LabelsKept == LabelsInv /\ [TrainingNext]_training => LabelsInv'
<1> SUFFICES ASSUME LabelsInv, [TrainingNext]_training PROVE LabelsInv'
  OBVIOUS
<1>0. ASSUME UNCHANGED labelled PROVE OneEach'
  BY <1>0 DEF LabelsInv, OneEach
<1>1. CASE \E model \in DOMAIN Formats : StartBuild(model)
  <2>1. PICK model \in DOMAIN Formats : StartBuild(model)
    BY <1>1
  <2>2. /\ building' = [model |-> model, next |-> 1, seen |-> {}]
        /\ UNCHANGED <<labelled, merged, cut_short, sets, torn, carved>>
    BY <2>1, Zenon DEF StartBuild
  <2>3. DOMAIN building' = {"model", "next", "seen"} /\ building'.model = model
    BY <2>2
  <2>4. QED BY <1>0, <2>1, <2>2, <2>3 DEF LabelsInv
<1>2. CASE SplitAndCopy
  BY <1>2, SplitTold
<1>3. CASE BreakBuild
  BY <1>3, BreakTold
<1>4. CASE EndBuild
  <2>1. building' = Idle /\ UNCHANGED <<labelled, merged, cut_short, sets, torn, carved>>
    BY <1>4, Zenon DEF EndBuild
  <2>2. DOMAIN Idle = {"model", "next", "seen"}
    BY DEF Idle
  <2>3. QED BY <1>0, <2>1, <2>2, Zenon DEF LabelsInv
<1>5. CASE Merge \/ BreakMerge
  <2>1. UNCHANGED <<labelled, sets, torn, building, carved>>
    BY <1>5, Zenon DEF Merge, BreakMerge
  <2>2. merged' \subseteq Left(cut_short')
    BY <1>5, MergeTold, Zenon DEF LabelsInv
  <2>3. QED BY <1>0, <2>1, <2>2, Zenon DEF LabelsInv
<1>6. CASE \E clean \in BOOLEAN : Carve(clean)
  BY <1>6, CarveTold
<1>7. CASE \E p \in Unlabelled : Label(p)
  <2>1. PICK p \in Unlabelled : labelled' = {q \in labelled : ~SameLabel(p, q)} \cup {p}
    BY <1>7, Zenon DEF Label
  <2>2. UNCHANGED <<merged, cut_short, sets, torn, building, carved>>
    BY <1>7, Zenon DEF Label
  <2>3. p \in Photos
    BY PhotosAssumption
  <2>4. \A q \in labelled : SameLabel(q, p) => SameLabel(p, q)
    BY DEF SameLabel
  <2>5. OneEach'
    BY <2>1, <2>3, <2>4 DEF LabelsInv, OneEach
  <2>6. QED BY <2>2, <2>5, Zenon DEF LabelsInv
<1>8. CASE UNCHANGED datasets
  <2>1. UNCHANGED <<labelled, merged, cut_short, sets, torn, building, carved>>
    BY <1>8, Zenon DEF datasets
  <2>2. QED BY <1>0, <2>1, Zenon DEF LabelsInv
<1>9. QED
  BY <1>1, <1>2, <1>3, <1>4, <1>5, <1>6, <1>7, <1>8, Zenon DEF TrainingNext, SetNext, CarvedNext, training

-----------------------------------------------------------------------------
(* The reports                                                             *)

\* A list names each class once.
Listed(classes) == classes \in Seq(STRING) /\ IsInjective(classes)

LEMMA AppendLists ==
    ASSUME NEW L, NEW classes \in Seq(L), NEW c \in L, IsInjective(classes), c \notin ToSet(classes)
    PROVE  /\ Append(classes, c) \in Seq(L) /\ IsInjective(Append(classes, c))
           /\ ToSet(Append(classes, c)) = ToSet(classes) \cup {c}
<1> DEFINE n == Len(classes)
           longer == Append(classes, c)
<1>1. n \in Nat /\ DOMAIN classes = 1..n /\ longer \in Seq(L) /\ DOMAIN longer = 1..(n + 1)
      /\ (\A i \in 1..n : longer[i] = classes[i]) /\ longer[n + 1] = c
  OBVIOUS
<1> HIDE DEF n, longer
<1>2. \A i, j \in DOMAIN classes : classes[i] = classes[j] => i = j
  BY DEF IsInjective
<1>3. \A i \in DOMAIN classes : classes[i] # c
  BY DEF ToSet
<1>4. \A i, j \in DOMAIN longer : longer[i] = longer[j] => i = j
  <2> SUFFICES ASSUME NEW i \in DOMAIN longer, NEW j \in DOMAIN longer, longer[i] = longer[j] PROVE i = j
    OBVIOUS
  <2>1. (i \in 1..n \/ i = n + 1) /\ (j \in 1..n \/ j = n + 1)
    BY <1>1
  <2>2. QED BY <1>1, <1>2, <1>3, <2>1
<1>5. {longer[i] : i \in 1..(n + 1)} = {classes[i] : i \in 1..n} \cup {c}
  <2>1. 1..(n + 1) = (1..n) \cup {n + 1}
    BY <1>1
  <2>2. QED BY <1>1, <2>1
<1>6. ToSet(longer) = ToSet(classes) \cup {c}
  BY <1>1, <1>5, Zenon DEF ToSet
<1>7. IsInjective(longer)
  BY <1>4, Zenon DEF IsInjective
<1>8. QED BY <1>1, <1>6, <1>7 DEF longer

\* class_names() lists the classes of the photos.
LEMMA ClassesAreListed ==
    ASSUME NEW samples, Labels(samples) \subseteq ToSet(SortedNames)
    PROVE  Listed(ClassNames(samples)) /\ ToSet(ClassNames(samples)) = Labels(samples)
<1> DEFINE L == Labels(samples)
           V == Seq(L)
           S == DOMAIN SortedNames
           Step(classes, c) == IF c \in L THEN Append(classes, c) ELSE classes
           last(t) == CHOOSE x \in t : \A y \in t : x >= y
           pick == [t \in SUBSET S |-> last(t)]
           G == [p \in S \X V |-> Step(p[2], SortedNames[p[1]])]
           Rec(it) == it = [t \in SUBSET S |-> IF t = {} THEN <<>> ELSE Step(it[t \ {last(t)}], SortedNames[last(t)])]
           it == CHOOSE it : Rec(it)
           n == Len(SortedNames)
<1>1. ClassNames(samples) = it[S]
  BY DEF ClassNames, FoldLeft, MapThenFoldSet, Max
<1>2. S = 1..n /\ n \in Nat /\ SortedNames \in Seq(STRING) /\ IsInjective(SortedNames)
  BY AlbumsAssumption
<1>3. IsFiniteSet(S)
  BY <1>2, FS_Interval
<1>4. \A t \in SUBSET S : t # {} => last(t) \in t
  <2>1. ASSUME NEW t \in SUBSET S, t # {} PROVE \E x \in t : \A y \in t : x >= y
    <3>1. t \in SUBSET (0..n)
      BY <1>2
    <3> HIDE DEF S, n
    <3>2. QED BY <1>2, <2>1, <3>1, GreatestNatural
  <2> HIDE DEF S
  <2>2. QED BY <2>1, Zenon
<1>5. \A t \in SUBSET S : pick[t] = last(t)
  OBVIOUS
<1>6. \A x \in S, v \in V : G[<<x, v>>] = Step(v, SortedNames[x])
  OBVIOUS
<1>7. \A c : \A v \in V : Step(v, c) \in V
  OBVIOUS
<1>8. G \in [S \X V -> V]
  <2> HIDE DEF V, Step
  <2>1. QED BY <1>7
<1>9. <<>> \in V /\ L \subseteq STRING
  <2>1. ToSet(SortedNames) \subseteq STRING
    BY <1>2 DEF ToSet
  <2>2. QED BY <2>1
<1> HIDE DEF last, pick, G, S, V, Step, n
<1>10. PICK h \in [SUBSET S -> V] : IsFold(h, S, <<>>, G, pick)
  <2>1. \A t \in SUBSET S : t # {} => pick[t] \in t
    BY <1>4, <1>5, Zenon
  <2>2. QED BY <1>3, <1>8, <1>9, <2>1, FoldExists, Zenon
<1>11. Rec(h)
  <2>1. \A t \in SUBSET S : t # {} =>
           G[<<pick[t], h[t \ {pick[t]}]>>] = Step(h[t \ {last(t)}], SortedNames[last(t)])
    BY <1>4, <1>5, <1>6
  <2>2. QED BY <1>10, <2>1 DEF IsFold
<1>12. Rec(it)
  <2> HIDE DEF Rec
  <2>1. QED BY <1>11, Zenon
<1> HIDE DEF it
<1>13. \A t \in SUBSET S : it[t] = IF t = {} THEN <<>> ELSE Step(it[t \ {last(t)}], SortedNames[last(t)])
  BY <1>12, Zenon
<1> DEFINE NamesAt(t) == {SortedNames[i] : i \in t} \cap L
           W == {t \in SUBSET S : it[t] \in V /\ IsInjective(it[t]) /\ ToSet(it[t]) = NamesAt(t)}
<1>14. S \in W
  <2>1. {} \in W
    <3>1. it[{}] = <<>>
      BY <1>13
    <3>2. IsInjective(<<>>) /\ ToSet(<<>>) = {}
      BY DEF IsInjective, ToSet
    <3>3. QED BY <1>9, <3>1, <3>2
  <2>2. ASSUME NEW t \in SUBSET S, t # {}, t \ {pick[t]} \in W PROVE t \in W
    <3> DEFINE x == last(t)
               c == SortedNames[x]
               v == it[t \ {x}]
    <3>1. x \in t /\ v \in V /\ IsInjective(v) /\ ToSet(v) = NamesAt(t \ {x})
      BY <1>4, <1>5, <2>2
    <3>2. it[t] = Step(v, c)
      BY <1>13, <2>2, Zenon
    <3>3. c \notin {SortedNames[i] : i \in t \ {x}}
      BY <1>2, <3>1 DEF IsInjective, S
    <3>4. {SortedNames[i] : i \in t} = {SortedNames[i] : i \in t \ {x}} \cup {c}
      BY <3>1
    <3> HIDE DEF x, c, v
    <3>5. CASE c \in L
      <4>1. it[t] = Append(v, c)
        BY <3>2, <3>5 DEF Step
      <4>2. v \in Seq(L) /\ c \notin ToSet(v)
        BY <3>1, <3>3 DEF V
      <4>3. it[t] \in V /\ IsInjective(it[t]) /\ ToSet(it[t]) = ToSet(v) \cup {c}
        BY <3>1, <3>5, <4>1, <4>2, AppendLists DEF V
      <4>4. ToSet(it[t]) = NamesAt(t)
        BY <3>1, <3>4, <3>5, <4>3
      <4>5. QED BY <4>3, <4>4
    <3>6. CASE c \notin L
      <4>1. it[t] = v
        BY <3>2, <3>6 DEF Step
      <4>2. NamesAt(t) = NamesAt(t \ {x})
        BY <3>4, <3>6
      <4>3. QED BY <3>1, <4>1, <4>2
    <3>7. QED BY <3>5, <3>6
  <2>3. \A t \in SUBSET S : t # {} => pick[t] \in t
    BY <1>4, <1>5, Zenon
  <2> HIDE DEF W
  <2>4. \A t \in SUBSET S : t # {} /\ t \ {pick[t]} \in W => t \in W
    BY <2>2, Zenon
  <2>5. QED BY <1>3, <2>1, <2>3, <2>4, EachPicked, ZenonT(40)
<1>15. it[S] \in Seq(L) /\ IsInjective(it[S]) /\ ToSet(it[S]) = NamesAt(S)
  BY <1>14 DEF V
<1>16. NamesAt(S) = L
  BY DEF S, ToSet
<1>17. it[S] \in Seq(STRING)
  BY <1>9, <1>15
<1>18. QED BY <1>1, <1>15, <1>16, <1>17, Zenon DEF Listed

\* Numbers and names of listed classes go together.
LEMMA NumbersAndNames ==
    ASSUME NEW classes, Listed(classes)
    PROVE  /\ DOMAIN classes = 1..Len(classes) /\ Len(classes) \in Nat /\ IsFiniteSet(DOMAIN classes)
           /\ DOMAIN Numbered(classes) = ToSet(classes)
           /\ IsFiniteSet(ToSet(classes)) /\ Cardinality(ToSet(classes)) = Len(classes)
           /\ \A c \in ToSet(classes) : Numbered(classes)[c] \in DOMAIN classes /\ classes[Numbered(classes)[c]] = c
           /\ \A i \in DOMAIN classes : classes[i] \in ToSet(classes) /\ Numbered(classes)[classes[i]] = i
<1> DEFINE n == Len(classes)
           C == ToSet(classes)
           number(c) == CHOOSE i \in DOMAIN classes : classes[i] = c
<1>1. classes \in Seq(STRING) /\ DOMAIN classes = 1..n /\ n \in Nat
      /\ \A i, j \in DOMAIN classes : classes[i] = classes[j] => i = j
  BY DEF Listed, IsInjective
<1>2. Numbered(classes) = [c \in C |-> number(c)]
  BY DEF Numbered
<1>3. C = {classes[i] : i \in DOMAIN classes}
  BY DEF ToSet
<1> HIDE DEF n, C
<1>4. \A c \in C : number(c) \in DOMAIN classes /\ classes[number(c)] = c
  BY <1>3
<1> HIDE DEF number
<1>5. \A i \in DOMAIN classes : classes[i] \in C /\ number(classes[i]) = i
  BY <1>1, <1>3, <1>4
<1>6. IsFiniteSet(1..n) /\ Cardinality(1..n) = n
  BY <1>1, FS_Interval
<1>7. classes \in [1..n -> C]
  BY <1>1, <1>3
<1>8. classes \in Injection(1..n, C) /\ classes \in Surjection(1..n, C)
  BY <1>1, <1>3, <1>7 DEF Injection, Surjection, IsInjective
<1>9. IsFiniteSet(C) /\ Cardinality(C) = n
  BY <1>6, <1>8, FS_Surjection
<1>10. QED BY <1>1, <1>2, <1>4, <1>5, <1>6, <1>9 DEF n, C

\* A network answers with the number of one of its classes.
LEMMA AnswersAreNumbers ==
    ASSUME NEW classes, Listed(classes), NEW samples, Labels(samples) \subseteq ToSet(classes),
           NEW mistaken \in Mistakes(samples, classes)
    PROVE  Answers(Numbered(classes), samples, mistaken) \in [samples -> DOMAIN classes]
<1> DEFINE taught == Numbered(classes)
           n == Cardinality(DOMAIN taught)
<1>1. /\ DOMAIN classes = 1..n /\ n = Len(classes) /\ n \in Nat
      /\ \A c \in ToSet(classes) : taught[c] \in DOMAIN classes
  BY NumbersAndNames
<1>2. \A s \in samples : taught[s.class] \in 1..n
  BY <1>1 DEF Labels
<1>3. ASSUME NEW s \in samples, s \in mistaken PROVE \E i \in 1..n : i # taught[s.class]
  <2>1. n > 1
    BY <1>1, <1>3 DEF Mistakes
  <2>2. 1 \in 1..n /\ 2 \in 1..n
    BY <1>1, <2>1
  <2>3. QED BY <2>2
<1> HIDE DEF n, taught
<1>4. \A s \in samples : (IF s \in mistaken THEN CHOOSE i \in 1..n : i # taught[s.class] ELSE taught[s.class]) \in 1..n
  BY <1>2, <1>3
<1>5. Answers(taught, samples, mistaken)
        = [s \in samples |-> IF s \in mistaken THEN CHOOSE i \in 1..n : i # taught[s.class] ELSE taught[s.class]]
  BY DEF Answers, n
<1>6. Answers(taught, samples, mistaken) \in [samples -> 1..n]
  BY <1>4, <1>5
<1>7. QED BY <1>1, <1>6 DEF taught

\* What a report has to say of answers by name.
TellsTheAnswers(of, report) ==
    LET told == report.per_class
        Are(c) == {s \in DOMAIN of : of[s].true = c}
        Taken(c) == {s \in DOMAIN of : of[s].pred = c}
    IN /\ report.n = Cardinality(DOMAIN of)
       /\ report.right = Cardinality({s \in DOMAIN of : of[s].true = of[s].pred})
       /\ \A s \in DOMAIN of : of[s].true = s.class
       /\ Labels(DOMAIN of) \subseteq DOMAIN told
       /\ \A c \in DOMAIN told :
             told[c] = [tp |-> Cardinality(Are(c) \cap Taken(c)),
                        fp |-> Cardinality(Taken(c) \ Are(c)),
                        fn |-> Cardinality(Are(c) \ Taken(c)),
                        support |-> Cardinality(Are(c))]

\* Numbers and names of the same answers.
SameAnswers(answers, of, classes) ==
    /\ DOMAIN of = DOMAIN answers
    /\ answers \in [DOMAIN of -> [true : DOMAIN classes, pred : DOMAIN classes]]
    /\ \A s \in DOMAIN of : of[s].true = classes[answers[s].true] /\ of[s].pred = classes[answers[s].pred]

\* The sums of the matrix are the numbers of photos.
CountPhotos(answers, classes) ==
    LET Is(t) == {s \in DOMAIN answers : answers[s].true = t}
        As(p) == {s \in DOMAIN answers : answers[s].pred = p}
    IN /\ \A t \in DOMAIN classes :
             SumFunction([p \in DOMAIN classes |-> Cell(answers, t, p)]) = Cardinality(Is(t))
       /\ \A p \in DOMAIN classes :
             SumFunction([t \in DOMAIN classes |-> Cell(answers, t, p)]) = Cardinality(As(p))
       /\ SumFunction([t \in DOMAIN classes |-> Cardinality(Is(t))]) = Cardinality(DOMAIN answers)
       /\ SumFunction([i \in DOMAIN classes |-> Cell(answers, i, i)])
          = Cardinality({s \in DOMAIN answers : answers[s].true = answers[s].pred})
       /\ \A t, p \in DOMAIN classes : Cell(answers, t, p) = Cardinality(Is(t) \cap As(p))

LEMMA SumsCountPhotos ==
    ASSUME NEW classes, Listed(classes), NEW answers, IsFiniteSet(DOMAIN answers),
           answers \in [DOMAIN answers -> [true : DOMAIN classes, pred : DOMAIN classes]]
    PROVE  CountPhotos(answers, classes)
<1> DEFINE S == DOMAIN answers
           N == DOMAIN classes
           Is(t) == {s \in S : answers[s].true = t}
           As(p) == {s \in S : answers[s].pred = p}
           Both(t, p) == Is(t) \cap As(p)
<1>1. IsFiniteSet(N)
  BY NumbersAndNames
<1>2. \A s \in S : answers[s].true \in N /\ answers[s].pred \in N /\ answers[s] \in [true : N, pred : N]
  OBVIOUS
<1>3. \A t, p : {s \in S : answers[s] = [true |-> t, pred |-> p]} = Both(t, p)
  <2> TAKE t, p
  <2>1. \A s \in S : answers[s] = [true |-> t, pred |-> p] <=> answers[s].true = t /\ answers[s].pred = p
    BY <1>2
  <2>2. QED BY <2>1
<1>4. \A t, p : Cell(answers, t, p) = Cardinality(Both(t, p))
  BY <1>3 DEF Cell
<1>5. \A T \in SUBSET S : IsFiniteSet(T)
  BY FS_Subset
<1> HIDE DEF S, N
<1>6. ASSUME NEW t \in N PROVE SumFunction([p \in N |-> Cell(answers, t, p)]) = Cardinality(Is(t))
  <2> DEFINE f == [p \in N |-> Cell(answers, t, p)]
             A == [p \in N |-> Both(t, p)]
  <2>1. CountsOf(f, A)
    BY <1>1, <1>4, <1>5 DEF CountsOf
  <2>2. SumFunction(f) = Cardinality(UNION {A[x] : x \in DOMAIN f})
    <3> HIDE DEF f, A
    <3>1. QED BY <2>1, SumIsUnion, SMTT(40)
  <2>3. UNION {A[x] : x \in DOMAIN f} = Is(t)
    BY <1>2
  <2>4. QED BY <2>2, <2>3
<1>7. ASSUME NEW p \in N PROVE SumFunction([t \in N |-> Cell(answers, t, p)]) = Cardinality(As(p))
  <2> DEFINE f == [t \in N |-> Cell(answers, t, p)]
             A == [t \in N |-> Both(t, p)]
  <2>1. CountsOf(f, A)
    BY <1>1, <1>4, <1>5 DEF CountsOf
  <2>2. SumFunction(f) = Cardinality(UNION {A[x] : x \in DOMAIN f})
    <3> HIDE DEF f, A
    <3>1. QED BY <2>1, SumIsUnion
  <2>3. UNION {A[x] : x \in DOMAIN f} = As(p)
    BY <1>2
  <2>4. QED BY <2>2, <2>3
<1>8. SumFunction([t \in N |-> Cardinality(Is(t))]) = Cardinality(S)
  <2> DEFINE f == [t \in N |-> Cardinality(Is(t))]
             A == [t \in N |-> Is(t)]
  <2>1. CountsOf(f, A)
    BY <1>1, <1>5 DEF CountsOf
  <2>2. SumFunction(f) = Cardinality(UNION {A[x] : x \in DOMAIN f})
    <3> HIDE DEF f, A
    <3>1. QED BY <2>1, SumIsUnion
  <2>3. UNION {A[x] : x \in DOMAIN f} = S
    BY <1>2
  <2>4. QED BY <2>2, <2>3
<1>9. SumFunction([i \in N |-> Cell(answers, i, i)]) = Cardinality({s \in S : answers[s].true = answers[s].pred})
  <2> DEFINE f == [i \in N |-> Cell(answers, i, i)]
             A == [i \in N |-> Both(i, i)]
  <2>1. CountsOf(f, A)
    BY <1>1, <1>4, <1>5 DEF CountsOf
  <2>2. SumFunction(f) = Cardinality(UNION {A[x] : x \in DOMAIN f})
    <3> HIDE DEF f, A
    <3>1. QED BY <2>1, SumIsUnion
  <2>3. UNION {A[x] : x \in DOMAIN f} = {s \in S : answers[s].true = answers[s].pred}
    BY <1>2
  <2>4. QED BY <2>2, <2>3
<1>10. QED BY <1>4, <1>6, <1>7, <1>8, <1>9 DEF CountPhotos, S, N

\* report() counts what the answers mean by name.
LEMMA ReportIsTrue ==
    ASSUME NEW classes, Listed(classes), NEW answers, NEW of, SameAnswers(answers, of, classes),
           IsFiniteSet(DOMAIN of), \A s \in DOMAIN of : of[s].true = s.class
    PROVE  TellsTheAnswers(of, Report(answers, classes))
<1> DEFINE S == DOMAIN answers
           N == DOMAIN classes
           Is(t) == {s \in S : answers[s].true = t}
           As(p) == {s \in S : answers[s].pred = p}
           Are(c) == {s \in S : of[s].true = c}
           Taken(c) == {s \in S : of[s].pred = c}
           number == Numbered(classes)
           C == ToSet(classes)
           Row(t) == SumFunction([p \in N |-> Cell(answers, t, p)])
           Column(p) == SumFunction([t \in N |-> Cell(answers, t, p)])
           told == [c \in C |->
                      LET i == number[c] IN
                      [tp |-> Cell(answers, i, i), fp |-> Column(i) - Cell(answers, i, i),
                       fn |-> Row(i) - Cell(answers, i, i), support |-> Row(i)]]
<1>1. /\ DOMAIN of = S /\ answers \in [S -> [true : N, pred : N]]
      /\ \A s \in S : of[s].true = classes[answers[s].true] /\ of[s].pred = classes[answers[s].pred]
  BY DEF SameAnswers
<1>2. /\ \A c \in C : number[c] \in N /\ classes[number[c]] = c
      /\ \A i \in N : classes[i] \in C /\ number[classes[i]] = i
  BY NumbersAndNames
<1>3. /\ \A t \in N : Row(t) = Cardinality(Is(t))
      /\ \A p \in N : Column(p) = Cardinality(As(p))
      /\ SumFunction([t \in N |-> Cardinality(Is(t))]) = Cardinality(S)
      /\ SumFunction([i \in N |-> Cell(answers, i, i)]) = Cardinality({s \in S : answers[s].true = answers[s].pred})
      /\ \A t, p \in N : Cell(answers, t, p) = Cardinality(Is(t) \cap As(p))
  <2>1. IsFiniteSet(DOMAIN answers) /\ answers \in [DOMAIN answers -> [true : DOMAIN classes, pred : DOMAIN classes]]
    BY <1>1
  <2>2. CountPhotos(answers, classes)
    BY <2>1, SumsCountPhotos, Zenon
  <2>3. QED BY <2>2, Zenon DEF CountPhotos
<1> DEFINE all == SumFunction([t \in N |-> Row(t)])
           right == SumFunction([i \in N |-> Cell(answers, i, i)])
<1>4. Report(answers, classes) = [n |-> all, right |-> right, per_class |-> told]
  BY DEF Report
<1>5. all = Cardinality(S) /\ right = Cardinality({s \in S : answers[s].true = answers[s].pred})
  <2>1. [t \in N |-> Row(t)] = [t \in N |-> Cardinality(Is(t))]
    BY <1>3
  <2>2. QED BY <1>3, <2>1, Zenon
<1>6. \A s \in S : answers[s].true \in N /\ answers[s].pred \in N
  BY <1>1
<1> HIDE DEF S, N, number, C, Row, Column, all, right
<1>7. \A c \in C : Are(c) = Is(number[c]) /\ Taken(c) = As(number[c])
  BY <1>1, <1>2, <1>6
<1>8. {s \in S : of[s].true = of[s].pred} = {s \in S : answers[s].true = answers[s].pred}
  <2>1. \A s \in S : of[s].true = of[s].pred <=> answers[s].true = answers[s].pred
    <3> TAKE s \in S
    <3>1. answers[s].true = number[of[s].true] /\ answers[s].pred = number[of[s].pred]
      BY <1>1, <1>2, <1>6
    <3>2. QED BY <1>1, <3>1
  <2>2. QED BY <2>1
<1>9. \A T \in SUBSET S : IsFiniteSet(T) /\ Cardinality(T) \in Nat
  <2>1. IsFiniteSet(S)
    BY <1>1
  <2>2. QED BY <2>1, FS_Subset, FS_CardinalityType, Zenon
<1>10. ASSUME NEW c \in C
       PROVE  told[c] = [tp |-> Cardinality(Are(c) \cap Taken(c)), fp |-> Cardinality(Taken(c) \ Are(c)),
                         fn |-> Cardinality(Are(c) \ Taken(c)), support |-> Cardinality(Are(c))]
  <2> DEFINE i == number[c]
             a == Are(c)
             b == Taken(c)
  <2>1. i \in N /\ Is(i) = a /\ As(i) = b
    BY <1>2, <1>7
  <2>2. Row(i) = Cardinality(a) /\ Column(i) = Cardinality(b) /\ Cell(answers, i, i) = Cardinality(a \cap b)
    BY <1>3, <2>1
  <2>3. IsFiniteSet(a) /\ IsFiniteSet(b)
    BY <1>9
  <2>4. told[c] = [tp |-> Cell(answers, i, i), fp |-> Column(i) - Cell(answers, i, i),
                   fn |-> Row(i) - Cell(answers, i, i), support |-> Row(i)]
    OBVIOUS
  <2>5. b \cap a = a \cap b
    OBVIOUS
  <2> HIDE DEF a, b, i, told
  <2>6. Cardinality(a \ b) = Cardinality(a) - Cardinality(a \cap b) /\ Cardinality(b \ a) = Cardinality(b) - Cardinality(b \cap a)
    BY <2>3, FS_Difference, Zenon
  <2>7. told[c] = [tp |-> Cardinality(a \cap b), fp |-> Cardinality(b \ a), fn |-> Cardinality(a \ b), support |-> Cardinality(a)]
    BY <2>2, <2>4, <2>5, <2>6
  <2>8. QED BY <2>7 DEF a, b
<1>11. DOMAIN told = C
  OBVIOUS
<1>12. Labels(S) \subseteq C
  <2>1. \A s \in S : s.class \in C
    <3> TAKE s \in S
    <3>1. s.class = classes[answers[s].true]
      BY <1>1
    <3>2. QED BY <1>2, <1>6, <3>1
  <2>2. QED BY <2>1 DEF Labels
<1> HIDE DEF told
<1>13. LET report == Report(answers, classes) IN report.n = all /\ report.right = right /\ report.per_class = told
  BY <1>4
<1>14. QED BY <1>1, <1>5, <1>8, <1>10, <1>11, <1>12, <1>13, Zenon DEF TellsTheAnswers

\* Answers to tests that fit() gives, by number and by name.
LEMMA FitTells ==
    ASSUME NEW classes, Listed(classes), NEW tests, IsFiniteSet(tests), Labels(tests) \subseteq ToSet(classes),
           NEW mistaken \in Mistakes(tests, classes)
    PROVE  LET answers == Fit(tests, classes, mistaken) IN
           TellsTheAnswers(Named(answers, classes), Report(answers, classes))
<1> DEFINE index == Numbered(classes)
           answer == Answers(index, tests, mistaken)
           answers == Fit(tests, classes, mistaken)
           of == Named(answers, classes)
           N == DOMAIN classes
<1>1. answer \in [tests -> N]
  BY AnswersAreNumbers
<1>2. \A s \in tests : index[s.class] \in N /\ classes[index[s.class]] = s.class
  <2>1. \A s \in tests : s.class \in ToSet(classes)
    BY DEF Labels
  <2>2. QED BY <2>1, NumbersAndNames
<1>3. answers = [s \in tests |-> [true |-> index[s.class], pred |-> answer[s]]]
  BY DEF Fit
<1>4. of = [s \in DOMAIN answers |-> [true |-> s.class, pred |-> classes[answers[s].pred]]]
  BY DEF Named, Decide
<1> HIDE DEF index, answer, answers, of, N
<1>5. DOMAIN answers = tests /\ DOMAIN of = tests
      /\ answers \in [tests -> [true : N, pred : N]]
      /\ \A s \in tests : /\ of[s].true = s.class /\ of[s].pred = classes[answers[s].pred]
                          /\ answers[s].true = index[s.class]
  BY <1>1, <1>2, <1>3, <1>4
<1>6. SameAnswers(answers, of, classes)
  BY <1>2, <1>5 DEF SameAnswers, N
<1>7. TellsTheAnswers(of, Report(answers, classes))
  BY <1>5, <1>6, ReportIsTrue
<1>8. QED BY <1>7 DEF of, answers

\* A folder that can be trained on lists all its classes.
LEMMA TrainedClasses ==
    ASSUME NEW album \in Albums, Trainable(Scan(album))
    PROVE  LET classes == ClassNames(OfSplit(Scan(album), "train")) IN
           /\ IsFiniteSet(Scan(album)) /\ Listed(classes)
           /\ Labels(Scan(album)) \subseteq ToSet(classes)
<1> DEFINE samples == Scan(album)
           trained == OfSplit(samples, "train")
<1>1. samples \subseteq album
  BY DEF Scan
<1>2. IsFiniteSet(samples)
  BY <1>1, AlbumsAssumption, FS_Subset
<1>3. \A s \in samples : s.split \in {"train", "test"} /\ s.class \in ToSet(SortedNames)
  BY <1>1, AlbumsAssumption
<1>4. Labels(OfSplit(samples, "test")) \subseteq Labels(trained)
  BY DEF Trainable
<1> HIDE DEF samples
<1>5. Labels(samples) \subseteq Labels(trained)
  BY <1>3, <1>4 DEF Labels, OfSplit
<1>6. Labels(trained) \subseteq ToSet(SortedNames)
  BY <1>3 DEF Labels, OfSplit
<1> HIDE DEF trained
<1>7. Listed(ClassNames(trained)) /\ ToSet(ClassNames(trained)) = Labels(trained)
  BY <1>6, ClassesAreListed
<1>8. QED BY <1>2, <1>5, <1>7 DEF samples, trained

\* A report tells the answers, a checkpoint knows the numbers by which it was taught,
\* and a cross-validation teaches all the classes it tests.
ReportsInv ==
    /\ tested # Untested => TellsTheAnswers(tested.of, tested.report)
    /\ checkpoint # NoCheckpoint =>
          Listed(checkpoint.classes) /\ checkpoint.taught = Numbered(checkpoint.classes)
    /\ validation # NoValidation =>
          LET classes == ClassNames(OfSplit(validation.samples, "train")) IN
          Listed(classes) /\ Labels(validation.samples) \subseteq ToSet(classes)

\* A training run.
LEMMA TrainTells ==
    ASSUME ReportsInv, NEW album \in Albums, Train(album)
    PROVE  ReportsInv'
<1> DEFINE samples == Scan(album)
           classes == ClassNames(OfSplit(samples, "train"))
           tests == OfSplit(samples, "test")
           answers(mistaken) == Fit(tests, classes, mistaken)
           report(mistaken) == [of |-> Named(answers(mistaken), classes), report |-> Report(answers(mistaken), classes)]
<1>1. PICK mistaken \in Mistakes(tests, classes) : tested' = IF tests = {} THEN Untested ELSE report(mistaken)
  BY Zenon DEF Train
<1>2. Trainable(samples) /\ checkpoint' = Checkpoint(classes) /\ validation' = validation
  BY Zenon DEF Train
<1>3. IsFiniteSet(samples) /\ Listed(classes) /\ Labels(samples) \subseteq ToSet(classes)
  BY <1>2, TrainedClasses, Zenon
<1>4. IsFiniteSet(tests) /\ Labels(tests) \subseteq ToSet(classes)
  <2>1. tests \subseteq samples
    BY DEF OfSplit
  <2> HIDE DEF samples, classes, tests
  <2>2. Labels(tests) \subseteq Labels(samples)
    BY <2>1 DEF Labels
  <2>3. QED BY <1>3, <2>1, <2>2, FS_Subset
<1> HIDE DEF samples, classes, tests
<1>5. TellsTheAnswers(Named(answers(mistaken), classes), Report(answers(mistaken), classes))
  BY <1>3, <1>4, FitTells, Zenon
<1> DEFINE of == Named(answers(mistaken), classes)
           told == Report(answers(mistaken), classes)
<1>6. TellsTheAnswers(of, told) /\ tested' = IF tests = {} THEN Untested ELSE [of |-> of, report |-> told]
  BY <1>1, <1>5, Zenon
<1> HIDE DEF of, told
<1>7. tested' # Untested => tested'.of = of /\ tested'.report = told
  BY <1>6
<1>8. checkpoint'.classes = classes /\ checkpoint'.taught = Numbered(classes)
  BY <1>2 DEF Checkpoint
<1>9. tested' # Untested => TellsTheAnswers(tested'.of, tested'.report)
  BY <1>6, <1>7, Zenon
<1>10. QED BY <1>2, <1>3, <1>8, <1>9, Zenon DEF ReportsInv

\* A fold.
LEMMA FoldTells ==
    ASSUME ReportsInv, FoldsInv, FitFold
    PROVE  ReportsInv'
<1> DEFINE samples == validation.samples
           classes == ClassNames(OfSplit(samples, "train"))
           answers(mistaken) == Fit(Tests, classes, mistaken)
<1>1. /\ validation.next \in DOMAIN validation.folds
      /\ validation' = [validation EXCEPT !.next = @ + 1] /\ UNCHANGED checkpoint
  BY Zenon DEF FitFold
<1>2. PICK mistaken \in Mistakes(Tests, classes) :
        tested' = [of |-> Named(answers(mistaken), classes), report |-> Report(answers(mistaken), classes)]
  BY Zenon DEF FitFold
<1>3. validation # NoValidation
  BY <1>1 DEF NoValidation
<1>4. Listed(classes) /\ Labels(samples) \subseteq ToSet(classes)
  BY <1>3, Zenon DEF ReportsInv
<1>5. IsFiniteSet(samples) /\ FoldsAreFair(samples, validation.folds)
  BY <1>3, DealtFairly, AlbumsAssumption, Zenon DEF FoldsInv
<1>6. IsFiniteSet(Tests) /\ Labels(Tests) \subseteq ToSet(classes)
  <2>1. Tests \subseteq samples
    BY <1>1, <1>5 DEF Tests, FoldsAreFair
  <2> HIDE DEF samples, classes
  <2>2. Labels(Tests) \subseteq Labels(samples)
    BY <2>1 DEF Labels
  <2>3. QED BY <1>4, <1>5, <2>1, <2>2, FS_Subset
<1>7. validation'.samples = samples
  BY <1>1
<1> HIDE DEF classes
<1> DEFINE of == Named(answers(mistaken), classes)
           told == Report(answers(mistaken), classes)
<1>8. TellsTheAnswers(of, told)
  BY <1>4, <1>6, FitTells, Zenon
<1>9. tested' = [of |-> of, report |-> told]
  BY <1>2, Zenon
<1> HIDE DEF of, told
<1>10. tested'.of = of /\ tested'.report = told
  BY <1>9
<1>11. tested' # Untested => TellsTheAnswers(tested'.of, tested'.report)
  BY <1>8, <1>10, Zenon
<1>12. QED BY <1>1, <1>4, <1>7, <1>11, Zenon DEF ReportsInv, classes

\* An evaluation of a checkpoint, on whichever folder.
LEMMA EvaluationTells ==
    ASSUME ReportsInv, NEW album \in Albums, NEW split, EvaluateCheckpoint(album, split)
    PROVE  ReportsInv'
<1> DEFINE samples == IF split = "all" THEN Scan(album) ELSE OfSplit(Scan(album), split)
           classes == checkpoint.classes
           N == DOMAIN classes
           decided(mistaken) == Predicted(checkpoint, samples, mistaken)
           numbers(mistaken) == [s \in samples |-> [true |-> TrueNumbers(samples)[s.class],
                                                    pred |-> Numbered(classes)[decided(mistaken)[s]]]]
           names(mistaken) == [s \in samples |-> [true |-> s.class, pred |-> decided(mistaken)[s]]]
<1>1. checkpoint # NoCheckpoint /\ Labels(samples) \subseteq ToSet(classes) /\ UNCHANGED <<checkpoint, validation>>
  BY Zenon DEF EvaluateCheckpoint
<1>2. PICK mistaken \in Mistakes(samples, classes) :
        tested' = [of |-> names(mistaken), report |-> Report(numbers(mistaken), classes)]
  BY Zenon DEF EvaluateCheckpoint
<1>3. Listed(classes) /\ checkpoint.taught = Numbered(classes)
  BY <1>1, Zenon DEF ReportsInv
<1>4. IsFiniteSet(samples)
  <2>1. samples \subseteq album
    BY DEF Scan, OfSplit
  <2>2. QED BY <2>1, AlbumsAssumption, FS_Subset
<1> HIDE DEF samples
<1> DEFINE answer == Answers(Numbered(classes), samples, mistaken)
           index == Numbered(classes)
<1>5. answer \in [samples -> N]
  BY <1>1, <1>3, AnswersAreNumbers
<1>6. \A s \in samples : decided(mistaken)[s] = classes[answer[s]]
  BY <1>3 DEF Predicted, Decide
<1>7. \A s \in samples : index[s.class] \in N /\ classes[index[s.class]] = s.class
  <2>1. \A s \in samples : s.class \in ToSet(classes)
    BY <1>1 DEF Labels
  <2>2. QED BY <1>3, <2>1, NumbersAndNames
<1>8. \A i \in N : index[classes[i]] = i
  BY <1>3, NumbersAndNames
<1> DEFINE answers == numbers(mistaken)
           of == names(mistaken)
           guess == decided(mistaken)
<1>9. answers = [s \in samples |-> [true |-> index[s.class], pred |-> index[guess[s]]]]
      /\ of = [s \in samples |-> [true |-> s.class, pred |-> guess[s]]]
  BY DEF TrueNumbers
<1> HIDE DEF answers, of, answer, index, N, guess
<1>10. \A s \in samples : guess[s] = classes[answer[s]] /\ index[guess[s]] = answer[s] /\ answer[s] \in N
  BY <1>5, <1>6, <1>8 DEF guess
<1>11. DOMAIN answers = samples /\ DOMAIN of = samples
       /\ answers \in [samples -> [true : N, pred : N]]
       /\ \A s \in samples : /\ of[s].true = s.class /\ of[s].pred = guess[s]
                             /\ answers[s].true = index[s.class] /\ answers[s].pred = index[guess[s]]
  BY <1>7, <1>9, <1>10
<1>12. SameAnswers(answers, of, classes)
  BY <1>7, <1>10, <1>11 DEF SameAnswers, N
<1>13. TellsTheAnswers(of, Report(answers, classes))
  BY <1>3, <1>4, <1>11, <1>12, ReportIsTrue
<1> DEFINE told == Report(answers, classes)
<1>14. tested' = [of |-> of, report |-> told]
  BY <1>2, Zenon DEF of, answers
<1> HIDE DEF told
<1>15. tested'.of = of /\ tested'.report = told
  BY <1>14
<1>16. tested' # Untested => TellsTheAnswers(tested'.of, tested'.report)
  BY <1>13, <1>15, Zenon DEF told
<1>17. QED BY <1>1, <1>16, Zenon DEF ReportsInv

\* Every step of the classifier keeps its reports true.
LEMMA ReportsKept == ReportsInv /\ FoldsInv /\ [TrainingNext]_training => ReportsInv'
<1> SUFFICES ASSUME ReportsInv, FoldsInv, [TrainingNext]_training PROVE ReportsInv'
  OBVIOUS
<1>1. CASE UNCHANGED classifier
  BY <1>1, Zenon DEF ReportsInv, classifier
<1>2. CASE \E album \in Albums : Train(album)
  BY <1>2, TrainTells
<1>3. CASE \E album \in Albums, k \in KFolds : StartValidation(album, k)
  <2>1. PICK album \in Albums, k \in KFolds : StartValidation(album, k)
    BY <1>3, Zenon
  <2> DEFINE samples == Scan(album)
  <2>2. Trainable(samples) /\ tested' = Untested /\ checkpoint' = checkpoint
        /\ \E orders : validation' = [samples |-> samples, folds |-> Folds(orders, k), next |-> 1]
    BY <2>1, Zenon DEF StartValidation
  <2>3. validation'.samples = samples
    BY <2>2
  <2>4. LET classes == ClassNames(OfSplit(samples, "train")) IN
        Listed(classes) /\ Labels(samples) \subseteq ToSet(classes)
    BY <2>2, TrainedClasses, Zenon
  <2> HIDE DEF samples
  <2>5. QED BY <2>2, <2>3, <2>4, Zenon DEF ReportsInv
<1>4. CASE FitFold
  BY <1>4, FoldTells
<1>5. CASE EndValidation
  BY <1>5, Zenon DEF EndValidation, ReportsInv
<1>6. CASE \E album \in Albums, split \in {"train", "test", "all"} : EvaluateCheckpoint(album, split)
  BY <1>6, EvaluationTells
<1>7. QED
  BY <1>1, <1>2, <1>3, <1>4, <1>5, <1>6, Zenon DEF TrainingNext, ClassificationNext, training

\* For any photos, however the programs are repeated and broken off: a set built into
\* an empty folder shows no picture on both sides, a carved one has no file on both
\* that was not given for both, and a network is tested with photos it has not seen, of
\* classes it has (prepare_rtdetr_dataset.py _split_and_copy, prepare_obb_dataset.py
\* carve_val, train.py stratified_folds).
THEOREM TestedOnUnseen == TrainingInit /\ [][TrainingNext]_training => []ValidatedOnUnseen
<1> DEFINE Inv == UnseenInv /\ CarvedInv /\ FoldsInv
<1>1. ASSUME TrainingInit PROVE Inv
  <2>1. sets = [model \in DOMAIN Formats |-> NoSplit] /\ building = Idle /\ carved = NoCarved /\ validation = NoValidation
    BY <1>1 DEF TrainingInit, DatasetsInit, ClassificationInit
  <2>2. UnseenInv
    BY <2>1 DEF UnseenInv, Idle, NoSplit, Pictures
  <2>3. CarvedInv
    BY <2>1 DEF CarvedInv, NoCarved, Names
  <2>4. FoldsInv
    BY <2>1 DEF FoldsInv
  <2>5. QED BY <2>2, <2>3, <2>4
<1>2. Inv /\ [TrainingNext]_training => Inv'
  BY UnseenKept, CarvedKept, FoldsKept
<1>3. ASSUME Inv PROVE ValidatedOnUnseen
  <2>1. FoldsAreFair(validation.samples, validation.folds)
    <3>1. CASE validation = NoValidation
      <4>1. validation.samples = {} /\ validation.folds = <<>>
        BY <3>1 DEF NoValidation
      <4>2. DOMAIN validation.folds = {}
        BY <4>1
      <4>3. QED BY <4>1, <4>2 DEF FoldsAreFair
    <3>2. CASE validation # NoValidation
      BY <1>3, <3>2, DealtFairly, AlbumsAssumption, Zenon DEF FoldsInv
    <3>3. QED BY <3>1, <3>2
  <2>2. QED BY <1>3, <2>1, Zenon DEF ValidatedOnUnseen, FoldsAreFair, UnseenInv, CarvedInv
<1> HIDE DEF Inv
<1>4. QED BY <1>1, <1>2, <1>3, PTL

\* For any photos, folders, counts, groups and albums: every label names what its
\* picture shows, in the format of its set, and every report tells what the answers
\* mean by name (merge_labeled_data.py merge, prepare_obb_from_sources.py, metrics.py
\* report, evaluate.py main).
THEOREM LabelsAreTrue == TrainingInit /\ [][TrainingNext]_training => []LabelsTellTheirPictures
<1> DEFINE Inv == LabelsInv /\ FoldsInv /\ ReportsInv
<1>1. ASSUME TrainingInit PROVE Inv
  <2>1. /\ sets = [model \in DOMAIN Formats |-> NoSplit] /\ building = Idle /\ carved = NoCarved /\ merged = {}
        /\ labelled = Photos \ Unlabelled
        /\ validation = NoValidation /\ tested = Untested /\ checkpoint = NoCheckpoint
    BY <1>1 DEF TrainingInit, DatasetsInit, ClassificationInit
  <2>2. OneEach
    BY <2>1, PhotosAssumption DEF OneEach
  <2>2a. LabelsInv
    BY <2>1, <2>2 DEF LabelsInv, Idle, NoSplit, NoCarved
  <2>3. FoldsInv /\ ReportsInv
    BY <2>1 DEF FoldsInv, ReportsInv
  <2>4. QED BY <2>2a, <2>3
<1>2. Inv /\ [TrainingNext]_training => Inv'
  BY LabelsKept, FoldsKept, ReportsKept
<1>3. ASSUME Inv PROVE LabelsTellTheirPictures
  <2> DEFINE Tells(format, picture) == [format |-> format, classes |-> Shows[picture]]
  <2>1. \A item \in merged : \/ item.label = Tells("aabb", item.picture)
                            \/ (cut_short /\ item.label = NoLabel)
    BY <1>3 DEF LabelsInv, Left, Truly, Bare, Item
  <2>2. \A item \in carved.train \cup carved.val \cup carved.test : item.label = Tells("obb", item.picture)
    BY <1>3 DEF LabelsInv, Truly, Item
  <2>2a. \A m \in DOMAIN sets \ torn : \A item \in sets[m].train \cup sets[m].val :
            \E picture \in MayTell(item) : item.label = Tells(Formats[m], picture)
    <3> TAKE m \in DOMAIN sets \ torn
    <3> TAKE item \in sets[m].train \cup sets[m].val
    <3>1. item \in ToldIn(Formats[m])
      BY <1>3 DEF LabelsInv
    <3>2. PICK x \in {y \in Photos \X Photos : SameLabel(y[1], y[2])} :
             item = Item(x[1], [format |-> Formats[m], classes |-> Shows[x[2].picture]])
      BY <3>1 DEF ToldIn
    <3>3. x[1] \in Photos /\ x[2] \in Photos /\ SameLabel(x[1], x[2])
      OBVIOUS
    <3>4. item.name = x[1].name /\ item.picture = x[1].picture /\ item.label = Tells(Formats[m], x[2].picture)
      BY <3>2 DEF Item
    <3>5. x[2].picture \in MayTell(item)
      BY <3>3, <3>4, Zenon DEF MayTell
    <3>6. QED BY <3>4, <3>5
  <2> HIDE DEF Tells
  <2>3. tested # Untested => TellsTheAnswers(tested.of, tested.report)
    BY <1>3, Zenon DEF ReportsInv
  <2>4. QED BY <2>1, <2>2, <2>2a, <2>3, Zenon DEF LabelsTellTheirPictures, TellsTheAnswers, Tells
<1> HIDE DEF Inv
<1>4. QED BY <1>1, <1>2, <1>3, PTL
=============================================================================
