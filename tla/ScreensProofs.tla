---------------------------- MODULE ScreensProofs ----------------------------
(***************************************************************************)
(* The safety of the way from the source to the browsers, for any files,   *)
(* pages, executor and bounds.                                             *)
(*                                                                         *)
(* FileInv tells where in the file the next read is: it is what the        *)
(* pictures since the last reset make it, or nothing has been read since,  *)
(* and then a rewind is pending unless the file is at its beginning.       *)
(* FanoutInv tells where the newest payload is on its way: at the end of   *)
(* the backlog, or on every screen.                                        *)
(***************************************************************************)
EXTENDS Screens, SequenceTheorems, TLAPS

FileTypeOK ==
    /\ mode \in Modes
    /\ position \in 0..mode.length
    /\ nth \in 0..(2 * mode.length)

Flags == rewind \in BOOLEAN /\ atEnd \in BOOLEAN

\* Which picture of the file the nth one since a reset is.
PictureOf(n) ==
    CASE mode.end = "hold" -> (IF n > mode.length THEN mode.length ELSE n) - 1
      [] mode.end = "loop" -> (IF n > mode.length THEN n - mode.length ELSE n) - 1
      [] mode.end = "stop" -> n - 1

FileInv ==
    IsVideo =>
        /\ FileTypeOK /\ Flags
        /\ nth = 0 => rewind = TRUE \/ (position = 0 /\ atEnd = FALSE)
        /\ nth > 0 =>
              /\ rewind = FALSE
              /\ shown = PictureOf(nth) /\ shown \in 0..(mode.length - 1)
              /\ lastImg = shown /\ position = shown + 1
              /\ atEnd = TRUE <=> (mode.end = "hold" /\ nth > mode.length)

Tags == {"none", "old", "new"}
Payloads == [of : Tags, newest : BOOLEAN]

FanoutTypeOK ==
    /\ latest \in Tags /\ inferring \in Tags /\ result \in Tags /\ frame.of \in Tags
    /\ backlog \in Seq(Payloads) /\ last \in Payloads
    /\ clients \subseteq Displays
    /\ conn \in [Displays -> {"off", "joined", "on", "gone"}]
    /\ shows \in [Displays -> Payloads]

FanoutInv ==
    /\ FanoutTypeOK
    /\ \A s \in Displays : conn[s] \in {"joined", "on"} => s \in clients
    /\ (lpc # "schedule" /\ Published /\ ~stray) =>
          IF backlog # <<>> THEN backlog[Len(backlog)] = last
          ELSE \A s \in Displays : conn[s] = "on" => shows[s] = last

-----------------------------------------------------------------------------
(* The file *)

\* Two turns of a file are read as the wrapped counter says.
LEMMA Wrapped ==
    ASSUME NEW L \in Nat \ {0}, NEW k \in 0..(2 * L - 1)
    PROVE  k % L = IF k < L THEN k ELSE k - L
  OBVIOUS

LEMMA FileBegins == Init => FileInv
<1> SUFFICES ASSUME Init, IsVideo PROVE FileInv
  BY DEF FileInv
<1>1. mode \in Modes
  BY DEF Init, SourceInit
<1>2. mode.length \in Nat
  BY <1>1, ModesAssumption DEF ModesAssumption
<1>3. position = 0 /\ nth = 0 /\ rewind = FALSE /\ atEnd = FALSE
  BY DEF Init, SourceInit
<1>4. FileTypeOK
  BY <1>1, <1>2, <1>3 DEF FileTypeOK
<1>5. nth = 0 /\ ~(nth > 0)
  BY <1>3
<1>6. Flags
  BY <1>3 DEF Flags
<1> QED
  BY <1>3, <1>4, <1>5, <1>6 DEF FileInv

\* The read that CaptureImage makes of a file: first the picture it takes,
\* then what becomes of the mark at the end, then the count.
LEMMA PictureTaken ==
    ASSUME FileInv, ReadVideo
    PROVE  /\ lastImg' = shown' /\ position' = shown' + 1
           /\ shown' = CASE nth = 0 -> 0
                         [] nth > 0 /\ mode.end = "hold" ->
                               (IF nth >= mode.length THEN mode.length - 1 ELSE nth)
                         [] nth > 0 /\ mode.end # "hold" ->
                               (IF position = mode.length THEN 0 ELSE position)
           /\ nth > 0 => (Holding <=> mode.end = "hold" /\ nth >= mode.length)
           /\ nth = 0 => ~Holding
<1> USE DEF IsVideo
<1>1. IsVideo /\ FileTypeOK /\ mode.length \in Nat \ {0}
      /\ mode.end \in {"hold", "loop", "stop"} /\ nth \in Nat
  BY ModesAssumption DEF ModesAssumption, FileInv, FileTypeOK, ReadVideo
<1>2. CASE nth = 0
  <2>1. Rewound = 0
    BY <1>1, <1>2 DEF FileInv, Rewound
  <2>2. ~AtEOF /\ ~Holding
    BY <1>1, <2>1 DEF Holding, AtEOF
  <2> QED
    BY <1>1, <1>2, <2>1, <2>2 DEF ReadVideo, Picture
<1>3. CASE nth > 0
  <2>1. Rewound = position /\ lastImg = shown /\ position = shown + 1
        /\ shown = PictureOf(nth) /\ shown \in 0..(mode.length - 1)
    BY <1>1, <1>3 DEF FileInv, Rewound
  <2>2. AtEOF <=> position = mode.length
    BY <1>1, <2>1 DEF AtEOF
  <2>3. CASE mode.end = "hold"
    <3>1. position = IF nth > mode.length THEN mode.length ELSE nth
      BY <1>1, <1>3, <2>1, <2>3 DEF PictureOf
    <3>2. Holding <=> nth >= mode.length
      BY <1>1, <1>3, <2>1, <2>2, <2>3, <3>1 DEF Holding, NoImage
    <3>3. CASE nth >= mode.length
      <4>1. shown' = lastImg /\ lastImg' = lastImg /\ position' = position
        BY <2>1, <3>2, <3>3 DEF ReadVideo, Picture
      <4> QED
        BY <1>1, <1>3, <2>1, <2>3, <3>1, <3>2, <3>3, <4>1
    <3>4. CASE nth < mode.length
      <4>1. shown' = position /\ lastImg' = position /\ position' = position + 1
        BY <1>1, <2>1, <2>2, <3>1, <3>2, <3>4 DEF ReadVideo, Picture
      <4> QED
        BY <1>1, <1>3, <2>1, <2>3, <3>1, <3>2, <3>4, <4>1
    <3> QED
      BY <1>1, <3>3, <3>4
  <2>4. CASE mode.end # "hold"
    <3>1. ~Holding
      BY <2>4 DEF Holding
    <3>2. lastImg' = shown' /\ position' = shown' + 1
          /\ shown' = IF position = mode.length THEN 0 ELSE position
      BY <1>1, <2>1, <2>2, <3>1 DEF ReadVideo, Picture
    <3> QED
      BY <1>1, <1>3, <2>4, <3>1, <3>2
  <2> QED
    BY <2>3, <2>4
<1> QED
  BY <1>1, <1>2, <1>3

LEMMA EndMarked ==
    ASSUME FileInv, ReadVideo
    PROVE  /\ rewind' = FALSE /\ Flags'
           /\ atEnd' = TRUE <=> (mode.end = "hold" /\ nth > 0 /\ nth >= mode.length)
<1> USE DEF IsVideo
<1>1. nth \in Nat /\ mode.length \in Nat \ {0} /\ Flags
  BY ModesAssumption DEF ModesAssumption, FileInv, FileTypeOK, ReadVideo
<1>2. atEnd /\ ~rewind => mode.end = "hold" /\ nth > 0 /\ nth >= mode.length
  <2> SUFFICES ASSUME atEnd = TRUE, rewind = FALSE
               PROVE  mode.end = "hold" /\ nth > 0 /\ nth >= mode.length
    BY <1>1 DEF Flags
  <2>1. nth > 0
    BY <1>1 DEF FileInv, ReadVideo
  <2> QED
    BY <1>1, <2>1 DEF FileInv, ReadVideo
<1>3. Holding <=> (mode.end = "hold" /\ nth > 0 /\ nth >= mode.length)
  BY <1>1, PictureTaken
<1>4. AtEndNext <=> (mode.end = "hold" /\ nth > 0 /\ nth >= mode.length)
  BY <1>2, <1>3, Zenon DEF AtEndNext
<1>5. AtEndNext \in BOOLEAN
  BY DEF AtEndNext, Holding
<1>6. atEnd' = AtEndNext /\ rewind' = FALSE
  BY DEF ReadVideo
<1>7. atEnd' \in BOOLEAN /\ (atEnd' = TRUE <=> AtEndNext)
  BY <1>5, <1>6
<1> QED
  BY <1>4, <1>6, <1>7, Zenon DEF Flags

LEMMA ReadKeepsFile ==
    ASSUME FileInv, ReadVideo, UNCHANGED mode, CaptureImage
    PROVE  FileInv'
<1> USE DEF IsVideo
<1>1. IsVideo /\ FileTypeOK /\ mode.length \in Nat \ {0}
      /\ mode.end \in {"hold", "loop", "stop"} /\ nth \in 0..(2 * mode.length)
      /\ position \in 0..mode.length
  BY ModesAssumption DEF ModesAssumption, FileInv, FileTypeOK, ReadVideo
<1>2. nth' \in 1..(2 * mode.length)
      /\ nth' = IF nth = 2 * mode.length THEN mode.length + 1 ELSE nth + 1
  BY <1>1 DEF ReadVideo
<1>3. shown' = PictureOf(nth') /\ shown' \in 0..(mode.length - 1)
  <2>1. CASE nth = 0
    <3>1. shown' = 0 /\ nth' = 1
      BY <1>1, <1>2, <2>1, PictureTaken
    <3> QED
      BY <1>1, <3>1 DEF PictureOf
  <2>2. CASE nth > 0 /\ mode.end = "hold"
    <3>1. shown' = IF nth >= mode.length THEN mode.length - 1 ELSE nth
      BY <2>2, PictureTaken
    <3>2. shown' \in 0..(mode.length - 1)
          /\ shown' = (IF nth' > mode.length THEN mode.length ELSE nth') - 1
      BY <1>1, <1>2, <2>2, <3>1
    <3> QED
      BY <2>2, <3>2 DEF PictureOf
  <2>3. CASE nth > 0 /\ mode.end # "hold"
    <3>1. shown' = IF position = mode.length THEN 0 ELSE position
      BY <2>3, PictureTaken
    <3>2. position = shown + 1 /\ shown = PictureOf(nth)
      BY <1>1, <2>3 DEF FileInv
    <3>3. CASE mode.end = "loop"
      <4>1. position = IF nth > mode.length THEN nth - mode.length ELSE nth
        BY <1>1, <3>2, <3>3 DEF PictureOf
      <4>2. shown' \in 0..(mode.length - 1)
            /\ shown' = (IF nth' > mode.length THEN nth' - mode.length ELSE nth') - 1
        <5> DEFINE L == mode.length
        <5>1. L \in Nat \ {0} /\ nth \in 1..(2 * L)
              /\ nth' = IF nth = 2 * L THEN L + 1 ELSE nth + 1
          BY <1>1, <1>2, <2>3
        <5>2. /\ position = IF nth > L THEN nth - L ELSE nth
              /\ shown' = IF position = L THEN 0 ELSE position
          BY <3>1, <4>1
        <5>3. shown' \in 0..(L - 1) /\ shown' = (IF nth' > L THEN nth' - L ELSE nth') - 1
          <6> HIDE DEF L
          <6> QED BY <5>1, <5>2
        <5> QED
          BY <5>3
      <4> QED
        BY <3>3, <4>2 DEF PictureOf
    <3>4. CASE mode.end = "stop"
      <4>1. position = nth
        BY <1>1, <3>2, <3>4 DEF PictureOf
      <4>2. position # mode.length
        BY <1>1, <2>3, <3>4 DEF FileInv, ReadVideo, AtEOF, Rewound
      <4>3. shown' = nth' - 1 /\ shown' \in 0..(mode.length - 1)
        BY <1>1, <1>2, <2>3, <3>1, <4>1, <4>2
      <4> QED
        BY <3>4, <4>3 DEF PictureOf
    <3> QED
      BY <1>1, <2>3, <3>3, <3>4
  <2> QED
    BY <1>1, <2>1, <2>2, <2>3
<1>4. lastImg' = shown' /\ position' = shown' + 1
  BY PictureTaken
<1>5. FileTypeOK'
  BY <1>1, <1>2, <1>3, <1>4 DEF FileTypeOK
<1>6. rewind' = FALSE /\ Flags'
  BY EndMarked
<1>7. atEnd' = TRUE <=> (mode.end = "hold" /\ nth' > mode.length)
  <2>1. (nth > 0 /\ nth >= mode.length) <=> nth' > mode.length
    BY <1>1, <1>2
  <2> QED
    BY <2>1, EndMarked
<1>8. shown' = PictureOf(nth)'
  BY <1>3 DEF PictureOf
<1>9. nth' > 0 /\ nth' # 0
  BY <1>1, <1>2
<1> QED
  BY <1>3, <1>4, <1>5, <1>6, <1>7, <1>8, <1>9 DEF FileInv

\* A reset before the next read is a rewind.
LEMMA ResetKeepsFile ==
    ASSUME FileInv, SourceReset, UNCHANGED mode
    PROVE  FileInv'
<1> SUFFICES ASSUME IsVideo PROVE FileInv'
  BY DEF FileInv, IsVideo
<1>1. FileTypeOK /\ mode.length \in Nat /\ Flags
  BY ModesAssumption DEF FileInv, FileTypeOK, ModesAssumption
<1>2. rewind' = TRUE /\ nth' = 0 /\ ~(nth' > 0) /\ atEnd' = atEnd /\ position' = position
  BY DEF SourceReset
<1>3. FileTypeOK'
  BY <1>1, <1>2 DEF FileTypeOK
<1>4. Flags'
  BY <1>1, <1>2 DEF Flags
<1> QED
  BY <1>2, <1>3, <1>4 DEF FileInv

LEMMA FileKept == FileInv /\ [Next]_vars => FileInv'
<1> SUFFICES ASSUME FileInv, [Next]_vars PROVE FileInv'
  OBVIOUS
<1> USE DEF IsVideo, fileVars
<1>1. CASE CaptureImage
  <2>1. CASE ReadVideo
    BY <1>1, <2>1, ReadKeepsFile DEF CaptureImage
  <2>2. CASE ReadCamera
    BY <1>1, <2>2 DEF CaptureImage, ReadCamera, FileInv
  <2> QED
    BY <1>1, <2>1, <2>2 DEF CaptureImage
<1>2. CASE ReadFails
  <2> SUFFICES ASSUME IsVideo PROVE FileInv'
    BY <1>2 DEF ReadFails, FileInv
  <2>1. FileTypeOK /\ Flags /\ mode.length = 0 /\ nth = 0
    BY <1>2 DEF ReadFails, FileInv, FileTypeOK
  <2>2. /\ nth' = 0 /\ ~(nth' > 0) /\ position' = 0 /\ mode' = mode
        /\ rewind' = (rewind /\ ~IsVideo) /\ atEnd' = (atEnd /\ ~rewind)
    BY <1>2, <2>1 DEF ReadFails, Reopened
  <2>3. rewind' = FALSE /\ atEnd' = FALSE
    <3>1. rewind = TRUE \/ atEnd = FALSE
      BY <2>1 DEF FileInv
    <3> QED
      BY <2>2, <3>1, Zenon
  <2>4. FileTypeOK'
    BY <2>1, <2>2 DEF FileTypeOK
  <2>5. Flags'
    BY <2>3 DEF Flags
  <2> QED
    BY <2>2, <2>3, <2>4, <2>5 DEF FileInv
<1>3. CASE VideoEnds
  <2>1. IsVideo /\ FileTypeOK /\ Flags /\ mode.length \in Nat /\ mode.end = "stop"
        /\ nth \in Nat /\ position \in Nat
    BY <1>3, ModesAssumption DEF VideoEnds, AtEOF, FileInv, FileTypeOK, ModesAssumption
  <2>2. /\ mode' = mode /\ position' = position /\ lastImg' = lastImg
        /\ shown' = shown /\ nth' = nth /\ rewind' = FALSE
        /\ atEnd' = (atEnd /\ ~rewind) /\ AtEOF
    BY <1>3 DEF VideoEnds
  <2>3. atEnd' = FALSE
    <3>1. rewind = TRUE \/ atEnd # TRUE
      <4>1. CASE nth = 0
        <5>1. rewind = TRUE \/ atEnd = FALSE
          BY <2>1, <4>1 DEF FileInv
        <5> QED
          BY <5>1
      <4>2. CASE nth > 0
        <5>1. ~(mode.end = "hold" /\ nth > mode.length)
          BY <2>1
        <5>2. atEnd = TRUE <=> (mode.end = "hold" /\ nth > mode.length)
          BY <2>1, <4>2 DEF FileInv
        <5>3. atEnd # TRUE
          BY <5>1, <5>2
        <5> QED
          BY <5>3
      <4>3. nth = 0 \/ nth > 0
        BY <2>1
      <4> QED
        BY <4>1, <4>2, <4>3, Zenon
    <3>2. rewind \/ ~atEnd
      BY <2>1, <3>1, Zenon DEF Flags
    <3> QED
      BY <2>2, <3>2, Zenon
  <2>4. FileTypeOK'
    BY <2>1, <2>2 DEF FileTypeOK
  <2>5. Flags'
    BY <2>2, <2>3 DEF Flags
  <2>6. nth = 0 => position = 0
    BY <2>1, <2>2 DEF AtEOF, Rewound, FileInv, FileTypeOK
  <2>7. PictureOf(nth)' = PictureOf(nth)
    BY <2>2 DEF PictureOf
  <2> QED
    BY <2>1, <2>2, <2>3, <2>4, <2>5, <2>6, <2>7 DEF FileInv
<1>4. CASE ServeReset
  BY <1>4, ResetKeepsFile DEF ServeReset, Publishes
<1>5. CASE UNCHANGED <<mode, position, rewind, atEnd, lastImg, shown, nth>>
  <2>1. (FileTypeOK <=> FileTypeOK') /\ PictureOf(nth)' = PictureOf(nth)
    BY <1>5 DEF FileTypeOK, PictureOf
  <2>2. Flags <=> Flags'
    BY <1>5 DEF Flags
  <2> QED
    BY <1>5, <2>1, <2>2 DEF FileInv
<1>6. CASE Serve \/ ScheduleStep \/ Break \/ BrowserStep \/ UNCHANGED vars
  BY <1>6, <1>5 DEF Serve, Publishes, ScheduleStep, Break, BrowserStep, sourceVars, vars
<1>7. CASE Attach \/ InferStops \/ InferLooks \/ InferDone
  BY <1>7, <1>5 DEF Attach, InferStops, InferLooks, InferDone
<1> QED
  BY <1>1, <1>2, <1>3, <1>4, <1>6, <1>7 DEF Next, Loop, SourceStep

LEMMA FileTells == FileInv => PlaysFromStart
<1> SUFFICES ASSUME FileInv, IsVideo, nth > 0 PROVE PlaysFromStart
  BY DEF PlaysFromStart
<1>1. mode.length \in Nat \ {0} /\ mode.end \in {"hold", "loop", "stop"}
      /\ nth \in 1..(2 * mode.length)
  BY ModesAssumption DEF ModesAssumption, FileInv, FileTypeOK
<1>2. (nth - 1) % mode.length = IF nth - 1 < mode.length THEN nth - 1 ELSE nth - 1 - mode.length
  <2>1. nth - 1 \in 0..(2 * mode.length - 1)
    BY <1>1
  <2> QED
    BY <1>1, <2>1, Wrapped
<1> QED
  BY <1>1, <1>2 DEF FileInv, PictureOf, PlaysFromStart

\* A new job plays the file from its first picture, in order, whenever the
\* reset came, for files of any length and any number of resets
\* (source.py:233, :347-363).
THEOREM JobsStartAtTheStart == Spec => []PlaysFromStart
<1>1. Spec => []FileInv
  BY FileBegins, FileKept, PTL DEF Spec
<1> QED
  BY <1>1, FileTells, PTL

-----------------------------------------------------------------------------
(* The newest payload *)

LEMMA FanoutBegins == Init => FanoutInv
<1> SUFFICES ASSUME Init PROVE FanoutInv
  OBVIOUS
<1>1. backlog = <<>> /\ clients = {} /\ last = NoPayload /\ frame = NoFrame
  BY DEF Init, HubInit, SourceInit
<1>2. conn = [s \in Displays |-> "off"] /\ shows = [s \in Displays |-> NoPayload]
  BY DEF Init, HubInit
<1>3. latest \in Tags /\ inferring \in Tags /\ result \in Tags
  BY DEF Init, SourceInit, Tags
<1>4. NoPayload \in Payloads /\ frame.of \in Tags
  BY <1>1 DEF NoPayload, NoFrame, Payloads, Tags
<1>5. last.newest = FALSE
  BY <1>1 DEF NoPayload
<1>6. FanoutTypeOK
  BY <1>1, <1>2, <1>3, <1>4 DEF FanoutTypeOK
<1>7. ~Published
  BY <1>5 DEF Published
<1> QED
  BY <1>2, <1>6, <1>7 DEF FanoutInv

\* A queue whose head is taken keeps its last element, unless that was it.
LEMMA HeadTaken ==
    ASSUME NEW S, NEW q \in Seq(S), q # <<>>
    PROVE  /\ Len(q) \in Nat \ {0}
           /\ Len(q) = 1 => Head(q) = q[Len(q)] /\ Tail(q) = <<>>
           /\ Len(q) > 1 => Tail(q) # <<>> /\ Tail(q)[Len(Tail(q))] = q[Len(q)]
<1>1. Len(q) \in Nat \ {0}
  BY EmptySeq
<1>2. /\ Head(q) \in S /\ Tail(q) \in Seq(S) /\ Len(Tail(q)) = Len(q) - 1
      /\ \A i \in 1..Len(Tail(q)) : Tail(q)[i] = q[i + 1]
  BY HeadTailProperties
<1>3. ASSUME Len(q) = 1 PROVE Head(q) = q[Len(q)] /\ Tail(q) = <<>>
  <2>1. Head(q) = q[1]
    OBVIOUS
  <2>2. Len(Tail(q)) = 0
    BY <1>2, <1>3
  <2>3. Tail(q) = <<>>
    BY <1>2, <2>2, EmptySeq
  <2> QED
    BY <1>3, <2>1, <2>3
<1>4. ASSUME Len(q) > 1 PROVE Tail(q) # <<>> /\ Tail(q)[Len(Tail(q))] = q[Len(q)]
  <2>1. Len(Tail(q)) \in 1..Len(Tail(q)) /\ Len(Tail(q)) # 0
    BY <1>1, <1>2, <1>4
  <2>2. Tail(q)[Len(Tail(q))] = q[Len(Tail(q)) + 1]
    BY <1>2, <2>1
  <2>3. Tail(q) # <<>>
    BY <2>1, EmptySeq
  <2> QED
    BY <1>1, <1>2, <2>2, <2>3
<1> QED
  BY <1>1, <1>3, <1>4

\* Payloads keep their type while they age.
LEMMA PayloadsAge ==
    ASSUME NEW payload \in Payloads
    PROVE  /\ Outdated(payload) \in Payloads
           /\ Aged(payload.of) \in Tags
           /\ [of |-> Aged(payload.of), newest |-> FALSE] \in Payloads
  BY DEF Outdated, Aged, Payloads, Tags

\* What the steps of the pages leave: the promise depends on four variables.
LEMMA FanoutStays ==
    ASSUME FanoutInv, FanoutTypeOK', UNCHANGED <<last, stray>>,
           lpc' = "schedule" <=> lpc = "schedule",
           \A s \in Displays : conn'[s] \in {"joined", "on"} => s \in clients',
           backlog' = backlog,
           \A s \in Displays : conn'[s] = "on" =>
               \/ conn[s] = "on" /\ shows'[s] = shows[s]
               \/ Published => shows'[s] = last
    PROVE  FanoutInv'
<1>1. Published' <=> Published
  BY DEF Published
<1>2. CASE backlog = <<>>
  BY <1>1, <1>2 DEF FanoutInv
<1>3. CASE backlog # <<>>
  BY <1>1, <1>3 DEF FanoutInv
<1> QED
  BY <1>2, <1>3

LEMMA PagesKeepFanout ==
    ASSUME FanoutInv, NEW s \in Displays, Join(s) \/ Greet(s) \/ Vanish(s) \/ Leave(s),
           UNCHANGED sourceVars
    PROVE  FanoutInv'
<1> USE DEF FanoutTypeOK
<1>1. lpc' = lpc /\ latest' = latest /\ inferring' = inferring /\ result' = result
      /\ frame' = frame /\ last' = last /\ stray' = stray /\ backlog' = backlog
  BY DEF sourceVars, Join, Greet, Vanish, Leave
<1>2. FanoutTypeOK
  BY DEF FanoutInv
<1>3. FanoutTypeOK'
  <2>1. clients' \subseteq Displays /\ conn' \in [Displays -> {"off", "joined", "on", "gone"}]
    BY <1>2 DEF Join, Greet, Vanish, Leave
  <2>2. NoPayload \in Payloads
    BY DEF NoPayload, Payloads, Tags
  <2>3. shows' \in [Displays -> Payloads]
    BY <1>2, <2>2 DEF Join, Greet, Vanish, Leave
  <2> QED
    BY <1>1, <1>2, <2>1, <2>3
<1>4. \A d \in Displays : conn'[d] \in {"joined", "on"} => d \in clients'
  BY <1>2 DEF FanoutInv, Join, Greet, Vanish, Leave
<1>5. \A d \in Displays : conn'[d] = "on" =>
          \/ conn[d] = "on" /\ shows'[d] = shows[d]
          \/ Published => shows'[d] = last
  BY <1>2 DEF Join, Greet, Vanish, Leave
<1> QED
  BY <1>1, <1>3, <1>4, <1>5, FanoutStays

LEMMA FanoutKeeps ==
    ASSUME FanoutInv, Fanout, UNCHANGED sourceVars
    PROVE  FanoutInv'
<1>1. lpc' = lpc /\ latest' = latest /\ inferring' = inferring /\ result' = result
      /\ frame' = frame /\ last' = last /\ stray' = stray /\ conn' = conn
      /\ backlog # <<>> /\ backlog' = Tail(backlog)
  BY DEF sourceVars, Fanout
<1>2. FanoutTypeOK
  BY DEF FanoutInv
<1>3. FanoutTypeOK'
  <2>1. Head(backlog) \in Payloads /\ Tail(backlog) \in Seq(Payloads)
    BY <1>1, <1>2 DEF FanoutTypeOK
  <2> QED
    BY <1>1, <1>2, <2>1 DEF FanoutTypeOK, Fanout
<1>4. \A d \in Displays : conn'[d] \in {"joined", "on"} => d \in clients'
  BY <1>1, <1>2 DEF FanoutInv, FanoutTypeOK, Fanout
<1>5. ASSUME lpc' # "schedule", Published', ~stray'
      PROVE  IF backlog' # <<>> THEN backlog'[Len(backlog')] = last'
             ELSE \A d \in Displays : conn'[d] = "on" => shows'[d] = last'
  <2>1. backlog[Len(backlog)] = last
    BY <1>1, <1>5 DEF FanoutInv, Published
  <2>2. CASE Len(backlog) = 1
    <3>1. Head(backlog) = last /\ backlog' = <<>>
      BY <1>1, <1>2, <2>1, <2>2, HeadTaken DEF FanoutTypeOK
    <3>2. \A d \in Displays : conn[d] = "on" => shows'[d] = last
      BY <1>2, <3>1 DEF Fanout, FanoutInv, FanoutTypeOK
    <3> QED
      BY <1>1, <3>1, <3>2
  <2>3. CASE Len(backlog) # 1
    <3>1. Len(backlog) > 1
      <4>1. Len(backlog) \in Nat \ {0}
        BY <1>1, <1>2, EmptySeq DEF FanoutTypeOK
      <4>2. \A n \in Nat \ {0} : n # 1 => n > 1
        OBVIOUS
      <4> QED
        BY <2>3, <4>1, <4>2, Zenon
    <3>2. backlog' # <<>> /\ backlog'[Len(backlog')] = backlog[Len(backlog)]
      BY <1>1, <1>2, <3>1, HeadTaken DEF FanoutTypeOK
    <3> QED
      BY <1>1, <2>1, <3>2
  <2> QED
    BY <2>2, <2>3
<1> QED
  BY <1>3, <1>4, <1>5 DEF FanoutInv

\* Publishing: nothing is promised until the fan-out is scheduled.
LEMMA ServeKeepsFanout ==
    ASSUME FanoutInv, Serve \/ ServeReset
    PROVE  FanoutInv'
<1>1. FanoutTypeOK
  BY DEF FanoutInv
<1>2. lpc' = "schedule" /\ clients' = clients /\ conn' = conn
  BY DEF Serve, ServeReset, Publishes
<1>3. FanoutTypeOK'
  <2>1. CASE Serve
    <3>1. latest' = latest /\ inferring' = inferring /\ result' = result /\ frame' = frame
          /\ last' = [of |-> frame.of, newest |-> TRUE]
      BY <2>1 DEF Serve, Publishes, SetLast, inferVars
    <3>2. backlog' \in Seq(Payloads) /\ shows' \in [Displays -> Payloads]
      <4>1. backlog' = [i \in DOMAIN backlog |-> Outdated(backlog[i])]
            /\ shows' = [s \in Displays |-> Outdated(shows[s])]
        BY <2>1 DEF Serve
      <4>2. backlog' \in Seq(Payloads)
        <5>1. \A i \in 1..Len(backlog) : Outdated(backlog[i]) \in Payloads
          <6>1. backlog \in Seq(Payloads)
            BY <1>1 DEF FanoutTypeOK
          <6> QED
            BY <6>1, ElementOfSeq, PayloadsAge
        <5>2. DOMAIN backlog = 1..Len(backlog) /\ Len(backlog) \in Nat
          BY <1>1 DEF FanoutTypeOK
        <5> QED
          BY <4>1, <5>1, <5>2
      <4> QED
        BY <1>1, <4>1, <4>2, PayloadsAge DEF FanoutTypeOK
    <3> QED
      BY <1>1, <1>2, <3>1, <3>2 DEF FanoutTypeOK, Payloads
  <2>2. CASE ServeReset
    <3>1. latest' = Aged(latest) /\ inferring' = Aged(inferring) /\ result' = Aged(result)
          /\ frame' = frame /\ last' = [of |-> Aged(frame.of), newest |-> TRUE]
      BY <2>2 DEF ServeReset, SourceReset, Publishes, SetLast
    <3>2. backlog' \in Seq(Payloads) /\ shows' \in [Displays -> Payloads]
      <4> DEFINE Older(payload) == [of |-> Aged(payload.of), newest |-> FALSE]
      <4>1. backlog' = [i \in DOMAIN backlog |-> Older(backlog[i])]
            /\ shows' = [s \in Displays |-> Older(shows[s])]
        BY <2>2 DEF ServeReset
      <4>2. backlog' \in Seq(Payloads)
        <5>1. \A i \in 1..Len(backlog) : Older(backlog[i]) \in Payloads
          <6>1. backlog \in Seq(Payloads)
            BY <1>1 DEF FanoutTypeOK
          <6> QED
            BY <6>1, ElementOfSeq, PayloadsAge
        <5>2. DOMAIN backlog = 1..Len(backlog) /\ Len(backlog) \in Nat
          BY <1>1 DEF FanoutTypeOK
        <5> QED
          BY <4>1, <5>1, <5>2
      <4> QED
        BY <1>1, <4>1, <4>2, PayloadsAge DEF FanoutTypeOK
    <3> QED
      BY <1>1, <1>2, <3>1, <3>2 DEF FanoutTypeOK, Payloads, Aged, Tags
  <2> QED
    BY <2>1, <2>2
<1> QED
  BY <1>2, <1>3 DEF FanoutInv

\* Scheduling: with a client the fan-out is queued last; without one no page
\* is connected, and only an older fan-out could still reach one.
LEMMA ScheduleKeepsFanout ==
    ASSUME FanoutInv, ScheduleStep
    PROVE  FanoutInv'
<1>1. FanoutTypeOK
  BY DEF FanoutInv
<1>2. /\ frame' = NoFrame /\ latest' = latest /\ inferring' = inferring /\ result' = result
      /\ last' = last /\ clients' = clients /\ conn' = conn /\ shows' = shows
      /\ backlog' = (IF clients # {} THEN Append(backlog, last) ELSE backlog)
      /\ stray' = (clients = {} /\ backlog # <<>>)
  BY DEF ScheduleStep, Schedule, inferVars
<1>3. FanoutTypeOK'
  <2>1. NoFrame.of \in Tags
    BY DEF NoFrame, Tags
  <2> QED
    BY <1>1, <1>2, <2>1 DEF FanoutTypeOK
<1>4. CASE clients # {}
  <2>1. backlog' # <<>> /\ backlog'[Len(backlog')] = last'
    BY <1>1, <1>2, <1>4 DEF FanoutTypeOK
  <2> QED
    BY <1>2, <1>3, <2>1 DEF FanoutInv
<1>5. CASE clients = {}
  <2>1. \A d \in Displays : conn[d] # "on"
    BY <1>5 DEF FanoutInv
  <2>2. stray' \/ backlog' = <<>>
    BY <1>2, <1>5
  <2> QED
    BY <1>2, <1>3, <2>1, <2>2 DEF FanoutInv
<1> QED
  BY <1>4, <1>5

\* The source: frames and tags change, the pages do not.
LEMMA SourceKeepsFanout ==
    ASSUME FanoutInv, SourceStep \/ Break
    PROVE  FanoutInv'
<1>1. FanoutTypeOK
  BY DEF FanoutInv
<1>2. UNCHANGED hubVars
  BY DEF SourceStep, Break
<1>3. lpc' = "schedule" <=> lpc = "schedule"
  BY DEF SourceStep, Break, CaptureImage, ReadFails, VideoEnds, Close, Attach,
         InferStops, InferLooks, InferDone
<1>4. latest' \in Tags /\ inferring' \in Tags /\ result' \in Tags /\ frame'.of \in Tags
  BY <1>1 DEF FanoutTypeOK, SourceStep, Break, CaptureImage, ReadFails, VideoEnds, Close,
              Attach, InferStops, InferLooks, InferDone, inferVars, NoFrame, Tags
<1>5. FanoutTypeOK'
  BY <1>1, <1>2, <1>4 DEF FanoutTypeOK, hubVars
<1> QED
  BY <1>2, <1>3, <1>5, FanoutStays DEF FanoutInv, hubVars

LEMMA FanoutKept == FanoutInv /\ [Next]_vars => FanoutInv'
<1> SUFFICES ASSUME FanoutInv, [Next]_vars PROVE FanoutInv'
  OBVIOUS
<1>1. ASSUME UNCHANGED <<lpc, latest, inferring, result, frame, backlog, last, clients,
                         conn, shows, stray>>
      PROVE  FanoutInv'
  BY <1>1 DEF FanoutInv, FanoutTypeOK, Published
<1>2. CASE BrowserStep
  <2>1. CASE \E s \in Displays : Join(s) \/ Greet(s) \/ Vanish(s) \/ Leave(s)
    BY <1>2, <2>1, PagesKeepFanout DEF BrowserStep
  <2>2. CASE Fanout
    BY <1>2, <2>2, FanoutKeeps DEF BrowserStep
  <2>3. CASE \/ \E v \in Viewers : Watch(v) \/ WaitTimesOut(v) \/ ShowJpeg(v) \/ StopWatching(v)
             \/ JobStarts \/ Press \/ PressEnds
    <3>1. UNCHANGED <<last, clients, conn, backlog, stray, shows>>
      BY <2>3 DEF Watch, WaitTimesOut, ShowJpeg, StopWatching, JobStarts, Press, PressEnds, wsVars
    <3> QED
      BY <1>1, <1>2, <3>1 DEF BrowserStep, sourceVars
  <2> QED
    BY <1>2, <2>1, <2>2, <2>3 DEF BrowserStep, Browser
<1>3. CASE UNCHANGED vars
  BY <1>1, <1>3 DEF vars
<1> QED
  BY <1>2, <1>3, ServeKeepsFanout, ScheduleKeepsFanout, SourceKeepsFanout DEF Next, Loop

\* Once the event loop has caught up, every screen shows the last payload, for
\* any number of pages and viewers and whatever their comings and goings
\* (server.py:59-64, :91-94).
THEOREM ScreensShowTheLast == Spec => []ScreensCatchUp
<1>1. Spec => []FanoutInv
  BY FanoutBegins, FanoutKept, PTL DEF Spec
<1>2. FanoutInv => ScreensCatchUp
  BY DEF FanoutInv, ScreensCatchUp
<1> QED
  BY <1>1, <1>2, PTL
=============================================================================
