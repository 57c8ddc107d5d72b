# Verification of the assembly inspection station

TLA+ models of SmartFactory Vision: a vision station that inspects hand
assembly, and the MES that gives it work orders over MQTT. Paths below are
relative to the repository, `src/` being its own `src/` directory.

## 1. Inventory

| part | state it keeps | operations | what is hard |
|---|---|---|---|
| judgement core (`src/app/inspection_service.py`, `src/process/state_machine.py`, `temporal.py`) | phase, status, confirmed candidate, filter (key, since, previous, count), last frame id and time | `update(frame)`, `reset` | evidence over time: gaps, replayed frames, unusable frames, the gate from materials to assembly |
| evaluators (`src/process/materials.py`, `evaluator.py`, `recipe.py`), geometry | none, pure | one candidate per frame | mirrored reading, order of issues |
| frame loop (`web/pipeline.py`) | current product, last snapshot, clear-table wait, command queue | `complete`, `reset`, `select_recipe`, work orders, `stop`, the loop | web, MQTT, loop and main threads; checks in one thread, effects in another; a five-second timeout; partial failure |
| event store (`web/store.py`, `schema.sql`) | runs, products, events | open, close, discard, record | product life cycle, episodes of NG and HOLD |
| MES link (`web/mes_link.py`) | work order, outbox | `on_message`, `product_completed`, `flush` | restart between commits, at-least-once delivery, BUSY |
| MES (`mes/`, Java) | work orders with versions, results, stations | release, cancel, promote, ack, result, publish after commit | concurrent transactions, publications out of order, retained messages |
| frame sources (`web/source.py`) | latest image, latest inference result, position in the file; the stage of a rehearsal | capture loop, inference loop, reset | a stale result attached to fresh frames, a rewind between two reads, windows shortened to the speed |
| web server (`web/server.py`) and screens | last payload and jpeg, clients, one event | publish, websockets, MJPEG viewers, `[complete]` | publisher thread against event loop, an event shared by viewers, an executor with few threads |
| detection adapters (`src/vision`) and the final check (`src/rule_based/hole_count_check.py`) | the angle held between frames | boxes or blobs to pieces with axes; holes to a product | upright boxes of leaning pieces, duplicates, pieces that merge, half a turn |
| live inspection (`scripts/live_inspection.py`, `src/app/evaluation_log.py`) and its scoring (`scripts/evaluate_video.py`) | recipe, held angle, final check, log | frames, keys, ends of a run; the report on a log | what is kept over a key, runs broken off, missing frames |
| dataset tools (`src/detection`) | folders of photos and labels | merge, convert, split, carve | one picture in many places, folders that count classes differently, repetition over old output |
| classifier (`src/classification`) | checkpoint, folds | train, cross-validate, evaluate | numbers of classes that mean another name |

The parts interact so: a source yields frames; the loop, one thread, applies the
commands queued since the last frame, feeds the core, records the snapshot's
events for the current product and shows it. Web handlers call `complete()` in
worker threads: they check, put a command in the queue and wait for its box. The
MQTT thread accepts an order into MesLink and then puts a command. The loop calls
`product_completed`, which counts and writes the outbox; a sender thread
publishes it. The MES answers results and acks by publishing the next order,
retained.

What makes each part correct:

* core: a verdict rests on the frames it was really shown, without a break; the
  gate is one way; every change is told.
* loop and store: one open product, the one being worked on; an "ok" is one
  completed product; a product's PASS is its own; a finished product leaves the
  table before the next begins; every caller is answered; the loop does not die.
* MES link: an order's results are numbered 1 to its quantity; nothing is lost or
  counted twice over a restart.
* MES: one active order per station; the queue goes on; the station ends up with
  the order the MES has active.
* source, server, screens: a new product starts a file from its first picture; a
  judgement of the old product does not stay on a page; every page and viewer gets
  what is newest; nobody's press waits for ever; no thread outlives its source.
* evaluators, geometry, adapters: an assembly is judged by where its pieces are, from
  either end of the Mother and whatever a box is off; the final check agrees.
* live inspection and scoring: nothing is kept from another product; a log that is
  accepted tells what was judged; no time is credited twice or bridged.
* photos and classifier: nothing is validated on what it was trained on; a label or an
  answer means the class its picture shows.

## 2. Modules

| module | models | state and actions |
|---|---|---|
| `Inspection` | the judgement core | `phase`, `status`, `confirmed`, `filter` are StateMachine's, `last_id`, `last_timestamp`, `event_sequence` InspectionService's; `Update` is the whole `update()`, `Reset` is `reset()`. `Filtered`, `IsStable` are `TemporalFilter.update`; `Invalidate`, `StartAssembly`, `Confirm`, `Retain` the branches of `StateMachine.update`; `Judged`, `AcceptFrame`, `EmitEvents` the parts of `update()` around it |
| `Verdict` | what the core promises its caller | one variable, `core`; `After(k, s)` is the set of outcomes of one frame |
| `Pipeline` | frame loop, web threads, MQTT thread, stop, the store's products | extends `Verdict`, whose operators are its core; `TakeFrame`, one `Apply...` per command, `EndFrame` are one turn of the loop; `CheckClear`, `CheckOrder`, `CheckPass`, `PutComplete`, `ReturnAnswer`, `TimeOut` are the steps of `complete()`; `AcceptOrder`, `CancelOrder`, `PutWorkOrder` are the two halves of `on_message` |
| `Broker` | MQTT between station and MES, and the messages; external | `retained`, `toStation`, `toMes` are the retained work order and the undelivered publications of the two sessions; `connected` the MES's connection. Helpers only: each side's actions use them |
| `WorkOrders` | the MES: `WorkOrderService`, `WorkOrder`, `WorkOrderPublisher`, `AfterCommit`, `PahoMqttGateway` | `orders` is the table, `seen` the recorded event ids, `tx` the transaction each thread has open. `Release`, `LookForActive`, `LookForQueued`, `Insert` are `release()`/`releaseAll()`, `Promote`, `Dispatch` are `promoteNext()`, `CancelOrder` begins `cancel()`, `On...` begin `onAck()`/`onResult()`, `SkipDuplicate` is their early return; `Commit`, `RollBack` end the transaction, `ReadActive`, `Publish` are `syncStation()` after it, `Return` ends `messageArrived`; `Disconnect`, `MesCrash`, `Reconnect` are the gateway's |
| `MesLink` | `web/mes_link.py` | `work_order`, `outbox`; `ClearOrder`, `IgnoreMessage`, `RefuseBusy`, `RefuseInvalid`, `AcceptOrder` are the ways through `on_message`, `ProductCompleted` is `product_completed`, `SendReport`, `SendUnanswered` are `flush`; each `Cut...` is the same operation with the process dying between its writes |
| `MesProtocol` | | composes the three; the protocol's properties, and that it implements `OrderBook` |
| `OrderBook` | what the MES promises of its list of work orders | two variables, `book` (the table) and `made` (products per order). `Issue` is a release, `Tell` a report or a cancellation with the promotion that follows it, `Make` a product of the station: each at once, where the code takes a transaction of several queries beside others |
| `CameraSource` | `CameraSource` of `web/source.py` | the loop thread captures (`CaptureImage`, `ReadFails`, `VideoEnds`) and attaches the last result (`Attach`), the inference thread looks, works, stores and stops (`InferLooks`, `InferDone`, `InferStops`); `SourceReset` is `reset()` |
| `Hub` | `Hub` and its handlers in `web/server.py` | `SetLast`, `Schedule` are the halves of `publish`, `Fanout` sends; `Join`, `Greet`, `Leave` are `ws_endpoint`; `Watch`, `ShowJpeg`, `WaitTimesOut` are `video`; `JobStarts` is the executor, `Press`, `PressEnds` the `[complete]` handler |
| `Screens` | | composes the two: `Serve`, `ServeReset`, `ScheduleStep` are a round of the pipeline's loop as these two see it |
| `Association` | `src/geometry` | the Mother's axes and frame, regions and overlaps, each piece's hole |
| `Evaluators` | `evaluator.py`, `materials.py`, `recipe.py` | extends `Association`; `JudgeAssembly`, `EvaluateMaterials`, with the mirrored reading |
| `FinalCheck` | `hole_count_check.py` | `ClassifyModel` from the line through the Mother's holes, the joints, signatures and placements |
| `Vision` | `rtdetr_adapter.py`, `rule_based_adapter.py` | extends `FinalCheck`; `RTDETR`, `RuleBased` give what the evaluators are told |
| `Bench` | the worker's hands; external | extends `Evaluators`, `Vision`: `place` and `angle` are what lies on the table; the properties compare it with what is made of its picture |
| `Records` | `web/store.py` | the counters of a product, its events, the minute buckets, and the queries with a computation of their own |
| `LiveInspection` | `scripts/live_inspection.py`, `evaluation_log.py`, the angle of `rtdetr_adapter.py` | `Inspect` is one frame, `Choose` the keys, `LimitReached`, `ReadEnds`, `Quit`, `Raise`, `Killed` the ends of a run; its core is `Verdict` |
| `Scoring` | `scripts/evaluate_video.py` | a log grows row by row; `Confusion`, `FalseNgEpisodes`, `NgDetected` ... are the report on it |
| `Rehearsal` | `DemoSource`, `demo_config` | extends `Evaluators`, instantiates `Inspection` with the windows shortened to the speed: `Play` is one frame of a stage, judged by that core; `Paces` are speeds with a frame period and how late a frame may be |
| `Datasets` | `merge_labeled_data.py`, `prepare_rtdetr_dataset.py`, `prepare_obb_from_sources.py`, `prepare_obb_dataset.py` | folders as sets of [name, picture, label]; `Merge`, `StartBuild`, `SplitAndCopy`, `EndBuild`, `Carve`; `BreakMerge`, `BreakBuild` are the programs dying between a photo and its label; `Convert` is the conversion each call passes; `WrittenFor` looks a label up by name |
| `Classification` | `src/classification` | `Train`, `StartValidation`, `FitFold`, `EvaluateCheckpoint` |
| `Training` | | the properties of the two |
| `InspectionProofs`, `PipelineProofs`, `MesProofs`, `MesOrderProofs`, `ScreensProofs`, `RecordsProofs`, `PartsProofs`, `BenchProofs` | | theorems about `Inspection`, `Pipeline`, `MesProtocol` (two), `Screens`, `Records` and `Scoring`, `LiveInspection` and `Training`, and `Bench` |
| `MCInspection`, `MCPipeline`, `MCMesProtocol`, `MCScreens`, `MCParts` | | values of the constants, symmetry, bounds. `MCParts` has a variable `part`: the parts it extends share no state, one runs and the others rest |

Abstractions. A frame in `Inspection` is its id, its time and the candidate the
evaluators return for it, `Hold` standing for every reason that makes the
observation unusable; issue lists are opaque values, so two candidates differ as
they do in the code, by status or by issues. A frame in `Pipeline` is whether the
table is clear, the time since the last frame and a candidate status. Actions of
different threads interleave at the points where one thread reads or writes what
another does: the three checks of `complete()` are three steps, while applying
one command is one step, since its other readers see single fields. Comparing
`_clear_since` with a frame's time is kept as an age. Logging, view code and
metrics are left out.

A transaction in `WorkOrders` is one step per query and one for the commit. H2 runs
at its default isolation, READ COMMITTED, so each query sees what others have
committed by then (`View`, over what the transaction itself wrote). The commit fails
when a row it changed is no longer the row it read (`WorkOrder.lockVersion`), or when
the number it took is in use (primary key). When Hibernate flushes, which transaction
waits for a row lock and which of two is chosen as the deadlock's victim are left
out: all that a loser does is roll back, and in the model the later commit loses. An
order's payload is its number; recipes, reasons and the list of what comes next
(`next`) carry no control, but for BUSY and whether the station's rules refuse the
recipe (`invalid`, unknown in advance). A crash of the MES drops the open
transactions and the syncs that were due; a crash of the station resubscribes it, so
that the unacknowledged and the retained message come again. `IgnoreMessage` is also
what a redelivered current order does, whose only effect is the list `next`.

A picture in `CameraSource` is known by its position in the file and by whether it was
captured since the last reset; a payload in `Hub` by that and by whether it is the
newest. What the loop does with a frame is `Pipeline`'s and left out of `Screens`.
Lengths are thousandths of the Mother, angles thousandths of a degree; cosines and
sines are tables. In `Bench` bars are boxes that stand or lie, those that lie exactly along
the Mother or with one end a little lower (`tilt`, which decides the end that is taken for
the upper one), and a detector misplaces every box by a common error; `Around` is the box of a leaning piece and `Vision`
inverts it as the adapter does. A file in `Datasets` is a name, the picture it holds
and what the label file of that name says, which for the photos of `data/iconic` is one
file for all class folders; a network in `Classification` answers with the number it was
taught but for the photos it gets wrong. `LiveInspection` holds `Verdict` where the
code holds an `InspectionService`, which `Inspection` is shown to implement.

Operators named `Faulty...`, `Silent...`, `Hasty...` are not the code. Each stands before the
definition it distorts and is a mistake that one of the properties must notice.

History variables: `trail` (the frames since the last interruption), `told` (what
the events said last), `results`, `boxes` kept after the caller left, `quiet` (the
frames that showed a clear table), the fields `gated`, `passed`, `cleared` of a product,
`story` of a rehearsal, `cut_short`, `torn`, `reused`, `overlaid` of the datasets, `lost`
(reports acknowledged but rolled back) and `produced` (products completed per order).
No action reads them except to update them (`boxes` apart).

## 3. Runs

| run | asks | bounds |
|---|---|---|
| `inspection` | is every verdict the one the frames support, does the core implement `Verdict` | 8 ticks, 8 frame ids, material duration 3, assembly duration 1, gap 2: a gap shorter and one longer than each duration, three candidates in a row, the gate and a verdict after it fit in. Of the frame ids and times offered, `Stamps` keeps one of each way `update` can tell apart |
| `pipeline` | do store, answers, MES count and clear-table wait agree | two clients, two orders of quantity 1 with different recipes, three requests (any of click, reset, recipe choice, order, cancellation), two clear frames over two ticks; with and without MES and clear wait. Three requests allow two completions and something between them |
| `pipeline_live` | is every waiting caller answered | the same with two requests, no symmetry |
| `pipeline_stale` | violated: a COMPLETED product was confirmed PASS | as `pipeline` |
| `pipeline_recipe` | violated: what is counted for an order has its recipe | as `pipeline` |
| `pipeline_mes_fault` | violated: the loop survives a failed MES write | as `pipeline`, `MesMayFail` |
| `mes` | are orders dispatched in order, those that wait in their turn, and published only once committed, do counts stay within what was made, does a report ever vanish, is each commit one step of `OrderBook` | one console client and the MQTT thread; a budget of three, shared by the orders asked for and the faults (crashes, disconnections, unanswered publications), five reports; the first order takes two products, the others one; the second may be refused. So: three orders without a fault, two with one, one with two |
| `mes_two_active` | violated: one active order | two clients, two orders, eight reports |
| `mes_busy` | violated: only an invalid recipe is refused | one client, two orders, eight reports |
| `mes_lost_result` | violated: no result is lost while its order is active | one client, two orders, eight reports |
| `screens` | do pictures, judgements and presses arrive, does the inference thread end | eight set-ups: a camera and files of 0 to 2 pictures in every `--video-end`, with and without a detector, with one page, with two viewers on one executor thread, or nobody; two fan-outs pending, one reset. Two pictures tell the last from the one before; more viewers than threads is what a press has to wait for |
| `parts` | are assemblies judged as built, records true, sessions and logs honest, photos kept apart and named right | see below |

The bounds of `parts`, part by part:

* bench: recipes of one to three holes, four pieces at most, of two bolts and two bars;
  the places are the five holes, one point between two holes, above and below, lying with
  the left end lower, and away from her; angles 0, 20, 40, 180, 220. The box error is 20 of 1000: with 3 %
  or more, a piece midway between two holes can be taken as attached, and nothing is
  claimed there. With RT-DETR every piece is found twice. Her size in the zone where the
  box does not tell it is taken from `measure_bar_along_axis`, held to succeed; her axis
  is claimed only where her line of holes is found (`AxisFound`: a `part_3hole` beside
  her end gives a line of as many holes). The rule-based adapter never passes an
  assembly, since what touches the Mother merges with her blob; its materials are
  right while the pieces are loose. `PlacesAssumption`, which TLC evaluates, says that
  with OBB each of these pieces, alone at each of these places, is read as it lies.
* records: five events, two minutes, one frame in each; the eight verdicts cover each
  kind of issue, several at once, both phases.
* live: five frames, every end of a run, one view of each way `Inspect` can tell apart,
  the angle held one frame (20 in the code, the loss longer and shorter than it both
  happen); timestamps come at 3 per frame, up to 1 late.
* scoring: three rows, one missing frame between, five segments of which one is
  unannotated and one no longer than the grace, two errors of which one lies over two
  segments. Latency and candidates
  are not scored in the model.
* rehearsal: every stage of two recipes at seven paces: speeds 1, 2 and 4 at the ten frames
  a second that the server gives by itself, the last with pauses that leave no millisecond
  to spare; 4, 8 and 10 at 50 frames a second and more; and 8 at ten. At the last a stage of
  materials lasts 200 ms and its window 125 ms, but frames come every 100 ms: `LongEnough`
  is false of it, and TLC shows that without it the story is not told. `web/source.py:54`
  says that shortening the windows prevents just this, and line 73 speaks of 8 to 10; that
  holds for a source with more frames.
* rtdetr, yolo_obb, carved: one model's set at a time, 14 files of six pictures, four of
  them labelled late. One picture lies in several sources, one name in two folders, two of
  them class folders of `data/iconic`, a photo of two classes in a folder of one. Merges and
  builds may be broken off at any photo.
* classifier: five albums of at most six photos, both layouts, classes that are missing
  on either side, two and three folds.

`MaxFrameId`, `MaxTimestamp`, `MaxRequests`, `MaxOrders` and `MaxReports` are bounds
of the models, not of the code. `MaxOrders` bounds the variable `spent`, which order
lines and faults both use up. Deadlock is not checked in `Pipeline`, where the
station may be stopped, nor in `MesProtocol`, which comes to rest when every order is
over, nor in `MCScreens`, whose source may end, nor in `MCParts`, whose programs end.

Fairness in `Screens`: the loop and the inference thread keep running; the event loop
runs what it was given; a wait of one second ends; a read that fails again and again
succeeds some time (the camera is reopened each time), the only strong fairness there
is, without which nothing new could be shown. Nothing is assumed of browsers, of
presses or of resets.

Fairness in `Pipeline` (`FairSpec`): the loop keeps taking steps, because sources yield frames
for as long as they run, and a caller whose box is set wakes up. Nothing is
assumed of timeouts, clients or the MES.

### What the violated runs show

1. `pipeline_stale`. `complete()` reads `last_snapshot` in a web thread;
   `_apply_commands` later closes whatever product is open without looking again.
   A reset, a work order or another completion in between, or merely the rest of
   the frame during which `last_snapshot` is still the old one, makes it a
   product that was never confirmed PASS. This contradicts `web/pipeline.py:120`
   and `mes/docs/mes_mqtt.md:52`. What does hold is `AnswersMatchProducts`, no caller's
   "ok" is for nothing, and `PassIsItsOwn`: a PASS comes after a gate that its own frames
   opened, and where the loop waits for a clear table, one that opened on a table seen
   clear since the last completion. It does not say whose parts those are that opened it
   where nothing waits: on replayed video, or after [new work], which leaves an unfinished
   product on the table (`web/pipeline.py:221`).
2. `pipeline_recipe`. `on_message` accepts an order before it tells the loop. In
   between, `can_complete()` already says yes, for a product of the old recipe.
3. `pipeline_mes_fault`. If the write of a result fails after `close_product`
   succeeded, `product_id` still names the closed product; the caller is told no,
   and the next reset raises in the loop, where nothing catches it.
4. `mes_two_active`. Two releases both see a free station (`WorkOrderService.java:70`)
   and both insert a RELEASED order; the one that counts later takes the next number,
   so nothing fails. One client is enough when a report is promoting meanwhile (same
   cfg with one client, three orders and `Suspect = {1}`): the station refuses an order
   that has been cancelled, the report finds none active (line 122), a release of two
   lines commits the first RELEASED and the second QUEUED, and line 125 dispatches the
   second. `OrderBook` does not promise one active order, and is kept by any number of
   consoles. With a third order the same race sends one past another: while one console
   inserts a batch of two lines, the other's release finds the station free, takes number
   3 and is sent at once, though line 2 of the batch waits (`FirstComeFirst` with two
   clients, three orders and no report). So `FirstComeFirst`, that nothing is sent while a
   lower number waits, is asked of one console (`mes`); of any number of them holds
   `NextInLine` (`SentInTurn`): an order that has to wait is sent before every order that
   waits behind it. TLC has confirmed it of two consoles, three orders, a refusal and a
   report (1.9 million states).
5. `mes_busy`. Cancelling the active order dispatches the next one and publishes it;
   the station, never told to stop, refuses it as BUSY, and the MES rejects an order
   nobody refused.
6. `mes_lost_result`. A result whose transaction touches a row that a REST request
   changed meanwhile rolls back; `messageArrived` logs it and returns, so the broker
   takes it as delivered. The MES stays one short of what the station has completed.
   `NoReportVanishes` says this is the only way a report is lost.

### What the passing runs also taught

No run is violated by these, but a reader of the code should know them:

* `Store.recovery()` pairs each assembly NG with the next row that is no HOLD, whatever it
  says: an NG told again with other reasons gives one time from NG to NG and one from the
  second NG to the end, where the docstring promises the time until IN_PROGRESS or PASS
  (`web/store.py:351`). `SummaryTellsTheEvents` says what the query gives, one value for
  each row that told NG but one that still stood, and how many of them are what it promises.
* NG, HOLD, NG is one NG in `ng_count` (`web/store.py:154`), but two events in which the
  status turned NG, which is what `web/schema.sql:37` says of the column.
* `percentile` says nearest rank, and rounds
  half to even: for an odd `p * n / 100` it can take the rank above (`store.py:68`,
  `RanksAreNear` allows one).
* `ng_codes` drops the codes that begin with `MISSING`, so `MATERIAL_MISSING` next to an
  excess is sent to the MES (`store.py:201`); `pareto` and `heatmap` count the missing
  issues of an NG as well.
* A set built again into its old folder does leak pictures from training into
  validation: nothing empties it, and the pictures seen are remembered per run only
  (`prepare_rtdetr_dataset.py:103`). `ValidatedOnUnseen` is about sets in an empty folder
  (`reused`), and about carved ones that were not laid over others (`overlaid`). A photo
  that both `train_obb` and `val_obb` were given can be in both halves of the carved set:
  `carve_val` moves photos of the first without looking at what the second has.
* `stratified_folds` gives a class of one photo a fold that tests it untrained, and with
  fewer photos than folds a fold is empty and the program ends (`EndValidation`). A class
  without tests counts as F1 0 in the mean (`metrics.py:27`).
* An order offered to the station again after another one is numbered from 1 again, so
  `product_seq` is unique only between two offers (`web/mes_link.py:139`); the MES counts
  results by their event ids and does not mind.
* Orders are numbered with three digits and dispatched in the order of that text
  (`WorkOrderService.java:73`, `WorkOrderRepository.java:19`): the 1000th order of a day
  goes before the 999th. The model's numbers are integers.
* Of a segment no longer than the grace `evaluate_video` takes the window from its end to
  its end, which holds the row that stands across it: an NG there counts as an episode,
  though no time of it is scored (`evaluate_video.py:106`, `:126`).
* A part that lies exactly along the Mother is anchored at the end the picture shows on the
  right, for the reading above as for the one below and whichever end she is seen from; one
  with a tilt at its lower end for the one and its upper end for the other
  (`association.py:32`). So without `LyingIsPlain` a lying part near a hole could be
  ambiguous from one end and ignored from the other.
* A merge that dies between a photo and its label leaves a photo that no later merge labels,
  since it is there already (`merge_labeled_data.py:131`). It gets into no set, as it has no
  label; but it is lost to the training until somebody removes it.
* Iconic photos of one name in two class folders share one label file
  (`auto_label_iconic.py:168`), so the later labelled gives both its class; `MayTell` allows
  exactly that.
* A part that lies and could not be measured is read as standing
  (`rtdetr_adapter.py:237`).
* A page that joins when the last payload had nobody to go to, while an older fan-out is
  still to come, shows that older one until the next payload: `stray` in
  `ScreensCatchUp`.

## 4. Proofs

`InspectionProofs` proves, for every duration, gap, bound and set of issue lists
that satisfies `ConfigAssumption`, `BoundAssumption` and `NoneAssumption`:

* `TypeCorrect`: `Spec => []TypeOK`;
* `FilterSound`: `Spec => []FilterMatchesTrail`, the inductive invariant: the four
  fields of the filter are a summary of the trail (the longest run of one
  candidate, in one phase, without a gap, that ends it). `StableIffSupported`
  alone is not inductive, since it says nothing of a run that is still too short;
* `StableSound`, `VerdictSound`, `EventsSound`, `GateSound` from it: a frame is
  stable iff the trail supports it (`CountIsSupport`, `StableIsSupport`); the
  last supported frame is the confirmed verdict, by cases on the four branches of
  the state machine (`VerdictAfterUpdate`); the gate opens iff the trail supports
  READY (`GateAfterUpdate`);
* `CoreImplementsVerdict`: initial states map to `Verdict`'s, and each update to
  one of the outcomes it allows, under the mapping `Seen` (`UpdateShowsVerdict`).

`CountIsSupport` is where time enters: a count of at least two and a span of at
least the duration are together equivalent to a supporting run, because times
strictly increase along the trail and durations are positive.

`PipelineProofs` proves, for any number of clients, orders, recipes and requests and any
quantity and clear-table wait (`PipelineAssumption`, which also says what the evaluators
return for an empty table):

* `StationTyped`: `PipelineSpec => []PipelineTypeOK`;
* `OnlyTheCurrentIsOpen`: `PipelineSpec => []OneOpenProduct`;
* if `~MesMayFail`, `LoopAlwaysSurvives`, `EveryAnswerIsTrue`, `EveryResultIsCounted`,
  `EveryPassIsItsOwn` and `ClearBetweenAll`: `LoopSurvives`, `AnswersMatchProducts`,
  `ResultsMatchProducts`, `PassIsItsOwn` and the action property `ClearBetweenProducts`.

The invariant comes in layers, each resting on those before it. `Types`. `StationInv`:
`Tied` ties the current product to the core, the store and the wait (a core behind its
gate has a current product, which is marked as gated; there is no product while the loop
waits), `StoreClosed` says which may be open. `Accounts`: `Working` (the product at work
is open, so no command finds it closed), `ResultsRun` (the results go through an order
without gap, and end with the count of the order at work), `ToldOnce` (a COMPLETED product
has one box, and a result at most one), and for the wait `WaitsAfterCompletion` and
`WaitIsCounted` (the loop's two counters are those of the frames that were shown). The
first two layers hold whatever fails; the accounts need MesLink's writes to succeed, and
run `pipeline_mes_fault` shows that they break without it.

`MesProofs` proves, for any number of orders, clients and reports and any positive
quantities (`BrokerAssumption`; `ThreadAssumption`: the MQTT thread is no client):

* `ProtocolTypes`: `Spec => []ProtocolTypeOK`;
* `NothingPublishedEarly`: `Spec => []PublishedIsCommitted`;
* `ReportsAreKept`: `Spec => []NoReportVanishes`;
* `NothingOverwritten`: `Spec => FinishedStaysFinished`.

None of them is inductive: what a commit will write, and what a sync is about to
publish, is hidden in the open transactions. `ProtocolInv` adds `TransactionsAdmissible`
(every row a transaction has written follows, by what `WorkOrder`'s methods can do,
the row it is based on; the order it is about to publish is dispatched in the table;
the report it handles is the head of `toMes`), `EventsIssued` (event ids are fresh) and
`StationHasOrder`. `MethodsFollow` and `FollowsTransitive` are the algebra of rows;
`CommitFollows` is where the version check enters: the row replaced is the row the
transaction is based on, so the table only moves forward, and orders once
dispatched stay so for all that have read them. The action property follows from
the invariant by the same lemma.

It goes on from there to what the two sides count, under the same assumptions:

* `NeverCountedTwice`: `Spec => []CountIsProduced`;
* `ToldIsDone`: `Spec => []StationDoneMesDone`.

`CountInv` relates `produced` and the MES's `done` through what is still to be told:
`Untold(w)` are the events of RESULT reports of order w in the outbox or at the broker
that the MES has not recorded. The count and what is untold are together at most what
was produced (`CountedIsProduced`) and, as long as no acknowledged report was rolled back
and the order is waited for, at least what the station has done (`ProducedIsCounted`).
Inside a transaction, `TransactionCounted` says that only one row may count one more, that
of the result it handles, whose event is not recorded yet. A commit moves the event from
untold to recorded and the count by one (`CommitTells`); it counts nothing twice because
`seen` is looked up in the transaction, of which the MQTT thread runs one at a time, and
the version check keeps the count it was based on. Each product adds one fresh event
(`OneMade`), a repeated publication none (`SendingCounts`).

`MesOrderProofs` proves of the list of orders:

* `SentInTurn`: `Spec => NextInLine`, for any number of consoles;
* `InTurnsInOrder`: `Spec /\ []OneAtATime => []FirstComeFirst`, for the behaviours in which no
  two consoles have a transaction open at once, one console's among them: only requests
  that overlap send a new order past a waiting one;
* `ListKept`: `Spec => ImplementsOrderBook`, the refinement of `OrderBook`, for any number of
  consoles. `FinishedStaysFinished` follows from it (`BookOverwritesNothing`), so the run
  `mes` asks for the refinement only.

For `InTurnsInOrder`, `OrderInv` says of each thread that what it sees (the table under its own
rows, `Over`) is in order and without gaps in the numbers (`Steady`), and that an insertion
of a RELEASED order is made only where none waits (`InsertsRightly`); the hard step is a
commit beneath the other thread's transaction (`ReportBeneathRequest`,
`RequestBeneathReport`), which needs that the two write different things. For `ListKept`,
`BookInv` says that each row an open transaction has written is a single step from the
row it is based on (`Moves`: issued or dispatched, or one order told of and every other row
dispatched because that order is over), that it sends one order at most (`SendsOne`),
leaves no gap, and has looked for the lowest waiting number (`InTurn`): the order it is
about to send has nobody waiting before it, in the table as it is now. That survives the
commits of others, since nothing that has left the queue goes back to it
(`NothingGoesBack`) and new numbers are higher; it gives `SentInTurn`. A commit finds the rows as they were when read, so it is `Issue` or `Tell`
(`CommitIsOneStep`); that it counts only what was made is `NeverCountedTwice`, and that
only an order that was sent is made, `NothingPublishedEarly`. All these invariants
were checked by TLC on the bounds of `mes` first.

`ScreensProofs` proves, for files of any length, any pages, threads and bounds
(`ModesAssumption`):

* `JobsStartAtTheStart`: `Spec => []PlaysFromStart`, from `FileInv`: since the last
  reset the position of the next read, the held picture and the mark at the end are
  what the count of pictures makes them, or nothing has been read and a rewind is
  pending. `PlaysFromStart` alone forgets the position. `Wrapped` is the arithmetic of
  a file played in a loop;
* `ScreensShowTheLast`: `Spec => []ScreensCatchUp`, from `FanoutInv`: the newest payload
  is at the end of the backlog, or the backlog is empty and every connected page shows
  it; a connected page is among the clients. `ScreensCatchUp` alone says nothing while
  fan-outs are pending.

`RecordsProofs` begins with what it needs of sums and counts. The library's induction
cannot be used here, as it is stated for an operator; but its well-founded orders are
stated for sets, and `LeastNatural` (a set of naturals that is not empty has a least
member) gives a first-order induction: `EachNatural`, `EachFiniteSet`, and from them that
a fold over a finite set exists, does not depend on the order and splits where the set
does (`FoldExists`, `SumIsFold`, `SumIsUnion`). With these it proves:

* `NoFrameLost`: `FramesAreCounted` of `Records`, for any number of minutes and frames
  (`RecordsAssumption`), from `BucketInv`: the rows with the open bucket are the frames, and
  no row from the bucket's minute on is written. `RankIsNear` is `percentile()` for lists of
  any length;
* `SummaryIsTrue`: `SummaryTellsTheEvents`, for any verdicts (`VerdictsAssumption`) and any
  number of events, from `SummaryInv`: while the product is open each row carries the phase
  it was judged in; the counters of a closed one sum up its rows. What close_product counts in one pass over the events is a fold of their starts
  (`CountingIsFolding`, `VerdictTallied`), each NG that was told has at most one end
  (`EveryNgEnds`) and those of the recoveries that leave NG are these ends
  (`RecoveriesAreEndings`); every row of an NG but the last of all has a next one
  (`EveryNgIsFollowed`), which is why the values of recovery() are as many as those rows;
* `ScoreIsTrue`: `ScoreIsTheTime` of `Scoring`, for any annotation whose segments follow one
  another, any grace and frame time and any log (`SegmentsAssumption`), from `ScoringInv`:
  the rows come in the order of their frames, each at its frame's time or 1 ms late. A row lasts until the next or for one frame
  (`RowLasts`), the part of it inside a segment is an interval, intervals of different rows
  and segments are disjoint (`ScoredApart`), so the sums of the report are the sizes of
  unions of milliseconds (`ShownIs`, `SumOfSegments`).

`PartsProofs` proves of the parts that stand alone:

* `LogIsHonest`: `LogTellsTheRun` of `LiveInspection`, for every video and end of a run
  (`LiveAssumption`), from `LogInv`: the log's counts, times, last row and numbering are those
  of the run. `FramesFillTheTime` is the arithmetic by which a log that covers its time
  holds every frame; stamps may be 1 ms late, so it needs frames more than 1 ms apart;
* `NothingIsKeptOver`: `KeptIsOfThisProduct`, from `KeptInv`: the final check is there
  exactly after a stable PASS, and `Held` ties the adapter's angle to the axes seen since
  it was last empty. While these are within 45 degrees of each other the angle held is
  between turns of them by half turns (`Bracketed`), which smoothing keeps; that alone
  is inductive, the distance from each of them is not;
* `TestedOnUnseen`: `ValidatedOnUnseen` of `Training`, for any photos, sources, groups,
  ratios, albums and folds (`PhotosAssumption`, `SourcesAssumption`, `AlbumsAssumption`), in
  three independent invariants: `UnseenInv` (what is in a set under construction has been
  seen, so no later group can bring it again), `CarvedInv` (what is on both sides was given
  for both) and `FoldsInv` (folds are dealt in turn from an order of each class).
  `DealtFairly` and `NextIsElsewhere` turn the last into the statement about what a fold
  trains on;
* `LabelsAreTrue`: `LabelsTellTheirPictures`, under the same assumptions and
  `IconicAssumption` (an iconic photo shows pieces of its folder's class only, the class
  `auto_label_iconic.py` writes). `LabelsInv` says of
  the merged folder, the set under construction and the carved one that their labels name
  what the pictures show, in the numbers of that folder and the format its readers expect,
  or what an iconic photo of the same name shows; a merge cut short is the only reason for a
  merged photo without a label, and a build cut between a photo and its label (`torn`) takes
  its set out of the claim; `NumbersAreNames` is the
  translation of numbers by name that merging and converting make. `ReportsInv` says it of
  the classifier: the classes of a checkpoint and of a fold are those of the folder it was
  trained on, in order (`ClassesAreListed`), so that an answer's number is a name, also
  where the tested folder numbers its classes otherwise (`AnswersAreNumbers`), and each
  report sums over the photos whose answer means their class (`SumsCountPhotos`).

`BenchProofs` proves of every recipe, pieces, places and thresholds that satisfy
`JobsAssumption` and `PlacesAssumption`:

* `JudgedAsItIs`: `JudgedAsBuilt` of `Bench` with the detector OBB. The assumption is about
  one piece alone: at each of its places, however its box is displaced, it is told to be
  at the hole it is joined to, or ignored, or ambiguous if it touches the Mother. The
  proof is about the rest: that no two pieces are told to be in one slot on one side of a
  hole (`OnePieceEach`, from the invariant `Apart`: the worker cannot put a second piece
  where one is), so that what is told from a picture is what has been built
  (`PictureRead`); and that errors and missing slots, which the evaluator lists by hole and
  slot, tell apart the parts of a finished assembly, a finished one and everything else
  (`ErrorsNone`, `MissingNone`, `StatusByGoals`), also read from the other end
  (`MirroredGoals`);
* `TurnedIsTheSame`: `TurningChangesNothing` without RT-DETR, for pieces at any places, if
  the thresholds are `Turnable` (her holes are alike from both ends, a part that lies on
  her is too long for a region and her middle is wide enough) and no angle is refused.
  TLC has confirmed that every set of thresholds of `parts` is. Each piece of the turned
  picture is told to be at the opposite hole on the opposite side (`AssociateTurned`), so
  the two readings of `evaluate_symmetric()` change places (`ReadingsChangePlaces`), and
  the better of two is the same either way;
* `ProductOfMaterials`: `MaterialsMakeTheProduct` with OBB. A reading that passes is a
  bijection from the holes that want a class to the pieces of it that were placed
  (`UsedAsWanted`), so the materials are READY just when nothing is left over.

Only model-checked, and why:

* these three properties with RT-DETR, the first and the last also without a detector, and
  `FinalCheckAgrees`: `Vision` and `FinalCheck` compute with nonlinear arithmetic over tables of cosines, and
  what they say holds for the places and box errors chosen there, not for all;
* `RehearsalTellsItsStory`, whose `LongEnough` covers any pace but which is asked at the paces,
  stages and recipes of its bounds;
* `CompleteIsAnswered`, `NewProductReachesScreens`, `InferenceEnds`, `ViewersSeeOn`,
  `PressesAreServed` are liveness under fairness, which is beyond the prover.

## 5. Plan

Done: the core and its proofs; the station's loop and its proofs; the MES protocol, its
proofs and the list of orders it implements; source, server and screens; evaluators,
geometry, adapters and the final check; the records; live inspection and scoring; the
rehearsal; photos and classifier. Left, in the order of their worth:

1. The composition of `Records` with `Pipeline`: the late frame after `stop()` gave up.
2. The adapters' arithmetic of RT-DETR, to carry `JudgedAsItIs` over to it.
3. What `Pipeline` and `MesLink` say of the same work order, as one refinement.

## 6. Not modelled

* Pixels: contours, colours and thresholds in `hole_count_check.py`, the networks of
  both detectors and of the classifier, Grad-CAM, augmentations. What they find is an
  input, or, for the adapters, derived from where the pieces are.
* `auto_label_iconic.py`, `label_recipe_bolts.py`, `crop_dataset.py`, the previews,
  `train_*.py` and `evaluate_obb.py`: one-shot programs over pictures and networks,
  without state between their steps. `--strict`, `--clip` and `--korean-names` of
  `prepare_obb_dataset.py` and the guessing of its photo folder.
* `JsonlSource`, `replay_detections.py`, `verify_materials.py`, `check_weights.py`,
  `visualize_rois.py`, `run_ui.py`: replay, print or start what is modelled.
* `app.js`, `hud.py`: drawing. Report queries that only select rows. The MES console's
  recipe and station pages, the status topic.
* Latency and candidate statuses in the scoring; the threshold below which the
  classifier answers "unknown".
* The frame loop's `join(timeout=3)` may give up; then `stop()` and the loop both close
  the product, which the model includes (`stopping = "gave_up"`) and excludes from
  `OneOpenProduct` and `LoopSurvives`, as the process is ending.
