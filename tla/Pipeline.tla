------------------------------ MODULE Pipeline ------------------------------
(***************************************************************************)
(* web/pipeline.py: the frame loop that owns the current product, and the  *)
(* threads that talk to it through a command queue: web handlers running   *)
(* complete(), [new work] and recipe choice, the MQTT thread delivering    *)
(* work orders, and the thread that stops the station.                     *)
(*                                                                         *)
(* The judgement core is the one Verdict specifies.  A frame carries what  *)
(* the loop can tell about it: whether the table is clear and the status   *)
(* of the candidate it shows.                                              *)
(***************************************************************************)
EXTENDS Verdict, Integers, Sequences, FiniteSets

CONSTANTS
  Clients,       \* web threads that may call complete()
  Recipes,
  Orders,        \* work orders the MES may deliver
  RecipeOf,      \* the recipe of each order
  Quantity,      \* the quantity of every order
  ClearFrames,   \* config clear_min_frames
  ClearTime,     \* config clear_duration_ms
  MesMayFail,    \* whether MesLink's database may refuse a write
  MaxRequests,   \* bound: clicks and order messages
  None

ASSUME PipelineAssumption ==
  /\ Recipes # {} /\ RecipeOf \in [Orders -> Recipes]
  /\ Quantity \in Nat \ {0} /\ ClearFrames \in Nat /\ ClearTime \in Nat \ {0}
  /\ MaxRequests \in Nat /\ MesMayFail \in BOOLEAN
  /\ "IN_PROGRESS" \in Deviations    \* what a frame without detections shows
  /\ Deviations \intersect {"HOLD", "READY", "PASS"} = {}
  /\ None \notin Recipes \union Orders \union Nat

VARIABLES
  require_clear, mes_attached,           \* set once when the server is built
  recipe, product_id, last_snapshot,
  awaiting_clear, clear_count, clear_age,   \* clear_age: time since _clear_since
  commands,                              \* the queue, oldest first
  loop,                                  \* where the frame loop is
  stopping,                              \* how far stop() has come
  products,                              \* the store's products of this run
  work_order, delivered,                 \* MesLink.work_order; the MQTT thread's pending put
  calls, boxes,                          \* complete() per client; answered boxes
  requests,                              \* bound counter, and the id of the latest request
  results,                               \* history: products counted for the MES
  quiet                                  \* history: consecutive frames that showed a clear table

station == <<recipe, product_id, awaiting_clear, clear_count, clear_age>>
mes == <<work_order, delivered>>
web == <<calls, requests>>
settings == <<require_clear, mes_attached>>
vars == <<core, settings, station, last_snapshot, commands, loop, stopping, products,
          mes, web, boxes, results, quiet>>

Idle == [at |-> "idle", id |-> 0]
NoOrder == [id |-> None, done |-> 0, status |-> "NONE"]
Active == work_order.status = "IN_PROGRESS"
PassShown == last_snapshot.status = "PASS" /\ last_snapshot.stable

\* A row of the products table; the rest is history: whether its own inspection
\* opened the gate, whether what was finished before it had been cleared away by
\* then, and whether PASS was confirmed.
FreshProduct(r) ==
  [recipe |-> r, result |-> "OPEN", gated |-> FALSE, cleared |-> FALSE, passed |-> FALSE]
-----------------------------------------------------------------------------
(* Store                                                                   *)

With(result) == {p \in DOMAIN products : products[p].result = result}

IsOpen(p) == p # None /\ products[p].result = "OPEN"

Closed(p, result) == [products EXCEPT ![p].result = result]

\* discard_product deletes an open product and leaves any other alone.
Discarded(p) == IF IsOpen(p) THEN Closed(p, "DISCARDED") ELSE products

\* open_product abandons whatever this run left open.
Opened(ps, r) ==
  Append([i \in DOMAIN ps |-> IF ps[i].result = "OPEN" THEN [ps[i] EXCEPT !.result = "ABANDONED"]
                                                       ELSE ps[i]],
         FreshProduct(r))

GateOpens(k) == k.phase = "ASSEMBLING" /\ k.status = "HOLD" /\ k.stable

\* What the snapshot k adds to the record of product p, seen on a table that
\* holds no finished product (empty) or may hold one.
Recorded(ps, p, k, empty) ==
  IF p = None THEN ps
  ELSE [ps EXCEPT ![p].gated = @ \/ GateOpens(k),
                  ![p].cleared = @ \/ (~ps[p].gated /\ GateOpens(k) /\ empty),
                  ![p].passed = @ \/ (k.status = "PASS" /\ k.stable)]
-----------------------------------------------------------------------------
(* MesLink, as far as the station's products depend on it                  *)

\* on_message with an order: the same id again, and any order while one is in
\* progress (BUSY), leave the order alone; a new one replaces it at once ...
AcceptOrder(o) ==
  /\ mes_attached /\ delivered = <<>> /\ requests < MaxRequests
  /\ ~Active /\ work_order.id # o
  /\ work_order' = [id |-> o, done |-> 0, status |-> "IN_PROGRESS"]
  /\ delivered' = <<[order |-> o, replaced_status |-> work_order.status]>>
  /\ requests' = requests + 1
  /\ UNCHANGED <<core, settings, station, last_snapshot, commands, loop, stopping, products,
                 calls, boxes, results, quiet>>

\* ... as an empty retained message cancels the order in progress ...
CancelOrder ==
  /\ mes_attached /\ delivered = <<>> /\ requests < MaxRequests
  /\ Active
  /\ work_order' = [work_order EXCEPT !.status = "CANCELLED"]
  /\ delivered' = <<[order |-> None, replaced_status |-> None]>>
  /\ requests' = requests + 1
  /\ UNCHANGED <<core, settings, station, last_snapshot, commands, loop, stopping, products,
                 calls, boxes, results, quiet>>

\* ... and only then is the pipeline told (on_work_order, outside the lock).
PutWorkOrder ==
  /\ delivered # <<>>
  /\ commands' = Append(commands, [cmd |-> "workorder", arg |-> Head(delivered)])
  /\ delivered' = <<>>
  /\ UNCHANGED <<core, settings, station, last_snapshot, loop, stopping, products,
                 work_order, web, boxes, results, quiet>>

FaultyCounted(wo) == [wo EXCEPT !.done = @ + 1]

\* product_completed: nothing without an order in progress; the order is done
\* when its quantity is reached.
Counted(wo) ==
  [wo EXCEPT !.done = @ + 1,
             !.status = IF wo.done + 1 >= Quantity THEN "COMPLETED" ELSE @]

ProductCompleted(p) ==
  IF mes_attached /\ Active
    THEN /\ work_order' = Counted(work_order)
         /\ results' = Append(results, [order |-> work_order.id, seq |-> work_order.done + 1,
                                        product |-> p])
    ELSE UNCHANGED <<work_order, results>>

\* The write of the result, or a later one, fails: the count in memory stands.
ProductCompletedFails(p) ==
  /\ MesMayFail /\ mes_attached /\ Active
  /\ \/ /\ work_order' = [work_order EXCEPT !.done = @ + 1]
        /\ UNCHANGED results
     \/ ProductCompleted(p)
-----------------------------------------------------------------------------
(* The web threads                                                         *)

\* complete(): three checks, then the command, then the wait for its box.
CheckClear(c) ==
  /\ calls[c] = Idle /\ stopping = "no" /\ requests < MaxRequests
  /\ ~awaiting_clear
  /\ requests' = requests + 1
  /\ calls' = [calls EXCEPT ![c] = [at |-> "order", id |-> requests + 1]]
  /\ UNCHANGED <<core, settings, station, last_snapshot, commands, loop, stopping, products,
                 mes, boxes, results, quiet>>

CheckOrder(c) ==
  /\ calls[c].at = "order"
  /\ calls' = [calls EXCEPT ![c] = IF mes_attached /\ ~Active THEN Idle ELSE [@ EXCEPT !.at = "pass"]]
  /\ UNCHANGED <<core, settings, station, last_snapshot, commands, loop, stopping, products,
                 mes, boxes, requests, results, quiet>>

CheckPass(c) ==
  /\ calls[c].at = "pass"
  /\ calls' = [calls EXCEPT ![c] = IF PassShown THEN [@ EXCEPT !.at = "put"] ELSE Idle]
  /\ UNCHANGED <<core, settings, station, last_snapshot, commands, loop, stopping, products,
                 mes, boxes, requests, results, quiet>>

PutComplete(c) ==
  /\ calls[c].at = "put"
  /\ commands' = Append(commands, [cmd |-> "complete", arg |-> calls[c].id])
  /\ calls' = [calls EXCEPT ![c].at = "wait"]
  /\ UNCHANGED <<core, settings, station, last_snapshot, loop, stopping, products,
                 mes, boxes, requests, results, quiet>>

Answered(id) == \E b \in boxes : b.call = id

ReturnAnswer(c) ==
  /\ calls[c].at = "wait" /\ Answered(calls[c].id)
  /\ calls' = [calls EXCEPT ![c] = Idle]
  /\ UNCHANGED <<core, settings, station, last_snapshot, commands, loop, stopping, products,
                 mes, boxes, requests, results, quiet>>

\* done.wait(timeout=5) gives up: the caller is refused, the command stays queued.
TimeOut(c) ==
  /\ calls[c].at = "wait" /\ ~Answered(calls[c].id)
  /\ calls' = [calls EXCEPT ![c] = Idle]
  /\ UNCHANGED <<core, settings, station, last_snapshot, commands, loop, stopping, products,
                 mes, boxes, requests, results, quiet>>

Request(command) ==
  /\ stopping = "no" /\ requests < MaxRequests
  /\ requests' = requests + 1
  /\ commands' = Append(commands, command)
  /\ UNCHANGED <<core, settings, station, last_snapshot, loop, stopping, products,
                 mes, calls, boxes, results, quiet>>

\* [new work]
RequestReset == Request([cmd |-> "reset", arg |-> None])

\* Refused while the MES decides the recipe.
SelectRecipe(r) == ~mes_attached /\ Request([cmd |-> "recipe", arg |-> r])
-----------------------------------------------------------------------------
(* The frame loop                                                          *)

FaultyNewProduct(ps, r) ==
  product_id' = Len(ps) + 1 /\ products' = Opened(ps, r)

\* No product is opened while the finished one is still on the table.
NewProduct(ps, r) ==
  IF awaiting_clear' THEN product_id' = None /\ products' = ps
                     ELSE product_id' = Len(ps) + 1 /\ products' = Opened(ps, r)

TakeFrame ==
  /\ loop = "idle" /\ stopping = "no"
  /\ loop' = "commands"
  /\ UNCHANGED awaiting_clear
  /\ IF product_id = None /\ ~awaiting_clear THEN NewProduct(products, recipe)
                                             ELSE UNCHANGED <<product_id, products>>
  /\ UNCHANGED <<core, settings, recipe, clear_count, clear_age, last_snapshot, commands,
                 stopping, mes, web, boxes, results, quiet>>

EndLoop ==
  /\ loop = "idle" /\ stopping # "no"
  /\ loop' = "ended"
  /\ UNCHANGED <<core, settings, station, last_snapshot, commands, stopping, products,
                 mes, web, boxes, results, quiet>>

NextCommand(cmd) ==
  /\ loop = "commands" /\ commands # <<>> /\ Head(commands).cmd = cmd
  /\ commands' = Tail(commands)

Arg == Head(commands).arg

\* Only complete catches what close_product raises; elsewhere it ends the loop.
Raise ==
  /\ loop' = "dead"
  /\ UNCHANGED <<core, station, products>>

\* The core forgets what it saw and the next product begins, with recipe r.
StartOver(ps, r) ==
  /\ recipe' = r /\ Restart /\ NewProduct(ps, r)
  /\ UNCHANGED loop

FaultyAbandonAndStartOver(r) ==
  IF ~IsOpen(product_id) THEN Raise
  ELSE /\ UNCHANGED <<awaiting_clear, clear_count, clear_age>>
       /\ StartOver(Closed(product_id, "ABANDONED"), r)

EagerAbandonAndStartOver(r) ==
  IF product_id # None /\ ~IsOpen(product_id) THEN Raise
  ELSE /\ awaiting_clear' = FALSE /\ clear_count' = 0 /\ clear_age' = 0
       /\ StartOver(IF product_id = None THEN products ELSE Closed(product_id, "ABANDONED"), r)

AbandonAndStartOver(r) ==
  IF product_id # None /\ ~IsOpen(product_id) THEN Raise
  ELSE /\ UNCHANGED <<awaiting_clear, clear_count, clear_age>>
       /\ StartOver(IF product_id = None THEN products ELSE Closed(product_id, "ABANDONED"), r)

ApplyRecipe ==
  /\ NextCommand("recipe")
  /\ AbandonAndStartOver(Arg)
  /\ UNCHANGED <<settings, last_snapshot, stopping, mes, web, boxes, results, quiet>>

ApplyReset ==
  /\ NextCommand("reset")
  /\ AbandonAndStartOver(recipe)
  /\ UNCHANGED <<settings, last_snapshot, stopping, mes, web, boxes, results, quiet>>

\* A product that merely waited for an order is discarded, one that was being
\* worked on when its order was cancelled is abandoned.
ApplyWorkOrder ==
  /\ NextCommand("workorder")
  /\ IF Arg.order # None /\ Arg.replaced_status # "IN_PROGRESS"
       THEN /\ UNCHANGED <<awaiting_clear, clear_count, clear_age>>
            /\ StartOver(Discarded(product_id), RecipeOf[Arg.order])
       ELSE AbandonAndStartOver(IF Arg.order = None THEN recipe ELSE RecipeOf[Arg.order])
  /\ UNCHANGED <<settings, last_snapshot, stopping, mes, web, boxes, results, quiet>>

Answer(product) == boxes' = boxes \union {[call |-> Arg, product |-> product]}

CompleteSucceeds ==
  /\ IsOpen(product_id)
  /\ ProductCompleted(product_id)
  /\ Answer(product_id)
  /\ awaiting_clear' = (awaiting_clear \/ require_clear)
  /\ IF require_clear THEN clear_count' = 0 /\ clear_age' = 0
                      ELSE UNCHANGED <<clear_count, clear_age>>
  /\ StartOver(Closed(product_id, "COMPLETED"), recipe)
  /\ quiet' = [frames |-> 0, time |-> 0]

FaultyCompleteRefused ==
  /\ ~IsOpen(product_id)
  /\ Answer(IF Len(products) > 0 THEN Len(products) ELSE None)
  /\ UNCHANGED <<core, station, products, loop, work_order, results, quiet>>

SilentCompleteRefused ==
  /\ ~IsOpen(product_id)
  /\ UNCHANGED <<core, station, products, loop, work_order, boxes, results, quiet>>

\* close_product refuses a product that is missing or not open.
CompleteRefused ==
  /\ ~IsOpen(product_id)
  /\ Answer(None)
  /\ UNCHANGED <<core, station, products, loop, work_order, results, quiet>>

\* The product is closed, but the count fails and the caller is refused.
CompleteFails ==
  /\ IsOpen(product_id)
  /\ ProductCompletedFails(product_id)
  /\ products' = Closed(product_id, "COMPLETED")
  /\ Answer(None)
  /\ quiet' = [frames |-> 0, time |-> 0]
  /\ UNCHANGED <<core, station, loop>>

ApplyComplete ==
  /\ NextCommand("complete")
  /\ CompleteSucceeds \/ CompleteRefused \/ CompleteFails
  /\ UNCHANGED <<settings, last_snapshot, stopping, delivered, web>>

FaultyClearLongEnough(age) == clear_count + 1 >= ClearFrames

\* _await_clear_step on a clear frame, age after the first of its row.
ClearLongEnough(age) == clear_count + 1 >= ClearFrames /\ age >= ClearTime

\* History: the table was seen clear for long enough since the last completion.
SeenClear == quiet.frames >= ClearFrames /\ quiet.time >= ClearTime

\* ... so that nothing completed before this frame is on it.
NothingLeft == With("COMPLETED") = {} \/ SeenClear'

\* The rest of the frame: it becomes the snapshot on display and in the record.
Publish(ps) ==
  /\ products' = Recorded(ps, product_id', core', NothingLeft)
  /\ last_snapshot' = core'

JudgeFrame ==
  /\ ~awaiting_clear
  /\ \E s \in Showing(core.phase) \union {"HOLD"} : Frame(s)
  /\ UNCHANGED <<product_id, awaiting_clear, clear_count, clear_age, quiet>>
  /\ Publish(products)

\* While waiting the core is fed frames without detections.
JudgeWhileWaiting(clear, age) ==
  /\ awaiting_clear /\ ~(clear /\ ClearLongEnough(age))
  /\ clear_count' = IF clear THEN clear_count + 1 ELSE 0
  /\ clear_age' = IF clear THEN age ELSE 0
  /\ \E s \in {"HOLD", "IN_PROGRESS"} : Frame(s)
  /\ UNCHANGED <<product_id, awaiting_clear>>
  /\ Publish(products)

\* The table has been clear long enough: this frame begins the next product.
JudgeCleared(clear, age) ==
  /\ awaiting_clear /\ clear /\ ClearLongEnough(age)
  /\ awaiting_clear' = FALSE /\ clear_count' = 0 /\ clear_age' = 0
  /\ product_id' = Len(products) + 1
  /\ \E s \in Showing("CHECK_MATERIALS") \union {"HOLD"} : core' \in After(Blank, s)
  /\ Publish(Opened(products, recipe))

\* History: what the frames since the last completion show, d after each other.
Look(clear, d) ==
  LET Upto(bound, n) == IF n > bound THEN bound ELSE n
  IN  quiet' = IF clear
                 THEN [frames |-> Upto(ClearFrames + 1, quiet.frames + 1),
                       time |-> IF quiet.frames = 0 THEN 0 ELSE Upto(ClearTime, quiet.time + d)]
                 ELSE [frames |-> 0, time |-> 0]

\* The queue is empty: the frame, d after the previous one, is judged.
EndFrame ==
  /\ loop = "commands" /\ commands = <<>>
  /\ loop' = "idle"
  /\ \/ JudgeFrame
     \/ \E clear \in BOOLEAN, d \in 1..ClearTime :
          LET age == IF clear_count = 0 THEN 0 ELSE clear_age + d
          IN  /\ Look(clear, d)
              /\ JudgeWhileWaiting(clear, age) \/ JudgeCleared(clear, age)
  /\ UNCHANGED <<settings, recipe, commands, stopping, mes, web, boxes, results>>
-----------------------------------------------------------------------------
(* Stopping                                                                *)

\* The lifespan of the web server ends when no request is in flight any more.
RequestStop ==
  /\ stopping = "no" /\ \A c \in Clients : calls[c] = Idle
  /\ stopping' = "set"
  /\ UNCHANGED <<core, settings, station, last_snapshot, commands, loop, products,
                 mes, web, boxes, results, quiet>>

FaultyFinishStop ==
  /\ stopping = "set"
  /\ stopping' = "joined"
  /\ products' = IF IsOpen(product_id) THEN Closed(product_id, "ABANDONED") ELSE products
  /\ UNCHANGED <<core, settings, station, last_snapshot, commands, loop,
                 mes, web, boxes, results, quiet>>

\* join(timeout=3) returns when the loop has ended, or gives up on it.
FinishStop ==
  /\ stopping = "set"
  /\ stopping' = IF loop \in {"ended", "dead"} THEN "joined" ELSE "gave_up"
  /\ products' = IF IsOpen(product_id) THEN Closed(product_id, "ABANDONED") ELSE products
  /\ UNCHANGED <<core, settings, station, last_snapshot, commands, loop,
                 mes, web, boxes, results, quiet>>
-----------------------------------------------------------------------------
PipelineInit ==
  /\ core = Blank /\ last_snapshot = Blank
  /\ require_clear \in BOOLEAN /\ mes_attached \in BOOLEAN
  /\ recipe \in Recipes /\ product_id = None /\ products = <<>>
  /\ awaiting_clear = FALSE /\ clear_count = 0 /\ clear_age = 0
  /\ commands = <<>> /\ loop = "idle" /\ stopping = "no"
  /\ work_order = NoOrder /\ delivered = <<>>
  /\ calls = [c \in Clients |-> Idle] /\ boxes = {}
  /\ requests = 0 /\ results = <<>> /\ quiet = [frames |-> 0, time |-> 0]

Commands == ApplyRecipe \/ ApplyReset \/ ApplyWorkOrder \/ ApplyComplete

LoopStep ==
  \/ TakeFrame
  \/ Commands
  \/ EndFrame
  \/ EndLoop

WebStep ==
  \/ \E c \in Clients :
        CheckClear(c) \/ CheckOrder(c) \/ CheckPass(c) \/ PutComplete(c)
          \/ ReturnAnswer(c) \/ TimeOut(c)
  \/ RequestReset
  \/ \E r \in Recipes : SelectRecipe(r)

MesStep == (\E o \in Orders : AcceptOrder(o)) \/ CancelOrder \/ PutWorkOrder

PipelineNext == LoopStep \/ WebStep \/ MesStep \/ RequestStop \/ FinishStop

PipelineSpec == PipelineInit /\ [][PipelineNext]_vars

\* The source keeps yielding frames, and an answered caller is woken.
FairSpec ==
  /\ PipelineSpec
  /\ WF_vars(LoopStep)
  /\ \A c \in Clients : WF_vars(ReturnAnswer(c))
-----------------------------------------------------------------------------
(* Properties                                                              *)

Cores ==
  [phase : {"CHECK_MATERIALS", "ASSEMBLING"}, status : Deviations \union {"HOLD", "PASS"},
   stable : BOOLEAN, watching : BOOLEAN]

\* Type invariant.  While the loop waits for the table to be cleared there is no
\* current product and the core never gets as far as the gate.
PipelineTypeOK ==
  /\ core \in Cores /\ last_snapshot \in Cores
  /\ core.status = "PASS" => core.phase = "ASSEMBLING"
  /\ recipe \in Recipes /\ product_id \in {None} \union DOMAIN products
  /\ awaiting_clear => require_clear /\ product_id = None /\ core.phase = "CHECK_MATERIALS"
  /\ clear_count > 0 => awaiting_clear
  /\ \A p \in DOMAIN products :
        products[p] \in [recipe : Recipes, gated : BOOLEAN, cleared : BOOLEAN, passed : BOOLEAN,
                         result : {"OPEN", "COMPLETED", "ABANDONED", "DISCARDED"}]
  /\ loop \in {"idle", "commands", "ended", "dead"}
  /\ stopping \in {"no", "set", "joined", "gave_up"}
  /\ work_order.status \in {"NONE", "IN_PROGRESS", "COMPLETED", "CANCELLED"}
  /\ calls \in [Clients -> [at : {"idle", "order", "pass", "put", "wait"}, id : 0..MaxRequests]]

\* Whatever order clicks, orders, cancellations and frames come in, the only
\* product the store holds open is the one the loop is working on, and none is
\* left open once stop() has joined the loop (pipeline.py:139-154, store.py:118).
OneOpenProduct ==
  CASE stopping \in {"no", "set"} -> With("OPEN") = IF IsOpen(product_id) THEN {product_id} ELSE {}
    [] stopping = "joined" -> With("OPEN") = {}
    [] stopping = "gave_up" -> TRUE

\* No sequence of commands makes close_product raise where nothing catches it:
\* until stop() has given up on it the loop is alive (pipeline.py:208-252).
LoopSurvives == loop = "dead" => stopping = "gave_up"

\* Every caller told "ok" was given a COMPLETED product of its own, and every
\* COMPLETED product was given to a caller, who may have stopped waiting for it
\* (pipeline.py:131-134, 238-252).
AnswersMatchProducts ==
  /\ \A p \in With("COMPLETED") : \E b \in boxes : b.product = p
  /\ \A b \in boxes : b.product # None => products[b.product].result = "COMPLETED"
  /\ \A a, b \in boxes : a.product = b.product /\ a.product # None => a = b

Last == results[Len(results)]

\* The MES is told of each completed product at most once, under the order in
\* progress: an order's results are numbered 1, 2, ... up to its quantity, from 1
\* again only if it is offered again, and it is COMPLETED exactly when its count
\* reaches the quantity (mes_link.py:110-123, 171-193).
ResultsMatchProducts ==
  /\ \A i, j \in DOMAIN results : results[i].product = results[j].product => i = j
  /\ \A i \in DOMAIN results :
        /\ results[i].product \in With("COMPLETED")
        /\ results[i].seq \in 1..Quantity
        /\ results[i].seq > 1 =>
             i > 1 /\ results[i - 1].order = results[i].order /\ results[i - 1].seq = results[i].seq - 1
  /\ work_order.done > 0 =>
        results # <<>> /\ Last.order = work_order.id /\ Last.seq = work_order.done
  /\ work_order.status = "COMPLETED" <=> work_order.done = Quantity

\* A product's PASS rests on its own inspection: it is confirmed only behind a gate
\* that materials seen in its own frames opened and, on a live camera, opened when
\* the table had been seen clear, for long enough, since the last completion
\* (pipeline.py:82-86, 149-154, 181-198, 248, 263).  Nothing is said of a replayed
\* video, where the wait is off, nor of an unfinished product that [new work] gives
\* up and leaves on the table: only a completion makes the loop wait.
PassIsItsOwn ==
  \A p \in DOMAIN products :
     products[p].passed => products[p].gated /\ (require_clear => products[p].cleared)

\* On a live camera the product after a completed one is opened only once the
\* table was seen clear in ClearFrames frames in a row, over ClearTime, whatever
\* resets and orders come in between (pipeline.py:82-86, 181-198).
ClearBetweenProducts ==
  [][LET n == Len(products)
         opens == Len(products') > n
     IN  opens /\ n > 0 /\ require_clear /\ products[n].result = "COMPLETED"
           => SeenClear']_vars

\* A waiting complete() is answered by the loop itself, also when it is refused
\* there: its five seconds are not what releases it (pipeline.py:249-252).
CompleteIsAnswered ==
  \A c \in Clients : calls[c].at = "wait" ~> calls[c].at # "wait"

\* "Allowed only in a confirmed PASS": a COMPLETED product had its PASS
\* confirmed (pipeline.py:120).
CompletedWasPassed == \A p \in With("COMPLETED") : products[p].passed

\* "The work order decides the recipe": what is counted for an order was made and
\* inspected with its recipe (pipeline.py:109).
CountedHasOrderRecipe ==
  \A i \in DOMAIN results : products[results[i].product].recipe = RecipeOf[results[i].order]
=============================================================================
