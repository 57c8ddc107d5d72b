---------------------------- MODULE PipelineProofs ----------------------------
(***************************************************************************)
(* What the frame loop keeps, for any number of clients, orders, recipes   *)
(* and requests, any quantity and any waiting time.                        *)
(*                                                                         *)
(* Four invariants, each resting on those before it: the types of the      *)
(* state; what ties the current product to the store, the core and the     *)
(* wait for a clear table; as long as MesLink's database takes its writes, *)
(* the accounts: answers, results and the loop's own survival; and, on a   *)
(* live camera, that the table was clear when a gate opened.               *)
(***************************************************************************)
EXTENDS Pipeline, TLAPS

Outcomes == {"OPEN", "COMPLETED", "ABANDONED", "DISCARDED"}
Product ==
  [recipe : Recipes, gated : BOOLEAN, cleared : BOOLEAN, passed : BOOLEAN, result : Outcomes]

OrderStatus == {"NONE", "IN_PROGRESS", "COMPLETED", "CANCELLED"}
Offer == [order : Orders \union {None}, replaced_status : OrderStatus \union {None}]

Command ==
  [cmd : {"reset"}, arg : {None}] \union [cmd : {"recipe"}, arg : Recipes]
    \union [cmd : {"workorder"}, arg : Offer] \union [cmd : {"complete"}, arg : 1..MaxRequests]

Places == {"idle", "order", "pass", "put", "wait"}
Result == [order : Orders, seq : Nat, product : Nat]

\* The current product is one of the store's, or there is none.
StationTypes ==
  /\ core \in Cores
  /\ recipe \in Recipes /\ products \in Seq(Product)
  /\ product_id \in {None} \union DOMAIN products
  /\ awaiting_clear \in BOOLEAN /\ clear_count \in Nat /\ clear_age \in Nat

QueueTypes ==
  /\ commands \in Seq(Command) /\ delivered \in Seq(Offer)
  /\ work_order \in [id : Orders \union {None}, done : Nat, status : OrderStatus]
  /\ work_order.status # "NONE" => work_order.id \in Orders
  /\ calls \in [Clients -> [at : Places, id : 0..MaxRequests]]
  /\ \A c \in Clients : calls[c].at # "idle" => calls[c].id # 0
  /\ requests \in 0..MaxRequests

OtherTypes ==
  /\ require_clear \in BOOLEAN /\ mes_attached \in BOOLEAN /\ last_snapshot \in Cores
  /\ loop \in {"idle", "commands", "ended", "dead"}
  /\ stopping \in {"no", "set", "joined", "gave_up"}
  /\ boxes \subseteq [call : 1..MaxRequests, product : Nat \union {None}]
  /\ results \in Seq(Result)
  /\ quiet \in [frames : Nat, time : Nat]

Types == StationTypes /\ QueueTypes /\ OtherTypes

\* What ties the current product to the rest of the station.
Tied ==
  /\ awaiting_clear => require_clear /\ product_id = None
  /\ clear_count > 0 => awaiting_clear
  /\ product_id = None /\ ~awaiting_clear => products = <<>> /\ loop # "commands"
  /\ core.status = "PASS" => core.phase = "ASSEMBLING"
  /\ core.phase = "ASSEMBLING" => product_id # None /\ products[product_id].gated
  /\ \A p \in DOMAIN products : products[p].passed => products[p].gated

\* No product is open but the current one, and none once stop() has joined the loop.
StoreClosed ==
  /\ stopping \in {"no", "set"} =>
       \A p \in DOMAIN products : products[p].result = "OPEN" => p = product_id
  /\ stopping = "joined" =>
       /\ loop \in {"ended", "dead"}
       /\ \A p \in DOMAIN products : products[p].result # "OPEN"

StationInv == Tied /\ StoreClosed

\* While MesLink's writes succeed: the loop lives, and what it works on is open.
Working ==
  /\ loop = "dead" => stopping = "gave_up"
  /\ stopping \in {"no", "set"} /\ product_id # None => IsOpen(product_id)

\* An order is in progress until its last product; the results run through the
\* orders, each numbered from 1, and end with the order at work.
ResultsRun ==
  /\ \A i \in DOMAIN results :
        /\ results[i].seq \in 1..Quantity
        /\ results[i].seq > 1 =>
             i > 1 /\ results[i - 1].order = results[i].order /\ results[i - 1].seq = results[i].seq - 1
  /\ work_order.done > 0 =>
        results # <<>> /\ Last.order = work_order.id /\ Last.seq = work_order.done
  /\ work_order.status = "COMPLETED" <=> work_order.done = Quantity
  /\ work_order.done <= Quantity

\* A product is told of, to the MES and to a caller, once it is COMPLETED, and once.
ToldOnce ==
  /\ \A i, j \in DOMAIN results : results[i].product = results[j].product => i = j
  /\ \A i \in DOMAIN results : results[i].product \in With("COMPLETED")
  /\ \A p \in With("COMPLETED") : \E b \in boxes : b.product = p
  /\ \A b \in boxes : b.product # None => b.product \in With("COMPLETED")
  /\ \A a, b \in boxes : a.product = b.product /\ a.product # None => a = b

AccountsInv == Working /\ ResultsRun /\ ToldOnce

\* On a live camera the loop is still waiting after its last completion.
WaitsAfterCompletion ==
  require_clear /\ products # <<>> /\ products[Len(products)].result = "COMPLETED" => awaiting_clear

AtMost(bound, n) == IF n > bound THEN bound ELSE n

\* The loop counts the clear frames of its wait as they are.
WaitIsCounted ==
  awaiting_clear =>
    /\ quiet.frames = AtMost(ClearFrames + 1, clear_count)
    /\ quiet.time = AtMost(ClearTime, clear_age)

\* On a live camera the table was seen clear since the last completion, unless the
\* loop still waits for that.
ClearedSince ==
  require_clear /\ ~awaiting_clear => With("COMPLETED") = {} \/ SeenClear
-----------------------------------------------------------------------------
(* The store                                                               *)

\* Closing a product changes its result and nothing else.
LEMMA ClosedShape ==
  ASSUME products \in Seq(Product), NEW p \in DOMAIN products, NEW x \in Outcomes
  PROVE  /\ Closed(p, x) \in Seq(Product) /\ Len(Closed(p, x)) = Len(products)
         /\ DOMAIN Closed(p, x) = DOMAIN products
         /\ Closed(p, x)[p].result = x
         /\ \A q \in DOMAIN products :
               /\ q # p => Closed(p, x)[q] = products[q]
               /\ Closed(p, x)[q].gated = products[q].gated
               /\ Closed(p, x)[q].cleared = products[q].cleared
               /\ Closed(p, x)[q].passed = products[q].passed
               /\ Closed(p, x)[q].recipe = products[q].recipe
<1>1. [products[p] EXCEPT !.result = x] \in Product
  <2>1. products[p] \in Product
    OBVIOUS
  <2>2. QED BY <2>1 DEF Product
<1>2. Closed(p, x) = [products EXCEPT ![p] = [products[p] EXCEPT !.result = x]]
  BY DEF Closed
<1>3. QED BY <1>1, <1>2 DEF Product

\* Opening a product abandons what is open and adds a fresh one at the end.
LEMMA OpenedShape ==
  ASSUME NEW ps \in Seq(Product), NEW r \in Recipes
  PROVE  /\ Opened(ps, r) \in Seq(Product) /\ Len(Opened(ps, r)) = Len(ps) + 1
         /\ DOMAIN Opened(ps, r) = DOMAIN ps \union {Len(ps) + 1}
         /\ Opened(ps, r)[Len(ps) + 1] = FreshProduct(r)
         /\ \A q \in DOMAIN ps :
               /\ Opened(ps, r)[q].result = IF ps[q].result = "OPEN" THEN "ABANDONED" ELSE ps[q].result
               /\ Opened(ps, r)[q].gated = ps[q].gated
               /\ Opened(ps, r)[q].cleared = ps[q].cleared
               /\ Opened(ps, r)[q].passed = ps[q].passed
               /\ Opened(ps, r)[q].recipe = ps[q].recipe
<1> DEFINE qs == [i \in DOMAIN ps |-> IF ps[i].result = "OPEN" THEN [ps[i] EXCEPT !.result = "ABANDONED"]
                                                              ELSE ps[i]]
<1>1. ASSUME NEW i \in DOMAIN ps
      PROVE  /\ qs[i] \in Product
             /\ qs[i].result = IF ps[i].result = "OPEN" THEN "ABANDONED" ELSE ps[i].result
             /\ qs[i].gated = ps[i].gated /\ qs[i].cleared = ps[i].cleared /\ qs[i].passed = ps[i].passed /\ qs[i].recipe = ps[i].recipe
  <2>1. ps[i] \in Product
    OBVIOUS
  <2>2. QED BY <2>1 DEF Product, Outcomes
<1>2. qs \in Seq(Product) /\ Len(qs) = Len(ps)
  <2>1. DOMAIN ps = 1..Len(ps) /\ Len(ps) \in Nat
    OBVIOUS
  <2> HIDE DEF qs
  <2>2. DOMAIN qs = 1..Len(ps)
    BY <2>1 DEF qs
  <2>3. qs \in [1..Len(ps) -> Product]
    BY <1>1, <2>1, <2>2 DEF qs
  <2>4. QED BY <2>1, <2>3
<1>3. FreshProduct(r) \in Product
  BY DEF FreshProduct, Product, Outcomes
<1>4. Opened(ps, r) = Append(qs, FreshProduct(r))
  BY DEF Opened
<1> HIDE DEF qs
<1>5. QED BY <1>1, <1>2, <1>3, <1>4

\* A snapshot may mark the product it is recorded for as gated, cleared or passed.
LEMMA RecordedShape ==
  ASSUME NEW ps \in Seq(Product), NEW p \in {None} \union DOMAIN ps, NEW k \in Cores, NEW e \in BOOLEAN
  PROVE  /\ Recorded(ps, p, k, e) \in Seq(Product) /\ Len(Recorded(ps, p, k, e)) = Len(ps)
         /\ DOMAIN Recorded(ps, p, k, e) = DOMAIN ps
         /\ \A q \in DOMAIN ps :
               /\ q # p => Recorded(ps, p, k, e)[q] = ps[q]
               /\ Recorded(ps, p, k, e)[q].result = ps[q].result
               /\ Recorded(ps, p, k, e)[q].recipe = ps[q].recipe
         /\ p # None =>
               /\ Recorded(ps, p, k, e)[p].gated = (ps[p].gated \/ GateOpens(k))
               /\ Recorded(ps, p, k, e)[p].cleared
                     = (ps[p].cleared \/ (~ps[p].gated /\ GateOpens(k) /\ e))
               /\ Recorded(ps, p, k, e)[p].passed = (ps[p].passed \/ (k.status = "PASS" /\ k.stable))
<1>1. CASE p = None
  BY <1>1, PipelineAssumption DEF Recorded
<1>2. CASE p # None
  <2> DEFINE g == ps[p].gated \/ GateOpens(k)
             c == ps[p].cleared \/ (~ps[p].gated /\ GateOpens(k) /\ e)
             d == ps[p].passed \/ (k.status = "PASS" /\ k.stable)
             row == [[[ps[p] EXCEPT !.gated = g] EXCEPT !.cleared = c] EXCEPT !.passed = d]
  <2>1. p \in DOMAIN ps /\ ps[p] \in Product
    BY <1>2
  <2>2. g \in BOOLEAN /\ c \in BOOLEAN /\ d \in BOOLEAN
    BY <2>1 DEF Product, Cores, GateOpens
  <2>3. Recorded(ps, p, k, e) = [ps EXCEPT ![p] = row]
    BY <1>2, <2>1 DEF Recorded, Product
  <2> HIDE DEF g, c, d
  <2>4. row \in Product /\ row.gated = g /\ row.cleared = c /\ row.passed = d
        /\ row.result = ps[p].result /\ row.recipe = ps[p].recipe
    BY <2>1, <2>2 DEF Product
  <2> HIDE DEF row
  <2>5. QED BY <1>2, <2>1, <2>3, <2>4 DEF g, c, d
<1>3. QED BY <1>1, <1>2

\* Whether a finished product may be on the table is one or the other.
LEMMA LeftOrNot == NothingLeft \in BOOLEAN
BY DEF NothingLeft, SeenClear

\* What a frame makes of the core: the gate opens only on READY, and PASS is
\* reached only behind it.
LEMMA AfterShape ==
  ASSUME NEW k \in Cores, NEW s \in Showing(k.phase) \union {"HOLD"}, NEW j \in After(k, s)
  PROVE  /\ j \in Cores
         /\ j.phase = "ASSEMBLING" =>
               k.phase = "ASSEMBLING" \/ (s = "READY" /\ k.watching /\ j.status = "HOLD" /\ j.stable)
         /\ j.status = "PASS" => j.phase = "ASSEMBLING" \/ k.status = "PASS"
         /\ k.phase = "ASSEMBLING" => j.phase = "ASSEMBLING"
<1>1. CASE j = Lost(k)
  BY <1>1 DEF Lost, Cores
<1>2. CASE s # "HOLD" /\ j = Unsettled(k)
  BY <1>2 DEF Unsettled, Cores
<1>3. CASE s # "HOLD" /\ k.watching /\ j = Settled(k, s) /\ s = "READY"
  BY <1>3 DEF Settled, Cores
<1>4. CASE s # "HOLD" /\ k.watching /\ j = Settled(k, s) /\ s # "READY"
  <2>1. j = [phase |-> k.phase, status |-> s, stable |-> TRUE, watching |-> TRUE]
    BY <1>4 DEF Settled
  <2>2. s \in Deviations \/ (s = "PASS" /\ k.phase = "ASSEMBLING")
    BY <1>4 DEF Showing, Cores
  <2>3. "PASS" \notin Deviations
    BY PipelineAssumption
  <2>4. QED BY <2>1, <2>2, <2>3 DEF Cores
<1>5. j = Lost(k) \/ (s # "HOLD" /\ (j = Unsettled(k) \/ (k.watching /\ j = Settled(k, s))))
  BY DEF After
<1>6. QED BY <1>1, <1>2, <1>3, <1>4, <1>5

-----------------------------------------------------------------------------
(* Steps of the loop                                                       *)

\* The next command is one of the commands the station knows.
LEMMA CommandTaken ==
  ASSUME Types, NEW c, NextCommand(c)
  PROVE  /\ loop = "commands" /\ commands' \in Seq(Command)
         /\ Head(commands) \in Command /\ Head(commands).cmd = c
BY DEF Types, QueueTypes, NextCommand

\* Starting over gives the core a blank state, and either a new product or none.
LEMMA StartOverShape ==
  ASSUME NEW ps \in Seq(Product), NEW r \in Recipes, StartOver(ps, r), awaiting_clear' \in BOOLEAN
  PROVE  /\ recipe' = r /\ core' = Blank /\ loop' = loop
         /\ \/ awaiting_clear' /\ product_id' = None /\ products' = ps
            \/ ~awaiting_clear' /\ product_id' = Len(ps) + 1 /\ products' = Opened(ps, r)
         /\ products' \in Seq(Product) /\ product_id' \in {None} \union DOMAIN products'
<1>1. /\ recipe' = r /\ core' = Blank /\ loop' = loop
      /\ \/ awaiting_clear' /\ product_id' = None /\ products' = ps
         \/ ~awaiting_clear' /\ product_id' = Len(ps) + 1 /\ products' = Opened(ps, r)
  BY DEF StartOver, Restart, NewProduct
<1>2. Opened(ps, r) \in Seq(Product) /\ Len(ps) + 1 \in DOMAIN Opened(ps, r)
  BY OpenedShape
<1>3. QED BY <1>1, <1>2

\* The current product is closed or discarded, if it is open, and the station starts over.
StartsOver ==
  \E r \in Recipes :
    \/ ~IsOpen(product_id) /\ StartOver(products, r)
    \/ \E x \in {"ABANDONED", "DISCARDED"} :
         IsOpen(product_id) /\ StartOver(Closed(product_id, x), r)

Raises == product_id # None /\ ~IsOpen(product_id) /\ Raise

\* A reset, a recipe and a work order do the same to the station.
LEMMA ReplacingStep ==
  ASSUME Types, ApplyRecipe \/ ApplyReset \/ ApplyWorkOrder
  PROVE  /\ loop = "commands" /\ commands' \in Seq(Command)
         /\ StartsOver \/ Raises
         /\ UNCHANGED <<awaiting_clear, clear_count, clear_age, settings, last_snapshot, stopping,
                        mes, web, boxes, results, quiet>>
<1>1. ASSUME NEW r \in Recipes, AbandonAndStartOver(r)
      PROVE  (StartsOver \/ Raises) /\ UNCHANGED <<awaiting_clear, clear_count, clear_age>>
  <2>1. CASE product_id # None /\ ~IsOpen(product_id)
    BY <1>1, <2>1 DEF AbandonAndStartOver, Raises, Raise, station
  <2>2. CASE product_id = None
    BY <1>1, <2>2 DEF AbandonAndStartOver, StartsOver, IsOpen
  <2>3. CASE product_id # None /\ IsOpen(product_id)
    BY <1>1, <2>3 DEF AbandonAndStartOver, StartsOver
  <2>4. QED BY <2>1, <2>2, <2>3
<1>2. CASE ApplyRecipe
  <2>1. NextCommand("recipe") /\ AbandonAndStartOver(Arg)
    BY <1>2 DEF ApplyRecipe
  <2>2. Arg \in Recipes
    BY <2>1, CommandTaken DEF Command, Arg
  <2>3. QED BY <1>1, <1>2, <2>1, <2>2, CommandTaken DEF ApplyRecipe
<1>3. CASE ApplyReset
  <2>1. recipe \in Recipes
    BY DEF Types, StationTypes
  <2>2. QED BY <1>1, <1>3, <2>1, CommandTaken DEF ApplyReset
<1>4. CASE ApplyWorkOrder
  <2>1. NextCommand("workorder")
    BY <1>4 DEF ApplyWorkOrder
  <2>2. Arg \in Offer /\ recipe \in Recipes
    BY <2>1, CommandTaken DEF Command, Arg, Types, StationTypes
  <2>3. Arg.order # None => RecipeOf[Arg.order] \in Recipes
    BY <2>2, PipelineAssumption DEF Offer
  <2>4. CASE Arg.order # None /\ Arg.replaced_status # "IN_PROGRESS"
    <3>1. StartOver(Discarded(product_id), RecipeOf[Arg.order])
          /\ UNCHANGED <<awaiting_clear, clear_count, clear_age>>
      BY <1>4, <2>4 DEF ApplyWorkOrder
    <3>2. StartsOver
      <4>1. CASE IsOpen(product_id)
        BY <2>3, <2>4, <3>1, <4>1 DEF StartsOver, Discarded
      <4>2. CASE ~IsOpen(product_id)
        BY <2>3, <2>4, <3>1, <4>2 DEF StartsOver, Discarded
      <4>3. QED BY <4>1, <4>2
    <3>3. QED BY <1>4, <2>1, <3>1, <3>2, CommandTaken DEF ApplyWorkOrder
  <2>5. CASE ~(Arg.order # None /\ Arg.replaced_status # "IN_PROGRESS")
    <3>1. AbandonAndStartOver(IF Arg.order = None THEN recipe ELSE RecipeOf[Arg.order])
      BY <1>4, <2>5 DEF ApplyWorkOrder
    <3>2. (StartsOver \/ Raises) /\ UNCHANGED <<awaiting_clear, clear_count, clear_age>>
      BY <1>1, <2>2, <2>3, <3>1
    <3>3. QED BY <1>4, <2>1, <3>2, CommandTaken DEF ApplyWorkOrder
  <2>6. QED BY <2>4, <2>5
<1>5. QED BY <1>2, <1>3, <1>4

\* The command of a complete() holds the id of its call.
LEMMA CompleteTaken ==
  ASSUME Types, ApplyComplete
  PROVE  /\ loop = "commands" /\ commands' \in Seq(Command) /\ Arg \in 1..MaxRequests
BY CommandTaken DEF ApplyComplete, Command, Arg

\* How long the table has been clear, on a clear frame d after the last.
Age(d) == IF clear_count = 0 THEN 0 ELSE clear_age + d

\* What a frame may show the core.
LEMMA FrameShape ==
  ASSUME Types, JudgeFrame \/ (\E clear \in BOOLEAN, d \in 1..ClearTime : JudgeWhileWaiting(clear, Age(d)))
  PROVE  \E s \in Showing(core.phase) \union {"HOLD"} :
           core' \in After(core, s) /\ (awaiting_clear => s # "READY")
<1>1. CASE JudgeFrame
  BY <1>1 DEF JudgeFrame, Frame
<1>2. CASE \E clear \in BOOLEAN, d \in 1..ClearTime : JudgeWhileWaiting(clear, Age(d))
  <2>1. "IN_PROGRESS" \in Showing(core.phase)
    BY PipelineAssumption DEF Showing
  <2>2. QED BY <1>2, <2>1 DEF JudgeWhileWaiting, Frame
<1>3. QED BY <1>1, <1>2

\* The three outcomes of the end of a frame.
LEMMA EndOfFrame ==
  ASSUME EndFrame
  PROVE  /\ loop = "commands" /\ loop' = "idle"
         /\ UNCHANGED <<settings, recipe, commands, stopping, mes, web, boxes, results>>
         /\ \/ JudgeFrame
            \/ \E clear \in BOOLEAN, d \in 1..ClearTime :
                 /\ Look(clear, d)
                 /\ JudgeWhileWaiting(clear, Age(d)) \/ JudgeCleared(clear, Age(d))
BY DEF EndFrame, Age

-----------------------------------------------------------------------------
(* Types                                                                   *)

\* The initial state is well typed.
LEMMA InitTypes == PipelineInit => Types
<1> SUFFICES ASSUME PipelineInit PROVE Types
  OBVIOUS
<1> USE PipelineAssumption DEF PipelineInit
<1>1. Blank \in Cores
  BY DEF Blank, Cores
<1>2. StationTypes
  <2>1. products \in Seq(Product)
    OBVIOUS
  <2>2. awaiting_clear \in BOOLEAN
    OBVIOUS
  <2>3. QED BY <1>1, <2>1, <2>2 DEF StationTypes
<1>3. QueueTypes
  <2>1. NoOrder \in [id : Orders \union {None}, done : Nat, status : OrderStatus] /\ NoOrder.status = "NONE"
    BY DEF NoOrder, OrderStatus
  <2>2. calls \in [Clients -> [at : Places, id : 0..MaxRequests]] /\ \A c \in Clients : calls[c].at = "idle"
    BY DEF Idle, Places
  <2>3. requests \in 0..MaxRequests /\ commands \in Seq(Command) /\ delivered \in Seq(Offer)
    OBVIOUS
  <2>4. QED BY <2>1, <2>2, <2>3 DEF QueueTypes
<1>4. OtherTypes
  BY <1>1 DEF OtherTypes
<1>5. QED BY <1>2, <1>3, <1>4 DEF Types

\* Offers and cancellations of orders are well typed.
LEMMA MesStepTypes ==
  ASSUME Types, MesStep
  PROVE  Types'
<1> USE DEF Types
<1>1. ASSUME NEW o \in Orders, AcceptOrder(o) PROVE Types'
  <2>1. /\ work_order' = [id |-> o, done |-> 0, status |-> "IN_PROGRESS"]
        /\ delivered' = <<[order |-> o, replaced_status |-> work_order.status]>>
        /\ requests' \in 0..MaxRequests
    BY <1>1, PipelineAssumption DEF AcceptOrder, QueueTypes
  <2>2. delivered' \in Seq(Offer)
    BY <2>1 DEF QueueTypes, Offer
  <2>3. QueueTypes'
    BY <1>1, <2>1, <2>2 DEF QueueTypes, AcceptOrder, OrderStatus
  <2>4. QED BY <1>1, <2>3 DEF AcceptOrder, StationTypes, OtherTypes, station, settings
<1>2. CASE CancelOrder
  <2>1. /\ work_order' = [work_order EXCEPT !.status = "CANCELLED"]
        /\ delivered' = <<[order |-> None, replaced_status |-> None]>>
        /\ requests' \in 0..MaxRequests
    BY <1>2, PipelineAssumption DEF CancelOrder, QueueTypes
  <2>2. delivered' \in Seq(Offer)
    BY <2>1 DEF Offer
  <2>3. QueueTypes'
    BY <1>2, <2>1, <2>2 DEF QueueTypes, CancelOrder, OrderStatus, Active
  <2>4. QED BY <1>2, <2>3 DEF CancelOrder, StationTypes, OtherTypes, station, settings
<1>3. CASE PutWorkOrder
  <2>1. Head(delivered) \in Offer
    BY <1>3 DEF PutWorkOrder, QueueTypes
  <2>2. commands' \in Seq(Command) /\ delivered' \in Seq(Offer)
    BY <1>3, <2>1 DEF PutWorkOrder, QueueTypes, Command
  <2>3. QED BY <1>3, <2>2 DEF PutWorkOrder, QueueTypes, StationTypes, OtherTypes, station, settings, web
<1>4. QED BY <1>1, <1>2, <1>3 DEF MesStep

\* A call of complete() goes from one place to the next.
LEMMA CallMoves ==
  ASSUME Types, NEW c \in Clients, NEW k \in [at : Places, id : 0..MaxRequests],
         k.at # "idle" => k.id # 0,
         calls' = [calls EXCEPT ![c] = k], requests' \in 0..MaxRequests, commands' \in Seq(Command),
         UNCHANGED <<core, settings, station, last_snapshot, loop, stopping, products,
                     mes, boxes, results, quiet>>
  PROVE  Types'
<1>1. calls' \in [Clients -> [at : Places, id : 0..MaxRequests]]
  BY DEF Types, QueueTypes
<1>2. \A d \in Clients : calls'[d].at # "idle" => calls'[d].id # 0
  BY DEF Types, QueueTypes
<1>3. QED BY <1>1, <1>2 DEF Types, QueueTypes, StationTypes, OtherTypes, mes, station, settings

\* The steps of the web threads are well typed.
LEMMA WebStepTypes ==
  ASSUME Types, WebStep
  PROVE  Types'
<1> DEFINE Call == [at : Places, id : 0..MaxRequests]
<1>1. /\ requests \in 0..MaxRequests /\ commands \in Seq(Command)
      /\ Idle \in Call /\ Idle.at = "idle"
  BY PipelineAssumption DEF Types, QueueTypes, Idle, Places
<1>2. ASSUME NEW c \in Clients
      PROVE  calls[c] \in Call /\ (calls[c].at # "idle" => calls[c].id # 0)
  BY DEF Types, QueueTypes
<1>3. ASSUME NEW c \in Clients, NEW p \in Places, calls[c].at # "idle"
      PROVE  [calls[c] EXCEPT !.at = p] \in Call /\ [calls[c] EXCEPT !.at = p].id # 0
  BY <1>2, <1>3
<1>4. ASSUME NEW c \in Clients, CheckClear(c) PROVE Types'
  <2> DEFINE k == [at |-> "order", id |-> requests + 1]
  <2>1. k \in Call /\ k.id # 0 /\ requests' \in 0..MaxRequests
    BY <1>1, <1>4, PipelineAssumption DEF CheckClear, Places
  <2> HIDE DEF k
  <2>2. calls' = [calls EXCEPT ![c] = k]
    BY <1>4 DEF CheckClear, k
  <2>3. QED BY <1>1, <1>4, <2>1, <2>2, CallMoves DEF CheckClear
<1>5. ASSUME NEW c \in Clients, CheckOrder(c) \/ CheckPass(c) PROVE Types'
  <2>1. calls[c].at # "idle"
    BY <1>5 DEF CheckOrder, CheckPass
  <2>2. PICK k \in Call : /\ k.at # "idle" => k.id # 0
                          /\ calls' = [calls EXCEPT ![c] = k]
    <3>1. CASE calls' = [calls EXCEPT ![c] = Idle]
      BY <1>1, <3>1
    <3>2. CASE \E p \in Places : calls' = [calls EXCEPT ![c] = [calls[c] EXCEPT !.at = p]]
      BY <1>3, <2>1, <3>2
    <3>3. CASE CheckOrder(c)
      <4>1. CASE mes_attached /\ ~Active
        BY <3>1, <3>3, <4>1 DEF CheckOrder
      <4>2. CASE ~(mes_attached /\ ~Active)
        <5>1. calls' = [calls EXCEPT ![c] = [calls[c] EXCEPT !.at = "pass"]]
          BY <3>3, <4>2 DEF CheckOrder, Types, QueueTypes
        <5>2. QED BY <3>2, <5>1 DEF Places
      <4>3. QED BY <4>1, <4>2
    <3>4. CASE CheckPass(c)
      <4>1. CASE ~PassShown
        BY <3>1, <3>4, <4>1 DEF CheckPass
      <4>2. CASE PassShown
        <5>1. calls' = [calls EXCEPT ![c] = [calls[c] EXCEPT !.at = "put"]]
          BY <3>4, <4>2 DEF CheckPass, Types, QueueTypes
        <5>2. QED BY <3>2, <5>1 DEF Places
      <4>3. QED BY <4>1, <4>2
    <3>5. QED BY <1>5, <3>3, <3>4
  <2>3. QED BY <1>1, <1>5, <2>2, CallMoves DEF CheckOrder, CheckPass
<1>6. ASSUME NEW c \in Clients, PutComplete(c) PROVE Types'
  <2>1. calls[c].at # "idle" /\ calls[c].id \in 1..MaxRequests
    BY <1>2, <1>6, PipelineAssumption DEF PutComplete
  <2>2. [cmd |-> "complete", arg |-> calls[c].id] \in Command
    BY <2>1 DEF Command
  <2>3. commands' \in Seq(Command)
    BY <1>1, <1>6, <2>2 DEF PutComplete
  <2>4. calls' = [calls EXCEPT ![c] = [calls[c] EXCEPT !.at = "wait"]]
    BY <1>6 DEF PutComplete, Types, QueueTypes
  <2>5. requests' \in 0..MaxRequests
    BY <1>1, <1>6 DEF PutComplete
  <2>6. PICK k \in Call : k.id # 0 /\ calls' = [calls EXCEPT ![c] = k]
    BY <1>3, <2>1, <2>4 DEF Places
  <2>7. QED BY <1>6, <2>3, <2>5, <2>6, CallMoves DEF PutComplete
<1>7. ASSUME NEW c \in Clients, ReturnAnswer(c) \/ TimeOut(c) PROVE Types'
  BY <1>1, <1>7, CallMoves DEF ReturnAnswer, TimeOut
<1>8. ASSUME NEW m \in Command, Request(m) PROVE Types'
  <2>1. commands' \in Seq(Command) /\ requests' \in 0..MaxRequests
    BY <1>1, <1>8, PipelineAssumption DEF Request
  <2>2. QED BY <1>8, <2>1 DEF Request, Types, QueueTypes, StationTypes, OtherTypes, mes, station, settings
<1>9. CASE RequestReset
  BY <1>8, <1>9 DEF RequestReset, Command
<1>10. ASSUME NEW r \in Recipes, SelectRecipe(r) PROVE Types'
  BY <1>8, <1>10 DEF SelectRecipe, Command
<1>11. QED BY <1>4, <1>5, <1>6, <1>7, <1>9, <1>10 DEF WebStep

\* A product opened, if the table is clear, leaves the station well typed.
LEMMA NewProductTypes ==
  ASSUME Types, loop = "idle", TakeFrame
  PROVE  Types'
<1>1. CASE UNCHANGED <<product_id, products>>
  BY <1>1 DEF TakeFrame, Types, StationTypes, QueueTypes, OtherTypes, settings, mes, web
<1>2. CASE ~awaiting_clear /\ product_id' = Len(products) + 1 /\ products' = Opened(products, recipe)
  <2>1. products' \in Seq(Product) /\ product_id' \in DOMAIN products'
    BY <1>2, OpenedShape DEF Types, StationTypes
  <2>2. QED BY <1>2, <2>1 DEF TakeFrame, Types, StationTypes, QueueTypes, OtherTypes, settings, mes, web
<1>3. QED BY <1>1, <1>2 DEF TakeFrame, NewProduct

\* So does starting over, and so does a command that cannot be obeyed.
LEMMA ReplacingTypes ==
  ASSUME Types, ApplyRecipe \/ ApplyReset \/ ApplyWorkOrder
  PROVE  Types'
<1>1. /\ commands' \in Seq(Command)
      /\ StartsOver \/ Raises
      /\ UNCHANGED <<awaiting_clear, clear_count, clear_age, settings, last_snapshot, stopping,
                     mes, web, boxes, results, quiet>>
  BY ReplacingStep
<1>2. QueueTypes'
  BY <1>1 DEF Types, QueueTypes, mes, web
<1>3. CASE StartsOver
  <2>1. PICK r \in Recipes, ps \in Seq(Product) : StartOver(ps, r)
    <3>1. ASSUME NEW x \in Outcomes, IsOpen(product_id) PROVE Closed(product_id, x) \in Seq(Product)
      BY <3>1, ClosedShape DEF IsOpen, Types, StationTypes
    <3>2. QED BY <1>3, <3>1 DEF StartsOver, Types, StationTypes, Outcomes
  <2>2. awaiting_clear' \in BOOLEAN /\ Blank \in Cores
    BY <1>1 DEF Types, StationTypes, Blank, Cores
  <2>3. /\ recipe' \in Recipes /\ core' \in Cores /\ loop' = loop
        /\ products' \in Seq(Product) /\ product_id' \in {None} \union DOMAIN products'
    BY <2>1, <2>2, StartOverShape
  <2>4. QED BY <1>1, <1>2, <2>3 DEF Types, StationTypes, OtherTypes, settings
<1>4. CASE Raises
  BY <1>1, <1>2, <1>4 DEF Raises, Raise, Types, StationTypes, OtherTypes, settings, station
<1>5. QED BY <1>1, <1>3, <1>4

\* What counting a product does to the order and to the results.
LEMMA CountedTypes ==
  ASSUME Types, NEW p \in Nat, ProductCompleted(p) \/ ProductCompletedFails(p)
  PROVE  /\ work_order' \in [id : Orders \union {None}, done : Nat, status : OrderStatus]
         /\ work_order'.status # "NONE" => work_order'.id \in Orders
         /\ results' \in Seq(Result)
<1> DEFINE Order == [id : Orders \union {None}, done : Nat, status : OrderStatus]
<1>1. /\ work_order \in Order /\ results \in Seq(Result)
      /\ work_order.status # "NONE" => work_order.id \in Orders
  BY DEF Types, QueueTypes, OtherTypes
<1>2. ASSUME NEW s \in OrderStatus, s # "NONE", Active,
             work_order' = [work_order EXCEPT !.done = work_order.done + 1, !.status = s]
      PROVE  /\ work_order' \in Order /\ work_order'.status # "NONE"
             /\ work_order'.id \in Orders
  <2>1. work_order.done + 1 \in Nat /\ work_order.id \in Orders
    BY <1>1, <1>2 DEF Active
  <2>2. QED BY <1>1, <1>2, <2>1
<1>3. CASE UNCHANGED <<work_order, results>>
  BY <1>1, <1>3
<1>4. CASE Active /\ work_order' = [work_order EXCEPT !.done = @ + 1] /\ UNCHANGED results
  <2>1. work_order' = [work_order EXCEPT !.done = work_order.done + 1, !.status = "IN_PROGRESS"]
    BY <1>1, <1>4 DEF Active
  <2>2. QED BY <1>1, <1>2, <1>4, <2>1 DEF OrderStatus
<1>5. CASE /\ Active /\ work_order' = Counted(work_order)
           /\ results' = Append(results, [order |-> work_order.id, seq |-> work_order.done + 1, product |-> p])
  <2>1. [order |-> work_order.id, seq |-> work_order.done + 1, product |-> p] \in Result
    BY <1>1, <1>5 DEF Active, Result
  <2>2. results' \in Seq(Result)
    BY <1>1, <1>5, <2>1
  <2>3. \E s \in OrderStatus \ {"NONE"} :
          work_order' = [work_order EXCEPT !.done = work_order.done + 1, !.status = s]
    <3>1. CASE work_order.done + 1 >= Quantity
      BY <1>1, <1>5, <3>1 DEF Counted, OrderStatus
    <3>2. CASE ~(work_order.done + 1 >= Quantity)
      BY <1>1, <1>5, <3>2 DEF Counted, OrderStatus, Active
    <3>3. QED BY <3>1, <3>2
  <2>4. QED BY <1>2, <1>5, <2>2, <2>3
<1>6. QED BY <1>3, <1>4, <1>5 DEF ProductCompleted, ProductCompletedFails

\* A completion, successful or not, leaves everything well typed.
LEMMA CompleteTypes ==
  ASSUME Types, ApplyComplete
  PROVE  Types'
<1>1. commands' \in Seq(Command) /\ Arg \in 1..MaxRequests
  BY CompleteTaken
<1>2. UNCHANGED <<settings, last_snapshot, stopping, delivered, web>>
  BY DEF ApplyComplete
<1>3. ASSUME NEW p \in Nat \union {None}, Answer(p)
      PROVE  boxes' \subseteq [call : 1..MaxRequests, product : Nat \union {None}]
  <2>1. [call |-> Arg, product |-> p] \in [call : 1..MaxRequests, product : Nat \union {None}]
    BY <1>1, <1>3
  <2>2. QED BY <1>3, <2>1 DEF Answer, Types, OtherTypes
<1>4. ASSUME IsOpen(product_id)
      PROVE  /\ product_id \in Nat /\ product_id \in DOMAIN products
             /\ Closed(product_id, "COMPLETED") \in Seq(Product)
             /\ product_id \in DOMAIN Closed(product_id, "COMPLETED")
  <2>1. product_id \in DOMAIN products
    BY <1>4 DEF IsOpen, Types, StationTypes
  <2>2. products \in Seq(Product) /\ "COMPLETED" \in Outcomes
    BY DEF Types, StationTypes, Outcomes
  <2>3. product_id \in Nat
    <3>1. DOMAIN products = 1..Len(products)
      BY <2>2
    <3>2. QED BY <2>1, <3>1
  <2>4. QED BY <2>1, <2>2, <2>3, ClosedShape
<1>5. CASE CompleteSucceeds
  <2>1. /\ StartOver(Closed(product_id, "COMPLETED"), recipe)
        /\ awaiting_clear' \in BOOLEAN
        /\ clear_count' \in Nat /\ clear_age' \in Nat
        /\ quiet' \in [frames : Nat, time : Nat]
        /\ recipe \in Recipes /\ Blank \in Cores
    BY <1>5 DEF CompleteSucceeds, Types, StationTypes, OtherTypes, Blank, Cores
  <2>2. /\ recipe' \in Recipes /\ core' \in Cores /\ loop' = loop
        /\ products' \in Seq(Product) /\ product_id' \in {None} \union DOMAIN products'
    BY <1>4, <1>5, <2>1, StartOverShape DEF CompleteSucceeds
  <2>3. ProductCompleted(product_id) /\ Answer(product_id) /\ IsOpen(product_id)
    BY <1>5 DEF CompleteSucceeds
  <2>4. QueueTypes'
    BY <1>1, <1>2, <1>4, <2>3, CountedTypes DEF Types, QueueTypes, web
  <2>5. OtherTypes'
    BY <1>2, <1>3, <1>4, <2>1, <2>2, <2>3, CountedTypes DEF Types, OtherTypes, settings
  <2>6. QED BY <2>1, <2>2, <2>4, <2>5 DEF Types, StationTypes
<1>6. CASE CompleteRefused
  BY <1>1, <1>2, <1>3, <1>6
     DEF CompleteRefused, Types, StationTypes, QueueTypes, OtherTypes, station, settings, web
<1>7. CASE CompleteFails
  <2>1. /\ IsOpen(product_id) /\ ProductCompletedFails(product_id) /\ Answer(None)
        /\ products' = Closed(product_id, "COMPLETED") /\ UNCHANGED <<core, station, loop>>
        /\ quiet' \in [frames : Nat, time : Nat]
    BY <1>7 DEF CompleteFails
  <2>2. StationTypes'
    <3>1. products' \in Seq(Product) /\ product_id' \in DOMAIN products'
      BY <1>4, <2>1 DEF station
    <3>2. QED BY <2>1, <3>1 DEF Types, StationTypes, station
  <2>3. QueueTypes'
    BY <1>1, <1>2, <1>4, <2>1, CountedTypes DEF Types, QueueTypes, web
  <2>4. OtherTypes'
    BY <1>2, <1>3, <1>4, <2>1, CountedTypes DEF Types, OtherTypes, settings
  <2>5. QED BY <2>2, <2>3, <2>4 DEF Types
<1>8. QED BY <1>5, <1>6, <1>7 DEF ApplyComplete

\* The end of a frame leaves everything well typed.
LEMMA EndFrameTypes ==
  ASSUME Types, EndFrame
  PROVE  Types'
<1>1. /\ loop' = "idle"
      /\ UNCHANGED <<settings, recipe, commands, stopping, mes, web, boxes, results>>
  BY EndOfFrame
<1>2. QueueTypes'
  BY <1>1 DEF Types, QueueTypes, mes, web
<1>3. ASSUME products' \in Seq(Product), product_id' \in {None} \union DOMAIN products',
             core' \in Cores, last_snapshot' = core', awaiting_clear' \in BOOLEAN,
             clear_count' \in Nat, clear_age' \in Nat, quiet' \in [frames : Nat, time : Nat]
      PROVE  Types'
  BY <1>1, <1>2, <1>3 DEF Types, StationTypes, OtherTypes, settings
<1>4. ASSUME NEW ps \in Seq(Product), core' \in Cores, product_id' \in {None} \union DOMAIN ps, Publish(ps)
      PROVE  /\ products' \in Seq(Product) /\ product_id' \in {None} \union DOMAIN products'
             /\ last_snapshot' = core'
  BY <1>4, RecordedShape, LeftOrNot DEF Publish
<1>5. ASSUME NEW clear \in BOOLEAN, NEW d \in 1..ClearTime, Look(clear, d)
      PROVE  quiet' \in [frames : Nat, time : Nat]
  <2> DEFINE Upto(bound, n) == IF n > bound THEN bound ELSE n
  <2>1. /\ quiet.frames \in Nat /\ quiet.time \in Nat /\ d \in Nat
        /\ ClearFrames \in Nat /\ ClearTime \in Nat
    BY PipelineAssumption DEF Types, OtherTypes
  <2>2. /\ Upto(ClearFrames + 1, quiet.frames + 1) \in Nat
        /\ Upto(ClearTime, quiet.time + d) \in Nat
    BY <2>1
  <2>3. QED BY <1>5, <2>2 DEF Look
<1>6. CASE JudgeFrame
  <2>1. core' \in Cores
    BY <1>6, FrameShape, AfterShape DEF Types, StationTypes
  <2>2. QED BY <1>3, <1>4, <1>6, <2>1 DEF JudgeFrame, Types, StationTypes, OtherTypes
<1>7. ASSUME NEW clear \in BOOLEAN, NEW d \in 1..ClearTime, Look(clear, d),
             JudgeWhileWaiting(clear, Age(d)) \/ JudgeCleared(clear, Age(d))
      PROVE  Types'
  <2>1. Age(d) \in Nat
    BY <1>7, PipelineAssumption DEF Types, StationTypes, Age
  <2>2. CASE JudgeWhileWaiting(clear, Age(d))
    <3>1. core' \in Cores
      BY <2>2, FrameShape, AfterShape DEF Types, StationTypes
    <3>2. clear_count' \in Nat /\ clear_age' \in Nat /\ UNCHANGED <<product_id, awaiting_clear>> /\ Publish(products)
      BY <2>1, <2>2 DEF JudgeWhileWaiting, Types, StationTypes
    <3>3. QED BY <1>3, <1>4, <1>5, <1>7, <3>1, <3>2 DEF Types, StationTypes
  <2>3. CASE JudgeCleared(clear, Age(d))
    <3>1. Blank \in Cores /\ Blank.phase = "CHECK_MATERIALS"
      BY DEF Blank, Cores
    <3>2. core' \in Cores
      BY <2>3, <3>1, AfterShape DEF JudgeCleared
    <3>3. /\ Opened(products, recipe) \in Seq(Product)
          /\ product_id' \in DOMAIN Opened(products, recipe)
      BY <2>3, OpenedShape DEF JudgeCleared, Types, StationTypes
    <3>4. /\ awaiting_clear' = FALSE /\ clear_count' = 0 /\ clear_age' = 0
          /\ Publish(Opened(products, recipe))
      BY <2>3 DEF JudgeCleared
    <3>5. QED BY <1>3, <1>4, <1>5, <1>7, <3>2, <3>3, <3>4
  <2>4. QED BY <1>7, <2>2, <2>3
<1>8. CASE ~JudgeFrame
  <2>1. PICK clear \in BOOLEAN, d \in 1..ClearTime :
          Look(clear, d) /\ (JudgeWhileWaiting(clear, Age(d)) \/ JudgeCleared(clear, Age(d)))
    BY <1>8, EndOfFrame
  <2>2. QED BY <1>7, <2>1
<1>9. QED BY <1>6, <1>8

\* The end of the loop and of the station leave everything well typed.
LEMMA StopTypes ==
  ASSUME Types, EndLoop \/ RequestStop \/ FinishStop
  PROVE  Types'
<1>1. CASE EndLoop
  BY <1>1 DEF EndLoop, Types, StationTypes, QueueTypes, OtherTypes, station, settings, mes, web
<1>2. CASE RequestStop
  BY <1>2 DEF RequestStop, Types, StationTypes, QueueTypes, OtherTypes, station, settings, mes, web
<1>3. CASE FinishStop
  <2>1. products' \in Seq(Product) /\ DOMAIN products' = DOMAIN products
    <3>1. CASE IsOpen(product_id)
      <4>1. product_id \in DOMAIN products /\ products \in Seq(Product) /\ "ABANDONED" \in Outcomes
        BY <3>1 DEF IsOpen, Types, StationTypes, Outcomes
      <4>2. products' = Closed(product_id, "ABANDONED")
        BY <1>3, <3>1 DEF FinishStop
      <4>3. QED BY <4>1, <4>2, ClosedShape
    <3>2. CASE ~IsOpen(product_id)
      BY <1>3, <3>2 DEF FinishStop, Types, StationTypes
    <3>3. QED BY <3>1, <3>2
  <2>2. stopping' \in {"joined", "gave_up"}
        /\ UNCHANGED <<core, settings, station, last_snapshot, commands, loop, mes, web, boxes, results, quiet>>
    BY <1>3 DEF FinishStop
  <2>3. StationTypes' /\ QueueTypes' /\ OtherTypes'
    BY <2>1, <2>2 DEF Types, StationTypes, QueueTypes, OtherTypes, station, settings, mes, web
  <2>4. QED BY <2>3 DEF Types
<1>4. QED BY <1>1, <1>2, <1>3

\* No step leaves the types.
LEMMA TypesKept == Types /\ [PipelineNext]_vars => Types'
<1> SUFFICES ASSUME Types, [PipelineNext]_vars PROVE Types'
  OBVIOUS
<1>1. CASE LoopStep
  <2>1. CASE TakeFrame
    BY <2>1, NewProductTypes DEF TakeFrame
  <2>2. CASE Commands
    BY <2>2, ReplacingTypes, CompleteTypes DEF Commands
  <2>3. CASE EndFrame \/ EndLoop
    BY <2>3, EndFrameTypes, StopTypes
  <2>4. QED BY <1>1, <2>1, <2>2, <2>3 DEF LoopStep
<1>2. CASE WebStep
  BY <1>2, WebStepTypes
<1>3. CASE MesStep
  BY <1>3, MesStepTypes
<1>4. CASE RequestStop \/ FinishStop
  BY <1>4, StopTypes
<1>5. CASE UNCHANGED vars
  BY <1>5 DEF vars, Types, StationTypes, QueueTypes, OtherTypes, station, settings, mes, web
<1>6. QED BY <1>1, <1>2, <1>3, <1>4, <1>5 DEF PipelineNext

\* The types hold at all times.
LEMMA TypesHold == PipelineSpec => []Types
BY InitTypes, TypesKept, PTL DEF PipelineSpec

-----------------------------------------------------------------------------
(* The current product                                                     *)

\* A product is a number, and no number is None.
LEMMA ProductNumbers ==
  ASSUME Types
  PROVE  /\ products \in Seq(Product) /\ DOMAIN products = 1..Len(products) /\ Len(products) \in Nat
         /\ \A p \in DOMAIN products : p \in Nat /\ p # None
         /\ product_id # None => product_id \in DOMAIN products
         /\ IsOpen(product_id) => product_id \in DOMAIN products /\ products[product_id].result = "OPEN"
<1>1. products \in Seq(Product) /\ product_id \in {None} \union DOMAIN products
  BY DEF Types, StationTypes
<1>2. DOMAIN products = 1..Len(products) /\ Len(products) \in Nat
  BY <1>1
<1>3. \A p \in DOMAIN products : p \in Nat /\ p # None
  BY <1>2, PipelineAssumption
<1>4. QED BY <1>1, <1>2, <1>3 DEF IsOpen

\* The initial state ties nothing together yet.
LEMMA InitStation == PipelineInit => StationInv
BY DEF PipelineInit, StationInv, Tied, StoreClosed, Blank

\* Most steps leave the product, the core and the wait alone.
LEMMA StationStays ==
  ASSUME StationInv, UNCHANGED <<core, require_clear, product_id, products, awaiting_clear, clear_count>>,
         loop' = loop \/ loop' \in {"ended", "dead"},
         stopping' = stopping \/ (stopping = "no" /\ stopping' = "set")
  PROVE  StationInv'
BY DEF StationInv, Tied, StoreClosed

\* What StartOver needs of the products to begin the next one.
LEMMA StartOverKeeps ==
  ASSUME Types, StationInv, loop = "commands", UNCHANGED <<stopping, require_clear>>,
         NEW ps \in Seq(Product), NEW r \in Recipes, StartOver(ps, r),
         \A q \in DOMAIN ps : ps[q].passed => ps[q].gated,
         stopping \in {"no", "set"} => \A q \in DOMAIN ps : ps[q].result # "OPEN",
         awaiting_clear' \in BOOLEAN, awaiting_clear' => require_clear,
         clear_count' > 0 => awaiting_clear'
  PROVE  StationInv'
<1>1. /\ core' = Blank /\ loop' = loop
      /\ \/ awaiting_clear' /\ product_id' = None /\ products' = ps
         \/ ~awaiting_clear' /\ product_id' = Len(ps) + 1 /\ products' = Opened(ps, r)
  BY StartOverShape
<1>2. stopping' # "joined"
  BY DEF StationInv, StoreClosed
<1>3. Len(ps) \in Nat /\ Len(ps) + 1 # None
  BY PipelineAssumption
<1>4. CASE awaiting_clear'
  BY <1>1, <1>2, <1>3, <1>4 DEF StationInv, Tied, StoreClosed, Blank
<1>5. CASE ~awaiting_clear'
  <2>1. product_id' = Len(ps) + 1 /\ products' = Opened(ps, r)
    BY <1>1, <1>5
  <2>2. /\ DOMAIN products' = DOMAIN ps \union {Len(ps) + 1}
        /\ products'[Len(ps) + 1] = FreshProduct(r)
        /\ \A q \in DOMAIN ps :
              /\ products'[q].result = IF ps[q].result = "OPEN" THEN "ABANDONED" ELSE ps[q].result
              /\ products'[q].gated = ps[q].gated
              /\ products'[q].passed = ps[q].passed
    BY <2>1, OpenedShape
  <2>3. \A p \in DOMAIN products' : products'[p].passed => products'[p].gated
    BY <2>2 DEF FreshProduct
  <2>4. \A p \in DOMAIN products' : products'[p].result = "OPEN" => p = product_id'
    BY <2>1, <2>2
  <2>5. QED BY <1>1, <1>2, <1>3, <1>5, <2>1, <2>3, <2>4 DEF StationInv, Tied, StoreClosed, Blank
<1>6. QED BY <1>1, <1>4, <1>5

\* A product that is closed is not open any more, and no other is.
LEMMA ClosedKeeps ==
  ASSUME Types, StationInv, IsOpen(product_id), NEW x \in Outcomes \ {"OPEN"}
  PROVE  /\ Closed(product_id, x) \in Seq(Product)
         /\ \A q \in DOMAIN Closed(product_id, x) :
              Closed(product_id, x)[q].passed => Closed(product_id, x)[q].gated
         /\ stopping \in {"no", "set"} =>
              \A q \in DOMAIN Closed(product_id, x) : Closed(product_id, x)[q].result # "OPEN"
<1>1. product_id \in DOMAIN products /\ products \in Seq(Product)
  BY ProductNumbers
<1>2. /\ Closed(product_id, x) \in Seq(Product)
      /\ DOMAIN Closed(product_id, x) = DOMAIN products
      /\ Closed(product_id, x)[product_id].result = x
      /\ \A q \in DOMAIN products :
           /\ q # product_id => Closed(product_id, x)[q] = products[q]
           /\ Closed(product_id, x)[q].gated = products[q].gated
           /\ Closed(product_id, x)[q].passed = products[q].passed
  BY <1>1, ClosedShape
<1>3. QED BY <1>2 DEF StationInv, Tied, StoreClosed

\* As long as nothing but the current product is open, and it is not, none is.
LEMMA NoneOpen ==
  ASSUME Types, StationInv, ~IsOpen(product_id), stopping \in {"no", "set"}
  PROVE  \A q \in DOMAIN products : products[q].result # "OPEN"
BY ProductNumbers DEF StationInv, StoreClosed, IsOpen

\* A frame's start opens the first product; resets, recipes and orders begin the
\* next one (TakeFrame, ApplyReset, ApplyRecipe, ApplyWorkOrder).
LEMMA ReplacingKeeps ==
  ASSUME Types, StationInv, ApplyRecipe \/ ApplyReset \/ ApplyWorkOrder
  PROVE  StationInv'
<1>1. /\ loop = "commands"
      /\ StartsOver \/ Raises
      /\ UNCHANGED <<awaiting_clear, clear_count, settings, stopping>>
  BY ReplacingStep
<1>2. /\ awaiting_clear' \in BOOLEAN
      /\ awaiting_clear' => require_clear
      /\ clear_count' > 0 => awaiting_clear'
      /\ UNCHANGED <<stopping, require_clear>>
      /\ products \in Seq(Product)
      /\ \A q \in DOMAIN products : products[q].passed => products[q].gated
  BY <1>1 DEF StationInv, Tied, Types, StationTypes, settings
<1>3. CASE Raises
  BY <1>1, <1>2, <1>3, StationStays DEF Raises, Raise, station
<1>4. CASE StartsOver
  <2>1. CASE \E r \in Recipes : ~IsOpen(product_id) /\ StartOver(products, r)
    BY <1>1, <1>2, <2>1, NoneOpen, StartOverKeeps
  <2>2. ASSUME NEW r \in Recipes, NEW x \in {"ABANDONED", "DISCARDED"},
               IsOpen(product_id), StartOver(Closed(product_id, x), r)
        PROVE  StationInv'
    <3>1. x \in Outcomes \ {"OPEN"}
      BY DEF Outcomes
    <3>2. QED BY <1>1, <1>2, <2>2, <3>1, ClosedKeeps, StartOverKeeps
  <2>3. QED BY <1>4, <2>1, <2>2 DEF StartsOver
<1>5. QED BY <1>1, <1>3, <1>4

\* A completion closes the current product before anything else.
LEMMA CompleteKeeps ==
  ASSUME Types, StationInv, ApplyComplete
  PROVE  StationInv'
<1>1. loop = "commands" /\ UNCHANGED <<settings, stopping>>
  BY CompleteTaken DEF ApplyComplete
<1>2. UNCHANGED require_clear
  BY <1>1 DEF settings
<1>3. "COMPLETED" \in Outcomes \ {"OPEN"} /\ recipe \in Recipes /\ clear_count \in Nat /\ awaiting_clear \in BOOLEAN
  BY DEF Outcomes, Types, StationTypes
<1>4. CASE CompleteSucceeds
  <2>1. /\ IsOpen(product_id) /\ StartOver(Closed(product_id, "COMPLETED"), recipe)
        /\ awaiting_clear' \in BOOLEAN
        /\ awaiting_clear' => require_clear
        /\ clear_count' > 0 => awaiting_clear'
    BY <1>3, <1>4 DEF CompleteSucceeds, StationInv, Tied, Types, OtherTypes
  <2>2. QED BY <1>1, <1>2, <1>3, <2>1, ClosedKeeps, StartOverKeeps
<1>5. CASE CompleteRefused
  BY <1>1, <1>2, <1>5, StationStays DEF CompleteRefused, station
<1>6. CASE CompleteFails
  <2>1. /\ IsOpen(product_id) /\ products' = Closed(product_id, "COMPLETED")
        /\ UNCHANGED <<core, station, loop>>
    BY <1>6 DEF CompleteFails
  <2>2. /\ DOMAIN products' = DOMAIN products
        /\ \A q \in DOMAIN products :
             /\ products'[q].gated = products[q].gated
             /\ products'[q].passed = products[q].passed
    BY <1>3, <2>1, ProductNumbers, ClosedShape
  <2>3. Tied'
    BY <1>1, <1>2, <2>1, <2>2, ProductNumbers DEF StationInv, Tied, station
  <2>4. StoreClosed'
    BY <1>1, <1>3, <2>1, ClosedKeeps DEF StationInv, StoreClosed, station
  <2>5. QED BY <2>3, <2>4 DEF StationInv
<1>7. QED BY <1>4, <1>5, <1>6 DEF ApplyComplete

\* A frame opens a product only if there is none yet.
LEMMA TakeFrameKeeps ==
  ASSUME Types, StationInv, TakeFrame
  PROVE  StationInv'
<1>1. /\ loop = "idle" /\ loop' = "commands" /\ stopping = "no"
      /\ UNCHANGED <<awaiting_clear, core, settings, clear_count, stopping>>
  BY DEF TakeFrame
<1>2. CASE product_id = None /\ ~awaiting_clear
  <2>1. /\ products = <<>> /\ recipe \in Recipes
        /\ product_id' = Len(products) + 1 /\ products' = Opened(products, recipe)
    BY <1>1, <1>2 DEF TakeFrame, NewProduct, StationInv, Tied, Types, StationTypes
  <2>2. /\ products' = Opened(<<>>, recipe) /\ product_id' = 1 /\ 1 # None
    BY <2>1, PipelineAssumption
  <2>3. /\ DOMAIN products' = {1} /\ products'[1] = FreshProduct(recipe)
    <3>1. <<>> \in Seq(Product) /\ Len(<<>>) = 0 /\ DOMAIN <<>> = {}
      OBVIOUS
    <3>2. DOMAIN products' = {} \union {0 + 1} /\ products'[0 + 1] = FreshProduct(recipe)
      BY <2>1, <2>2, <3>1, OpenedShape
    <3>3. QED BY <3>2
  <2>4. core.phase # "ASSEMBLING"
    BY <1>2 DEF StationInv, Tied
  <2>5. QED BY <1>1, <1>2, <2>2, <2>3, <2>4 DEF StationInv, Tied, StoreClosed, FreshProduct, settings
<1>3. CASE ~(product_id = None /\ ~awaiting_clear)
  <2>1. UNCHANGED <<product_id, products>>
    BY <1>3 DEF TakeFrame
  <2>2. QED BY <1>1, <1>3, <2>1 DEF StationInv, Tied, StoreClosed, settings
<1>4. QED BY <1>2, <1>3

\* What recording a frame keeps of a product that has passed only if gated.
LEMMA RecordingKeeps ==
  ASSUME NEW ps \in Seq(Product), NEW p \in DOMAIN ps, p # None, NEW k \in Cores, NEW e \in BOOLEAN,
         \A q \in DOMAIN ps : ps[q].passed => ps[q].gated,
         k.status = "PASS" => ps[p].gated,
         products' = Recorded(ps, p, k, e)
  PROVE  /\ DOMAIN products' = DOMAIN ps
         /\ \A q \in DOMAIN ps : products'[q].result = ps[q].result
         /\ \A q \in DOMAIN products' : products'[q].passed => products'[q].gated
         /\ ps[p].gated => products'[p].gated
         /\ GateOpens(k) => products'[p].gated
<1>1. /\ DOMAIN products' = DOMAIN ps
      /\ \A q \in DOMAIN ps :
           /\ q # p => products'[q] = ps[q]
           /\ products'[q].result = ps[q].result
      /\ products'[p].gated = (ps[p].gated \/ GateOpens(k))
      /\ products'[p].passed = (ps[p].passed \/ (k.status = "PASS" /\ k.stable))
  BY RecordedShape
<1>2. QED BY <1>1

\* A judged frame marks the current product as gated when the gate opens, and as
\* passed only behind the gate.
LEMMA JudgeFrameKeeps ==
  ASSUME Types, StationInv, EndFrame, JudgeFrame
  PROVE  StationInv'
<1>1. /\ loop = "commands" /\ loop' = "idle" /\ ~awaiting_clear /\ UNCHANGED <<stopping, settings>>
      /\ UNCHANGED <<product_id, awaiting_clear, clear_count>>
      /\ products' = Recorded(products, product_id, core', NothingLeft)
  BY EndOfFrame DEF JudgeFrame, Publish
<1>2. product_id # None /\ product_id \in DOMAIN products /\ products \in Seq(Product) /\ core \in Cores
  BY <1>1, ProductNumbers DEF StationInv, Tied, Types, StationTypes
<1>3. PICK s \in Showing(core.phase) \union {"HOLD"} : core' \in After(core, s)
  BY FrameShape
<1>4. /\ core' \in Cores
      /\ core'.phase = "ASSEMBLING" => core.phase = "ASSEMBLING" \/ (core'.status = "HOLD" /\ core'.stable)
      /\ core'.status = "PASS" => core'.phase = "ASSEMBLING"
      /\ core'.status = "PASS" => core.phase = "ASSEMBLING"
  BY <1>2, <1>3, AfterShape DEF StationInv, Tied
<1>5. /\ core.phase = "ASSEMBLING" => products[product_id].gated
      /\ \A q \in DOMAIN products : products[q].passed => products[q].gated
  BY DEF StationInv, Tied
<1>6. core'.status = "PASS" => products[product_id].gated
  BY <1>4, <1>5
<1>7. /\ DOMAIN products' = DOMAIN products
      /\ \A q \in DOMAIN products : products'[q].result = products[q].result
      /\ \A q \in DOMAIN products' : products'[q].passed => products'[q].gated
      /\ products[product_id].gated => products'[product_id].gated
      /\ GateOpens(core') => products'[product_id].gated
  BY <1>1, <1>2, <1>4, <1>5, <1>6, RecordingKeeps, LeftOrNot
<1>8. Tied'
  BY <1>1, <1>2, <1>4, <1>5, <1>7 DEF StationInv, Tied, settings, GateOpens
<1>9. StoreClosed'
  BY <1>1, <1>7 DEF StationInv, StoreClosed
<1>10. QED BY <1>8, <1>9 DEF StationInv

\* While the table is not clear the core stays before the gate; when it has been
\* clear for long enough, a product that has seen nothing begins.
LEMMA WaitingKeeps ==
  ASSUME Types, StationInv, EndFrame, NEW clear \in BOOLEAN, NEW d \in 1..ClearTime,
         JudgeWhileWaiting(clear, Age(d)) \/ JudgeCleared(clear, Age(d))
  PROVE  StationInv'
<1>1. /\ loop = "commands" /\ loop' = "idle" /\ UNCHANGED <<stopping, settings, recipe>>
      /\ stopping # "joined"
  BY EndOfFrame DEF StationInv, StoreClosed
<1>2. /\ awaiting_clear /\ require_clear /\ product_id = None
      /\ core.phase = "CHECK_MATERIALS" /\ core.status # "PASS" /\ core \in Cores
      /\ products \in Seq(Product) /\ recipe \in Recipes
  BY DEF JudgeWhileWaiting, JudgeCleared, StationInv, Tied, Types, StationTypes, Cores
<1>3. CASE JudgeWhileWaiting(clear, Age(d))
  <2>1. UNCHANGED <<product_id, awaiting_clear, products>>
    BY <1>2, <1>3 DEF JudgeWhileWaiting, Publish, Recorded
  <2>2. core'.phase # "ASSEMBLING" /\ core'.status # "PASS"
    <3>1. PICK s \in Showing(core.phase) \union {"HOLD"} : core' \in After(core, s) /\ s # "READY"
      BY <1>2, <1>3, FrameShape
    <3>2. QED BY <1>2, <3>1, AfterShape
  <2>3. QED BY <1>1, <1>2, <2>1, <2>2 DEF StationInv, Tied, StoreClosed, settings
<1>4. CASE JudgeCleared(clear, Age(d))
  <2> DEFINE ps == Opened(products, recipe)
             n == Len(products) + 1
  <2>1. /\ awaiting_clear' = FALSE /\ clear_count' = 0 /\ product_id' = n
        /\ products' = Recorded(ps, n, core', NothingLeft)
    BY <1>4 DEF JudgeCleared, Publish
  <2>2. /\ ps \in Seq(Product) /\ n \in DOMAIN ps /\ n # None
        /\ ps[n] = FreshProduct(recipe)
        /\ \A q \in DOMAIN products : ps[q].result # "OPEN"
        /\ DOMAIN ps = DOMAIN products \union {n}
        /\ \A q \in DOMAIN products : ps[q].passed = products[q].passed /\ ps[q].gated = products[q].gated
    <3>1. n \in Nat /\ n # None
      BY <1>2, PipelineAssumption
    <3>2. /\ ps \in Seq(Product) /\ DOMAIN ps = DOMAIN products \union {n}
          /\ ps[n] = FreshProduct(recipe)
          /\ \A q \in DOMAIN products :
               /\ ps[q].result = IF products[q].result = "OPEN" THEN "ABANDONED" ELSE products[q].result
               /\ ps[q].gated = products[q].gated
               /\ ps[q].passed = products[q].passed
      BY <1>2, OpenedShape
    <3> HIDE DEF ps, n
    <3>3. QED BY <3>1, <3>2
  <2>3. /\ core' \in Cores /\ core'.phase # "ASSEMBLING" /\ core'.status # "PASS"
    <3>1. /\ Blank \in Cores /\ Blank.phase = "CHECK_MATERIALS" /\ Blank.status = "HOLD"
          /\ ~Blank.watching
      BY DEF Blank, Cores
    <3>2. PICK s \in Showing(Blank.phase) \union {"HOLD"} : core' \in After(Blank, s)
      BY <1>4, <3>1 DEF JudgeCleared
    <3>3. /\ core' \in Cores
          /\ core'.phase = "ASSEMBLING" => Blank.phase = "ASSEMBLING" \/ Blank.watching
          /\ core'.status = "PASS" => core'.phase = "ASSEMBLING" \/ Blank.status = "PASS"
      BY <3>1, <3>2, AfterShape
    <3>4. QED BY <3>1, <3>3
  <2> HIDE DEF ps, n
  <2>4. \A q \in DOMAIN ps : ps[q].passed => ps[q].gated
    BY <2>2 DEF FreshProduct, StationInv, Tied
  <2>5. /\ DOMAIN products' = DOMAIN ps
        /\ \A q \in DOMAIN ps : products'[q].result = ps[q].result
        /\ \A q \in DOMAIN products' : products'[q].passed => products'[q].gated
    BY <2>1, <2>2, <2>3, <2>4, RecordingKeeps, LeftOrNot
  <2>6. Tied'
    BY <2>1, <2>2, <2>3, <2>5 DEF Tied
  <2>7. StoreClosed'
    BY <1>1, <2>1, <2>2, <2>5 DEF StoreClosed
  <2>8. QED BY <2>6, <2>7 DEF StationInv
<1>5. QED BY <1>3, <1>4

\* Stopping closes the current product, and with it the last open one if the loop has ended.
LEMMA FinishStopKeeps ==
  ASSUME Types, StationInv, FinishStop
  PROVE  StationInv'
<1>1. /\ stopping = "set"
      /\ stopping' = (IF loop \in {"ended", "dead"} THEN "joined" ELSE "gave_up")
      /\ products' = (IF IsOpen(product_id) THEN Closed(product_id, "ABANDONED") ELSE products)
      /\ UNCHANGED <<core, settings, station, loop>>
  BY DEF FinishStop
<1>2. /\ DOMAIN products' = DOMAIN products
      /\ \A q \in DOMAIN products :
           /\ products'[q].gated = products[q].gated
           /\ products'[q].passed = products[q].passed
      /\ \A q \in DOMAIN products' : products'[q].result # "OPEN"
  <2>1. CASE IsOpen(product_id)
    <3>1. "ABANDONED" \in Outcomes \ {"OPEN"}
      BY DEF Outcomes
    <3>2. /\ DOMAIN products' = DOMAIN products
          /\ \A q \in DOMAIN products :
               /\ products'[q].gated = products[q].gated
               /\ products'[q].passed = products[q].passed
      BY <1>1, <2>1, <3>1, ProductNumbers, ClosedShape
    <3>3. \A q \in DOMAIN products' : products'[q].result # "OPEN"
      BY <1>1, <2>1, <3>1, ClosedKeeps
    <3>4. QED BY <3>2, <3>3
  <2>2. CASE ~IsOpen(product_id)
    BY <1>1, <2>2, NoneOpen
  <2>3. QED BY <2>1, <2>2
<1>3. Tied'
  BY <1>1, <1>2, ProductNumbers DEF StationInv, Tied, station, settings
<1>4. StoreClosed'
  BY <1>1, <1>2 DEF StoreClosed
<1>5. QED BY <1>3, <1>4 DEF StationInv

\* The web threads touch nothing but the queue and their own calls.
LEMMA WebStepLeaves ==
  ASSUME WebStep
  PROVE  UNCHANGED <<core, settings, station, last_snapshot, loop, stopping, products,
                     mes, boxes, results, quiet>>
<1>1. ASSUME NEW m, Request(m)
      PROVE  UNCHANGED <<core, settings, station, last_snapshot, loop, stopping, products,
                         mes, boxes, results, quiet>>
  BY <1>1 DEF Request
<1>2. ASSUME NEW c \in Clients,
             \/ CheckClear(c) \/ CheckOrder(c) \/ CheckPass(c)
             \/ PutComplete(c) \/ ReturnAnswer(c) \/ TimeOut(c)
      PROVE  UNCHANGED <<core, settings, station, last_snapshot, loop, stopping, products,
                         mes, boxes, results, quiet>>
  BY <1>2 DEF CheckClear, CheckOrder, CheckPass, PutComplete, ReturnAnswer, TimeOut
<1>3. QED BY <1>1, <1>2 DEF WebStep, RequestReset, SelectRecipe

\* No step breaks the invariant.
LEMMA StationKept == Types /\ StationInv /\ [PipelineNext]_vars => StationInv'
<1> SUFFICES ASSUME Types, StationInv, [PipelineNext]_vars PROVE StationInv'
  OBVIOUS
<1>1. CASE TakeFrame
  BY <1>1, TakeFrameKeeps
<1>2. CASE Commands
  BY <1>2, ReplacingKeeps, CompleteKeeps DEF Commands
<1>3. CASE EndFrame
  <2>1. CASE JudgeFrame
    BY <1>3, <2>1, JudgeFrameKeeps
  <2>2. CASE ~JudgeFrame
    <3>1. PICK clear \in BOOLEAN, d \in 1..ClearTime :
            JudgeWhileWaiting(clear, Age(d)) \/ JudgeCleared(clear, Age(d))
      BY <1>3, <2>2, EndOfFrame
    <3>2. QED BY <1>3, <3>1, WaitingKeeps
  <2>3. QED BY <2>1, <2>2
<1>4. CASE EndLoop
  BY <1>4, StationStays DEF EndLoop, station, settings
<1>5. CASE WebStep
  BY <1>5, WebStepLeaves, StationStays DEF station, settings
<1>6. CASE MesStep
  <2>1. UNCHANGED <<core, settings, station, loop, stopping, products>>
    BY <1>6 DEF MesStep, AcceptOrder, CancelOrder, PutWorkOrder
  <2>2. QED BY <2>1, StationStays DEF station, settings
<1>7. CASE RequestStop
  BY <1>7, StationStays DEF RequestStop, station, settings
<1>8. CASE FinishStop
  BY <1>8, FinishStopKeeps
<1>9. CASE UNCHANGED vars
  BY <1>9, StationStays DEF vars, station, settings
<1>10. QED BY <1>1, <1>2, <1>3, <1>4, <1>5, <1>6, <1>7, <1>8, <1>9 DEF PipelineNext, LoopStep

\* The invariant holds at all times.
LEMMA StationHolds == PipelineSpec => [](Types /\ StationInv)
<1>1. PipelineInit => Types /\ StationInv
  BY InitTypes, InitStation
<1>2. Types /\ StationInv /\ [PipelineNext]_vars => (Types /\ StationInv)'
  BY TypesKept, StationKept
<1>3. QED BY <1>1, <1>2, PTL DEF PipelineSpec

\* The types, and with them: while the loop waits for a clear table there is no
\* current product and the core is before its gate (pipeline.py:139-143, 216).
THEOREM StationTyped == PipelineSpec => []PipelineTypeOK
<1>1. Types /\ StationInv => PipelineTypeOK
  <2> SUFFICES ASSUME Types, StationInv PROVE PipelineTypeOK
    OBVIOUS
  <2>1. /\ core \in Cores /\ last_snapshot \in Cores
        /\ core.status = "PASS" => core.phase = "ASSEMBLING"
        /\ recipe \in Recipes /\ product_id \in {None} \union DOMAIN products
        /\ awaiting_clear => require_clear /\ product_id = None /\ core.phase = "CHECK_MATERIALS"
        /\ clear_count > 0 => awaiting_clear
    BY DEF Types, StationTypes, OtherTypes, StationInv, Tied, Cores
  <2>2. \A p \in DOMAIN products :
          products[p] \in [recipe : Recipes, gated : BOOLEAN, cleared : BOOLEAN, passed : BOOLEAN,
                           result : {"OPEN", "COMPLETED", "ABANDONED", "DISCARDED"}]
    <3>1. \A p \in DOMAIN products : products[p] \in Product
      BY ProductNumbers
    <3>2. QED BY <3>1 DEF Product, Outcomes
  <2>3. /\ loop \in {"idle", "commands", "ended", "dead"}
        /\ stopping \in {"no", "set", "joined", "gave_up"}
        /\ work_order.status \in {"NONE", "IN_PROGRESS", "COMPLETED", "CANCELLED"}
        /\ calls \in [Clients -> [at : {"idle", "order", "pass", "put", "wait"}, id : 0..MaxRequests]]
    BY DEF Types, QueueTypes, OtherTypes, OrderStatus, Places
  <2>4. QED BY <2>1, <2>2, <2>3 DEF PipelineTypeOK
<1>2. QED BY <1>1, StationHolds, PTL

\* The store holds no product open but the one the loop is working on, and none
\* once stop() has joined the loop, whatever commands, orders and failures of
\* MesLink's database come in between (pipeline.py:139-154, store.py:118).
THEOREM OnlyTheCurrentIsOpen == PipelineSpec => []OneOpenProduct
<1>1. Types /\ StationInv => OneOpenProduct
  <2> SUFFICES ASSUME Types, StationInv PROVE OneOpenProduct
    OBVIOUS
  <2>1. stopping \in {"no", "set", "joined", "gave_up"}
    BY DEF Types, OtherTypes
  <2>2. CASE stopping \in {"no", "set"}
    <3>1. With("OPEN") = IF IsOpen(product_id) THEN {product_id} ELSE {}
      BY <2>2, ProductNumbers DEF With, IsOpen, StationInv, StoreClosed
    <3>2. QED BY <2>2, <3>1 DEF OneOpenProduct
  <2>3. CASE stopping = "joined"
    <3>1. With("OPEN") = {}
      BY <2>3 DEF With, StationInv, StoreClosed
    <3>2. QED BY <2>3, <3>1 DEF OneOpenProduct
  <2>4. CASE stopping = "gave_up"
    BY <2>4 DEF OneOpenProduct
  <2>5. QED BY <2>1, <2>2, <2>3, <2>4
<1>2. QED BY <1>1, StationHolds, PTL

-----------------------------------------------------------------------------
(* The accounts                                                            *)

\* Starting over completes nothing, and begins with an open product or with none.
LEMMA StartOverCompletes ==
  ASSUME NEW ps \in Seq(Product), NEW r \in Recipes, StartOver(ps, r), awaiting_clear' \in BOOLEAN
  PROVE  /\ With("COMPLETED")' = {p \in DOMAIN ps : ps[p].result = "COMPLETED"}
         /\ product_id' # None => IsOpen(product_id)'
         /\ WaitsAfterCompletion'
<1>1. \/ awaiting_clear' /\ product_id' = None /\ products' = ps
      \/ ~awaiting_clear' /\ product_id' = Len(ps) + 1 /\ products' = Opened(ps, r)
  BY StartOverShape
<1>2. CASE awaiting_clear'
  BY <1>1, <1>2 DEF With, WaitsAfterCompletion
<1>3. CASE ~awaiting_clear'
  <2> DEFINE n == Len(ps) + 1
  <2>1. /\ DOMAIN products' = DOMAIN ps \union {n} /\ Len(products') = n
        /\ products'[n].result = "OPEN"
        /\ \A q \in DOMAIN ps :
             products'[q].result = IF ps[q].result = "OPEN" THEN "ABANDONED" ELSE ps[q].result
    <3>1. FreshProduct(r).result = "OPEN"
      BY DEF FreshProduct
    <3>2. /\ products' = Opened(ps, r) /\ Len(Opened(ps, r)) = n
          /\ DOMAIN Opened(ps, r) = DOMAIN ps \union {n}
          /\ Opened(ps, r)[n] = FreshProduct(r)
          /\ \A q \in DOMAIN ps :
               Opened(ps, r)[q].result = IF ps[q].result = "OPEN" THEN "ABANDONED" ELSE ps[q].result
      BY <1>1, <1>3, OpenedShape
    <3> HIDE DEF n
    <3>3. QED BY <3>1, <3>2
  <2>2. product_id' = n
    BY <1>1, <1>3
  <2> HIDE DEF n
  <2>3. With("COMPLETED")' = {p \in DOMAIN ps : ps[p].result = "COMPLETED"}
    BY <2>1 DEF With
  <2>4. QED BY <2>1, <2>2, <2>3 DEF IsOpen, WaitsAfterCompletion
<1>4. QED BY <1>1, <1>2, <1>3

\* Closing the open product completes it or leaves what is completed as it is.
LEMMA ClosingCompletes ==
  ASSUME Types, IsOpen(product_id), NEW x \in Outcomes \ {"OPEN"}
  PROVE  /\ product_id \notin With("COMPLETED")
         /\ LET ps == Closed(product_id, x)
            IN  {p \in DOMAIN ps : ps[p].result = "COMPLETED"}
                  = With("COMPLETED") \union (IF x = "COMPLETED" THEN {product_id} ELSE {})
<1>1. product_id \in DOMAIN products /\ products[product_id].result = "OPEN" /\ products \in Seq(Product)
  BY ProductNumbers
<1>2. /\ DOMAIN Closed(product_id, x) = DOMAIN products
      /\ Closed(product_id, x)[product_id].result = x
      /\ \A q \in DOMAIN products : q # product_id => Closed(product_id, x)[q] = products[q]
  BY <1>1, ClosedShape
<1>3. QED BY <1>1, <1>2 DEF With

\* Where nothing is completed and nothing told, the telling stays right.
LEMMA ToldStays ==
  ASSUME ToldOnce, With("COMPLETED")' = With("COMPLETED"), UNCHANGED results,
         boxes' = boxes \/ \E k : boxes' = boxes \union {[call |-> k, product |-> None]}
  PROVE  ToldOnce'
BY DEF ToldOnce

\* Where neither the order nor the results change, their numbers stay right.
LEMMA ResultsStay ==
  ASSUME ResultsRun, UNCHANGED <<results, work_order>>
  PROVE  ResultsRun'
BY DEF ResultsRun, Last

\* At the start there is nothing to account for.
LEMMA InitAccounts ==
  PipelineInit => AccountsInv /\ WaitsAfterCompletion /\ WaitIsCounted /\ ClearedSince
BY PipelineAssumption
   DEF PipelineInit, AccountsInv, Working, ResultsRun, ToldOnce, With, NoOrder,
       WaitsAfterCompletion, WaitIsCounted, ClearedSince

\* A completed product is counted for the order in progress and follows its last one.
LEMMA CountingKeeps ==
  ASSUME Types, StationInv, AccountsInv, NEW p \in Nat, p \notin With("COMPLETED"),
         ProductCompleted(p),
         With("COMPLETED")' = With("COMPLETED") \union {p},
         Answer(p)
  PROVE  ResultsRun' /\ ToldOnce'
<1> DEFINE n == Len(results)
           done == work_order.done
           result == [order |-> work_order.id, seq |-> done + 1, product |-> p]
<1>1. /\ results \in Seq(Result) /\ n \in Nat /\ DOMAIN results = 1..n
      /\ done \in Nat /\ Quantity \in Nat \ {0} /\ p # None
  BY PipelineAssumption DEF Types, QueueTypes, OtherTypes
<1>2. /\ \A b \in boxes' : b \in boxes \/ b.product = p
      /\ \A a, b \in boxes' : a \notin boxes /\ b \notin boxes => a = b
      /\ boxes \subseteq boxes' /\ \E b \in boxes' : b.product = p
  <2>1. PICK b : b.product = p /\ boxes' = boxes \union {b}
    BY DEF Answer
  <2>2. QED BY <2>1
<1>3. CASE UNCHANGED <<work_order, results>>
  <2>1. ToldOnce'
    BY <1>1, <1>2, <1>3 DEF AccountsInv, ToldOnce
  <2>2. QED BY <1>3, <2>1, ResultsStay DEF AccountsInv
<1>4. CASE /\ mes_attached /\ Active /\ work_order' = Counted(work_order)
           /\ results' = Append(results, result)
  <2>1. result \in Result
    BY <1>1, <1>4 DEF Active, Result, Types, QueueTypes
  <2>2. /\ Len(results') = n + 1 /\ DOMAIN results' = 1..(n + 1)
        /\ results'[n + 1] = result
        /\ \A i \in 1..n : results'[i] = results[i]
    <3> HIDE DEF result
    <3>1. results' = Append(results, result) /\ results' \in Seq(Result)
      BY <1>1, <1>4, <2>1
    <3>2. QED BY <1>1, <3>1, <2>1
  <2>3. done < Quantity
    BY <1>1, <1>4 DEF AccountsInv, ResultsRun, Active
  <2>4. done > 0 => n > 0 /\ results[n].order = work_order.id /\ results[n].seq = done
    BY <1>1 DEF AccountsInv, ResultsRun, Last
  <2>5. /\ work_order'.id = work_order.id /\ work_order'.done = done + 1
        /\ work_order'.status = "COMPLETED" <=> done + 1 = Quantity
    <3>1. work_order \in [id : Orders \union {None}, done : Nat, status : OrderStatus]
      BY DEF Types, QueueTypes
    <3>2. CASE done + 1 >= Quantity
      BY <1>1, <1>4, <2>3, <3>1, <3>2 DEF Counted
    <3>3. CASE ~(done + 1 >= Quantity)
      BY <1>1, <1>4, <2>3, <3>1, <3>3 DEF Counted, Active
    <3>4. QED BY <3>2, <3>3
  <2>6. ASSUME NEW i \in DOMAIN results'
        PROVE  /\ results'[i].seq \in 1..Quantity
               /\ results'[i].seq > 1 =>
                    /\ i > 1 /\ results'[i - 1].order = results'[i].order
                    /\ results'[i - 1].seq = results'[i].seq - 1
    <3>1. CASE i = n + 1
      <4>1. results'[i].seq = done + 1 /\ results'[i].order = work_order.id
        BY <2>2, <3>1
      <4>2. CASE done > 0
        <5>1. /\ n \in 1..n /\ i - 1 = n
              /\ results'[n].order = work_order.id /\ results'[n].seq = done
          BY <1>1, <2>2, <2>4, <3>1, <4>2
        <5>2. QED BY <1>1, <2>3, <3>1, <4>1, <4>2, <5>1
      <4>3. CASE done = 0
        BY <1>1, <2>3, <4>1, <4>3
      <4>4. QED BY <1>1, <4>2, <4>3
    <3>2. CASE i \in 1..n
      <4>1. /\ results'[i] = results[i]
            /\ i > 1 => results'[i - 1] = results[i - 1]
        BY <1>1, <2>2, <3>2
      <4>2. QED BY <1>1, <3>2, <4>1 DEF AccountsInv, ResultsRun
    <3>3. QED BY <1>1, <2>2, <3>1, <3>2
  <2>7. ResultsRun'
    <3>1. results' # <<>> /\ Last'.order = work_order'.id /\ Last'.seq = work_order'.done
      BY <1>1, <2>2, <2>5 DEF Last
    <3>2. work_order'.done <= Quantity
      BY <1>1, <2>3, <2>5
    <3>3. QED BY <2>5, <2>6, <3>1, <3>2 DEF ResultsRun
  <2>8. ToldOnce'
    <3>1. /\ results'[n + 1].product = p
          /\ \A i \in 1..n : results'[i].product = results[i].product
                             /\ results[i].product \in With("COMPLETED")
      BY <1>1, <2>2 DEF AccountsInv, ToldOnce
    <3>2. \A i, j \in DOMAIN results' : results'[i].product = results'[j].product => i = j
      BY <1>1, <2>2, <3>1 DEF AccountsInv, ToldOnce
    <3>3. \A i \in DOMAIN results' : results'[i].product \in With("COMPLETED")'
      BY <1>1, <2>2, <3>1
    <3>4. QED BY <1>1, <1>2, <3>2, <3>3 DEF AccountsInv, ToldOnce
  <2>9. QED BY <2>7, <2>8
<1>5. QED BY <1>3, <1>4 DEF ProductCompleted

Accounts == AccountsInv /\ WaitsAfterCompletion /\ WaitIsCounted /\ ClearedSince

\* What the accounts rest on is left alone by most steps.
LEMMA AccountsStay ==
  ASSUME Accounts,
         UNCHANGED <<products, product_id, awaiting_clear, clear_count, clear_age, require_clear,
                     boxes, results, quiet>>,
         ResultsRun',
         loop' = loop \/ loop' # "dead",
         stopping' = stopping \/ (stopping = "no" /\ stopping' = "set")
  PROVE  Accounts'
BY DEF Accounts, AccountsInv, Working, ToldOnce, With, IsOpen, WaitsAfterCompletion, WaitIsCounted,
       ClearedSince, SeenClear

\* A frame's start opens the first product.
LEMMA TakeFrameAccounts ==
  ASSUME Types, StationInv, Accounts, TakeFrame
  PROVE  Accounts'
<1>1. /\ loop' = "commands" /\ stopping = "no"
      /\ UNCHANGED <<awaiting_clear, clear_count, clear_age, settings, stopping, work_order,
                     boxes, results, quiet>>
  BY DEF TakeFrame, mes
<1>2. CASE UNCHANGED <<product_id, products>>
  BY <1>1, <1>2, AccountsStay, ResultsStay DEF Accounts, AccountsInv, settings
<1>3. CASE product_id = None /\ ~awaiting_clear
  <2>1. /\ products = <<>> /\ recipe \in Recipes /\ awaiting_clear \in BOOLEAN
        /\ product_id' = Len(products) + 1 /\ products' = Opened(products, recipe)
    BY <1>1, <1>3 DEF TakeFrame, NewProduct, StationInv, Tied, Types, StationTypes
  <2>2. /\ DOMAIN products' = {1} /\ Len(products') = 1
        /\ products'[1] = FreshProduct(recipe)
    <3>1. <<>> \in Seq(Product) /\ Len(<<>>) = 0 /\ DOMAIN <<>> = {}
      OBVIOUS
    <3>2. /\ DOMAIN products' = {} \union {0 + 1} /\ Len(products') = 0 + 1
          /\ products'[0 + 1] = FreshProduct(recipe)
      BY <2>1, <3>1, OpenedShape
    <3>3. QED BY <3>2
  <2>3. products'[1].result = "OPEN"
    BY <2>2 DEF FreshProduct
  <2>4. With("COMPLETED")' = With("COMPLETED")
    BY <2>1, <2>2, <2>3 DEF With
  <2>5. Working' /\ WaitsAfterCompletion'
    BY <1>1, <2>1, <2>2, <2>3 DEF Working, IsOpen, WaitsAfterCompletion
  <2>6. WaitIsCounted'
    BY <1>1, <1>3 DEF WaitIsCounted
  <2>7. ClearedSince'
    BY <1>1, <2>4 DEF Accounts, ClearedSince, SeenClear, settings
  <2>8. QED BY <1>1, <2>4, <2>5, <2>6, <2>7, ToldStays, ResultsStay DEF Accounts, AccountsInv
<1>4. QED BY <1>2, <1>3 DEF TakeFrame

\* Resets, recipes and orders find an open product, so the loop survives them.
LEMMA ReplacingAccounts ==
  ASSUME Types, StationInv, Accounts, ApplyRecipe \/ ApplyReset \/ ApplyWorkOrder
  PROVE  Accounts'
<1>1. /\ loop = "commands"
      /\ StartsOver \/ Raises
  BY ReplacingStep
<1>2. UNCHANGED <<awaiting_clear, clear_count, clear_age, stopping, work_order, boxes, results, quiet,
                  require_clear>>
  BY ReplacingStep DEF mes, settings
<1>3. stopping # "joined" /\ stopping \in {"no", "set", "joined", "gave_up"}
  BY <1>1 DEF StationInv, StoreClosed, Types, OtherTypes
<1>4. WaitIsCounted' /\ ResultsRun'
  BY <1>2, ResultsStay DEF Accounts, AccountsInv, WaitIsCounted
<1>5. CASE Raises
  <2>1. loop' = "dead" /\ UNCHANGED <<products, product_id>>
    BY <1>5 DEF Raises, Raise, station
  <2>2. stopping = "gave_up"
    BY <1>3, <1>5 DEF Raises, Accounts, AccountsInv, Working
  <2>3. Working' /\ ToldOnce' /\ WaitsAfterCompletion' /\ ClearedSince'
    BY <1>2, <2>1, <2>2 DEF Accounts, AccountsInv, Working, ToldOnce, With, WaitsAfterCompletion,
                            ClearedSince, SeenClear
  <2>4. QED BY <1>4, <2>3 DEF Accounts, AccountsInv
<1>6. CASE StartsOver
  <2>1. /\ products \in Seq(Product) /\ awaiting_clear' \in BOOLEAN
    BY <1>2 DEF Types, StationTypes
  <2>2. PICK r \in Recipes, ps \in Seq(Product) :
          /\ StartOver(ps, r)
          /\ {p \in DOMAIN ps : ps[p].result = "COMPLETED"} = With("COMPLETED")
    <3>1. CASE \E r \in Recipes : ~IsOpen(product_id) /\ StartOver(products, r)
      BY <2>1, <3>1 DEF With
    <3>2. ASSUME NEW r \in Recipes, NEW x \in {"ABANDONED", "DISCARDED"},
                 IsOpen(product_id), StartOver(Closed(product_id, x), r)
          PROVE  \E ps \in Seq(Product) :
                   /\ StartOver(ps, r)
                   /\ {p \in DOMAIN ps : ps[p].result = "COMPLETED"} = With("COMPLETED")
      <4>1. x \in Outcomes \ {"OPEN"} /\ x # "COMPLETED"
        BY DEF Outcomes
      <4>2. Closed(product_id, x) \in Seq(Product)
        BY <3>2, <4>1, ClosedKeeps
      <4>3. {p \in DOMAIN Closed(product_id, x) : Closed(product_id, x)[p].result = "COMPLETED"}
              = With("COMPLETED")
        BY <3>2, <4>1, ClosingCompletes
      <4>4. QED BY <3>2, <4>2, <4>3
    <3>3. QED BY <1>6, <3>1, <3>2 DEF StartsOver
  <2>3. /\ With("COMPLETED")' = With("COMPLETED")
        /\ product_id' # None => IsOpen(product_id)'
        /\ WaitsAfterCompletion' /\ loop' = loop
    BY <2>1, <2>2, StartOverCompletes, StartOverShape
  <2>4. Working'
    BY <1>1, <1>2, <2>3 DEF Working
  <2>5. ToldOnce'
    BY <1>2, <2>3, ToldStays DEF Accounts, AccountsInv
  <2>6. ClearedSince'
    BY <1>2, <2>3 DEF Accounts, ClearedSince, SeenClear
  <2>7. QED BY <1>4, <2>3, <2>4, <2>5, <2>6 DEF Accounts, AccountsInv
<1>7. QED BY <1>1, <1>5, <1>6

\* A completion that finds its product open is counted and answered; any other is
\* refused.  With its writes succeeding, there is no third way.
LEMMA CompleteAccounts ==
  ASSUME ~MesMayFail, Types, StationInv, Accounts, ApplyComplete
  PROVE  Accounts'
<1>1. loop = "commands" /\ UNCHANGED <<settings, stopping>>
  BY CompleteTaken DEF ApplyComplete
<1>2. /\ UNCHANGED <<require_clear, stopping>>
      /\ recipe \in Recipes /\ awaiting_clear \in BOOLEAN /\ require_clear \in BOOLEAN
      /\ clear_count \in Nat
  BY <1>1 DEF settings, Types, StationTypes, OtherTypes
<1>3. CASE CompleteSucceeds
  <2> DEFINE ps == Closed(product_id, "COMPLETED")
  <2>1. /\ IsOpen(product_id) /\ ProductCompleted(product_id) /\ Answer(product_id)
        /\ StartOver(ps, recipe)
        /\ awaiting_clear' = (awaiting_clear \/ require_clear)
        /\ (require_clear => clear_count' = 0 /\ clear_age' = 0)
        /\ quiet' = [frames |-> 0, time |-> 0]
    BY <1>3 DEF CompleteSucceeds
  <2>2. "COMPLETED" \in Outcomes \ {"OPEN"} /\ awaiting_clear' \in BOOLEAN
    BY <1>2, <2>1 DEF Outcomes
  <2>3. /\ ps \in Seq(Product)
        /\ product_id \notin With("COMPLETED")
        /\ {p \in DOMAIN ps : ps[p].result = "COMPLETED"} = With("COMPLETED") \union {product_id}
    BY <2>1, <2>2, ClosedKeeps, ClosingCompletes
  <2> HIDE DEF ps
  <2>4. /\ With("COMPLETED")' = With("COMPLETED") \union {product_id}
        /\ product_id' # None => IsOpen(product_id)'
        /\ WaitsAfterCompletion' /\ loop' = loop
    BY <1>2, <2>1, <2>2, <2>3, StartOverCompletes, StartOverShape
  <2>5. product_id \in Nat
    BY <2>1, ProductNumbers
  <2>6. ResultsRun' /\ ToldOnce'
    BY <2>1, <2>3, <2>4, <2>5, CountingKeeps DEF Accounts
  <2>7. WaitIsCounted'
    <3>1. awaiting_clear' => require_clear
      BY <2>1 DEF StationInv, Tied
    <3>2. AtMost(ClearFrames + 1, 0) = 0 /\ AtMost(ClearTime, 0) = 0
      BY PipelineAssumption DEF AtMost
    <3>3. QED BY <2>1, <3>1, <3>2 DEF WaitIsCounted
  <2>8. Working'
    BY <1>1, <2>4 DEF Working
  <2>9. ClearedSince'
    BY <1>2, <2>1 DEF ClearedSince
  <2>10. QED BY <2>4, <2>6, <2>7, <2>8, <2>9 DEF Accounts, AccountsInv
<1>4. CASE CompleteRefused
  <2>1. Answer(None) /\ UNCHANGED <<core, station, products, loop, work_order, results, quiet>>
    BY <1>4 DEF CompleteRefused
  <2>2. ToldOnce'
    <3>1. With("COMPLETED")' = With("COMPLETED")
      BY <2>1 DEF With
    <3>2. QED BY <2>1, <3>1, ToldStays DEF Answer, Accounts, AccountsInv
  <2>3. Working' /\ WaitsAfterCompletion' /\ WaitIsCounted'
    BY <1>2, <2>1 DEF Accounts, AccountsInv, Working, IsOpen, WaitsAfterCompletion, WaitIsCounted, station
  <2>4. ClearedSince'
    BY <1>2, <2>1 DEF Accounts, ClearedSince, SeenClear, With, station
  <2>5. QED BY <2>1, <2>2, <2>3, <2>4, ResultsStay DEF Accounts, AccountsInv
<1>5. ~CompleteFails
  BY DEF CompleteFails, ProductCompletedFails
<1>6. QED BY <1>3, <1>4, <1>5 DEF ApplyComplete

\* A judged frame changes no product's result.
LEMMA JudgeFrameAccounts ==
  ASSUME Types, StationInv, Accounts, EndFrame, JudgeFrame
  PROVE  Accounts'
<1>1. /\ loop = "commands" /\ loop' = "idle"
      /\ UNCHANGED <<settings, stopping, work_order, boxes, results>>
      /\ ~awaiting_clear /\ UNCHANGED <<product_id, awaiting_clear, quiet>>
      /\ products' = Recorded(products, product_id, core', NothingLeft)
  BY EndOfFrame DEF JudgeFrame, Publish, mes
<1>2. /\ products \in Seq(Product) /\ core' \in Cores
      /\ product_id \in {None} \union DOMAIN products
  BY TypesKept DEF Types, StationTypes, PipelineNext, LoopStep
<1>3. /\ DOMAIN products' = DOMAIN products /\ Len(products') = Len(products)
      /\ \A q \in DOMAIN products : products'[q].result = products[q].result
  BY <1>1, <1>2, RecordedShape, LeftOrNot, ZenonT(40)
<1>4. With("COMPLETED")' = With("COMPLETED")
  BY <1>3 DEF With
<1>5. product_id # None => product_id \in DOMAIN products
  BY <1>2
<1>6. Working'
  BY <1>1, <1>3, <1>5 DEF Accounts, AccountsInv, Working, IsOpen
<1>7. WaitsAfterCompletion'
  <2>1. products' # <<>> => products # <<>> /\ Len(products) \in DOMAIN products
    BY <1>2, <1>3
  <2>2. QED BY <1>1, <1>3, <2>1 DEF Accounts, WaitsAfterCompletion, settings
<1>8. WaitIsCounted'
  BY <1>1 DEF WaitIsCounted
<1>9. ClearedSince'
  BY <1>1, <1>4 DEF Accounts, ClearedSince, SeenClear, settings
<1>10. QED BY <1>1, <1>4, <1>6, <1>7, <1>8, <1>9, ToldStays, ResultsStay DEF Accounts, AccountsInv

\* What the frames showed is what the loop counted: one more clear frame, or none.
LEMMA LookCounts ==
  ASSUME Types, WaitIsCounted, awaiting_clear, NEW clear \in BOOLEAN, NEW d \in 1..ClearTime,
         Look(clear, d)
  PROVE  /\ quiet'.frames = AtMost(ClearFrames + 1, IF clear THEN clear_count + 1 ELSE 0)
         /\ quiet'.time = AtMost(ClearTime, IF clear THEN Age(d) ELSE 0)
<1>1. /\ clear_count \in Nat /\ clear_age \in Nat /\ d \in Nat
      /\ ClearFrames \in Nat /\ ClearTime \in Nat \ {0}
  BY PipelineAssumption DEF Types, StationTypes
<1>2. /\ quiet.frames = AtMost(ClearFrames + 1, clear_count)
      /\ quiet.time = AtMost(ClearTime, clear_age)
  BY DEF WaitIsCounted
<1>3. CASE ~clear
  <2>1. quiet' = [frames |-> 0, time |-> 0]
    BY <1>3 DEF Look
  <2>2. QED BY <1>1, <1>3, <2>1 DEF AtMost
<1>4. CASE clear
  <2>1. /\ quiet'.frames = AtMost(ClearFrames + 1, quiet.frames + 1)
        /\ quiet'.time = IF quiet.frames = 0 THEN 0 ELSE AtMost(ClearTime, quiet.time + d)
    BY <1>4 DEF Look, AtMost
  <2>2. quiet'.frames = AtMost(ClearFrames + 1, clear_count + 1)
    BY <1>1, <1>2, <2>1 DEF AtMost
  <2>3. quiet.frames = 0 <=> clear_count = 0
    BY <1>1, <1>2 DEF AtMost
  <2>4. quiet'.time = AtMost(ClearTime, Age(d))
    BY <1>1, <1>2, <2>1, <2>3 DEF AtMost, Age
  <2>5. QED BY <1>4, <2>2, <2>4
<1>5. QED BY <1>3, <1>4

\* The table the loop finds clear for long enough was seen clear for long enough.
LEMMA LongClear ==
  ASSUME Types, WaitIsCounted, awaiting_clear, NEW clear \in BOOLEAN, NEW d \in 1..ClearTime,
         Look(clear, d), clear, ClearLongEnough(Age(d))
  PROVE  SeenClear'
<1>1. /\ quiet'.frames = AtMost(ClearFrames + 1, clear_count + 1)
      /\ quiet'.time = AtMost(ClearTime, Age(d))
  BY LookCounts
<1>2. clear_count \in Nat /\ ClearFrames \in Nat /\ ClearTime \in Nat /\ Age(d) \in Nat
  BY PipelineAssumption DEF Types, StationTypes, Age
<1>3. QED BY <1>1, <1>2 DEF AtMost, SeenClear, ClearLongEnough

\* Waiting changes no product, and goes on counting.
LEMMA WaitingAccounts ==
  ASSUME Types, StationInv, Accounts, EndFrame, NEW clear \in BOOLEAN, NEW d \in 1..ClearTime,
         Look(clear, d), JudgeWhileWaiting(clear, Age(d))
  PROVE  Accounts'
<1>1. /\ loop = "commands" /\ loop' = "idle"
      /\ UNCHANGED <<settings, stopping, work_order, boxes, results>>
  BY EndOfFrame DEF mes
<1>2. /\ awaiting_clear /\ product_id = None
      /\ UNCHANGED <<product_id, awaiting_clear, products>>
      /\ clear_count' = (IF clear THEN clear_count + 1 ELSE 0)
      /\ clear_age' = (IF clear THEN Age(d) ELSE 0)
  BY DEF JudgeWhileWaiting, Publish, Recorded, StationInv, Tied
<1>3. WaitIsCounted'
  BY <1>2, LookCounts DEF Accounts, WaitIsCounted
<1>4. Working' /\ WaitsAfterCompletion'
  BY <1>1, <1>2 DEF Working, WaitsAfterCompletion, settings
<1>5. With("COMPLETED")' = With("COMPLETED")
  BY <1>2 DEF With
<1>6. ClearedSince'
  BY <1>2 DEF ClearedSince
<1>7. QED BY <1>1, <1>3, <1>4, <1>5, <1>6, ToldStays, ResultsStay DEF Accounts, AccountsInv

\* The frame that finds the table clear for long enough opens a product.
LEMMA ClearedAccounts ==
  ASSUME Types, StationInv, Accounts, EndFrame, NEW clear \in BOOLEAN, NEW d \in 1..ClearTime,
         Look(clear, d), JudgeCleared(clear, Age(d))
  PROVE  Accounts'
<1> DEFINE ps == Opened(products, recipe)
           n == Len(products) + 1
<1>1. /\ loop = "commands" /\ loop' = "idle"
      /\ UNCHANGED <<settings, stopping, work_order, boxes, results>>
  BY EndOfFrame DEF mes
<1>2. /\ ~awaiting_clear' /\ product_id' = n
      /\ products' = Recorded(ps, n, core', NothingLeft)
  BY DEF JudgeCleared, Publish
<1>3. /\ products \in Seq(Product) /\ recipe \in Recipes /\ core' \in Cores /\ n \in Nat
  BY TypesKept DEF Types, StationTypes, PipelineNext, LoopStep
<1>4. /\ ps \in Seq(Product) /\ Len(ps) = n /\ n \in DOMAIN ps
      /\ DOMAIN ps = DOMAIN products \union {n}
      /\ ps[n].result = "OPEN"
      /\ \A q \in DOMAIN products :
           ps[q].result = IF products[q].result = "OPEN" THEN "ABANDONED" ELSE products[q].result
  <2>1. FreshProduct(recipe).result = "OPEN"
    BY DEF FreshProduct
  <2>2. /\ ps \in Seq(Product) /\ Len(ps) = n
        /\ DOMAIN ps = DOMAIN products \union {n}
        /\ ps[n] = FreshProduct(recipe)
        /\ \A q \in DOMAIN products :
             ps[q].result = IF products[q].result = "OPEN" THEN "ABANDONED" ELSE products[q].result
    BY <1>3, OpenedShape
  <2> HIDE DEF ps, n
  <2>3. QED BY <2>1, <2>2
<1> HIDE DEF ps
<1>5. /\ DOMAIN products' = DOMAIN ps /\ Len(products') = n
      /\ \A q \in DOMAIN ps : products'[q].result = ps[q].result
  <2> HIDE DEF n
  <2>1. /\ ps \in Seq(Product) /\ n \in {None} \union DOMAIN ps /\ core' \in Cores
        /\ NothingLeft \in BOOLEAN /\ Len(ps) = n
    BY <1>3, <1>4, LeftOrNot
  <2>2. /\ Len(Recorded(ps, n, core', NothingLeft)) = Len(ps)
        /\ DOMAIN Recorded(ps, n, core', NothingLeft) = DOMAIN ps
        /\ \A q \in DOMAIN ps : Recorded(ps, n, core', NothingLeft)[q].result = ps[q].result
    BY ONLY <2>1, RecordedShape, PipelineAssumption, SMTT(40)
  <2>3. QED BY <1>2, <2>1, <2>2
<1>6. With("COMPLETED")' = With("COMPLETED")
  <2> HIDE DEF n
  <2>1. QED BY <1>4, <1>5 DEF With
<1>7. Working' /\ WaitsAfterCompletion'
  <2> HIDE DEF n
  <2>1. products'[n].result = "OPEN"
    BY <1>4, <1>5
  <2>2. QED BY <1>1, <1>2, <1>5, <2>1 DEF Working, IsOpen, WaitsAfterCompletion
<1>8. WaitIsCounted'
  BY <1>2 DEF WaitIsCounted
<1>9. ClearedSince'
  BY LongClear DEF Accounts, ClearedSince, JudgeCleared
<1>10. QED BY <1>1, <1>6, <1>7, <1>8, <1>9, ToldStays, ResultsStay DEF Accounts, AccountsInv

\* Stopping abandons the product at work and completes none.
LEMMA FinishStopAccounts ==
  ASSUME Types, StationInv, Accounts, FinishStop
  PROVE  Accounts'
<1>1. /\ stopping = "set" /\ stopping' \notin {"no", "set"}
      /\ stopping' = (IF loop \in {"ended", "dead"} THEN "joined" ELSE "gave_up")
      /\ products' = (IF IsOpen(product_id) THEN Closed(product_id, "ABANDONED") ELSE products)
      /\ UNCHANGED <<settings, station, loop, work_order, boxes, results, quiet>>
  BY DEF FinishStop, mes
<1>2. UNCHANGED <<product_id, awaiting_clear, clear_count, clear_age, require_clear>>
  BY <1>1 DEF station, settings
<1>3. loop # "dead"
  BY <1>1 DEF Accounts, AccountsInv, Working
<1>4. Working'
  BY <1>1, <1>3 DEF Working
<1>5. /\ With("COMPLETED")' = With("COMPLETED")
      /\ DOMAIN products' = DOMAIN products /\ Len(products') = Len(products)
      /\ \A q \in DOMAIN products :
           products'[q].result = "COMPLETED" <=> products[q].result = "COMPLETED"
  <2>1. CASE ~IsOpen(product_id)
    BY <1>1, <2>1 DEF With
  <2>2. CASE IsOpen(product_id)
    <3>1. /\ product_id \in DOMAIN products /\ products[product_id].result = "OPEN"
          /\ products \in Seq(Product) /\ "ABANDONED" \in Outcomes
      BY <2>2, ProductNumbers DEF Outcomes
    <3>2. /\ DOMAIN products' = DOMAIN products /\ Len(products') = Len(products)
          /\ products'[product_id].result = "ABANDONED"
          /\ \A q \in DOMAIN products : q # product_id => products'[q] = products[q]
      BY <1>1, <2>2, <3>1, ClosedShape
    <3>3. QED BY <3>1, <3>2 DEF With
  <2>3. QED BY <2>1, <2>2
<1>6. WaitsAfterCompletion'
  <2>1. products' # <<>> => products # <<>> /\ Len(products) \in DOMAIN products
    <3>1. products \in Seq(Product)
      BY DEF Types, StationTypes
    <3>2. QED BY <1>5, <3>1
  <2>2. QED BY <1>2, <1>5, <2>1 DEF Accounts, WaitsAfterCompletion
<1>7. WaitIsCounted'
  BY <1>1, <1>2 DEF Accounts, WaitIsCounted
<1>8. ClearedSince'
  BY <1>1, <1>2, <1>5 DEF Accounts, ClearedSince, SeenClear
<1>9. QED BY <1>1, <1>4, <1>5, <1>6, <1>7, <1>8, ToldStays, ResultsStay DEF Accounts, AccountsInv

\* An order accepted starts from no product; one cancelled keeps what was counted.
LEMMA MesStepAccounts ==
  ASSUME Types, Accounts, MesStep
  PROVE  Accounts'
<1>1. UNCHANGED <<core, settings, station, loop, stopping, products, boxes, results, quiet>>
  BY DEF MesStep, AcceptOrder, CancelOrder, PutWorkOrder
<1>2. /\ work_order \in [id : Orders \union {None}, done : Nat, status : OrderStatus]
      /\ Quantity \in Nat \ {0}
  BY PipelineAssumption DEF Types, QueueTypes
<1>3. ResultsRun'
  <2>1. ASSUME NEW o \in Orders, AcceptOrder(o) PROVE ResultsRun'
    <3>1. work_order'.done = 0 /\ work_order'.status = "IN_PROGRESS" /\ results' = results
      BY <2>1 DEF AcceptOrder
    <3>2. QED BY <1>2, <3>1 DEF Accounts, AccountsInv, ResultsRun
  <2>2. CASE CancelOrder
    <3>1. /\ work_order'.done = work_order.done /\ work_order'.id = work_order.id
          /\ work_order'.status = "CANCELLED" /\ results' = results
          /\ work_order.status = "IN_PROGRESS"
      BY <1>2, <2>2 DEF CancelOrder, Active
    <3>2. QED BY <3>1 DEF Accounts, AccountsInv, ResultsRun, Last
  <2>3. CASE PutWorkOrder
    BY <2>3, ResultsStay DEF PutWorkOrder, Accounts, AccountsInv
  <2>4. QED BY <2>1, <2>2, <2>3 DEF MesStep
<1>4. QED BY <1>1, <1>3, AccountsStay DEF station, settings

\* No step breaks the accounts while MesLink's writes succeed.
LEMMA AccountsKept ==
  ASSUME ~MesMayFail, Types, StationInv, Accounts, [PipelineNext]_vars
  PROVE  Accounts'
<1>1. CASE TakeFrame
  BY <1>1, TakeFrameAccounts
<1>2. CASE Commands
  BY <1>2, ReplacingAccounts, CompleteAccounts DEF Commands
<1>3. CASE EndFrame
  <2>1. CASE JudgeFrame
    BY <1>3, <2>1, JudgeFrameAccounts
  <2>2. CASE ~JudgeFrame
    <3>1. PICK clear \in BOOLEAN, d \in 1..ClearTime :
            /\ Look(clear, d)
            /\ JudgeWhileWaiting(clear, Age(d)) \/ JudgeCleared(clear, Age(d))
      BY <1>3, <2>2, EndOfFrame
    <3>2. QED BY <1>3, <3>1, WaitingAccounts, ClearedAccounts
  <2>3. QED BY <2>1, <2>2
<1>4. CASE EndLoop
  <2>1. /\ UNCHANGED <<station, settings, stopping, products, work_order, boxes, results, quiet>>
        /\ loop' # "dead"
    BY <1>4 DEF EndLoop, mes
  <2>2. QED BY <2>1, AccountsStay, ResultsStay DEF Accounts, AccountsInv, station, settings
<1>5. CASE WebStep
  <2>1. UNCHANGED <<settings, station, loop, stopping, products, work_order, boxes, results, quiet>>
    BY <1>5, WebStepLeaves DEF mes
  <2>2. QED BY <2>1, AccountsStay, ResultsStay DEF Accounts, AccountsInv, station, settings
<1>6. CASE MesStep
  BY <1>6, MesStepAccounts
<1>7. CASE RequestStop
  <2>1. /\ UNCHANGED <<settings, station, loop, products, work_order, boxes, results, quiet>>
        /\ stopping = "no" /\ stopping' = "set"
    BY <1>7 DEF RequestStop, mes
  <2>2. QED BY <2>1, AccountsStay, ResultsStay DEF Accounts, AccountsInv, station, settings
<1>8. CASE FinishStop
  BY <1>8, FinishStopAccounts
<1>9. CASE UNCHANGED vars
  <2>1. UNCHANGED <<settings, station, loop, stopping, products, work_order, boxes, results, quiet>>
    BY <1>9 DEF vars, mes
  <2>2. QED BY <2>1, AccountsStay, ResultsStay DEF Accounts, AccountsInv, station, settings
<1>10. QED BY <1>1, <1>2, <1>3, <1>4, <1>5, <1>6, <1>7, <1>8, <1>9 DEF PipelineNext, LoopStep

\* The accounts are right at all times.
LEMMA AccountsHold ==
  ASSUME ~MesMayFail
  PROVE  PipelineSpec => [](Types /\ StationInv /\ Accounts)
<1>1. PipelineInit => Types /\ StationInv /\ Accounts
  BY InitTypes, InitStation, InitAccounts DEF Accounts
<1>2. Types /\ StationInv /\ Accounts /\ [PipelineNext]_vars => (Types /\ StationInv /\ Accounts)'
  BY TypesKept, StationKept, AccountsKept
<1>3. QED BY <1>1, <1>2, PTL DEF PipelineSpec

\* While MesLink's database takes its writes, no sequence of commands makes
\* close_product raise where nothing catches it (pipeline.py:208-252).
THEOREM LoopAlwaysSurvives ==
  ASSUME ~MesMayFail PROVE PipelineSpec => []LoopSurvives
<1>1. Accounts => LoopSurvives
  BY DEF Accounts, AccountsInv, Working, LoopSurvives
<1>2. QED BY <1>1, AccountsHold, PTL

\* While MesLink's database takes its writes, a caller is told "ok" of a COMPLETED
\* product, one caller of each (pipeline.py:131-134, 238-252).
THEOREM EveryAnswerIsTrue ==
  ASSUME ~MesMayFail PROVE PipelineSpec => []AnswersMatchProducts
<1>1. Accounts => AnswersMatchProducts
  BY DEF Accounts, AccountsInv, ToldOnce, AnswersMatchProducts, With
<1>2. QED BY <1>1, AccountsHold, PTL

\* While MesLink's database takes its writes, the results it records are those of
\* the completed products, each once, in the order's own numbering
\* (mes_link.py:110-123, 171-193).
THEOREM EveryResultIsCounted ==
  ASSUME ~MesMayFail PROVE PipelineSpec => []ResultsMatchProducts
<1>1. Accounts => ResultsMatchProducts
  BY DEF Accounts, AccountsInv, ToldOnce, ResultsRun, ResultsMatchProducts
<1>2. QED BY <1>1, AccountsHold, PTL

\* What a step that opens a product after a completed one has seen of the table.
ClearStep ==
  LET n == Len(products)
      opens == Len(products') > n
  IN  opens /\ n > 0 /\ require_clear /\ products[n].result = "COMPLETED"
        => SeenClear'

\* Only the frame that finds the table clear opens a product while the loop waits.
LEMMA OpensWhenClear ==
  ASSUME Types, StationInv, WaitsAfterCompletion, WaitIsCounted, [PipelineNext]_vars
  PROVE  ClearStep
<1>1. products \in Seq(Product)
  BY DEF Types, StationTypes
<1> SUFFICES ASSUME Len(products') > Len(products), products # <<>>, require_clear,
                    products[Len(products)].result = "COMPLETED"
             PROVE  SeenClear'
  BY <1>1 DEF ClearStep
<1>2. awaiting_clear /\ product_id = None
  BY DEF WaitsAfterCompletion, StationInv, Tied
<1>3. products' # products
  BY <1>1
<1>4. ~TakeFrame
  BY <1>2, <1>3 DEF TakeFrame
<1>5. ~Commands
  <2>1. CASE ApplyRecipe \/ ApplyReset \/ ApplyWorkOrder
    <3>1. /\ StartsOver \/ Raises
          /\ UNCHANGED awaiting_clear
      BY <2>1, ReplacingStep
    <3>2. PICK r \in Recipes : StartOver(products, r)
      BY <1>2, <3>1 DEF StartsOver, Raises, IsOpen
    <3>3. QED BY <1>1, <1>2, <1>3, <3>1, <3>2, StartOverShape
  <2>2. CASE ApplyComplete
    BY <1>2, <1>3, <2>2 DEF ApplyComplete, CompleteSucceeds, CompleteRefused, CompleteFails, IsOpen
  <2>3. QED BY <2>1, <2>2 DEF Commands
<1>6. ~FinishStop /\ ~RequestStop /\ ~WebStep /\ ~MesStep /\ ~EndLoop /\ ~UNCHANGED vars
  <2>1. ~FinishStop
    BY <1>2, <1>3 DEF FinishStop, IsOpen
  <2>2. ~WebStep
    BY <1>3, WebStepLeaves
  <2>3. ~RequestStop /\ ~MesStep /\ ~EndLoop /\ ~UNCHANGED vars
    BY <1>3 DEF RequestStop, MesStep, AcceptOrder, CancelOrder, PutWorkOrder, EndLoop, vars
  <2>4. QED BY <2>1, <2>2, <2>3
<1>7. EndFrame
  BY <1>4, <1>5, <1>6 DEF PipelineNext, LoopStep
<1>8. PICK clear \in BOOLEAN, d \in 1..ClearTime :
        /\ Look(clear, d)
        /\ JudgeWhileWaiting(clear, Age(d)) \/ JudgeCleared(clear, Age(d))
  BY <1>2, <1>7, EndOfFrame DEF JudgeFrame
<1>9. clear /\ ClearLongEnough(Age(d))
  BY <1>2, <1>3, <1>8 DEF JudgeWhileWaiting, JudgeCleared, Publish, Recorded
<1>10. QED BY <1>2, <1>8, <1>9, LongClear

\* While MesLink's database takes its writes, the product after a completed one is
\* opened only once the table was seen clear for long enough, whatever resets and
\* orders come in between (pipeline.py:82-86, 181-198).
THEOREM ClearBetweenAll ==
  ASSUME ~MesMayFail PROVE PipelineSpec => ClearBetweenProducts
<1>1. Types /\ StationInv /\ Accounts /\ [PipelineNext]_vars => [ClearStep]_vars
  BY OpensWhenClear DEF Accounts
<1>2. QED BY <1>1, AccountsHold, PTL DEF PipelineSpec, ClearBetweenProducts, ClearStep

-----------------------------------------------------------------------------
(* Whose pieces opened the gate                                            *)

\* On a live camera no gate was opened over a finished product.
GatesCleared ==
  require_clear => \A p \in DOMAIN products : products[p].gated => products[p].cleared

\* A product opened is not gated, and the others keep what they were.
LEMMA OpenedRows ==
  ASSUME NEW ps \in Seq(Product), NEW r \in Recipes
  PROVE  /\ DOMAIN Opened(ps, r) = DOMAIN ps \union {Len(ps) + 1}
         /\ ~Opened(ps, r)[Len(ps) + 1].gated
         /\ \A q \in DOMAIN ps : /\ Opened(ps, r)[q].gated = ps[q].gated
                                 /\ Opened(ps, r)[q].cleared = ps[q].cleared
<1>1. ~FreshProduct(r).gated
  BY DEF FreshProduct
<1>2. /\ DOMAIN Opened(ps, r) = DOMAIN ps \union {Len(ps) + 1}
      /\ Opened(ps, r)[Len(ps) + 1] = FreshProduct(r)
      /\ \A q \in DOMAIN ps : /\ Opened(ps, r)[q].gated = ps[q].gated
                              /\ Opened(ps, r)[q].cleared = ps[q].cleared
  BY OpenedShape
<1>3. QED BY <1>1, <1>2

\* Closing products and opening the next one gates none and forgets none.
LEMMA StartOverRows ==
  ASSUME NEW ps \in Seq(Product), NEW r \in Recipes, StartOver(ps, r), awaiting_clear' \in BOOLEAN,
         \A q \in DOMAIN ps : ps[q].gated => ps[q].cleared
  PROVE  \A q \in DOMAIN products' : products'[q].gated => products'[q].cleared
<1>1. products' = ps \/ products' = Opened(ps, r)
  BY StartOverShape
<1>2. /\ DOMAIN Opened(ps, r) = DOMAIN ps \union {Len(ps) + 1}
      /\ ~Opened(ps, r)[Len(ps) + 1].gated
      /\ \A q \in DOMAIN ps : /\ Opened(ps, r)[q].gated = ps[q].gated
                              /\ Opened(ps, r)[q].cleared = ps[q].cleared
  BY OpenedRows
<1>3. QED BY <1>1, <1>2

\* ... and so does a command.
LEMMA CommandRows ==
  ASSUME Types, StationInv, Commands, \A q \in DOMAIN products : products[q].gated => products[q].cleared
  PROVE  \A q \in DOMAIN products' : products'[q].gated => products'[q].cleared
<1>1. products \in Seq(Product) /\ recipe \in Recipes /\ awaiting_clear \in BOOLEAN
      /\ require_clear \in BOOLEAN
  BY DEF Types, StationTypes, OtherTypes
<1>2. ASSUME IsOpen(product_id), NEW x \in Outcomes
      PROVE  /\ Closed(product_id, x) \in Seq(Product)
             /\ \A q \in DOMAIN Closed(product_id, x) :
                  Closed(product_id, x)[q].gated => Closed(product_id, x)[q].cleared
  BY <1>1, <1>2, ProductNumbers, ClosedShape
<1>3. CASE ApplyRecipe \/ ApplyReset \/ ApplyWorkOrder
  <2>1. (StartsOver \/ Raises) /\ UNCHANGED awaiting_clear
    BY <1>3, ReplacingStep
  <2>2. CASE Raises
    BY <2>2 DEF Raises, Raise
  <2>3. CASE \E r \in Recipes : ~IsOpen(product_id) /\ StartOver(products, r)
    BY <1>1, <2>1, <2>3, StartOverRows
  <2>4. ASSUME NEW r \in Recipes, NEW x \in {"ABANDONED", "DISCARDED"},
               IsOpen(product_id), StartOver(Closed(product_id, x), r)
        PROVE  \A q \in DOMAIN products' : products'[q].gated => products'[q].cleared
    <3>1. x \in Outcomes
      BY DEF Outcomes
    <3>2. QED BY <1>1, <1>2, <2>1, <2>4, <3>1, StartOverRows
  <2>5. QED BY <2>1, <2>2, <2>3, <2>4 DEF StartsOver
<1>4. CASE ApplyComplete
  <2>1. "COMPLETED" \in Outcomes
    BY DEF Outcomes
  <2>2. CASE CompleteSucceeds
    <3>1. /\ IsOpen(product_id) /\ StartOver(Closed(product_id, "COMPLETED"), recipe)
          /\ awaiting_clear' \in BOOLEAN
      BY <1>1, <2>2 DEF CompleteSucceeds
    <3>2. QED BY <1>1, <1>2, <2>1, <3>1, StartOverRows
  <2>3. CASE CompleteRefused
    BY <2>3 DEF CompleteRefused
  <2>4. CASE CompleteFails
    BY <1>2, <2>1, <2>4 DEF CompleteFails
  <2>5. QED BY <1>4, <2>2, <2>3, <2>4 DEF ApplyComplete
<1>5. QED BY <1>3, <1>4 DEF Commands

\* A gate that opens on a live camera opens on a table seen clear.
LEMMA FrameRows ==
  ASSUME Types, StationInv, Accounts, EndFrame, require_clear,
         \A q \in DOMAIN products : products[q].gated => products[q].cleared
  PROVE  \A q \in DOMAIN products' : products'[q].gated => products'[q].cleared
<1>1. products \in Seq(Product) /\ recipe \in Recipes /\ core \in Cores
  BY DEF Types, StationTypes
<1>2. CASE JudgeFrame
  <2>1. /\ ~awaiting_clear /\ quiet' = quiet
        /\ products' = Recorded(products, product_id, core', NothingLeft)
        /\ product_id \in {None} \union DOMAIN products /\ core' \in Cores
    BY <1>2, TypesKept DEF JudgeFrame, Publish, Types, StationTypes, PipelineNext, LoopStep
  <2>2. NothingLeft
    BY <2>1 DEF NothingLeft, Accounts, ClearedSince, SeenClear
  <2>3. /\ DOMAIN products' = DOMAIN products
        /\ \A q \in DOMAIN products : q # product_id => products'[q] = products[q]
        /\ product_id # None =>
             /\ products'[product_id].gated = (products[product_id].gated \/ GateOpens(core'))
             /\ products'[product_id].cleared
                  = (products[product_id].cleared
                       \/ (~products[product_id].gated /\ GateOpens(core') /\ NothingLeft))
    BY <1>1, <2>1, RecordedShape, LeftOrNot
  <2>4. None \notin DOMAIN products
    BY <1>1, PipelineAssumption
  <2>5. QED BY <2>2, <2>3, <2>4
<1>3. ASSUME NEW clear \in BOOLEAN, NEW d \in 1..ClearTime,
             Look(clear, d), JudgeWhileWaiting(clear, Age(d)) \/ JudgeCleared(clear, Age(d))
      PROVE  \A q \in DOMAIN products' : products'[q].gated => products'[q].cleared
  <2>1. CASE JudgeWhileWaiting(clear, Age(d))
    BY <2>1 DEF JudgeWhileWaiting, Publish, Recorded, StationInv, Tied
  <2>2. CASE JudgeCleared(clear, Age(d))
    <3>1. NothingLeft
      BY <1>3, <2>2, LongClear DEF NothingLeft, Accounts, JudgeCleared
    <3> DEFINE ps == Opened(products, recipe)
               n == Len(products) + 1
    <3>2. products' = Recorded(ps, n, core', NothingLeft) /\ core' \in Cores
      BY <2>2, TypesKept DEF JudgeCleared, Publish, Types, StationTypes, PipelineNext, LoopStep
    <3>3. /\ ps \in Seq(Product) /\ n \in DOMAIN ps /\ n # None
          /\ DOMAIN ps = DOMAIN products \union {n}
          /\ ps[n] = FreshProduct(recipe)
          /\ \A q \in DOMAIN products : ps[q].gated = products[q].gated /\ ps[q].cleared = products[q].cleared
      <4>1. n \in Nat /\ n # None
        BY <1>1, PipelineAssumption
      <4>2. /\ ps \in Seq(Product) /\ DOMAIN ps = DOMAIN products \union {n}
            /\ ps[n] = FreshProduct(recipe)
            /\ \A q \in DOMAIN products :
                 ps[q].gated = products[q].gated /\ ps[q].cleared = products[q].cleared
        BY <1>1, OpenedShape
      <4> HIDE DEF ps, n
      <4>3. QED BY <4>1, <4>2
    <3> HIDE DEF ps, n
    <3>4. \A q \in DOMAIN ps : ps[q].gated => ps[q].cleared
      BY <3>3 DEF FreshProduct
    <3>5. /\ DOMAIN Recorded(ps, n, core', NothingLeft) = DOMAIN ps
          /\ \A q \in DOMAIN ps : q # n => Recorded(ps, n, core', NothingLeft)[q] = ps[q]
          /\ Recorded(ps, n, core', NothingLeft)[n].gated = (ps[n].gated \/ GateOpens(core'))
          /\ Recorded(ps, n, core', NothingLeft)[n].cleared
               = (ps[n].cleared \/ (~ps[n].gated /\ GateOpens(core') /\ NothingLeft))
      BY <3>2, <3>3, RecordedShape, LeftOrNot
    <3>6. QED BY <3>1, <3>2, <3>4, <3>5
  <2>3. QED BY <1>3, <2>1, <2>2
<1>4. QED BY <1>2, <1>3, EndOfFrame

\* No step of the station opens a gate over a finished product.
LEMMA GatesKept ==
  ASSUME Types, StationInv, Accounts, GatesCleared, [PipelineNext]_vars
  PROVE  GatesCleared'
<1> DEFINE Rows(ps) == \A q \in DOMAIN ps : ps[q].gated => ps[q].cleared
<1>1. require_clear' = require_clear
  BY DEF PipelineNext, LoopStep, TakeFrame, Commands, ApplyRecipe, ApplyReset, ApplyWorkOrder,
         ApplyComplete, EndFrame, EndLoop, WebStep, CheckClear, CheckOrder, CheckPass, PutComplete,
         ReturnAnswer, TimeOut, RequestReset, SelectRecipe, Request, MesStep, AcceptOrder,
         CancelOrder, PutWorkOrder, RequestStop, FinishStop, vars, settings
<1> SUFFICES ASSUME require_clear, Rows(products) PROVE Rows(products')
  BY <1>1 DEF GatesCleared
<1>2. CASE TakeFrame
  <2>1. CASE product_id = None /\ ~awaiting_clear
    <3>1. /\ products \in Seq(Product) /\ recipe \in Recipes /\ products' = Opened(products, recipe)
      BY <1>2, <2>1 DEF TakeFrame, NewProduct, Types, StationTypes
    <3>2. /\ DOMAIN products' = DOMAIN products \union {Len(products) + 1}
          /\ ~products'[Len(products) + 1].gated
          /\ \A q \in DOMAIN products : /\ products'[q].gated = products[q].gated
                                        /\ products'[q].cleared = products[q].cleared
      BY <3>1, OpenedRows
    <3>3. QED BY <3>2
  <2>2. QED BY <1>2, <2>1 DEF TakeFrame
<1>3. CASE Commands
  BY <1>3, CommandRows
<1>4. CASE EndFrame
  BY <1>4, FrameRows
<1>5. CASE FinishStop
  <2>1. CASE IsOpen(product_id)
    <3>1. "ABANDONED" \in Outcomes /\ products \in Seq(Product)
      BY DEF Outcomes, Types, StationTypes
    <3>2. products' = Closed(product_id, "ABANDONED")
      BY <1>5, <2>1 DEF FinishStop
    <3>3. QED BY <2>1, <3>1, <3>2, ProductNumbers, ClosedShape
  <2>2. QED BY <1>5, <2>1 DEF FinishStop
<1>6. CASE EndLoop \/ WebStep \/ MesStep \/ RequestStop \/ UNCHANGED vars
  <2>1. products' = products
    BY <1>6, WebStepLeaves DEF EndLoop, MesStep, AcceptOrder, CancelOrder, PutWorkOrder, RequestStop, vars
  <2>2. QED BY <2>1
<1>7. QED BY <1>2, <1>3, <1>4, <1>5, <1>6 DEF PipelineNext, LoopStep

\* While MesLink's database takes its writes, a PASS is confirmed only behind a gate
\* its own frames opened and, on a live camera, opened when the table had been seen
\* clear since the last completion (pipeline.py:82-86, 149-154, 181-198, 248, 263).
THEOREM EveryPassIsItsOwn ==
  ASSUME ~MesMayFail PROVE PipelineSpec => []PassIsItsOwn
<1>1. PipelineInit => GatesCleared
  BY DEF PipelineInit, GatesCleared
<1>2. Types /\ StationInv /\ Accounts /\ GatesCleared /\ [PipelineNext]_vars => GatesCleared'
  BY GatesKept
<1>3. StationInv /\ GatesCleared => PassIsItsOwn
  BY DEF StationInv, Tied, GatesCleared, PassIsItsOwn
<1>4. QED BY <1>1, <1>2, <1>3, AccountsHold, PTL DEF PipelineSpec

===============================================================================
