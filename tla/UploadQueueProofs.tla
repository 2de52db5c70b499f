-------------------------- MODULE UploadQueueProofs --------------------------
(***************************************************************************)
(* Proofs about UploadQueue for every set of policies, attempt budget and  *)
(* number of items, requests and interruptions.                            *)
(***************************************************************************)
EXTENDS UploadQueue, TLAPS

------------------------------------------------------------------------------
(* The inductive invariant *)

\* Ids that were never inserted are absent; the others name their policy.
Inserted ==
  \A i \in Item : /\ i > inserted => items[i].status = "absent"
                  /\ i <= inserted => items[i].policy \in Policy

InFlight(i) == runner.pc \in {"upload", "settle"} /\ runner.item = i

\* An attempt in flight is of an item that was inserted.
Flies == runner.pc \in {"upload", "settle"} =>
           runner.item \in Item /\ runner.item <= inserted

\* A request names what it is about.
Asks == \A s \in Request : /\ req[s].op = "enqueue" => req[s].policy \in Policy
                           /\ req[s].op = "retry" => req[s].item \in Item

\* The attempt in flight is counted already; every other item that is due has an
\* attempt left, which is what lets the next start count one more.
Left == \A i \in Item : items[i].status \in Due /\ ~InFlight(i)
                        => items[i].attempts < MaxAttempts + cuts

IInv == TypeOK /\ Inserted /\ Flies /\ Asks /\ BudgetKept /\ Left

------------------------------------------------------------------------------
(* Lemmas *)

\* The constants of the module are of their types.
LEMMA Constants ==
  /\ NoItem \in RowState /\ NoPass \in PassState /\ NoSweep \in SweepState
  /\ Idle \in RequestState
  /\ Item \subseteq Nat
BY DEF NoItem, RowState, ItemStatus, Due, Settled, NoPass, PassState, Item,
       Result, NoList, Recording, Secured, NoSweep, SweepState, Idle,
       RequestState

\* The list of statuses is one.
LEMMA StatusesType ==
  ASSUME TypeOK
  PROVE  Statuses \in [Item -> ItemStatus]
BY DEF TypeOK, Statuses, RowState

\* Numbers are numbers.
LEMMA Numbers ==
  ASSUME TypeOK
  PROVE  /\ cuts \in Nat /\ inserted \in Nat /\ MaxAttempts \in Nat
         /\ MaxAttempts >= 1
         /\ \A i \in Item : i \in Nat /\ items[i].attempts \in Nat
BY UploadQueueAssumption, Constants DEF TypeOK, RowState

\* A step that leaves the items and the pass alone keeps what is known of them.
LEMMA TableStutter ==
  ASSUME IInv, UNCHANGED <<items, inserted, runner, cuts>>
  PROVE  /\ items' \in [Item -> RowState] /\ inserted' \in 0 .. MaxItems
         /\ runner' \in PassState /\ cuts' \in 0 .. MaxCuts
         /\ Inserted' /\ Flies' /\ BudgetKept' /\ Left'
BY DEF IInv, TypeOK, Inserted, Flies, BudgetKept, Left, InFlight

\* A request step that only moves the request.
LEMMA RequestMoves ==
  ASSUME IInv, NEW s \in Request, NEW q \in RequestState,
         req' = [req EXCEPT ![s] = q],
         q.op = "enqueue" => q.policy \in Policy,
         q.op = "retry" => q.item \in Item
  PROVE  req' \in [Request -> RequestState] /\ Asks'
BY DEF IInv, TypeOK, Asks

\* A request step that changes neither the items nor the pass.
LEMMA RequestOnly ==
  ASSUME IInv, NEW s \in Request, NEW q \in RequestState,
         req' = [req EXCEPT ![s] = q],
         q.op = "enqueue" => q.policy \in Policy,
         q.op = "retry" => q.item \in Item,
         UNCHANGED <<table, file, delivered, runner, retention, cuts>>,
         rec' \in Recording
  PROVE  IInv'
<1>1. UNCHANGED <<items, inserted, runner, cuts>>
  BY DEF table
<1>2. req' \in [Request -> RequestState] /\ Asks'
  BY RequestMoves
<1> QED BY <1>1, <1>2, TableStutter DEF IInv, TypeOK

\* What is left to show of a step that rewrites items where they stand: none is
\* brought back, and one that may still be attempted has an attempt left.
LEMMA Rewrite ==
  ASSUME IInv, UNCHANGED <<inserted, rec, file, delivered, runner, retention, cuts>>,
         items' \in [Item -> RowState],
         \A i \in Item : /\ items'[i].policy = items[i].policy
                         /\ items[i].status = "absent" => items'[i].status = "absent"
                         /\ \/ items'[i].attempts = 0
                            \/ /\ items'[i].attempts = items[i].attempts
                               /\ items'[i].status \in Due => items[i].status \in Due,
         req' \in [Request -> RequestState], Asks'
  PROVE  IInv'
<1>1. Inserted' /\ Flies'
  BY DEF IInv, Inserted, Flies
<1>2. BudgetKept' /\ Left'
  <2>1. 0 < MaxAttempts + cuts
    BY Numbers DEF IInv
  <2> QED BY <2>1, Numbers DEF IInv, BudgetKept, Left, InFlight, TypeOK
<1> QED BY <1>1, <1>2 DEF IInv, TypeOK

\* What is left to show of a step of the pass that has no item in flight.
LEMMA PassMoves ==
  ASSUME IInv, runner.pc \notin {"upload", "settle"},
         runner' \in PassState, runner'.pc \notin {"upload", "settle"},
         items' = items, UNCHANGED <<inserted, retention, req, cuts>>,
         rec' \in Recording, file' \in BOOLEAN, delivered' \subseteq Policy
  PROVE  IInv'
BY DEF IInv, TypeOK, Inserted, Flies, Asks, BudgetKept, Left, InFlight

------------------------------------------------------------------------------
(* Requests *)

LEMMA BeginStep ==
  ASSUME IInv, NEW s \in Request, NEW op, NEW pc, NEW p, NEW i, Begin(s, op, pc, p, i),
         [op |-> op, pc |-> pc, policy |-> p, item |-> i] \in RequestState,
         op = "enqueue" => p \in Policy, op = "retry" => i \in Item
  PROVE  IInv'
<1> DEFINE q == [op |-> op, pc |-> pc, policy |-> p, item |-> i]
<1>1. /\ req' = [req EXCEPT ![s] = q]
      /\ q.op = "enqueue" => q.policy \in Policy
      /\ q.op = "retry" => q.item \in Item
      /\ UNCHANGED <<table, rec, file, delivered, runner, retention, cuts>>
  BY DEF Begin
<1>2. rec' \in Recording
  BY <1>1 DEF IInv, TypeOK
<1>3. q \in RequestState
  OBVIOUS
<1> HIDE DEF q
<1> QED BY <1>1, <1>2, <1>3, RequestOnly

LEMMA BeginsStep ==
  ASSUME IInv, NEW s \in Request,
         BeginEnqueue(s) \/ BeginRetry(s) \/ BeginPurge(s)
  PROVE  IInv'
<1>1. CASE BeginEnqueue(s)
  <2>1. PICK p \in Policy : Begin(s, "enqueue", "select", p, 0)
    BY <1>1 DEF BeginEnqueue
  <2>2. [op |-> "enqueue", pc |-> "select", policy |-> p, item |-> 0] \in RequestState
    BY DEF RequestState
  <2> QED BY <2>1, <2>2, BeginStep
<1>2. CASE BeginRetry(s)
  <2>1. PICK i \in Item : Begin(s, "retry", "retry", "none", i)
    BY <1>2 DEF BeginRetry
  <2>2. [op |-> "retry", pc |-> "retry", policy |-> "none", item |-> i] \in RequestState
    BY DEF RequestState
  <2> QED BY <2>1, <2>2, BeginStep
<1>3. CASE BeginPurge(s)
  <2>1. Begin(s, "purge", "items", "none", 0)
    BY <1>3 DEF BeginPurge
  <2>2. [op |-> "purge", pc |-> "items", policy |-> "none", item |-> 0] \in RequestState
    BY DEF RequestState
  <2> QED BY <2>1, <2>2, BeginStep
<1> QED BY <1>1, <1>2, <1>3

\* Finishing a request, or moving it on, leaves it well-formed.
LEMMA RequestNext ==
  ASSUME IInv, NEW s \in Request, NEW pc \in {"insert", "save"},
         \/ Finish(s)
         \/ Goto(s, pc)
  PROVE  req' \in [Request -> RequestState] /\ Asks'
<1>1. CASE Finish(s)
  <2>1. /\ Idle.op # "enqueue" /\ Idle.op # "retry" /\ Idle \in RequestState
        /\ req' = [req EXCEPT ![s] = Idle]
    BY <1>1, Constants DEF Idle, Finish
  <2> QED BY <2>1, RequestMoves
<1>2. CASE Goto(s, pc)
  <2> DEFINE q == [req[s] EXCEPT !.pc = pc]
  <2>1. /\ q \in RequestState
        /\ q.op = "enqueue" => q.policy \in Policy
        /\ q.op = "retry" => q.item \in Item
        /\ req' = [req EXCEPT ![s] = q]
    BY <1>2 DEF IInv, TypeOK, Asks, Goto, RequestState
  <2> HIDE DEF q
  <2> QED BY <2>1, RequestMoves
<1> QED BY <1>1, <1>2

LEMMA EnqueueSelectStep ==
  ASSUME IInv, NEW s \in Request, EnqueueSelect(s)
  PROVE  IInv'
<1>1. Finish(s) \/ Goto(s, "insert")
  BY DEF EnqueueSelect
<1>2. req' \in [Request -> RequestState] /\ Asks'
  BY <1>1, RequestNext
<1> QED BY <1>2, TableStutter DEF EnqueueSelect, table, IInv, TypeOK

LEMMA EnqueueInsertStep ==
  ASSUME IInv, NEW s \in Request, EnqueueInsert(s)
  PROVE  IInv'
<1> DEFINE new == [policy |-> req[s].policy, status |-> "queued", attempts |-> 0,
                   due |-> TRUE]
           k == inserted + 1
<1>1. /\ k \in Item /\ inserted' = k /\ items' = [items EXCEPT ![k] = new]
      /\ UNCHANGED <<rec, file, delivered, runner, retention, cuts>>
      /\ req[s].policy \in Policy
  BY UploadQueueAssumption DEF EnqueueInsert, At, IInv, Asks, TypeOK, Item
<1>2. new \in RowState
  BY <1>1 DEF RowState, ItemStatus, Due
<1>3. req' \in [Request -> RequestState] /\ Asks'
  BY RequestNext DEF EnqueueInsert
<1>4. items' \in [Item -> RowState] /\ k \in 0 .. MaxItems
  BY <1>1, <1>2, UploadQueueAssumption DEF IInv, TypeOK, Item
<1>5. \A i \in Item : \/ i = k /\ items'[i] = new
                      \/ i # k /\ items'[i] = items[i]
  BY <1>1 DEF IInv, TypeOK
<1>6. Inserted' /\ Flies'
  BY <1>1, <1>5, Numbers DEF IInv, Inserted, Flies
<1>7. BudgetKept' /\ Left'
  <2>1. 0 < MaxAttempts + cuts /\ new.attempts = 0
    BY Numbers DEF IInv
  <2>2. ASSUME NEW i \in Item
        PROVE  /\ items'[i].attempts <= MaxAttempts + cuts'
               /\ items'[i].status \in Due /\ ~InFlight(i)'
                  => items'[i].attempts < MaxAttempts + cuts'
    BY <1>1, <1>5, <2>1, Numbers DEF IInv, BudgetKept, Left, InFlight
  <2> QED BY <2>2 DEF BudgetKept, Left
<1> QED BY <1>1, <1>3, <1>4, <1>6, <1>7 DEF IInv, TypeOK

LEMMA RetryStep ==
  ASSUME IInv, NEW s \in Request, Retry(s)
  PROVE  IInv'
<1> DEFINE k == req[s].item
<1>1. k \in Item /\ items' = Retried(k)
  BY DEF Retry, At, IInv, Asks
<1>2. req' \in [Request -> RequestState] /\ Asks'
  BY RequestNext DEF Retry
<1>3. items' \in [Item -> RowState]
  BY <1>1 DEF Retried, Updates, IInv, TypeOK, RowState, ItemStatus, Due
<1>4. \A i \in Item : /\ items'[i].policy = items[i].policy
                      /\ items[i].status = "absent" => items'[i].status = "absent"
                      /\ \/ items'[i].attempts = 0
                         \/ /\ items'[i].attempts = items[i].attempts
                            /\ items'[i].status \in Due => items[i].status \in Due
  BY <1>1 DEF Retried, Updates, IInv, TypeOK, RowState
<1> QED BY <1>2, <1>3, <1>4, Rewrite DEF Retry

LEMMA PurgeItemsStep ==
  ASSUME IInv, NEW s \in Request, PurgeItems(s)
  PROVE  IInv'
<1>1. items' = [i \in Item |-> [items[i] EXCEPT !.status = "absent", !.due = FALSE]]
  BY DEF PurgeItems
<1>2. req' \in [Request -> RequestState] /\ Asks'
  BY RequestNext DEF PurgeItems
<1>3. items' \in [Item -> RowState]
  BY <1>1 DEF IInv, TypeOK, RowState, ItemStatus
<1>4. \A i \in Item : /\ items'[i].policy = items[i].policy
                      /\ items'[i].status = "absent"
                      /\ items'[i].attempts = items[i].attempts
  BY <1>1 DEF IInv, TypeOK, RowState
<1>5. "absent" \notin Due
  BY DEF Due
<1> QED BY <1>2, <1>3, <1>4, <1>5, Rewrite DEF PurgeItems

LEMMA PurgeSaveStep ==
  ASSUME IInv, NEW s \in Request, PurgeSave(s)
  PROVE  IInv'
<1>1. req' \in [Request -> RequestState] /\ Asks'
  BY RequestNext DEF PurgeSave
<1>2. rec' \in Recording
  BY DEF PurgeSave, Recording
<1> QED BY <1>1, <1>2, TableStutter DEF PurgeSave, table, IInv, TypeOK

------------------------------------------------------------------------------
(* The runners *)

LEMMA ElapseStep ==
  ASSUME IInv, NEW k \in Item, Elapse(k)
  PROVE  IInv'
<1>1. items' = [items EXCEPT ![k].due = TRUE]
  BY DEF Elapse
<1>2. items' \in [Item -> RowState]
  BY <1>1 DEF IInv, TypeOK, RowState
<1>3. \A i \in Item : /\ items'[i].policy = items[i].policy
                      /\ items'[i].status = items[i].status
                      /\ items'[i].attempts = items[i].attempts
  BY <1>1 DEF IInv, TypeOK, RowState
<1>4. req' \in [Request -> RequestState] /\ Asks'
  BY DEF IInv, TypeOK, Asks, Elapse
<1> QED BY <1>2, <1>3, <1>4, Rewrite DEF Elapse

\* The steps of a pass that touch no item.
LEMMA PassOnlyStep ==
  ASSUME IInv,
         RunnerDue \/ RunnerList \/ RunnerReread \/ RunnerRelease \/ RunnerSave
  PROVE  IInv'
<1>1. NoPass \in PassState /\ Statuses \in [Item -> ItemStatus]
  BY Constants, StatusesType DEF IInv
<1>2. NoPass.pc \notin {"upload", "settle"}
  BY DEF NoPass
<1>3. CASE RunnerDue
  <2>1. PICK due \in SUBSET Item :
          runner' = [NoPass EXCEPT !.pc = "start", !.batch = due]
    BY <1>3 DEF RunnerDue, Pass
  <2>2. runner' \in PassState /\ runner'.pc = "start"
    BY <1>1, <2>1 DEF PassState, NoPass
  <2> QED BY <1>3, <2>2, PassMoves DEF RunnerDue, Runner, RestStays, IInv, TypeOK
<1>4. CASE RunnerList
  <2>1. runner' = NoPass \/ runner' = [runner EXCEPT !.pc = "reread", !.list = Statuses]
    BY <1>4 DEF RunnerList, Pass
  <2>2. runner' \in PassState /\ runner'.pc \notin {"upload", "settle"}
    BY <1>1, <1>2, <2>1 DEF PassState, IInv, TypeOK
  <2> QED BY <1>4, <2>2, PassMoves DEF RunnerList, Runner, RestStays, IInv, TypeOK
<1>5. CASE RunnerReread
  <2>1. runner' = NoPass \/ runner' = [runner EXCEPT !.pc = "release", !.copy = rec]
    BY <1>5 DEF RunnerReread, Pass
  <2>2. runner' \in PassState /\ runner'.pc \notin {"upload", "settle"}
    BY <1>1, <1>2, <2>1 DEF PassState, IInv, TypeOK
  <2> QED BY <1>5, <2>2, PassMoves DEF RunnerReread, Runner, RestStays, IInv, TypeOK
<1>6. CASE RunnerRelease
  <2>1. PICK release \in BOOLEAN :
          /\ file' = (file /\ ~release)
          /\ runner' = [runner EXCEPT !.pc = "save", !.deleted = release /\ file]
    BY <1>6 DEF RunnerRelease, Pass
  <2>2. runner' \in PassState /\ runner'.pc = "save" /\ file' \in BOOLEAN
    BY <2>1 DEF PassState, IInv, TypeOK
  <2> QED BY <1>6, <2>2, PassMoves DEF RunnerRelease, Runner, RestStays, IInv, TypeOK
<1>7. CASE RunnerSave
  <2>1. /\ Outcome(runner.list) \in {"partial", "uploaded"}
        /\ (runner.copy.named /\ ~runner.deleted) \in BOOLEAN
    BY DEF Outcome
  <2>2. rec' \in Recording
    BY <1>7, <2>1 DEF RunnerSave, Recording, Secured
  <2> QED BY <1>1, <1>2, <1>7, <2>2, PassMoves
          DEF RunnerSave, Pass, Runner, RestStays, IInv, TypeOK
<1> QED BY <1>3, <1>4, <1>5, <1>6, <1>7

\* start() counts an attempt that, by Left, the item still has.
LEMMA RunnerStartStep ==
  ASSUME IInv, RunnerStart
  PROVE  IInv'
<1>1. /\ runner.pc = "start"
      /\ UNCHANGED <<inserted, retention, req, cuts, rec, file, delivered>>
  BY DEF RunnerStart, Runner, RestStays
<1>2. CASE /\ runner.batch = {} /\ UNCHANGED items
           /\ runner' = [runner EXCEPT !.pc = IF runner.touched # {}
                                              THEN "list" ELSE "idle"]
  <2>1. runner' \in PassState /\ runner'.pc \in {"list", "idle"}
    BY <1>2 DEF IInv, TypeOK, PassState
  <2> QED BY <1>1, <1>2, <2>1, PassMoves DEF IInv, TypeOK
<1>3. ASSUME NEW i \in runner.batch, items[i].status \notin Due, UNCHANGED items,
             runner' = [runner EXCEPT !.batch = @ \ {i}]
      PROVE  IInv'
  <2>1. runner' \in PassState /\ runner'.pc = "start"
    BY <1>1, <1>3 DEF IInv, TypeOK, PassState
  <2> QED BY <1>1, <1>3, <2>1, PassMoves DEF IInv, TypeOK
<1>4. ASSUME NEW i \in runner.batch, items[i].status \in Due, items' = Started(i),
             runner' = [runner EXCEPT !.pc = "upload", !.item = i, !.batch = @ \ {i}]
      PROVE  IInv'
  <2>1. i \in Item /\ runner' \in PassState /\ runner'.pc = "upload" /\ runner'.item = i
    BY <1>4 DEF IInv, TypeOK, PassState
  <2>2. /\ items' \in [Item -> RowState]
        /\ items'[i].attempts = items[i].attempts + 1
        /\ items'[i].policy = items[i].policy
        /\ \A j \in Item : j # i => items'[j] = items[j]
    BY <1>4, <2>1 DEF Started, IInv, TypeOK, RowState, ItemStatus, Due
  <2>3. i <= inserted
    BY <1>4, <2>1, Numbers DEF IInv, Inserted, Due
  <2>4. items[i].attempts < MaxAttempts + cuts
    BY <1>1, <1>4, <2>1 DEF IInv, Left, InFlight
  <2>5. Inserted' /\ Flies'
    BY <1>1, <2>1, <2>2, <2>3, Numbers DEF IInv, Inserted, Flies
  <2>6. BudgetKept' /\ Left'
    BY <1>1, <2>1, <2>2, <2>4, Numbers DEF IInv, BudgetKept, Left, InFlight
  <2> QED BY <1>1, <2>1, <2>2, <2>5, <2>6 DEF IInv, TypeOK, Asks
<1>5. \/ /\ runner.batch = {} /\ UNCHANGED items
         /\ runner' = [runner EXCEPT !.pc = IF runner.touched # {}
                                            THEN "list" ELSE "idle"]
      \/ \E i \in runner.batch :
           \/ /\ items[i].status \notin Due /\ UNCHANGED items
              /\ runner' = [runner EXCEPT !.batch = @ \ {i}]
           \/ /\ items[i].status \in Due /\ items' = Started(i)
              /\ runner' = [runner EXCEPT !.pc = "upload", !.item = i,
                                          !.batch = @ \ {i}]
  BY DEF RunnerStart, Pass
<1> QED BY <1>2, <1>3, <1>4, <1>5

LEMMA RunnerUploadStep ==
  ASSUME IInv, RunnerUpload
  PROVE  IInv'
<1>1. PICK result \in Result \ {"none"} :
        /\ runner' = [runner EXCEPT !.pc = "settle", !.result = result]
        /\ delivered' = IF result = "failed" THEN delivered
                        ELSE delivered \cup {items[runner.item].policy}
  BY DEF RunnerUpload, Pass
<1>2. /\ runner.pc = "upload" /\ runner.item \in Item
      /\ items[runner.item].policy \in Policy
  BY DEF RunnerUpload, Runner, IInv, Flies, Inserted
<1>3. delivered' \subseteq Policy
  BY <1>1, <1>2 DEF IInv, TypeOK
<1>4. runner' \in PassState /\ runner'.pc = "settle" /\ runner'.item = runner.item
  BY <1>1 DEF IInv, TypeOK, PassState
<1>5. UNCHANGED <<items, inserted, rec, file, retention, req, cuts>>
  BY DEF RunnerUpload, RestStays
<1> QED BY <1>2, <1>3, <1>4, <1>5
        DEF IInv, TypeOK, Inserted, Flies, Asks, BudgetKept, Left, InFlight

\* fail() gives up an item whose budget is used up, so what stays due has an
\* attempt left.
LEMMA RunnerSettleStep ==
  ASSUME IInv, RunnerSettle
  PROVE  IInv'
<1> DEFINE k == runner.item
           status == IF runner.result # "failed" THEN "succeeded"
                     ELSE AfterFailure(items[k].attempts)
<1>1. /\ runner.pc = "settle" /\ k \in Item
      /\ UNCHANGED <<inserted, retention, req, cuts, rec, file, delivered>>
  BY DEF RunnerSettle, Updates, Runner, RestStays, IInv, Flies
<1>2. CASE items[k].status = "absent"
  <2>1. /\ runner' = [runner EXCEPT !.pc = "start", !.item = 0, !.result = "none"]
        /\ UNCHANGED items
    BY <1>2 DEF RunnerSettle, Updates, Pass
  <2>2. runner' \in PassState /\ runner'.pc = "start"
    BY <2>1 DEF IInv, TypeOK, PassState, Result
  <2>3. BudgetKept' /\ Left'
    BY <1>1, <1>2, <2>1, <2>2 DEF IInv, BudgetKept, Left, InFlight, Due
  <2> QED BY <1>1, <2>1, <2>2, <2>3 DEF IInv, TypeOK, Inserted, Flies, Asks
<1>3. CASE items[k].status # "absent"
  <2>1. /\ items' = [items EXCEPT ![k].status = status, ![k].due = FALSE]
        /\ runner' = [runner EXCEPT
                        !.pc = "start", !.item = 0, !.result = "none",
                        !.touched = @ \cup {k},
                        !.verified = IF runner.result = "verified"
                                     THEN @ \cup {k} ELSE @]
    BY <1>3 DEF RunnerSettle, Updates, Pass
  <2>2. runner' \in PassState /\ runner'.pc = "start"
    BY <1>1, <2>1 DEF IInv, TypeOK, PassState, Result
  <2>3. /\ status \in ItemStatus
        /\ status \in Due => items[k].attempts < MaxAttempts
    BY <1>1, Numbers DEF AfterFailure, ItemStatus, Due, Settled, IInv
  <2> HIDE DEF status
  <2>4. /\ items' \in [Item -> RowState]
        /\ items'[k].status = status
        /\ \A i \in Item : /\ items'[i].attempts = items[i].attempts
                           /\ items'[i].policy = items[i].policy
                           /\ i # k => items'[i].status = items[i].status
    BY <1>1, <2>1, <2>3 DEF IInv, TypeOK, RowState
  <2>5. Inserted' /\ Flies'
    BY <1>1, <1>3, <2>2, <2>4, Numbers DEF IInv, Inserted, Flies
  <2>6. BudgetKept' /\ Left'
    BY <1>1, <2>2, <2>3, <2>4, Numbers DEF IInv, BudgetKept, Left, InFlight
  <2> QED BY <1>1, <2>2, <2>4, <2>5, <2>6 DEF IInv, TypeOK, Asks
<1> QED BY <1>2, <1>3

LEMMA RetentionSteps ==
  ASSUME IInv, RetentionStep
  PROVE  IInv'
<1>1. UNCHANGED <<items, inserted, delivered, runner, req, cuts>>
  BY DEF RetentionStep, RetentionBegin, RetentionList, RetentionReread,
         RetentionUnlink, RetentionSave, Sweep
<1>2. retention' \in SweepState
  BY Constants, StatusesType
     DEF RetentionStep, RetentionBegin, RetentionList, RetentionReread,
         RetentionUnlink, RetentionSave, Sweep, IInv, TypeOK, SweepState, NoSweep
<1>3. rec' \in Recording
  <2>1. rec \in Recording /\ retention.copy \in Recording
    BY DEF IInv, TypeOK, SweepState
  <2>2. CASE RetentionSave
    BY <2>1, <2>2 DEF RetentionSave, Recording
  <2>3. CASE rec' = rec
    BY <2>1, <2>3
  <2> QED BY <2>2, <2>3 DEF RetentionStep, RetentionBegin, RetentionList,
                            RetentionReread, RetentionUnlink
<1>4. file' \in BOOLEAN
  BY DEF RetentionStep, RetentionBegin, RetentionList, RetentionReread,
         RetentionUnlink, RetentionSave, IInv, TypeOK
<1>5. Asks'
  BY <1>1 DEF IInv, Asks
<1> QED BY <1>1, <1>2, <1>3, <1>4, <1>5, TableStutter DEF IInv, TypeOK

\* An interruption makes room for the attempt it cut short.
LEMMA CutStep ==
  ASSUME IInv, Outage \/ Restart
  PROVE  IInv'
<1>1. /\ cuts' = cuts + 1 /\ cuts' \in 0 .. MaxCuts
      /\ runner' = NoPass /\ NoPass.pc = "idle"
      /\ UNCHANGED <<items, inserted, rec, file, delivered>>
  BY UploadQueueAssumption DEF Outage, Restart, table, NoPass, IInv, TypeOK
<1>2. BudgetKept' /\ Left'
  BY <1>1, Numbers DEF IInv, BudgetKept, Left, InFlight
<1>3. Inserted' /\ Flies'
  BY <1>1 DEF IInv, Inserted, Flies
<1>4. req' \in [Request -> RequestState] /\ Asks'
  BY Constants DEF Outage, Restart, IInv, TypeOK, Asks, Idle
<1>5. retention' \in SweepState /\ runner' \in PassState
  BY <1>1, Constants DEF Outage, Restart, IInv, TypeOK
<1> QED BY <1>1, <1>2, <1>3, <1>4, <1>5 DEF IInv, TypeOK

------------------------------------------------------------------------------
(* What is known of the items that a deleter of the source has listed *)

\* A list of statuses that was true when it was read: its items were inserted, and
\* those it calls succeeded have reached their destination.
SeenOf(list, size, its, reached) ==
  \A i \in Item : list[i] # "absent" =>
    i <= size /\ (list[i] = "succeeded" => its[i].policy \in reached)

Seen(list) == SeenOf(list, inserted, items, delivered)

\* A succeeded item is at its destination, and so is the one that is about to succeed.
Told ==
  /\ \A i \in Item : items[i].status = "succeeded" => items[i].policy \in delivered
  /\ runner.pc = "settle" =>
       /\ runner.result # "none"
       /\ runner.result # "failed" => items[runner.item].policy \in delivered

\* Whoever is about to delete the source has listed no item that was unsettled: the
\* upload runner none that was due, retention none that was due or had failed.
Lists ==
  /\ runner.pc \in {"reread", "release"} =>
       Seen(runner.list) /\ With(runner.list, Due) = {}
  /\ retention.pc \in {"reread", "unlink"} =>
       Seen(retention.list) /\ With(retention.list, Unsettled) = {}

\* The steps that change the items or their number.
LEMMA ItemSteps ==
  ASSUME [Next]_vars
  PROVE  \/ UNCHANGED table
         \/ \E s \in Request : EnqueueInsert(s) \/ Retry(s) \/ PurgeItems(s)
         \/ \E i \in Item : Elapse(i)
         \/ RunnerStart \/ RunnerSettle
<1>1. ASSUME NEW s \in Request, BeginEnqueue(s) \/ BeginRetry(s) \/ BeginPurge(s)
      PROVE  UNCHANGED table
  BY <1>1 DEF BeginEnqueue, BeginRetry, BeginPurge, Begin
<1>2. ASSUME NEW s \in Request, EnqueueSelect(s) \/ PurgeSave(s)
      PROVE  UNCHANGED table
  BY <1>2 DEF EnqueueSelect, PurgeSave
<1>3. ASSUME RunnerDue \/ RunnerUpload \/ RunnerList \/ RunnerReread
               \/ RunnerRelease \/ RunnerSave
      PROVE  UNCHANGED table
  BY <1>3 DEF RunnerDue, RunnerUpload, RunnerList, RunnerReread, RunnerRelease,
              RunnerSave, RestStays, table
<1>4. ASSUME RetentionStep \/ Outage \/ Restart \/ UNCHANGED vars
      PROVE  UNCHANGED table
  BY <1>4 DEF RetentionStep, RetentionBegin, RetentionList, RetentionReread,
              RetentionUnlink, RetentionSave, Sweep, Outage, Restart, table, vars
<1> QED BY <1>1, <1>2, <1>3, <1>4 DEF Next, RequestStep, RunnerStep

\* What a step of the pass leaves: the destinations keep what they have, and the
\* pass is at "settle" after an attempt only, and behind its list after listing.
LEMMA PassSteps ==
  ASSUME IInv, [Next]_vars
  PROVE  /\ delivered \subseteq delivered'
         /\ runner'.pc = "settle" => runner' = runner \/ RunnerUpload
         /\ runner'.pc \in {"reread", "release"} =>
              \/ runner.pc \in {"reread", "release"} /\ runner'.list = runner.list
              \/ RunnerList /\ runner'.list = Statuses
         /\ file /\ ~file' => RunnerRelease \/ RetentionUnlink
<1>1. ASSUME NEW s \in Request, BeginEnqueue(s) \/ BeginRetry(s) \/ BeginPurge(s)
      PROVE  UNCHANGED <<runner, delivered, file>>
  BY <1>1 DEF BeginEnqueue, BeginRetry, BeginPurge, Begin
<1>2. ASSUME NEW s \in Request, RequestStep(s)
      PROVE  UNCHANGED <<runner, delivered, file>>
  BY <1>2 DEF RequestStep, EnqueueSelect, EnqueueInsert, Retry, PurgeItems, PurgeSave
<1>3. ASSUME NEW i \in Item, Elapse(i)
      PROVE  UNCHANGED <<runner, delivered, file>>
  BY <1>3 DEF Elapse
<1>4. CASE RetentionStep \/ UNCHANGED vars
  BY <1>4 DEF RetentionStep, RetentionBegin, RetentionList, RetentionReread,
              RetentionUnlink, RetentionSave, Sweep, vars
<1>5. CASE Outage \/ Restart
  BY <1>5 DEF Outage, Restart, NoPass
<1>6. NoPass.pc = "idle" /\ runner \in PassState
  BY DEF NoPass, IInv, TypeOK
<1>7. CASE RunnerDue
  BY <1>7 DEF RunnerDue, Pass, NoPass
<1>8. CASE RunnerStart
  <2>1. \/ runner' = [runner EXCEPT !.pc = IF runner.touched # {} THEN "list" ELSE "idle"]
        \/ \E i \in runner.batch : runner' = [runner EXCEPT !.batch = @ \ {i}]
        \/ \E i \in runner.batch :
             runner' = [runner EXCEPT !.pc = "upload", !.item = i, !.batch = @ \ {i}]
    BY <1>8 DEF RunnerStart, Pass
  <2>2. runner'.pc \in {"list", "idle", "start", "upload"}
    BY <1>6, <1>8, <2>1 DEF RunnerStart, Runner, PassState
  <2>3. UNCHANGED <<delivered, file>>
    BY <1>8 DEF RunnerStart
  <2> QED BY <2>2, <2>3
<1>9. CASE RunnerUpload
  BY <1>6, <1>9 DEF RunnerUpload, Pass, PassState
<1>10. CASE RunnerSettle
  BY <1>6, <1>10 DEF RunnerSettle, Pass, PassState
<1>11. CASE RunnerList
  BY <1>6, <1>11 DEF RunnerList, Pass, PassState
<1>12. CASE RunnerReread
  BY <1>6, <1>12 DEF RunnerReread, Runner, Pass, PassState
<1>13. CASE RunnerRelease
  BY <1>6, <1>13 DEF RunnerRelease, Pass, PassState
<1>14. CASE RunnerSave
  BY <1>6, <1>14 DEF RunnerSave, Pass, PassState
<1> QED BY <1>1, <1>2, <1>3, <1>4, <1>5, <1>7, <1>8, <1>9, <1>10, <1>11, <1>12, <1>13,
           <1>14 DEF Next, RunnerStep

\* The retention runner is behind its list after listing only.
LEMMA SweepSteps ==
  ASSUME IInv, [Next]_vars
  PROVE  retention'.pc \in {"reread", "unlink"} =>
           \/ retention.pc \in {"reread", "unlink"} /\ retention'.list = retention.list
           \/ RetentionList /\ retention'.list = Statuses /\ With(Statuses, Unsettled) = {}
<1>1. NoSweep.pc = "idle" /\ retention \in SweepState
  BY DEF NoSweep, IInv, TypeOK
<1>2. CASE RetentionStep
  <2>1. CASE RetentionBegin
    BY <1>1, <2>1 DEF RetentionBegin, Sweep, NoSweep
  <2>2. CASE RetentionList
    BY <1>1, <2>2 DEF RetentionList, Sweep, SweepState, Holds
  <2>3. CASE RetentionReread
    BY <1>1, <2>3 DEF RetentionReread, Retention, Sweep, SweepState
  <2>4. CASE RetentionUnlink
    BY <1>1, <2>4 DEF RetentionUnlink, Sweep, SweepState
  <2>5. CASE RetentionSave
    BY <1>1, <2>5 DEF RetentionSave, Sweep
  <2> QED BY <1>2, <2>1, <2>2, <2>3, <2>4, <2>5 DEF RetentionStep
<1>3. CASE Restart
  BY <1>1, <1>3 DEF Restart
<1>4. CASE UNCHANGED retention
  BY <1>4
<1>5. RetentionStep \/ Restart \/ UNCHANGED retention
  <2>1. ASSUME NEW s \in Request, BeginEnqueue(s) \/ BeginRetry(s) \/ BeginPurge(s)
        PROVE  UNCHANGED retention
    BY <2>1 DEF BeginEnqueue, BeginRetry, BeginPurge, Begin
  <2>2. ASSUME NEW s \in Request, RequestStep(s)
        PROVE  UNCHANGED retention
    BY <2>2 DEF RequestStep, EnqueueSelect, EnqueueInsert, Retry, PurgeItems, PurgeSave
  <2>3. ASSUME NEW i \in Item, Elapse(i)
        PROVE  UNCHANGED retention
    BY <2>3 DEF Elapse
  <2>4. CASE RunnerStep \/ Outage \/ UNCHANGED vars
    BY <2>4 DEF RunnerStep, RunnerDue, RunnerStart, RunnerUpload, RunnerSettle, RunnerList,
                RunnerReread, RunnerRelease, RunnerSave, RestStays, Outage, vars
  <2> QED BY <2>1, <2>2, <2>3, <2>4 DEF Next
<1> QED BY <1>2, <1>3, <1>4, <1>5

\* An item that was inserted keeps its policy, and succeeds by being settled only.
LEMMA ItemsStep ==
  ASSUME IInv, [Next]_vars
  PROVE  /\ inserted \in Nat /\ inserted' \in Nat /\ inserted <= inserted'
         /\ \A i \in Item : i <= inserted => items'[i].policy = items[i].policy
         /\ \A i \in Item : items'[i].status = "succeeded" =>
              \/ items[i].status = "succeeded" /\ i <= inserted
              \/ /\ runner.pc = "settle" /\ i = runner.item /\ runner.result # "failed"
                 /\ i <= inserted
<1> DEFINE Succeeds(i) ==
       /\ runner.pc = "settle" /\ i = runner.item /\ runner.result # "failed"
       /\ i <= inserted
<1>1. /\ inserted \in Nat /\ items \in [Item -> RowState] /\ Item \subseteq Nat
      /\ \A i \in Item : items[i].status # "absent" => i <= inserted
  BY Numbers, Constants DEF IInv, TypeOK, Inserted
<1>2. ASSUME NEW s \in Request, EnqueueInsert(s)
      PROVE  /\ inserted' = inserted + 1
             /\ \A i \in Item : i # inserted + 1 => items'[i] = items[i]
             /\ \A i \in Item : items'[i].status = "succeeded" => items[i].status = "succeeded"
  BY <1>1, <1>2 DEF EnqueueInsert
<1>3. ASSUME NEW s \in Request, Retry(s)
      PROVE  /\ inserted' = inserted
             /\ \A i \in Item : /\ items'[i].policy = items[i].policy
                                /\ items'[i].status = "succeeded" => items[i].status = "succeeded"
  BY <1>1, <1>3 DEF Retry, Retried, RowState
<1>4. ASSUME NEW s \in Request, PurgeItems(s)
      PROVE  /\ inserted' = inserted
             /\ \A i \in Item : /\ items'[i].policy = items[i].policy
                                /\ items'[i].status # "succeeded"
  BY <1>1, <1>4 DEF PurgeItems, RowState
<1>5. ASSUME NEW k \in Item, Elapse(k)
      PROVE  /\ inserted' = inserted
             /\ \A i \in Item : /\ items'[i].policy = items[i].policy
                                /\ items'[i].status = items[i].status
  BY <1>1, <1>5 DEF Elapse, RowState
<1>6. ASSUME RunnerStart
      PROVE  /\ inserted' = inserted
             /\ \A i \in Item : /\ items'[i].policy = items[i].policy
                                /\ items'[i].status = "succeeded" => items[i].status = "succeeded"
  <2>1. UNCHANGED items \/ \E i \in Item : items' = Started(i)
    BY <1>6 DEF RunnerStart, IInv, TypeOK, PassState
  <2>2. inserted' = inserted
    BY <1>6 DEF RunnerStart, RestStays
  <2>3. ASSUME NEW k \in Item, items' = Started(k), NEW i \in Item
        PROVE  /\ items'[i].policy = items[i].policy
               /\ items'[i].status = "succeeded" => items[i].status = "succeeded"
    <3>1. items[i] \in RowState /\ items[k] \in RowState
      BY <1>1
    <3>2. CASE i = k
      BY <1>1, <2>3, <3>1, <3>2 DEF Started, RowState
    <3>3. CASE i # k
      BY <1>1, <2>3, <3>3 DEF Started
    <3> QED BY <3>2, <3>3
  <2> QED BY <2>1, <2>2, <2>3
<1>7. ASSUME RunnerSettle
      PROVE  /\ inserted' = inserted
             /\ \A i \in Item : /\ items'[i].policy = items[i].policy
                                /\ items'[i].status = "succeeded" =>
                                     items[i].status = "succeeded" \/ Succeeds(i)
  <2>1. runner.pc = "settle" /\ runner.item \in Item /\ runner.item <= inserted
    BY <1>7 DEF RunnerSettle, Runner, IInv, Flies
  <2>2. inserted' = inserted
    BY <1>7 DEF RunnerSettle, RestStays
  <2>3. \/ items' = items
        \/ items' = [items EXCEPT
              ![runner.item].status = IF runner.result # "failed" THEN "succeeded"
                                      ELSE AfterFailure(items[runner.item].attempts),
              ![runner.item].due = FALSE]
    BY <1>7 DEF RunnerSettle
  <2>4. AfterFailure(items[runner.item].attempts) # "succeeded"
    BY DEF AfterFailure
  <2> QED BY <1>1, <2>1, <2>2, <2>3, <2>4 DEF RowState
<1> HIDE DEF Succeeds
<1> DEFINE Goal ==
       /\ inserted <= inserted' /\ inserted' \in Nat
       /\ \A i \in Item : i <= inserted => items'[i].policy = items[i].policy
       /\ \A i \in Item : items'[i].status = "succeeded" =>
            items[i].status = "succeeded" \/ Succeeds(i)
<1> SUFFICES Goal
  BY <1>1 DEF Succeeds
<1>8. CASE \E s \in Request : EnqueueInsert(s)
  <2>1. /\ inserted' = inserted + 1
        /\ \A i \in Item : i # inserted + 1 => items'[i] = items[i]
        /\ \A i \in Item : items'[i].status = "succeeded" => items[i].status = "succeeded"
    BY <1>2, <1>8
  <2> QED BY <1>1, <2>1
<1>9. CASE \E s \in Request : Retry(s) \/ PurgeItems(s)
  <2>1. /\ inserted' = inserted
        /\ \A i \in Item : /\ items'[i].policy = items[i].policy
                           /\ items'[i].status = "succeeded" => items[i].status = "succeeded"
    BY <1>3, <1>4, <1>9
  <2> QED BY <1>1, <2>1
<1>10. CASE \E i \in Item : Elapse(i)
  <2>1. /\ inserted' = inserted
        /\ \A i \in Item : /\ items'[i].policy = items[i].policy
                           /\ items'[i].status = items[i].status
    BY <1>5, <1>10
  <2> QED BY <1>1, <2>1
<1>11. CASE RunnerStart \/ RunnerSettle
  <2>1. /\ inserted' = inserted
        /\ \A i \in Item : /\ items'[i].policy = items[i].policy
                           /\ items'[i].status = "succeeded" =>
                                items[i].status = "succeeded" \/ Succeeds(i)
    BY <1>6, <1>7, <1>11
  <2> QED BY <1>1, <2>1
<1>12. CASE UNCHANGED table
  BY <1>1, <1>12 DEF table
<1> HIDE DEF Goal
<1> QED BY <1>8, <1>9, <1>10, <1>11, <1>12, ItemSteps

\* What succeeded is delivered, and what was listed stays so.
LEMMA ToldStep ==
  ASSUME IInv, Told, Lists, [Next]_vars
  PROVE  Told' /\ Lists'
<1> DEFINE SeenNext(list) == SeenOf(list, inserted', items', delivered')
<1>1. ASSUME NEW list, Seen(list)
      PROVE  SeenNext(list)
  <2>1. /\ inserted \in Nat /\ inserted' \in Nat /\ inserted <= inserted' /\ Item \subseteq Nat
        /\ \A i \in Item : i <= inserted => items'[i].policy = items[i].policy
        /\ delivered \subseteq delivered'
    BY ItemsStep, PassSteps, Constants
  <2>2. SUFFICES ASSUME NEW i \in Item, list[i] # "absent"
                 PROVE  /\ i <= inserted'
                        /\ list[i] = "succeeded" => items'[i].policy \in delivered'
    BY DEF SeenOf
  <2>3. i <= inserted /\ (list[i] = "succeeded" => items[i].policy \in delivered)
    BY <1>1, <2>2 DEF Seen, SeenOf
  <2> QED BY <2>1, <2>3
<1>2. Seen(Statuses)
  <2>1. \A i \in Item : /\ Statuses[i] = items[i].status
                        /\ items[i].status # "absent" => i <= inserted
    BY Numbers, Constants DEF Statuses, IInv, Inserted
  <2> QED BY <2>1 DEF Seen, SeenOf, Told
<1>3. \A i \in Item : items'[i].status = "succeeded" => items'[i].policy \in delivered'
  BY ItemsStep, PassSteps DEF Told
<1>4. runner'.pc = "settle" =>
        /\ runner'.result # "none"
        /\ runner'.result # "failed" => items'[runner'.item].policy \in delivered'
  <2>1. CASE runner' = runner /\ runner.pc = "settle"
    <3>1. runner.item \in Item /\ runner.item <= inserted
      BY <2>1 DEF IInv, Flies
    <3> QED BY <2>1, <3>1, ItemsStep, PassSteps DEF Told
  <2>2. CASE RunnerUpload
    <3>1. PICK result \in Result \ {"none"} :
            /\ runner' = [runner EXCEPT !.pc = "settle", !.result = result]
            /\ delivered' = IF result = "failed" THEN delivered
                            ELSE delivered \cup {items[runner.item].policy}
      BY <2>2 DEF RunnerUpload, Pass
    <3>2. runner'.result = result /\ runner'.item = runner.item /\ items' = items
      BY <2>2, <3>1 DEF RunnerUpload, IInv, TypeOK, PassState
    <3> QED BY <3>1, <3>2
  <2> QED BY <2>1, <2>2, PassSteps
<1>5. ASSUME runner'.pc \in {"reread", "release"}
      PROVE  SeenNext(runner'.list) /\ With(runner'.list, Due) = {}
  <2>1. CASE runner.pc \in {"reread", "release"} /\ runner'.list = runner.list
    <3>1. Seen(runner.list) /\ With(runner.list, Due) = {}
      BY <2>1 DEF Lists
    <3> QED BY <1>1, <2>1, <3>1
  <2>2. CASE RunnerList /\ runner'.list = Statuses
    <3>1. With(Statuses, Due) = {}
      BY <1>5, <2>2 DEF RunnerList, Pass, NoPass
    <3> QED BY <1>1, <1>2, <2>2, <3>1
  <2> QED BY <1>5, <2>1, <2>2, PassSteps
<1>6. ASSUME retention'.pc \in {"reread", "unlink"}
      PROVE  SeenNext(retention'.list) /\ With(retention'.list, Unsettled) = {}
  <2>1. CASE retention.pc \in {"reread", "unlink"} /\ retention'.list = retention.list
    <3>1. Seen(retention.list) /\ With(retention.list, Unsettled) = {}
      BY <2>1 DEF Lists
    <3> QED BY <1>1, <2>1, <3>1
  <2>2. CASE RetentionList /\ retention'.list = Statuses /\ With(Statuses, Unsettled) = {}
    BY <1>1, <1>2, <2>2
  <2> QED BY <1>6, <2>1, <2>2, SweepSteps
<1>7. Told'
  BY <1>3, <1>4 DEF Told
<1>8. Lists'
  BY <1>5, <1>6 DEF Lists, Seen, With
<1> QED BY <1>7, <1>8

------------------------------------------------------------------------------
(* The theorems *)

\* IInv is an invariant of the queue.
THEOREM Invariance == Spec => []IInv
<1>1. Init => IInv
  BY Constants, UploadQueueAssumption
     DEF Init, IInv, TypeOK, Inserted, Flies, Asks, BudgetKept, Left, NoItem,
         Item, Due, NoPass, Idle, Recording, Secured
<1>2. IInv /\ [Next]_vars => IInv'
  <2> SUFFICES ASSUME IInv, [Next]_vars PROVE IInv'
    OBVIOUS
  <2>1. CASE UNCHANGED vars
    BY <2>1, TableStutter DEF vars, IInv, TypeOK, Asks
  <2>2. ASSUME NEW s \in Request,
               BeginEnqueue(s) \/ BeginRetry(s) \/ BeginPurge(s) \/ RequestStep(s)
        PROVE  IInv'
    BY <2>2, BeginsStep, EnqueueSelectStep, EnqueueInsertStep, RetryStep,
       PurgeItemsStep, PurgeSaveStep DEF RequestStep
  <2>3. CASE \E i \in Item : Elapse(i)
    BY <2>3, ElapseStep
  <2>4. CASE RunnerStep
    BY <2>4, PassOnlyStep, RunnerStartStep, RunnerUploadStep, RunnerSettleStep
       DEF RunnerStep
  <2>5. CASE RetentionStep \/ Outage \/ Restart
    BY <2>5, RetentionSteps, CutStep
  <2> QED BY <2>1, <2>2, <2>3, <2>4, <2>5 DEF Next
<1> QED BY <1>1, <1>2, PTL DEF Spec

\* Every variable of the queue keeps its type.
THEOREM TypeCorrect == Spec => []TypeOK
BY Invariance, PTL DEF IInv

\* No item is attempted beyond maxAttempts, however its runner, its operators and
\* crashes interleave, but for the attempts that were cut short.
THEOREM BudgetRespected == Spec => []BudgetKept
BY Invariance, PTL DEF IInv

\* succeed, fail and retry never write a deleted item back.
THEOREM NoResurrection == Spec => DeletedStays
<1>1. ASSUME IInv, [Next]_vars, NEW k \in Item, k <= inserted,
             items[k].status = "absent"
      PROVE  items'[k].status = "absent"
  <2>1. ASSUME NEW s \in Request, EnqueueInsert(s)
        PROVE  items'[k].status = "absent"
    <3>1. k # inserted + 1
      BY <1>1, Numbers DEF IInv
    <3>2. items'[k] = items[k]
      BY <1>1, <2>1, <3>1 DEF EnqueueInsert, IInv, TypeOK
    <3> QED BY <1>1, <3>2
  <2>2. ASSUME NEW s \in Request, Retry(s)
        PROVE  items'[k].status = "absent"
    BY <1>1, <2>2 DEF Retry, Retried, Updates, IInv, TypeOK, RowState
  <2>3. ASSUME NEW s \in Request, PurgeItems(s)
        PROVE  items'[k].status = "absent"
    BY <1>1, <2>3 DEF PurgeItems, IInv, TypeOK, RowState
  <2>4. ASSUME NEW i \in Item, Elapse(i)
        PROVE  items'[k].status = "absent"
    BY <1>1, <2>4 DEF Elapse, IInv, TypeOK, RowState
  <2>5. CASE RunnerStart
    <3>1. UNCHANGED items \/ \E i : items[i].status \in Due /\ items' = Started(i)
      BY <2>5 DEF RunnerStart
    <3> QED BY <1>1, <3>1 DEF Started, Due, IInv, TypeOK, RowState
  <2>6. CASE RunnerSettle
    BY <1>1, <2>6 DEF RunnerSettle, Updates, IInv, TypeOK, RowState
  <2>7. CASE UNCHANGED items
    BY <1>1, <2>7
  <2>8. \/ UNCHANGED items
        \/ \E s \in Request : EnqueueInsert(s) \/ Retry(s) \/ PurgeItems(s)
        \/ \E i \in Item : Elapse(i)
        \/ RunnerStart \/ RunnerSettle
    <3>1. ASSUME NEW s \in Request, BeginEnqueue(s) \/ BeginRetry(s) \/ BeginPurge(s)
          PROVE  UNCHANGED items
      BY <3>1 DEF BeginEnqueue, BeginRetry, BeginPurge, Begin, table
    <3>2. ASSUME NEW s \in Request, EnqueueSelect(s) \/ PurgeSave(s)
          PROVE  UNCHANGED items
      BY <3>2 DEF EnqueueSelect, PurgeSave, table
    <3>3. ASSUME RunnerDue \/ RunnerUpload \/ RunnerList \/ RunnerReread
                   \/ RunnerRelease \/ RunnerSave
          PROVE  UNCHANGED items
      BY <3>3 DEF RunnerDue, RunnerUpload, RunnerList, RunnerReread,
                  RunnerRelease, RunnerSave
    <3>4. ASSUME RetentionStep \/ Outage \/ Restart \/ UNCHANGED vars
          PROVE  UNCHANGED items
      BY <3>4 DEF RetentionStep, RetentionBegin, RetentionList, RetentionReread,
                  RetentionUnlink, RetentionSave, Sweep, Outage, Restart, table,
                  vars
    <3> QED BY <1>1, <3>1, <3>2, <3>3, <3>4 DEF Next, RequestStep, RunnerStep
  <2> QED BY <2>1, <2>2, <2>3, <2>4, <2>5, <2>6, <2>7, <2>8
<1>2. IInv /\ [Next]_vars =>
        [\A i \in Item : i <= inserted /\ items[i].status = "absent"
                         => items'[i].status = "absent"]_vars
  BY <1>1
<1> QED BY <1>2, Invariance, PTL DEF Spec, DeletedStays

\* Whoever deletes the cached source saw every item it listed delivered, whatever is
\* enqueued, retried, purged or cut short between its list and the deletion.
THEOREM OnlyDeliveredReleased == Spec => ReleasedIsDelivered
<1>1. Init => Told /\ Lists
  BY DEF Init, Told, Lists, NoItem, NoPass, NoSweep
<1>2. IInv /\ Told /\ Lists /\ [Next]_vars => (Told /\ Lists)'
  BY ToldStep
<1> DEFINE Deleter == IF Runner("release") /\ runner' # runner
                      THEN runner.list ELSE retention.list
<1>3. ASSUME IInv, Told, Lists, [Next]_vars, file, ~file', NEW i \in Item,
             Deleter[i] # "absent"
      PROVE  items[i].policy \in delivered
  <2>1. CASE RunnerRelease
    <3>1. PICK release \in BOOLEAN :
            /\ release => runner.copy.named
                          /\ Releasable(runner.list, runner.touched, runner.verified)
            /\ file' = (file /\ ~release)
            /\ runner' = [runner EXCEPT !.pc = "save", !.deleted = release /\ file]
      BY <2>1 DEF RunnerRelease, Pass
    <3>2. With(runner.list, {"failed"}) = {}
      BY <1>3, <3>1 DEF Releasable
    <3>3. runner'.pc = "save" /\ runner.pc = "release" /\ runner.list \in [Item -> ItemStatus]
      BY <1>3, <2>1, <3>1 DEF RunnerRelease, Runner, IInv, TypeOK, PassState
    <3>4. Deleter = runner.list
      BY <3>3 DEF Runner
    <3>5. With(runner.list, Due) = {} /\ Seen(runner.list)
      BY <1>3, <3>3 DEF Lists
    <3>6. runner.list[i] = "succeeded"
      BY <1>3, <3>2, <3>3, <3>4, <3>5 DEF With, ItemStatus, Settled
    <3> QED BY <3>5, <3>6 DEF Seen, SeenOf
  <2>2. CASE RetentionUnlink
    <3>1. retention.pc = "unlink" /\ runner' = runner /\ retention.list \in [Item -> ItemStatus]
      BY <1>3, <2>2 DEF RetentionUnlink, Retention, Sweep, IInv, TypeOK, SweepState
    <3>2. Deleter = retention.list
      BY <3>1
    <3>3. With(retention.list, Unsettled) = {} /\ Seen(retention.list)
      BY <1>3, <3>1 DEF Lists
    <3>4. retention.list[i] = "succeeded"
      BY <1>3, <3>1, <3>2, <3>3 DEF With, ItemStatus, Settled, Unsettled
    <3> QED BY <3>3, <3>4 DEF Seen, SeenOf
  <2> QED BY <1>3, <2>1, <2>2, PassSteps
<1>4. IInv /\ Told /\ Lists /\ [Next]_vars =>
        [file /\ ~file' =>
           LET list == Deleter
           IN \A i \in Item : list[i] # "absent" => items[i].policy \in delivered]_vars
  BY <1>3
<1> QED BY <1>1, <1>2, <1>4, Invariance, PTL DEF Spec, ReleasedIsDelivered
==============================================================================
