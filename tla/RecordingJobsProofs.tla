------------------------- MODULE RecordingJobsProofs -------------------------
(***************************************************************************)
(* Proofs about RecordingJobs for every number of jobs, recordings,        *)
(* capture groups and concurrent requests.                                 *)
(***************************************************************************)
EXTENDS RecordingJobs, TLAPS

------------------------------------------------------------------------------
(* The inductive invariant *)

\* Ids that were never inserted are untouched.
Fresh == \A j \in Job : j > created => rows[j] = Absent /\ wins[j] = 0

\* A queued row was never claimed, a running one was: with the compare and set
\* of the claim, this is why no job is claimed twice.
Counted == \A j \in Job : /\ wins[j] <= 1
                          /\ rows[j].status = "queued" => wins[j] = 0
                          /\ rows[j].status = "running" => wins[j] > 0

\* What a request in flight remembers: the rows it still has to expire had
\* expired when it listed them, a request about a job names one, and a
\* heartbeat about to save found a job that was running.
Remembers(q) ==
  /\ q.todo # {} => q.pc = "expire"
  /\ \A j \in q.todo : q.snap[j] \in {"running", "stop_requested"}
  /\ q.op \notin ClaimOps \cup {"none", "sweep"} => q.job \in Job
  /\ q.pc = "save" => q.job \in Job /\ q.job <= created /\ wins[q.job] > 0

IInv == TypeOK /\ Fresh /\ Counted /\ \A s \in Slot : Remembers(req[s])

------------------------------------------------------------------------------
(* Lemmas *)

\* Every value the steps put in a slot or a row is of its type.
LEMMA Constants ==
  /\ Idle \in SlotState
  /\ Absent \in Row /\ Queued \in Row /\ Leased \in Row /\ Stopping \in Row
  /\ \A t \in Terminal : Ended(t) \in Row
  /\ NoList \in [Job -> Status]
BY DEF Idle, SlotState, Absent, Row, Queued, Leased, Stopping, Ended, Terminal,
       Active, Status, Ops, ClaimOps, NoList, Job

\* The list of statuses is one, and an expiry pass moves rows of it.
LEMMA StatusesType ==
  TypeOK => /\ Statuses \in [Job -> Status]
            /\ Expired \subseteq Job
            /\ \A j \in Expired : Statuses[j] \in {"running", "stop_requested"}
BY DEF TypeOK, Statuses, Row, Expired

\* Idle remembers nothing.
LEMMA IdleRemembers == Remembers(Idle)
BY DEF Remembers, Idle

\* A step of one slot keeps what every slot remembers, when its own new state
\* remembers enough and neither created nor a win count shrinks.
LEMMA SlotStep ==
  ASSUME IInv, NEW s \in Slot, NEW q \in SlotState, Become(s, q),
         created' \in Nat, created' >= created,
         \A j \in Job : wins[j] > 0 => wins'[j] > 0,
         Remembers(q)
  PROVE  /\ req' \in [Slot -> SlotState]
         /\ \A t \in Slot : Remembers(req[t])'
<1>1. req' = [req EXCEPT ![s] = q] /\ req \in [Slot -> SlotState]
  BY DEF IInv, TypeOK, Become
<1>2. ASSUME NEW t \in Slot PROVE Remembers(req[t])'
  <2>1. req'[t] \in {q, req[t]} /\ Remembers(req[t])
    BY <1>1 DEF IInv
  <2>2. created \in Nat
    BY JobsAssumption DEF IInv, TypeOK
  <2>3. \A j \in Job : j \in Nat
    BY DEF Job
  <2> QED BY <2>1, <2>2, <2>3 DEF Remembers
<1> QED BY <1>1, <1>2

\* A step that leaves the requests alone keeps what they remember.
LEMMA SlotStutter ==
  ASSUME IInv, req' = req, created' \in Nat, created' >= created, wins' = wins
  PROVE  /\ req' \in [Slot -> SlotState]
         /\ \A t \in Slot : Remembers(req[t])'
<1>1. created \in Nat /\ \A j \in Job : j \in Nat
  BY JobsAssumption DEF IInv, TypeOK, Job
<1> QED BY <1>1 DEF IInv, TypeOK, Remembers

\* A step that writes no row keeps what is known of the table.
LEMMA TableStutter ==
  ASSUME IInv, UNCHANGED <<rows, created, wins>>
  PROVE  Fresh' /\ Counted'
BY DEF IInv, Fresh, Counted

\* What is left to show of a step that only changes requests.
LEMMA RequestStep ==
  ASSUME IInv, NEW s \in Slot, NEW q \in SlotState, Become(s, q), Remembers(q),
         UNCHANGED <<rows, recOf, created, wins>>,
         held' \subseteq Job, known' \subseteq Job
  PROVE  IInv'
<1>1. created \in Nat
  BY JobsAssumption DEF IInv, TypeOK
<1>2. Fresh' /\ Counted'
  BY TableStutter
<1>3. req' \in [Slot -> SlotState] /\ \A t \in Slot : Remembers(req[t])'
  <2>1. created' \in Nat /\ created' >= created
    BY <1>1
  <2>2. \A j \in Job : wins[j] > 0 => wins'[j] > 0
    OBVIOUS
  <2> QED BY <2>1, <2>2, SlotStep
<1> QED BY <1>2, <1>3 DEF IInv, TypeOK

\* Ids are inserted in order, so the next one is fresh.
LEMMA InsertStep ==
  ASSUME IInv, created < MaxJobs, NEW r \in Recording,
         created' = created + 1,
         rows' = [rows EXCEPT ![created + 1] = Queued],
         recOf' = [recOf EXCEPT ![created + 1] = r],
         wins' = wins
  PROVE  /\ rows' \in [Job -> Row] /\ recOf' \in [Job -> Recording]
         /\ created' \in 0 .. MaxJobs /\ created' \in Nat /\ created' >= created
         /\ Fresh' /\ Counted'
<1>1. created \in Nat /\ MaxJobs \in Nat /\ created + 1 \in Job /\ Job \subseteq Nat
  BY JobsAssumption DEF IInv, TypeOK, Job
<1>2. rows' \in [Job -> Row] /\ recOf' \in [Job -> Recording]
  BY <1>1, Constants DEF IInv, TypeOK
<1>3. created' \in 0 .. MaxJobs /\ created' \in Nat /\ created' >= created
  BY <1>1
<1>4. Fresh'
  BY <1>1 DEF IInv, TypeOK, Fresh
<1>5. wins[created + 1] = 0
  BY <1>1 DEF IInv, Fresh
<1>6. Counted'
  BY <1>1, <1>5 DEF IInv, TypeOK, Counted, Queued
<1> QED BY <1>2, <1>3, <1>4, <1>6

------------------------------------------------------------------------------
(* The invariant holds initially and is kept by every action *)

LEMMA InitIInv == Init => IInv
<1> SUFFICES ASSUME Init PROVE IInv
  OBVIOUS
<1>1. rows \in [Job -> Row] /\ req \in [Slot -> SlotState]
  BY Constants DEF Init, NoRows
<1>2. recOf \in [Job -> Recording] /\ created \in 0 .. MaxJobs
  BY JobsAssumption DEF Init
<1>3. held \subseteq Job /\ known \subseteq Job /\ wins \in [Job -> Nat]
  BY DEF Init
<1>4. TypeOK
  BY <1>1, <1>2, <1>3 DEF TypeOK
<1>5. Fresh /\ Counted
  BY DEF Init, NoRows, Fresh, Counted, Absent
<1>6. \A s \in Slot : Remembers(req[s])
  BY IdleRemembers DEF Init
<1> QED BY <1>4, <1>5, <1>6 DEF IInv

LEMMA ListKeeps == ASSUME IInv, NEW s \in Slot, List(s) PROVE IInv'
<1> DEFINE snap == IF UsesList(req[s]) \/ Expired # {} THEN Statuses ELSE NoList
           q == [req[s] EXCEPT !.pc = IF Expired = {} THEN "act" ELSE "expire",
                               !.todo = Expired, !.snap = snap]
<1>1. snap \in [Job -> Status] /\ Expired \subseteq Job /\ req[s] \in SlotState
  BY StatusesType, Constants DEF IInv, TypeOK
<1> HIDE DEF snap
<1>2. q \in SlotState
  BY <1>1 DEF SlotState
<1>3. Remembers(q)
  <2>1. \A j \in q.todo : q.snap[j] \in {"running", "stop_requested"}
    BY <1>1, StatusesType DEF SlotState, IInv, snap
  <2>2. q.todo # {} => q.pc = "expire"
    BY <1>1 DEF SlotState
  <2>3. q.op = req[s].op /\ q.job = req[s].job /\ q.pc # "save"
    BY <1>1 DEF SlotState
  <2> HIDE DEF q
  <2> QED BY <2>1, <2>2, <2>3 DEF Remembers, IInv
<1>4. Become(s, q)
  BY DEF List, snap
<1> HIDE DEF q
<1> QED BY <1>2, <1>3, <1>4, RequestStep DEF List, IInv, TypeOK

LEMMA EndExpiryKeeps == ASSUME IInv, NEW s \in Slot, EndExpiry(s) PROVE IInv'
<1> DEFINE snap == IF ~UsesList(req[s]) THEN NoList
                   ELSE IF req[s].won THEN Statuses ELSE req[s].snap
           q == [req[s] EXCEPT !.pc = "act", !.won = FALSE, !.snap = snap]
<1>1. snap \in [Job -> Status] /\ req[s] \in SlotState
  BY StatusesType, Constants DEF IInv, TypeOK, SlotState
<1>2. Become(s, q)
  <2>1. Become(s, [req[s] EXCEPT !.pc = "act", !.won = FALSE,
                     !.snap = IF ~UsesList(req[s]) THEN NoList
                              ELSE IF req[s].won THEN Statuses ELSE @])
    BY DEF EndExpiry
  <2> QED BY <2>1, <1>1 DEF SlotState
<1> HIDE DEF snap
<1>3. q \in SlotState
  BY <1>1 DEF SlotState
<1>4. q.todo = {} /\ q.op = req[s].op /\ q.job = req[s].job /\ q.pc = "act"
  BY <1>1 DEF SlotState, EndExpiry
<1> HIDE DEF q
<1>5. Remembers(q)
  BY <1>4 DEF Remembers, IInv
<1> QED BY <1>2, <1>3, <1>5, RequestStep DEF EndExpiry, IInv, TypeOK

LEMMA ExpireOneKeeps == ASSUME IInv, NEW s \in Slot, ExpireOne(s) PROVE IInv'
<1>1. PICK j \in req[s].todo :
        LET was == req[s].snap[j]
        IN  \/ /\ rows[j].status = was
               /\ rows' = [rows EXCEPT ![j] = Ended(IF was = "running"
                                                    THEN "failed"
                                                    ELSE "cancelled")]
               /\ Become(s, [req[s] EXCEPT !.todo = @ \ {j}, !.won = TRUE])
            \/ /\ Become(s, [req[s] EXCEPT !.todo = @ \ {j}])
               /\ UNCHANGED rows
  BY DEF ExpireOne
<1> DEFINE w == [req[s] EXCEPT !.todo = @ \ {j}, !.won = TRUE]
           l == [req[s] EXCEPT !.todo = @ \ {j}]
<1>2. w \in SlotState /\ l \in SlotState /\ j \in Job /\ req[s] \in SlotState
  BY ZenonT(40) DEF IInv, TypeOK, SlotState
<1>3. req[s].snap[j] \in {"running", "stop_requested"} /\ Remembers(req[s])
  BY DEF IInv, Remembers
<1>4. Remembers(w) /\ Remembers(l)
  <2>1. /\ w.todo = req[s].todo \ {j} /\ w.pc = req[s].pc /\ w.op = req[s].op
        /\ w.job = req[s].job /\ w.snap = req[s].snap
    BY <1>2 DEF SlotState
  <2>2. /\ l.todo = req[s].todo \ {j} /\ l.pc = req[s].pc /\ l.op = req[s].op
        /\ l.job = req[s].job /\ l.snap = req[s].snap
    BY <1>2 DEF SlotState
  <2> HIDE DEF w, l
  <2> QED BY <2>1, <2>2, <1>3 DEF Remembers
<1> HIDE DEF w, l
<1>5. CASE Become(s, l) /\ UNCHANGED rows
  BY <1>2, <1>4, <1>5, RequestStep DEF ExpireOne, IInv, TypeOK
<1>6. CASE /\ rows[j].status = req[s].snap[j]
           /\ Become(s, w)
           /\ \E t \in Terminal : rows' = [rows EXCEPT ![j] = Ended(t)]
  <2>1. PICK t \in Terminal : rows' = [rows EXCEPT ![j] = Ended(t)]
    BY <1>6
  <2>2. created \in Nat /\ created' = created /\ wins' = wins
    BY JobsAssumption DEF ExpireOne, IInv, TypeOK
  <2>3. req' \in [Slot -> SlotState] /\ \A t1 \in Slot : Remembers(req[t1])'
    BY <1>2, <1>4, <1>6, <2>2, SlotStep
  <2>4. rows' \in [Job -> Row]
    BY <2>1, <1>2, Constants DEF IInv, TypeOK
  <2>5. Fresh'
    BY <1>2, <1>3, <1>6, <2>1, <2>2 DEF IInv, Fresh, TypeOK, Absent
  <2>6. Counted'
    BY <1>2, <2>1, <2>2 DEF IInv, Counted, TypeOK, Ended, Terminal
  <2> QED BY <2>2, <2>3, <2>4, <2>5, <2>6 DEF ExpireOne, IInv, TypeOK
<1> QED BY <1>1, <1>5, <1>6 DEF w, l, Terminal

LEMMA RetryKeeps == ASSUME IInv, NEW s \in Slot, Retry(s) PROVE IInv'
<1>1. created \in Nat /\ Job \subseteq Nat
  BY JobsAssumption DEF IInv, TypeOK, Job
<1>2. Become(s, Idle) /\ UNCHANGED <<held, known, wins>>
  BY DEF Retry, Finish
<1>3. CASE UNCHANGED <<created, rows, recOf>>
  BY <1>2, <1>3, RequestStep, Constants, IdleRemembers DEF IInv, TypeOK
<1>4. CASE /\ created < MaxJobs
           /\ created' = created + 1
           /\ rows' = [rows EXCEPT ![created + 1] = Queued]
           /\ recOf' = [recOf EXCEPT ![created + 1] = recOf[req[s].job]]
  <2>1. req[s].job \in Job
    BY DEF Retry, Acting, IInv, Remembers, ClaimOps
  <2>2. recOf[req[s].job] \in Recording
    BY <2>1 DEF IInv, TypeOK
  <2>3. /\ rows' \in [Job -> Row] /\ recOf' \in [Job -> Recording]
        /\ created' \in 0 .. MaxJobs /\ created' \in Nat /\ created' >= created
        /\ Fresh' /\ Counted'
    BY <1>2, <1>4, <2>2, InsertStep
  <2>4. req' \in [Slot -> SlotState] /\ \A t \in Slot : Remembers(req[t])'
    BY <1>2, <2>3, SlotStep, Constants, IdleRemembers
  <2> QED BY <1>2, <2>3, <2>4 DEF IInv, TypeOK
<1> QED BY <1>3, <1>4 DEF Retry

LEMMA SelectKeeps == ASSUME IInv, NEW s \in Slot, Select(s) PROVE IInv'
<1> DEFINE chosen == Selection(req[s].op, req[s].snap)
           q == [req[s] EXCEPT !.pc = "list", !.snap = NoList,
                               !.members = chosen, !.picks = chosen]
<1>1. Become(s, Idle) \/ Become(s, q)
  BY DEF Select, Finish
<1>2. chosen \subseteq Job /\ req[s] \in SlotState
  BY DEF Selection, IInv, TypeOK
<1> HIDE DEF chosen
<1>3. q \in SlotState
  BY <1>2, Constants DEF SlotState
<1>4. /\ q.todo = req[s].todo /\ q.op = req[s].op /\ q.job = req[s].job
      /\ q.pc = "list" /\ req[s].pc = "act"
  BY <1>2 DEF SlotState, Select
<1> HIDE DEF q
<1>5. Remembers(q)
  BY <1>4 DEF Remembers, IInv
<1> QED BY <1>1, <1>3, <1>5, RequestStep, Constants, IdleRemembers
        DEF Select, IInv, TypeOK

LEMMA ClaimMemberKeeps == ASSUME IInv, NEW s \in Slot, ClaimMember(s) PROVE IInv'
<1>1. PICK j \in req[s].picks :
        LET rest == req[s].picks \ {j}
            next == IF rest = {} THEN "respond" ELSE "list"
        IN  \/ /\ rows[j].status = "queued"
               /\ rows' = [rows EXCEPT ![j] = Leased]
               /\ wins' = [wins EXCEPT ![j] = @ + 1]
               /\ Become(s, [req[s] EXCEPT !.picks = rest, !.pc = next,
                                           !.got = @ \cup {j}])
            \/ /\ Become(s, IF req[s].op = "claimNext"
                            THEN [Idle EXCEPT !.op = "claimNext", !.pc = "list"]
                            ELSE [req[s] EXCEPT !.picks = rest, !.pc = next])
               /\ UNCHANGED <<rows, wins>>
  BY DEF ClaimMember, CanClaim
<1> DEFINE rest == req[s].picks \ {j}
           next == IF rest = {} THEN "respond" ELSE "list"
           w == [req[s] EXCEPT !.picks = rest, !.pc = next, !.got = @ \cup {j}]
           l == [req[s] EXCEPT !.picks = rest, !.pc = next]
           again == [Idle EXCEPT !.op = "claimNext", !.pc = "list"]
<1>2. /\ req[s] \in SlotState /\ j \in Job /\ rest \subseteq Job
      /\ req[s].pc = "act" /\ next \in {"respond", "list"}
  BY DEF IInv, TypeOK, SlotState, ClaimMember
<1>3. Become(s, w) \/ Become(s, l) \/ Become(s, again)
  BY <1>1
<1> HIDE DEF rest, next
<1>4. w \in SlotState /\ l \in SlotState /\ again \in SlotState
  <2>1. w \in SlotState /\ l \in SlotState
    BY <1>2 DEF SlotState
  <2>2. again \in SlotState
    BY Constants DEF SlotState, Ops, ClaimOps
  <2> QED BY <2>1, <2>2
<1>5. Remembers(w) /\ Remembers(l) /\ Remembers(again)
  <2>1. /\ w.todo = req[s].todo /\ w.op = req[s].op /\ w.job = req[s].job
        /\ w.pc = next /\ w.snap = req[s].snap
    BY <1>2 DEF SlotState
  <2>2. /\ l.todo = req[s].todo /\ l.op = req[s].op /\ l.job = req[s].job
        /\ l.pc = next /\ l.snap = req[s].snap
    BY <1>2 DEF SlotState
  <2>3. again.todo = {} /\ again.op = "claimNext" /\ again.pc = "list"
    BY DEF Idle
  <2> HIDE DEF w, l, again
  <2>4. Remembers(w) /\ Remembers(l)
    BY <2>1, <2>2, <1>2 DEF Remembers, IInv
  <2>5. Remembers(again)
    BY <2>3 DEF Remembers, ClaimOps
  <2> QED BY <2>4, <2>5
<1>6. CASE UNCHANGED <<rows, wins>>
  <2> HIDE DEF w, l, again
  <2> QED BY <1>3, <1>4, <1>5, <1>6, RequestStep DEF ClaimMember, IInv, TypeOK
<1>7. CASE /\ rows[j].status = "queued"
           /\ rows' = [rows EXCEPT ![j] = Leased]
           /\ wins' = [wins EXCEPT ![j] = @ + 1]
  <2> HIDE DEF w, l, again
  <2>1. created \in Nat /\ created' = created /\ wins \in [Job -> Nat]
    BY JobsAssumption DEF ClaimMember, IInv, TypeOK
  <2>2. wins[j] = 0
    BY <1>2, <1>7 DEF IInv, Counted
  <2>3. wins' \in [Job -> Nat] /\ \A k \in Job : wins[k] > 0 => wins'[k] > 0
    BY <1>2, <1>7, <2>1
  <2>4. req' \in [Slot -> SlotState] /\ \A t \in Slot : Remembers(req[t])'
    BY <1>3, <1>4, <1>5, <2>1, <2>3, SlotStep
  <2>5. rows' \in [Job -> Row]
    BY <1>7, <1>2, Constants DEF IInv, TypeOK
  <2>6. Fresh'
    BY <1>2, <1>7, <2>1 DEF IInv, Fresh, TypeOK, Absent
  <2>7. Counted'
    BY <1>2, <1>7, <2>1, <2>2 DEF IInv, Counted, TypeOK, Leased
  <2> QED BY <2>1, <2>3, <2>4, <2>5, <2>6, <2>7 DEF ClaimMember, IInv, TypeOK
<1> QED BY <1>1, <1>6, <1>7

LEMMA RespondKeeps == ASSUME IInv, NEW s \in Slot, Respond(s) PROVE IInv'
<1>1. Become(s, Idle) /\ UNCHANGED <<rows, recOf, created, wins>>
  BY DEF Respond, Finish
<1>2. held' \subseteq Job /\ known' \subseteq Job
  BY DEF Respond, IInv, TypeOK, SlotState
<1> QED BY <1>1, <1>2, RequestStep, Constants, IdleRemembers

LEMMA HeartbeatFindKeeps ==
  ASSUME IInv, NEW s \in Slot, HeartbeatFind(s) PROVE IInv'
<1> DEFINE q == [req[s] EXCEPT !.pc = "save"]
<1>1. req[s] \in SlotState /\ req[s].op = "heartbeat" /\ req[s].pc = "act"
  BY DEF IInv, TypeOK, HeartbeatFind, Acting
<1>2. req[s].job \in Job
  BY <1>1 DEF IInv, Remembers, ClaimOps
<1>3. CASE Become(s, Idle)
  BY <1>3, RequestStep, Constants, IdleRemembers DEF HeartbeatFind, IInv, TypeOK
<1>4. CASE rows[req[s].job].status = "running" /\ Become(s, q)
  <2>1. req[s].job <= created /\ wins[req[s].job] > 0
    <3>1. rows[req[s].job] # Absent
      BY <1>4 DEF Absent
    <3>2. created \in Nat /\ req[s].job \in Nat
      BY <1>2, JobsAssumption DEF IInv, TypeOK, Job
    <3> QED BY <1>2, <1>4, <3>1, <3>2 DEF IInv, Fresh, Counted
  <2>2. q \in SlotState
    BY <1>1 DEF SlotState
  <2>3. /\ q.todo = req[s].todo /\ q.op = req[s].op /\ q.job = req[s].job
        /\ q.pc = "save" /\ q.snap = req[s].snap
    BY <1>1 DEF SlotState
  <2>4. Remembers(q)
    <3> HIDE DEF q
    <3> QED BY <1>1, <1>2, <2>1, <2>3 DEF Remembers, IInv
  <2> HIDE DEF q
  <2> QED BY <1>4, <2>2, <2>4, RequestStep DEF HeartbeatFind, IInv, TypeOK
<1> QED BY <1>3, <1>4 DEF HeartbeatFind, Finish

LEMMA HeartbeatSaveKeeps ==
  ASSUME IInv, NEW s \in Slot, HeartbeatSave(s) PROVE IInv'
<1>1. /\ Become(s, Idle) /\ rows' = [rows EXCEPT ![req[s].job] = Leased]
      /\ UNCHANGED <<recOf, created, held, known, wins>>
  BY DEF HeartbeatSave, Finish
<1>2. req[s].job \in Job /\ req[s].job <= created /\ wins[req[s].job] > 0
  BY DEF HeartbeatSave, IInv, Remembers
<1>3. created \in Nat /\ req[s].job \in Nat
  BY <1>2, JobsAssumption DEF IInv, TypeOK, Job
<1>4. req' \in [Slot -> SlotState] /\ \A t \in Slot : Remembers(req[t])'
  BY <1>1, <1>3, SlotStep, Constants, IdleRemembers
<1>5. rows' \in [Job -> Row]
  BY <1>1, Constants DEF IInv, TypeOK
<1>6. Fresh'
  BY <1>1, <1>2, <1>3 DEF IInv, TypeOK, Fresh
<1>7. Counted'
  BY <1>1, <1>2 DEF IInv, TypeOK, Counted, Leased
<1> QED BY <1>1, <1>4, <1>5, <1>6, <1>7 DEF IInv, TypeOK

\* Rewriting rows that were inserted, to anything but queued or running, keeps
\* what is known of the table; so does changing a timer.
LEMMA TableStep ==
  ASSUME IInv, UNCHANGED <<created, wins>>, rows' \in [Job -> Row],
         \A j \in Job : \/ rows'[j].status = rows[j].status
                        \/ rows'[j].status \notin {"queued", "running"},
         \A j \in Job : rows[j] = Absent => rows'[j] = Absent
  PROVE  Fresh' /\ Counted'
<1>1. Fresh'
  BY DEF IInv, Fresh
<1>2. Counted'
  BY DEF IInv, Counted
<1> QED BY <1>1, <1>2

LEMMA EndKeeps == ASSUME IInv, NEW s \in Slot, End(s) PROVE IInv'
<1>1. Become(s, Idle) /\ UNCHANGED <<recOf, created, held, known, wins>>
  BY DEF End, Finish
<1>2. PICK t \in Terminal :
        rows' = IF rows[req[s].job].status \in Active
                THEN [rows EXCEPT ![req[s].job] = Ended(t)] ELSE rows
  <2>1. req[s].op \in {"complete", "cancel", "fail"}
    BY DEF End, EndStatus
  <2>2. EndStatus[req[s].op] \in Terminal
    BY <2>1 DEF EndStatus, Terminal
  <2> QED BY <2>2 DEF End, CanEnd
<1>3. rows' \in [Job -> Row]
  BY <1>2, Constants DEF IInv, TypeOK
<1>4. Fresh' /\ Counted'
  <2>1. \A j \in Job : \/ rows'[j].status = rows[j].status
                       \/ rows'[j].status \notin {"queued", "running"}
    BY <1>2 DEF IInv, TypeOK, Ended, Terminal
  <2>2. \A j \in Job : rows[j] = Absent => rows'[j] = Absent
    BY <1>2 DEF IInv, TypeOK, Absent, Active
  <2> QED BY <1>1, <1>3, <2>1, <2>2, TableStep
<1>5. created \in Nat
  BY JobsAssumption DEF IInv, TypeOK
<1>6. req' \in [Slot -> SlotState] /\ \A t1 \in Slot : Remembers(req[t1])'
  BY <1>1, <1>5, SlotStep, Constants, IdleRemembers
<1> QED BY <1>1, <1>3, <1>4, <1>6 DEF IInv, TypeOK

LEMMA StopKeeps == ASSUME IInv, NEW s \in Slot, Stop(s) PROVE IInv'
<1>1. Become(s, Idle) /\ UNCHANGED <<recOf, created, held, known, wins>>
  BY DEF Stop, Finish
<1>2. rows' \in [Job -> Row]
  BY Constants DEF Stop, IInv, TypeOK
<1>3. Fresh' /\ Counted'
  <2>1. \A j \in Job : \/ rows'[j] = rows[j]
                       \/ rows[j] # Absent /\ rows'[j] = Stopping
    BY DEF Stop, Stoppable, Absent
  <2> QED BY <1>1, <1>2, <2>1, TableStep DEF Stopping
<1>4. created \in Nat
  BY JobsAssumption DEF IInv, TypeOK
<1>5. req' \in [Slot -> SlotState] /\ \A t \in Slot : Remembers(req[t])'
  BY <1>1, <1>4, SlotStep, Constants, IdleRemembers
<1> QED BY <1>1, <1>2, <1>3, <1>5 DEF IInv, TypeOK

LEMMA StepKeeps == ASSUME IInv, NEW s \in Slot, Step(s) PROVE IInv'
BY ListKeeps, ExpireOneKeeps, EndExpiryKeeps, RetryKeeps, SelectKeeps,
   ClaimMemberKeeps, RespondKeeps, HeartbeatFindKeeps, HeartbeatSaveKeeps,
   EndKeeps, StopKeeps DEF Step

\* Every request starts in a state that remembers no more than its job.
LEMMA BeginKeeps ==
  ASSUME IInv, NEW s \in Slot, NEW op \in Ops, NEW j \in Job \cup {0},
         NEW pc \in {"list", "act"}, Begin(s, op, j, pc),
         op \in ClaimOps \cup {"none", "sweep"} \/ j \in Job,
         UNCHANGED <<rows, recOf, created, wins>>,
         held' \subseteq Job, known' \subseteq Job
  PROVE  IInv'
<1> DEFINE q == [Idle EXCEPT !.op = op, !.job = j, !.pc = pc]
<1>1. q \in SlotState
  BY Constants DEF SlotState
<1>2. q.todo = {} /\ q.op = op /\ q.job = j /\ q.pc = pc
  BY DEF Idle
<1>3. Become(s, q)
  BY DEF Begin
<1> HIDE DEF q
<1>4. Remembers(q)
  BY <1>2 DEF Remembers
<1> QED BY <1>1, <1>3, <1>4, RequestStep

LEMMA ReceiveKeeps == ASSUME IInv, NEW s \in Request, Receive(s) PROVE IInv'
<1> s \in Slot
  BY DEF Slot
<1> USE DEF Ops, ClaimOps
<1>1. ASSUME NEW op \in {"claimGroup", "claimNext"}, BeginClaim(s, op) PROVE IInv'
  BY <1>1, BeginKeeps DEF BeginClaim, IInv, TypeOK
<1>2. ASSUME NEW j \in Job, BeginClaimById(s, j) PROVE IInv'
  <2> DEFINE q == [Idle EXCEPT !.op = "claim", !.pc = "list",
                               !.members = {j}, !.picks = {j}]
  <2>1. q \in SlotState
    BY Constants DEF SlotState
  <2>2. q.todo = {} /\ q.op = "claim" /\ q.pc = "list"
    BY DEF Idle
  <2>3. Become(s, q)
    BY <1>2 DEF BeginClaimById
  <2> HIDE DEF q
  <2>4. Remembers(q)
    BY <2>2 DEF Remembers
  <2> QED BY <1>2, <2>1, <2>3, <2>4, RequestStep DEF BeginClaimById, IInv, TypeOK
<1>3. ASSUME NEW j \in Job, BeginHeartbeat(s, j) PROVE IInv'
  BY <1>3, BeginKeeps DEF BeginHeartbeat, IInv, TypeOK
<1>4. ASSUME NEW j \in Job, BeginRetry(s, j) PROVE IInv'
  BY <1>4, BeginKeeps DEF BeginRetry, IInv, TypeOK
<1>5. ASSUME NEW j \in Job, NEW op \in {"complete", "cancel", "fail"},
             BeginEnd(s, op, j)
      PROVE  IInv'
  <2>1. held' \subseteq Job /\ known' \subseteq Job
    BY <1>5 DEF BeginEnd, IInv, TypeOK
  <2>2. PICK pc \in {"list", "act"} : Begin(s, op, j, pc)
    BY <1>5 DEF BeginEnd
  <2> QED BY <1>5, <2>1, <2>2, BeginKeeps DEF BeginEnd
<1>6. ASSUME NEW j \in Job, NEW op \in {"stop", "stopRecording"},
             BeginStop(s, op, j)
      PROVE  IInv'
  BY <1>6, BeginKeeps DEF BeginStop, IInv, TypeOK
<1> QED BY <1>1, <1>2, <1>3, <1>4, <1>5, <1>6 DEF Receive

LEMMA SweepKeeps == ASSUME IInv, BeginSweep \/ EndSweep PROVE IInv'
<1> LeaseRunner \in Slot
  BY DEF Slot
<1>1. CASE BeginSweep
  BY <1>1, BeginKeeps DEF BeginSweep, IInv, TypeOK, Ops
<1>2. CASE EndSweep
  BY <1>2, RequestStep, Constants, IdleRemembers
     DEF EndSweep, Finish, IInv, TypeOK
<1> QED BY <1>1, <1>2

LEMMA StoreFailsKeeps == ASSUME IInv, NEW s \in Slot, StoreFails(s) PROVE IInv'
BY RequestStep, Constants, IdleRemembers DEF StoreFails, Finish, IInv, TypeOK

LEMMA CreateKeeps == ASSUME IInv, NEW r \in Recording, Create(r) PROVE IInv'
<1>1. UNCHANGED <<req, held, known, wins>>
  BY DEF Create
<1>2. /\ rows' \in [Job -> Row] /\ recOf' \in [Job -> Recording]
      /\ created' \in 0 .. MaxJobs /\ created' \in Nat /\ created' >= created
      /\ Fresh' /\ Counted'
  BY InsertStep DEF Create
<1>3. req' \in [Slot -> SlotState] /\ \A t \in Slot : Remembers(req[t])'
  BY <1>1, <1>2, SlotStutter
<1> QED BY <1>1, <1>2, <1>3 DEF IInv, TypeOK

LEMMA DeleteKeeps == ASSUME IInv, NEW r \in Recording, Delete(r) PROVE IInv'
<1>1. UNCHANGED <<recOf, created, req, held, known, wins>>
  BY DEF Delete
<1>2. rows' \in [Job -> Row]
  BY Constants DEF Delete, IInv, TypeOK
<1>3. \A j \in Job : rows'[j] = rows[j] \/ rows'[j] = Absent
  BY DEF Delete
<1>4. Fresh' /\ Counted'
  BY <1>1, <1>2, <1>3, TableStep DEF Absent
<1>5. created \in Nat
  BY JobsAssumption DEF IInv, TypeOK
<1>6. \A t \in Slot : Remembers(req[t])'
  BY <1>1, <1>5, SlotStutter
<1> QED BY <1>1, <1>2, <1>4, <1>6 DEF IInv, TypeOK

LEMMA ElapseKeeps == ASSUME IInv, NEW j \in Job, Elapse(j) PROVE IInv'
<1>1. UNCHANGED <<recOf, created, req, held, known, wins>>
  BY DEF Elapse
<1>2. rows[j] \in Row /\ rows[j] # Absent
  BY DEF Elapse, Absent, IInv, TypeOK
<1>3. rows' \in [Job -> Row] /\ rows'[j].status = rows[j].status
  BY <1>2 DEF Elapse, Row, IInv, TypeOK
<1>4. \A k \in Job \ {j} : rows'[k] = rows[k]
  BY DEF Elapse, IInv, TypeOK
<1>5. Fresh' /\ Counted'
  BY <1>1, <1>2, <1>3, <1>4, TableStep
<1>6. created \in Nat
  BY JobsAssumption DEF IInv, TypeOK
<1>7. \A t \in Slot : Remembers(req[t])'
  BY <1>1, <1>6, SlotStutter
<1> QED BY <1>1, <1>3, <1>5, <1>7 DEF IInv, TypeOK

\* Steps of the agent alone, and stuttering.
LEMMA AgentKeeps ==
  ASSUME IInv, UNCHANGED <<rows, recOf, created, req, known, wins>>,
         held' \subseteq Job
  PROVE  IInv'
<1>1. created \in Nat
  BY JobsAssumption DEF IInv, TypeOK
<1>2. \A t \in Slot : Remembers(req[t])'
  BY <1>1, SlotStutter
<1>3. Fresh' /\ Counted'
  BY TableStutter
<1> QED BY <1>2, <1>3 DEF IInv, TypeOK

LEMMA NextIInv == IInv /\ [Next]_vars => IInv'
<1> SUFFICES ASSUME IInv, [Next]_vars PROVE IInv'
  OBVIOUS
<1>1. CASE BeginSweep \/ EndSweep
  BY <1>1, SweepKeeps
<1>2. CASE \E s \in Slot : Step(s) \/ StoreFails(s)
  BY <1>2, StepKeeps, StoreFailsKeeps
<1>3. CASE \E s \in Request : Receive(s)
  BY <1>3, ReceiveKeeps
<1>4. CASE \E r \in Recording : Create(r) \/ Delete(r)
  BY <1>4, CreateKeeps, DeleteKeeps
<1>5. CASE \E j \in Job : Elapse(j)
  BY <1>5, ElapseKeeps
<1>6. CASE (\E j \in Job : ObserveEnd(j)) \/ Crash \/ UNCHANGED vars
  BY <1>6, AgentKeeps DEF ObserveEnd, Crash, vars, IInv, TypeOK
<1> QED BY <1>1, <1>2, <1>3, <1>4, <1>5, <1>6 DEF Next

THEOREM Invariance == Spec => []IInv
BY InitIInv, NextIInv, PTL DEF Spec

------------------------------------------------------------------------------
(* Theorems *)

\* The type invariant holds of every table, whatever requests overlap.
THEOREM TypeCorrect == Spec => []TypeOK
<1>1. IInv => TypeOK
  BY DEF IInv
<1> QED BY <1>1, Invariance, PTL

\* No job is ever claimed twice (claimRecordingJob), for any number of workers
\* asking for work, by group or by id, against stops, retries, deletions and
\* expiry passes.
THEOREM NoDoubleClaim == Spec => []ClaimedOnce
<1>1. IInv => ClaimedOnce
  BY DEF IInv, Counted, ClaimedOnce
<1> QED BY <1>1, Invariance, PTL

\* A step that gives an ended or deleted row another status is the save of a
\* heartbeat that had found it running.
LEMMA EndedStep ==
  ASSUME IInv, Next, NEW j \in 1 .. created,
         rows[j].status \in Terminal \cup {"absent"},
         rows'[j].status \notin {rows[j].status, "absent"}
  PROVE  \E s \in Slot : req[s].pc = "save" /\ req[s].job = j
<1>1. /\ j \in Job /\ created \in Nat /\ j <= created /\ Job \subseteq Nat
      /\ rows[j].status \notin Active /\ rows \in [Job -> Row]
  BY JobsAssumption DEF IInv, TypeOK, Job, Terminal, Active
<1>2. ASSUME NEW s \in Slot, Step(s)
      PROVE  req[s].pc = "save" /\ req[s].job = j
  <2>1. CASE List(s) \/ EndExpiry(s) \/ Select(s) \/ Respond(s) \/ HeartbeatFind(s)
    BY <2>1 DEF List, EndExpiry, Select, Respond, HeartbeatFind
  <2>2. CASE ExpireOne(s)
    <3>1. PICK k \in req[s].todo :
            \/ rows' = rows
            \/ /\ rows[k].status = req[s].snap[k]
               /\ \E t \in Terminal : rows' = [rows EXCEPT ![k] = Ended(t)]
      BY <2>2 DEF ExpireOne, Terminal
    <3>2. req[s].snap[k] \in Active
      BY DEF IInv, Remembers, Active
    <3> QED BY <1>1, <3>1, <3>2
  <2>3. CASE Retry(s)
    BY <1>1, <2>3 DEF Retry
  <2>4. CASE ClaimMember(s)
    BY <1>1, <2>4 DEF ClaimMember, CanClaim, Active
  <2>5. CASE HeartbeatSave(s)
    BY <1>1, <2>5 DEF HeartbeatSave
  <2>6. CASE End(s)
    BY <1>1, <2>6 DEF End, CanEnd
  <2>7. CASE Stop(s)
    BY <1>1, <2>7 DEF Stop, Stoppable, Active
  <2> QED BY <1>2, <2>1, <2>2, <2>3, <2>4, <2>5, <2>6, <2>7 DEF Step
<1>3. CASE \/ BeginSweep \/ EndSweep \/ Crash
           \/ \E k \in Job : ObserveEnd(k)
           \/ \E s \in Slot : StoreFails(s)
  BY <1>3 DEF BeginSweep, EndSweep, Crash, ObserveEnd, StoreFails
<1>4. CASE \E s \in Request : Receive(s)
  BY <1>4 DEF Receive, BeginClaim, BeginClaimById, BeginHeartbeat, BeginRetry,
              BeginEnd, BeginStop
<1>5. CASE \E r \in Recording : Create(r) \/ Delete(r)
  BY <1>1, <1>5 DEF Create, Delete, Absent
<1>6. CASE \E k \in Job : Elapse(k)
  <2>1. PICK k \in Job : rows' = [rows EXCEPT ![k].timer = "elapsed"]
    BY <1>6 DEF Elapse
  <2>2. rows[k] \in Row
    BY <1>1
  <2> QED BY <1>1, <2>1, <2>2 DEF Row
<1> QED BY <1>2, <1>3, <1>4, <1>5, <1>6 DEF Next

\* An ended or deleted row is left alone by everything but such a heartbeat:
\* the compare and set of every other request fails on it.
THEOREM EndsAreFinal == Spec => EndsStand
<1>1. IInv /\ [Next]_vars =>
        [\A j \in 1 .. created :
           /\ rows[j].status \in Terminal \cup {"absent"}
           /\ rows'[j].status \notin {rows[j].status, "absent"}
           => \E s \in Slot : req[s].pc = "save" /\ req[s].job = j]_vars
  BY EndedStep
<1> QED BY <1>1, Invariance, PTL DEF Spec, EndsStand

------------------------------------------------------------------------------
(* The table implements JobLifecycle *)

\* Writing the row of an inserted job moves that job only.
LEMMA WriteSeen ==
  ASSUME IInv, NEW j \in Job, j <= created, NEW r \in Row, created' = created,
         rows' = [rows EXCEPT ![j] = r]
  PROVE  Visible' = [Visible EXCEPT ![j] = r.status]
<1>1. created \in Nat /\ Job \subseteq Nat /\ rows \in [Job -> Row]
  BY JobsAssumption DEF IInv, TypeOK, Job
<1>2. ASSUME NEW k \in Job
      PROVE  Visible'[k] = IF k = j THEN r.status ELSE Visible[k]
  <2>1. rows'[k] = IF k = j THEN r ELSE rows[k]
    BY <1>1
  <2>2. j \in Nat /\ k \in Nat /\ (k = j => ~(k > created))
    BY <1>1
  <2> QED BY <2>1, <2>2 DEF Visible
<1>3. Visible' = [k \in Job |-> Visible'[k]]
  BY DEF Visible
<1>4. [Visible EXCEPT ![j] = r.status]
        = [k \in Job |-> IF k = j THEN r.status ELSE Visible[k]]
  BY DEF Visible
<1> HIDE DEF Visible
<1> QED BY <1>2, <1>3, <1>4

\* The row of a job that is not absent was inserted.
LEMMA Inserted ==
  ASSUME IInv, NEW j \in Job, rows[j].status # "absent"
  PROVE  j <= created /\ Visible[j] = rows[j].status
<1>1. created \in Nat /\ j \in Nat
  BY JobsAssumption DEF IInv, TypeOK, Job
<1>2. j <= created
  BY <1>1 DEF IInv, Fresh, Absent
<1> QED BY <1>1, <1>2 DEF Visible

\* Inserting the next row makes one unborn job queued.
LEMMA InsertSeen ==
  ASSUME IInv, created < MaxJobs, created' = created + 1,
         rows' = [rows EXCEPT ![created + 1] = Queued], wins' = wins
  PROVE  Lifecycle!Next
<1>1. /\ created \in Nat /\ MaxJobs \in Nat /\ created + 1 \in Job
      /\ Job \subseteq Nat /\ rows \in [Job -> Row]
  BY JobsAssumption DEF IInv, TypeOK, Job
<1>2. Visible[created + 1] = "unborn"
  BY <1>1 DEF Visible
<1>3. Visible' = [Visible EXCEPT ![created + 1] = "queued"]
  <2>1. ASSUME NEW k \in Job
        PROVE  Visible'[k] = IF k = created + 1 THEN "queued" ELSE Visible[k]
    <3>1. CASE k = created + 1
      BY <1>1, <3>1 DEF Visible, Queued
    <3>2. CASE k # created + 1
      <4>1. rows'[k] = rows[k] /\ (k > created' <=> k > created)
        BY <1>1, <3>2
      <4> QED BY <3>2, <4>1 DEF Visible
    <3> QED BY <3>1, <3>2
  <2>2. Visible' = [k \in Job |-> Visible'[k]]
    BY DEF Visible
  <2>3. [Visible EXCEPT ![created + 1] = "queued"]
          = [k \in Job |-> IF k = created + 1 THEN "queued" ELSE Visible[k]]
    BY <1>1 DEF Visible
  <2> HIDE DEF Visible
  <2> QED BY <2>1, <2>2, <2>3
<1>4. Claimed' = Claimed
  BY DEF Claimed
<1>5. Lifecycle!Queue(created + 1)
  BY <1>2, <1>3, <1>4 DEF Lifecycle!Queue, Lifecycle!Move
<1> QED BY <1>1, <1>5 DEF Lifecycle!Next

\* A step that changes neither rows, ids nor claims is a stutter.
LEMMA UnseenStep ==
  ASSUME UNCHANGED <<rows, created, wins>>
  PROVE  UNCHANGED Lifecycle!vars
BY DEF Lifecycle!vars, Visible, Claimed

\* Every step of a request in flight is a step of the lifecycle, or a stutter.
LEMMA StepRefines ==
  ASSUME IInv, NEW s \in Slot, Step(s)
  PROVE  [Lifecycle!Next]_(Lifecycle!vars)
<1> USE DEF Lifecycle!Active, Active, Lifecycle!Terminal, Terminal,
            Lifecycle!Stoppable, Stoppable
<1>1. rows \in [Job -> Row]
  BY DEF IInv, TypeOK
<1>2. CASE List(s) \/ EndExpiry(s) \/ Select(s) \/ Respond(s) \/ HeartbeatFind(s)
  BY <1>2, UnseenStep DEF List, EndExpiry, Select, Respond, HeartbeatFind
<1>3. CASE ExpireOne(s)
  <2>1. created' = created /\ wins' = wins
    BY <1>3 DEF ExpireOne
  <2>2. PICK j \in req[s].todo :
          \/ rows' = rows
          \/ /\ rows[j].status = req[s].snap[j]
             /\ \E t \in Terminal : rows' = [rows EXCEPT ![j] = Ended(t)]
    BY <1>3 DEF ExpireOne
  <2>3. j \in Job /\ req[s].snap[j] \in Active
    BY DEF IInv, Remembers, TypeOK, SlotState
  <2>4. CASE rows' = rows
    BY <2>1, <2>4, UnseenStep
  <2>5. CASE /\ rows[j].status = req[s].snap[j]
             /\ \E t \in Terminal : rows' = [rows EXCEPT ![j] = Ended(t)]
    <3>1. PICK t \in Terminal : rows' = [rows EXCEPT ![j] = Ended(t)]
      BY <2>5
    <3>2. j <= created /\ Visible[j] \in Active
      BY <2>3, <2>5, Inserted
    <3>3. Visible' = [Visible EXCEPT ![j] = t]
      BY <2>1, <2>3, <3>1, <3>2, WriteSeen, Constants DEF Ended
    <3>4. Claimed' = Claimed
      BY <2>1 DEF Claimed
    <3>5. Lifecycle!End(j, t)
      BY <3>2, <3>3, <3>4 DEF Lifecycle!End, Lifecycle!Move
    <3> QED BY <2>3, <3>5 DEF Lifecycle!Next
  <2> QED BY <2>2, <2>4, <2>5
<1>4. CASE Retry(s)
  <2>1. wins' = wins
    BY <1>4 DEF Retry
  <2>2. CASE UNCHANGED <<created, rows, recOf>>
    BY <2>1, <2>2, UnseenStep
  <2>3. CASE /\ created < MaxJobs /\ created' = created + 1
             /\ rows' = [rows EXCEPT ![created + 1] = Queued]
    BY <2>1, <2>3, InsertSeen
  <2> QED BY <1>4, <2>2, <2>3 DEF Retry
<1>5. CASE ClaimMember(s)
  <2>1. created' = created
    BY <1>5 DEF ClaimMember
  <2>2. PICK j \in req[s].picks :
          \/ UNCHANGED <<rows, wins>>
          \/ /\ rows[j].status = "queued"
             /\ rows' = [rows EXCEPT ![j] = Leased]
             /\ wins' = [wins EXCEPT ![j] = @ + 1]
    BY <1>5 DEF ClaimMember, CanClaim
  <2>3. CASE UNCHANGED <<rows, wins>>
    BY <2>1, <2>3, UnseenStep
  <2>4. CASE /\ rows[j].status = "queued"
             /\ rows' = [rows EXCEPT ![j] = Leased]
             /\ wins' = [wins EXCEPT ![j] = @ + 1]
    <3>1. j \in Job /\ wins \in [Job -> Nat]
      BY DEF IInv, TypeOK, SlotState
    <3>2. j <= created /\ Visible[j] = "queued" /\ wins[j] = 0
      BY <2>4, <3>1, Inserted DEF IInv, Counted
    <3>3. Visible' = [Visible EXCEPT ![j] = "running"]
      BY <2>1, <2>4, <3>1, <3>2, WriteSeen, Constants DEF Leased
    <3>4. j \notin Claimed /\ Claimed' = Claimed \cup {j}
      BY <2>4, <3>1, <3>2 DEF Claimed
    <3>5. Lifecycle!Claim(j)
      BY <3>2, <3>3, <3>4 DEF Lifecycle!Claim, Lifecycle!Move
    <3> QED BY <3>1, <3>5 DEF Lifecycle!Next
  <2> QED BY <2>2, <2>3, <2>4
<1>6. CASE HeartbeatSave(s)
  <2>1. /\ req[s].job \in Job /\ req[s].job <= created /\ wins[req[s].job] > 0
        /\ rows' = [rows EXCEPT ![req[s].job] = Leased]
        /\ created' = created /\ wins' = wins
    BY <1>6 DEF HeartbeatSave, IInv, Remembers
  <2>2. Visible' = [Visible EXCEPT ![req[s].job] = "running"]
    BY <2>1, WriteSeen, Constants DEF Leased
  <2>3. Lifecycle!Renew(req[s].job)
    BY <2>1, <2>2 DEF Lifecycle!Renew, Claimed
  <2> QED BY <2>1, <2>3 DEF Lifecycle!Next
<1>7. CASE End(s)
  <2>1. created' = created /\ wins' = wins
    BY <1>7 DEF End
  <2>2. req[s].op \in {"complete", "cancel", "fail"}
    BY <1>7 DEF End, EndStatus
  <2>3. req[s].job \in Job
    BY <2>2 DEF IInv, Remembers, ClaimOps
  <2>4. EndStatus[req[s].op] \in Terminal
    BY <2>2 DEF EndStatus
  <2>5. CASE rows[req[s].job].status \notin Active
    BY <1>7, <2>1, <2>5, UnseenStep DEF End, CanEnd
  <2>6. CASE rows[req[s].job].status \in Active
    <3> DEFINE j == req[s].job
               t == EndStatus[req[s].op]
    <3>1. rows' = [rows EXCEPT ![j] = Ended(t)]
      BY <1>7, <2>6 DEF End, CanEnd
    <3>2. j <= created /\ Visible[j] \in Active
      BY <2>3, <2>6, Inserted
    <3>3. Visible' = [Visible EXCEPT ![j] = t]
      BY <2>1, <2>3, <2>4, <3>1, <3>2, WriteSeen, Constants DEF Ended
    <3>4. Claimed' = Claimed
      BY <2>1 DEF Claimed
    <3>5. Lifecycle!End(j, t)
      BY <3>2, <3>3, <3>4 DEF Lifecycle!End, Lifecycle!Move
    <3> HIDE DEF j, t
    <3> QED BY <2>3, <2>4, <3>5 DEF Lifecycle!Next, j, t
  <2> QED BY <2>5, <2>6
<1>8. CASE Stop(s)
  <2>1. created' = created /\ wins' = wins
    BY <1>8 DEF Stop
  <2>2. \A j, k \in StopTarget(req[s]) : j = k
    BY DEF StopTarget, Job
  <2>3. CASE \A j \in StopTarget(req[s]) : rows[j].status \notin Stoppable
    <3>1. rows' = rows
      BY <1>1, <1>8, <2>3 DEF Stop
    <3> QED BY <2>1, <3>1, UnseenStep
  <2>4. CASE \E j \in StopTarget(req[s]) : rows[j].status \in Stoppable
    <3>1. PICK j \in StopTarget(req[s]) : rows[j].status \in Stoppable
      BY <2>4
    <3>2. j \in Job
      BY DEF StopTarget
    <3>3. rows' = [rows EXCEPT ![j] = Stopping]
      BY <1>1, <1>8, <2>2, <3>1, <3>2 DEF Stop
    <3>4. j <= created /\ Visible[j] \in Stoppable
      BY <3>1, <3>2, Inserted
    <3>5. Visible' = [Visible EXCEPT ![j] = "stop_requested"]
      BY <2>1, <3>2, <3>3, <3>4, WriteSeen, Constants DEF Stopping
    <3>6. Claimed' = Claimed
      BY <2>1 DEF Claimed
    <3>7. Lifecycle!Stop(j)
      BY <3>4, <3>5, <3>6 DEF Lifecycle!Stop, Lifecycle!Move
    <3> QED BY <3>2, <3>7 DEF Lifecycle!Next
  <2> QED BY <2>3, <2>4
<1> QED BY <1>2, <1>3, <1>4, <1>5, <1>6, <1>7, <1>8 DEF Step

LEMMA NextRefines ==
  ASSUME IInv, [Next]_vars
  PROVE  [Lifecycle!Next]_(Lifecycle!vars)
<1>1. CASE \E s \in Slot : Step(s)
  BY <1>1, StepRefines
<1>2. CASE \/ BeginSweep \/ EndSweep \/ Crash \/ UNCHANGED vars
           \/ \E j \in Job : ObserveEnd(j)
           \/ \E s \in Request : Receive(s)
           \/ \E s \in Slot : StoreFails(s)
  <2>1. UNCHANGED <<rows, created, wins>>
    BY <1>2 DEF StoreFails, BeginSweep, EndSweep, Crash, vars, ObserveEnd, Receive,
                BeginClaim, BeginClaimById, BeginHeartbeat, BeginRetry,
                BeginEnd, BeginStop
  <2> QED BY <2>1, UnseenStep
<1>3. CASE \E r \in Recording : Create(r)
  BY <1>3, InsertSeen DEF Create
<1>4. CASE \E r \in Recording : Delete(r)
  <2>1. PICK r \in Recording :
          /\ rows' = [j \in Job |-> IF recOf[j] = r THEN Absent ELSE rows[j]]
          /\ UNCHANGED <<created, wins>>
    BY <1>4 DEF Delete
  <2> DEFINE J == {j \in Job : recOf[j] = r /\ j <= created}
  <2>2. created \in Nat /\ Job \subseteq Nat /\ rows \in [Job -> Row]
    BY JobsAssumption DEF IInv, TypeOK, Job
  <2>3. Visible' = [j \in Job |-> IF j \in J THEN "absent" ELSE Visible[j]]
    BY <2>1, <2>2 DEF Visible, Absent
  <2>4. \A j \in J : Visible[j] # "unborn"
    <3>1. \A j \in J : Visible[j] = rows[j].status
      BY <2>2 DEF Visible
    <3>2. \A j \in J : rows[j].status \in Status
      BY <2>2 DEF Row
    <3> QED BY <3>1, <3>2 DEF Status, Active, Terminal
  <2>5. Claimed' = Claimed
    BY <2>1 DEF Claimed
  <2> J \subseteq Job
    OBVIOUS
  <2> HIDE DEF J
  <2>6. Lifecycle!Remove(J)
    BY <2>3, <2>4, <2>5 DEF Lifecycle!Remove, Visible
  <2> QED BY <2>6 DEF Lifecycle!Next
<1>5. CASE \E j \in Job : Elapse(j)
  <2>1. PICK j \in Job : rows' = [rows EXCEPT ![j].timer = "elapsed"]
    BY <1>5 DEF Elapse
  <2>2. rows \in [Job -> Row]
    BY DEF IInv, TypeOK
  <2>3. \A k \in Job : rows'[k].status = rows[k].status
    BY <2>1, <2>2 DEF Row
  <2>4. created' = created /\ wins' = wins
    BY <1>5 DEF Elapse
  <2> QED BY <2>3, <2>4 DEF Visible, Claimed, Lifecycle!vars
<1> QED BY <1>1, <1>2, <1>3, <1>4, <1>5 DEF Next

LEMMA InitRefines == Init => Lifecycle!Init
<1> SUFFICES ASSUME Init PROVE Lifecycle!Init
  OBVIOUS
<1>1. \A j \in Job : j > 0
  BY DEF Job
<1> QED BY <1>1 DEF Init, Lifecycle!Init, Visible, Claimed

\* Whatever requests overlap, a client sees each job go through the lifecycle
\* of RecordingJobStatus: queued once, claimed at most once, ended by moves
\* out of the active statuses only, and renewed only if it had been claimed.
THEOREM TableImplementsLifecycle == Spec => ImplementsLifecycle
<1>1. IInv /\ [Next]_vars => [Lifecycle!Next]_(Lifecycle!vars)
  BY NextRefines
<1> QED BY <1>1, InitRefines, Invariance, PTL
        DEF Spec, ImplementsLifecycle, Lifecycle!Spec
==============================================================================
