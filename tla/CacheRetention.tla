---------------------------- MODULE CacheRetention ----------------------------
(***************************************************************************)
(* The takes that stay in a recorder's own cache after their upload: the   *)
(* manifest that the agent keeps of them, the workers that add to it, and  *)
(* the sweeps that delete takes under the cache policies                   *)
(* (recorder_cache_retention.rs, main.rs, recording_job_disk.rs).          *)
(*                                                                         *)
(* A take is a raw file and a rendered one.  How a take is captured and    *)
(* uploaded, and the recovery of interrupted captures, is AgentCapture.    *)
(* The policies do not change.                                             *)
(***************************************************************************)
EXTENDS CachePromise, FiniteSetsExt, SequencesExt

CONSTANTS
  Recording, Assigned,   \* the policies that the job of a recording may have
  RawSize, OutSize, Capacity,
  Worker, Main, Nobody, NoTake,
  MaxTime, MaxFaults       \* bounds

CacheRetentionAssumption ==
  /\ \A r \in Recording : Assigned[r] \subseteq Range(Policies)
  /\ Policies \in Seq(Range(Policies)) /\ IsInjective(Policies)
  /\ \A p \in Range(Policies) :
       Limits[p] \in [age : Nat, bytes : Nat, free : Nat, now : BOOLEAN]
  /\ RawSize \in [Recording -> Nat] /\ OutSize \in Nat /\ Capacity \in Nat
  /\ Main \notin Worker /\ Nobody \notin Worker \cup {Main} /\ NoTake \notin Recording

VARIABLES
  lock,            \* MANIFEST_MUTEX
  state,           \* the take in the state file that a restart finishes
  faults

vars == <<clock, files, manifest, policy, lock, state, doing, faults, delivered, orphaned>>

Process == Worker \cup {Main}
NoPlaces == [r \in Recording |-> 0]

\* What a process does and the take it is about; of a sweep, the free disk that it
\* measured, the manifest that it read, and what it plans, has left to do and drops.
Work(pc, rec) ==
  [pc |-> pc, rec |-> rec, free |-> 0, loaded |-> NoPlaces,
   cands |-> {}, plan |-> {}, left |-> {}, gone |-> {}]
Idle == Work("idle", NoTake)
At(p, pc) == doing[p].pc = pc
Goes(p, next) == doing' = [doing EXCEPT ![p] = next]
Listed == {r \in Recording : manifest[r] > 0}
FilesOf(r) == {f \in files : f.rec = r}
File(r, kind, size) == [rec |-> r, kind |-> kind, size |-> size, at |-> clock]
DeletesNow(r) == Limits[policy[r]].now

Free == Capacity - Size(files)

TypeOK ==
  /\ \A f \in files : f.rec \in Recording /\ f.kind \in {"raw", "out"} /\ f.at \in 0..clock
  /\ manifest \in [Recording -> Nat]
  /\ policy \in [Recording -> Range(Policies)]
  /\ lock \in Process \cup {Nobody} /\ state \in Recording \cup {NoTake}
  /\ \A p \in Process :
       /\ doing[p].pc \in {"idle", "capture", "apply", "tracking", "done", "sweep", "delete"}
       /\ doing[p].rec \in Recording \cup {NoTake}

Init ==
  /\ clock = 0 /\ files = {} /\ manifest = NoPlaces /\ lock = Nobody /\ state = NoTake
  /\ doing = [p \in Process |-> Idle]
  /\ policy \in [Recording -> Range(Policies)]
  /\ \A r \in Recording : policy[r] \in Assigned[r]
  /\ faults = 0 /\ delivered = {} /\ orphaned = {}

Tick ==
  /\ clock < MaxTime /\ clock' = clock + 1
  /\ UNCHANGED <<policy, files, manifest, lock, state, doing, faults, delivered, orphaned>>

-----------------------------------------------------------------------------
(* A take, and its place in the manifest *)

Unused(r) == r \notin delivered \cup orphaned /\ FilesOf(r) = {}

\* The main loop gives an idle worker a take.  The state file, which names one take
\* only, does not know its policy before the upload.
Capture(w, r) ==
  /\ At(w, "idle") /\ At(Main, "idle") /\ w \in Worker
  /\ Unused(r) /\ \A o \in Recording : o < r => ~Unused(o)
  /\ RawSize[r] + OutSize <= Free
  /\ files' = files \cup {File(r, "raw", RawSize[r])}
  /\ state' = NoTake
  /\ Goes(w, Work("capture", r))
  /\ UNCHANGED <<policy, clock, manifest, lock, faults, delivered, orphaned>>

\* The take is rendered, named in the state file with its policy, and uploaded.
Deliver(w) ==
  /\ At(w, "capture")
  /\ files' = files \cup {File(doing[w].rec, "out", OutSize)}
  /\ state' = doing[w].rec
  /\ delivered' = delivered \cup {doing[w].rec}
  /\ Goes(w, Work("apply", doing[w].rec))
  /\ UNCHANGED <<policy, clock, manifest, lock, faults, orphaned>>

\* Mutant: the manifest is read without its lock.
AcquireNone(p) == UNCHANGED lock

Acquire(p) == lock = Nobody /\ lock' = p

\* apply_recorder_cache_retention, when the policy deletes later.
BeginTrack(p) ==
  /\ At(p, "apply") /\ ~DeletesNow(doing[p].rec)
  /\ Acquire(p)
  /\ Goes(p, [Work("tracking", doing[p].rec) EXCEPT !.loaded = manifest])
  /\ UNCHANGED <<policy, clock, files, manifest, state, faults, delivered, orphaned>>

Newest(places, rec) ==
  [r \in Recording |-> IF r = rec THEN 1 ELSE IF places[r] > 0 THEN places[r] + 1 ELSE 0]

Track(p) ==
  /\ At(p, "tracking")
  /\ manifest' = Newest(doing[p].loaded, doing[p].rec)
  /\ lock' = Nobody
  /\ Goes(p, Work("done", doing[p].rec))
  /\ UNCHANGED <<policy, clock, files, state, faults, delivered, orphaned>>

\* A manifest that cannot be written is an event, and no more.
TrackFails(p) ==
  /\ At(p, "tracking") /\ faults < MaxFaults
  /\ faults' = faults + 1 /\ lock' = Nobody
  /\ orphaned' = orphaned \cup {doing[p].rec}
  /\ Goes(p, Work("done", doing[p].rec))
  /\ UNCHANGED <<policy, clock, files, manifest, state, delivered>>

\* The file that is removed next: the older take first, the raw file first.
NextFile(left) ==
  {f \in left : \A g \in left : f.rec < g.rec \/ (f.rec = g.rec /\ (f.kind = "raw" \/ f = g))}

\* apply_recorder_cache_retention, when it deletes at once: file by file, and one
\* that cannot be removed is an event.
DeleteNow(p) ==
  LET mine == FilesOf(doing[p].rec) IN
  /\ At(p, "apply") /\ DeletesNow(doing[p].rec)
  /\ \/ /\ \E f \in NextFile(mine) : files' = files \ {f}
        /\ UNCHANGED <<doing, faults, orphaned>>
     \/ /\ faults < MaxFaults /\ faults' = faults + 1
        /\ \E f \in NextFile(mine) : files' = files \ (mine \ {f})
        /\ orphaned' = orphaned \cup {doing[p].rec} /\ Goes(p, Work("done", doing[p].rec))
     \/ /\ mine = {} /\ Goes(p, Work("done", doing[p].rec)) /\ UNCHANGED <<files, faults, orphaned>>
  /\ UNCHANGED <<policy, clock, manifest, lock, state, delivered>>

Done(p) ==
  /\ At(p, "done")
  /\ state' = NoTake
  /\ Goes(p, Idle)
  /\ UNCHANGED <<policy, clock, files, manifest, lock, faults, delivered, orphaned>>

-----------------------------------------------------------------------------
(* A sweep *)

\* candidate_for_entry: what is left of a take, as old as its oldest file.
Candidate(r, pos) ==
  [rec |-> r, pos |-> pos, size |-> Size(FilesOf(r)), at |-> Min({f.at : f \in FilesOf(r)})]

\* Mutant: a take that lost one of its files is no candidate.
PresentWhole(r) == Cardinality(FilesOf(r)) = 2

\* A take is a candidate as long as one of its files is there.
Present(r) == FilesOf(r) # {}

Candidates == {Candidate(r, manifest[r]) : r \in {q \in Listed : Present(q)}}

\* The oldest of some candidates that make up a size, or all of them.
Oldest(cands, need) == {c \in cands : Size({b \in cands : Before(b, c)}) < need}

Shortage(limit, free, freed) == IF free >= limit THEN 0 ELSE limit - free - freed

\* Mutant: the takes that are too old still count as kept.
PlannedTwice(cands, free, plan, p) ==
  LET mine == Under(cands, p)
      aged == Aged(mine, p)
      big == Oldest(mine \ aged, Size(mine) - Limits[p].bytes)
      rest == mine \ (aged \cup big) IN
  aged \cup big \cup Oldest(rest, Shortage(Limits[p].free, free, Size(plan \cup aged \cup big)))

\* deletion_plan for one policy, beside what the policies before it planned: what is
\* too old, then the oldest until the rest fits, then until enough of the disk is free.
Planned(cands, free, plan, p) ==
  LET mine == Under(cands, p)
      aged == Aged(mine, p)
      big == Oldest(mine \ aged, Size(mine \ aged) - Limits[p].bytes)
      rest == mine \ (aged \cup big) IN
  aged \cup big \cup Oldest(rest, Shortage(Limits[p].free, free, Size(plan \cup aged \cup big)))

Widened(cands, free, plan, p) == plan \cup Planned(cands, free, plan, p)

Plan(cands, free, policies) ==
  LET upTo[k \in 0..Len(policies)] ==
        IF k = 0 THEN {} ELSE Widened(cands, free, upTo[k - 1], policies[k])
  IN  upTo[Len(policies)]

\* The disk is measured first: by a worker that captures and has too little of it,
\* or by the main loop when no worker is busy.
BeginSweep(p) ==
  /\ IF p = Main THEN \A o \in Process : At(o, "idle") ELSE At(p, "capture")
  /\ Goes(p, [Work("sweep", doing[p].rec) EXCEPT !.free = Free])
  /\ UNCHANGED <<policy, clock, files, manifest, lock, state, faults, delivered, orphaned>>

\* run_recorder_cache_sweep: the manifest is read, and its deletions are planned.
PlanSweep(p) ==
  LET cands == Candidates
      plan == Plan(cands, doing[p].free, Policies)
      planned == {r \in Listed : \E c \in plan : c.rec = r} IN
  /\ At(p, "sweep")
  /\ Acquire(p)
  /\ Goes(p, [doing[p] EXCEPT
       !.pc = "delete", !.loaded = manifest, !.cands = cands, !.plan = plan,
       !.left = {f \in files : f.rec \in planned},
       !.gone = {r \in Listed : ~Present(r)} \cup planned])
  /\ UNCHANGED <<policy, clock, files, manifest, state, faults, delivered, orphaned>>

\* One file is removed, or cannot be: then its take stays in the manifest.
DeleteFile(p) ==
  /\ At(p, "delete")
  /\ \E f \in NextFile(doing[p].left) :
       \/ /\ files' = files \ {f} /\ Goes(p, [doing[p] EXCEPT !.left = @ \ {f}])
          /\ UNCHANGED faults
       \/ /\ faults < MaxFaults /\ faults' = faults + 1
          /\ Goes(p, [doing[p] EXCEPT !.left = @ \ {f}, !.gone = @ \ {f.rec}])
          /\ UNCHANGED files
  /\ UNCHANGED <<policy, clock, manifest, lock, state, delivered, orphaned>>

\* Mutant: the takes that were planned are dropped, also one that is still there.
Pruned(p) == {c.rec : c \in doing[p].plan} \cup doing[p].gone

Dropped(p) == doing[p].gone

\* What is gone is dropped from the manifest that was read; it may fail to be saved.
EndSweep(p) ==
  /\ At(p, "delete") /\ doing[p].left = {}
  /\ \/ /\ manifest' = [r \in Recording |-> IF r \in Dropped(p) THEN 0 ELSE doing[p].loaded[r]]
        /\ UNCHANGED faults
     \/ faults < MaxFaults /\ faults' = faults + 1 /\ UNCHANGED manifest
  /\ lock' = Nobody
  /\ Goes(p, IF p = Main THEN Idle ELSE Work("capture", doing[p].rec))
  /\ UNCHANGED <<policy, clock, files, state, delivered, orphaned>>

-----------------------------------------------------------------------------
\* The agent dies.  Its next run finishes the take that the state file names; the
\* others are found by nobody.
Restart ==
  /\ faults < MaxFaults /\ faults' = faults + 1
  /\ orphaned' = orphaned \cup ({doing[p].rec : p \in Process} \ {state, NoTake})
  /\ lock' = Nobody
  /\ doing' = [p \in Process |->
                IF p = Main /\ state # NoTake THEN Work("apply", state) ELSE Idle]
  /\ UNCHANGED <<policy, clock, files, manifest, state, delivered>>

Next ==
  \/ Tick \/ Restart
  \/ \E p \in Process :
       \/ \E r \in Recording : Capture(p, r)
       \/ Deliver(p) \/ BeginTrack(p) \/ Track(p) \/ TrackFails(p) \/ DeleteNow(p) \/ Done(p)
       \/ BeginSweep(p) \/ PlanSweep(p) \/ DeleteFile(p) \/ EndSweep(p)

Spec == Init /\ [][Next]_vars
===============================================================================
