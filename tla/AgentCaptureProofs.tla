------------------------- MODULE AgentCaptureProofs -------------------------
(***************************************************************************)
(* The recorder agent keeps what it captured, and sends it with its start: *)
(* AudioKept and StartKept of AgentCapture hold of every behaviour, for    *)
(* any number of jobs, sessions, workers, pieces and faults.               *)
(*                                                                         *)
(* The inductive invariant follows the audio of a primary through its      *)
(* files.  It is in the core (raw, segments, stitched) until it is         *)
(* received, but for the pieces a loss dropped.  A worker relies on nobody *)
(* else touching the files of its session; a recovery relies on the record *)
(* it works on; both are true only while the job is not in exposed.  For   *)
(* the start, a second one follows the segments: a worker remembers all of *)
(* them until it stitches them, and the state file names them unless a     *)
(* crash came in between.                                                  *)
(***************************************************************************)
EXTENDS AgentCapture, FiniteSetTheorems, TLAPS

\* Primaries, and the jobs that share the capture of one.
Lead == {s[1] : s \in Sessions}
Unclaimed == {s[1] : s \in queued}
Members(p) == Shared(p) \ {p}
Rest(w) == {work[w].jobs[k] : k \in 2..Len(work[w].jobs)}
Busy(w) == work[w].pc # "idle"
\* Where the captured audio is before anything is rendered from it.
Core(j) == disk[j].raw \cup disk[j].segment \cup disk[j].stitched \cup dropped[j]

\* The phases of a worker: it captures, it renders, it is done with the primary.
Early == {"claimed", "capturing", "lost", "restarted", "captured"}
Middle == {"rendering", "rendered", "uploading"}
Late == {"members", "member"}
Master == {"raw", "stitched"}

\* What the state file may say.
Snapshots == [job : Job \cup {NoJob}, status : Ended \cup {"running", "captured", "upload_pending", "uploaded"},
            path : File \cup {NoFile}, master : File \cup {NoFile}, segs : SUBSET Piece, retained : BOOLEAN]

\* What a worker may be doing: the master is known from the rendering on, the
\* output from the rendered file on.
WorkRec ==
  {r \in [pc : {"idle"} \cup Early \cup Middle \cup Late, jobs : Seq(Job),
          path : File \cup {NoFile}, master : File \cup {NoFile}, segs : SUBSET Piece,
          linked : BOOLEAN] :
     /\ r.pc \in Middle \cup Late => r.master \in Master
     /\ r.pc \in {"rendered", "uploading"} \cup Late => r.path \in {r.master, "render"}}
\* What the tick loop may be doing.
MainRec ==
  [pc : {"boot", "loop", "recover", "resend", "retain", "close"}, rec : Snapshots,
   syncFailed : BOOLEAN, pending : BOOLEAN]

\* TypeOK with the fields of the records.
Typed ==
  /\ queued \subseteq Sessions
  /\ ctl \in [Job -> {"queued", "running", "stop_requested"} \cup Ended]
  /\ received \in [Job -> SUBSET Piece]
  /\ disk \in [Job -> [File -> SUBSET Piece]]
  /\ state \in Snapshots
  /\ work \in [Worker -> WorkRec]
  /\ main \in MainRec
  /\ main.pc = "resend" => main.rec.path \in File
  /\ link \in BOOLEAN
  /\ heard \in [Job -> SUBSET Piece] /\ dropped \in [Job -> SUBSET Piece]
  /\ exposed \subseteq Job /\ torn \subseteq Job

\* Nothing happened yet to a session that was not claimed.
Fresh ==
  \A p \in Unclaimed :
    /\ heard[p] = {} /\ disk[p].stitched = {}
    /\ state.job \notin Shared(p) /\ main.rec.job \notin Shared(p)

\* A worker holds a primary that was claimed and, of its members, those that are
\* not done; no two workers hold the same.
WellCrewed(w) ==
  /\ Len(work[w].jobs) > 0
  /\ Primary(w) \in Lead \ Unclaimed
  /\ Rest(w) \subseteq Members(Primary(w))
  /\ work[w].pc = "member" => Len(work[w].jobs) > 1
  /\ work[w].pc \notin Late => Rest(w) = Members(Primary(w))

Crewed ==
  /\ \A w \in Worker : Busy(w) => WellCrewed(w)
  /\ \A w, v \in Worker : Busy(w) /\ Busy(v) /\ Primary(w) = Primary(v) => w = v

\* A primary whose files are exposed exposes those of its members.
Exposure == \A p \in Lead : p \in exposed => Shared(p) \subseteq exposed

\* The heart of it: what was captured is in the core, or received, or (for a
\* member) rendered.  The raw and the stitched file are never both filled, so
\* that stitching overwrites nothing.
KeptOf(p) ==
  /\ disk[p].stitched = {} \/ disk[p].raw = {} \/ p \in exposed
  /\ p \notin exposed => heard[p] \subseteq Core(p) \cup received[p]
  /\ \A m \in Members(p) : m \notin exposed => heard[p] \subseteq Core(p) \cup disk[m].render
Kept == \A p \in Lead : KeptOf(p)

\* What a worker knows of its own session while its files are not exposed: the
\* record in the state file is not ahead of it, its segments are used up once
\* they are stitched, its master is rendered, then received, then rendered for
\* every member that is done.
Working(w) ==
  LET p == Primary(w) IN
  /\ heard[p] \subseteq Core(p)
  /\ work[w].linked
  /\ work[w].pc \in Early => disk[p].stitched = {}
  /\ work[w].pc \in Early \cup {"rendering", "rendered"} /\ state.job = p =>
       /\ state.status \notin {"upload_pending", "uploaded"}
  /\ work[w].pc \notin Early => work[w].segs \cap disk[p].segment = {}
  /\ work[w].pc \in {"rendered", "uploading"} =>
       disk[p][work[w].master] \subseteq disk[p][work[w].path]
  /\ work[w].pc \in Late =>
       /\ disk[p][work[w].master] \subseteq received[p]
       /\ \A m \in Members(p) \ Rest(w) : m \notin exposed =>
            disk[p][work[w].master] \subseteq disk[m].render
  /\ work[w].pc = "member" /\ NextMember(w) \notin exposed =>
       disk[p][work[w].master] \subseteq disk[NextMember(w)].render

Works == \A w \in Worker : Busy(w) /\ Primary(w) \notin exposed => Working(w)

\* A record of a primary that a recovery may start from.
Unsent(rec) ==
  /\ heard[rec.job] \subseteq Core(rec.job)
  /\ rec.status = "upload_pending" =>
       /\ rec.master \in Master /\ rec.path \in {rec.master, "render"}
       /\ disk[rec.job][rec.master] \subseteq disk[rec.job][rec.path]
  /\ rec.status # "upload_pending" => rec.master = NoFile /\ rec.path \in {"raw", NoFile}
\* A record of an upload that was accepted.
Sent(rec) ==
  /\ rec.master \in Master /\ rec.path \in {rec.master, "render"}
  /\ disk[rec.job][rec.master] \subseteq received[rec.job]
\* A record that tells the truth about the files.
Sound(rec) ==
  /\ rec.status \in {"running", "captured", "upload_pending"} => Unsent(rec)
  /\ rec.status = "upload_pending" => rec.segs \cap disk[rec.job].segment = {}
  /\ rec.status = "uploaded" => Sent(rec)
\* A record whose upload a recovery sends again.
Resendable(rec) ==
  /\ heard[rec.job] \subseteq Core(rec.job)
  /\ rec.master \in Master /\ rec.path \in {rec.master, "render"}
  /\ disk[rec.job][rec.master] \subseteq disk[rec.job][rec.path]

\* The state of a member remembers no segments and no policy: a recovery of it
\* touches no file.
ByMember(rec) == rec.job \in Job \ Lead => rec.segs = {} /\ ~rec.retained

\* The state file is sound.
Recorded ==
  /\ ByMember(state)
  /\ state.status \notin Ended => state.job \in Job
  /\ state.job \in Lead \ exposed => Sound(state)

\* A recovery works on its own copy of the state: it stays sound although the
\* workers go on, because no worker holds the job.
Handling == {"recover", "resend", "retain", "close"}
Recovering ==
  /\ ByMember(main.rec)
  /\ main.pc \notin Handling => main.rec = NoState
  /\ main.pc \in Handling =>
       /\ main.rec.job \in Job
       /\ Members(main.rec.job) \subseteq exposed
       /\ main.rec.job \notin exposed => \A w \in Worker : ~Holds(w, main.rec.job)
  /\ main.pc \in Handling /\ main.rec.job \in Lead \ exposed =>
       /\ main.pc = "recover" => Sound(main.rec) /\ main.rec.status \notin Ended \cup {"uploaded"}
       /\ main.pc = "resend" => Resendable(main.rec)
       /\ main.pc = "retain" => Sent(main.rec) /\ main.rec.status = "uploaded"
       /\ main.pc \in {"recover", "retain"} /\ state.job = main.rec.job => state = main.rec
       /\ main.pc = "resend" /\ state.job = main.rec.job => state.status # "uploaded"

\* What the steps of a worker have in common: they touch its session only.
WorkerOnly(w) ==
  LET p == Primary(w) IN
  /\ Busy(w)
  /\ queued' = queued /\ main' = main
  /\ \A v \in Worker \ {w} : work'[v] = work[v]
  /\ \A j \in Job \ Shared(p) :
       /\ heard'[j] = heard[j] /\ dropped'[j] = dropped[j] /\ received'[j] = received[j]
       /\ disk'[j] = disk[j] \/ (j \in exposed' /\ disk'[j] = NoAudio)
  /\ state' = state \/ state'.job \in Shared(p)
  /\ exposed \subseteq exposed'
  /\ \A q \in Lead : q \in exposed' => q \in exposed \/ Shared(q) \subseteq exposed'
  /\ Busy(w)' => Primary(w)' = p /\ Rest(w)' \subseteq Rest(w) /\ WellCrewed(w)'

IInv == Typed /\ Fresh /\ Crewed /\ Exposure /\ Kept /\ Works /\ Recorded /\ Recovering
-----------------------------------------------------------------------------
(* Sessions *)

\* No job is in two sessions, or twice in one.
LEMMA Apart ==
  /\ Lead \subseteq Job
  /\ \A j \in Job : Shared(j) \subseteq Job
  /\ \A p \in Lead : p \in Shared(p) /\ Members(p) \cap Lead = {}
  /\ \A p, q \in Lead : p # q => Shared(p) \cap Shared(q) = {}
  /\ \A j \in Job \ Lead : Shared(j) = {}
<1>1. \A s \in Sessions : s \in Seq(Job) /\ Len(s) > 0 /\ 1 \in DOMAIN s /\ s[1] \in Job
  BY AgentCaptureAssumption
<1>2. \A s, t \in Sessions : \A i \in DOMAIN s, k \in DOMAIN t : s[i] = t[k] => s = t /\ i = k
  BY AgentCaptureAssumption
<1>3. Lead \subseteq Job
  BY <1>1 DEF Lead
<1>4. \A p \in Lead : p \in Shared(p)
  BY <1>1 DEF Lead, Shared
<1>5. \A p \in Lead : Members(p) \cap Lead = {}
  BY <1>1, <1>2 DEF Lead, Members, Shared
<1>6. \A p, q \in Lead : p # q => Shared(p) \cap Shared(q) = {}
  BY <1>1, <1>2 DEF Lead, Shared
<1>7. \A j \in Job : Shared(j) \subseteq Job
  BY DEF Shared
<1>8. \A j \in Job \ Lead : Shared(j) = {}
  BY DEF Shared, Lead
<1> QED
  BY <1>3, <1>4, <1>5, <1>6, <1>7, <1>8

\* What a claim takes.
LEMMA Claimed ==
  ASSUME NEW s \in Sessions
  PROVE  /\ s \in Seq(Job) /\ Len(s) > 0 /\ Head(s) = s[1] /\ s[1] \in Lead
         /\ {s[k] : k \in 2..Len(s)} = Members(s[1])
         /\ \A t \in Sessions : t[1] = s[1] => t = s
<1>1. s \in Seq(Job) /\ Len(s) > 0 /\ Head(s) = s[1] /\ s[1] \in Lead
  BY AgentCaptureAssumption DEF Lead
<1>2. \A i \in DOMAIN s, k \in DOMAIN s : s[i] = s[k] => i = k
  BY AgentCaptureAssumption
<1>3. \A t \in Sessions : 1 \in DOMAIN t /\ (t[1] = s[1] => t = s)
  BY AgentCaptureAssumption, <1>1
<1>4. Shared(s[1]) = {s[i] : i \in DOMAIN s}
  <2>1. \A i \in DOMAIN s : s[i] \in Job
    BY <1>1
  <2> QED
    BY <1>3, <2>1 DEF Shared
<1>5. {s[k] : k \in 2..Len(s)} = Members(s[1])
  <2>1. DOMAIN s = 1..Len(s)
    BY <1>1
  <2>2. \A x : x \in Members(s[1]) <=> \E i \in 1..Len(s) : x = s[i] /\ x # s[1]
    BY <1>4, <2>1 DEF Members
  <2>3. \A i \in 1..Len(s) : s[i] # s[1] <=> i \in 2..Len(s)
    BY <1>1, <1>2, <2>1
  <2> QED
    BY <2>2, <2>3
<1> QED
  BY <1>1, <1>3, <1>5

-----------------------------------------------------------------------------
(* A worker's step and the sessions of the others *)

\* The jobs of a session: the primary and the rest.
LEMMA InSession ==
  ASSUME NEW J \in Seq(Job), Len(J) > 0, NEW j
  PROVE  (\E i \in DOMAIN J : J[i] = j) <=> j = Head(J) \/ j \in {J[k] : k \in 2..Len(J)}
<1>1. DOMAIN J = 1..Len(J) /\ Len(J) \in Nat /\ Head(J) = J[1]
  OBVIOUS
<1>2. \A i \in 1..Len(J) : i = 1 \/ i \in 2..Len(J)
  BY <1>1
<1>3. 1 \in 1..Len(J) /\ \A i \in 2..Len(J) : i \in 1..Len(J)
  BY <1>1
<1> QED
  BY <1>1, <1>2, <1>3

\* What a busy worker has.
LEMMA Lane ==
  ASSUME Typed, Crewed, NEW w \in Worker, Busy(w)
  PROVE  /\ Primary(w) \in Lead /\ Primary(w) \in Job /\ Primary(w) \notin Unclaimed
         /\ Rest(w) \subseteq Members(Primary(w)) /\ Members(Primary(w)) \subseteq Job
         /\ Primary(w) \in Shared(Primary(w))
         /\ Primary(w) \notin Members(Primary(w))
         /\ \A j \in Rest(w) \cup {Primary(w)} : Holds(w, j)
         /\ \A j : Holds(w, j) => j \in Rest(w) \cup {Primary(w)}
<1>1. Len(work[w].jobs) > 0 /\ Primary(w) \in Lead \ Unclaimed /\ Rest(w) \subseteq Members(Primary(w))
  BY DEF Crewed, WellCrewed
<1>2. work[w].jobs \in Seq(Job)
  BY DEF Typed, WorkRec
<1>8. \A j : Holds(w, j) <=> j \in Rest(w) \cup {Primary(w)}
  BY <1>1, <1>2, InSession DEF Holds, Busy, Primary, Rest
<1>10. Primary(w) \notin Members(Primary(w))
  BY DEF Members
<1>11. Members(Primary(w)) \subseteq Job
  BY <1>1, Apart DEF Members
<1> QED
  BY <1>1, <1>8, <1>10, <1>11, Apart

\* A worker's step leaves what is claimed by whom, and what is exposed.
LEMMA OthersCrewed ==
  ASSUME IInv, NEW w \in Worker, WorkerOnly(w)
  PROVE  Fresh' /\ Crewed' /\ Exposure'
<1>1. Primary(w) \in Lead \ Unclaimed
  BY Lane DEF IInv, WorkerOnly
<1>2. Unclaimed \subseteq Lead
  BY DEF Unclaimed, Lead, IInv, Typed
<1>3. \A p \in Unclaimed : p \notin Shared(Primary(w)) /\ p \in Job /\ Shared(p) \cap Shared(Primary(w)) = {}
  BY <1>1, <1>2, Apart
<1>4. Fresh'
  <2>1. Unclaimed' = Unclaimed
    BY DEF Unclaimed, WorkerOnly
  <2> SUFFICES ASSUME NEW p \in Unclaimed
               PROVE  (heard[p] = {} /\ disk[p].stitched = {}
                       /\ state.job \notin Shared(p) /\ main.rec.job \notin Shared(p))'
    BY <2>1 DEF Fresh, Shared
  <2>2. heard[p] = {} /\ disk[p].stitched = {} /\ state.job \notin Shared(p) /\ main.rec.job \notin Shared(p)
    BY DEF IInv, Fresh
  <2>3. heard'[p] = heard[p] /\ (disk'[p] = disk[p] \/ disk'[p].stitched = {}) /\ main' = main
    BY <1>3 DEF WorkerOnly, NoAudio, File
  <2>4. state'.job \notin Shared(p)
    BY <1>3, <2>2 DEF WorkerOnly
  <2> QED
    BY <2>2, <2>3, <2>4 DEF Shared
<1>5. Crewed'
  <2>1. ASSUME NEW v \in Worker, v # w
        PROVE  Busy(v)' = Busy(v) /\ (WellCrewed(v) => WellCrewed(v)') /\ Primary(v)' = Primary(v)
    <3>1. work'[v] = work[v] /\ queued' = queued
      BY <2>1 DEF WorkerOnly
    <3>2. Busy(v)' = Busy(v) /\ Primary(v)' = Primary(v) /\ Unclaimed' = Unclaimed
      BY <3>1 DEF Busy, Primary, Unclaimed
    <3>3. Rest(v)' = Rest(v)
      BY <3>1 DEF Rest
    <3>4. Members(Primary(v))' = Members(Primary(v))
      BY <3>2 DEF Members, Shared
    <3> QED
      BY <3>1, <3>2, <3>3, <3>4 DEF WellCrewed, Lead
  <2>2. Busy(w)' => WellCrewed(w)' /\ Primary(w)' = Primary(w)
    BY DEF WorkerOnly
  <2>3. Busy(w)
    BY DEF WorkerOnly
  <2> QED
    BY <2>1, <2>2, <2>3 DEF Crewed, IInv
<1>6. Exposure'
  <2>1. \A q \in Lead : q \in exposed' => Shared(q) \subseteq exposed'
    BY DEF Exposure, IInv, WorkerOnly
  <2> QED
    BY <2>1 DEF Exposure, Lead, Shared
<1> QED
  BY <1>4, <1>5, <1>6

\* A worker's step leaves what the other workers know true.
LEMMA OthersWork ==
  ASSUME IInv, NEW w \in Worker, WorkerOnly(w),
         NEW v \in Worker, v # w, Busy(v)', (Primary(v) \notin exposed)'
  PROVE  Working(v)'
<1> DEFINE p == Primary(w)
           q == Primary(v)
<1>1. work'[v] = work[v] /\ Primary(v)' = q /\ Busy(v) /\ Busy(w)
      /\ Rest(v)' = Rest(v) /\ NextMember(v)' = NextMember(v)
  BY DEF WorkerOnly, Busy, Primary, Rest, NextMember
<1>2. p \in Lead /\ q \in Lead /\ p # q /\ q \in Job
  BY <1>1, Lane DEF IInv, Crewed
<1>3. \A j \in Shared(q) : j \in Job \ Shared(p)
  BY <1>2, Apart
<1>4. q \in Shared(q) /\ Members(q) \subseteq Shared(q) /\ Rest(v) \subseteq Members(q)
  BY <1>1, <1>2, Apart, Lane DEF IInv, Members
<1>5. /\ \A j \in Shared(q) :
           /\ heard'[j] = heard[j] /\ dropped'[j] = dropped[j] /\ received'[j] = received[j]
           /\ j \notin exposed' => j \notin exposed /\ disk'[j] = disk[j]
      /\ q \notin exposed /\ disk'[q] = disk[q]
  <2>1. q \notin exposed'
    BY <1>1
  <2> QED
    BY <1>3, <1>4, <2>1 DEF WorkerOnly
<1>6. state'.job = q => state' = state
  BY <1>3, <1>4 DEF WorkerOnly
<1>7. Working(v)
  BY <1>1, <1>4, <1>5 DEF IInv, Works
<1>8. Core(q)' = Core(q)
  BY <1>1, <1>4, <1>5 DEF Core
<1>9. work[v].pc = "member" => NextMember(v) \in Shared(q)
  <2> SUFFICES ASSUME work[v].pc = "member"
               PROVE  NextMember(v) \in Rest(v)
    BY <1>4
  <2>1. Len(work[v].jobs) > 1 /\ work[v].jobs \in Seq(Job)
    BY <1>1 DEF IInv, Crewed, WellCrewed, Typed, WorkRec
  <2> QED
    BY <2>1 DEF NextMember, Rest
<1> QED
  <2>1. heard'[q] \subseteq Core(q)'
    BY <1>4, <1>5, <1>7, <1>8 DEF Working
  <2>2. work'[v].linked /\ (work'[v].pc \in Early => disk'[q].stitched = {})
    BY <1>1, <1>4, <1>5, <1>7 DEF Working
  <2>3. work'[v].pc \in Early \cup {"rendering", "rendered"} /\ state'.job = q =>
          state'.status \notin {"upload_pending", "uploaded"}
    BY <1>1, <1>6, <1>7 DEF Working
  <2>4. /\ work'[v].pc \notin Early => work'[v].segs \cap disk'[q].segment = {}
        /\ work'[v].pc \in {"rendered", "uploading"} =>
             disk'[q][work'[v].master] \subseteq disk'[q][work'[v].path]
    BY <1>1, <1>4, <1>5, <1>7 DEF Working
  <2>5. work'[v].pc \in Late =>
           /\ disk'[q][work'[v].master] \subseteq received'[q]
           /\ \A m \in Members(q) \ Rest(v) : m \notin exposed' =>
                disk'[q][work'[v].master] \subseteq disk'[m].render
    BY <1>1, <1>4, <1>5, <1>7 DEF Working
  <2>6. work'[v].pc = "member" /\ NextMember(v) \notin exposed' =>
           disk'[q][work'[v].master] \subseteq disk'[NextMember(v)].render
    BY <1>1, <1>4, <1>5, <1>7, <1>9 DEF Working
  <2>7. Members(q)' = Members(q)
    BY <1>1 DEF Members, Shared
  <2> QED
    BY <1>1, <2>1, <2>2, <2>3, <2>4, <2>5, <2>6, <2>7 DEF Working, Members, Shared, Core

\* A worker's step leaves the copy a recovery works on true.
LEMMA OthersRecover ==
  ASSUME IInv, NEW w \in Worker, WorkerOnly(w), Typed'
  PROVE  Recovering'
<1> DEFINE p == Primary(w)
           j == main.rec.job
<1>1. p \in Lead /\ p \in Job /\ Busy(w) /\ main' = main /\ \A i \in Rest(w) \cup {p} : Holds(w, i)
  BY Lane DEF IInv, WorkerOnly
<1>2. ByMember(main.rec)'
  BY <1>1 DEF IInv, Recovering, ByMember, Lead
<1>3. main.pc \notin Handling => main.rec = NoState
  BY DEF IInv, Recovering
<1>4. ASSUME main.pc \in Handling
      PROVE  /\ main'.rec.job \in Job
             /\ Members(j) \subseteq exposed'
             /\ j \notin exposed' => \A v \in Worker : ~Holds(v, j)'
  <2>1. main.rec.job \in Job /\ Members(j) \subseteq exposed
        /\ (j \notin exposed => \A v \in Worker : ~Holds(v, j))
    BY <1>4 DEF IInv, Recovering
  <2>2. exposed \subseteq exposed'
    BY DEF WorkerOnly
  <2>3. ASSUME NEW v \in Worker, v # w, Holds(v, j)'
        PROVE  Holds(v, j)
    BY <2>3 DEF WorkerOnly, Holds
  <2>4. ASSUME Holds(w, j)' PROVE Holds(w, j)
    <3>1. Busy(w)' /\ work'[w].jobs \in Seq(Job)
      BY <2>4 DEF Holds, Busy, Typed, WorkRec
    <3>2. WellCrewed(w)' /\ Primary(w)' = p /\ Rest(w)' \subseteq Rest(w)
      BY <3>1 DEF WorkerOnly
    <3>3. j \in Rest(w)' \cup {p}
      <4>1. \E i \in DOMAIN work'[w].jobs : work'[w].jobs[i] = j
        BY <1>1, <2>4 DEF Holds
      <4>2. Len(work'[w].jobs) > 0
        BY <3>2 DEF WellCrewed
      <4>3. j = Head(work'[w].jobs) \/ j \in {work'[w].jobs[k] : k \in 2..Len(work'[w].jobs)}
        BY <3>1, <4>1, <4>2, InSession
      <4> QED
        BY <3>2, <4>3 DEF Rest, Primary
    <3> QED
      BY <1>1, <3>2, <3>3
  <2> QED
    BY <1>1, <2>1, <2>2, <2>3, <2>4
<1>5. ASSUME main.pc \in Handling, j \in Lead \ exposed'
      PROVE  /\ main.pc = "recover" => Sound(main.rec)' /\ main.rec.status \notin Ended \cup {"uploaded"}
             /\ main.pc = "resend" => Resendable(main.rec)'
             /\ main.pc = "retain" => Sent(main.rec)' /\ main.rec.status = "uploaded"
             /\ main.pc \in {"recover", "retain"} /\ state'.job = j => state' = main.rec
             /\ main.pc = "resend" /\ state'.job = j => state'.status # "uploaded"
  <2>1. j \notin exposed /\ j # p /\ j \in Job
    BY <1>1, <1>5, Apart DEF WorkerOnly, IInv, Recovering
  <2>2. j \notin Shared(p) /\ j \in Shared(j)
    BY <1>1, <1>5, <2>1, Apart
  <2>3. heard'[j] = heard[j] /\ dropped'[j] = dropped[j] /\ disk'[j] = disk[j] /\ received'[j] = received[j]
    BY <1>5, <2>1, <2>2 DEF WorkerOnly
  <2>4. state'.job = j => state' = state
    BY <2>2 DEF WorkerOnly
  <2>5. /\ main.pc = "recover" => Sound(main.rec) /\ main.rec.status \notin Ended \cup {"uploaded"}
        /\ main.pc = "resend" => Resendable(main.rec)
        /\ main.pc = "retain" => Sent(main.rec) /\ main.rec.status = "uploaded"
        /\ main.pc \in {"recover", "retain"} /\ state.job = j => state = main.rec
        /\ main.pc = "resend" /\ state.job = j => state.status # "uploaded"
    BY <1>5, <2>1 DEF IInv, Recovering
  <2>6. Sound(main.rec) => Sound(main.rec)'
    BY <1>1, <2>3 DEF Sound, Sent, Unsent, Core
  <2>7. Resendable(main.rec) => Resendable(main.rec)'
    BY <1>1, <2>3 DEF Resendable, Core
  <2>8. Sent(main.rec) => Sent(main.rec)'
    BY <1>1, <2>3 DEF Sent
  <2> QED
    BY <2>3, <2>4, <2>5, <2>6, <2>7, <2>8
<1>6. Members(main.rec.job)' = Members(j) /\ Lead' = Lead
  BY <1>1 DEF Members, Shared, Lead
<1> QED
  BY <1>1, <1>2, <1>3, <1>4, <1>5, <1>6 DEF Recovering

\* What is left to show of a worker's step is about its own session.
LEMMA WorkerKeeps ==
  ASSUME IInv, NEW w \in Worker, WorkerOnly(w), Typed',
         NEW p, p = Primary(w),
         state' = state \/ ByMember(state)',
         p \notin exposed => KeptOf(p)',
         p \notin exposed /\ Busy(w)' => Working(w)',
         p \notin exposed /\ state'.job = p => Sound(state)'
  PROVE  IInv'
<1>1. p \in Lead /\ p \in Job /\ p \in Shared(p) /\ Shared(p) \subseteq Job /\ Busy(w)
  BY Lane, Apart DEF IInv, WorkerOnly
<1>2. p \in exposed => p \in exposed'
  BY DEF WorkerOnly
<1>3. \A q \in Lead \ {p} : q \in Job \ Shared(p) /\ Members(q) \subseteq Job \ Shared(p)
  BY <1>1, Apart DEF Members
<1>4. \A q \in Job \ Shared(p) : q \notin exposed' => q \notin exposed /\ disk'[q] = disk[q]
  BY DEF WorkerOnly
<1>5. Fresh' /\ Crewed' /\ Exposure' /\ Recovering'
  BY OthersCrewed, OthersRecover
<1>6. Kept'
  <2>1. ASSUME NEW q \in Lead \ {p} PROVE KeptOf(q)'
    <3>1. \A j \in {q} \cup Members(q) :
            /\ heard'[j] = heard[j] /\ dropped'[j] = dropped[j] /\ received'[j] = received[j]
            /\ j \notin exposed' => j \notin exposed /\ disk'[j] = disk[j]
      BY <1>3, <1>4 DEF WorkerOnly
    <3>2. KeptOf(q)
      BY DEF IInv, Kept
    <3>3. CASE q \in exposed'
      <4>1. Shared(q) \subseteq exposed'
        BY <1>5, <3>3 DEF Exposure, Lead, Shared
      <4> QED
        BY <3>3, <4>1 DEF KeptOf, Members, Shared
    <3>4. CASE q \notin exposed'
      BY <3>1, <3>2, <3>4 DEF KeptOf, Core, Members, Shared
    <3> QED
      BY <3>3, <3>4
  <2>2. ASSUME p \in exposed PROVE KeptOf(p)'
    <3>1. Shared(p) \subseteq exposed'
      BY <1>1, <2>2 DEF IInv, Exposure, WorkerOnly
    <3> QED
      BY <1>2, <2>2, <3>1 DEF KeptOf, Members, Shared
  <2>3. KeptOf(p)'
    BY <2>2
  <2> QED
    BY <2>1, <2>3 DEF Kept, Lead
<1>7. Works'
  <2>1. ASSUME NEW v \in Worker, Busy(v)', (Primary(v) \notin exposed)'
        PROVE  Working(v)'
    <3>1. CASE v = w
      BY <1>2, <2>1, <3>1 DEF WorkerOnly
    <3> QED
      BY <2>1, <3>1, OthersWork
  <2> QED
    BY <2>1 DEF Works
<1>8. Recorded'
  <2>1. ByMember(state) /\ (state.status \notin Ended => state.job \in Job)
        /\ (state.job \in Lead \ exposed => Sound(state))
    BY DEF IInv, Recorded
  <2>2. ByMember(state)'
    BY <2>1 DEF ByMember, Lead
  <2>3. state'.status \notin Ended => state'.job \in Job
    BY <1>1, <2>1 DEF WorkerOnly
  <2>4. ASSUME state'.job \in Lead \ exposed' PROVE Sound(state)'
    <3>1. CASE state'.job = p
      BY <1>2, <2>4, <3>1
    <3>2. CASE state'.job # p
      <4>1. state' = state /\ state.job \in Lead \ {p}
        BY <1>3, <2>4, <3>2 DEF WorkerOnly
      <4>2. state.job \notin exposed /\ heard'[state.job] = heard[state.job]
            /\ dropped'[state.job] = dropped[state.job]
            /\ disk'[state.job] = disk[state.job] /\ received'[state.job] = received[state.job]
        BY <1>3, <1>4, <2>4, <4>1 DEF WorkerOnly
      <4> QED
        BY <2>1, <4>1, <4>2 DEF Sound, Unsent, Sent, Core
    <3> QED
      BY <3>1, <3>2
  <2> QED
    BY <2>2, <2>3, <2>4 DEF Recorded, Lead
<1> QED
  BY <1>5, <1>6, <1>7, <1>8 DEF IInv

-----------------------------------------------------------------------------
(* What the steps do, field by field *)

\* One worker moves, the others do not.
LEMMA Moved ==
  ASSUME Typed, NEW w \in Worker, NEW r \in WorkRec, work' = [work EXCEPT ![w] = r]
  PROVE  /\ work'[w] = r /\ \A v \in Worker \ {w} : work'[v] = work[v]
         /\ work' \in [Worker -> WorkRec]
BY DEF Typed

\* A worker goes to another phase.
LEMMA Went ==
  ASSUME Typed, NEW w \in Worker, NEW pc \in Early \cup Middle \cup Late, Go(w, pc),
         \/ pc \in Early
         \/ pc = "uploading" /\ work[w].pc = "rendered"
         \/ pc = "members" /\ work[w].pc = "uploading"
         \/ pc = "member" /\ work[w].pc = "members"
  PROVE  /\ work'[w].pc = pc /\ work'[w].jobs = work[w].jobs /\ work'[w].segs = work[w].segs
         /\ work'[w].path = work[w].path /\ work'[w].master = work[w].master
         /\ work'[w].linked = work[w].linked
         /\ \A v \in Worker \ {w} : work'[v] = work[v]
         /\ work' \in [Worker -> WorkRec]
<1> DEFINE r == [work[w] EXCEPT !.pc = pc]
<1>1. work[w] \in WorkRec /\ DOMAIN work = Worker
  BY DEF Typed
<1>2. /\ r \in WorkRec /\ r.pc = pc /\ r.jobs = work[w].jobs /\ r.segs = work[w].segs
      /\ r.master = work[w].master /\ r.linked = work[w].linked /\ r.path = work[w].path
  BY <1>1 DEF WorkRec, Early, Middle, Late
<1>3. work' = [work EXCEPT ![w] = r]
  BY <1>1 DEF Go
<1> HIDE DEF r
<1> QED
  BY <1>1, <1>2, <1>3, Moved

\* A worker is done.
LEMMA Returned ==
  ASSUME Typed, NEW w \in Worker, Return(w)
  PROVE  /\ ~Busy(w)' /\ \A v \in Worker \ {w} : work'[v] = work[v]
         /\ work' \in [Worker -> WorkRec]
<1>1. Idle \in WorkRec
  BY DEF Idle, WorkRec, Middle, Late
<1> QED
  BY <1>1, Moved DEF Return, Busy, Idle

\* A report leaves the job rows what they are.
LEMMA Reported ==
  ASSUME Typed, NEW j \in Job, NEW status \in Ended, Report(j, status)
  PROVE  ctl' \in [Job -> {"queued", "running", "stop_requested"} \cup Ended]
BY DEF Typed, Report

\* A step of a worker that touches its primary only.
LEMMA Alone ==
  ASSUME IInv, NEW w \in Worker, Busy(w), NEW p, p = Primary(w),
         queued' = queued, main' = main, exposed' = exposed,
         \A v \in Worker \ {w} : work'[v] = work[v],
         \A j \in Job \ {p} :
           heard'[j] = heard[j] /\ dropped'[j] = dropped[j] /\ disk'[j] = disk[j] /\ received'[j] = received[j],
         state' = state \/ state'.job = p,
         Busy(w)' => /\ work'[w].jobs = work[w].jobs /\ work'[w].pc # "member"
                     /\ work'[w].pc \notin Late => work[w].pc \notin Late
  PROVE  WorkerOnly(w) /\ (state' = state \/ ByMember(state)')
<1>1. p \in Lead /\ p \in Shared(p)
  BY Lane DEF IInv
<1>2. Busy(w)' => WellCrewed(w)' /\ Rest(w)' = Rest(w) /\ Primary(w)' = p
  <2> SUFFICES ASSUME Busy(w)'
               PROVE  WellCrewed(w)' /\ Rest(w)' = Rest(w) /\ Primary(w)' = p
    OBVIOUS
  <2>1. Rest(w)' = Rest(w) /\ Primary(w)' = p /\ Unclaimed' = Unclaimed
    BY DEF Rest, Primary, Unclaimed
  <2>2. WellCrewed(w)
    BY DEF IInv, Crewed
  <2>3. Members(Primary(w))' = Members(Primary(w))
    BY <2>1 DEF Members, Shared
  <2> QED
    BY <2>1, <2>2, <2>3 DEF WellCrewed, Lead
<1>3. \A j \in Job \ Shared(p) :
        heard'[j] = heard[j] /\ dropped'[j] = dropped[j] /\ disk'[j] = disk[j] /\ received'[j] = received[j]
  BY <1>1
<1>4. state'.job = p => ByMember(state)'
  BY <1>1 DEF ByMember, Lead
<1> QED
  BY <1>1, <1>2, <1>3, <1>4 DEF WorkerOnly

\* The job of the worker failed: it is over, and so is its record.
LEMMA GivenUp ==
  ASSUME IInv, NEW w \in Worker, Busy(w), NEW path \in File \cup {NoFile}, GiveUp(w, path),
         UNCHANGED <<queued, received, disk, main, link, heard, dropped, exposed, torn>>
  PROVE  IInv'
<1>1. PICK p \in Lead : p = Primary(w)
  BY Lane DEF IInv
<1>2. p \in Job /\ Typed
  BY <1>1, Apart DEF IInv
<1>3. state' \in Snapshots /\ state'.job = p /\ state'.status = "failed"
  <2>1. state' = Plain(p, "failed", path)
    BY <1>1 DEF GiveUp
  <2>2. "failed" \in Ended
    BY DEF Ended
  <2> QED
    BY <1>2, <2>1, <2>2 DEF Plain, Snapshot, Snapshots
<1>4. ~Busy(w)' /\ (\A v \in Worker \ {w} : work'[v] = work[v]) /\ work' \in [Worker -> WorkRec]
  BY <1>2, Returned DEF GiveUp
<1>5. Typed'
  <2>1. ctl' \in [Job -> {"queued", "running", "stop_requested"} \cup Ended]
    BY <1>1, <1>2, Reported DEF GiveUp, Ended
  <2> QED
    BY <1>2, <1>3, <1>4, <2>1 DEF Typed
<1>6. WorkerOnly(w) /\ (state' = state \/ ByMember(state)')
  BY <1>1, <1>3, <1>4, Alone
<1>7. KeptOf(p)'
  BY <1>1 DEF KeptOf, Core, IInv, Kept, Members, Shared
<1>8. Sound(state)'
  BY <1>3 DEF Sound
<1> QED
  BY <1>1, <1>4, <1>5, <1>6, <1>7, <1>8, WorkerKeeps

-----------------------------------------------------------------------------
(* The steps of a worker *)

\* A capture that starts in the files of earlier jobs: only exposed jobs notice.
LEMMA Overwritten ==
  ASSUME Typed, NEW p \in Lead, Overwrite(p)
  PROVE  /\ disk' \in [Job -> [File -> SUBSET Piece]]
         /\ \A j \in Shared(p) : disk'[j] = disk[j]
         /\ \A j \in Job : disk'[j] = disk[j] \/ (j \in exposed' /\ disk'[j] = NoAudio)
         /\ exposed \subseteq exposed' /\ exposed' \subseteq Job
         /\ \A q \in Lead : q \in exposed' => q \in exposed \/ Shared(q) \subseteq exposed'
<1> DEFINE earlier == {k \in Job \ Shared(p) : \E j \in Shared(p) : k \in Rivals(j)}
           hit == {k \in earlier : disk[k] # NoAudio \/ InHand(k)}
           taken == {j \in Shared(p) : \E k \in earlier : InHand(k)}
<1>1. /\ disk' = [k \in Job |-> IF k \in earlier THEN NoAudio ELSE disk[k]]
      /\ exposed' = exposed \cup {k \in Job : \E i \in hit : k = i \/ k \in Shared(i)} \cup taken
  BY DEF Overwrite
<1>2. earlier \subseteq Job /\ earlier \cap Shared(p) = {} /\ p \in Shared(p) /\ Shared(p) \subseteq Job
  BY Apart DEF Rivals
<1>3. hit \subseteq earlier /\ taken \subseteq Shared(p) /\ (p \in taken => taken = Shared(p))
      /\ \A k \in earlier : disk[k] # NoAudio => k \in hit
  BY <1>2
<1> HIDE DEF earlier, hit, taken
<1>a. /\ exposed \subseteq exposed' /\ hit \subseteq exposed' /\ taken \subseteq exposed'
      /\ \A k \in hit : Shared(k) \subseteq exposed'
      /\ \A x \in exposed' : x \in exposed \/ x \in hit \/ x \in taken \/ \E k \in hit : x \in Shared(k)
  <2> DEFINE near == {k \in Job : \E i \in hit : k = i \/ k \in Shared(i)}
  <2>1. exposed' = exposed \cup near \cup taken
    BY <1>1
  <2>2. \A k \in Job : k \in near <=> \E i \in hit : k = i \/ k \in Shared(i)
    OBVIOUS
  <2>3. near \subseteq Job /\ hit \subseteq Job /\ \A k \in hit : Shared(k) \subseteq Job
    BY <1>2, <1>3 DEF Shared
  <2> HIDE DEF near
  <2> QED
    BY <2>1, <2>2, <2>3
<1>4. NoAudio \in [File -> SUBSET Piece]
  BY DEF NoAudio
<1>5. disk' \in [Job -> [File -> SUBSET Piece]]
  BY <1>1, <1>4 DEF Typed
<1>6. \A j \in Shared(p) : disk'[j] = disk[j]
  BY <1>1, <1>2
<1>7. \A j \in Job : disk'[j] = disk[j] \/ (j \in exposed' /\ disk'[j] = NoAudio)
  BY <1>1, <1>3, <1>a
<1>8. exposed' \subseteq Job
  <2>1. \A k \in hit : Shared(k) \subseteq Job
    BY DEF Shared
  <2>2. exposed \subseteq Job /\ hit \subseteq Job /\ taken \subseteq Job
    BY <1>2, <1>3 DEF Typed
  <2> QED
    BY <1>a, <2>1, <2>2
<1>9. ASSUME NEW q \in Lead, q \in exposed', q \notin exposed
      PROVE  Shared(q) \subseteq exposed'
  <2>1. CASE q \in hit
    BY <1>a, <2>1
  <2>2. CASE \E k \in hit : q \in Shared(k)
    <3>1. PICK k \in hit : q \in Shared(k)
      BY <2>2
    <3>2. k \in Lead /\ q \in Shared(q)
      BY <1>2, <1>3, <3>1, Apart
    <3>3. k = q
      BY <3>1, <3>2, Apart
    <3> QED
      BY <1>a, <3>3
  <2>3. CASE q \in taken
    <3>1. q = p
      BY <1>3, <2>3, Apart
    <3> QED
      BY <1>3, <1>a, <2>3, <3>1
  <2> QED
    BY <1>a, <1>9, <2>1, <2>2, <2>3
<1> QED
  BY <1>5, <1>6, <1>7, <1>8, <1>9, <1>a

\* The start of the capture is recorded, or the job is given up.
LEMMA StartCaptureKeeps ==
  ASSUME IInv, NEW w \in Worker, StartCapture(w)
  PROVE  IInv'
<1>1. Busy(w) /\ work[w].pc = "claimed"
  BY DEF StartCapture, Busy
<1>2. PICK p \in Lead : p = Primary(w)
  BY <1>1, Lane DEF IInv
<1>3. p \in Job /\ p \in Shared(p) /\ Typed
  BY <1>2, Apart DEF IInv
<1>4. CASE GiveUp(w, NoFile) /\ UNCHANGED <<disk, exposed>>
  BY <1>1, <1>4, GivenUp DEF StartCapture
<1>5. CASE Go(w, "capturing") /\ Overwrite(p) /\ UNCHANGED ctl
           /\ state' = Snapshot(p, "running", "raw", NoFile, {}, FALSE)
  <2>0. UNCHANGED <<queued, received, main, link, heard, dropped, torn>>
    BY DEF StartCapture
  <2>1. state' \in Snapshots /\ state'.job = p /\ state'.status = "running"
        /\ state'.master = NoFile /\ state'.path = "raw"
    BY <1>2, <1>3, <1>5 DEF Snapshot, Snapshots, File
  <2>2. /\ work'[w].pc = "capturing" /\ work'[w].jobs = work[w].jobs
        /\ work'[w].linked = work[w].linked
        /\ \A v \in Worker \ {w} : work'[v] = work[v]
        /\ work' \in [Worker -> WorkRec]
    BY <1>3, <1>5, Went DEF Early
  <2>3. /\ disk' \in [Job -> [File -> SUBSET Piece]]
        /\ \A j \in Shared(p) : disk'[j] = disk[j]
        /\ \A j \in Job : disk'[j] = disk[j] \/ (j \in exposed' /\ disk'[j] = NoAudio)
        /\ exposed \subseteq exposed' /\ exposed' \subseteq Job
        /\ \A q \in Lead : q \in exposed' => q \in exposed \/ Shared(q) \subseteq exposed'
    BY <1>3, <1>5, Overwritten
  <2>4. Typed'
    BY <1>3, <1>5, <2>0, <2>1, <2>2, <2>3 DEF Typed
  <2>5. Primary(w)' = p /\ Rest(w)' = Rest(w) /\ WellCrewed(w)'
    <3>1. Primary(w)' = p /\ Rest(w)' = Rest(w) /\ Unclaimed' = Unclaimed
      BY <1>2, <2>0, <2>2 DEF Primary, Rest, Unclaimed
    <3>2. WellCrewed(w) /\ work[w].pc \notin Late
      BY <1>1 DEF IInv, Crewed, Late
    <3>3. Members(Primary(w))' = Members(Primary(w))
      BY <1>2, <3>1 DEF Members, Shared
    <3> QED
      BY <1>2, <2>2, <3>1, <3>2, <3>3 DEF WellCrewed, Lead
  <2>6. WorkerOnly(w)
    <3>1. \A j \in Job \ Shared(p) :
            /\ heard'[j] = heard[j] /\ dropped'[j] = dropped[j] /\ received'[j] = received[j]
            /\ disk'[j] = disk[j] \/ (j \in exposed' /\ disk'[j] = NoAudio)
      BY <2>0, <2>3
    <3>2. queued' = queued /\ main' = main /\ state'.job \in Shared(p)
      BY <1>3, <2>0, <2>1
    <3>3. exposed \subseteq exposed'
          /\ \A q \in Lead : q \in exposed' => q \in exposed \/ Shared(q) \subseteq exposed'
      BY <2>3
    <3> QED
      BY <1>1, <1>2, <2>2, <2>5, <3>1, <3>2, <3>3 DEF WorkerOnly
  <2>7. ByMember(state)'
    BY <1>2, <2>1 DEF ByMember, Lead
  <2>8. disk'[p] = disk[p] /\ Core(p)' = Core(p) /\ \A m \in Members(p) : disk'[m] = disk[m]
    BY <1>3, <2>0, <2>3 DEF Core, Members
  <2>9. p \notin exposed => KeptOf(p)'
    BY <1>2, <2>0, <2>3, <2>8 DEF KeptOf, IInv, Kept, Members, Shared
  <2>10. p \notin exposed => heard[p] \subseteq Core(p) /\ work[w].linked /\ disk[p].stitched = {}
    BY <1>1, <1>2 DEF IInv, Works, Working, Early
  <2>11. p \notin exposed => Working(w)'
    BY <2>0, <2>1, <2>2, <2>5, <2>8, <2>10 DEF Working, Early, Late
  <2>12. p \notin exposed => Sound(state)'
    BY <2>0, <2>1, <2>8, <2>10 DEF Sound, Unsent
  <2> QED
    BY <1>2, <2>4, <2>6, <2>7, <2>9, <2>11, <2>12, WorkerKeeps
<1> QED
  BY <1>2, <1>4, <1>5 DEF StartCapture

\* A worker that goes on without touching anything but its record of the job.
LEMMA Resumes ==
  ASSUME IInv, NEW w \in Worker, Busy(w), NEW p \in Lead, p = Primary(w),
         NEW pc \in Early \cup Middle, Go(w, pc), work[w].pc \notin Late,
         pc \in Early \/ (pc = "uploading" /\ work[w].pc = "rendered"),
         UNCHANGED <<queued, ctl, received, disk, main, link, heard, dropped, exposed, torn>>,
         state' \in Snapshots, state' = state \/ state'.job = p,
         p \notin exposed => Working(w)',
         p \notin exposed /\ state'.job = p => Sound(state)'
  PROVE  IInv'
<1>1. p \in Job /\ Typed
  BY Apart DEF IInv
<1>2. /\ work'[w].pc = pc /\ work'[w].jobs = work[w].jobs
      /\ \A v \in Worker \ {w} : work'[v] = work[v]
      /\ work' \in [Worker -> WorkRec]
  BY <1>1, Went DEF Early, Middle
<1>3. Typed'
  BY <1>1, <1>2 DEF Typed
<1>4. WorkerOnly(w) /\ (state' = state \/ ByMember(state)')
  BY <1>1, <1>2, Alone DEF Early, Middle, Late
<1>5. KeptOf(p)'
  BY DEF KeptOf, Core, IInv, Kept, Members, Shared
<1> QED
  BY <1>3, <1>4, <1>5, WorkerKeeps

\* A piece goes into the raw file.
LEMMA RecordKeeps ==
  ASSUME IInv, NEW w \in Worker, Record(w)
  PROVE  IInv'
<1>1. Busy(w) /\ work[w].pc \in {"capturing", "restarted"}
  BY DEF Record, Busy
<1>2. PICK p \in Lead : p = Primary(w)
  BY <1>1, Lane DEF IInv
<1>3. p \in Job /\ Typed
  BY <1>2, Apart DEF IInv
<1> DEFINE next == Cardinality(heard[p]) + 1
<1>4. next \in Piece
  <2>1. IsFiniteSet(1..Pieces) /\ Pieces \in Nat
    BY FS_Interval, AgentCaptureAssumption
  <2>2. heard[p] \subseteq 1..Pieces
    BY <1>3 DEF Typed, Piece
  <2>3. IsFiniteSet(heard[p])
    BY <2>1, <2>2, FS_Subset
  <2>4. Cardinality(heard[p]) \in Nat
    BY <2>3, FS_CardinalityType
  <2>5. next <= Pieces
    BY <1>2 DEF Record
  <2> QED
    BY <2>1, <2>4, <2>5 DEF Piece
<1>5. heard' = [heard EXCEPT ![p] = @ \cup {next}]
      /\ disk' = IF work[w].linked THEN [disk EXCEPT ![p].raw = @ \cup {next}] ELSE disk
  BY <1>2 DEF Record
<1> HIDE DEF next
<1>6. heard' \in [Job -> SUBSET Piece] /\ heard'[p] = heard[p] \cup {next}
      /\ \A j \in Job \ {p} : heard'[j] = heard[j]
  BY <1>3, <1>4, <1>5 DEF Typed
<1>7. /\ disk' \in [Job -> [File -> SUBSET Piece]]
      /\ \A j \in Job \ {p} : disk'[j] = disk[j]
      /\ disk'[p].segment = disk[p].segment /\ disk'[p].stitched = disk[p].stitched
      /\ work[w].linked => disk'[p].raw = disk[p].raw \cup {next}
  BY <1>3, <1>4, <1>5 DEF Typed, File
<1>8. UNCHANGED <<queued, ctl, received, state, work, main, link, faults, dropped, exposed, torn>>
  BY DEF Record
<1>9. Typed'
  BY <1>3, <1>6, <1>7, <1>8 DEF Typed
<1>10. WorkerOnly(w) /\ (state' = state \/ ByMember(state)')
  BY <1>1, <1>2, <1>6, <1>7, <1>8, Alone
<1>11. p \notin exposed =>
         /\ heard[p] \subseteq Core(p) /\ work[w].linked /\ disk[p].stitched = {}
         /\ state.job = p => state.status \notin {"upload_pending", "uploaded"}
  BY <1>1, <1>2 DEF IInv, Works, Working, Early
<1>12. p \notin exposed => heard'[p] \subseteq Core(p)' /\ disk'[p].stitched = {}
  BY <1>6, <1>7, <1>8, <1>11 DEF Core
<1>13. p \notin exposed => KeptOf(p)'
  BY <1>8, <1>12 DEF KeptOf
<1>14. p \notin exposed => Working(w)'
  BY <1>1, <1>2, <1>8, <1>11, <1>12 DEF Working, Early, Late, Primary
<1>15. p \notin exposed /\ state'.job = p => Sound(state)'
  <2>1. state.job = p /\ p \notin exposed => Sound(state)
    BY DEF IInv, Recorded
  <2> QED
    BY <1>8, <1>11, <1>12, <2>1 DEF Sound, Unsent
<1> QED
  BY <1>2, <1>9, <1>10, <1>13, <1>14, <1>15, WorkerKeeps

\* The raw file becomes a segment: what was captured stays in the core.
LEMMA LoseDeviceKeeps ==
  ASSUME IInv, NEW w \in Worker, LoseDevice(w)
  PROVE  IInv'
<1>1. Busy(w) /\ work[w].pc = "capturing"
  BY DEF LoseDevice, Busy
<1>2. PICK p \in Lead : p = Primary(w)
  BY <1>1, Lane DEF IInv
<1>3. p \in Job /\ Typed
  BY <1>2, Apart DEF IInv
<1>4. PICK segs \in {disk[p].raw, {}} :
        /\ work' = [work EXCEPT ![w].pc = "lost", ![w].linked = TRUE, ![w].segs = @ \cup segs]
        /\ \/ disk' = [disk EXCEPT ![p].segment = @ \cup disk[p].raw, ![p].raw = {}]
           \/ disk' = disk
  BY <1>2 DEF LoseDevice
<1>5. /\ disk' \in [Job -> [File -> SUBSET Piece]]
      /\ \A j \in Job \ {p} : disk'[j] = disk[j]
      /\ disk'[p].segment \cup disk'[p].raw = disk[p].segment \cup disk[p].raw
      /\ disk'[p].stitched = disk[p].stitched
  <2> DEFINE d == [disk[p] EXCEPT !.segment = @ \cup disk[p].raw, !.raw = {}]
  <2>1. disk[p] \in [File -> SUBSET Piece] /\ DOMAIN disk = Job
    BY <1>3 DEF Typed
  <2>2. /\ d \in [File -> SUBSET Piece] /\ d.segment = disk[p].segment \cup disk[p].raw
        /\ d.stitched = disk[p].stitched /\ d.raw = {}
    BY <2>1 DEF File
  <2>3. CASE disk' = disk
    BY <1>3, <2>3 DEF Typed
  <2>4. CASE disk' = [disk EXCEPT ![p].segment = @ \cup disk[p].raw, ![p].raw = {}]
    <3>1. disk' = [disk EXCEPT ![p] = d]
      BY <1>3, <2>1, <2>4
    <3> HIDE DEF d
    <3> QED
      BY <1>3, <2>1, <2>2, <3>1 DEF Typed
  <2> QED
    BY <1>4, <2>3, <2>4
<1>6. /\ work'[w].pc = "lost" /\ work'[w].jobs = work[w].jobs /\ work'[w].linked
      /\ \A v \in Worker \ {w} : work'[v] = work[v]
      /\ work' \in [Worker -> WorkRec]
  <2>1. segs \subseteq Piece
    BY <1>3 DEF Typed, File
  <2> DEFINE r == [work[w] EXCEPT !.pc = "lost", !.linked = TRUE, !.segs = @ \cup segs]
  <2>2. work[w] \in WorkRec /\ DOMAIN work = Worker
    BY <1>3 DEF Typed
  <2>3. r \in WorkRec /\ r.pc = "lost" /\ r.jobs = work[w].jobs /\ r.linked
    BY <2>1, <2>2 DEF WorkRec, Early, Middle, Late
  <2>4. work' = [work EXCEPT ![w] = r]
    BY <1>4, <2>2
  <2> HIDE DEF r
  <2> QED
    BY <1>3, <2>3, <2>4, Moved
<1>7. UNCHANGED <<queued, ctl, received, state, main, link, heard, dropped, exposed, torn>>
  BY DEF LoseDevice, history
<1>8. Typed'
  BY <1>3, <1>5, <1>6, <1>7 DEF Typed
<1>9. WorkerOnly(w) /\ (state' = state \/ ByMember(state)')
  BY <1>1, <1>2, <1>5, <1>6, <1>7, Alone DEF Late
<1>10. p \notin exposed =>
         /\ heard[p] \subseteq Core(p) /\ disk[p].stitched = {}
         /\ state.job = p => state.status \notin {"upload_pending", "uploaded"}
  BY <1>1, <1>2 DEF IInv, Works, Working, Early
<1>11. p \notin exposed => heard'[p] \subseteq Core(p)' /\ disk'[p].stitched = {}
  BY <1>5, <1>7, <1>10 DEF Core
<1>12. p \notin exposed => KeptOf(p)'
  BY <1>7, <1>11 DEF KeptOf
<1>13. p \notin exposed => Working(w)'
  BY <1>2, <1>6, <1>7, <1>10, <1>11 DEF Working, Early, Late, Primary
<1>14. p \notin exposed /\ state'.job = p => Sound(state)'
  <2>1. state.job = p /\ p \notin exposed => Sound(state)
    BY DEF IInv, Recorded
  <2> QED
    BY <1>7, <1>10, <1>11, <2>1 DEF Sound, Unsent
<1> QED
  BY <1>2, <1>8, <1>9, <1>12, <1>13, <1>14, WorkerKeeps

\* A capture that is removed is dropped.
LEMMA Discarded ==
  ASSUME Typed, NEW p \in Job, Discard(p) \/ UNCHANGED <<disk, dropped>>
  PROVE  /\ disk' \in [Job -> [File -> SUBSET Piece]] /\ dropped' \in [Job -> SUBSET Piece]
         /\ \A j \in Job \ {p} : disk'[j] = disk[j] /\ dropped'[j] = dropped[j]
         /\ disk'[p].segment = disk[p].segment /\ disk'[p].stitched = disk[p].stitched
         /\ disk'[p].render = disk[p].render /\ disk'[p].raw \in {disk[p].raw, {}}
         /\ disk'[p].raw \cup dropped'[p] = disk[p].raw \cup dropped[p]
<1> USE DEF File
<1>1. disk[p] \in [File -> SUBSET Piece] /\ DOMAIN disk = Job /\ DOMAIN dropped = Job
      /\ dropped[p] \subseteq Piece /\ disk \in [Job -> [File -> SUBSET Piece]]
      /\ dropped \in [Job -> SUBSET Piece]
  BY DEF Typed
<1>2. CASE UNCHANGED <<disk, dropped>>
  BY <1>1, <1>2
<1>3. CASE Discard(p)
  <2> DEFINE d == [disk[p] EXCEPT !.raw = {}]
             gone == dropped[p] \cup disk[p].raw
  <2>1. /\ d \in [File -> SUBSET Piece] /\ d.segment = disk[p].segment /\ d.raw = {}
        /\ d.stitched = disk[p].stitched /\ d.render = disk[p].render /\ gone \in SUBSET Piece
    BY <1>1
  <2>2. disk' = [disk EXCEPT ![p] = d] /\ dropped' = [dropped EXCEPT ![p] = gone]
    BY <1>1, <1>3 DEF Discard
  <2>3. disk[p].raw \cup dropped[p] = {} \cup gone
    OBVIOUS
  <2> HIDE DEF d, gone
  <2> QED
    BY <1>1, <2>1, <2>2, <2>3
<1> QED
  BY <1>2, <1>3

\* The capture starts again, or the job is given up, or left as it is.
LEMMA RespawnKeeps ==
  ASSUME IInv, NEW w \in Worker, Respawn(w)
  PROVE  IInv'
<1>1. Busy(w) /\ work[w].pc = "lost"
  BY DEF Respawn, Busy
<1>2. PICK p \in Lead : p = Primary(w)
  BY <1>1, Lane DEF IInv
<1>3. p \in Job /\ Typed
  BY <1>2, Apart DEF IInv
<1>4. UNCHANGED <<queued, received, main, link, heard, exposed, torn>>
  BY DEF Respawn
<1>5. /\ disk' \in [Job -> [File -> SUBSET Piece]] /\ dropped' \in [Job -> SUBSET Piece]
      /\ \A j \in Job \ {p} : disk'[j] = disk[j] /\ dropped'[j] = dropped[j]
      /\ disk'[p].stitched = disk[p].stitched /\ Core(p)' = Core(p)
  <2>1. Discard(p) \/ UNCHANGED <<disk, dropped>>
    BY <1>2 DEF Respawn
  <2> QED
    BY <1>3, <2>1, Discarded DEF Core
<1>6. /\ \A v \in Worker \ {w} : work'[v] = work[v]
      /\ work' \in [Worker -> WorkRec]
      /\ Busy(w)' => /\ work'[w].pc = "restarted" /\ work'[w].jobs = work[w].jobs
                     /\ work'[w].linked = work[w].linked
  <2>1. CASE Go(w, "restarted")
    BY <1>3, <2>1, Went DEF Early
  <2>2. CASE Return(w)
    BY <1>3, <2>2, Returned
  <2> QED
    BY <2>1, <2>2 DEF Respawn, GiveUp
<1>7. /\ ctl' \in [Job -> {"queued", "running", "stop_requested"} \cup Ended]
      /\ state' \in Snapshots
      /\ state' = state \/ (state'.job = p /\ state'.status = "failed")
  <2>1. CASE UNCHANGED <<ctl, state>>
    BY <1>3, <2>1 DEF Typed
  <2>2. CASE GiveUp(w, NoFile)
    <3>1. "failed" \in Ended /\ state' = Plain(p, "failed", NoFile)
      BY <1>2, <2>2 DEF GiveUp, Ended
    <3>2. ctl' \in [Job -> {"queued", "running", "stop_requested"} \cup Ended]
      BY <1>2, <1>3, <2>2, <3>1, Reported DEF GiveUp
    <3> QED
      BY <1>3, <3>1, <3>2 DEF Plain, Snapshot, Snapshots
  <2> QED
    BY <2>1, <2>2 DEF Respawn
<1>8. Typed'
  BY <1>3, <1>4, <1>5, <1>6, <1>7 DEF Typed
<1>9. WorkerOnly(w) /\ (state' = state \/ ByMember(state)')
  BY <1>1, <1>2, <1>4, <1>5, <1>6, <1>7, Alone DEF Late
<1>10. p \notin exposed =>
         /\ heard[p] \subseteq Core(p) /\ disk[p].stitched = {} /\ work[w].linked
         /\ state.job = p => state.status \notin {"upload_pending", "uploaded"}
  BY <1>1, <1>2 DEF IInv, Works, Working, Early
<1>11. p \notin exposed => KeptOf(p)'
  BY <1>4, <1>5, <1>10 DEF KeptOf
<1>12. p \notin exposed /\ Busy(w)' => Working(w)'
  BY <1>2, <1>4, <1>5, <1>6, <1>7, <1>10 DEF Working, Early, Late, Primary
<1>13. p \notin exposed /\ state'.job = p => Sound(state)'
  <2>1. state.job = p /\ p \notin exposed => Sound(state)
    BY DEF IInv, Recorded
  <2>2. p \notin exposed => heard'[p] \subseteq Core(p)'
    BY <1>4, <1>5, <1>10
  <2> QED
    BY <1>7, <1>10, <2>1, <2>2 DEF Sound, Unsent
<1> QED
  BY <1>2, <1>8, <1>9, <1>11, <1>12, <1>13, WorkerKeeps

\* The segments are written into the state file.
LEMMA RecordSegmentsKeeps ==
  ASSUME IInv, NEW w \in Worker, RecordSegments(w)
  PROVE  IInv'
<1>1. Busy(w) /\ work[w].pc = "restarted"
  BY DEF RecordSegments, Busy
<1>2. PICK p \in Lead : p = Primary(w)
  BY <1>1, Lane DEF IInv
<1>3. p \in Job /\ Typed
  BY <1>2, Apart DEF IInv
<1>4. Go(w, "capturing") /\ state' = Snapshot(p, "running", "raw", NoFile, work[w].segs, FALSE)
      /\ UNCHANGED <<queued, ctl, received, disk, main, link, heard, dropped, exposed, torn>>
  BY <1>2 DEF RecordSegments, history
<1>5. work[w].segs \in SUBSET Piece
  BY <1>3 DEF Typed, WorkRec
<1>6. state' \in Snapshots /\ state'.job = p /\ state'.status = "running"
      /\ state'.master = NoFile /\ state'.path = "raw"
  BY <1>3, <1>4, <1>5 DEF Snapshot, Snapshots, File
<1>7. work'[w].pc = "capturing" /\ work'[w].jobs = work[w].jobs /\ work'[w].linked = work[w].linked
  BY <1>3, <1>4, Went DEF Early
<1>8. p \notin exposed => Working(w)
  BY <1>1, <1>2 DEF IInv, Works
<1>9. p \notin exposed => Working(w)'
  BY <1>1, <1>2, <1>4, <1>6, <1>7, <1>8 DEF Working, Core, Early, Late, Primary
<1>10. p \notin exposed => Sound(state)'
  BY <1>2, <1>4, <1>6, <1>8 DEF Sound, Unsent, Core, Working
<1>11. "capturing" \in Early /\ work[w].pc \notin Late
  BY <1>1 DEF Early, Late
<1> QED
  BY <1>1, <1>2, <1>4, <1>6, <1>9, <1>10, <1>11, Resumes

\* A capture that fails is given up.
LEMMA CaptureFailsKeeps ==
  ASSUME IInv, NEW w \in Worker, CaptureFails(w)
  PROVE  IInv'
BY GivenUp DEF CaptureFails, Busy, history

\* A worker that is done with its session, which it leaves as it is.
LEMMA Leaves ==
  ASSUME IInv, NEW w \in Worker, Busy(w), NEW p \in Lead, p = Primary(w), Return(w),
         ctl' \in [Job -> {"queued", "running", "stop_requested"} \cup Ended],
         UNCHANGED <<queued, received, disk, main, link, heard, dropped, exposed, torn>>,
         state' = state \/ (state' \in Snapshots /\ state'.job = p),
         p \notin exposed /\ state'.job = p => Sound(state)'
  PROVE  IInv'
<1>1. p \in Job /\ Typed
  BY Apart DEF IInv
<1>2. ~Busy(w)' /\ (\A v \in Worker \ {w} : work'[v] = work[v]) /\ work' \in [Worker -> WorkRec]
  BY <1>1, Returned
<1>3. Typed'
  BY <1>1, <1>2 DEF Typed
<1>4. WorkerOnly(w) /\ (state' = state \/ ByMember(state)')
  BY <1>1, <1>2, Alone
<1>5. KeptOf(p)'
  BY DEF KeptOf, Core, IInv, Kept, Members, Shared
<1> QED
  BY <1>2, <1>3, <1>4, <1>5, WorkerKeeps

\* A worker that finds its job ended leaves its files.
LEMMA StopCaptureKeeps ==
  ASSUME IInv, NEW w \in Worker, StopCapture(w)
  PROVE  IInv'
<1>1. Busy(w)
  BY DEF StopCapture, Busy
<1>2. PICK p \in Lead : p = Primary(w)
  BY <1>1, Lane DEF IInv
<1>3. p \in Job /\ Typed
  BY <1>2, Apart DEF IInv
<1>4. Return(w) /\ UNCHANGED <<queued, received, disk, main, link, heard, dropped, exposed, torn>>
  BY DEF StopCapture, history
<1>5. CASE UNCHANGED <<ctl, state>>
  <2>1. p \notin exposed /\ state'.job = p => Sound(state)'
    BY <1>2, <1>4, <1>5 DEF IInv, Recorded, Sound, Unsent, Sent, Core
  <2> QED
    BY <1>1, <1>2, <1>3, <1>4, <1>5, <2>1, Leaves DEF Typed
<1>6. CASE Report(p, "cancelled") /\ state' = Plain(p, "cancelled", NoFile)
  <2>1. ctl' \in [Job -> {"queued", "running", "stop_requested"} \cup Ended]
    BY <1>3, <1>6, Reported DEF Ended
  <2>2. state' \in Snapshots /\ state'.job = p /\ state'.status = "cancelled"
    BY <1>3, <1>6 DEF Plain, Snapshot, Snapshots, Ended
  <2>3. Sound(state)'
    BY <2>2 DEF Sound
  <2> QED
    BY <1>1, <1>2, <1>4, <2>1, <2>2, <2>3, Leaves
<1>7. CASE ctl[p] \in {"failed", "completed"} /\ state' = Plain(p, ctl[p], NoFile) /\ UNCHANGED ctl
  <2>1. state' \in Snapshots /\ state'.job = p /\ state'.status \in {"failed", "completed"}
    BY <1>3, <1>7 DEF Plain, Snapshot, Snapshots, Ended
  <2>2. Sound(state)'
    BY <2>1 DEF Sound
  <2> QED
    BY <1>1, <1>2, <1>3, <1>4, <1>7, <2>1, <2>2, Leaves DEF Typed
<1> QED
  BY <1>2, <1>5, <1>6, <1>7 DEF StopCapture

\* The end of the capture is recorded.
LEMMA FinishCaptureKeeps ==
  ASSUME IInv, NEW w \in Worker, FinishCapture(w)
  PROVE  IInv'
<1>1. Busy(w) /\ work[w].pc = "capturing"
  BY DEF FinishCapture, Busy
<1>2. PICK p \in Lead : p = Primary(w)
  BY <1>1, Lane DEF IInv
<1>3. p \in Job /\ Typed
  BY <1>2, Apart DEF IInv
<1>4. Go(w, "captured") /\ state' = Snapshot(p, "captured", "raw", NoFile, work[w].segs, FALSE)
      /\ UNCHANGED <<queued, ctl, received, disk, main, link, heard, dropped, exposed, torn>>
  BY <1>2 DEF FinishCapture, history
<1>5. work[w].segs \in SUBSET Piece
  BY <1>3 DEF Typed, WorkRec
<1>6. state' \in Snapshots /\ state'.job = p /\ state'.status = "captured"
      /\ state'.master = NoFile /\ state'.path = "raw"
  BY <1>3, <1>4, <1>5 DEF Snapshot, Snapshots, File
<1>7. work'[w].pc = "captured" /\ work'[w].jobs = work[w].jobs /\ work'[w].linked = work[w].linked
  BY <1>3, <1>4, Went DEF Early
<1>8. p \notin exposed => Working(w)
  BY <1>1, <1>2 DEF IInv, Works
<1>9. p \notin exposed => Working(w)'
  BY <1>1, <1>2, <1>4, <1>6, <1>7, <1>8 DEF Working, Core, Early, Late, Primary
<1>10. p \notin exposed => Sound(state)'
  BY <1>2, <1>4, <1>6, <1>8 DEF Sound, Unsent, Core, Working
<1>11. "captured" \in Early /\ work[w].pc \notin Late
  BY <1>1 DEF Early, Late
<1> QED
  BY <1>1, <1>2, <1>4, <1>6, <1>9, <1>10, <1>11, Resumes

\* What stitching does to the files of a job.
LEMMA Stitched ==
  ASSUME Typed, NEW j \in Job, NEW segs \in SUBSET Piece, NEW path \in File, path # "segment",
         path # "stitched", disk' = StitchedDisk(j, segs, path)
  PROVE  /\ disk' \in [Job -> [File -> SUBSET Piece]]
         /\ \A i \in Job \ {j} : disk'[i] = disk[i]
         /\ disk'[j].stitched = segs \cup disk[j][path]
         /\ disk'[j].segment = disk[j].segment \ segs
         /\ disk'[j][path] = {}
         /\ \A f \in File \ {"stitched", "segment", path} : disk'[j][f] = disk[j][f]
<1> DEFINE d == [disk[j] EXCEPT !.stitched = segs \cup disk[j][path], !.segment = @ \ segs, ![path] = {}]
<1>1. disk[j] \in [File -> SUBSET Piece] /\ DOMAIN disk = Job
  BY DEF Typed
<1>2. /\ d \in [File -> SUBSET Piece] /\ d.stitched = segs \cup disk[j][path]
      /\ d.segment = disk[j].segment \ segs /\ d[path] = {}
      /\ \A f \in File \ {"stitched", "segment", path} : d[f] = disk[j][f]
  BY <1>1 DEF File
<1>3. disk' = [disk EXCEPT ![j] = d]
  BY <1>1 DEF StitchedDisk
<1> HIDE DEF d
<1> QED
  BY <1>1, <1>2, <1>3 DEF Typed

\* A worker that goes on with another master or another output.
LEMMA Mastered ==
  ASSUME Typed, NEW w \in Worker, NEW master \in Master,
         work' = [work EXCEPT ![w].pc = "rendering", ![w].master = master]
  PROVE  /\ work'[w].pc = "rendering" /\ work'[w].jobs = work[w].jobs /\ work'[w].segs = work[w].segs
         /\ work'[w].master = master /\ work'[w].linked = work[w].linked
         /\ \A v \in Worker \ {w} : work'[v] = work[v]
         /\ work' \in [Worker -> WorkRec]
<1> DEFINE r == [work[w] EXCEPT !.pc = "rendering", !.master = master]
<1>1. work[w] \in WorkRec /\ DOMAIN work = Worker
  BY DEF Typed
<1>2. /\ r \in WorkRec /\ r.pc = "rendering" /\ r.jobs = work[w].jobs /\ r.segs = work[w].segs
      /\ r.master = master /\ r.linked = work[w].linked
  BY <1>1 DEF WorkRec, Middle, Late, Master, File
<1>3. work' = [work EXCEPT ![w] = r]
  BY <1>1
<1> HIDE DEF r
<1> QED
  BY <1>1, <1>2, <1>3, Moved

\* A worker goes on with its output.
LEMMA Rendered ==
  ASSUME Typed, NEW w \in Worker, work[w].pc = "rendering",
         NEW path \in {work[w].master, "render"},
         work' = [work EXCEPT ![w].pc = "rendered", ![w].path = path]
  PROVE  /\ work'[w].pc = "rendered" /\ work'[w].jobs = work[w].jobs /\ work'[w].segs = work[w].segs
         /\ work'[w].master = work[w].master /\ work'[w].linked = work[w].linked
         /\ work'[w].path = path
         /\ \A v \in Worker \ {w} : work'[v] = work[v]
         /\ work' \in [Worker -> WorkRec]
<1> DEFINE r == [work[w] EXCEPT !.pc = "rendered", !.path = path]
<1>1. work[w] \in WorkRec /\ DOMAIN work = Worker
  BY DEF Typed
<1>2. /\ r \in WorkRec /\ r.pc = "rendered" /\ r.jobs = work[w].jobs /\ r.segs = work[w].segs
      /\ r.master = work[w].master /\ r.linked = work[w].linked /\ r.path = path
  BY <1>1 DEF WorkRec, Middle, Late, Master, File
<1>3. work' = [work EXCEPT ![w] = r]
  BY <1>1
<1> HIDE DEF r
<1> QED
  BY <1>1, <1>2, <1>3, Moved

\* Stitching moves the core into one file, which must be empty before.
LEMMA StitchKeeps ==
  ASSUME IInv, NEW w \in Worker, Stitch(w)
  PROVE  IInv'
<1>1. Busy(w) /\ work[w].pc = "captured"
  BY DEF Stitch, Busy
<1>2. PICK p \in Lead : p = Primary(w)
  BY <1>1, Lane DEF IInv
<1>3. p \in Job /\ Typed
  BY <1>2, Apart DEF IInv
<1>4. UNCHANGED <<queued, received, main, link, heard, dropped, exposed, torn>>
  BY DEF Stitch, history
<1> DEFINE segs == work[w].segs
<1>5. segs \in SUBSET Piece
  BY <1>3 DEF Typed, WorkRec
<1>6. p \notin exposed =>
        /\ heard[p] \subseteq Core(p) /\ disk[p].stitched = {} /\ work[w].linked
        /\ state.job = p => state.status \notin {"upload_pending", "uploaded"} /\ Sound(state)
  BY <1>1, <1>2 DEF IInv, Works, Working, Early, Recorded
<1>7. CASE GiveUp(w, "raw") /\ UNCHANGED disk
  BY <1>1, <1>4, <1>7, GivenUp DEF File
<1>8. CASE /\ segs = {}
           /\ work' = [work EXCEPT ![w].pc = "rendering", ![w].master = "raw"]
           /\ UNCHANGED <<ctl, disk, state>>
  <2>1. /\ work'[w].pc = "rendering" /\ work'[w].jobs = work[w].jobs /\ work'[w].segs = segs
        /\ work'[w].master = "raw" /\ work'[w].linked = work[w].linked
        /\ \A v \in Worker \ {w} : work'[v] = work[v]
        /\ work' \in [Worker -> WorkRec]
    BY <1>3, <1>8, Mastered DEF Master
  <2>2. Typed'
    BY <1>3, <1>4, <1>8, <2>1 DEF Typed
  <2>3. WorkerOnly(w) /\ (state' = state \/ ByMember(state)')
    BY <1>1, <1>2, <1>4, <1>8, <2>1, Alone DEF Late
  <2>4. KeptOf(p)'
    BY <1>4, <1>8 DEF KeptOf, Core, IInv, Kept, Members, Shared
  <2>5. p \notin exposed => Working(w)'
    BY <1>2, <1>4, <1>6, <1>8, <2>1 DEF Working, Core, Early, Late, Master, Primary
  <2>6. p \notin exposed /\ state'.job = p => Sound(state)'
    BY <1>4, <1>6, <1>8 DEF Sound, Unsent, Sent, Core
  <2> QED
    BY <1>2, <2>2, <2>3, <2>4, <2>5, <2>6, WorkerKeeps
<1>9. CASE /\ segs # {} /\ Stitchable(p, segs, "raw")
           /\ disk' = StitchedDisk(p, segs, "raw")
           /\ work' = [work EXCEPT ![w].pc = "rendering", ![w].master = "stitched"]
           /\ UNCHANGED <<ctl, state>>
  <2>1. /\ work'[w].pc = "rendering" /\ work'[w].jobs = work[w].jobs /\ work'[w].segs = segs
        /\ work'[w].master = "stitched" /\ work'[w].linked = work[w].linked
        /\ \A v \in Worker \ {w} : work'[v] = work[v]
        /\ work' \in [Worker -> WorkRec]
    BY <1>3, <1>9, Mastered DEF Master
  <2>2. /\ disk' \in [Job -> [File -> SUBSET Piece]]
        /\ \A i \in Job \ {p} : disk'[i] = disk[i]
        /\ disk'[p].stitched = segs \cup disk[p].raw
        /\ disk'[p].segment = disk[p].segment \ segs
        /\ disk'[p].raw = {}
    BY <1>3, <1>5, <1>9, Stitched DEF File
  <2>3. Typed'
    BY <1>3, <1>4, <1>9, <2>1, <2>2 DEF Typed
  <2>4. WorkerOnly(w) /\ (state' = state \/ ByMember(state)')
    BY <1>1, <1>2, <1>4, <1>9, <2>1, <2>2, Alone DEF Late
  <2>5. p \notin exposed => heard'[p] \subseteq Core(p)'
    BY <1>4, <1>6, <2>2 DEF Core
  <2>6. p \notin exposed => KeptOf(p)'
    BY <2>2, <2>5 DEF KeptOf
  <2>7. p \notin exposed => Working(w)'
    BY <1>2, <1>4, <1>6, <1>9, <2>1, <2>2, <2>5 DEF Working, Early, Late, Master, Primary
  <2>8. p \notin exposed /\ state'.job = p => Sound(state)'
    BY <1>4, <1>6, <1>9, <2>5 DEF Sound, Unsent
  <2> QED
    BY <1>2, <2>3, <2>4, <2>6, <2>7, <2>8, WorkerKeeps
<1> QED
  BY <1>2, <1>7, <1>8, <1>9 DEF Stitch

\* Rendering copies the master or takes it as it is.
LEMMA RenderKeeps ==
  ASSUME IInv, NEW w \in Worker, Render(w)
  PROVE  IInv'
<1>1. Busy(w) /\ work[w].pc = "rendering"
  BY DEF Render, Busy
<1>2. PICK p \in Lead : p = Primary(w)
  BY <1>1, Lane DEF IInv
<1>3. p \in Job /\ Typed
  BY <1>2, Apart DEF IInv
<1>4. UNCHANGED <<queued, received, main, link, heard, dropped, exposed, torn>>
  BY DEF Render, history
<1> DEFINE master == work[w].master
<1>5. master \in Master /\ master \in File
  BY <1>1, <1>3 DEF Typed, WorkRec, Middle, Master, File
<1>6. p \notin exposed => Working(w)
        /\ (state.job = p => state.status \notin {"upload_pending", "uploaded"} /\ Sound(state))
  BY <1>1, <1>2 DEF IInv, Works, Working, Early, Recorded
<1>7. CASE GiveUp(w, master) /\ UNCHANGED disk
  BY <1>1, <1>4, <1>5, <1>7, GivenUp
<1>8. ASSUME NEW path \in {master, "render"}, path \in File,
             work' = [work EXCEPT ![w].pc = "rendered", ![w].path = path],
             disk' \in [Job -> [File -> SUBSET Piece]],
             \A j \in Job \ {p} : disk'[j] = disk[j],
             \A f \in File \ {"render"} : disk'[p][f] = disk[p][f],
             disk'[p][master] \subseteq disk'[p][path],
             UNCHANGED <<ctl, state>>
      PROVE  IInv'
  <2>1. /\ work'[w].pc = "rendered" /\ work'[w].jobs = work[w].jobs /\ work'[w].segs = work[w].segs
        /\ work'[w].master = master /\ work'[w].linked = work[w].linked /\ work'[w].path = path
        /\ \A v \in Worker \ {w} : work'[v] = work[v]
        /\ work' \in [Worker -> WorkRec]
    BY <1>3, <1>8, <1>1, Rendered
  <2>2. Typed'
    BY <1>3, <1>4, <1>8, <2>1 DEF Typed
  <2>3. WorkerOnly(w) /\ (state' = state \/ ByMember(state)')
    BY <1>1, <1>2, <1>4, <1>8, <2>1, Alone DEF Late
  <2>4. Core(p)' = Core(p) /\ disk'[p].stitched = disk[p].stitched
        /\ disk'[p].raw = disk[p].raw /\ disk'[p].segment = disk[p].segment
    BY <1>4, <1>8 DEF Core, File
  <2>5. p \notin exposed => KeptOf(p)'
    BY <1>2, <1>4, <1>6, <2>4 DEF KeptOf, Working, IInv, Kept
  <2>6. p \notin exposed => Working(w)'
    <3>1. p \notin exposed =>
            /\ heard[p] \subseteq Core(p) /\ work[w].linked
            /\ state.job = p => state.status \notin {"upload_pending", "uploaded"}
            /\ work[w].segs \cap disk[p].segment = {}
      BY <1>1, <1>2, <1>6 DEF Working, Early
    <3>2. work'[w].pc = "rendered" /\ Primary(w)' = p
      BY <1>2, <2>1 DEF Primary
    <3> QED
      BY <1>4, <1>8, <2>1, <2>4, <3>1, <3>2 DEF Working, Early, Late
  <2>7. p \notin exposed /\ state'.job = p => Sound(state)'
    BY <1>4, <1>6, <1>8, <2>4 DEF Sound, Unsent
  <2> QED
    BY <1>2, <2>2, <2>3, <2>5, <2>6, <2>7, WorkerKeeps
<1>9. CASE /\ disk[p][master] # {}
           /\ work' = [work EXCEPT ![w].pc = "rendered", ![w].path = master]
           /\ UNCHANGED <<ctl, disk, state>>
  BY <1>3, <1>5, <1>8, <1>9 DEF Typed
<1>10. CASE /\ disk[p][master] # {}
            /\ disk' = [disk EXCEPT ![p].render = disk[p][master]]
            /\ work' = [work EXCEPT ![w].pc = "rendered", ![w].path = "render"]
            /\ UNCHANGED <<ctl, state>>
  <2>1. disk' \in [Job -> [File -> SUBSET Piece]] /\ (\A j \in Job \ {p} : disk'[j] = disk[j])
        /\ \A f \in File \ {"render"} : disk'[p][f] = disk[p][f]
    BY <1>3, <1>5, <1>10 DEF Typed
  <2>2. disk'[p].render = disk[p][master] /\ master # "render" /\ "render" \in File
    BY <1>3, <1>5, <1>10 DEF Typed, File, Master
  <2>3. disk'[p][master] \subseteq disk'[p].render
    BY <1>5, <2>1, <2>2
  <2> QED
    BY <1>8, <1>10, <2>1, <2>2, <2>3
<1> QED
  BY <1>2, <1>7, <1>9, <1>10 DEF Render

\* From the checkpoint on, the state file knows the output.
LEMMA CheckpointKeeps ==
  ASSUME IInv, NEW w \in Worker, Checkpoint(w)
  PROVE  IInv'
<1>1. Busy(w) /\ work[w].pc = "rendered"
  BY DEF Checkpoint, Busy
<1>2. PICK p \in Lead : p = Primary(w)
  BY <1>1, Lane DEF IInv
<1>3. p \in Job /\ Typed
  BY <1>2, Apart DEF IInv
<1>4. Go(w, "uploading")
      /\ state' = Snapshot(p, "upload_pending", work[w].path, work[w].master, work[w].segs, TRUE)
      /\ UNCHANGED <<queued, ctl, received, disk, main, link, heard, dropped, exposed, torn>>
  BY <1>2 DEF Checkpoint, UploadState, history
<1>5. work[w].segs \in SUBSET Piece /\ work[w].master \in Master
      /\ work[w].path \in {work[w].master, "render"}
  BY <1>1, <1>3 DEF Typed, WorkRec, Middle
<1>6. state' \in Snapshots /\ state'.job = p /\ state'.status = "upload_pending"
      /\ state'.master = work[w].master /\ state'.path = work[w].path /\ state'.segs = work[w].segs
  BY <1>3, <1>4, <1>5 DEF Snapshot, Snapshots, File, Master
<1>7. work'[w].pc = "uploading" /\ work'[w].jobs = work[w].jobs /\ work'[w].linked = work[w].linked
      /\ work'[w].master = work[w].master /\ work'[w].path = work[w].path /\ work'[w].segs = work[w].segs
  BY <1>1, <1>3, <1>4, Went DEF Middle
<1>8. p \notin exposed => Working(w)
  BY <1>1, <1>2 DEF IInv, Works
<1>9. p \notin exposed => Working(w)'
  BY <1>1, <1>2, <1>4, <1>7, <1>8 DEF Working, Core, Early, Late, Primary
<1>10. p \notin exposed => Sound(state)'
  <2>1. p \notin exposed =>
          /\ heard[p] \subseteq Core(p) /\ work[w].segs \cap disk[p].segment = {}
          /\ disk[p][work[w].master] \subseteq disk[p][work[w].path]
    BY <1>1, <1>2, <1>8 DEF Working, Early
  <2> QED
    BY <1>4, <1>5, <1>6, <2>1 DEF Sound, Unsent, Core
<1>11. "uploading" \in Middle /\ work[w].pc \notin Late
  BY <1>1 DEF Middle, Late
<1> QED
  BY <1>1, <1>2, <1>4, <1>6, <1>9, <1>10, <1>11, Resumes

\* What the controller accepted is what the master holds.
LEMMA UploadKeeps ==
  ASSUME IInv, NEW w \in Worker, Upload(w)
  PROVE  IInv'
<1>1. Busy(w) /\ work[w].pc = "uploading"
  BY DEF Upload, Busy
<1>2. PICK p \in Lead : p = Primary(w)
  BY <1>1, Lane DEF IInv
<1>3. p \in Job /\ Typed
  BY <1>2, Apart DEF IInv
<1>4. UNCHANGED <<queued, disk, main, link, heard, dropped, exposed, torn>>
  BY DEF Upload, history
<1>5. work[w].segs \in SUBSET Piece /\ work[w].master \in Master
      /\ work[w].path \in {work[w].master, "render"} /\ work[w].path \in File
  BY <1>1, <1>3 DEF Typed, WorkRec, Middle, Master, File
<1>6. ASSUME NEW status \in {"upload_pending", "uploaded"}, state' = UploadState(w, status)
      PROVE  /\ state' \in Snapshots /\ state'.job = p /\ state'.status = status
             /\ state'.master = work[w].master /\ state'.path = work[w].path
             /\ state'.segs = work[w].segs
  BY <1>2, <1>3, <1>5, <1>6 DEF UploadState, Snapshot, Snapshots, File, Master
<1>7. p \notin exposed =>
        /\ heard[p] \subseteq Core(p) /\ work[w].segs \cap disk[p].segment = {} /\ work[w].linked
        /\ disk[p][work[w].master] \subseteq disk[p][work[w].path]
  BY <1>1, <1>2 DEF IInv, Works, Working, Early
<1>8. ASSUME state' = UploadState(w, "upload_pending")
      PROVE  p \notin exposed => Sound(state)'
  BY <1>4, <1>5, <1>6, <1>7, <1>8 DEF Sound, Unsent, Core
<1>9. CASE Return(w) /\ state' = UploadState(w, "upload_pending") /\ UNCHANGED <<ctl, received>>
  BY <1>1, <1>2, <1>3, <1>4, <1>6, <1>8, <1>9, Leaves DEF Typed
<1>10. CASE Attach(p, disk[p][work[w].path])
  <2>1. /\ received' \in [Job -> SUBSET Piece] /\ received'[p] = disk[p][work[w].path]
        /\ \A j \in Job \ {p} : received'[j] = received[j]
    BY <1>3, <1>5, <1>10 DEF Typed, Attach
  <2>2. ctl' \in [Job -> {"queued", "running", "stop_requested"} \cup Ended]
    BY <1>3, <1>10 DEF Typed, Attach, Ended
  <2>3. p \notin exposed => KeptOf(p)'
    BY <1>4, <1>7 DEF KeptOf, IInv, Kept, Core
  <2>4. CASE Return(w) /\ state' = UploadState(w, "upload_pending")
    <3>1. ~Busy(w)' /\ (\A v \in Worker \ {w} : work'[v] = work[v]) /\ work' \in [Worker -> WorkRec]
      BY <1>3, <2>4, Returned
    <3>2. Typed'
      BY <1>3, <1>4, <1>6, <2>1, <2>2, <2>4, <3>1 DEF Typed
    <3>3. WorkerOnly(w) /\ (state' = state \/ ByMember(state)')
      BY <1>1, <1>2, <1>4, <1>6, <2>1, <2>4, <3>1, Alone
    <3> QED
      BY <1>2, <1>8, <2>3, <2>4, <3>1, <3>2, <3>3, WorkerKeeps
  <2>5. CASE Go(w, "members") /\ state' = UploadState(w, "uploaded")
    <3>1. /\ work'[w].pc = "members" /\ work'[w].jobs = work[w].jobs
          /\ work'[w].linked = work[w].linked /\ work'[w].master = work[w].master
          /\ work'[w].path = work[w].path /\ work'[w].segs = work[w].segs
          /\ \A v \in Worker \ {w} : work'[v] = work[v]
          /\ work' \in [Worker -> WorkRec]
      BY <1>1, <1>3, <2>5, Went DEF Late
    <3>2. state' \in Snapshots /\ state'.job = p /\ state'.status = "uploaded"
          /\ state'.master = work[w].master /\ state'.path = work[w].path
      BY <1>6, <2>5
    <3>3. Typed'
      BY <1>3, <1>4, <2>1, <2>2, <3>1, <3>2 DEF Typed
    <3>4. WorkerOnly(w) /\ (state' = state \/ ByMember(state)')
      BY <1>1, <1>2, <1>4, <2>1, <3>1, <3>2, Alone DEF Late
    <3>5. Rest(w) = Members(p) /\ Rest(w)' = Rest(w) /\ Primary(w)' = p
      BY <1>1, <1>2, <3>1, ZenonT(40) DEF IInv, Crewed, WellCrewed, Rest, Primary, Late
    <3>6. p \notin exposed => Working(w)'
      BY <1>4, <1>7, <2>1, <3>1, <3>5 DEF Working, Early, Late, Core, Members, Shared
    <3>7. p \notin exposed => Sound(state)'
      BY <1>4, <1>5, <1>7, <2>1, <3>2 DEF Sound, Sent, Ended
    <3> QED
      BY <1>2, <2>3, <3>3, <3>4, <3>6, <3>7, WorkerKeeps
  <2> QED
    BY <1>2, <1>10, <2>4, <2>5 DEF Upload
<1> QED
  BY <1>2, <1>9, <1>10 DEF Upload

\* A session without the member that is done.
LEMMA Fewer ==
  ASSUME NEW J \in Seq(Job), Len(J) > 1, NEW K, K = <<Head(J)>> \o Tail(Tail(J))
  PROVE  /\ K \in Seq(Job) /\ Len(K) > 0 /\ Head(K) = Head(J)
         /\ \A i \in 2..Len(K) : K[i] = J[i + 1] /\ i + 1 \in 2..Len(J)
         /\ \A i \in 2..Len(J) : i = 2 \/ (i - 1 \in 2..Len(K) /\ J[i] = K[i - 1])
         /\ 2 \in 2..Len(J)
<1>1. Tail(J) \in Seq(Job) /\ Len(Tail(J)) = Len(J) - 1 /\ Head(J) \in Job /\ Len(J) \in Nat
      /\ \A i \in 1..(Len(J) - 1) : Tail(J)[i] = J[i + 1]
  OBVIOUS
<1> DEFINE L == Tail(J)
<1> HIDE DEF L
<1>2. L \in Seq(Job) /\ Len(L) > 0
  BY <1>1 DEF L
<1>3. Tail(L) \in Seq(Job) /\ Len(Tail(L)) = Len(L) - 1 /\ \A i \in 1..(Len(L) - 1) : Tail(L)[i] = L[i + 1]
  BY <1>2
<1>4. /\ Tail(L) \in Seq(Job) /\ Len(Tail(L)) = Len(J) - 2 /\ Len(Tail(L)) \in Nat
      /\ \A i \in 1..Len(Tail(L)) : Tail(L)[i] = J[i + 2]
  BY <1>1, <1>3 DEF L
<1> DEFINE M == Tail(L)
<1>5. K = <<Head(J)>> \o M
  BY DEF L
<1> HIDE DEF M
<1>6. M \in Seq(Job) /\ Len(M) = Len(J) - 2 /\ \A i \in 1..Len(M) : M[i] = J[i + 2]
  BY <1>4 DEF M
<1>7. K \in Seq(Job) /\ Len(K) = Len(J) - 1 /\ K[1] = Head(J) /\ \A i \in 2..Len(K) : K[i] = M[i - 1]
  BY <1>1, <1>5, <1>6
<1>8. \A i \in 2..Len(K) : K[i] = J[i + 1] /\ i + 1 \in 2..Len(J)
  <2> TAKE i \in 2..Len(K)
  <2>1. i - 1 \in 1..Len(M)
    BY <1>6, <1>7
  <2> QED
    BY <1>1, <1>6, <1>7, <2>1
<1>9. \A i \in 2..Len(J) : i = 2 \/ (i - 1 \in 2..Len(K) /\ J[i] = K[i - 1])
  <2> TAKE i \in 2..Len(J)
  <2>1. CASE i # 2
    <3>1. i - 1 \in 2..Len(K) /\ (i - 1) + 1 = i
      BY <1>1, <1>7, <2>1
    <3> QED
      BY <1>8, <3>1
  <2> QED
    BY <2>1
<1>10. 2 \in 2..Len(J)
  BY <1>1
<1>11. Len(K) > 0 /\ Head(K) = Head(J)
  BY <1>1, <1>7
<1> QED
  BY <1>7, <1>8, <1>9, <1>10, <1>11

\* The next of the members.
LEMMA Turn ==
  ASSUME IInv, NEW w \in Worker, Busy(w), work[w].pc \in Late, Len(work[w].jobs) > 1,
         NEW p \in Lead, p = Primary(w)
  PROVE  NextMember(w) \in Rest(w) /\ NextMember(w) \in Members(p) /\ NextMember(w) \in Job \ Lead
         /\ NextMember(w) # p
<1>1. work[w].jobs \in Seq(Job)
  BY DEF IInv, Typed, WorkRec
<1>2. NextMember(w) \in Rest(w)
  BY <1>1, Fewer DEF NextMember, Rest
<1>3. Rest(w) \subseteq Members(p) /\ Members(p) \subseteq Job
  BY Lane DEF IInv
<1> QED
  BY <1>2, <1>3, Apart DEF Members

\* The same of the jobs of a worker.
LEMMA Shortened ==
  ASSUME NEW w \in Worker, work[w].jobs \in Seq(Job), Len(work[w].jobs) > 1
  PROVE  /\ WithoutMember(w) \in Seq(Job) /\ Len(WithoutMember(w)) > 0
         /\ Head(WithoutMember(w)) = Head(work[w].jobs)
         /\ \A i \in 2..Len(WithoutMember(w)) :
              WithoutMember(w)[i] = work[w].jobs[i + 1] /\ i + 1 \in 2..Len(work[w].jobs)
         /\ \A i \in 2..Len(work[w].jobs) :
              \/ i = 2
              \/ i - 1 \in 2..Len(WithoutMember(w)) /\ work[w].jobs[i] = WithoutMember(w)[i - 1]
<1>1. ASSUME NEW J \in Seq(Job), NEW K, Len(J) > 1, K = <<Head(J)>> \o Tail(Tail(J))
      PROVE  /\ K \in Seq(Job) /\ Len(K) > 0 /\ Head(K) = Head(J)
             /\ \A i \in 2..Len(K) : K[i] = J[i + 1] /\ i + 1 \in 2..Len(J)
             /\ \A i \in 2..Len(J) : i = 2 \/ (i - 1 \in 2..Len(K) /\ J[i] = K[i - 1])
  BY <1>1, Fewer, ZenonT(40)
<1>2. WithoutMember(w) = <<Head(work[w].jobs)>> \o Tail(Tail(work[w].jobs))
  BY DEF WithoutMember, Primary
<1> HIDE DEF WithoutMember
<1> QED
  BY <1>1, <1>2, Zenon

\* A worker that is done with a member.
LEMMA Dropped ==
  ASSUME IInv, NEW w \in Worker, Busy(w), work[w].pc \in Late, Len(work[w].jobs) > 1,
         NEW p \in Lead, p = Primary(w),
         \/ work' = [work EXCEPT ![w].jobs = WithoutMember(w)] /\ work[w].pc = "members"
         \/ work' = [work EXCEPT ![w].pc = "members", ![w].jobs = WithoutMember(w)],
         queued' = queued
  PROVE  /\ work' \in [Worker -> WorkRec] /\ \A v \in Worker \ {w} : work'[v] = work[v]
         /\ work'[w].pc = "members" /\ work'[w].linked = work[w].linked
         /\ work'[w].segs = work[w].segs /\ work'[w].master = work[w].master
         /\ Primary(w)' = p /\ Rest(w)' \subseteq Rest(w)
         /\ Rest(w) \subseteq Rest(w)' \cup {NextMember(w)} /\ WellCrewed(w)'
<1> DEFINE J == work[w].jobs
           K == WithoutMember(w)
           r == [work[w] EXCEPT !.pc = "members", !.jobs = K]
<1>1. work[w] \in WorkRec /\ DOMAIN work = Worker /\ J \in Seq(Job)
  BY DEF IInv, Typed, WorkRec
<1>2. /\ K \in Seq(Job) /\ Len(K) > 0 /\ Head(K) = Head(J)
      /\ \A i \in 2..Len(K) : K[i] = J[i + 1] /\ i + 1 \in 2..Len(J)
      /\ \A i \in 2..Len(J) : i = 2 \/ (i - 1 \in 2..Len(K) /\ J[i] = K[i - 1])
  BY <1>1, Shortened, Zenon
<1> HIDE DEF K
<1>3. /\ r \in WorkRec /\ r.pc = "members" /\ r.jobs = K /\ r.linked = work[w].linked
      /\ r.segs = work[w].segs /\ r.master = work[w].master
  BY <1>1, <1>2 DEF WorkRec, Middle, Late
<1>4. work' = [work EXCEPT ![w] = r]
  <2>1. CASE work' = [work EXCEPT ![w].pc = "members", ![w].jobs = WithoutMember(w)]
    BY <1>1, <2>1 DEF K
  <2>2. CASE work' = [work EXCEPT ![w].jobs = WithoutMember(w)] /\ work[w].pc = "members"
    <3>1. [work[w] EXCEPT !.jobs = K] = r
      BY <1>1, <2>2 DEF WorkRec
    <3> QED
      BY <1>1, <2>2, <3>1 DEF K
  <2> QED
    BY <2>1, <2>2
<1> HIDE DEF r
<1>5. work' \in [Worker -> WorkRec] /\ work'[w] = r /\ \A v \in Worker \ {w} : work'[v] = work[v]
  BY <1>3, <1>4, Moved DEF IInv
<1>6. Primary(w)' = p /\ Rest(w)' = {K[i] : i \in 2..Len(K)}
  BY <1>2, <1>3, <1>5 DEF Primary, Rest
<1>7. Rest(w)' \subseteq Rest(w) /\ Rest(w) \subseteq Rest(w)' \cup {NextMember(w)}
  <2>1. Rest(w) = {J[i] : i \in 2..Len(J)} /\ NextMember(w) = J[2]
    BY DEF Rest, NextMember
  <2> HIDE DEF J
  <2>2. \A x \in Rest(w)' : x \in Rest(w)
    BY <1>2, <1>6, <2>1
  <2>3. \A x \in Rest(w) : x \in Rest(w)' \/ x = NextMember(w)
    BY <1>2, <1>6, <2>1
  <2> QED
    BY <2>2, <2>3
<1>8. Unclaimed' = Unclaimed /\ Members(Primary(w))' = Members(p)
  BY <1>6 DEF Unclaimed, Members, Shared
<1>9. Rest(w) \subseteq Members(p) /\ p \notin Unclaimed
  BY Lane DEF IInv
<1>10. WellCrewed(w)'
  BY <1>2, <1>3, <1>5, <1>6, <1>7, <1>8, <1>9 DEF WellCrewed, Late, Lead
<1> QED
  BY <1>3, <1>5, <1>6, <1>7, <1>10

\* A member has the master rendered, or is written off as exposed.
LEMMA RenderMemberKeeps ==
  ASSUME IInv, NEW w \in Worker, RenderMember(w)
  PROVE  IInv'
<1>1. Busy(w) /\ work[w].pc = "members" /\ work[w].pc \in Late /\ Len(work[w].jobs) > 1
  BY DEF RenderMember, Busy, Late
<1>2. PICK p \in Lead : p = Primary(w)
  BY <1>1, Lane DEF IInv
<1>3. p \in Job /\ Typed
  BY <1>2, Apart DEF IInv
<1>4. UNCHANGED <<queued, received, main, link, heard, dropped, torn>>
  BY DEF RenderMember
<1>5. PICK m \in Job \ Lead : m = NextMember(w)
  BY <1>1, <1>2, Turn
<1>6. m \in Rest(w) /\ m \in Members(p) /\ m # p /\ m \in Shared(p) /\ Rest(w) \subseteq Members(p)
  BY <1>1, <1>2, <1>5, Turn, Lane DEF Members, IInv
<1>7. work[w].master \in Master /\ work[w].master \in File
  BY <1>1, <1>3 DEF Typed, WorkRec, Master, File
<1>8. p \notin exposed =>
        /\ heard[p] \subseteq Core(p) /\ work[w].segs \cap disk[p].segment = {} /\ work[w].linked
        /\ disk[p][work[w].master] \subseteq received[p]
        /\ \A i \in Members(p) \ Rest(w) : i \notin exposed => disk[p][work[w].master] \subseteq disk[i].render
  BY <1>1, <1>2 DEF IInv, Works, Working, Early, Late
<1>9. CASE /\ disk' = [disk EXCEPT ![m].render = disk[p][work[w].master]]
           /\ state' = Plain(m, "running", "render")
           /\ Go(w, "member") /\ UNCHANGED <<ctl, exposed>>
  <2>1. /\ work'[w].pc = "member" /\ work'[w].jobs = work[w].jobs
        /\ work'[w].linked = work[w].linked /\ work'[w].master = work[w].master
        /\ work'[w].segs = work[w].segs
        /\ \A v \in Worker \ {w} : work'[v] = work[v]
        /\ work' \in [Worker -> WorkRec]
    BY <1>1, <1>3, <1>9, Went DEF Late
  <2>2. /\ disk' \in [Job -> [File -> SUBSET Piece]] /\ \A j \in Job \ {m} : disk'[j] = disk[j]
        /\ disk'[m].render = disk[p][work[w].master]
    BY <1>3, <1>5, <1>7, <1>9 DEF Typed, File
  <2>3. state' \in Snapshots /\ state'.job = m /\ state'.segs = {} /\ state'.retained = FALSE
    BY <1>9 DEF Plain, Snapshot, Snapshots, File
  <2>4. Typed'
    BY <1>3, <1>4, <1>9, <2>1, <2>2, <2>3 DEF Typed
  <2>5. Rest(w)' = Rest(w) /\ Primary(w)' = p /\ Unclaimed' = Unclaimed /\ NextMember(w)' = m
    BY <1>2, <1>4, <1>5, <2>1 DEF Rest, Primary, Unclaimed, NextMember
  <2>6. WellCrewed(w)'
    <3>1. Members(Primary(w))' = Members(p)
      BY <2>5 DEF Members, Shared
    <3>2. p \notin Unclaimed
      BY <1>1, <1>2, Lane DEF IInv
    <3> QED
      BY <1>1, <1>6, <2>1, <2>5, <3>1, <3>2 DEF WellCrewed, Late, Lead
  <2>7. WorkerOnly(w)
    BY <1>1, <1>2, <1>4, <1>6, <1>9, <2>1, <2>2, <2>3, <2>5, <2>6 DEF WorkerOnly
  <2>8. Core(p)' = Core(p) /\ disk'[p] = disk[p]
    BY <1>3, <1>4, <1>6, <2>2 DEF Core
  <2>9. p \notin exposed => KeptOf(p)'
    BY <1>4, <1>8, <2>8 DEF KeptOf, IInv, Kept
  <2>10. p \notin exposed => Working(w)'
    <3>1. \A i \in Members(p) \ Rest(w) : i # m /\ i \in Job
      BY <1>3, <1>6, Apart DEF Members
    <3>2. Members(p)' = Members(p)
      BY DEF Members, Shared
    <3> QED
      BY <1>3, <1>4, <1>6, <1>8, <1>9, <2>1, <2>2, <2>5, <2>8, <3>1, <3>2 DEF Working, Early, Late
  <2>11. ByMember(state)' /\ state'.job # p
    BY <1>6, <2>3 DEF ByMember
  <2> QED
    BY <1>2, <2>4, <2>7, <2>9, <2>10, <2>11, WorkerKeeps
<1>10. CASE /\ Report(m, "failed") /\ state' = Plain(m, "failed", NoFile)
            /\ work' = [work EXCEPT ![w].jobs = WithoutMember(w)]
            /\ exposed' = exposed \cup {m} /\ UNCHANGED disk
  <2>1. /\ work' \in [Worker -> WorkRec] /\ \A v \in Worker \ {w} : work'[v] = work[v]
        /\ work'[w].pc = "members" /\ work'[w].linked = work[w].linked
        /\ work'[w].segs = work[w].segs /\ work'[w].master = work[w].master
        /\ Primary(w)' = p /\ Rest(w)' \subseteq Rest(w)
        /\ Rest(w) \subseteq Rest(w)' \cup {m} /\ WellCrewed(w)'
    BY <1>1, <1>2, <1>4, <1>5, <1>10, Dropped
  <2>2. state' \in Snapshots /\ state'.job = m /\ state'.segs = {} /\ state'.retained = FALSE
    BY <1>10 DEF Plain, Snapshot, Snapshots, Ended
  <2>3. ctl' \in [Job -> {"queued", "running", "stop_requested"} \cup Ended]
    BY <1>3, <1>10, Reported DEF Ended
  <2>4. Typed'
    BY <1>3, <1>4, <1>10, <2>1, <2>2, <2>3 DEF Typed
  <2>5. WorkerOnly(w)
    BY <1>1, <1>2, <1>4, <1>6, <1>10, <2>1, <2>2 DEF WorkerOnly
  <2>6. p \notin exposed => KeptOf(p)'
    BY <1>4, <1>8, <1>10 DEF KeptOf, IInv, Kept, Core
  <2>7. p \notin exposed => Working(w)'
    <3>1. Members(p)' = Members(p) /\ Core(p)' = Core(p)
      BY <1>4, <1>10 DEF Members, Shared, Core
    <3> QED
      BY <1>4, <1>6, <1>8, <1>10, <2>1, <3>1 DEF Working, Early, Late
  <2>8. ByMember(state)' /\ state'.job # p
    BY <1>6, <2>2 DEF ByMember
  <2> QED
    BY <1>2, <2>4, <2>5, <2>6, <2>7, <2>8, WorkerKeeps
<1> QED
  BY <1>2, <1>5, <1>9, <1>10 DEF RenderMember

\* A member that is done keeps its file.
LEMMA UploadMemberKeeps ==
  ASSUME IInv, NEW w \in Worker, UploadMember(w)
  PROVE  IInv'
<1>1. Busy(w) /\ work[w].pc = "member" /\ work[w].pc \in Late
  BY DEF UploadMember, Busy, Late
<1>2. PICK p \in Lead : p = Primary(w)
  BY <1>1, Lane DEF IInv
<1>3. p \in Job /\ Typed
  BY <1>2, Apart DEF IInv
<1>4. UNCHANGED <<queued, disk, main, link, heard, dropped, exposed, torn>>
  BY DEF UploadMember, history
<1>5. Len(work[w].jobs) > 1
  BY <1>1 DEF IInv, Crewed, WellCrewed
<1>6. PICK m \in Job \ Lead : m = NextMember(w)
  BY <1>1, <1>2, <1>5, Turn
<1>7. m \in Rest(w) /\ m \in Members(p) /\ m # p /\ m \in Shared(p) /\ Rest(w) \subseteq Members(p)
  BY <1>1, <1>2, <1>5, <1>6, Turn, Lane DEF Members, IInv
<1>8. p \notin exposed =>
        /\ heard[p] \subseteq Core(p) /\ work[w].segs \cap disk[p].segment = {} /\ work[w].linked
        /\ disk[p][work[w].master] \subseteq received[p]
        /\ \A i \in Members(p) \ Rest(w) : i \notin exposed => disk[p][work[w].master] \subseteq disk[i].render
        /\ m \notin exposed => disk[p][work[w].master] \subseteq disk[m].render
  BY <1>1, <1>2, <1>6 DEF IInv, Works, Working, Early, Late
<1>9. /\ work' \in [Worker -> WorkRec] /\ \A v \in Worker \ {w} : work'[v] = work[v]
      /\ work'[w].pc = "members" /\ work'[w].linked = work[w].linked
      /\ work'[w].segs = work[w].segs /\ work'[w].master = work[w].master
      /\ Primary(w)' = p /\ Rest(w)' \subseteq Rest(w)
      /\ Rest(w) \subseteq Rest(w)' \cup {m} /\ WellCrewed(w)'
  <2>1. work' = [work EXCEPT ![w].pc = "members", ![w].jobs = WithoutMember(w)]
    BY DEF UploadMember
  <2> QED
    BY <1>1, <1>2, <1>4, <1>5, <1>6, <2>1, Dropped
<1>10. state' \in Snapshots /\ state'.job = m /\ state'.segs = {} /\ state'.retained = FALSE
  <2>1. \/ state' = Plain(m, "completed", "render")
        \/ state' = Plain(m, "failed", NoFile)
    BY <1>6 DEF UploadMember
  <2>2. CASE state' = Plain(m, "completed", "render")
    BY <2>2 DEF Plain, Snapshot, Snapshots, Ended, File
  <2>3. CASE state' = Plain(m, "failed", NoFile)
    BY <2>3 DEF Plain, Snapshot, Snapshots, Ended
  <2> QED
    BY <2>1, <2>2, <2>3
<1>11. /\ ctl' \in [Job -> {"queued", "running", "stop_requested"} \cup Ended]
       /\ received' \in [Job -> SUBSET Piece] /\ \A j \in Job \ {m} : received'[j] = received[j]
  <2>1. CASE Attach(m, disk[m].render)
    BY <1>3, <2>1 DEF Typed, Attach, Ended, File
  <2>2. CASE Report(m, "failed") /\ UNCHANGED received
    BY <1>3, <2>2, Reported DEF Typed, Ended
  <2> QED
    BY <1>6, <2>1, <2>2 DEF UploadMember
<1>12. Typed'
  BY <1>3, <1>4, <1>9, <1>10, <1>11 DEF Typed
<1>13. WorkerOnly(w)
  BY <1>1, <1>2, <1>4, <1>7, <1>9, <1>10, <1>11 DEF WorkerOnly
<1>14. p \notin exposed => KeptOf(p)'
  BY <1>4, <1>8 DEF KeptOf, IInv, Kept, Core
<1>15. p \notin exposed => Working(w)'
  <2>1. Members(p)' = Members(p) /\ Core(p)' = Core(p) /\ received'[p] = received[p]
    BY <1>3, <1>4, <1>7, <1>11 DEF Members, Shared, Core
  <2> QED
    BY <1>4, <1>8, <1>9, <2>1 DEF Working, Early, Late
<1>16. ByMember(state)' /\ state'.job # p
  BY <1>7, <1>10 DEF ByMember
<1> QED
  BY <1>2, <1>12, <1>13, <1>14, <1>15, <1>16, WorkerKeeps

\* What is deleted was received, and rendered for every member.
LEMMA RetainKeeps ==
  ASSUME IInv, NEW w \in Worker, Retain(w)
  PROVE  IInv'
<1>1. Busy(w) /\ work[w].pc = "members" /\ Len(work[w].jobs) = 1
  BY DEF Retain, Busy
<1>2. PICK p \in Lead : p = Primary(w)
  BY <1>1, Lane DEF IInv
<1>3. p \in Job /\ Typed
  BY <1>2, Apart DEF IInv
<1>4. UNCHANGED <<queued, ctl, received, main, link, heard, dropped, exposed, torn>> /\ Return(w)
      /\ state' = Plain(p, "completed", work[w].path)
  BY <1>2 DEF Retain, history
<1> DEFINE master == work[w].master
           path == work[w].path
<1>5. master \in Master /\ path \in {master, "render"} /\ path \in File
  BY <1>1, <1>3 DEF Typed, WorkRec, Master, File, Late
<1>6. /\ disk' \in [Job -> [File -> SUBSET Piece]] /\ \A j \in Job \ {p} : disk'[j] = disk[j]
      /\ \A f \in File : disk'[p][f] = disk[p][f] \/ (disk'[p][f] = {} /\ f \in {master, "render"})
  <2>1. disk' = Retained(p, master, path)
    BY <1>2 DEF Retain
  <2> QED
    BY <1>3, <1>5, <2>1 DEF Retained, Typed
<1>7. Rest(w) = {}
  BY <1>1 DEF Rest
<1>8. p \notin exposed =>
        /\ heard[p] \subseteq Core(p) /\ disk[p][master] \subseteq received[p]
        /\ \A i \in Members(p) : i \notin exposed => disk[p][master] \subseteq disk[i].render
  BY <1>1, <1>2, <1>7 DEF IInv, Works, Working, Late
<1>9. ~Busy(w)' /\ (\A v \in Worker \ {w} : work'[v] = work[v]) /\ work' \in [Worker -> WorkRec]
  BY <1>3, <1>4, Returned
<1>10. state' \in Snapshots /\ state'.job = p /\ state'.status = "completed"
  BY <1>3, <1>4, <1>5 DEF Plain, Snapshot, Snapshots, Ended
<1>11. Typed'
  BY <1>3, <1>4, <1>6, <1>9, <1>10 DEF Typed
<1>12. WorkerOnly(w) /\ (state' = state \/ ByMember(state)')
  BY <1>1, <1>2, <1>4, <1>6, <1>9, <1>10, Alone
<1>13. p \notin exposed => KeptOf(p)'
  <2>1. Core(p) \subseteq Core(p)' \cup disk[p][master]
    BY <1>4, <1>5, <1>6 DEF Core, File, Master
  <2>2. KeptOf(p)
    BY DEF IInv, Kept
  <2>3. disk'[p].stitched \subseteq disk[p].stitched /\ disk'[p].raw \subseteq disk[p].raw
    BY <1>6 DEF File
  <2>4. \A i \in Members(p) : disk'[i] = disk[i]
    BY <1>3, <1>6, Apart DEF Members
  <2>5. Members(p)' = Members(p)
    BY DEF Members, Shared
  <2> QED
    BY <1>4, <1>8, <2>1, <2>2, <2>3, <2>4, <2>5 DEF KeptOf
<1>14. Sound(state)'
  BY <1>10 DEF Sound
<1> QED
  BY <1>2, <1>9, <1>11, <1>12, <1>13, <1>14, WorkerKeeps

\* A claim puts a session into a worker that had none.
LEMMA ClaimKeeps ==
  ASSUME IInv, NEW w \in Worker, NEW s \in Sessions, Claim(w, s)
  PROVE  IInv'
<1>1. /\ s \in queued /\ queued' = queued \ {s} /\ ~Busy(w) /\ main.pc = "loop"
      /\ state' = Plain(Head(s), "running", NoFile)
      /\ UNCHANGED <<received, disk, main, link, heard, dropped, exposed, torn>>
  BY DEF Claim, Busy, history
<1>2. PICK p \in Lead : p = Head(s) /\ p = s[1]
  BY Claimed
<1>3. s \in Seq(Job) /\ Len(s) > 0 /\ {s[k] : k \in 2..Len(s)} = Members(p)
  BY <1>2, Claimed
<1>4. p \in Job /\ p \in Shared(p) /\ p \in Unclaimed /\ Typed
  BY <1>1, <1>2, Apart DEF IInv, Unclaimed
<1>5. Unclaimed' = Unclaimed \ {p}
  <2>1. \A t \in queued : t[1] = p => t = s
    BY <1>2, Claimed DEF IInv, Typed
  <2> QED
    BY <1>1, <1>2, <2>1 DEF Unclaimed
<1>6. heard[p] = {} /\ disk[p].stitched = {}
  BY <1>4 DEF IInv, Fresh
<1>7. /\ work'[w].pc = "claimed" /\ work'[w].jobs = s /\ work'[w].linked = TRUE
      /\ work'[w].segs = {}
      /\ \A v \in Worker \ {w} : work'[v] = work[v]
      /\ work' \in [Worker -> WorkRec]
  <2> DEFINE r == [Idle EXCEPT !.pc = "claimed", !.jobs = s]
  <2>1. r \in WorkRec /\ r.pc = "claimed" /\ r.jobs = s /\ r.linked = TRUE /\ r.segs = {}
    BY <1>3 DEF Idle, WorkRec, Early, Middle, Late
  <2>2. work' = [work EXCEPT ![w] = r]
    BY DEF Claim
  <2> HIDE DEF r
  <2> QED
    BY <1>4, <2>1, <2>2, Moved
<1>8. /\ state' \in Snapshots /\ state'.job = p /\ state'.status = "running"
      /\ state'.path = NoFile /\ state'.master = NoFile /\ state'.segs = {}
      /\ state'.retained = FALSE
  BY <1>1, <1>2, <1>4 DEF Plain, Snapshot, Snapshots
<1>9. Typed'
  <2>1. ctl' \in [Job -> {"queued", "running", "stop_requested"} \cup Ended]
    BY <1>4 DEF Claim, Typed
  <2> QED
    BY <1>1, <1>4, <1>7, <1>8, <2>1 DEF Typed
<1>10. Fresh'
  <2> SUFFICES ASSUME NEW q \in Unclaimed \ {p}
               PROVE  (heard[q] = {} /\ disk[q].stitched = {}
                       /\ state.job \notin Shared(q) /\ main.rec.job \notin Shared(q))'
    BY <1>5 DEF Fresh, Shared
  <2>1. heard[q] = {} /\ disk[q].stitched = {} /\ main.rec.job \notin Shared(q)
    BY DEF IInv, Fresh
  <2>2. q \in Lead
    BY DEF Unclaimed, Lead, IInv, Typed
  <2>3. p \notin Shared(q)
    BY <1>4, <2>2, Apart
  <2> QED
    BY <1>1, <1>8, <2>1, <2>3 DEF Shared
<1>11. \A v \in Worker \ {w} : /\ Busy(v)' = Busy(v) /\ Primary(v)' = Primary(v)
                               /\ Rest(v)' = Rest(v) /\ NextMember(v)' = NextMember(v)
  BY <1>7 DEF Busy, Primary, Rest, NextMember
<1>12. Busy(w)' /\ Primary(w)' = p /\ Rest(w)' = Members(p)
  BY <1>2, <1>3, <1>7 DEF Busy, Primary, Rest
<1>13. Members(Primary(w))' = Members(p)
  BY <1>12 DEF Members, Shared
<1>14. \A v \in Worker \ {w} : Busy(v) => WellCrewed(v) /\ Primary(v) \in Lead \ {p}
  BY <1>4 DEF IInv, Crewed, WellCrewed
<1>15. Crewed'
  <2>1. ASSUME NEW v \in Worker \ {w}, Busy(v)
        PROVE  WellCrewed(v)'
    <3>1. Members(Primary(v))' = Members(Primary(v)) /\ Primary(v) \in Lead \ Unclaimed'
      BY <1>5, <1>11, <1>14, <2>1 DEF Members, Shared, WellCrewed
    <3> QED
      BY <1>7, <1>11, <1>14, <2>1, <3>1 DEF WellCrewed, Lead
  <2>2. WellCrewed(w)'
    BY <1>3, <1>5, <1>7, <1>12, <1>13 DEF WellCrewed, Lead
  <2>3. \A v, u \in Worker \ {w} : Busy(v) /\ Busy(u) /\ Primary(v) = Primary(u) => v = u
    BY DEF IInv, Crewed
  <2> QED
    BY <1>11, <1>12, <1>14, <2>1, <2>2, <2>3 DEF Crewed
<1>16. Exposure' /\ Kept'
  BY <1>1 DEF IInv, Exposure, Kept, KeptOf, Core, Members, Shared, Lead
<1>17. Works'
  <2>1. ASSUME NEW v \in Worker \ {w}, Busy(v), Primary(v) \notin exposed
        PROVE  Working(v)'
    <3>1. Working(v) /\ state'.job # Primary(v)
      BY <1>8, <1>14, <2>1 DEF IInv, Works
    <3>2. Members(Primary(v))' = Members(Primary(v)) /\ Core(Primary(v))' = Core(Primary(v))
      BY <1>1, <1>11 DEF Members, Shared, Core
    <3> QED
      BY <1>1, <1>7, <1>11, <3>1, <3>2 DEF Working
  <2>2. Working(w)'
    BY <1>1, <1>6, <1>7, <1>8, <1>12 DEF Working, Early, Late
  <2> QED
    BY <1>1, <1>11, <2>1, <2>2 DEF Works
<1>18. Recorded'
  <2>1. ByMember(state)'
    BY <1>8 DEF ByMember
  <2>2. Unsent(state)'
    BY <1>1, <1>6, <1>8 DEF Unsent, Core
  <2> QED
    BY <1>4, <1>8, <2>1, <2>2 DEF Recorded, Sound
<1>19. Recovering'
  BY <1>1 DEF IInv, Recovering, ByMember, Lead, Handling
<1> QED
  BY <1>9, <1>10, <1>15, <1>16, <1>17, <1>18, <1>19 DEF IInv

-----------------------------------------------------------------------------
(* The controller, the link and a crash *)

\* The workers hold what they held.
LEMMA CrewedStill ==
  ASSUME IInv, UNCHANGED <<queued, work>>
  PROVE  Crewed'
<1>1. /\ Unclaimed' = Unclaimed
      /\ \A w \in Worker : Busy(w)' = Busy(w) /\ Primary(w)' = Primary(w) /\ Rest(w)' = Rest(w)
  BY DEF Unclaimed, Busy, Primary, Rest
<1>2. \A w \in Worker : WellCrewed(w) => WellCrewed(w)'
  BY <1>1 DEF WellCrewed, Lead, Members, Shared
<1> QED
  BY <1>1, <1>2 DEF IInv, Crewed

\* The workers find what they need.
LEMMA WorksStill ==
  ASSUME IInv, UNCHANGED <<received, disk, state, work, heard, dropped>>, exposed \subseteq exposed'
  PROVE  Works'
<1> SUFFICES ASSUME NEW w \in Worker, Busy(w)', (Primary(w) \notin exposed)'
             PROVE  Working(w)'
  BY DEF Works
<1>1. /\ Busy(w) /\ Primary(w)' = Primary(w) /\ Rest(w)' = Rest(w)
      /\ NextMember(w)' = NextMember(w)
  BY DEF Busy, Primary, Rest, NextMember
<1>2. Working(w)
  BY <1>1 DEF IInv, Works
<1>3. Members(Primary(w))' = Members(Primary(w)) /\ Core(Primary(w))' = Core(Primary(w))
  BY <1>1 DEF Members, Shared, Core
<1> QED
  BY <1>1, <1>2, <1>3 DEF Working

\* A step that changes neither files, records nor workers.
LEMMA Quiet ==
  ASSUME IInv, Typed', UNCHANGED <<queued, received, disk, state, work, main, heard, dropped, exposed>>
  PROVE  IInv'
<1>1. Fresh'
  BY DEF IInv, Fresh, Unclaimed, Shared
<1>2. Crewed'
  BY CrewedStill
<1>3. Exposure' /\ Kept'
  BY DEF IInv, Exposure, Kept, KeptOf, Core, Members, Shared, Lead
<1>4. Works'
  BY WorksStill
<1>5. Recorded'
  BY DEF IInv, Recorded, ByMember, Lead, Sound, Unsent, Sent, Core
<1>6. Recovering'
  BY DEF IInv, Recovering, ByMember, Lead, Members, Shared, Holds, Sound, Unsent, Sent, Core,
         Resendable
<1> QED
  BY <1>1, <1>2, <1>3, <1>4, <1>5, <1>6 DEF IInv

\* The controller ends or stops a job: the agent's files do not know yet.
LEMMA ControllerKeeps ==
  ASSUME IInv, NEW j \in Job, Expire(j) \/ RequestStop(j)
  PROVE  IInv'
<1>1. UNCHANGED <<queued, received, disk, state, work, main, link, heard, dropped, exposed, torn>>
  BY DEF Expire, RequestStop, history
<1>2. ctl' \in [Job -> {"queued", "running", "stop_requested"} \cup Ended]
  BY DEF Expire, RequestStop, IInv, Typed, Ended
<1>3. Typed'
  BY <1>1, <1>2 DEF IInv, Typed
<1> QED
  BY <1>1, <1>3, Quiet

\* The link comes and goes.
LEMMA LinkKeeps ==
  ASSUME IInv, LinkFails \/ LinkReturns
  PROVE  IInv'
<1>1. UNCHANGED <<queued, ctl, received, disk, state, work, main, heard, dropped, exposed, torn>>
      /\ link' \in BOOLEAN
  BY DEF LinkFails, LinkReturns, history
<1>2. Typed'
  BY <1>1 DEF IInv, Typed
<1> QED
  BY <1>1, <1>2, Quiet

\* A crash leaves the disk, the state file and the controller.
LEMMA CrashKeeps ==
  ASSUME IInv, Crash
  PROVE  IInv'
<1>1. /\ UNCHANGED <<queued, ctl, received, disk, state, link, heard, dropped, exposed>>
      /\ work' = [w \in Worker |-> Idle] /\ main' = Resting
  BY DEF Crash
<1>2. /\ \A w \in Worker : ~Busy(w)' /\ \A j : ~Holds(w, j)'
      /\ main'.pc = "boot" /\ main'.rec = NoState
  BY <1>1 DEF Busy, Holds, Idle, Resting
<1>3. NoState.job = NoJob /\ NoJob \notin Job
  BY AgentCaptureAssumption DEF NoState
<1>4. Typed'
  <2>1. Idle \in WorkRec
    BY DEF Idle, WorkRec, Middle, Late
  <2>2. NoState \in Snapshots
    BY DEF NoState, Snapshots, Ended
  <2>3. Resting \in MainRec /\ Resting.pc = "boot"
    BY <2>2 DEF Resting, MainRec
  <2>4. torn' \subseteq Job
    <3>1. \A w \in Worker : work[w].pc \in {"lost", "restarted"} => Primary(w) \in Job
      BY Lane DEF IInv, Busy
    <3> QED
      BY <3>1 DEF Crash, IInv, Typed
  <2> QED
    BY <1>1, <2>1, <2>3, <2>4 DEF IInv, Typed
<1>5. Fresh'
  BY <1>1, <1>2, <1>3 DEF IInv, Fresh, Unclaimed, Shared
<1>6. Crewed' /\ Works'
  BY <1>2 DEF Crewed, Works
<1>7. Exposure' /\ Kept'
  BY <1>1 DEF IInv, Exposure, Kept, KeptOf, Core, Members, Shared, Lead
<1>8. Recorded'
  BY <1>1 DEF IInv, Recorded, ByMember, Lead, Sound, Unsent, Sent, Core
<1>9. Recovering'
  BY <1>2, <1>3 DEF Recovering, ByMember, Handling
<1> QED
  BY <1>4, <1>5, <1>6, <1>7, <1>8, <1>9 DEF IInv

-----------------------------------------------------------------------------
(* Recovery *)

\* A recovery that starts exposes what it does not know, and works on a copy of
\* the state file.
LEMMA ReconcileKeeps ==
  ASSUME IInv, Reconcile, main.pc \in {"boot", "loop"},
         UNCHANGED <<queued, ctl, received, disk, state, work, link, heard, dropped, torn>>
  PROVE  IInv'
<1>1. main.rec = NoState /\ NoState.job = NoJob /\ NoJob \notin Job /\ main \in MainRec
  BY AgentCaptureAssumption DEF IInv, Recovering, Handling, NoState, Typed
<1>2. /\ exposed \subseteq exposed' /\ exposed' \subseteq Job
      /\ \A p \in Lead : p \in exposed' /\ p \notin exposed => Shared(p) \subseteq exposed'
  <2>1. CASE state.status \in Ended
    BY <2>1 DEF Reconcile, IInv, Typed
  <2>2. CASE state.status \notin Ended
    <3>1. exposed' = exposed \cup (Shared(state.job) \ {state.job})
                         \cup {j \in {state.job} : \E w \in Worker : Holds(w, j)}
      BY <2>2 DEF Reconcile
    <3>2. state.job \in Job
      BY <2>2 DEF IInv, Recorded
    <3>3. Shared(state.job) \subseteq Job /\ (Shared(state.job) \ {state.job}) \cap Lead = {}
      <4>1. CASE state.job \in Lead
        BY <3>2, <4>1, Apart DEF Members
      <4>2. CASE state.job \notin Lead
        BY <3>2, <4>2, Apart
      <4> QED
        BY <4>1, <4>2
    <3>4. \A p \in Lead : p \in exposed' /\ p \notin exposed => p = state.job
      BY <3>1, <3>3
    <3> QED
      BY <3>1, <3>2, <3>3, <3>4 DEF IInv, Typed
  <2> QED
    BY <2>1, <2>2
<1>3. \/ /\ main'.pc = "loop" /\ main'.rec = NoState
      \/ /\ main'.pc = IF state.status = "uploaded" THEN "retain" ELSE "recover"
         /\ main'.rec = state /\ state.status \notin Ended
         /\ Members(state.job) \subseteq exposed'
         /\ \A w \in Worker : Holds(w, state.job) => state.job \in exposed'
  BY <1>1 DEF Reconcile, MainRec, Members
<1>4. Typed'
  <2>1. main' \in MainRec /\ main'.pc # "resend"
    BY ZenonT(40) DEF Reconcile, IInv, Typed, MainRec
  <2> QED
    BY <1>2, <2>1 DEF IInv, Typed
<1>5. Fresh'
  BY <1>1, <1>3 DEF IInv, Fresh, Unclaimed, Shared
<1>6. Crewed'
  BY CrewedStill
<1>7. Exposure'
  BY <1>2 DEF IInv, Exposure, Lead, Shared
<1>8. Kept'
  BY <1>2 DEF IInv, Kept, KeptOf, Core, Members, Shared, Lead
<1>9. Works'
  BY <1>2, WorksStill
<1>10. Recorded'
  BY <1>2 DEF IInv, Recorded, ByMember, Lead, Sound, Unsent, Sent, Core
<1>11. Recovering'
  <2>1. CASE main'.pc = "loop" /\ main'.rec = NoState
    BY <1>1, <2>1 DEF Recovering, ByMember, Handling
  <2>2. CASE /\ main'.pc = IF state.status = "uploaded" THEN "retain" ELSE "recover"
             /\ main'.rec = state /\ state.status \notin Ended
             /\ Members(state.job) \subseteq exposed'
             /\ \A w \in Worker : Holds(w, state.job) => state.job \in exposed'
    <3>1. ByMember(state) /\ state.job \in Job /\ (state.job \in Lead \ exposed => Sound(state))
      BY <2>2 DEF IInv, Recorded
    <3>2. Members(main.rec.job)' = Members(state.job) /\ Lead' = Lead
      BY <2>2 DEF Members, Shared, Lead
    <3>3. \A w \in Worker : Holds(w, main.rec.job)' <=> Holds(w, state.job)
      BY <2>2 DEF Holds
    <3>4. Sound(state) => Sound(main.rec)'
      BY <2>2 DEF Sound, Unsent, Sent, Core
    <3>5. Sound(state) /\ state.status = "uploaded" => Sent(main.rec)'
      BY <2>2 DEF Sound, Sent
    <3>6. ByMember(main.rec)'
      BY <2>2, <3>1, <3>2 DEF ByMember
    <3> QED
      BY <1>2, <2>2, <3>1, <3>2, <3>3, <3>4, <3>5, <3>6 DEF Recovering, Handling
  <2> QED
    BY <1>3, <2>1, <2>2
<1> QED
  BY <1>4, <1>5, <1>6, <1>7, <1>8, <1>9, <1>10, <1>11 DEF IInv

\* The recovery of a start.
LEMMA BootKeeps ==
  ASSUME IInv, Boot
  PROVE  IInv'
BY ReconcileKeeps DEF Boot

\* The recovery of a tick, or the tick that finds the controller gone.
LEMMA TickKeeps ==
  ASSUME IInv, Tick
  PROVE  IInv'
<1>1. /\ main.pc = "loop"
      /\ UNCHANGED <<queued, ctl, received, disk, state, work, link, heard, dropped, torn>>
  BY DEF Tick
<1>2. CASE Reconcile
  BY <1>1, <1>2, ReconcileKeeps
<1>3. CASE main' = [main EXCEPT !.syncFailed = TRUE] /\ UNCHANGED exposed
  <2>1. main'.pc = "loop" /\ main'.rec = main.rec /\ main' \in MainRec
    BY <1>1, <1>3 DEF IInv, Typed, MainRec
  <2>2. Typed'
    BY <1>1, <1>3, <2>1 DEF IInv, Typed
  <2>3. Fresh'
    BY <1>1, <2>1 DEF IInv, Fresh, Unclaimed, Shared
  <2>4. Crewed'
    BY <1>1, CrewedStill
  <2>5. Exposure' /\ Kept'
    BY <1>1, <1>3 DEF IInv, Exposure, Kept, KeptOf, Core, Members, Shared, Lead
  <2>6. Works'
    BY <1>1, <1>3, WorksStill
  <2>7. Recorded'
    BY <1>1, <1>3 DEF IInv, Recorded, ByMember, Lead, Sound, Unsent, Sent, Core
  <2>8. Recovering'
    BY <1>1, <2>1 DEF IInv, Recovering, ByMember, Lead, Handling
  <2> QED
    BY <2>2, <2>3, <2>4, <2>5, <2>6, <2>7, <2>8 DEF IInv
<1> QED
  BY <1>2, <1>3 DEF Tick

\* What a step of a recovery leaves alone: everything but its own job.
RecoveryOnly(j) ==
  /\ main.pc \in Handling /\ main.rec.job = j
  /\ UNCHANGED <<queued, heard, dropped, exposed>>
  /\ \A w \in Worker :
       /\ work'[w].pc = work[w].pc /\ work'[w].jobs = work[w].jobs /\ work'[w].segs = work[w].segs
       /\ work'[w].path = work[w].path /\ work'[w].master = work[w].master
       /\ work'[w].pc # "idle" /\ Primary(w) # j => work'[w].linked = work[w].linked
  /\ \A k \in Job \ {j} : disk'[k] = disk[k] /\ received'[k] = received[k]
  /\ j \in Lead \/ disk' = disk
  /\ state' = state \/ (state'.job = j /\ ByMember(state)')
  /\ main'.rec.job \in {j, NoJob}

\* What is left to show of a step of a recovery is about its own job.
LEMMA RecoveryKeeps ==
  ASSUME IInv, NEW j \in Job, RecoveryOnly(j), Typed', Recovering',
         j \in Lead \ exposed => KeptOf(j)',
         j \in Lead \ exposed /\ state'.job = j => Sound(state)'
  PROVE  IInv'
<1>1. /\ Members(j) \subseteq exposed
      /\ j \notin exposed => \A w \in Worker : ~Holds(w, j)
  BY DEF IInv, Recovering, RecoveryOnly
<1>2. UNCHANGED <<queued, heard, dropped, exposed>>
  BY DEF RecoveryOnly
<1>3. \A w \in Worker : /\ Busy(w)' = Busy(w) /\ Primary(w)' = Primary(w)
                        /\ Rest(w)' = Rest(w) /\ NextMember(w)' = NextMember(w)
                        /\ work'[w].pc = work[w].pc /\ work'[w].segs = work[w].segs
                        /\ work'[w].path = work[w].path /\ work'[w].master = work[w].master
                        /\ work'[w].jobs = work[w].jobs
  BY DEF RecoveryOnly, Busy, Primary, Rest, NextMember
<1>4. \A k \in Job \ {j} : disk'[k] = disk[k] /\ received'[k] = received[k]
  BY DEF RecoveryOnly
<1>5. \A p \in Lead : \A m \in Members(p) : disk'[m] = disk[m]
  BY <1>4, Apart DEF RecoveryOnly, Members
<1>6. Fresh'
  <2>1. Unclaimed' = Unclaimed
    BY <1>2 DEF Unclaimed
  <2> SUFFICES ASSUME NEW p \in Unclaimed
               PROVE  (heard[p] = {} /\ disk[p].stitched = {}
                       /\ state.job \notin Shared(p) /\ main.rec.job \notin Shared(p))'
    BY <2>1 DEF Fresh, Shared
  <2>2. heard[p] = {} /\ disk[p].stitched = {} /\ state.job \notin Shared(p) /\ j \notin Shared(p)
    BY DEF IInv, Fresh, RecoveryOnly
  <2>3. p \in Lead
    BY DEF Unclaimed, Lead, IInv, Typed
  <2>4. p \in Job /\ p # j /\ NoJob \notin Shared(p)
    BY <2>2, <2>3, Apart, AgentCaptureAssumption
  <2> QED
    BY <1>2, <1>4, <2>2, <2>4 DEF RecoveryOnly, Shared
<1>7. Crewed'
  <2>1. Unclaimed' = Unclaimed
    BY <1>2 DEF Unclaimed
  <2>2. \A w \in Worker : WellCrewed(w) => WellCrewed(w)'
    BY <1>3, <2>1 DEF WellCrewed, Lead, Members, Shared
  <2> QED
    BY <1>3, <2>2 DEF IInv, Crewed
<1>8. Exposure'
  BY <1>2 DEF IInv, Exposure, Lead, Shared
<1>9. Kept'
  <2>1. ASSUME NEW p \in Lead, p # j PROVE KeptOf(p)'
    <3>1. disk'[p] = disk[p] /\ received'[p] = received[p] /\ heard' = heard /\ dropped' = dropped /\ exposed' = exposed
      BY <1>2, <1>4, <2>1, Apart
    <3>2. Members(p)' = Members(p) /\ Core(p)' = Core(p)
      BY <3>1 DEF Members, Shared, Core
    <3> QED
      BY <1>5, <3>1, <3>2 DEF IInv, Kept, KeptOf
  <2>2. ASSUME j \in exposed PROVE KeptOf(j)'
    BY <1>1, <1>2, <2>2 DEF KeptOf, Members, Shared
  <2> QED
    BY <2>1, <2>2 DEF Kept, Lead
<1>10. Works'
  <2> SUFFICES ASSUME NEW w \in Worker, Busy(w), Primary(w) \notin exposed
               PROVE  Working(w)'
    BY <1>2, <1>3 DEF Works
  <2>1. PICK p \in Lead : p = Primary(w)
    BY Lane DEF IInv
  <2>2. p # j /\ p \in Job /\ work'[w].linked = work[w].linked
    BY <1>1, <1>3, <2>1, Lane, Apart DEF IInv, RecoveryOnly, Busy
  <2>3. disk'[p] = disk[p] /\ received'[p] = received[p] /\ Core(p)' = Core(p)
        /\ Members(p)' = Members(p)
    BY <1>2, <1>4, <2>2 DEF Core, Members, Shared
  <2>4. state'.job = p => state' = state
    BY <2>2 DEF RecoveryOnly
  <2>5. Working(w)
    BY DEF IInv, Works
  <2>6. work[w].pc = "member" => NextMember(w) \in Members(p)
    BY <2>1, Turn DEF IInv, Crewed, WellCrewed, Late
  <2> QED
    BY <1>2, <1>3, <1>5, <2>1, <2>2, <2>3, <2>4, <2>5, <2>6 DEF Working
<1>11. Recorded'
  <2>1. ByMember(state) /\ (state.status \notin Ended => state.job \in Job)
        /\ (state.job \in Lead \ exposed => Sound(state))
    BY DEF IInv, Recorded
  <2>2. ByMember(state)'
    BY <2>1 DEF ByMember, Lead, RecoveryOnly
  <2>3. state'.status \notin Ended => state'.job \in Job
    BY <2>1 DEF RecoveryOnly
  <2>4. ASSUME state'.job \in Lead \ exposed, state'.job # j PROVE Sound(state)'
    <3>1. state' = state
      BY <2>4 DEF RecoveryOnly
    <3>2. disk'[state.job] = disk[state.job] /\ received'[state.job] = received[state.job]
      BY <1>4, <2>4, <3>1, Apart
    <3> QED
      BY <1>2, <2>1, <2>4, <3>1, <3>2 DEF Sound, Unsent, Sent, Core
  <2> QED
    BY <1>2, <2>2, <2>3, <2>4 DEF Recorded, Lead
<1> QED
  BY <1>6, <1>7, <1>8, <1>9, <1>10, <1>11 DEF IInv

\* Stitching changes the files of one job.
LEMMA StitchTyped ==
  ASSUME Typed, NEW j \in Job, NEW segs \in SUBSET Piece, NEW path \in File,
         disk' = StitchedDisk(j, segs, path)
  PROVE  /\ disk' \in [Job -> [File -> SUBSET Piece]]
         /\ \A k \in Job \ {j} : disk'[k] = disk[k]
<1> DEFINE d == [disk[j] EXCEPT !.stitched = segs \cup disk[j][path], !.segment = @ \ segs, ![path] = {}]
<1>1. disk[j] \in [File -> SUBSET Piece] /\ DOMAIN disk = Job
  BY DEF Typed
<1>2. d \in [File -> SUBSET Piece]
  BY <1>1 DEF File
<1>3. disk' = [disk EXCEPT ![j] = d]
  BY <1>1 DEF StitchedDisk
<1> HIDE DEF d
<1> QED
  BY <1>1, <1>2, <1>3 DEF Typed

\* A recovery that is over holds no record.
LEMMA Over ==
  ASSUME IInv, main'.pc = "loop", main'.rec = NoState
  PROVE  Recovering'
<1>1. NoState.job = NoJob /\ NoJob \notin Job
  BY AgentCaptureAssumption DEF NoState
<1> QED
  BY <1>1 DEF Recovering, Handling, ByMember

\* A recovery that ends its job.
LEMMA RecoveredKeeps ==
  ASSUME IInv, main.pc \in Handling, NEW status \in Ended, Recovered(status),
         ctl' \in [Job -> {"queued", "running", "stop_requested"} \cup Ended],
         UNCHANGED <<queued, received, disk, work, link, heard, dropped, exposed, torn>>
  PROVE  IInv'
<1>1. PICK j \in Job : j = main.rec.job
  BY DEF IInv, Recovering
<1>2. main'.pc = "loop" /\ main'.rec = NoState /\ main' \in MainRec
  <2>1. NoState \in Snapshots /\ main \in MainRec
    BY DEF NoState, Snapshots, Ended, IInv, Typed
  <2> QED
    BY <2>1 DEF Recovered, MainRec
<1>3. /\ state' \in Snapshots /\ state'.job = j /\ state'.status = status
      /\ state'.segs = main.rec.segs /\ state'.retained = main.rec.retained
  BY <1>1 DEF Recovered, IInv, Typed, MainRec, Snapshots
<1>4. Typed'
  BY <1>2, <1>3 DEF IInv, Typed
<1>5. Recovering'
  BY <1>2, Over
<1>6. ByMember(state)'
  BY <1>1, <1>3 DEF IInv, Recovering, ByMember, Lead
<1>7. RecoveryOnly(j)
  BY <1>1, <1>2, <1>3, <1>6 DEF RecoveryOnly, NoState
<1>8. j \in Lead \ exposed => KeptOf(j)'
  BY DEF IInv, Kept, KeptOf, Core, Members, Shared
<1>9. Sound(state)'
  BY <1>3 DEF Sound, Ended
<1> QED
  BY <1>4, <1>5, <1>7, <1>8, <1>9, RecoveryKeeps

\* A recovery that is put off: nothing was attached, or the answer was lost.
LEMMA PendingKeeps ==
  ASSUME IInv, main.pc \in {"recover", "resend"}, RecoveryPending,
         ctl' \in [Job -> {"queued", "running", "stop_requested"} \cup Ended],
         received' \in [Job -> SUBSET Piece],
         \A k \in Job \ {main.rec.job} : received'[k] = received[k],
         main.pc = "recover" => received' = received,
         UNCHANGED <<queued, disk, state, work, link, heard, dropped, exposed, torn>>
  PROVE  IInv'
<1>1. PICK j \in Job : j = main.rec.job
  BY DEF IInv, Recovering, Handling
<1>2. main'.pc = "loop" /\ main'.rec = NoState /\ main' \in MainRec
  <2>1. NoState \in Snapshots /\ main \in MainRec
    BY DEF NoState, Snapshots, Ended, IInv, Typed
  <2> QED
    BY <2>1 DEF RecoveryPending, MainRec
<1>3. Typed'
  BY <1>2 DEF IInv, Typed
<1>4. Recovering'
  BY <1>2, Over
<1>5. RecoveryOnly(j)
  BY <1>1, <1>2 DEF RecoveryOnly, NoState, Handling
<1>6. ASSUME j \in Lead \ exposed PROVE heard[j] \subseteq Core(j) /\ (state.job = j => state.status # "uploaded")
  <2>1. CASE main.pc = "resend"
    BY <1>1, <1>6, <2>1 DEF IInv, Recovering, Handling, Resendable
  <2>2. CASE main.pc = "recover"
    <3>1. Sound(main.rec) /\ main.rec.status \notin Ended \cup {"uploaded"}
          /\ (state.job = j => state = main.rec)
      BY <1>1, <1>6, <2>2 DEF IInv, Recovering, Handling
    <3>2. main.rec.status \in {"running", "captured", "upload_pending"}
      BY <3>1 DEF IInv, Typed, MainRec, Snapshots
    <3> QED
      BY <1>1, <3>1, <3>2 DEF Sound, Unsent
  <2> QED
    BY <2>1, <2>2
<1>7. j \in Lead \ exposed => KeptOf(j)'
  BY <1>6 DEF IInv, Kept, KeptOf, Core, Members, Shared
<1>8. j \in Lead \ exposed /\ state'.job = j => Sound(state)'
  BY <1>6 DEF IInv, Recorded, Sound, Unsent, Core
<1> QED
  BY <1>3, <1>4, <1>5, <1>7, <1>8, RecoveryKeeps

\* A recovery that finds nothing to upload.
LEMMA RecoverFailsKeeps ==
  ASSUME IInv, RecoverFails
  PROVE  IInv'
<1>1. /\ main.pc = "recover"
      /\ UNCHANGED <<queued, received, disk, work, link, heard, dropped, exposed, torn>>
  BY DEF RecoverFails, history
<1>2. main.rec.job \in Job /\ Typed /\ main.pc \in Handling
  BY <1>1 DEF IInv, Recovering, Handling
<1>3. CASE Report(main.rec.job, "failed") /\ Recovered("failed")
  <2>1. ctl' \in [Job -> {"queued", "running", "stop_requested"} \cup Ended]
    BY <1>2, <1>3, Reported DEF Ended
  <2> QED
    BY <1>1, <1>2, <1>3, <2>1, RecoveredKeeps DEF Ended
<1>4. CASE RecoveryPending /\ UNCHANGED <<ctl, state>>
  BY <1>1, <1>2, <1>4, PendingKeeps DEF Typed
<1> QED
  BY <1>3, <1>4 DEF RecoverFails

\* A recovery that is done.
LEMMA RecoverCloseKeeps ==
  ASSUME IInv, RecoverClose
  PROVE  IInv'
BY RecoveredKeeps DEF RecoverClose, Handling, Ended, IInv, Typed, history

\* A recovery deletes what it had accepted.
LEMMA RecoverRetainKeeps ==
  ASSUME IInv, RecoverRetain
  PROVE  IInv'
<1>1. /\ main.pc = "retain" /\ main.pc \in Handling
      /\ UNCHANGED <<queued, ctl, received, state, work, link, heard, dropped, exposed, torn>>
      /\ disk' = IF main.rec.retained THEN Retained(main.rec.job, main.rec.master, main.rec.path)
                 ELSE disk
  BY DEF RecoverRetain, history, Handling
<1>2. PICK j \in Job : j = main.rec.job
  BY <1>1 DEF IInv, Recovering
<1>3. main'.pc = "close" /\ main'.rec = main.rec /\ main' \in MainRec
  BY DEF RecoverRetain, IInv, Typed, MainRec
<1>4. /\ disk' \in [Job -> [File -> SUBSET Piece]] /\ \A k \in Job \ {j} : disk'[k] = disk[k]
      /\ \A f \in File : \/ disk'[j][f] = disk[j][f]
                         \/ disk'[j][f] = {} /\ f \in {main.rec.master, main.rec.path}
  BY <1>1, <1>2 DEF Retained, IInv, Typed
<1>5. j \in Lead \/ disk' = disk
  BY <1>1, <1>2 DEF IInv, Recovering, ByMember
<1>6. Typed'
  BY <1>1, <1>3, <1>4 DEF IInv, Typed
<1>7. Recovering'
  <2>1. ByMember(main.rec)' /\ Members(main.rec.job)' = Members(j)
    BY <1>2, <1>3 DEF IInv, Recovering, ByMember, Lead, Members, Shared
  <2>2. \A w \in Worker : Holds(w, main.rec.job)' <=> Holds(w, j)
    BY <1>1, <1>2, <1>3 DEF Holds
  <2> QED
    BY <1>1, <1>2, <1>3, <2>1, <2>2 DEF IInv, Recovering, Handling
<1>8. RecoveryOnly(j)
  BY <1>1, <1>2, <1>3, <1>4, <1>5 DEF RecoveryOnly
<1>9. j \in Lead \ exposed =>
        /\ Sent(main.rec) /\ (state.job = j => state = main.rec)
        /\ main.rec.status = "uploaded"
  BY <1>1, <1>2 DEF IInv, Recovering
<1>10. j \in Lead \ exposed => KeptOf(j)'
  <2> SUFFICES ASSUME j \in Lead \ exposed PROVE KeptOf(j)'
    OBVIOUS
  <2>1. KeptOf(j) /\ Members(j) \subseteq exposed /\ Members(j)' = Members(j)
    BY <1>1, <1>2 DEF IInv, Kept, Recovering, Members, Shared
  <2>2. main.rec.master \in Master /\ main.rec.path \in {main.rec.master, "render"}
        /\ disk[j][main.rec.master] \subseteq received[j]
    BY <1>2, <1>9 DEF Sent
  <2>3. Core(j) \subseteq Core(j)' \cup disk[j][main.rec.master]
    BY <1>4, <1>8, <2>2 DEF RecoveryOnly, Core, File, Master
  <2>4. disk'[j].stitched \subseteq disk[j].stitched /\ disk'[j].raw \subseteq disk[j].raw
    BY <1>4 DEF File
  <2> QED
    BY <1>1, <2>1, <2>2, <2>3, <2>4 DEF KeptOf
<1>11. j \in Lead \ exposed /\ state'.job = j => Sound(state)'
  <2> SUFFICES ASSUME j \in Lead \ exposed, state.job = j PROVE Sound(state)'
    BY <1>1
  <2>1. main.rec.master \in Master /\ main.rec.path \in {main.rec.master, "render"}
        /\ disk[j][main.rec.master] \subseteq received[j]
    BY <1>2, <1>9 DEF Sent
  <2>2. disk'[j][main.rec.master] \subseteq received[j]
    BY <1>4, <2>1 DEF File, Master
  <2> QED
    BY <1>1, <1>2, <1>9, <2>1, <2>2 DEF Sound, Sent
<1> QED
  BY <1>6, <1>7, <1>8, <1>10, <1>11, RecoveryKeeps

\* A recovery sends the output again.
LEMMA RecoverUploadKeeps ==
  ASSUME IInv, RecoverUpload
  PROVE  IInv'
<1>1. /\ main.pc = "resend" /\ main.pc \in Handling
      /\ UNCHANGED <<queued, disk, work, link, heard, dropped, exposed, torn>>
  BY DEF RecoverUpload, history, Handling
<1>2. PICK j \in Job : j = main.rec.job
  BY <1>1 DEF IInv, Recovering
<1>3. main.rec.path \in File /\ Typed /\ main \in MainRec /\ main.rec \in Snapshots
  BY <1>1 DEF IInv, Typed, MainRec
<1> DEFINE audio == disk[j][main.rec.path]
<1>4. ASSUME Attach(j, audio)
      PROVE  /\ ctl' \in [Job -> {"queued", "running", "stop_requested"} \cup Ended]
             /\ received' \in [Job -> SUBSET Piece] /\ received'[j] = audio
             /\ \A k \in Job \ {j} : received'[k] = received[k]
  BY <1>3, <1>4 DEF Attach, Typed, Ended
<1>5. CASE RecoveryPending /\ UNCHANGED <<ctl, received, state>>
  BY <1>1, <1>3, <1>5, PendingKeeps DEF Typed
<1>6. CASE Attach(j, audio) /\ RecoveryPending /\ UNCHANGED state
  BY <1>1, <1>2, <1>4, <1>6, PendingKeeps
<1>7. CASE /\ Attach(j, audio)
           /\ state' = [main.rec EXCEPT !.status = "uploaded"]
           /\ main' = [main EXCEPT !.pc = "retain", !.rec.status = "uploaded"]
  <2>1. /\ state' \in Snapshots /\ state'.job = j /\ state'.status = "uploaded"
        /\ state'.segs = main.rec.segs /\ state'.retained = main.rec.retained
        /\ state'.path = main.rec.path /\ state'.master = main.rec.master
    BY <1>2, <1>3, <1>7 DEF Snapshots
  <2>2. main'.pc = "retain" /\ main'.rec = state' /\ main' \in MainRec
    BY <1>3, <1>7, <2>1 DEF MainRec
  <2>3. Typed'
    BY <1>1, <1>3, <1>4, <1>7, <2>1, <2>2 DEF Typed
  <2>4. ByMember(state)'
    BY <1>2, <2>1 DEF IInv, Recovering, ByMember, Lead
  <2>5. RecoveryOnly(j)
    BY <1>1, <1>2, <1>4, <1>7, <2>1, <2>2, <2>4 DEF RecoveryOnly
  <2>6. j \in Lead \ exposed =>
          /\ heard[j] \subseteq Core(j)
          /\ main.rec.master \in Master /\ main.rec.path \in {main.rec.master, "render"}
          /\ disk[j][main.rec.master] \subseteq disk[j][main.rec.path]
    BY <1>1, <1>2 DEF IInv, Recovering, Resendable
  <2>7. j \in Lead \ exposed => Sent(state)'
    BY <1>1, <1>4, <1>7, <2>1, <2>6 DEF Sent
  <2>8. Recovering'
    <3>1. ByMember(main.rec)' /\ Members(main.rec.job)' = Members(j)
      BY <2>1, <2>2, <2>4 DEF ByMember, Lead, Members, Shared
    <3>2. \A w \in Worker : Holds(w, main.rec.job)' <=> Holds(w, j)
      BY <1>1, <2>1, <2>2 DEF Holds
    <3>3. Members(j) \subseteq exposed /\ (j \notin exposed => \A w \in Worker : ~Holds(w, j))
      BY <1>1, <1>2 DEF IInv, Recovering
    <3>4. j \in Lead \ exposed => Sent(main.rec)'
      BY <2>2, <2>7 DEF Sent
    <3> QED
      BY <1>1, <2>1, <2>2, <3>1, <3>2, <3>3, <3>4 DEF Recovering, Handling, Lead
  <2>9. j \in Lead \ exposed => KeptOf(j)'
    BY <1>1, <2>6 DEF IInv, Kept, KeptOf, Core, Members, Shared
  <2>10. j \in Lead \ exposed => Sound(state)'
    BY <2>1, <2>7 DEF Sound
  <2> QED
    BY <2>3, <2>5, <2>8, <2>9, <2>10, RecoveryKeeps
<1> QED
  BY <1>2, <1>5, <1>6, <1>7 DEF RecoverUpload

\* A recovery stitches first if the segments it knows are still there.  The raw
\* file is filled, so the stitched one is empty and nothing is overwritten.
LEMMA RecoverStitchKeeps ==
  ASSUME IInv, RecoverStitch
  PROVE  IInv'
<1>1. /\ main.pc = "recover" /\ main.pc \in Handling /\ Recoverable(main.rec)
      /\ UNCHANGED <<queued, received, link, heard, dropped, exposed, torn>>
  BY DEF RecoverStitch, history, Handling
<1>2. PICK j \in Job : j = main.rec.job
  BY <1>1 DEF IInv, Recovering
<1> DEFINE rec == main.rec
           needed == rec.segs # {} /\ rec.segs \subseteq disk[j].segment
<1>3. /\ rec.path \in File /\ rec.segs \in SUBSET Piece /\ rec \in Snapshots /\ main \in MainRec /\ Typed
  BY <1>1 DEF Recoverable, IInv, Typed, MainRec, Snapshots
<1>4. /\ Members(j) \subseteq exposed /\ ByMember(rec)
      /\ j \notin exposed => \A w \in Worker : ~Holds(w, j)
  BY <1>1, <1>2 DEF IInv, Recovering
<1>5. j \in Lead \ exposed =>
        /\ Sound(rec) /\ Unsent(rec) /\ (state.job = j => state = rec)
        /\ rec.status # "uploaded" /\ KeptOf(j)
  BY <1>1, <1>2 DEF IInv, Recovering, Recoverable, Sound, Kept
<1>6. CASE needed /\ Report(j, "failed") /\ Recovered("failed") /\ UNCHANGED <<disk, work>>
  <2>1. ctl' \in [Job -> {"queued", "running", "stop_requested"} \cup Ended]
    BY <1>3, <1>6, Reported DEF Ended
  <2> QED
    BY <1>1, <1>6, <2>1, RecoveredKeeps DEF Ended
<1>7. CASE /\ ~needed
           /\ main' = [main EXCEPT !.pc = "resend",
                                   !.rec.master = IF @ = NoFile THEN rec.path ELSE @]
           /\ UNCHANGED <<ctl, disk, state, work>>
  <2>1. /\ main'.pc = "resend" /\ main' \in MainRec /\ main'.rec.job = j /\ main'.rec.path = rec.path
        /\ main'.rec.segs = rec.segs /\ main'.rec.retained = rec.retained
        /\ main'.rec.master = IF rec.master = NoFile THEN rec.path ELSE rec.master
    BY <1>2, <1>3, <1>7 DEF MainRec, Snapshots
  <2>2. Typed'
    BY <1>1, <1>3, <1>7, <2>1 DEF Typed
  <2>3. RecoveryOnly(j)
    BY <1>1, <1>2, <1>7, <2>1 DEF RecoveryOnly
  <2>4. j \in Lead \ exposed => Resendable(main.rec)'
    <3>1. NoFile \notin Master
      BY AgentCaptureAssumption DEF Master, File
    <3>2. j \in Lead \ exposed => heard'[j] \subseteq Core(j)'
      BY <1>1, <1>2, <1>5, <1>7 DEF Unsent, Core
    <3>3. j \in Lead \ exposed /\ rec.status = "upload_pending" => Resendable(main.rec)'
      BY <1>2, <1>5, <1>7, <2>1, <3>1, <3>2 DEF Unsent, Resendable
    <3>4. j \in Lead \ exposed /\ rec.status # "upload_pending" => rec.master = NoFile /\ rec.path = "raw"
      BY <1>1, <1>5 DEF Unsent, Recoverable
    <3> QED
      BY <1>7, <2>1, <3>2, <3>3, <3>4 DEF Resendable, Master
  <2>5. Recovering'
    <3>1. ByMember(main.rec)' /\ Members(main.rec.job)' = Members(j)
      BY <1>2, <1>4, <2>1 DEF ByMember, Lead, Members, Shared
    <3>2. \A w \in Worker : Holds(w, main.rec.job)' <=> Holds(w, j)
      BY <1>7, <2>1 DEF Holds
    <3> QED
      BY <1>1, <1>4, <1>5, <1>7, <2>1, <2>4, <3>1, <3>2 DEF Recovering, Handling, Lead
  <2>6. KeptOf(j)' <=> KeptOf(j)
    BY <1>1, <1>7 DEF KeptOf, Core, Members, Shared
  <2>7. j \in Lead \ exposed /\ state'.job = j => Sound(state)'
    BY <1>1, <1>2, <1>5, <1>7 DEF Sound, Unsent, Sent, Core
  <2> QED
    BY <1>5, <2>2, <2>3, <2>5, <2>6, <2>7, RecoveryKeeps
<1>8. CASE /\ needed
           /\ disk' = StitchedDisk(j, rec.segs, rec.path)
           /\ work' = [w \in Worker |-> IF work[w].pc \in Capturing /\ Primary(w) = j
                                       THEN [work[w] EXCEPT !.linked = FALSE] ELSE work[w]]
           /\ main' = [main EXCEPT !.pc = "resend", !.rec.path = "stitched",
                                   !.rec.master = "stitched"]
           /\ UNCHANGED <<ctl, state>>
  <2>1. /\ main'.pc = "resend" /\ main' \in MainRec /\ main'.rec.job = j
        /\ main'.rec.path = "stitched" /\ main'.rec.master = "stitched"
        /\ main'.rec.segs = rec.segs /\ main'.rec.retained = rec.retained
    BY <1>2, <1>3, <1>8 DEF MainRec, Snapshots, File
  <2>2. disk' \in [Job -> [File -> SUBSET Piece]] /\ \A k \in Job \ {j} : disk'[k] = disk[k]
    BY <1>3, <1>8, StitchTyped
  <2>3. /\ work' \in [Worker -> WorkRec]
        /\ \A w \in Worker :
             /\ work'[w].pc = work[w].pc /\ work'[w].jobs = work[w].jobs
             /\ work'[w].segs = work[w].segs /\ work'[w].path = work[w].path
             /\ work'[w].master = work[w].master
             /\ work[w].pc # "idle" /\ Primary(w) # j => work'[w].linked = work[w].linked
    <3>1. \A w \in Worker : work[w] \in WorkRec
      BY <1>3 DEF Typed
    <3>2. \A w \in Worker : work'[w] \in {work[w], [work[w] EXCEPT !.linked = FALSE]}
                            /\ (Primary(w) # j => work'[w] = work[w])
      BY <1>8
    <3>3. \A w \in Worker : [work[w] EXCEPT !.linked = FALSE] \in WorkRec
      BY <3>1 DEF WorkRec
    <3>4. \A w \in Worker :
            LET r == [work[w] EXCEPT !.linked = FALSE] IN
            /\ r.pc = work[w].pc /\ r.jobs = work[w].jobs /\ r.segs = work[w].segs
            /\ r.path = work[w].path /\ r.master = work[w].master
      BY <3>1 DEF WorkRec
    <3>5. work' \in [Worker -> WorkRec]
      BY <1>8, <3>1, <3>3
    <3> QED
      BY <3>2, <3>4, <3>5
  <2>4. Typed'
    BY <1>1, <1>3, <1>8, <2>1, <2>2, <2>3 DEF Typed, File
  <2>5. j \in Lead
    BY <1>2, <1>4, <1>8 DEF ByMember
  <2>6. RecoveryOnly(j)
    BY <1>1, <1>2, <1>8, <2>1, <2>2, <2>3, <2>5 DEF RecoveryOnly
  <2>7. j \notin exposed => rec.path = "raw" /\ rec.status # "upload_pending" /\ rec.master = NoFile
    <3>1. rec.path # NoFile
      BY <1>1 DEF Recoverable
    <3>2. j \notin exposed => Unsent(rec) /\ (rec.status = "upload_pending" => rec.segs \cap disk[j].segment = {})
      BY <1>2, <1>5, <2>5 DEF Sound
    <3>3. rec.segs \cap disk[j].segment # {}
      BY <1>8
    <3> QED
      BY <1>8, <3>1, <3>2, <3>3 DEF Unsent
  <2>8. j \notin exposed => /\ disk'[j].stitched = rec.segs \cup disk[j].raw
                          /\ disk'[j].segment = disk[j].segment \ rec.segs /\ disk'[j].raw = {}
    BY <1>3, <1>8, <2>7, Stitched DEF File
  <2>9. j \notin exposed => disk[j].stitched = {}
    BY <1>1, <1>2, <1>5, <2>5, <2>7 DEF KeptOf, Recoverable
  <2>10. j \notin exposed => heard'[j] \subseteq Core(j)'
    BY <1>1, <1>2, <1>5, <2>5, <2>8, <2>9 DEF Core, Unsent
  <2>11. j \in Lead \ exposed => Resendable(main.rec)'
    BY <2>1, <2>10 DEF Resendable, Master
  <2>12. Recovering'
    <3>1. ByMember(main.rec)' /\ Members(main.rec.job)' = Members(j)
      BY <1>2, <1>4, <2>1 DEF ByMember, Lead, Members, Shared
    <3>2. \A w \in Worker : Holds(w, main.rec.job)' <=> Holds(w, j)
      BY <2>1, <2>3 DEF Holds
    <3> QED
      BY <1>1, <1>4, <1>5, <1>8, <2>1, <2>11, <3>1, <3>2 DEF Recovering, Handling, Lead
  <2>13. j \in Lead \ exposed => KeptOf(j)'
    <3>1. Members(j)' = Members(j)
      BY DEF Members, Shared
    <3> QED
      BY <1>1, <1>4, <2>8, <2>10, <3>1 DEF KeptOf
  <2>14. j \in Lead \ exposed /\ state'.job = j => Sound(state)'
    BY <1>2, <1>5, <1>8, <2>7, <2>10 DEF Sound, Unsent
  <2> QED
    BY <2>4, <2>6, <2>12, <2>13, <2>14, RecoveryKeeps
<1> QED
  BY <1>2, <1>6, <1>7, <1>8 DEF RecoverStitch

-----------------------------------------------------------------------------
(* The theorems *)

\* Nothing is captured before the agent starts.
THEOREM InitIInv == Init => IInv
<1> SUFFICES ASSUME Init PROVE IInv
  OBVIOUS
<1> USE DEF Init, NoAudio
<1>1. \A w \in Worker : work[w] = Idle /\ ~Busy(w)
  BY DEF Busy, Idle
<1>2. /\ main.rec = NoState /\ main.pc = "boot" /\ NoState.job = NoJob /\ NoState.status = "completed"
      /\ NoJob \notin Job
  BY AgentCaptureAssumption DEF Resting, NoState
<1>3. Typed
  <2>1. Idle \in WorkRec
    BY DEF Idle, WorkRec, Middle, Late
  <2>2. NoState \in Snapshots
    BY DEF NoState, Snapshots, Ended
  <2>3. Resting \in MainRec
    BY <2>2 DEF Resting, MainRec
  <2> QED
    BY <1>2, <2>1, <2>2, <2>3 DEF Typed
<1>4. Fresh
  <2>1. Unclaimed \subseteq Job
    BY Apart DEF Unclaimed, Lead
  <2> QED
    BY <1>2, <2>1 DEF Fresh, Shared, File
<1>5. Crewed /\ Works
  BY <1>1 DEF Crewed, Works
<1>6. Exposure /\ Kept
  BY Apart DEF Exposure, Kept, KeptOf, File
<1>7. Recorded /\ Recovering
  <2>1. Lead \subseteq Job
    BY Apart
  <2> QED
    BY <1>2, <2>1 DEF Recorded, Recovering, ByMember, Handling, Ended
<1> QED
  BY <1>3, <1>4, <1>5, <1>6, <1>7 DEF IInv

\* Every step of the agent, the controller and the environment keeps the
\* inductive invariant.
THEOREM StepIInv == IInv /\ [Next]_vars => IInv'
<1> SUFFICES ASSUME IInv, [Next]_vars PROVE IInv'
  OBVIOUS
<1>1. ASSUME NEW w \in Worker, WorkerStep(w)
      PROVE  IInv'
  <2>1. CASE StartCapture(w) \/ Record(w) \/ Respawn(w) \/ RecordSegments(w)
    BY <2>1, StartCaptureKeeps, RecordKeeps, RespawnKeeps, RecordSegmentsKeeps
  <2>2. CASE StopCapture(w) \/ FinishCapture(w) \/ CaptureFails(w)
    BY <2>2, StopCaptureKeeps, FinishCaptureKeeps, CaptureFailsKeeps
  <2>3. CASE Stitch(w) \/ Render(w) \/ Checkpoint(w)
    BY <2>3, StitchKeeps, RenderKeeps, CheckpointKeeps
  <2>4. CASE Upload(w) \/ RenderMember(w) \/ UploadMember(w) \/ Retain(w)
    BY <2>4, UploadKeeps, RenderMemberKeeps, UploadMemberKeeps, RetainKeeps
  <2> QED
    BY <1>1, <2>1, <2>2, <2>3, <2>4 DEF WorkerStep
<1>2. ASSUME NEW w \in Worker, LoseDevice(w)
      PROVE  IInv'
  BY <1>2, LoseDeviceKeeps
<1>3. ASSUME NEW w \in Worker, NEW s \in Sessions, Claim(w, s)
      PROVE  IInv'
  BY <1>3, ClaimKeeps
<1>4. CASE MainStep
  BY <1>4, BootKeeps, TickKeeps, RecoverStitchKeeps, RecoverUploadKeeps, RecoverRetainKeeps,
     RecoverCloseKeeps, RecoverFailsKeeps DEF MainStep
<1>5. CASE Environment
  BY <1>5, ControllerKeeps, LinkKeeps, CrashKeeps DEF Environment
<1>6. CASE UNCHANGED vars
  <2>1. Typed'
    BY <1>6 DEF IInv, Typed, vars, history
  <2> QED
    BY <1>6, <2>1, Quiet DEF vars, history
<1> QED
  BY <1>1, <1>2, <1>3, <1>4, <1>5, <1>6 DEF Next

\* The inductive invariant holds of every behaviour, whatever crashed or got lost.
THEOREM AgentInvariant == Spec => []IInv
BY InitIInv, StepIInv, PTL DEF Spec

\* The variables of the agent have their types.
THEOREM AgentTypes == Spec => []TypeOK
<1>1. IInv => TypeOK
  BY DEF IInv, Typed, TypeOK, MainRec, Snapshots
<1> QED
  BY <1>1, AgentInvariant, PTL

\* No audio is deleted before the controller has it (apply_recorder_cache_retention
\* and apply_recovered_upload_retention delete last), for the primary and for the
\* members that share its capture, in every interleaving of workers, recovery,
\* crashes and outages.
THEOREM AudioIsKept == Spec => []AudioKept
<1>1. IInv => AudioKept
  <2> SUFFICES ASSUME IInv, NEW s \in Sessions, NEW i \in DOMAIN s, s[i] \notin exposed
               PROVE  heard[s[1]] \subseteq received[s[i]] \cup Files(s[i]) \cup Files(s[1])
                                            \cup dropped[s[1]]
    BY DEF AudioKept
  <2>1. s[1] \in Lead /\ s[i] \in Shared(s[1]) /\ KeptOf(s[1])
    <3>1. s \in Seq(Job)
      BY AgentCaptureAssumption
    <3>2. s[i] \in Job
      BY <3>1
    <3> QED
      BY <3>2 DEF Lead, Shared, IInv, Kept
  <2>2. Core(s[1]) \subseteq Files(s[1]) \cup dropped[s[1]]
    BY DEF Core, Files, File
  <2>3. CASE s[i] = s[1]
    BY <2>1, <2>2, <2>3 DEF KeptOf
  <2>4. CASE s[i] # s[1]
    <3>1. disk[s[i]].render \subseteq Files(s[i])
      BY DEF Files, File
    <3>2. s[i] \in Members(s[1])
      BY <2>1, <2>4 DEF Members
    <3> QED
      BY <2>1, <2>2, <3>1, <3>2 DEF KeptOf
  <2> QED
    BY <2>3, <2>4
<1> QED
  BY <1>1, AgentInvariant, PTL

-----------------------------------------------------------------------------
(* The start of a recording: definitions *)

\* An earlier piece is there whenever a later one is, but for those that a loss dropped.
Gapless(S, D) == \A x \in S : 1..x \subseteq S \cup D

\* Pieces are captured in order, and a primary's files hold nothing else.
Captured ==
  \A p \in Lead : /\ \E n \in 0..Pieces : heard[p] = 1..n
                  /\ \A f \in File : disk[p][f] \subseteq heard[p]

\* The primaries of which a recovery knows everything.
Known == Lead \ (exposed \cup torn)

\* What the controller has, and what is rendered for the members, has its start.
Delivers ==
  \A p \in Known :
    /\ Gapless(received[p], dropped[p])
    /\ \A m \in Members(p) \ exposed : Gapless(received[m], dropped[p]) /\ Gapless(disk[m].render, dropped[p])

\* A worker remembers every segment until it stitches them; then its master has
\* everything that was captured and not dropped.  While it captures, and when a loss
\* left the capture where it was, its record names them all.
Remembers(w) ==
  /\ work[w].pc = "claimed" => work[w].segs = {}
  /\ work[w].pc \in Early => work[w].segs = disk[Primary(w)].segment
  /\ work[w].pc \notin Early =>
       heard[Primary(w)] \subseteq disk[Primary(w)][work[w].master] \cup dropped[Primary(w)]
  /\ work[w].pc \in {"capturing", "captured"} /\ state.job = Primary(w) /\ state.path = "raw" =>
       state.segs = work[w].segs
  /\ /\ work[w].pc = "lost" /\ disk[Primary(w)].raw # {}
     /\ state.job = Primary(w) /\ state.path = "raw"
     => state.segs = work[w].segs
Remembering == \A w \in Worker : Busy(w) /\ Primary(w) \in Known => Remembers(w)

\* A record from which a recovery gets everything that was captured: it names every
\* segment as long as the raw file may be recovered, or a file with all of it.
Whole(rec) ==
  /\ rec.status \in {"running", "captured"} /\ rec.path = "raw" /\ disk[rec.job].raw # {} =>
       rec.segs = disk[rec.job].segment
  /\ rec.status = "upload_pending" =>
       heard[rec.job] \subseteq disk[rec.job][rec.path] \cup dropped[rec.job]

\* A worker that lost its device has a segment the state file does not name yet.
Ahead(p) == \E w \in Worker : work[w].pc \in {"lost", "restarted"} /\ Primary(w) = p
StateWhole == state.job \in Known /\ ~Ahead(state.job) => Whole(state)

\* A record of a member names no file of the primary.
OfMember(rec) == rec.job \in Job \ Lead => rec.path \in {"render", NoFile}

RecoveryWhole ==
  main.rec.job \in Known =>
    /\ main.pc = "recover" => Whole(main.rec)
    /\ main.pc = "resend" =>
         heard[main.rec.job] \subseteq disk[main.rec.job][main.rec.path] \cup dropped[main.rec.job]

SInv == /\ Captured /\ Delivers /\ Remembering /\ StateWhole /\ RecoveryWhole
        /\ OfMember(state) /\ OfMember(main.rec)
-----------------------------------------------------------------------------
(* What was captured *)

\* The files by name.
LEMMA FileIs == File = {"raw", "segment", "stitched", "render"} /\ Master \subseteq File
BY DEF File, Master

\* The steps that touch a file.
LEMMA DiskSteps ==
  ASSUME [Next]_vars
  PROVE  \/ UNCHANGED <<heard, disk>>
         \/ \E w \in Worker : \/ StartCapture(w) \/ Record(w) \/ LoseDevice(w) \/ Respawn(w)
                              \/ Stitch(w) \/ Render(w) \/ RenderMember(w) \/ Retain(w)
         \/ RecoverStitch \/ RecoverRetain
<1>1. ASSUME NEW w \in Worker, WorkerStep(w)
      PROVE  \/ UNCHANGED <<heard, disk>>
             \/ StartCapture(w) \/ Record(w) \/ Respawn(w)
             \/ Stitch(w) \/ Render(w) \/ RenderMember(w) \/ Retain(w)
  BY <1>1 DEF WorkerStep, RecordSegments, StopCapture, FinishCapture,
     CaptureFails, Checkpoint, Upload, UploadMember, history
<1>2. ASSUME NEW w \in Worker, NEW s \in Sessions, Claim(w, s)
      PROVE  UNCHANGED <<heard, disk>>
  BY <1>2 DEF Claim, history
<1>3. CASE MainStep
  BY <1>3 DEF MainStep, Boot, Tick, RecoverUpload, RecoverClose, RecoverFails, history
<1>4. CASE Environment \/ UNCHANGED vars
  BY <1>4 DEF Environment, Expire, RequestStop, LinkFails, LinkReturns, Crash, history, vars
<1> QED
  BY <1>1, <1>2, <1>3, <1>4 DEF Next

\* A step that moves what is in the files of the primaries.
LEMMA Mixes ==
  ASSUME Captured, heard' = heard,
         \A q \in Lead : \A f \in File : \A x \in disk'[q][f] : \E g \in File : x \in disk[q][g]
  PROVE  Captured'
BY DEF Captured, Lead

\* Pieces are captured in order, and only stitched, rendered and deleted from then on.
LEMMA CapturedStep ==
  ASSUME IInv, Captured, [Next]_vars
  PROVE  Captured'
<1>1. Typed /\ Lead \subseteq Job /\ File = {"raw", "segment", "stitched", "render"}
  BY Apart, FileIs DEF IInv
<1>2. CASE UNCHANGED <<heard, disk>>
  BY <1>2 DEF Captured, Lead
<1>3. ASSUME NEW w \in Worker, Record(w)
      PROVE  Captured'
  <2>1. PICK p \in Lead : p = Primary(w)
    BY <1>3, Lane DEF Record, Busy, IInv
  <2>2. PICK n \in 0..Pieces : heard[p] = 1..n
    BY DEF Captured
  <2>3. Cardinality(heard[p]) = n /\ n \in Nat /\ Pieces \in Nat
    BY <2>2, FS_Interval, AgentCaptureAssumption
  <2>4. n + 1 \in 0..Pieces /\ heard' = [heard EXCEPT ![p] = @ \cup {n + 1}]
        /\ disk' \in {disk, [disk EXCEPT ![p].raw = @ \cup {n + 1}]}
    BY <1>3, <2>1, <2>3 DEF Record
  <2>5. heard'[p] = 1..(n + 1) /\ heard[p] \subseteq heard'[p] /\ n + 1 \in heard'[p]
    <3>1. heard'[p] = heard[p] \cup {n + 1}
      BY <1>1, <2>4 DEF Typed
    <3>2. (1..n) \cup {n + 1} = 1..(n + 1)
      BY <2>3
    <3> QED
      BY <2>2, <2>3, <3>1, <3>2
  <2>6. \A f \in File : disk'[p][f] \subseteq heard'[p]
    BY <1>1, <2>4, <2>5 DEF Captured, Typed
  <2>7. \A q \in Lead \ {p} : heard'[q] = heard[q] /\ disk'[q] = disk[q]
    BY <1>1, <2>4 DEF Typed
  <2> QED
    BY <2>4, <2>5, <2>6, <2>7 DEF Captured, Lead
<1>4. ASSUME NEW w \in Worker, LoseDevice(w) \/ Respawn(w) \/ Stitch(w) \/ Render(w) \/ Retain(w)
      PROVE  Captured'
  <2>1. PICK p \in Lead : p = Primary(w)
    BY <1>4, Lane DEF LoseDevice, Respawn, Stitch, Render, Retain, Busy, IInv
  <2>2. heard' = heard
    BY <1>4 DEF LoseDevice, Respawn, Stitch, Render, Retain, history
  <2>3. \A q \in Lead \ {p} : disk'[q] = disk[q]
    <3>1. CASE LoseDevice(w) \/ Respawn(w)
      BY <1>1, <2>1, <3>1 DEF LoseDevice, Respawn, Discard, Typed
    <3> QED
      BY <1>1, <1>4, <2>1, <3>1 DEF Stitch, Render, Retain, StitchedDisk, Retained, Typed
  <2>4. \A f \in File : \A x \in disk'[p][f] : \E g \in File : x \in disk[p][g]
    <3>1. CASE LoseDevice(w)
      BY <1>1, <2>1, <3>1 DEF LoseDevice, Typed
    <3>2. CASE Stitch(w)
      <4>1. \/ /\ work[w].segs \subseteq disk[p].segment
               /\ disk' = StitchedDisk(p, work[w].segs, "raw")
            \/ disk' = disk
        BY <2>1, <3>2 DEF Stitch, Stitchable
      <4> QED
        BY <1>1, <4>1 DEF StitchedDisk, Typed
    <3>3. CASE Render(w)
      <4>1. work[w].master \in File
        BY <3>3, FileIs DEF Render, Typed, WorkRec, IInv, Middle
      <4> QED
        BY <1>1, <2>1, <3>3, <4>1 DEF Render, Typed
    <3>4. CASE Retain(w)
      BY <1>1, <2>1, <3>4 DEF Retain, Retained, Typed
    <3>5. CASE Respawn(w)
      BY <1>1, <2>1, <3>5 DEF Respawn, Discard, Typed
    <3> QED
      BY <1>4, <3>1, <3>2, <3>3, <3>4, <3>5
  <2> QED
    BY <2>2, <2>3, <2>4, Mixes
<1>5. ASSUME NEW w \in Worker, RenderMember(w)
      PROVE  Captured'
  <2>1. NextMember(w) \in Job \ Lead
    <3>1. Busy(w) /\ Len(work[w].jobs) > 1 /\ work[w].jobs \in Seq(Job)
      BY <1>1, <1>5 DEF RenderMember, Busy, Typed, WorkRec
    <3>2. NextMember(w) \in Members(Primary(w)) /\ Primary(w) \in Lead
      BY <3>1, Lane DEF NextMember, Rest, IInv
    <3> QED
      BY <3>2, Apart DEF Members
  <2>2. heard' = heard /\ \A q \in Lead : disk'[q] = disk[q]
    BY <1>1, <1>5, <2>1 DEF RenderMember, Typed
  <2> QED
    BY <2>2, Mixes
<1>6. CASE RecoverStitch
  <2>1. heard' = heard /\ ((main.rec.job \in Job /\ main.rec.path \in File) \/ disk' = disk)
    BY <1>6 DEF RecoverStitch, Recoverable, IInv, Recovering, Handling, Typed, MainRec, Snapshots, history
  <2>2. \/ disk' = disk
        \/ disk' = StitchedDisk(main.rec.job, main.rec.segs, main.rec.path)
           /\ main.rec.segs \subseteq disk[main.rec.job].segment
    BY <1>6 DEF RecoverStitch
  <2>3. ASSUME NEW q \in Lead, NEW f \in File, NEW x \in disk'[q][f]
        PROVE  \E g \in File : x \in disk[q][g]
    <3>1. CASE q # main.rec.job \/ disk' = disk
      BY <1>1, <2>1, <2>2, <2>3, <3>1 DEF StitchedDisk, Typed
    <3>2. CASE q = main.rec.job /\ disk' # disk
      <4>1. disk'[q] = StitchedDisk(q, main.rec.segs, main.rec.path)[q]
            /\ main.rec.segs \subseteq disk[q].segment
            /\ main.rec.path \in File
        BY <2>1, <2>2, <3>2
      <4> DEFINE segs == main.rec.segs
                 path == main.rec.path
                 d == disk[q]
      <4>2. d \in [File -> SUBSET Piece]
            /\ disk'[q] = [d EXCEPT !.stitched = segs \cup d[path], !.segment = @ \ segs,
                                    ![path] = {}]
        BY <1>1, <4>1 DEF StitchedDisk, Typed
      <4> HIDE DEF d
      <4>3. \/ x \in d[f]
            \/ f = "stitched" /\ x \in segs \cup d[path]
        BY <1>1, <2>3, <4>2
      <4>4. x \in d[f] \/ x \in d.segment \/ x \in d[path]
        BY <4>1, <4>3 DEF d
      <4> QED
        BY <1>1, <4>1, <4>4 DEF d
    <3> QED
      BY <3>1, <3>2
  <2> QED
    BY <2>1, <2>3, Mixes
<1>7. CASE RecoverRetain
  <2>1. heard' = heard /\ main.rec.job \in Job
    BY <1>7 DEF RecoverRetain, IInv, Recovering, Handling, history
  <2>2. disk' \in {disk, Retained(main.rec.job, main.rec.master, main.rec.path)}
    BY <1>7 DEF RecoverRetain
  <2>3. \A q \in Lead : \A f \in File : disk'[q][f] \subseteq disk[q][f]
    BY <1>1, <2>1, <2>2 DEF Retained, Typed
  <2> QED
    BY <2>1, <2>3, Mixes
<1>8. ASSUME NEW w \in Worker, StartCapture(w)
      PROVE  Captured'
  <2>1. PICK p \in Lead : p = Primary(w)
    BY <1>8, Lane DEF StartCapture, Busy, IInv
  <2>2. heard' = heard /\ (disk' = disk \/ Overwrite(p))
    BY <1>8, <2>1 DEF StartCapture
  <2>3. \A q \in Lead : disk'[q] = disk[q] \/ disk'[q] = NoAudio
    BY <1>1, <2>2, Overwritten
  <2> QED
    BY <2>2, <2>3, Mixes DEF NoAudio
<1> QED
  BY <1>2, <1>3, <1>4, <1>5, <1>6, <1>7, <1>8, DiskSteps

-----------------------------------------------------------------------------
(* A worker's step and the start of its recording *)

\* What the steps of a worker have in common: they touch its session, and files
\* that are exposed.
SessionOnly(w) ==
  LET p == Primary(w) IN
  /\ torn' = torn /\ main' = main
  /\ \A v \in Worker \ {w} : work'[v] = work[v]
  /\ \A j \in Job \ Shared(p) :
       /\ heard'[j] = heard[j] /\ dropped'[j] = dropped[j] /\ received'[j] = received[j]
       /\ disk'[j] = disk[j] \/ j \in exposed'
  /\ state' = state \/ state'.job \in Shared(p)
  /\ exposed \subseteq exposed'

\* What the controller and the members have of one primary.
DeliversOf(p) ==
  /\ Gapless(received[p], dropped[p])
  /\ \A m \in Members(p) \ exposed : Gapless(received[m], dropped[p]) /\ Gapless(disk[m].render, dropped[p])

\* What is left to show of a worker's step is about its own session.
LEMMA SessionKeeps ==
  ASSUME IInv, SInv, NEW w \in Worker, Busy(w), SessionOnly(w), Captured',
         NEW p, p = Primary(w), Busy(w)' => Primary(w)' = p,
         p \in Known => DeliversOf(p)',
         p \in Known /\ Busy(w)' => Remembers(w)',
         p \in Known /\ state'.job = p /\ work'[w].pc \notin {"lost", "restarted"} => Whole(state)',
         state' = state \/ OfMember(state)'
  PROVE  SInv'
<1>1. p \in Lead /\ p \in Job /\ p \in Shared(p) /\ Shared(p) \subseteq Job /\ Members(p) \cap Lead = {}
  BY Lane, Apart DEF IInv
<1>2. Known' \subseteq Known /\ Lead' = Lead /\ Known' \cap exposed' = {}
  BY <1>1 DEF Known, SessionOnly, Lead
<1>3. \A q \in Lead \ {p} : q \in Job \ Shared(p) /\ Members(q) \subseteq Job \ Shared(p)
  BY <1>1, Apart DEF Members
<1>4. \A q \in Lead \ {p} : \A j \in {q} \cup Members(q) :
        /\ heard'[j] = heard[j] /\ dropped'[j] = dropped[j] /\ received'[j] = received[j]
        /\ j \notin exposed' => j \notin exposed /\ disk'[j] = disk[j]
  BY <1>3 DEF SessionOnly, Members
<1>5. \A v \in Worker \ {w} : Busy(v) => Primary(v) \in Lead \ {p}
  BY Lane DEF IInv, Crewed
<1>6. \A v \in Worker \ {w} : work'[v] = work[v] /\ Primary(v)' = Primary(v) /\ Busy(v)' = Busy(v)
  BY DEF SessionOnly, Primary, Busy
<1>7. Delivers'
  <2>1. ASSUME NEW q \in Known' \ {p} PROVE DeliversOf(q)'
    <3>1. DeliversOf(q) /\ q \in Lead \ {p} /\ Members(q)' = Members(q)
      BY <1>2 DEF SInv, Delivers, DeliversOf, Known, Members, Shared
    <3> QED
      BY <1>4, <2>1, <3>1 DEF DeliversOf
  <2> QED
    BY <1>2, <2>1 DEF Delivers, DeliversOf, Members, Shared
<1>8. Remembering'
  <2>1. ASSUME NEW v \in Worker \ {w}, Busy(v)', Primary(v)' \in Known'
        PROVE  Remembers(v)'
    <3>1. Remembers(v) /\ Primary(v) \in Lead \ {p} /\ Primary(v) \notin exposed'
      BY <1>2, <1>5, <1>6, <2>1 DEF SInv, Remembering
    <3>2. state'.job = Primary(v) => state' = state
      BY <1>3, <3>1 DEF SessionOnly
    <3> QED
      BY <1>4, <1>6, <3>1, <3>2 DEF Remembers
  <2> QED
    BY <1>2, <2>1 DEF Remembering
<1>9. StateWhole'
  <2> SUFFICES ASSUME state'.job \in Known', ~Ahead(state.job)'
               PROVE  Whole(state)'
    BY DEF StateWhole
  <2>1. CASE state'.job = p
    <3>1. work'[w].pc \notin {"lost", "restarted"}
      BY <2>1 DEF Ahead, Busy
    <3> QED
      BY <1>2, <2>1, <3>1
  <2>2. CASE state'.job # p
    <3>1. state' = state /\ state.job \in Lead \ {p} /\ state.job \in Known /\ state.job \notin exposed'
      BY <1>2, <1>3, <2>2 DEF SessionOnly, Known
    <3>2. ~Ahead(state.job)
      BY <1>6, <3>1 DEF Ahead
    <3>3. Whole(state)
      BY <3>1, <3>2 DEF SInv, StateWhole
    <3> QED
      BY <1>4, <3>1, <3>3 DEF Whole
  <2> QED
    BY <2>1, <2>2
<1>10. RecoveryWhole'
  <2>1. main' = main
    BY DEF SessionOnly
  <2> SUFFICES ASSUME main.rec.job \in Known', main.pc \in {"recover", "resend"}
               PROVE  /\ main.pc = "recover" => Whole(main.rec)'
                      /\ main.pc = "resend" =>
                           heard'[main.rec.job] \subseteq disk'[main.rec.job][main.rec.path]
                                                        \cup dropped'[main.rec.job]
    BY <2>1 DEF RecoveryWhole
  <2>2. main.rec.job # p
    <3>1. Holds(w, p) /\ p \in Rest(w) \cup {p}
      BY <1>1, Lane DEF IInv
    <3> QED
      BY <1>2, <3>1 DEF IInv, Recovering, Handling, Known
  <2>3. main.rec.job \in Lead \ {p} /\ main.rec.job \in Known /\ main.rec.job \notin exposed'
    BY <1>2, <2>2 DEF Known
  <2>4. RecoveryWhole
    BY DEF SInv
  <2> QED
    BY <1>4, <2>1, <2>3, <2>4 DEF RecoveryWhole, Whole
<1>11. OfMember(state)' /\ OfMember(main.rec)'
  BY <1>2 DEF OfMember, SInv, SessionOnly
<1> QED
  BY <1>7, <1>8, <1>9, <1>10, <1>11 DEF SInv

-----------------------------------------------------------------------------
(* The steps of a worker *)

\* What is known of a worker whose primary is known.
LEMMA Knows ==
  ASSUME IInv, SInv, NEW w \in Worker, Busy(w), NEW p \in Known, p = Primary(w)
  PROVE  /\ p \in Job /\ p \in Lead /\ p \in Shared(p)
         /\ Working(w) /\ Remembers(w) /\ DeliversOf(p) /\ KeptOf(p)
         /\ Gapless(heard[p], dropped[p]) /\ \A f \in File : disk[p][f] \subseteq heard[p]
<1>1. p \in Lead /\ p \notin exposed /\ p \in Job /\ p \in Shared(p)
  BY Apart DEF Known
<1>2. Working(w) /\ Remembers(w) /\ DeliversOf(p) /\ KeptOf(p)
  BY <1>1 DEF IInv, Works, Kept, SInv, Remembering, Delivers, DeliversOf
<1>3. PICK n \in 0..Pieces : heard[p] = 1..n
  BY <1>1 DEF SInv, Captured
<1>4. Gapless(heard[p], dropped[p])
  BY <1>3 DEF Gapless
<1> QED
  BY <1>1, <1>2, <1>4 DEF SInv, Captured

\* A file that holds all of what was captured but what was dropped has the start of it.
LEMMA Full ==
  ASSUME NEW S, NEW D, NEW H, S \subseteq H, H \subseteq S \cup D, Gapless(H, D)
  PROVE  Gapless(S, D)
BY DEF Gapless

\* A worker's step that touches none of its files.
LEMMA Untouched ==
  ASSUME IInv, SInv, NEW w \in Worker, Busy(w), NEW p, p = Primary(w), SessionOnly(w),
         UNCHANGED <<heard, dropped, disk, received, exposed>>,
         Busy(w)' => Primary(w)' = p,
         p \in Known /\ Busy(w)' => Remembers(w)',
         p \in Known /\ state'.job = p /\ work'[w].pc \notin {"lost", "restarted"} => Whole(state)',
         state' = state \/ OfMember(state)'
  PROVE  SInv'
<1>1. Captured'
  BY DEF SInv, Captured, Lead
<1>2. p \in Known => DeliversOf(p)'
  BY Knows DEF DeliversOf, Members, Shared
<1> QED
  BY <1>1, <1>2, SessionKeeps

\* The job of the worker is over.
LEMMA GaveUp ==
  ASSUME IInv, SInv, NEW w \in Worker, Busy(w), Return(w),
         UNCHANGED <<received, disk, main, heard, dropped, exposed, torn>>,
         \/ state' = state /\ work[w].pc \notin {"lost", "restarted"}
         \/ state'.job = Primary(w) /\ state'.status \in Ended
  PROVE  SInv'
<1> DEFINE p == Primary(w)
<1>1. p \in Lead /\ p \in Shared(p) /\ Typed
  BY Lane, Apart DEF IInv
<1>2. ~Busy(w)' /\ \A v \in Worker \ {w} : work'[v] = work[v]
  BY <1>1, Returned
<1>3. SessionOnly(w)
  BY <1>1, <1>2 DEF SessionOnly
<1>4. ASSUME p \in Known, state'.job = p
      PROVE  Whole(state)'
  <2>1. CASE state' = state /\ work[w].pc \notin {"lost", "restarted"}
    <3>1. ~Ahead(p)
      BY <1>1, <2>1, Lane DEF Ahead, Busy, IInv, Crewed
    <3> QED
      BY <1>4, <2>1, <3>1 DEF SInv, StateWhole, Whole
  <2>2. CASE state'.status \in Ended
    BY <2>2 DEF Whole, Ended
  <2> QED
    BY <2>1, <2>2
<1>5. state' = state \/ OfMember(state)'
  BY <1>1 DEF OfMember, Lead
<1> QED
  BY <1>2, <1>3, <1>4, <1>5, Untouched

\* A capture starts with no segment, and says so.
LEMMA StartWhole ==
  ASSUME IInv, SInv, NEW w \in Worker, StartCapture(w), Captured'
  PROVE  SInv'
<1>1. Busy(w) /\ Typed
  BY DEF StartCapture, Busy, IInv
<1>2. PICK p \in Lead : p = Primary(w) /\ p \in Shared(p) /\ p \in Job
  BY <1>1, Lane DEF IInv
<1>3. CASE GiveUp(w, NoFile) /\ UNCHANGED <<disk, exposed>>
  BY <1>1, <1>3, GaveUp DEF StartCapture, GiveUp, Plain, Snapshot, Ended
<1>4. CASE Go(w, "capturing") /\ Overwrite(p)
           /\ state' = Snapshot(p, "running", "raw", NoFile, {}, FALSE)
  <2>a. UNCHANGED <<received, main, heard, dropped, torn>>
    BY DEF StartCapture
  <2>b. /\ \A j \in Shared(p) : disk'[j] = disk[j]
        /\ \A j \in Job : disk'[j] = disk[j] \/ (j \in exposed' /\ disk'[j] = NoAudio)
        /\ exposed \subseteq exposed'
    BY <1>1, <1>2, <1>4, Overwritten
  <2>1. /\ work'[w].pc = "capturing" /\ work'[w].jobs = work[w].jobs /\ work'[w].segs = work[w].segs
        /\ \A v \in Worker \ {w} : work'[v] = work[v]
    BY <1>1, <1>4, Went DEF Early
  <2>2. state'.job = p /\ state'.status = "running" /\ state'.path = "raw" /\ state'.segs = {}
    BY <1>4 DEF Snapshot
  <2>3. SessionOnly(w) /\ Primary(w)' = p
    BY <1>2, <2>1, <2>2, <2>a, <2>b DEF SessionOnly, Primary
  <2>4. ASSUME p \in Known PROVE Remembers(w)' /\ Whole(state)' /\ DeliversOf(p)'
    <3>1. work[w].segs = {} /\ work[w].segs = disk[p].segment /\ DeliversOf(p)
      BY <1>1, <1>2, <2>4, Knows DEF Remembers, StartCapture, Early
    <3>2. disk'[p] = disk[p] /\ \A m \in Members(p) : disk'[m] = disk[m]
      BY <1>2, <2>b DEF Members
    <3>3. Remembers(w)' /\ Whole(state)'
      BY <2>1, <2>2, <2>3, <3>1, <3>2 DEF Remembers, Whole, Early
    <3>4. DeliversOf(p)'
      BY <2>a, <2>b, <3>1, <3>2 DEF DeliversOf, Members, Shared
    <3> QED
      BY <3>3, <3>4
  <2>5. OfMember(state)'
    BY <2>2 DEF OfMember, Lead
  <2> QED
    BY <1>1, <1>2, <2>3, <2>4, <2>5, SessionKeeps
<1> QED
  BY <1>2, <1>3, <1>4 DEF StartCapture

\* A piece goes to the raw file: the segments, and what names them, stay.
LEMMA RecordWhole ==
  ASSUME IInv, SInv, NEW w \in Worker, Record(w), Captured'
  PROVE  SInv'
<1>1. Busy(w) /\ Typed /\ work[w].pc \in {"capturing", "restarted"}
  BY DEF Record, Busy, IInv
<1>2. PICK p \in Lead : p = Primary(w) /\ p \in Shared(p) /\ p \in Job
  BY <1>1, Lane DEF IInv
<1>3. UNCHANGED <<received, state, work, main, dropped, exposed, torn>>
  BY DEF Record
<1>4. \A j \in Job \ {p} : heard'[j] = heard[j] /\ dropped'[j] = dropped[j] /\ disk'[j] = disk[j]
  BY <1>1, <1>2, <1>3 DEF Record, Typed
<1>5. SessionOnly(w) /\ Primary(w)' = p
  BY <1>2, <1>3, <1>4 DEF SessionOnly, Primary
<1>6. disk'[p].segment = disk[p].segment
  BY <1>1, <1>2 DEF Record, Typed, File
<1>7. ASSUME p \in Known
      PROVE  /\ DeliversOf(p)' /\ Remembers(w)'
             /\ state'.job = p /\ work'[w].pc \notin {"lost", "restarted"} => Whole(state)'
  <2>1. Working(w) /\ Remembers(w) /\ DeliversOf(p)
    BY <1>1, <1>2, <1>7, Knows
  <2>2. \A m \in Members(p) : m \in Job \ {p}
    BY <1>2, Apart DEF Members
  <2>3. DeliversOf(p)'
    BY <1>3, <1>4, <2>1, <2>2 DEF DeliversOf, Members, Shared
  <2>4. Remembers(w)'
    BY <1>1, <1>2, <1>3, <1>5, <1>6, <2>1 DEF Remembers, Early
  <2>5. state.job = p /\ work[w].pc = "capturing" => Whole(state)'
    BY <1>2, <1>3, <1>6, <2>1 DEF Remembers, Working, Whole, Early
  <2> QED
    BY <1>1, <1>3, <2>3, <2>4, <2>5
<1> QED
  BY <1>1, <1>2, <1>3, <1>5, <1>7, SessionKeeps

\* The raw file becomes a segment that the worker remembers, and the state file is
\* behind; or it stays.
LEMMA LoseDeviceWhole ==
  ASSUME IInv, SInv, NEW w \in Worker, LoseDevice(w), Captured'
  PROVE  SInv'
<1>1. Busy(w) /\ Typed
  BY DEF LoseDevice, Busy, IInv
<1>2. PICK p \in Lead : p = Primary(w) /\ p \in Shared(p) /\ p \in Job
  BY <1>1, Lane DEF IInv
<1>3. UNCHANGED <<received, state, main, heard, dropped, exposed, torn>>
  BY DEF LoseDevice, history
<1>4. PICK segs \in {{}, disk[p].raw} :
        /\ work' = [work EXCEPT ![w].pc = "lost", ![w].linked = TRUE, ![w].segs = @ \cup segs]
        /\ \/ /\ segs = disk[p].raw
              /\ disk' = [disk EXCEPT ![p].segment = @ \cup disk[p].raw, ![p].raw = {}]
           \/ segs = {} /\ disk' = disk
  BY <1>2 DEF LoseDevice
<1>5. /\ \A j \in Job \ {p} : disk'[j] = disk[j]
      /\ disk'[p].segment = disk[p].segment \cup segs
      /\ disk'[p].raw = {} \/ (segs = {} /\ disk'[p].raw = disk[p].raw)
  BY <1>1, <1>2, <1>4 DEF Typed, File
<1>6. /\ work'[w].pc = "lost" /\ work'[w].segs = work[w].segs \cup segs
      /\ work'[w].jobs = work[w].jobs /\ \A v \in Worker \ {w} : work'[v] = work[v]
  BY <1>1, <1>4 DEF Typed, WorkRec
<1>7. SessionOnly(w) /\ Primary(w)' = p
  BY <1>2, <1>3, <1>5, <1>6 DEF SessionOnly, Primary
<1>8. ASSUME p \in Known
      PROVE  DeliversOf(p)' /\ Remembers(w)'
  <2>1. Remembers(w) /\ DeliversOf(p)
    BY <1>1, <1>2, <1>8, Knows
  <2>2. \A m \in Members(p) : m \in Job \ {p}
    BY <1>2, Apart DEF Members
  <2>3. DeliversOf(p)'
    BY <1>3, <1>5, <2>1, <2>2 DEF DeliversOf, Members, Shared
  <2>4. work[w].segs = disk[p].segment
    BY <1>2, <2>1 DEF Remembers, LoseDevice, Early
  <2>5. Remembers(w)'
    <3>1. disk'[p].raw # {} /\ state.job = p /\ state.path = "raw" => state.segs = work'[w].segs
      BY <1>2, <1>5, <1>6, <2>1 DEF Remembers, LoseDevice
    <3> QED
      BY <1>3, <1>5, <1>6, <1>7, <2>4, <3>1 DEF Remembers, Early
  <2> QED
    BY <2>3, <2>5
<1> QED
  BY <1>1, <1>2, <1>3, <1>6, <1>7, <1>8, SessionKeeps

\* Respawning, and the steps that end the capture.
LEMMA RespawnWhole ==
  ASSUME IInv, SInv, NEW w \in Worker, Respawn(w), Captured'
  PROVE  SInv'
<1>1. Busy(w) /\ Typed /\ work[w].pc = "lost"
  BY DEF Respawn, Busy, IInv
<1>2. PICK p \in Lead : p = Primary(w) /\ p \in Shared(p) /\ p \in Job
  BY <1>1, Lane DEF IInv
<1>3. UNCHANGED <<received, main, heard, exposed, torn>>
  BY DEF Respawn
<1>4. /\ \A j \in Job \ {p} : disk'[j] = disk[j] /\ dropped'[j] = dropped[j]
      /\ \A f \in File \ {"raw"} : disk'[p][f] = disk[p][f]
      /\ disk'[p].raw \in {disk[p].raw, {}} /\ dropped[p] \subseteq dropped'[p]
  <2>1. Discard(p) \/ UNCHANGED <<disk, dropped>>
    BY <1>2 DEF Respawn
  <2> QED
    BY <1>1, <1>2, <2>1 DEF Discard, Typed, File
<1>5. /\ \A v \in Worker \ {w} : work'[v] = work[v]
      /\ \/ ~Busy(w)' /\ (state' = state \/ (state'.job = p /\ state'.status \in Ended))
         \/ /\ work'[w].pc = "restarted" /\ work'[w].jobs = work[w].jobs
            /\ work'[w].segs = work[w].segs /\ state' = state
  <2>1. CASE Return(w) /\ (state' = state \/ state' = Plain(p, "failed", NoFile))
    BY <1>1, <2>1, Returned DEF Plain, Snapshot, Ended
  <2>2. CASE Go(w, "restarted") /\ state' = state
    BY <1>1, <2>2, Went DEF Early
  <2> QED
    BY <1>2, <2>1, <2>2 DEF Respawn, GiveUp
<1>6. SessionOnly(w) /\ (Busy(w)' => Primary(w)' = p)
  BY <1>2, <1>3, <1>4, <1>5 DEF SessionOnly, Primary
<1>7. ASSUME p \in Known
      PROVE  /\ DeliversOf(p)' /\ (Busy(w)' => Remembers(w)')
             /\ state'.job = p /\ work'[w].pc \notin {"lost", "restarted"} => Whole(state)'
  <2>1. /\ Working(w) /\ Remembers(w) /\ DeliversOf(p) /\ \A m \in Members(p) : m \in Job \ {p}
    BY <1>1, <1>2, <1>7, Knows, Apart DEF Members
  <2>2. \A S : Gapless(S, dropped[p]) => Gapless(S, dropped'[p])
    BY <1>4 DEF Gapless
  <2>3. DeliversOf(p)'
    <3>1. Members(p)' = Members(p)
      BY DEF Members, Shared
    <3> QED
      BY <1>3, <1>4, <2>1, <2>2, <3>1 DEF DeliversOf
  <2>4. Busy(w)' => Remembers(w)'
    BY <1>1, <1>2, <1>4, <1>5, <1>6, <2>1 DEF Remembers, Early, File
  <2>5. ASSUME state'.job = p, work'[w].pc # "restarted"
        PROVE  Whole(state)'
    <3>1. CASE state'.status \in Ended
      BY <3>1 DEF Whole, Ended
    <3>2. CASE state' = state
      <4>1. state.job = p /\ state.status # "upload_pending"
        BY <1>1, <1>2, <2>1, <2>5, <3>2 DEF Working, Early
      <4>2. disk'[p].raw # {} => disk[p].raw # {} /\ disk'[p].segment = disk[p].segment
        BY <1>4, FileIs
      <4>3. disk[p].raw # {} /\ state.path = "raw" => state.segs = disk[p].segment
        BY <1>1, <1>2, <2>1, <4>1 DEF Remembers, Early
      <4> QED
        BY <3>2, <4>1, <4>2, <4>3 DEF Whole
    <3> QED
      BY <1>5, <2>5, <3>1, <3>2
  <2> QED
    BY <2>3, <2>4, <2>5
<1>8. state' = state \/ OfMember(state)'
  BY <1>2, <1>5 DEF OfMember, Lead
<1> QED
  BY <1>1, <1>2, <1>6, <1>7, <1>8, SessionKeeps

\* A worker that writes to the state file every segment it has.
LEMMA Names ==
  ASSUME IInv, SInv, NEW w \in Worker, Busy(w), NEW p \in Lead, p = Primary(w),
         work[w].pc \in {"capturing", "restarted"},
         NEW pc \in {"capturing", "captured"}, NEW status \in {"running", "captured"},
         Go(w, pc), state' = Snapshot(p, status, "raw", NoFile, work[w].segs, FALSE),
         UNCHANGED <<received, disk, main, heard, dropped, exposed, torn>>
  PROVE  SInv'
<1>1. Typed /\ p \in Shared(p) /\ p \in Job
  BY Lane DEF IInv
<1>2. /\ work'[w].pc = pc /\ work'[w].jobs = work[w].jobs /\ work'[w].segs = work[w].segs
      /\ \A v \in Worker \ {w} : work'[v] = work[v]
  BY <1>1, Went DEF Early
<1>3. /\ state'.job = p /\ state'.status = status /\ state'.path = "raw"
      /\ state'.segs = work[w].segs
  BY DEF Snapshot
<1>4. SessionOnly(w) /\ Primary(w)' = p
  BY <1>1, <1>2, <1>3 DEF SessionOnly, Primary
<1>5. ASSUME p \in Known PROVE Remembers(w)' /\ Whole(state)'
  <2>1. work[w].segs = disk[p].segment
    BY <1>5, Knows DEF Remembers, Early
  <2> QED
    BY <1>2, <1>3, <1>4, <2>1 DEF Remembers, Whole, Early
<1>6. OfMember(state)'
  BY <1>3 DEF OfMember, Lead
<1> QED
  BY <1>4, <1>5, <1>6, Untouched

\* The restarted capture is recorded with its segments.
LEMMA RecordSegmentsWhole ==
  ASSUME IInv, SInv, NEW w \in Worker, RecordSegments(w)
  PROVE  SInv'
<1>1. Busy(w)
  BY DEF RecordSegments, Busy
<1>2. Primary(w) \in Lead
  BY <1>1, Lane DEF IInv
<1> QED
  BY <1>1, <1>2, Names DEF RecordSegments, history

\* So is the finished one.
LEMMA FinishCaptureWhole ==
  ASSUME IInv, SInv, NEW w \in Worker, FinishCapture(w)
  PROVE  SInv'
<1>1. Busy(w)
  BY DEF FinishCapture, Busy
<1>2. Primary(w) \in Lead
  BY <1>1, Lane DEF IInv
<1> QED
  BY <1>1, <1>2, Names DEF FinishCapture, history

\* A capture that fails or is stopped leaves the files, or ends their record.
LEMMA EndsWhole ==
  ASSUME IInv, SInv, NEW w \in Worker, CaptureFails(w) \/ StopCapture(w)
  PROVE  SInv'
<1>1. Busy(w) /\ work[w].pc = "capturing"
  BY DEF CaptureFails, StopCapture, Busy
<1>2. Return(w) /\ UNCHANGED <<received, disk, main, heard, dropped, exposed, torn>>
  BY DEF CaptureFails, GiveUp, StopCapture, history
<1>3. state' = state \/ (state'.job = Primary(w) /\ state'.status \in Ended)
  <2>1. CASE CaptureFails(w)
    BY <2>1 DEF CaptureFails, GiveUp, Plain, Snapshot, Ended
  <2>2. CASE StopCapture(w)
    <3>1. \/ state' = Plain(Primary(w), "cancelled", NoFile) \/ state' = state
          \/ /\ ctl[Primary(w)] \in {"failed", "completed"}
             /\ state' = Plain(Primary(w), ctl[Primary(w)], NoFile)
      BY <2>2 DEF StopCapture
    <3>2. CASE state' = Plain(Primary(w), "cancelled", NoFile)
      BY <3>2 DEF Plain, Snapshot, Ended
    <3>3. CASE /\ ctl[Primary(w)] \in {"failed", "completed"}
               /\ state' = Plain(Primary(w), ctl[Primary(w)], NoFile)
      BY <3>3 DEF Plain, Snapshot, Ended
    <3>4. CASE state' = state
      BY <3>4
    <3> QED
      BY <3>1, <3>2, <3>3, <3>4
  <2> QED
    BY <2>1, <2>2
<1> QED
  BY <1>1, <1>2, <1>3, GaveUp

\* The master is everything that was captured, with the segments or without.
LEMMA StitchWhole ==
  ASSUME IInv, SInv, NEW w \in Worker, Stitch(w), Captured'
  PROVE  SInv'
<1>1. Busy(w) /\ Typed /\ work[w].pc = "captured"
  BY DEF Stitch, Busy, IInv
<1>2. PICK p \in Lead : p = Primary(w) /\ p \in Shared(p) /\ p \in Job
  BY <1>1, Lane DEF IInv
<1>3. UNCHANGED <<received, main, heard, dropped, exposed, torn>>
  BY DEF Stitch, history
<1>4. CASE GiveUp(w, "raw") /\ UNCHANGED disk
  BY <1>1, <1>3, <1>4, GaveUp DEF GiveUp, Plain, Snapshot, Ended
<1> DEFINE segs == work[w].segs
<1>5. ASSUME p \in Known
      PROVE  /\ segs = disk[p].segment /\ heard[p] \subseteq disk[p].raw \cup segs \cup dropped[p]
             /\ state.job = p => state.status # "upload_pending"
  BY <1>1, <1>2, <1>5, Knows DEF Remembers, Working, Core, Early
<1>6. ~Ahead(p)
  BY <1>1, <1>2, Lane DEF Ahead, Busy, IInv, Crewed
<1>7. CASE /\ segs = {} /\ UNCHANGED <<disk, state>>
           /\ work' = [work EXCEPT ![w].pc = "rendering", ![w].master = "raw"]
  <2>1. /\ work'[w].pc = "rendering" /\ work'[w].jobs = work[w].jobs /\ work'[w].master = "raw"
        /\ \A v \in Worker \ {w} : work'[v] = work[v]
    BY <1>1, <1>7, Mastered DEF Master
  <2>2. SessionOnly(w) /\ Primary(w)' = p
    BY <1>2, <1>3, <1>7, <2>1 DEF SessionOnly, Primary
  <2>3. p \in Known => Remembers(w)'
    BY <1>3, <1>5, <1>7, <2>1, <2>2 DEF Remembers, Early
  <2>4. p \in Known /\ state.job = p => Whole(state)'
    BY <1>3, <1>6, <1>7 DEF SInv, StateWhole, Whole
  <2> QED
    BY <1>1, <1>2, <1>3, <1>7, <2>2, <2>3, <2>4, Untouched
<1>8. CASE /\ disk' = StitchedDisk(p, segs, "raw") /\ UNCHANGED state
           /\ work' = [work EXCEPT ![w].pc = "rendering", ![w].master = "stitched"]
  <2>1. /\ work'[w].pc = "rendering" /\ work'[w].jobs = work[w].jobs /\ work'[w].master = "stitched"
        /\ \A v \in Worker \ {w} : work'[v] = work[v]
    BY <1>1, <1>8, Mastered DEF Master
  <2>2. /\ \A j \in Job \ {p} : disk'[j] = disk[j]
        /\ disk'[p].stitched = segs \cup disk[p].raw /\ disk'[p].raw = {}
    BY <1>1, <1>2, <1>8, Stitched DEF Typed, WorkRec, File
  <2>3. SessionOnly(w) /\ Primary(w)' = p
    BY <1>2, <1>3, <1>8, <2>1, <2>2 DEF SessionOnly, Primary
  <2>4. ASSUME p \in Known PROVE DeliversOf(p)'
    <3>1. DeliversOf(p) /\ \A m \in Members(p) : m \in Job \ {p}
      BY <1>1, <1>2, <2>4, Knows, Apart DEF Members
    <3> QED
      BY <1>3, <2>2, <3>1 DEF DeliversOf, Members, Shared
  <2>5. p \in Known => Remembers(w)'
    BY <1>3, <1>5, <2>1, <2>2, <2>3 DEF Remembers, Early
  <2>6. p \in Known /\ state.job = p => Whole(state)'
    BY <1>5, <1>8, <2>2 DEF Whole
  <2> QED
    BY <1>1, <1>2, <1>8, <2>3, <2>4, <2>5, <2>6, SessionKeeps
<1> QED
  BY <1>2, <1>4, <1>7, <1>8 DEF Stitch

\* The output is the master, or is rendered from it.
LEMMA RenderWhole ==
  ASSUME IInv, SInv, NEW w \in Worker, Render(w), Captured'
  PROVE  SInv'
<1>1. Busy(w) /\ Typed /\ work[w].pc = "rendering" /\ work[w].master \in Master
  BY DEF Render, Busy, IInv, Typed, WorkRec, Middle
<1>2. PICK p \in Lead : p = Primary(w) /\ p \in Shared(p) /\ p \in Job
  BY <1>1, Lane DEF IInv
<1>3. UNCHANGED <<received, main, heard, dropped, exposed, torn>>
  BY DEF Render, history
<1>4. CASE GiveUp(w, work[w].master) /\ UNCHANGED disk
  BY <1>1, <1>3, <1>4, GaveUp DEF GiveUp, Plain, Snapshot, Ended
<1>5. CASE /\ UNCHANGED state
           /\ \E path \in {work[w].master, "render"} :
                work' = [work EXCEPT ![w].pc = "rendered", ![w].path = path]
           /\ disk' \in {disk, [disk EXCEPT ![p].render = disk[p][work[w].master]]}
  <2>1. /\ work'[w].pc = "rendered" /\ work'[w].jobs = work[w].jobs
        /\ work'[w].master = work[w].master
        /\ \A v \in Worker \ {w} : work'[v] = work[v]
    BY <1>1, <1>5, Rendered
  <2>2. /\ \A j \in Job \ {p} : disk'[j] = disk[j]
        /\ \A f \in File \ {"render"} : disk'[p][f] = disk[p][f]
    BY <1>1, <1>2, <1>5 DEF Typed, File
  <2>3. SessionOnly(w) /\ Primary(w)' = p
    BY <1>2, <1>3, <1>5, <2>1, <2>2 DEF SessionOnly, Primary
  <2>4. ASSUME p \in Known
        PROVE  DeliversOf(p)' /\ Remembers(w)' /\ (state.job = p => Whole(state)')
    <3>1. DeliversOf(p) /\ Remembers(w) /\ Working(w) /\ \A m \in Members(p) : m \in Job \ {p}
      BY <1>1, <1>2, <2>4, Knows, Apart DEF Members
    <3>2. DeliversOf(p)'
      BY <1>3, <2>2, <3>1 DEF DeliversOf, Members, Shared
    <3>3. Remembers(w)'
      BY <1>1, <1>2, <1>3, <2>1, <2>2, <2>3, <3>1 DEF Remembers, Early, Master, File
    <3>4. ~Ahead(p)
      BY <1>1, <1>2, Lane DEF Ahead, Busy, IInv, Crewed
    <3>5. state.job = p => Whole(state)'
      BY <1>1, <1>2, <1>5, <2>2, <2>4, <3>1, <3>4 DEF SInv, StateWhole, Whole, Working, File
    <3> QED
      BY <3>2, <3>3, <3>5
  <2> QED
    BY <1>1, <1>2, <1>5, <2>3, <2>4, SessionKeeps
<1> QED
  BY <1>2, <1>4, <1>5 DEF Render

\* The checkpoint names a file with everything that was captured.
LEMMA CheckpointWhole ==
  ASSUME IInv, SInv, NEW w \in Worker, Checkpoint(w)
  PROVE  SInv'
<1>1. Busy(w) /\ Typed /\ work[w].pc = "rendered"
  BY DEF Checkpoint, Busy, IInv
<1>2. PICK p \in Lead : p = Primary(w) /\ p \in Shared(p) /\ p \in Job
  BY <1>1, Lane DEF IInv
<1>3. /\ work'[w].pc = "uploading" /\ work'[w].jobs = work[w].jobs
      /\ work'[w].master = work[w].master
      /\ \A v \in Worker \ {w} : work'[v] = work[v]
  BY <1>1, Went DEF Checkpoint, Middle
<1>4. /\ state'.job = p /\ state'.status = "upload_pending" /\ state'.path = work[w].path
      /\ UNCHANGED <<received, disk, main, heard, dropped, exposed, torn>>
  BY <1>2 DEF Checkpoint, UploadState, Snapshot, history
<1>5. SessionOnly(w) /\ Primary(w)' = p
  BY <1>2, <1>3, <1>4 DEF SessionOnly, Primary
<1>6. ASSUME p \in Known PROVE Remembers(w)' /\ Whole(state)'
  <2>1. /\ heard[p] \subseteq disk[p][work[w].master] \cup dropped[p]
        /\ disk[p][work[w].master] \subseteq disk[p][work[w].path]
    BY <1>1, <1>2, <1>6, Knows DEF Remembers, Working, Early
  <2> QED
    BY <1>3, <1>4, <1>5, <2>1 DEF Remembers, Whole, Early
<1>7. OfMember(state)'
  BY <1>4 DEF OfMember, Lead
<1> QED
  BY <1>1, <1>2, <1>4, <1>5, <1>6, <1>7, Untouched

\* What is attached is everything that was captured.
LEMMA UploadWhole ==
  ASSUME IInv, SInv, NEW w \in Worker, Upload(w)
  PROVE  SInv'
<1>1. Busy(w) /\ Typed /\ work[w].pc = "uploading" /\ work[w].path \in File
  <2>1. work[w].path \in {work[w].master, "render"} /\ work[w].master \in Master
    BY DEF Upload, IInv, Typed, WorkRec, Middle
  <2> QED
    BY <2>1, FileIs DEF Upload, Busy, IInv
<1>2. PICK p \in Lead : p = Primary(w) /\ p \in Shared(p) /\ p \in Job
  BY <1>1, Lane DEF IInv
<1>3. /\ state'.job = p /\ state'.status \in {"uploaded", "upload_pending"}
      /\ state'.path = work[w].path
      /\ UNCHANGED <<disk, main, heard, dropped, exposed, torn>>
  <2>1. \E status \in {"uploaded", "upload_pending"} : state' = UploadState(w, status)
    BY DEF Upload
  <2> QED
    BY <1>2, <2>1 DEF Upload, UploadState, Snapshot, history
<1>4. /\ \A v \in Worker \ {w} : work'[v] = work[v]
      /\ Busy(w)' => /\ work'[w].pc = "members" /\ work'[w].jobs = work[w].jobs
                     /\ work'[w].master = work[w].master
  <2>1. CASE Go(w, "members")
    BY <1>1, <2>1, Went DEF Late
  <2>2. CASE Return(w)
    BY <1>1, <2>2, Returned
  <2> QED
    BY <2>1, <2>2 DEF Upload
<1>5. \/ received' = received
      \/ received' = [received EXCEPT ![p] = disk[p][work[w].path]]
  BY <1>2 DEF Upload, Attach
<1>6. \A j \in Job \ {p} : received'[j] = received[j]
  BY <1>1, <1>2, <1>5 DEF Typed
<1>7. SessionOnly(w) /\ (Busy(w)' => Primary(w)' = p)
  BY <1>2, <1>3, <1>4, <1>6 DEF SessionOnly, Primary
<1>8. Captured'
  BY <1>3 DEF SInv, Captured, Lead
<1>9. ASSUME p \in Known
      PROVE  DeliversOf(p)' /\ (Busy(w)' => Remembers(w)') /\ Whole(state)'
  <2>1. /\ DeliversOf(p) /\ Remembers(w) /\ Working(w) /\ \A m \in Members(p) : m \in Job \ {p}
        /\ Gapless(heard[p], dropped[p]) /\ disk[p][work[w].path] \subseteq heard[p]
    BY <1>1, <1>2, <1>9, Knows, Apart DEF Members
  <2>2. heard[p] \subseteq disk[p][work[w].path] \cup dropped[p]
    BY <1>1, <1>2, <2>1 DEF Remembers, Working, Early
  <2>3. Gapless(disk[p][work[w].path], dropped[p])
    BY <2>1, <2>2, Full
  <2>4. Gapless(received'[p], dropped'[p])
    BY <1>1, <1>2, <1>3, <1>5, <2>1, <2>3 DEF DeliversOf, Typed
  <2>5. DeliversOf(p)'
    BY <1>3, <1>6, <2>1, <2>4 DEF DeliversOf, Members, Shared
  <2>6. Busy(w)' => Remembers(w)'
    BY <1>1, <1>2, <1>3, <1>4, <1>7, <2>1 DEF Remembers, Early
  <2>7. Whole(state)'
    BY <1>3, <2>2 DEF Whole
  <2> QED
    BY <2>5, <2>6, <2>7
<1>10. OfMember(state)'
  BY <1>3 DEF OfMember, Lead
<1> QED
  BY <1>1, <1>2, <1>7, <1>8, <1>9, <1>10, SessionKeeps

\* What is left to show of a step of a worker that is done with its primary.
LEMMA LateKeeps ==
  ASSUME IInv, SInv, NEW w \in Worker, Busy(w), NEW p \in Known, p = Primary(w),
         work[w].pc \in Late,
         UNCHANGED <<heard, dropped, torn>>, disk'[p] = disk[p],
         state'.job # p, Primary(w)' = p, work'[w].pc \in Late,
         work'[w].master = work[w].master
  PROVE  Remembers(w)'
<1>1. Remembers(w)
  BY Knows
<1> QED
  BY <1>1 DEF Remembers, Early, Late

\* A member is rendered from everything that was captured, or is written off.
LEMMA RenderMemberWhole ==
  ASSUME IInv, SInv, NEW w \in Worker, RenderMember(w), Captured'
  PROVE  SInv'
<1>1. /\ Busy(w) /\ Typed /\ work[w].pc = "members" /\ Len(work[w].jobs) > 1
      /\ work[w].master \in File
  BY FileIs DEF RenderMember, Busy, IInv, Typed, WorkRec, Late
<1>2. PICK p \in Lead : p = Primary(w) /\ p \in Shared(p) /\ p \in Job
  BY <1>1, Lane DEF IInv
<1> DEFINE m == NextMember(w)
<1>3. m \in Members(p) /\ m \in Job \ Lead /\ m # p /\ m \in Shared(p)
  BY <1>1, <1>2, Turn DEF Late, Members
<1> HIDE DEF m
<1>4. UNCHANGED <<received, main, heard, dropped, torn, queued>>
  BY DEF RenderMember
<1>5. /\ state'.job = m /\ state'.path \in {"render", NoFile} /\ state'.status \in {"running", "failed"}
      /\ \/ /\ disk' = [disk EXCEPT ![m].render = disk[p][work[w].master]]
            /\ Go(w, "member") /\ exposed' = exposed
         \/ /\ work' = [work EXCEPT ![w].jobs = WithoutMember(w)]
            /\ exposed' = exposed \cup {m} /\ disk' = disk
  <2>1. CASE /\ disk' = [disk EXCEPT ![m].render = disk[p][work[w].master]]
             /\ state' = Plain(m, "running", "render") /\ Go(w, "member") /\ exposed' = exposed
    BY <2>1 DEF Plain, Snapshot
  <2>2. CASE /\ state' = Plain(m, "failed", NoFile) /\ exposed' = exposed \cup {m} /\ disk' = disk
             /\ work' = [work EXCEPT ![w].jobs = WithoutMember(w)]
    BY <2>2 DEF Plain, Snapshot
  <2> QED
    BY <1>2, <2>1, <2>2 DEF RenderMember, m
<1>6. /\ \A v \in Worker \ {w} : work'[v] = work[v]
      /\ work'[w].pc \in Late /\ work'[w].master = work[w].master /\ Primary(w)' = p
  <2>1. CASE Go(w, "member")
    BY <1>1, <1>2, <2>1, Went DEF Late, Primary
  <2>2. CASE work' = [work EXCEPT ![w].jobs = WithoutMember(w)]
    BY <1>1, <1>2, <1>4, <2>2, Dropped DEF Late
  <2> QED
    BY <1>5, <2>1, <2>2
<1>7. \A j \in Job \ {m} : disk'[j] = disk[j]
  BY <1>1, <1>5 DEF Typed
<1>8. SessionOnly(w)
  BY <1>2, <1>3, <1>4, <1>5, <1>6, <1>7 DEF SessionOnly
<1>9. ASSUME p \in Known
      PROVE  DeliversOf(p)' /\ Remembers(w)'
  <2>1. /\ DeliversOf(p) /\ Remembers(w) /\ \A i \in Members(p) : i \in Job \ {p}
        /\ Gapless(heard[p], dropped[p]) /\ disk[p][work[w].master] \subseteq heard[p]
    BY <1>1, <1>2, <1>9, Knows, Apart DEF Members
  <2>2. Gapless(disk[p][work[w].master], dropped[p])
    BY <1>1, <1>2, <2>1, Full DEF Remembers, Early
  <2>3. disk' = disk \/ disk'[m].render = disk[p][work[w].master]
    BY <1>1, <1>3, <1>5 DEF Typed, File
  <2>4. \A i \in Members(p) \ exposed : Gapless(disk'[i].render, dropped'[p])
    BY <1>4, <1>7, <2>1, <2>2, <2>3 DEF DeliversOf
  <2>5. DeliversOf(p)'
    BY <1>4, <1>8, <2>1, <2>4 DEF DeliversOf, Members, Shared, SessionOnly
  <2>6. Remembers(w)'
    BY <1>1, <1>2, <1>3, <1>4, <1>5, <1>6, <1>7, <1>9, LateKeeps DEF Late
  <2> QED
    BY <2>5, <2>6
<1>10. OfMember(state)'
  BY <1>5 DEF OfMember
<1> QED
  BY <1>1, <1>2, <1>3, <1>5, <1>6, <1>8, <1>9, <1>10, SessionKeeps

\* What is attached to a member is its rendering.
LEMMA UploadMemberWhole ==
  ASSUME IInv, SInv, NEW w \in Worker, UploadMember(w)
  PROVE  SInv'
<1>1. Busy(w) /\ Typed /\ work[w].pc = "member" /\ Len(work[w].jobs) > 1
  <2>1. Busy(w) /\ work[w].pc = "member"
    BY DEF UploadMember, Busy
  <2> QED
    BY <2>1 DEF IInv, Crewed, WellCrewed
<1>2. PICK p \in Lead : p = Primary(w) /\ p \in Shared(p) /\ p \in Job
  BY <1>1, Lane DEF IInv
<1> DEFINE m == NextMember(w)
<1>3. m \in Members(p) /\ m \in Job \ Lead /\ m # p /\ m \in Shared(p)
  BY <1>1, <1>2, Turn DEF Late, Members
<1> HIDE DEF m
<1>4. UNCHANGED <<queued, disk, main, heard, dropped, exposed, torn>>
  BY DEF UploadMember, history
<1>5. /\ state'.job = m /\ state'.path \in {"render", NoFile}
      /\ received' \in {received, [received EXCEPT ![m] = disk[m].render]}
  <2>1. state' \in {Plain(m, "completed", "render"), Plain(m, "failed", NoFile)}
        /\ received' \in {received, [received EXCEPT ![m] = disk[m].render]}
    BY DEF UploadMember, Attach, m
  <2> QED
    BY <2>1 DEF Plain, Snapshot
<1>6. /\ \A v \in Worker \ {w} : work'[v] = work[v]
      /\ work'[w].pc \in Late /\ work'[w].master = work[w].master /\ Primary(w)' = p
  BY <1>1, <1>2, <1>4, Dropped DEF Late, UploadMember
<1>7. \A j \in Job \ {m} : received'[j] = received[j]
  BY <1>1, <1>5 DEF Typed
<1>8. SessionOnly(w)
  BY <1>2, <1>3, <1>4, <1>5, <1>6, <1>7 DEF SessionOnly
<1>9. ASSUME p \in Known
      PROVE  DeliversOf(p)' /\ Remembers(w)'
  <2>1. DeliversOf(p) /\ \A i \in Members(p) : i \in Job \ {p}
    BY <1>1, <1>2, <1>9, Knows, Apart DEF Members
  <2>2. \A i \in Members(p) \ exposed : Gapless(received'[i], dropped'[p])
    BY <1>1, <1>4, <1>5, <1>7, <2>1 DEF DeliversOf, Typed
  <2>3. DeliversOf(p)'
    BY <1>2, <1>3, <1>4, <1>7, <2>1, <2>2 DEF DeliversOf, Members, Shared
  <2>4. Remembers(w)'
    BY <1>1, <1>2, <1>3, <1>4, <1>5, <1>6, <1>9, LateKeeps DEF Late
  <2> QED
    BY <2>3, <2>4
<1>10. Captured'
  BY <1>4 DEF SInv, Captured, Lead
<1>11. OfMember(state)'
  BY <1>5 DEF OfMember
<1> QED
  BY <1>1, <1>2, <1>3, <1>5, <1>6, <1>8, <1>9, <1>10, <1>11, SessionKeeps

\* The deletion comes last and ends the record.
LEMMA RetainWhole ==
  ASSUME IInv, SInv, NEW w \in Worker, Retain(w), Captured'
  PROVE  SInv'
<1>1. Busy(w) /\ Typed
  BY DEF Retain, Busy, IInv
<1>2. PICK p \in Lead : p = Primary(w) /\ p \in Shared(p) /\ p \in Job
  BY <1>1, Lane DEF IInv
<1>3. UNCHANGED <<received, main, heard, dropped, exposed, torn>>
  BY DEF Retain, history
<1>4. /\ state'.job = p /\ state'.status = "completed"
      /\ \A j \in Job \ {p} : disk'[j] = disk[j]
  BY <1>1, <1>2 DEF Retain, Retained, Plain, Snapshot, Typed
<1>5. ~Busy(w)' /\ \A v \in Worker \ {w} : work'[v] = work[v]
  BY <1>1, Returned DEF Retain
<1>6. SessionOnly(w)
  BY <1>2, <1>3, <1>4, <1>5 DEF SessionOnly
<1>7. ASSUME p \in Known PROVE DeliversOf(p)'
  <2>1. DeliversOf(p) /\ \A i \in Members(p) : i \in Job \ {p}
    BY <1>1, <1>2, <1>7, Knows, Apart DEF Members
  <2> QED
    BY <1>3, <1>4, <2>1 DEF DeliversOf, Members, Shared
<1>8. Whole(state)' /\ OfMember(state)'
  BY <1>4 DEF Whole, OfMember, Lead
<1> QED
  BY <1>1, <1>2, <1>5, <1>6, <1>7, <1>8, SessionKeeps

\* A claim starts with nothing captured and no segments.
LEMMA ClaimWhole ==
  ASSUME IInv, SInv, NEW w \in Worker, NEW s \in Sessions, Claim(w, s)
  PROVE  SInv'
<1>1. /\ ~Busy(w) /\ s \in queued /\ Typed /\ main' = main
      /\ state' = Plain(Head(s), "running", NoFile)
      /\ work' = [work EXCEPT ![w] = [Idle EXCEPT !.pc = "claimed", !.jobs = s]]
      /\ UNCHANGED <<received, disk, heard, dropped, exposed, torn>>
  BY DEF Claim, Busy, history, IInv
<1>2. PICK p \in Lead : p = Head(s) /\ p = s[1]
  BY Claimed
<1>3. p \in Unclaimed /\ p \in Job
  BY <1>1, <1>2, Apart DEF Unclaimed
<1>4. /\ work'[w].pc = "claimed" /\ work'[w].segs = {} /\ Primary(w)' = p
      /\ \A v \in Worker \ {w} : work'[v] = work[v]
  BY <1>1, <1>2 DEF Typed, Idle, Primary
<1>5. state'.job = p /\ state'.path = NoFile /\ state'.status = "running" /\ NoFile \notin File
  BY <1>1, <1>2, AgentCaptureAssumption DEF Plain, Snapshot
<1>6. \A v \in Worker \ {w} : Busy(v) => Primary(v) # p
  BY <1>3, Lane DEF IInv
<1>7. Captured' /\ Delivers' /\ Known' = Known
  BY <1>1 DEF SInv, Captured, Delivers, Known, Lead, Members, Shared
<1>8. Remembering'
  <2>1. disk[p].segment = {}
    BY <1>2, <1>3, FileIs DEF SInv, Captured, IInv, Fresh
  <2>2. Remembers(w)'
    BY <1>1, <1>4, <2>1 DEF Remembers, Early
  <2>3. ASSUME NEW v \in Worker \ {w}, Busy(v)', Primary(v)' \in Known
        PROVE  Remembers(v)'
    <3>1. Remembers(v) /\ work'[v] = work[v] /\ Primary(v)' = Primary(v) /\ Primary(v) # p
      BY <1>4, <1>6, <2>3 DEF SInv, Remembering, Busy, Primary
    <3> QED
      BY <1>1, <1>5, <3>1 DEF Remembers
  <2> QED
    BY <1>7, <2>2, <2>3 DEF Remembering
<1>9. StateWhole' /\ OfMember(state)'
  BY <1>2, <1>5, FileIs DEF StateWhole, Whole, OfMember, Lead
<1>10. RecoveryWhole' /\ OfMember(main.rec)'
  BY <1>1, <1>7 DEF SInv, RecoveryWhole, Whole, OfMember, Lead
<1> QED
  BY <1>7, <1>8, <1>9, <1>10 DEF SInv

-----------------------------------------------------------------------------
(* The steps of the tick loop and of the environment *)

\* A step that touches no file and remembers every exposed spot.
LEMMA FilesStay ==
  ASSUME IInv, SInv, UNCHANGED <<heard, dropped, disk, received>>, exposed \subseteq exposed', torn \subseteq torn'
  PROVE  Captured' /\ Delivers' /\ Known' \subseteq Known /\ Lead' = Lead
<1>1. Known' \subseteq Known /\ Lead' = Lead
  BY DEF Known, Lead
<1> QED
  BY <1>1 DEF SInv, Captured, Delivers, Members, Shared

\* Nothing of what the invariant is about changes.
LEMMA Elsewhere ==
  ASSUME IInv, SInv, UNCHANGED <<received, disk, state, work, main, heard, dropped, exposed, torn>>
  PROVE  SInv'
<1>1. Captured' /\ Delivers' /\ Known' \subseteq Known /\ Lead' = Lead
  BY FilesStay
<1>2. Remembering'
  BY <1>1 DEF SInv, Remembering, Remembers, Busy, Primary
<1>3. StateWhole'
  BY <1>1 DEF SInv, StateWhole, Ahead, Whole, Primary
<1>4. RecoveryWhole' /\ OfMember(state)' /\ OfMember(main.rec)'
  BY <1>1 DEF SInv, RecoveryWhole, Whole, OfMember
<1> QED
  BY <1>1, <1>2, <1>3, <1>4 DEF SInv

\* A crash between a device loss and the record of its segment leaves the primary torn.
LEMMA CrashWhole ==
  ASSUME IInv, SInv, Crash
  PROVE  SInv'
<1>1. /\ work' = [w \in Worker |-> Idle] /\ main' = Resting
      /\ torn' = torn \cup {Primary(w) : w \in {v \in Worker : work[v].pc \in {"lost", "restarted"}}}
      /\ UNCHANGED <<received, disk, state, heard, dropped, exposed>>
  BY DEF Crash
<1>2. Captured' /\ Delivers' /\ Known' \subseteq Known /\ Lead' = Lead
  BY <1>1, FilesStay
<1>3. Remembering'
  BY <1>1 DEF Remembering, Busy, Idle
<1>4. StateWhole'
  <2> SUFFICES ASSUME state.job \in Known'
               PROVE  Whole(state)'
    BY <1>1 DEF StateWhole
  <2>1. ~Ahead(state.job)
    BY <1>1 DEF Ahead, Known
  <2>2. Whole(state)
    BY <1>2, <2>1 DEF SInv, StateWhole
  <2> QED
    BY <1>1, <2>2 DEF Whole
<1>5. RecoveryWhole' /\ OfMember(state)' /\ OfMember(main.rec)'
  <2>1. main'.pc = "boot" /\ main'.rec.job = NoJob /\ NoJob \notin Job
    BY <1>1, AgentCaptureAssumption DEF Resting, NoState
  <2> QED
    BY <1>1, <1>2, <2>1 DEF SInv, RecoveryWhole, OfMember
<1> QED
  BY <1>2, <1>3, <1>4, <1>5 DEF SInv

\* The controller and the network touch nothing of it.
LEMMA EnvironmentWhole ==
  ASSUME IInv, SInv, Environment \/ UNCHANGED vars
  PROVE  SInv'
<1>1. CASE Crash
  BY <1>1, CrashWhole
<1>2. CASE ~Crash
  <2>1. UNCHANGED <<received, disk, state, work, main, heard, dropped, exposed, torn>>
    BY <1>2 DEF Environment, Expire, RequestStop, LinkFails, LinkReturns, history, vars
  <2> QED
    BY <2>1, Elsewhere
<1> QED
  BY <1>1, <1>2

\* A recovery takes the state file as it is: no worker of its job is ahead of it.
LEMMA ReconcileWhole ==
  ASSUME IInv, SInv, Boot \/ Tick
  PROVE  SInv'
<1>1. UNCHANGED <<received, disk, state, work, heard, dropped, torn>> /\ exposed \subseteq exposed' /\ Typed
  BY DEF Boot, Tick, Reconcile, IInv
<1>2. Captured' /\ Delivers' /\ Known' \subseteq Known /\ Lead' = Lead
  BY <1>1, FilesStay
<1>3. Remembering'
  BY <1>1, <1>2 DEF SInv, Remembering, Remembers, Busy, Primary
<1>4. StateWhole' /\ OfMember(state)'
  BY <1>1, <1>2 DEF SInv, StateWhole, Ahead, Whole, Primary, OfMember
<1>5. main.pc \in {"boot", "loop"} /\ main \in MainRec
  BY DEF Boot, Tick, IInv, Typed
<1>6. \/ main'.pc \in {"boot", "loop"} /\ main'.rec = main.rec
      \/ /\ main'.rec = state /\ main'.pc \in {"retain", "recover"}
         /\ exposed' = exposed \cup (Shared(state.job) \ {state.job})
                           \cup {j \in {state.job} : \E w \in Worker : Holds(w, j)}
  <2>1. CASE Reconcile
    BY <1>5, <2>1 DEF Reconcile, MainRec
  <2>2. CASE main' = [main EXCEPT !.syncFailed = TRUE]
    BY <1>5, <2>2 DEF MainRec
  <2> QED
    BY <2>1, <2>2 DEF Boot, Tick
<1>7. CASE main'.pc \in {"boot", "loop"} /\ main'.rec = main.rec
  <2>1. RecoveryWhole' /\ OfMember(main.rec)'
    BY <1>2, <1>7 DEF SInv, RecoveryWhole, OfMember
  <2> QED
    BY <1>2, <1>3, <1>4, <2>1 DEF SInv
<1>8. CASE /\ main'.rec = state /\ main'.pc \in {"retain", "recover"}
           /\ exposed' = exposed \cup (Shared(state.job) \ {state.job})
                             \cup {j \in {state.job} : \E w \in Worker : Holds(w, j)}
  <2>1. ASSUME state.job \in Known' PROVE Whole(state)'
    <3>1. \A w \in Worker : ~Holds(w, state.job)
      BY <1>8, <2>1 DEF Known
    <3>2. ~Ahead(state.job)
      BY <3>1, Lane DEF Ahead, Busy, IInv
    <3> QED
      BY <1>1, <1>2, <2>1, <3>2 DEF SInv, StateWhole, Whole
  <2>2. RecoveryWhole' /\ OfMember(main.rec)'
    BY <1>1, <1>2, <1>8, <2>1 DEF SInv, RecoveryWhole, OfMember, Whole
  <2> QED
    BY <1>2, <1>3, <1>4, <2>2 DEF SInv
<1> QED
  BY <1>6, <1>7, <1>8

\* What is known of the job a recovery works on.
LEMMA Handled ==
  ASSUME IInv, SInv, main.pc \in Handling
  PROVE  /\ main.rec.job \in Job /\ main.rec \in Snapshots /\ OfMember(main.rec) /\ ByMember(main.rec)
         /\ main.rec.job \in Known =>
              /\ \A w \in Worker : Busy(w) => Primary(w) # main.rec.job
              /\ ~Ahead(main.rec.job)
<1>1. main.rec.job \in Job /\ ByMember(main.rec)
      /\ (main.rec.job \notin exposed => \A w \in Worker : ~Holds(w, main.rec.job))
  BY DEF IInv, Recovering
<1>2. main.rec \in Snapshots
  BY DEF IInv, Typed, MainRec
<1>3. \A w \in Worker : Busy(w) => Holds(w, Primary(w))
  BY Lane DEF IInv
<1> QED
  BY <1>1, <1>2, <1>3 DEF SInv, Known, Ahead, Busy

\* What is left to show of a step of the recovery: nobody else works on its job.
LEMMA RecoverySteps ==
  ASSUME IInv, SInv, main.pc \in Handling, NEW j, j = main.rec.job,
         Captured', UNCHANGED <<heard, dropped, exposed, torn>>,
         \A w \in Worker : /\ work'[w].pc = work[w].pc /\ work'[w].jobs = work[w].jobs
                           /\ work'[w].segs = work[w].segs /\ work'[w].master = work[w].master,
         \A i \in Job \ {j} : disk'[i] = disk[i] /\ received'[i] = received[i],
         j \in Known => Gapless(received'[j], dropped'[j]),
         j \in Job \ Lead => disk'[j] = disk[j] /\ received'[j] \in {received[j], disk[j].render},
         state' = state \/ state'.job = j,
         state' = state \/ OfMember(state)',
         state'.job = j /\ j \in Known => Whole(state)',
         \/ main'.rec = NoState /\ main'.pc \notin Handling
         \/ /\ main'.rec.job = j /\ main'.pc # "recover"
            /\ main'.rec.path = main.rec.path \/ j \in Lead
            /\ main'.pc = "resend" /\ j \in Known =>
                  heard[j] \subseteq disk'[j][main'.rec.path] \cup dropped[j]
  PROVE  SInv'
<1>1. Known' = Known /\ Lead' = Lead /\ Lead \subseteq Job /\ Known \subseteq Lead
  BY Apart DEF Known, Lead
<1>2. j \in Job /\ OfMember(main.rec)
      /\ (j \in Known => (\A w \in Worker : Busy(w) => Primary(w) # j) /\ ~Ahead(j))
  BY Handled
<1>3. Delivers'
  <2>1. ASSUME NEW p \in Known, NEW m \in Members(p) \ exposed
        PROVE  Gapless(received'[m], dropped'[p]) /\ Gapless(disk'[m].render, dropped'[p])
    <3>1. m \in Job \ Lead /\ Gapless(received[m], dropped[p]) /\ Gapless(disk[m].render, dropped[p])
      BY <1>1, <2>1, Apart DEF SInv, Delivers, Members
    <3> QED
      BY <3>1
  <2>2. \A p \in Known : Gapless(received'[p], dropped'[p])
    BY <1>1 DEF SInv, Delivers
  <2> QED
    BY <1>1, <2>1, <2>2 DEF Delivers, Members, Shared
<1>4. Remembering'
  <2>1. ASSUME NEW v \in Worker, Busy(v)', Primary(v)' \in Known
        PROVE  Remembers(v)'
    <3>1. Busy(v) /\ Primary(v)' = Primary(v)
      BY <2>1 DEF Busy, Primary
    <3>2. Remembers(v) /\ Primary(v) # j /\ Primary(v) \in Job
      BY <1>1, <1>2, <2>1, <3>1 DEF SInv, Remembering
    <3>3. state'.job = Primary(v) => state' = state
      BY <3>2
    <3> QED
      BY <3>1, <3>2, <3>3 DEF Remembers
  <2> QED
    BY <1>1, <2>1 DEF Remembering
<1>5. StateWhole'
  <2> SUFFICES ASSUME state'.job \in Known, ~Ahead(state.job)'
               PROVE  Whole(state)'
    BY <1>1 DEF StateWhole
  <2>1. CASE state'.job = j
    BY <2>1
  <2>2. CASE state'.job # j
    <3>1. state' = state /\ state.job \in Job \ {j}
      BY <1>1, <2>2
    <3>2. ~Ahead(state.job)
      BY <3>1 DEF Ahead, Primary
    <3> QED
      BY <3>1, <3>2 DEF SInv, StateWhole, Whole
  <2> QED
    BY <2>1, <2>2
<1>6. RecoveryWhole' /\ OfMember(main.rec)'
  <2>1. CASE main'.rec = NoState
    <3>1. NoState.job \notin Job
      BY AgentCaptureAssumption DEF NoState
    <3> QED
      BY <1>1, <2>1, <3>1 DEF RecoveryWhole, OfMember
  <2>2. CASE /\ main'.rec.job = j /\ main'.pc # "recover"
             /\ main'.rec.path = main.rec.path \/ j \in Lead
             /\ main'.pc = "resend" /\ j \in Known =>
                  heard[j] \subseteq disk'[j][main'.rec.path] \cup dropped[j]
    BY <1>1, <1>2, <2>2 DEF RecoveryWhole, OfMember
  <2> QED
    BY <2>1, <2>2
<1>7. OfMember(state)'
  BY <1>1 DEF SInv, OfMember
<1> QED
  BY <1>3, <1>4, <1>5, <1>6, <1>7 DEF SInv

\* A recovery that is over, or that has to be taken up again, changes no file.
LEMMA RecoveryOver ==
  ASSUME IInv, SInv, main.pc \in Handling,
         UNCHANGED <<heard, dropped, disk, received, work, exposed, torn>>,
         \/ /\ \E status \in Ended : state' = [main.rec EXCEPT !.status = status]
            /\ main'.rec = NoState /\ main'.pc = "loop"
         \/ RecoveryPending /\ UNCHANGED state
  PROVE  SInv'
<1> DEFINE j == main.rec.job
<1>1. main \in MainRec /\ main.rec \in Snapshots /\ OfMember(main.rec) /\ j \in Job
  BY Handled DEF IInv, Typed
<1>2. main'.rec = NoState /\ main'.pc = "loop"
  BY <1>1 DEF RecoveryPending, MainRec
<1>3. Captured' /\ Known' \subseteq Known /\ Lead' = Lead
  BY FilesStay
<1>4. j \in Known => Gapless(received[j], dropped[j]) /\ ~Ahead(j)
  BY Handled DEF SInv, Delivers
<1>5. CASE \E status \in Ended : state' = [main.rec EXCEPT !.status = status]
  <2>1. state'.job = j /\ state'.status \in Ended /\ state'.path = main.rec.path
    BY <1>1, <1>5 DEF Snapshots
  <2>2. Whole(state)' /\ OfMember(state)'
    BY <1>1, <1>3, <2>1 DEF Whole, Ended, OfMember
  <2> QED
    BY <1>2, <1>3, <1>4, <2>1, <2>2, RecoverySteps DEF Handling
<1>6. CASE UNCHANGED state
  <2>1. state.job = j /\ j \in Known => Whole(state)'
    BY <1>4, <1>6 DEF SInv, StateWhole, Whole
  <2> QED
    BY <1>2, <1>3, <1>4, <1>6, <2>1, RecoverySteps DEF Handling
<1> QED
  BY <1>5, <1>6

\* A recovery that finds nothing, or that has done its work.
LEMMA RecoverFailsWhole ==
  ASSUME IInv, SInv, RecoverFails \/ RecoverClose
  PROVE  SInv'
<1>1. main.pc \in Handling /\ UNCHANGED <<heard, dropped, disk, received, work, exposed, torn>>
  BY DEF RecoverFails, RecoverClose, Handling, history
<1>2. main \in MainRec
  BY DEF IInv, Typed
<1>3. \/ \E status \in Ended : Recovered(status)
      \/ RecoveryPending /\ UNCHANGED state
  BY DEF RecoverFails, RecoverClose, Ended
<1>4. ASSUME NEW status \in Ended, Recovered(status)
      PROVE  /\ state' = [main.rec EXCEPT !.status = status]
             /\ main'.rec = NoState /\ main'.pc = "loop"
  BY <1>2, <1>4 DEF Recovered, MainRec
<1> QED
  BY <1>1, <1>3, <1>4, RecoveryOver

\* A recovery deletes the files of an upload that was accepted.
LEMMA RecoverRetainWhole ==
  ASSUME IInv, SInv, RecoverRetain, Captured'
  PROVE  SInv'
<1> DEFINE j == main.rec.job
<1>1. main.pc = "retain" /\ main.pc \in Handling /\ main \in MainRec /\ Typed
      /\ UNCHANGED <<received, state, work, heard, dropped, exposed, torn>>
  BY DEF RecoverRetain, Handling, history, IInv, Typed
<1>2. j \in Job /\ OfMember(main.rec) /\ ByMember(main.rec)
  BY <1>1, Handled
<1>3. main'.rec = main.rec /\ main'.pc = "close"
  BY <1>1 DEF RecoverRetain, MainRec
<1>4. \A i \in Job \ {j} : disk'[i] = disk[i]
  BY <1>1, <1>2 DEF RecoverRetain, Retained, Typed
<1>5. j \in Job \ Lead => disk'[j] = disk[j]
  BY <1>2 DEF RecoverRetain, ByMember
<1>6. ASSUME state.job = j, j \in Known PROVE Whole(state)'
  <2>1. state = main.rec /\ main.rec.status = "uploaded"
    BY <1>1, <1>6 DEF IInv, Recovering, Known, Handling
  <2> QED
    BY <1>1, <2>1 DEF Whole
<1>7. j \in Known => Gapless(received[j], dropped[j])
  BY DEF SInv, Delivers
<1> QED
  BY <1>1, <1>3, <1>4, <1>5, <1>6, <1>7, RecoverySteps

\* What a recovery sends is everything that was captured, or a member's rendering.
LEMMA RecoverUploadWhole ==
  ASSUME IInv, SInv, RecoverUpload
  PROVE  SInv'
<1> DEFINE j == main.rec.job
           path == main.rec.path
<1>1. main.pc = "resend" /\ main.pc \in Handling /\ main \in MainRec /\ Typed /\ path \in File
      /\ UNCHANGED <<disk, work, heard, dropped, exposed, torn>>
  BY DEF RecoverUpload, Handling, history, IInv, Typed
<1>2. j \in Job /\ OfMember(main.rec) /\ main.rec \in Snapshots
  BY <1>1, Handled
<1>3. CASE RecoveryPending /\ UNCHANGED <<received, state>>
  BY <1>1, <1>3, RecoveryOver
<1>4. CASE /\ received' = [received EXCEPT ![j] = disk[j][path]]
           /\ \/ /\ state' = [main.rec EXCEPT !.status = "uploaded"]
                 /\ main' = [main EXCEPT !.pc = "retain", !.rec.status = "uploaded"]
              \/ RecoveryPending /\ UNCHANGED state
  <2>1. received'[j] = disk[j][path] /\ \A i \in Job \ {j} : received'[i] = received[i]
    BY <1>1, <1>2, <1>4 DEF Typed
  <2>2. j \in Job \ Lead => received'[j] \in {received[j], disk[j].render}
    BY <1>1, <1>2, <2>1, AgentCaptureAssumption DEF OfMember
  <2>3. ASSUME j \in Known PROVE Gapless(received'[j], dropped'[j])
    <3>1. /\ j \in Lead /\ heard[j] \subseteq disk[j][path] \cup dropped[j]
          /\ disk[j][path] \subseteq heard[j]
      BY <1>1, <2>3 DEF SInv, RecoveryWhole, Captured, Known
    <3>2. PICK n \in 0..Pieces : heard[j] = 1..n
      BY <3>1 DEF SInv, Captured
    <3>3. Gapless(heard[j], dropped[j])
      BY <3>2 DEF Gapless
    <3> QED
      BY <1>1, <2>1, <3>1, <3>3, Full
  <2>4. Captured' /\ Known' = Known /\ Lead' = Lead
    BY <1>1 DEF SInv, Captured, Known, Lead
  <2>5. CASE /\ state' = [main.rec EXCEPT !.status = "uploaded"]
             /\ main' = [main EXCEPT !.pc = "retain", !.rec.status = "uploaded"]
    <3>1. state'.job = j /\ state'.status = "uploaded" /\ state'.path = path
      BY <1>2, <2>5 DEF Snapshots
    <3>2. main'.rec.job = j /\ main'.rec.path = path /\ main'.pc = "retain"
      BY <1>1, <1>2, <2>5 DEF Snapshots, MainRec
    <3>3. Whole(state)' /\ OfMember(state)'
      BY <1>2, <2>4, <3>1 DEF Whole, OfMember
    <3> QED
      BY <1>1, <2>1, <2>2, <2>3, <2>4, <3>1, <3>2, <3>3, RecoverySteps
  <2>6. CASE RecoveryPending /\ UNCHANGED state
    <3>1. main'.rec = NoState /\ main'.pc = "loop"
      BY <1>1, <2>6 DEF RecoveryPending, MainRec
    <3>2. ASSUME state.job = j, j \in Known PROVE Whole(state)'
      BY <1>1, <2>6, <3>2, Handled DEF SInv, StateWhole, Whole
    <3> QED
      BY <1>1, <2>1, <2>2, <2>3, <2>4, <2>6, <3>1, <3>2, RecoverySteps DEF Handling
  <2> QED
    BY <1>4, <2>5, <2>6
<1> QED
  BY <1>3, <1>4 DEF RecoverUpload, Attach

\* What a recovery stitches is everything that was captured.
LEMMA RecoverStitchWhole ==
  ASSUME IInv, SInv, RecoverStitch, Captured'
  PROVE  SInv'
<1> DEFINE rec == main.rec
           j == main.rec.job
           needed == rec.segs # {} /\ rec.segs \subseteq disk[j].segment
<1>1. main.pc = "recover" /\ main.pc \in Handling /\ main \in MainRec /\ Typed /\ Recoverable(rec)
      /\ UNCHANGED <<received, heard, dropped, exposed, torn>>
  BY DEF RecoverStitch, Handling, history, IInv, Typed
<1>2. j \in Job /\ OfMember(rec) /\ ByMember(rec) /\ rec \in Snapshots
      /\ rec.path \in File /\ disk[j][rec.path] # {}
      /\ rec.status \in {"running", "captured", "upload_pending"}
  BY <1>1, Handled DEF Recoverable, Snapshots
<1>3. ASSUME j \in Known
      PROVE  /\ \/ rec.path = "raw" /\ rec.segs = disk[j].segment
                   /\ heard[j] \subseteq disk[j].raw \cup disk[j].segment \cup dropped[j]
                \/ ~needed /\ heard[j] \subseteq disk[j][rec.path] \cup dropped[j]
             /\ Gapless(received[j], dropped[j])
             /\ state.job = j => state = rec
  <2>1. Whole(rec) /\ Sound(rec) /\ (state.job = j => state = rec) /\ KeptOf(j)
        /\ Gapless(received[j], dropped[j]) /\ j \notin exposed
    BY <1>1, <1>3 DEF SInv, RecoveryWhole, Delivers, IInv, Recovering, Kept, Known, Handling
  <2>2. CASE rec.status = "upload_pending"
    BY <2>1, <2>2 DEF Whole, Sound
  <2>3. CASE rec.status # "upload_pending"
    <3>1. rec.path = "raw" /\ rec.segs = disk[j].segment /\ heard[j] \subseteq Core(j)
      BY <1>2, <2>1, <2>3, AgentCaptureAssumption DEF Whole, Sound, Unsent
    <3>2. disk[j].stitched = {}
      BY <1>2, <2>1, <3>1 DEF KeptOf
    <3> QED
      BY <2>1, <3>1, <3>2 DEF Core
  <2> QED
    BY <2>2, <2>3
<1>4. CASE /\ ~needed
           /\ main' = [main EXCEPT !.pc = "resend",
                                   !.rec.master = IF @ = NoFile THEN rec.path ELSE @]
           /\ UNCHANGED <<disk, state, work>>
  <2>1. main'.rec.job = j /\ main'.rec.path = rec.path /\ main'.pc = "resend"
    BY <1>1, <1>2, <1>4 DEF MainRec, Snapshots
  <2>2. j \in Known => heard[j] \subseteq disk[j][rec.path] \cup dropped[j]
    BY <1>3, <1>4
  <2>3. state.job = j /\ j \in Known => Whole(state)'
    BY <1>1, <1>4, Handled DEF SInv, StateWhole, Whole
  <2> QED
    BY <1>1, <1>3, <1>4, <2>1, <2>2, <2>3, RecoverySteps
<1>5. CASE /\ needed /\ disk' = StitchedDisk(j, rec.segs, rec.path)
           /\ work' = [w \in Worker |-> IF work[w].pc \in Capturing /\ Primary(w) = j
                                       THEN [work[w] EXCEPT !.linked = FALSE] ELSE work[w]]
           /\ main' = [main EXCEPT !.pc = "resend", !.rec.path = "stitched",
                                   !.rec.master = "stitched"]
           /\ UNCHANGED state
  <2>1. main'.rec.job = j /\ main'.rec.path = "stitched" /\ main'.pc = "resend"
    BY <1>1, <1>2, <1>5 DEF MainRec, Snapshots
  <2>2. \A w \in Worker : /\ work'[w].pc = work[w].pc /\ work'[w].jobs = work[w].jobs
                          /\ work'[w].segs = work[w].segs /\ work'[w].master = work[w].master
    BY <1>1, <1>5 DEF Typed, WorkRec
  <2>3. j \in Lead
    BY <1>2, <1>5 DEF ByMember
  <2>4. \A i \in Job \ {j} : disk'[i] = disk[i]
    BY <1>1, <1>2, <1>5 DEF StitchedDisk, Typed
  <2>5. ASSUME j \in Known
        PROVE  disk'[j].stitched = rec.segs \cup disk[j].raw /\ disk'[j].raw = {} /\ rec.path = "raw"
    <3>1. rec.path = "raw" /\ rec.segs \in SUBSET Piece
      BY <1>2, <1>3, <1>5, <2>5 DEF Snapshots
    <3> QED
      BY <1>1, <1>2, <1>5, <3>1, Stitched DEF File
  <2>6. j \in Known => heard[j] \subseteq disk'[j].stitched \cup dropped[j]
    BY <1>3, <1>5, <2>5
  <2>7. ASSUME state.job = j, j \in Known PROVE Whole(state)'
    <3>1. state = rec /\ rec.path = "raw" /\ disk'[j].raw = {}
      BY <1>3, <2>5, <2>7
    <3>2. rec.status # "upload_pending"
      <4>1. rec.status = "upload_pending" => rec.segs \cap disk[j].segment = {}
        BY <1>1, <2>7 DEF IInv, Recovering, Sound, Known, Handling
      <4> QED
        BY <1>5, <4>1
    <3> QED
      BY <1>5, <3>1, <3>2 DEF Whole
  <2> QED
    BY <1>1, <1>3, <1>5, <2>1, <2>2, <2>3, <2>4, <2>6, <2>7, RecoverySteps
<1>6. CASE Recovered("failed") /\ UNCHANGED <<disk, work>>
  <2>1. /\ state' = [main.rec EXCEPT !.status = "failed"] /\ "failed" \in Ended
        /\ main'.rec = NoState /\ main'.pc = "loop"
    BY <1>1, <1>6 DEF Recovered, MainRec, Ended
  <2> QED
    BY <1>1, <1>6, <2>1, RecoveryOver
<1> QED
  BY <1>4, <1>5, <1>6 DEF RecoverStitch

-----------------------------------------------------------------------------
(* The theorem *)

\* Every step keeps what is known of the start of a recording.
LEMMA StepSInv ==
  ASSUME IInv, SInv, [Next]_vars
  PROVE  SInv'
<1>1. Captured'
  BY CapturedStep DEF SInv
<1>2. ASSUME NEW w \in Worker, WorkerStep(w)
      PROVE  SInv'
  <2>1. CASE StartCapture(w) \/ Record(w) \/ Respawn(w) \/ RecordSegments(w)
    BY <1>1, <2>1, StartWhole, RecordWhole, RespawnWhole, RecordSegmentsWhole
  <2>2. CASE StopCapture(w) \/ FinishCapture(w) \/ CaptureFails(w)
    BY <2>2, EndsWhole, FinishCaptureWhole
  <2>3. CASE Stitch(w) \/ Render(w) \/ Checkpoint(w)
    BY <1>1, <2>3, StitchWhole, RenderWhole, CheckpointWhole
  <2>4. CASE Upload(w) \/ RenderMember(w) \/ UploadMember(w) \/ Retain(w)
    BY <1>1, <2>4, UploadWhole, RenderMemberWhole, UploadMemberWhole, RetainWhole
  <2> QED
    BY <1>2, <2>1, <2>2, <2>3, <2>4 DEF WorkerStep
<1>3. ASSUME NEW w \in Worker, LoseDevice(w)
      PROVE  SInv'
  BY <1>1, <1>3, LoseDeviceWhole
<1>4. ASSUME NEW w \in Worker, NEW s \in Sessions, Claim(w, s)
      PROVE  SInv'
  BY <1>4, ClaimWhole
<1>5. CASE MainStep
  BY <1>1, <1>5, ReconcileWhole, RecoverStitchWhole, RecoverUploadWhole, RecoverRetainWhole,
     RecoverFailsWhole DEF MainStep
<1>6. CASE Environment \/ UNCHANGED vars
  BY <1>6, EnvironmentWhole
<1> QED
  BY <1>2, <1>3, <1>4, <1>5, <1>6 DEF Next

\* Nothing is captured at first.
LEMMA InitSInv ==
  ASSUME Init
  PROVE  SInv
<1>1. /\ \A j \in Job : heard[j] = {} /\ received[j] = {} /\ \A f \in File : disk[j][f] = {}
      /\ Lead \subseteq Job /\ \A j \in Job : Shared(j) \subseteq Job
  BY Apart DEF Init, NoAudio
<1>2. Captured
  <2>1. 0 \in 0..Pieces /\ 1..0 = {}
    BY AgentCaptureAssumption
  <2> QED
    BY <1>1, <2>1 DEF Captured
<1>3. Delivers
  BY <1>1, FileIs DEF Delivers, Known, Gapless, Members
<1>4. Remembering
  BY DEF Init, Remembering, Busy, Idle
<1>5. state.job = NoJob /\ main.rec.job = NoJob /\ NoJob \notin Job
  BY AgentCaptureAssumption DEF Init, NoState, Resting
<1>6. StateWhole /\ RecoveryWhole /\ OfMember(state) /\ OfMember(main.rec)
  BY <1>1, <1>5 DEF StateWhole, RecoveryWhole, OfMember, Known
<1> QED
  BY <1>2, <1>3, <1>4, <1>6 DEF SInv

\* The controller never has a recording that misses its start (plan_restart_stitch
\* and the segments of a lost device), whatever crashed, failed or got lost, for any
\* number of jobs, sessions, workers, pieces and faults.
THEOREM StartIsKept == Spec => []StartKept
<1>1. Spec => []SInv
  <2>1. Spec => []IInv
    BY AgentInvariant
  <2>2. Init => SInv
    BY InitSInv
  <2>3. IInv /\ SInv /\ [Next]_vars => SInv'
    BY StepSInv
  <2> QED
    BY <2>1, <2>2, <2>3, PTL DEF Spec
<1>2. SInv => StartKept
  <2> SUFFICES ASSUME SInv, NEW s \in Sessions, NEW i \in DOMAIN s,
                      s[1] \notin exposed \cup torn, s[i] \notin exposed
               PROVE  Gapless(received[s[i]], dropped[s[1]])
    BY DEF StartKept, Gapless
  <2>1. s[1] \in Known /\ s[i] \in Shared(s[1])
    <3>1. s \in Seq(Job)
      BY AgentCaptureAssumption
    <3>2. s[i] \in Job
      BY <3>1
    <3> QED
      BY <3>2 DEF Known, Lead, Shared
  <2> QED
    BY <2>1 DEF SInv, Delivers, Members
<1> QED
  BY <1>1, <1>2, PTL
=============================================================================
