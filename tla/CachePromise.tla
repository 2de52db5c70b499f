---------------------------- MODULE CachePromise ----------------------------
(***************************************************************************)
(* What a recorder's cache promises of the takes that stay in it; how the  *)
(* workers and the sweeps keep it is CacheRetention.                       *)
(***************************************************************************)
EXTENDS Integers, FiniteSets

CONSTANTS
  Policies,   \* the sequence of the policies
  Limits      \* of each: age, bytes and free disk; or to delete after the upload

VARIABLES
  clock,
  policy,     \* of each take, by its job
  files,      \* the files of takes on the disk
  manifest,   \* of each recording its place in it, the last with 1, or 0
  doing,      \* what the workers and the main loop do, each with its take
  delivered,  \* history: recordings whose take was uploaded
  orphaned    \* history: takes that a fault kept out of the manifest

\* A file of a delivered take that is still on the disk is within reach of a sweep: the
\* manifest names its take, or somebody is about to add it, or the next run of the
\* agent is ("so that recording's cache files leak untracked (never reclaimed by any
\* age/bytes/min-free policy)", recorder_cache_retention.rs).  Excused are takes that
\* a fault kept out of the manifest.
NothingLeaks ==
  \A f \in files :
    f.rec \in delivered \ orphaned =>
      manifest[f.rec] > 0 \/ \E p \in DOMAIN doing : doing[p].rec = f.rec

\* The sum of the sizes of files or candidates: their bytes, counted.
Bytes(things) == UNION {{x} \X (1..x.size) : x \in things}
Size(things) == Cardinality(Bytes(things))

\* The order in which candidates are deleted.
Before(b, c) == b.at < c.at \/ (b.at = c.at /\ b.pos > c.pos)

Aged(cands, p) == {c \in cands : clock - c.at >= Limits[p].age}
Under(cands, p) == {c \in cands : policy[c.rec] = p}

\* What a sweep leaves of the takes it found satisfies every policy, by the disk that
\* it measured, and it takes no more than the policies up to then ask for: a take that
\* is not too old goes only if, with it and what is younger, a limit would be broken.
SweepFits ==
  \A p \in DOMAIN doing : doing[p].pc = "delete" =>
    LET sweep == doing[p]
        kept == sweep.cands \ sweep.plan
        upTo(k) == UNION {Under(sweep.plan, Policies[i]) : i \in 1..k} IN
    \A k \in DOMAIN Policies :
      LET limit == Limits[Policies[k]]
          mine == Under(kept, Policies[k]) IN
      /\ Size(mine) <= limit.bytes
      /\ mine = {} \/ sweep.free + Size(sweep.plan) >= limit.free
      /\ \A c \in Under(sweep.plan, Policies[k]) \ Aged(sweep.cands, Policies[k]) :
           /\ \A b \in mine : Before(c, b)
           /\ \/ Size(mine \cup {c}) > limit.bytes
              \/ sweep.free + Size(upTo(k) \ {c}) < limit.free
              \/ \E b \in Under(sweep.plan, Policies[k]) : Before(c, b)
=============================================================================
