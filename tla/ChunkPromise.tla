---------------------------- MODULE ChunkPromise ----------------------------
(***************************************************************************)
(* What the agent and the controller promise of the chunks of a recording; *)
(* how they keep it is ChunkDelivery.                                      *)
(***************************************************************************)
CONSTANT Dest    \* destinations of the recording's upload policies

VARIABLES
  rec,      \* the recording's status
  items,    \* the statuses of a chunk's items for a destination
  kept,     \* chunks whose cached object the controller has
  local,    \* chunk files on the node
  closed,   \* history: the chunks that closed
  guessed   \* history: why the total that a recovery sends need not be true

Delivered(k) == \E d \in Dest : "succeeded" \in items[k][d]

\* A chunk that closed is on the node, in the controller's cache or delivered:
\* no crash, retry or lost answer between the three loses it.
ChunkKept == \A k \in closed : k \in local \cup kept \/ Delivered(k)

\* A recording that reads `uploaded` is whole: every chunk that closed is at a
\* destination, whether its render failed, its rows were written back stale or
\* its uploads came twice.  A crash in mid-capture hides how many there were, and
\* an end on a chunk boundary with uploads pending counts only the uploaded ones.
UploadedIsWhole == rec = "uploaded" /\ guessed = {} => \A k \in closed : Delivered(k)

\* The two together.
ChunksKept == ChunkKept /\ UploadedIsWhole

\* What the comment of chunkedRecordingFinalization says, also after such an end:
\* "a gap (present < total, e.g. a dropped chunk) or any degraded chunk means
\* `partial`, not `uploaded`" (upload-runner.ts).
GapIsPartial == rec = "uploaded" /\ "crash" \notin guessed => \A k \in closed : Delivered(k)
=============================================================================
