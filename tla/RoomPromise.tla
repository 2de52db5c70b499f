----------------------------- MODULE RoomPromise -----------------------------
(***************************************************************************)
(* What the room of a schedule and the calendar rows of its roster promise *)
(* each other, and what an assignment that failed promises the next one.   *)
(***************************************************************************)
CONSTANTS
  NoRoom,
  Schedule

VARIABLES
  home,        \* audio_channels.room_id
  bookings,    \* the schedules: room, channels and assignees
  roster,      \* room_roster, the rows from the calendar
  call,        \* the requests in flight
  spoilt,      \* history: schedules a race or a failure may have left behind
  undone       \* history: schedules whose move was undone and not tried again

Booked(s) == bookings[s].is = "there"

\* resolveSelectionRoom: one room, or none when they are none or several.
Homes(homes, sel) == {homes[c] : c \in sel} \ {NoRoom}
ResolvedRoom(homes, sel) ==
  LET found == Homes(homes, sel) IN
  IF \E r \in found : found = {r} THEN CHOOSE r \in found : TRUE ELSE NoRoom

\* The calendar rows of a schedule: those it should have, and those there are.
RowsOf(s, booking) ==
  IF booking.room = NoRoom THEN {}
  ELSE {[schedule |-> s, room |-> booking.room, subject |-> x] : x \in booking.who}
RowsThere(s) == {x \in roster : x.schedule = s}

\* A schedule is in the room of its channels, in none when they span rooms, and the
\* roster has its assignees in that room and nowhere else.
InOrder(s) ==
  IF Booked(s)
  THEN /\ bookings[s].room = ResolvedRoom(home, bookings[s].sel)
       /\ RowsThere(s) = RowsOf(s, bookings[s])
  ELSE RowsThere(s) = {}

\* When no request is in flight, a schedule is in order ("Schedules carry a roomId
\* ... that is the source of truth", "removing the assignment or schedule removes the
\* entry", rooms.md).  Excused are schedules that racing requests or a failure left
\* behind, until a request writes them alone again.
BookingsAgree ==
  (\A q \in DOMAIN call : call[q].pc = "idle") => \A s \in Schedule \ spoilt : InOrder(s)

\* A schedule whose move was undone is seen by the next assignment as not moved yet
\* ("so a retry PUT re-detects the move", channel-room-routes.ts).
RetryDetects ==
  \A s \in undone : Booked(s) => bookings[s].room # ResolvedRoom(home, bookings[s].sel)

\* Both.
RoomsAgree == BookingsAgree /\ RetryDetects
==============================================================================
