--------------------------- MODULE InventoryPromise ---------------------------
(***************************************************************************)
(* What the audio interfaces of a node promise; how reports and edits      *)
(* write them is NodeInventory.                                            *)
(***************************************************************************)
EXTENDS FiniteSets, Naturals, Sequences

CONSTANTS
  Device,      \* stable references (systemRef)
  NoReport

VARIABLES
  interfaces,  \* audio_interfaces, each with its audio_channels
  given,       \* history: the label an operator last gave a channel of a device
  torn,        \* history: rows whose channels a fault left unfinished
  raced,       \* history: devices whose rows or channels overlapping reports wrote
  shown        \* history: the report that just ended, if it ran alone

Interfaces == 1..Len(interfaces)

\* A report that ran alone leaves the inventory as the hardware is ("a node's
\* interfaces are correct", node-onboarding.md), whatever reports, edits and
\* faults came before: one row for each device with its facts and its channels,
\* and the other rows absent.  Excused are the devices that overlapping reports
\* wrote, which may have two rows for ever, and the channels of a row that a
\* fault cut off, which the shortcut never repairs.
InventoryWhole ==
  shown # NoReport =>
    \A d \in Device \ raced :
      LET mine == {r \in Interfaces : interfaces[r].ref = d} IN
      IF d \notin DOMAIN shown THEN \A r \in mine : interfaces[r].absent
      ELSE \E r \in mine :
             /\ mine = {r} /\ ~interfaces[r].absent
             /\ interfaces[r].count = shown[d].count /\ interfaces[r].port = shown[d].port
             /\ r \notin torn =>
                  /\ {c.index : c \in interfaces[r].channels} = 1..shown[d].count
                  /\ Cardinality(interfaces[r].channels) = shown[d].count

\* "Operator labels are preserved": a channel carries the label an operator gave
\* it last, however often its device was moved, unplugged and plugged in again,
\* unless the device lost the channel in between.
LabelsKept ==
  \A r \in Interfaces : interfaces[r].ref \notin raced =>
    \A c \in interfaces[r].channels : c.label = given[interfaces[r].ref][c.index]

\* Reports and edits that write the rows of a node one statement at a time leave
\* them as the hardware is and as the operators labelled them.
InventoryKept == InventoryWhole /\ LabelsKept
================================================================================
