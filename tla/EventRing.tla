----------------------------- MODULE EventRing -----------------------------
(***************************************************************************)
(* The ring buffer CEventChainExecutionThread uses twice, for mEventList   *)
(* and for mExternalEventList (src/src/core/ecet.h, ecet.cpp): an array of *)
(* event-entry pointers and the two pointers Start (next entry to take)    *)
(* and End (next slot to fill), both moving DOWN the array and wrapping    *)
(* from element 0 to the last one.  A zero pointer marks a free slot.      *)
(*                                                                         *)
(* The operators below are the code's operations, written once for both    *)
(* rings.  Contiguous and Unlocked state what the two pointers mean.       *)
(***************************************************************************)
EXTENDS Integers

CONSTANTS Event,     \* SEventEntry values: a function block and its input
          NoEvent    \* the null pointer

ASSUME NoEventAssumption == NoEvent \notin Event

Ring(size) == [list  : [0 .. size - 1 -> Event \cup {NoEvent}],
               start : 0 .. size - 1,
               end   : 0 .. size - 1]

(* clear(): the memset, then both pointers set on the last element.        *)
ZeroList(r, size) == [list  |-> [i \in 0 .. size - 1 |-> NoEvent],
                      start |-> r.start,
                      end   |-> r.end]
ResetPointers(r, size) == [list  |-> r.list,
                           start |-> size - 1,
                           end   |-> size - 1]
EmptyRing(size) == [list  |-> [i \in 0 .. size - 1 |-> NoEvent],
                    start |-> size - 1,
                    end   |-> size - 1]

(* "wrap the ringbuffer": the slot that follows slot i.                    *)
\* A faulty NextSlot, in no behaviour of the specification.
NextSlotNoWrap(i, size) == i - 1
NextSlot(i, size) == IF i = 0 THEN size - 1 ELSE i - 1

Accepts(r) == r.list[r.end] = NoEvent

(* The body shared by addEventEntry and startEventChain: an event that     *)
(* finds the End slot taken is dropped; End moves on unless that would     *)
(* make it meet Start, so a full ring has its End slot filled.             *)
\* A faulty Add, in no behaviour of the specification.
AddPastFull(r, size, e) ==
  IF ~Accepts(r)
    THEN r
    ELSE [list  |-> [r.list EXCEPT ![r.end] = e],
          start |-> r.start,
          end   |-> NextSlot(r.end, size)]
Add(r, size, e) ==
  IF ~Accepts(r)
    THEN r
    ELSE [list  |-> [r.list EXCEPT ![r.end] = e],
          start |-> r.start,
          end   |-> IF r.start # NextSlot(r.end, size)
                      THEN NextSlot(r.end, size) ELSE r.end]

(* Zero the Start slot and move Start on.                                  *)
\* A faulty RemoveFirst, in no behaviour of the specification.
RemoveKeepingEntry(r, size) ==
  [list |-> r.list, start |-> NextSlot(r.start, size), end |-> r.end]
RemoveFirst(r, size) ==
  [list  |-> [r.list EXCEPT ![r.start] = NoEvent],
   start |-> NextSlot(r.start, size),
   end   |-> r.end]

(* Zero the Start slot and leave Start where it is: how                    *)
(* transferExternalEvents takes the last entry of a ring that was full.    *)
ClearFirst(r) ==
  [list  |-> [r.list EXCEPT ![r.start] = NoEvent],
   start |-> r.start,
   end   |-> r.end]

-----------------------------------------------------------------------------
(* The slots from Start down to End, End excluded.                         *)
InUse(r, i) == IF r.end <= r.start THEN r.end < i /\ i <= r.start
                                   ELSE i <= r.start \/ r.end < i

(* The slots in use hold events and every other one but End is free.       *)
Contiguous(r, size) ==
  \A i \in 0 .. size - 1 :
    /\ InUse(r, i) => r.list[i] \in Event
    /\ ~InUse(r, i) /\ i # r.end => r.list[i] = NoEvent

(* The End slot is filled only when the ring is full.  When a ring loses   *)
(* this it is "locked": End stays on a filled slot while Start moves away, *)
(* so nothing can be added although slots are free.                        *)
Unlocked(r, size) == r.list[r.end] # NoEvent => r.start = NextSlot(r.end, size)

(* Number of events in a contiguous ring.                                  *)
Distance(r, size) == IF r.end <= r.start THEN r.start - r.end
                                         ELSE r.start - r.end + size
Count(r, size) == Distance(r, size) + IF Accepts(r) THEN 0 ELSE 1

(* The events of a contiguous ring in the order they were added.           *)
Slot(r, size, k) == IF k <= r.start + 1 THEN r.start + 1 - k
                                        ELSE r.start + 1 - k + size
Contents(r, size) ==
  [k \in 1 .. Count(r, size) |-> r.list[Slot(r, size, k)]]
=============================================================================
