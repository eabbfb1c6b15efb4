-------------------------------- MODULE Ring --------------------------------
(***************************************************************************)
(* What the user of a list on the screen is promised: one of its items is  *)
(* selected, Down selects the next one and Up the one before, and the ends *)
(* of the list meet.  In an empty list nothing can be selected.            *)
(***************************************************************************)
EXTENDS Naturals

VARIABLES size, \* the number of items
          at    \* the item that is selected, from 0

ringVars == <<size, at>>

RingInit == size \in Nat /\ at \in Nat /\ (size > 0 => at < size)

Next == size > 0 /\ at' = (IF at = size - 1 THEN 0 ELSE at + 1) /\ UNCHANGED size

Previous == size > 0 /\ at' = (IF at = 0 THEN size - 1 ELSE at - 1) /\ UNCHANGED size

RingSpec == RingInit /\ [][Next \/ Previous]_ringVars
=============================================================================
