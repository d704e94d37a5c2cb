----------------------------- MODULE OrderedRing -----------------------------
(***************************************************************************)
(* What the scheduler expects of its list of processes: an ordered set     *)
(* with a cursor that goes round it.  Every element is larger than all     *)
(* those pushed before it, as the pids are.                                *)
(***************************************************************************)
EXTENDS Naturals

CONSTANT Nil            \* "no node": the cursor of an empty list

VARIABLES ring,         \* the elements
          cursor,       \* the element the list is at, or Nil
          pushed        \* how many elements have been pushed so far

Init == ring = {} /\ cursor = Nil /\ pushed = 0

\* Push to the end; the first element takes the cursor.
Push ==
    /\ ring' = ring \cup {pushed}
    /\ pushed' = pushed + 1
    /\ cursor' = IF ring = {} THEN pushed ELSE cursor

\* p is the largest element below v, or Nil if there is none.
IsBefore(p, v) ==
    \/ p = Nil /\ \A q \in ring : v <= q
    \/ p \in ring /\ p < v /\ \A q \in ring : q < v => q <= p

\* Remove v; a cursor on v falls back to the element before it.
Remove ==
    \E v \in ring :
        /\ ring' = ring \ {v}
        /\ IF cursor = v THEN IsBefore(cursor', v) ELSE cursor' = cursor
        /\ UNCHANGED pushed

\* s is the element after c, going round.
IsAfter(s, c) ==
    /\ s \in ring
    /\ \/ s > c /\ \A q \in ring : q > c => s <= q
       \/ \A q \in ring : s <= q /\ q <= c

\* Move the cursor on to the next element, from the last one to the first.
Advance ==
    /\ cursor # Nil
    /\ IsAfter(cursor', cursor)
    /\ UNCHANGED <<ring, pushed>>

Next == Push \/ Remove \/ Advance

Spec == Init /\ [][Next]_<<ring, cursor, pushed>>
=============================================================================
