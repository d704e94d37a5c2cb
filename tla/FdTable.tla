------------------------------- MODULE FdTable -------------------------------
(***************************************************************************)
(* What user programs rely on of their resource indices: a table from      *)
(* indices to open things, private to each process, in which a new         *)
(* resource gets the lowest free index.                                    *)
(***************************************************************************)
EXTENDS Naturals

CONSTANTS Procs, Resource, First, MaxFds

VARIABLES table,        \* per process: a function from the indices in use
          alive         \* the processes that have a table

Init ==
    /\ table = [p \in Procs |-> [i \in {} |-> 0]]
    /\ alive = {First}

EmptyTable == [i \in {} |-> 0]

Lowest(t, i) == i \notin DOMAIN t /\ \A j \in 0 .. i - 1 : j \in DOMAIN t

Put(t, i, r) == [j \in DOMAIN t \cup {i} |-> IF j = i THEN r ELSE t[j]]

Drop(t, i) == [j \in DOMAIN t \ {i} |-> t[j]]

\* The tables with one more resource than t, at its lowest free index.
OneMore(t) ==
    {Put(t, i, r) : i \in {k \in 0 .. MaxFds - 1 : Lowest(t, k)}, r \in Resource}

Add(p) ==
    /\ \E t \in OneMore(table[p]) : table' = [table EXCEPT ![p] = t]
    /\ UNCHANGED alive

Close(p) ==
    /\ \E i \in DOMAIN table[p] : table' = [table EXCEPT ![p] = Drop(table[p], i)]
    /\ UNCHANGED alive

\* A child starts with a copy of its parent's table or with an empty one; the
\* parent may have opened the program's file first.
Fork(p, q) ==
    /\ q \in Procs \ alive
    /\ alive' = alive \cup {q}
    /\ \E t \in OneMore(table[p]) \cup {table[p]} : \E c \in {t, EmptyTable} :
         table' = [table EXCEPT ![p] = t, ![q] = c]

Exit(p) ==
    /\ alive' = alive \ {p}
    /\ table' = [table EXCEPT ![p] = EmptyTable]

Next == \E p \in alive : Add(p) \/ Close(p) \/ Exit(p) \/ \E q \in Procs : Fork(p, q)

Spec == Init /\ [][Next]_<<table, alive>>
=============================================================================
