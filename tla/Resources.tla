------------------------------ MODULE Resources ------------------------------
(***************************************************************************)
(* The resource manager of each process (kernel/src/threading/resources.rs)*)
(* and the calls that use it (drivers/vfs/expose.rs, threading/expose.rs): *)
(* a Vec of resources with holes, and next_ri, where the search for a hole *)
(* starts.  A Vec is a function from 0 .. length - 1.                      *)
(***************************************************************************)
EXTENDS Integers

CONSTANTS Procs,        \* processes
          First,        \* the one that exists at the start (Eve)
          Objects,      \* files and directories that can be opened
          MaxFds        \* bound: length of a resource table

ASSUME FirstAssumption == First \in Procs
ASSUME MaxFdsAssumption == MaxFds \in Nat \ {0}

VARIABLES resources,    \* ResourceManager::resources, per process
          len,          \* its length
          next_ri,      \* ResourceManager::next_ri
          state         \* "Unborn", "Alive" or "Dead"

vars == <<resources, len, next_ri, state>>

Null == [kind |-> "Null", of |-> 0]
File(o) == [kind |-> "File", of |-> o]
DirIter(o) == [kind |-> "DirIter", of |-> o]
Open == {File(o) : o \in Objects} \cup {DirIter(o) : o \in Objects}

Empty == [i \in {} |-> 0]
Index(p) == 0 .. len[p] - 1

\* ResourceManager::new
Init ==
    /\ resources = [p \in Procs |-> Empty]
    /\ len = [p \in Procs |-> 0]
    /\ next_ri = [p \in Procs |-> 0]
    /\ state = [p \in Procs |-> IF p = First THEN "Alive" ELSE "Unborn"]

\* Mutant: the search starts one slot too far.
IsSlotAfter(p, ri) ==
    /\ ri \in next_ri[p] .. len[p]
    /\ ri < len[p] => resources[p][ri] = Null
    /\ next_ri[p] < len[p] => ri > next_ri[p]
    /\ \A i \in next_ri[p] + 1 .. ri - 1 : resources[p][i] # Null

-----------------------------------------------------------------------------
\* ri is where add_resource puts a new resource: the first hole from next_ri
\* on, or else the end of the Vec.
IsSlot(p, ri) ==
    /\ ri \in next_ri[p] .. len[p]
    /\ ri < len[p] => resources[p][ri] = Null
    /\ \A i \in next_ri[p] .. ri - 1 : resources[p][i] # Null

\* The Vec of p with r at index ri, pushed if ri is its end.
Placed(p, ri, r) ==
    [i \in 0 .. (IF ri = len[p] THEN len[p] ELSE len[p] - 1) |->
        IF i = ri THEN r ELSE resources[p][i]]

LenWith(p, ri) == IF ri = len[p] THEN len[p] + 1 ELSE len[p]

\* ResourceManager::add_resource
AddResource(p, r) ==
    \E ri \in 0 .. MaxFds - 1 :
        /\ IsSlot(p, ri)
        /\ resources' = [resources EXCEPT ![p] = Placed(p, ri, r)]
        /\ len' = [len EXCEPT ![p] = LenWith(p, ri)]
        /\ next_ri' = [next_ri EXCEPT ![p] = ri]

\* Mutant: next_ri is not moved back to the hole.
RemoveResourceKeepsNext(p, ri) ==
    /\ resources' = [resources EXCEPT ![p][ri] = Null]
    /\ UNCHANGED <<len, next_ri>>

\* ResourceManager::remove_resource of an index below the length
RemoveResource(p, ri) ==
    /\ resources' = [resources EXCEPT ![p][ri] = Null]
    /\ next_ri' = [next_ri EXCEPT ![p] = IF ri < @ THEN ri ELSE @]
    /\ UNCHANGED len

-----------------------------------------------------------------------------
\* expose::open
OpenFile(p) ==
    /\ \E o \in Objects : AddResource(p, File(o))
    /\ UNCHANGED state

\* expose::close: the index must hold a file.
CloseFile(p) ==
    /\ \E ri \in Index(p) :
         /\ resources[p][ri].kind = "File"
         /\ RemoveResource(p, ri)
    /\ UNCHANGED state

\* expose::diriter_open: the index must hold a file.
DirIterOpen(p) ==
    /\ \E ri \in Index(p) :
         /\ resources[p][ri].kind = "File"
         /\ AddResource(p, DirIter(resources[p][ri].of))
    /\ UNCHANGED state

\* expose::diriter_close: any index below the length, whatever it holds.
DirIterClose(p) ==
    /\ \E ri \in Index(p) : RemoveResource(p, ri)
    /\ UNCHANGED state

\* overwrite_resources(clone_resources()) on the child's new manager: the Vec
\* is copied, next_ri stays 0.
CloneInto(q, vec, n) ==
    /\ resources' = [resources EXCEPT ![q] = vec]
    /\ len' = [len EXCEPT ![q] = n]
    /\ next_ri' = [next_ri EXCEPT ![q] = 0]

\* expose::spawn, with or without CLONE_RESOURCES
Spawn(p, q) ==
    /\ state[q] = "Unborn"
    /\ state' = [state EXCEPT ![q] = "Alive"]
    /\ CloneInto(q, resources[p], len[p]) \/ CloneInto(q, Empty, 0)

\* expose::pspawn opens the program's file in the caller, and leaves it open
\* whether or not the program can be spawned.
PSpawn(p, q) ==
    \E ri \in 0 .. MaxFds - 1, o \in Objects :
        LET vec == Placed(p, ri, File(o))
            n   == LenWith(p, ri)
        IN  /\ IsSlot(p, ri)
            /\ state[q] = "Unborn"
            /\ state' = [state EXCEPT ![q] = "Alive"]
            /\ \/ /\ resources' = [resources EXCEPT ![p] = vec, ![q] = vec]
                  /\ len' = [len EXCEPT ![p] = n, ![q] = n]
               \/ /\ resources' = [resources EXCEPT ![p] = vec, ![q] = Empty]
                  /\ len' = [len EXCEPT ![p] = n, ![q] = 0]
            /\ next_ri' = [next_ri EXCEPT ![p] = ri, ![q] = 0]

PSpawnFails(p) ==
    /\ \E o \in Objects : AddResource(p, File(o))
    /\ UNCHANGED state

\* sysexit: clean() and the drop of the manager with the AliveProcessState.
Exit(p) ==
    /\ p # First
    /\ state' = [state EXCEPT ![p] = "Dead"]
    /\ resources' = [resources EXCEPT ![p] = Empty]
    /\ len' = [len EXCEPT ![p] = 0]
    /\ next_ri' = [next_ri EXCEPT ![p] = 0]

Next ==
    \E p \in {q \in Procs : state[q] = "Alive"} :
        \/ OpenFile(p)
        \/ CloseFile(p)
        \/ DirIterOpen(p)
        \/ DirIterClose(p)
        \/ \E q \in Procs : Spawn(p, q) \/ PSpawn(p, q)
        \/ PSpawnFails(p)
        \/ Exit(p)

Spec == Init /\ [][Next]_vars

-----------------------------------------------------------------------------
TypeOK ==
    /\ len \in [Procs -> 0 .. MaxFds]
    /\ next_ri \in [Procs -> Nat]
    /\ state \in [Procs -> {"Unborn", "Alive", "Dead"}]
    /\ DOMAIN resources = Procs
    /\ \A p \in Procs : resources[p] \in [Index(p) -> Open \cup {Null}]

\* The slice resources[next_ri..] in add_resource is in bounds, and no hole is
\* below next_ri, so a search that starts there misses none.
NoHoleMissed ==
    \A p \in Procs :
        /\ next_ri[p] <= len[p]
        /\ \A i \in 0 .. next_ri[p] - 1 : resources[p][i] # Null

\* The indices in use of process p and what they denote.
Table(p) == [i \in {k \in Index(p) : resources[p][k] # Null} |-> resources[p][i]]

\* The managers implement tables with lowest-free-index allocation: an index
\* keeps denoting what was opened until its process closes it or exits.
Tables == INSTANCE FdTable WITH
    table <- [p \in Procs |-> Table(p)],
    alive <- {p \in Procs : state[p] = "Alive"},
    Resource <- Open

TableSpec == Tables!Spec
=============================================================================
