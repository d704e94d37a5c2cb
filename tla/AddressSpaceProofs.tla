------------------------- MODULE AddressSpaceProofs -------------------------
(***************************************************************************)
(* No frame is in two places, for any number of processes, frames, levels  *)
(* and table sizes, and any layout and break.  The argument needs, besides *)
(* what is to be shown, only that a process without a call under way holds *)
(* no frame: what is allocated is fresh because everything referred to is  *)
(* marked used, and what is freed at exit is referred to by nobody else.   *)
(* That the heap is mapped up to the break is a second invariant, HeapInv, *)
(* on top of the first.                                                    *)
(***************************************************************************)
EXTENDS AddressSpace, TLAPS

\* A process that is in no call holds no frame.
IdleHoldsNone == \A p \in Procs : job[p].op = "idle" => DOMAIN held[p] = {}

IInv == TypeOK /\ Backed /\ Isolated /\ IdleHoldsNone

Job == [op : {"idle", "spawn", "sbrk"}, tree : Procs, step : Nat,
        pages : SUBSET Nat, amount : Nat]

LEMMA FrameFacts == NoFrame \notin Frame /\ 0 \in Frame
BY SizeAssumption DEF NoFrame, Frame

LEMMA IdleType == Idle \in Job
BY EveAssumption DEF Idle, Job

LEMMA NoTreeType == DOMAIN NoTree = {} /\ NoTree \in [DOMAIN NoTree -> Frame]
BY DEF NoTree

\* Putting frame f at node n of a tree, or of what a call holds.
LEMMA WithEntryFacts ==
    ASSUME NEW t, NEW n, NEW f \in Frame, t \in [DOMAIN t -> Frame],
           NEW w, w = WithEntry(t, n, f)
    PROVE  /\ w \in [DOMAIN w -> Frame]
           /\ \A m \in DOMAIN w : \/ m = n /\ w[m] = f
                                  \/ m \in DOMAIN t /\ w[m] = t[m]
BY DEF WithEntry

-----------------------------------------------------------------------------
LEMMA Initially == Init => IInv
<1> SUFFICES ASSUME Init PROVE IInv
    OBVIOUS
<1>1. TypeOK
    BY FrameFacts, IdleType, NoTreeType, EveAssumption DEF Init, TypeOK, Job
<1>2. Backed
    BY NoTreeType DEF Init, Backed
<1>3. Isolated
    BY NoTreeType DEF Init, Isolated
<1>4. IdleHoldsNone
    BY NoTreeType DEF Init, IdleHoldsNone
<1> QED BY <1>1, <1>2, <1>3, <1>4 DEF IInv

(***************************************************************************)
(* The steps of the induction.  Three kinds of step change who holds what: *)
(* a fresh frame is put somewhere, a held frame moves into a tree, and a   *)
(* tree is dropped (its frames freed or not).                              *)
(***************************************************************************)
LEMMA SpawnStartKeeps == IInv /\ SpawnStart => IInv'
<1> SUFFICES ASSUME IInv, SpawnStart PROVE IInv'
    OBVIOUS
<1> USE DEF IInv
<1>1. PICK q \in Procs, f \in Frame :
         /\ status[q] = "None" /\ f \notin used
         /\ used' = used \cup {f}
         /\ space' = [space EXCEPT ![q] = [n \in {Root} |-> f]]
         /\ cr3' = [cr3 EXCEPT ![q] = f]
         /\ status' = [status EXCEPT ![q] = "Loading"]
         /\ job' = [job EXCEPT ![cpu] = [Idle EXCEPT !.op = "spawn", !.tree = q]]
    BY DEF SpawnStart, IsFirstFree
<1>2. /\ UNCHANGED <<held, data_pages, data_break, cpu, panicked>>
      /\ cpu \in Procs
    BY DEF SpawnStart, TypeOK
<1>3. /\ [Idle EXCEPT !.op = "spawn", !.tree = q] \in Job
      /\ [Idle EXCEPT !.op = "spawn", !.tree = q].op = "spawn"
    BY IdleType DEF Job, Idle
<1>4. \A p \in Procs : job'[p].op = "idle" => job[p].op = "idle"
    BY <1>1, <1>2, <1>3 DEF TypeOK
<1>5. \A p \in Procs : \A n \in DOMAIN space'[p] :
         (p = q /\ n = Root /\ space'[p][n] = f) \/ (p # q /\ space'[p] = space[p])
    BY <1>1 DEF TypeOK
<1>6. TypeOK'
    <2>1. job' \in [Procs -> Job]
        BY <1>1, <1>3 DEF TypeOK, Job
    <2>2. /\ DOMAIN space' = Procs
          /\ \A p \in Procs : space'[p] \in [DOMAIN space'[p] -> Frame]
        BY <1>1 DEF TypeOK
    <2>3. used' \subseteq Frame
        BY <1>1 DEF TypeOK
    <2>4. /\ cr3' \in [Procs -> Frame \cup {NoFrame}]
          /\ status' \in [Procs -> {"None", "Loading", "Alive", "Zombie"}]
        BY <1>1 DEF TypeOK
    <2> QED BY <1>2, <2>1, <2>2, <2>3, <2>4 DEF TypeOK, Job
<1>7. Backed'
    BY <1>1, <1>2, <1>5 DEF Backed
<1>8. Isolated'
    BY <1>1, <1>2, <1>5 DEF Isolated, Backed
<1>9. IdleHoldsNone'
    BY <1>2, <1>4 DEF IdleHoldsNone
<1> QED BY <1>6, <1>7, <1>8, <1>9

\* A step that touches no frame.
LEMMA NoFrameMoves ==
    ASSUME IInv, UNCHANGED <<used, space, held>>
    PROVE  Backed' /\ Isolated'
BY DEF IInv, Backed, Isolated

LEMMA SbrkStartKeeps == IInv /\ SbrkStart => IInv'
<1> SUFFICES ASSUME IInv, SbrkStart PROVE IInv'
    OBVIOUS
<1>1. PICK k \in Amounts :
         /\ k >= 0
         /\ job' = [job EXCEPT ![cpu] =
                      [Idle EXCEPT !.op = "sbrk", !.tree = cpu, !.amount = k]]
    BY DEF SbrkStart
<1> DEFINE j == [Idle EXCEPT !.op = "sbrk", !.tree = cpu, !.amount = k]
<1>2. j \in Job /\ j.op = "sbrk"
    <2>1. k \in Nat /\ cpu \in Procs
        BY <1>1, AmountsAssumption DEF IInv, TypeOK
    <2> QED BY <2>1, IdleType DEF Job, Idle
<1> HIDE DEF j
<1>3. \A p \in Procs : job'[p] \in {job[p], j}
    BY <1>1 DEF j, IInv, TypeOK
<1>4. UNCHANGED <<used, space, status, cr3, held, data_pages, data_break, cpu, panicked>>
    BY DEF SbrkStart
<1>5. TypeOK'
    <2>1. job' \in [Procs -> Job]
        BY <1>1, <1>2 DEF j, IInv, TypeOK, Job
    <2> QED BY <1>4, <2>1 DEF IInv, TypeOK, Job
<1>6. Backed' /\ Isolated'
    BY <1>4, NoFrameMoves
<1>7. IdleHoldsNone'
    BY <1>2, <1>3, <1>4 DEF IInv, IdleHoldsNone
<1> QED BY <1>5, <1>6, <1>7 DEF IInv

LEMMA NextAreaKeeps == IInv /\ NextArea => IInv'
<1> SUFFICES ASSUME IInv, NextArea PROVE IInv'
    OBVIOUS
<1> DEFINE j == [job[cpu] EXCEPT !.step = job[cpu].step + 1, !.pages = Area]
<1>1. /\ job' = [job EXCEPT ![cpu] = j]
      /\ UNCHANGED <<used, space, status, cr3, held, data_pages, data_break, cpu, panicked>>
    BY DEF NextArea
<1>2. /\ cpu \in Procs /\ job \in [Procs -> Job] /\ job[cpu] \in Job
      /\ job[cpu].step \in Nat /\ data_pages[cpu] \in Nat
    BY DEF IInv, TypeOK, Job
<1>3. Area \in SUBSET Nat
    <2>1. CASE job[cpu].op = "spawn"
        <3>1. job[cpu].step + 1 \in 1 .. Len(Layout)
            BY <1>2, <2>1, LayoutAssumption DEF NextArea, More
        <3>2. Layout[job[cpu].step + 1] \in SUBSET Nat
            BY <3>1, LayoutAssumption
        <3> QED BY <2>1, <3>2 DEF Area
    <2>2. CASE job[cpu].op # "spawn"
        BY <1>2, <2>2, SizeAssumption DEF Area
    <2> QED BY <2>1, <2>2
<1>4. j \in Job /\ j.op = job[cpu].op
    <2> HIDE DEF Area
    <2>1. job[cpu].step + 1 \in Nat
        BY <1>2
    <2> QED BY <1>2, <1>3, <2>1 DEF Job
<1> HIDE DEF j
<1>5. job' \in [Procs -> Job] /\ \A p \in Procs : job'[p].op = job[p].op
    BY <1>1, <1>2, <1>4
<1>6. TypeOK'
    BY <1>1, <1>5 DEF IInv, TypeOK, Job
<1>7. Backed' /\ Isolated' /\ IdleHoldsNone'
    BY <1>1, <1>5, NoFrameMoves DEF IInv, IdleHoldsNone
<1> QED BY <1>6, <1>7 DEF IInv

\* A fresh frame is held by the process on the CPU.
LEMMA AllocPageKeeps == IInv /\ AllocPage => IInv'
<1> SUFFICES ASSUME IInv, AllocPage PROVE IInv'
    OBVIOUS
<1>1. PICK page \in job[cpu].pages, f \in Frame :
         /\ f \notin used /\ used' = used \cup {f}
         /\ job' = [job EXCEPT ![cpu] = [job[cpu] EXCEPT !.pages = job[cpu].pages \ {page}]]
         /\ held' = [held EXCEPT ![cpu] = WithEntry(held[cpu], page, f)]
    BY DEF AllocPage, IsFirstFree
<1>2. /\ UNCHANGED <<space, status, cr3, data_pages, data_break, cpu, panicked>>
      /\ cpu \in Procs /\ job[cpu].op # "idle" /\ job \in [Procs -> Job]
    BY DEF AllocPage, Allocating, Doing, IInv, TypeOK, Job
<1>3. /\ job' \in [Procs -> Job]
      /\ \A p \in Procs : job'[p].op = job[p].op
    <2> DEFINE j == [job[cpu] EXCEPT !.pages = job[cpu].pages \ {page}]
    <2>1. j \in Job /\ j.op = job[cpu].op
        BY <1>2 DEF Job
    <2> HIDE DEF j
    <2>2. job' = [job EXCEPT ![cpu] = j]
        BY <1>1 DEF j
    <2> QED BY <1>2, <2>1, <2>2
<1>4. held[cpu] \in [DOMAIN held[cpu] -> Frame]
    BY <1>2 DEF IInv, TypeOK
<1>5. /\ DOMAIN held' = Procs
      /\ held'[cpu] = WithEntry(held[cpu], page, f)
      /\ \A p \in Procs : p # cpu => held'[p] = held[p]
    BY <1>1, <1>2 DEF IInv, TypeOK
<1>6. /\ held'[cpu] \in [DOMAIN held'[cpu] -> Frame]
      /\ \A p \in Procs : \A n \in DOMAIN held'[p] :
           \/ p = cpu /\ n = page /\ held'[p][n] = f
           \/ n \in DOMAIN held[p] /\ held'[p][n] = held[p][n]
    <2>1. held'[cpu] \in [DOMAIN held'[cpu] -> Frame]
        BY <1>4, <1>5, WithEntryFacts
    <2>2. \A n \in DOMAIN held'[cpu] :
            \/ n = page /\ held'[cpu][n] = f
            \/ n \in DOMAIN held[cpu] /\ held'[cpu][n] = held[cpu][n]
        BY <1>4, <1>5, WithEntryFacts
    <2> QED BY <1>5, <2>1, <2>2
<1>7. TypeOK'
    <2>1. \A p \in Procs : held'[p] \in [DOMAIN held'[p] -> Frame]
        BY <1>5, <1>6 DEF IInv, TypeOK
    <2> QED BY <1>1, <1>2, <1>3, <1>5, <2>1 DEF IInv, TypeOK, Job
<1>8. Backed'
    BY <1>1, <1>2, <1>6 DEF IInv, Backed
<1>9. Isolated'
    BY <1>1, <1>2, <1>6 DEF IInv, Isolated, Backed
<1>10. IdleHoldsNone'
    BY <1>2, <1>3, <1>5 DEF IInv, IdleHoldsNone
<1> QED BY <1>7, <1>8, <1>9, <1>10 DEF IInv

\* A fresh frame becomes a table.
LEMMA AllocTableKeeps == IInv /\ AllocTable => IInv'
<1> SUFFICES ASSUME IInv, AllocTable PROVE IInv'
    OBVIOUS
<1>1. PICK page \in DOMAIN held[cpu], f \in Frame, i \in 1 .. Levels :
         /\ f \notin used /\ used' = used \cup {f}
         /\ space' = [space EXCEPT ![Tree] = WithEntry(space[Tree], TableNode(i, page), f)]
    BY DEF AllocTable, IsFirstFree
<1> DEFINE node == TableNode(i, page)
<1>2. /\ UNCHANGED <<status, cr3, job, held, data_pages, data_break, cpu, panicked>>
      /\ Tree \in Procs
    BY DEF AllocTable, IInv, TypeOK, Tree
<1> HIDE DEF node
<1>3. space[Tree] \in [DOMAIN space[Tree] -> Frame]
    BY <1>2 DEF IInv, TypeOK
<1>4. /\ DOMAIN space' = Procs
      /\ space'[Tree] = WithEntry(space[Tree], node, f)
      /\ \A p \in Procs : p # Tree => space'[p] = space[p]
    BY <1>1, <1>2 DEF IInv, TypeOK, node
<1>5. /\ space'[Tree] \in [DOMAIN space'[Tree] -> Frame]
      /\ \A n \in DOMAIN space'[Tree] :
           \/ n = node /\ space'[Tree][n] = f
           \/ n \in DOMAIN space[Tree] /\ space'[Tree][n] = space[Tree][n]
    BY <1>3, <1>4, WithEntryFacts
<1>6. \A p \in Procs : \A n \in DOMAIN space'[p] :
         \/ p = Tree /\ n = node /\ space'[p][n] = f
         \/ n \in DOMAIN space[p] /\ space'[p][n] = space[p][n]
    BY <1>4, <1>5
<1>7. TypeOK'
    <2>1. \A p \in Procs : space'[p] \in [DOMAIN space'[p] -> Frame]
        BY <1>4, <1>5 DEF IInv, TypeOK
    <2> QED BY <1>1, <1>2, <1>4, <2>1 DEF IInv, TypeOK
<1>8. Backed'
    BY <1>1, <1>2, <1>6 DEF IInv, Backed
<1>9. Isolated'
    BY <1>1, <1>2, <1>6 DEF IInv, Isolated, Backed
<1>10. IdleHoldsNone'
    BY <1>2 DEF IInv, IdleHoldsNone
<1> QED BY <1>7, <1>8, <1>9, <1>10 DEF IInv

\* A held frame moves into the tree.
LEMMA MapPageKeeps == IInv /\ MapPage => IInv'
<1> SUFFICES ASSUME IInv, MapPage PROVE IInv'
    OBVIOUS
<1>1. PICK page \in DOMAIN held[cpu] :
         /\ space' = [space EXCEPT ![Tree] =
                        WithEntry(space[Tree], PageNode(page), held[cpu][page])]
         /\ held' = [held EXCEPT ![cpu] =
                        [q \in DOMAIN held[cpu] \ {page} |-> held[cpu][q]]]
    BY DEF MapPage
<1> DEFINE f == held[cpu][page]
           node == PageNode(page)
<1>2. /\ data_pages' = IF job[cpu].op = "sbrk"
                       THEN [data_pages EXCEPT ![cpu] = @ + 1] ELSE data_pages
      /\ UNCHANGED <<used, status, cr3, job, data_break, cpu, panicked>>
      /\ job[cpu].op # "idle"
    BY DEF MapPage, Mapping, Doing
<1>3. /\ cpu \in Procs /\ Tree \in Procs
      /\ f \in Frame /\ f \in used
    BY <1>1 DEF IInv, TypeOK, Tree, Backed
<1>4. space[Tree] \in [DOMAIN space[Tree] -> Frame]
    BY <1>3 DEF IInv, TypeOK
<1>5. /\ \A p \in Procs : \A n \in DOMAIN space[p] : space[p][n] # f
      /\ \A p \in Procs : \A n \in DOMAIN held[p] :
           held[p][n] = f => p = cpu /\ n = page
    BY <1>1, <1>3 DEF IInv, Isolated
<1>6. /\ DOMAIN space' = Procs
      /\ space'[Tree] = WithEntry(space[Tree], node, f)
      /\ \A p \in Procs : p # Tree => space'[p] = space[p]
    BY <1>1, <1>3 DEF IInv, TypeOK
<1>7. /\ DOMAIN held' = Procs
      /\ \A p \in Procs : held'[p] \in [DOMAIN held'[p] -> Frame]
      /\ \A p \in Procs : \A n \in DOMAIN held'[p] :
           /\ n \in DOMAIN held[p] /\ held'[p][n] = held[p][n]
           /\ p = cpu => n # page
    BY <1>1, <1>3 DEF IInv, TypeOK
<1> HIDE DEF node, f
<1>8. /\ space'[Tree] \in [DOMAIN space'[Tree] -> Frame]
      /\ \A p \in Procs : \A n \in DOMAIN space'[p] :
           \/ p = Tree /\ n = node /\ space'[p][n] = f
           \/ n \in DOMAIN space[p] /\ space'[p][n] = space[p][n]
    <2>1. space'[Tree] \in [DOMAIN space'[Tree] -> Frame]
        BY <1>3, <1>4, <1>6, WithEntryFacts
    <2>2. \A n \in DOMAIN space'[Tree] :
            \/ n = node /\ space'[Tree][n] = f
            \/ n \in DOMAIN space[Tree] /\ space'[Tree][n] = space[Tree][n]
        BY <1>3, <1>4, <1>6, WithEntryFacts
    <2> QED BY <1>6, <2>1, <2>2
<1>9. TypeOK'
    <2>1. \A p \in Procs : space'[p] \in [DOMAIN space'[p] -> Frame]
        BY <1>6, <1>8 DEF IInv, TypeOK
    <2>2. data_pages' \in [Procs -> Nat]
        BY <1>2 DEF IInv, TypeOK
    <2> QED BY <1>2, <1>6, <1>7, <2>1, <2>2 DEF IInv, TypeOK
<1>10. Backed'
    BY <1>2, <1>3, <1>7, <1>8 DEF IInv, Backed
<1>11. Isolated'
    <2> SUFFICES ASSUME NEW p \in Procs, NEW q \in Procs
                 PROVE /\ \A m \in DOMAIN space'[p], n \in DOMAIN space'[q] :
                            space'[p][m] = space'[q][n] => p = q /\ m = n
                       /\ \A m \in DOMAIN held'[p], n \in DOMAIN held'[q] :
                            held'[p][m] = held'[q][n] => p = q /\ m = n
                       /\ \A m \in DOMAIN space'[p], n \in DOMAIN held'[q] :
                            space'[p][m] # held'[q][n]
        BY DEF Isolated
    <2>1. \A m \in DOMAIN space'[p], n \in DOMAIN space'[q] :
             space'[p][m] = space'[q][n] => p = q /\ m = n
        BY <1>5, <1>8 DEF IInv, Isolated
    <2>2. \A m \in DOMAIN held'[p], n \in DOMAIN held'[q] :
             held'[p][m] = held'[q][n] => p = q /\ m = n
        BY <1>7 DEF IInv, Isolated
    <2>3. \A m \in DOMAIN space'[p], n \in DOMAIN held'[q] :
             space'[p][m] # held'[q][n]
        BY <1>5, <1>7, <1>8 DEF IInv, Isolated
    <2> QED BY <2>1, <2>2, <2>3
<1>12. IdleHoldsNone'
    <2>1. \A p \in Procs : p # cpu => held'[p] = held[p]
        BY <1>1, <1>3 DEF IInv, TypeOK
    <2> QED BY <1>2, <2>1 DEF IInv, IdleHoldsNone
<1> QED BY <1>9, <1>10, <1>11, <1>12 DEF IInv

LEMMA SpawnDoneKeeps == IInv /\ SpawnDone => IInv'
<1> SUFFICES ASSUME IInv, SpawnDone PROVE IInv'
    OBVIOUS
<1>1. /\ job' = [job EXCEPT ![cpu] = Idle]
      /\ status' = [status EXCEPT ![Tree] = "Alive"]
      /\ UNCHANGED <<used, space, cr3, held, data_pages, data_break, cpu, panicked>>
      /\ cpu \in Procs /\ DOMAIN held[cpu] = {}
    BY DEF SpawnDone, Between, IInv, TypeOK
<1>2. \A p \in Procs : p # cpu => job'[p] = job[p]
    BY <1>1 DEF IInv, TypeOK
<1>3. TypeOK'
    BY <1>1, IdleType DEF IInv, TypeOK, Job
<1>4. Backed' /\ Isolated' /\ IdleHoldsNone'
    BY <1>1, <1>2, NoFrameMoves DEF IInv, IdleHoldsNone
<1> QED BY <1>3, <1>4 DEF IInv

LEMMA SbrkDoneKeeps == IInv /\ SbrkDone => IInv'
<1> SUFFICES ASSUME IInv, SbrkDone PROVE IInv'
    OBVIOUS
<1>1. /\ job' = [job EXCEPT ![cpu] = Idle]
      /\ data_break' = [data_break EXCEPT ![cpu] = @ + job[cpu].amount]
      /\ UNCHANGED <<used, space, status, cr3, held, data_pages, cpu, panicked>>
      /\ cpu \in Procs /\ DOMAIN held[cpu] = {}
    BY DEF SbrkDone, Between, IInv, TypeOK
<1>2. \A p \in Procs : p # cpu => job'[p] = job[p]
    BY <1>1 DEF IInv, TypeOK
<1>3. TypeOK'
    BY <1>1, IdleType DEF IInv, TypeOK, Job
<1>4. Backed' /\ Isolated' /\ IdleHoldsNone'
    BY <1>1, <1>2, NoFrameMoves DEF IInv, IdleHoldsNone
<1> QED BY <1>3, <1>4 DEF IInv

\* A spawn that fails drops its tree, whose frames stay used for good.
LEMMA FailKeeps == IInv /\ Fail => IInv'
<1> SUFFICES ASSUME IInv, Fail PROVE IInv'
    OBVIOUS
<1>1. /\ job' = [job EXCEPT ![cpu] = Idle]
      /\ space' = IF job[cpu].op = "spawn" THEN [space EXCEPT ![Tree] = NoTree] ELSE space
      /\ status' = IF job[cpu].op = "spawn" THEN [status EXCEPT ![Tree] = "None"] ELSE status
      /\ cr3' = IF job[cpu].op = "spawn" THEN [cr3 EXCEPT ![Tree] = NoFrame] ELSE cr3
      /\ held' = [held EXCEPT ![cpu] = NoTree]
      /\ UNCHANGED <<used, data_pages, data_break, cpu, panicked>>
      /\ cpu \in Procs
    BY DEF Fail, IInv, TypeOK
<1>2. /\ DOMAIN held' = Procs /\ held'[cpu] = NoTree
      /\ \A p \in Procs : p # cpu => job'[p] = job[p] /\ held'[p] = held[p]
    BY <1>1 DEF IInv, TypeOK
<1>3. /\ DOMAIN space' = Procs
      /\ \A p \in Procs : space'[p] = space[p] \/ space'[p] = NoTree
    BY <1>1 DEF IInv, TypeOK
<1>4. TypeOK'
    <2>1. job' \in [Procs -> Job]
        BY <1>1, IdleType DEF IInv, TypeOK, Job
    <2>2. \A p \in Procs : /\ space'[p] \in [DOMAIN space'[p] -> Frame]
                           /\ held'[p] \in [DOMAIN held'[p] -> Frame]
        BY <1>2, <1>3, NoTreeType DEF IInv, TypeOK
    <2>3. /\ status' \in [Procs -> {"None", "Loading", "Alive", "Zombie"}]
          /\ cr3' \in [Procs -> Frame \cup {NoFrame}]
        BY <1>1 DEF IInv, TypeOK
    <2> QED BY <1>1, <1>2, <1>3, <2>1, <2>2, <2>3 DEF IInv, TypeOK, Job
<1>5. \A p \in Procs : /\ \A n \in DOMAIN space'[p] : space'[p] = space[p]
                       /\ \A n \in DOMAIN held'[p] : held'[p] = held[p]
    BY <1>2, <1>3, NoTreeType
<1>6. Backed'
    BY <1>1, <1>5 DEF IInv, Backed
<1>7. Isolated'
    BY <1>5 DEF IInv, Isolated
<1>8. IdleHoldsNone'
    BY <1>2, NoTreeType DEF IInv, IdleHoldsNone
<1> QED BY <1>4, <1>6, <1>7, <1>8 DEF IInv

\* The frames freed at exit are all marked used, so every flip clears a bit,
\* and nobody else refers to any of them.
LEMMA ExitKeeps == IInv /\ Exit => IInv'
<1> SUFFICES ASSUME IInv, Exit PROVE IInv'
    OBVIOUS
<1> DEFINE F == FramesOf(space[cpu], Freed(space[cpu]))
<1>1. /\ used' = (used \ F) \cup (F \ used)
      /\ space' = [space EXCEPT ![cpu] = NoTree]
      /\ status' = [status EXCEPT ![cpu] = "Zombie"]
      /\ UNCHANGED <<cr3, job, held, data_pages, data_break, cpu, panicked>>
      /\ cpu \in Procs
    BY DEF Exit, Flip, IInv, TypeOK
<1>2. \A f \in F : \E n \in DOMAIN space[cpu] : f = space[cpu][n]
    BY DEF FramesOf, Freed
<1> HIDE DEF F
<1>3. F \subseteq used
    BY <1>1, <1>2 DEF IInv, Backed
<1>4. used' = used \ F
    BY <1>1, <1>3
<1>5. /\ DOMAIN space' = Procs
      /\ space'[cpu] = NoTree /\ \A p \in Procs : p # cpu => space'[p] = space[p]
    BY <1>1 DEF IInv, TypeOK
<1>7. \A p \in Procs : \A n \in DOMAIN space'[p] : p # cpu /\ space'[p] = space[p]
    BY <1>5, NoTreeType
<1>8. TypeOK'
    <2>1. \A p \in Procs : space'[p] \in [DOMAIN space'[p] -> Frame]
        BY <1>5, NoTreeType DEF IInv, TypeOK
    <2> QED BY <1>1, <1>4, <1>5, <2>1 DEF IInv, TypeOK
<1>9. Backed'
    <2> SUFFICES ASSUME NEW p \in Procs
                 PROVE /\ \A n \in DOMAIN space'[p] : space'[p][n] \in used'
                       /\ \A n \in DOMAIN held'[p] : held'[p][n] \in used'
        BY DEF Backed
    <2>1. \A n \in DOMAIN space'[p] : space'[p][n] \in used /\ space'[p][n] \notin F
        BY <1>1, <1>2, <1>7 DEF IInv, Backed, Isolated
    <2>2. \A n \in DOMAIN held[p] : held[p][n] \in used /\ held[p][n] \notin F
        BY <1>1, <1>2 DEF IInv, Backed, Isolated
    <2> QED BY <1>1, <1>4, <2>1, <2>2
<1>10. Isolated'
    BY <1>1, <1>7 DEF IInv, Isolated
<1>11. IdleHoldsNone'
    BY <1>1 DEF IInv, IdleHoldsNone
<1> QED BY <1>8, <1>9, <1>10, <1>11 DEF IInv

LEMMA NextKeeps == IInv /\ [Next]_vars => IInv'
<1> SUFFICES ASSUME IInv, [Next]_vars PROVE IInv'
    OBVIOUS
<1>1. CASE Reap
    <2>1. /\ UNCHANGED <<used, space, job, held, cpu, panicked>>
          /\ \E q \in Procs : /\ status' = [status EXCEPT ![q] = "None"]
                              /\ cr3' = [cr3 EXCEPT ![q] = NoFrame]
                              /\ data_pages' = [data_pages EXCEPT ![q] = 0]
                              /\ data_break' = [data_break EXCEPT ![q] = 0]
        BY <1>1 DEF Reap
    <2>2. TypeOK'
        BY <2>1 DEF IInv, TypeOK
    <2> QED BY <2>1, <2>2, NoFrameMoves DEF IInv, IdleHoldsNone
<1>2. CASE Switch
    <2>1. TypeOK'
        BY <1>2 DEF Switch, IInv, TypeOK
    <2> QED BY <1>2, <2>1, NoFrameMoves DEF Switch, IInv, IdleHoldsNone
<1>3. CASE SbrkNegative
    <2>1. TypeOK'
        BY <1>3 DEF SbrkNegative, IInv, TypeOK
    <2> QED BY <1>3, <2>1, NoFrameMoves DEF SbrkNegative, IInv, IdleHoldsNone
<1>4. CASE UNCHANGED vars
    <2>1. TypeOK'
        BY <1>4 DEF vars, IInv, TypeOK
    <2> QED BY <1>4, <2>1, NoFrameMoves DEF vars, IInv, IdleHoldsNone
<1>5. CASE Halt
    BY <1>4, <1>5 DEF Halt
<1> QED BY <1>1, <1>2, <1>3, <1>4, <1>5, SpawnStartKeeps, SbrkStartKeeps,
           NextAreaKeeps, AllocPageKeeps, AllocTableKeeps, MapPageKeeps, SpawnDoneKeeps,
           SbrkDoneKeeps, FailKeeps, ExitKeeps DEF Next

-----------------------------------------------------------------------------
(***************************************************************************)
(* The program break.  That the pages below it are mapped needs to be known *)
(* of a process that is not running yet as well: a slot's counters are 0   *)
(* until it runs, a spawn fills a slot nobody else fills, and an sbrk only *)
(* ever holds the page just above what its own process has mapped.         *)
(***************************************************************************)
BreakBelowPages == \A p \in Procs : data_break[p] <= Actual(p)

PagesMapped ==
    \A p \in Procs : status[p] = "Alive" =>
        \A i \in 0 .. data_pages[p] - 1 : PageNode(HeapStart + i) \in DOMAIN space[p]

FreshCounters ==
    \A p \in Procs : status[p] \in {"None", "Loading"} =>
        data_pages[p] = 0 /\ data_break[p] = 0

SbrkOwn ==
    \A p \in Procs : job[p].op = "sbrk" =>
        /\ job[p].tree = p /\ status[p] = "Alive"
        /\ job[p].pages \subseteq {HeapStart + data_pages[p]}
        /\ DOMAIN held[p] \subseteq {HeapStart + data_pages[p]}

SpawnFills ==
    /\ \A p \in Procs : job[p].op = "spawn" => status[job[p].tree] = "Loading"
    /\ \A p, q \in Procs :
         job[p].op = "spawn" /\ job[q].op = "spawn" /\ job[p].tree = job[q].tree => p = q

HeapInv == BreakBelowPages /\ PagesMapped /\ FreshCounters /\ SbrkOwn /\ SpawnFills

LEMMA HeapInitially == Init => HeapInv
<1> SUFFICES ASSUME Init PROVE HeapInv
    OBVIOUS
<1>1. BreakBelowPages /\ PagesMapped /\ FreshCounters
    BY SizeAssumption DEF Init, BreakBelowPages, PagesMapped, FreshCounters, Actual
<1>2. SbrkOwn /\ SpawnFills
    BY DEF Init, Idle, SbrkOwn, SpawnFills
<1> QED BY <1>1, <1>2 DEF HeapInv

\* Steps that leave the counters alone.
LEMMA CountersStay ==
    ASSUME HeapInv, UNCHANGED <<data_pages, data_break>>
    PROVE  BreakBelowPages'
BY DEF HeapInv, BreakBelowPages, Actual

LEMMA SpawnStartHeap == IInv /\ HeapInv /\ SpawnStart => HeapInv'
<1> SUFFICES ASSUME IInv, HeapInv, SpawnStart PROVE HeapInv'
    OBVIOUS
<1>1. PICK q \in Procs, f \in Frame :
         /\ status[q] = "None"
         /\ space' = [space EXCEPT ![q] = [n \in {Root} |-> f]]
         /\ status' = [status EXCEPT ![q] = "Loading"]
         /\ job' = [job EXCEPT ![cpu] = [Idle EXCEPT !.op = "spawn", !.tree = q]]
    BY DEF SpawnStart
<1>2. /\ UNCHANGED <<held, data_pages, data_break>>
      /\ cpu \in Procs /\ DOMAIN job = Procs
      /\ DOMAIN status = Procs /\ DOMAIN space = Procs
    BY DEF SpawnStart, IInv, TypeOK
<1>3. /\ job'[cpu].op = "spawn" /\ job'[cpu].tree = q
      /\ \A p \in Procs : p # cpu => job'[p] = job[p]
    BY <1>1, <1>2 DEF Idle
<1>4. /\ status'[q] = "Loading" /\ \A p \in Procs : p # q => status'[p] = status[p]
      /\ \A p \in Procs : p # q => space'[p] = space[p]
    BY <1>1, <1>2
<1>5. BreakBelowPages'
    BY <1>2, CountersStay
<1>6. PagesMapped'
    BY <1>2, <1>4 DEF HeapInv, PagesMapped
<1>7. FreshCounters'
    BY <1>1, <1>2, <1>4 DEF HeapInv, FreshCounters
<1>8. SbrkOwn'
    BY <1>1, <1>2, <1>3, <1>4 DEF HeapInv, SbrkOwn
<1>9. SpawnFills'
    BY <1>1, <1>2, <1>3, <1>4 DEF HeapInv, SpawnFills, IInv, TypeOK
<1> QED BY <1>5, <1>6, <1>7, <1>8, <1>9 DEF HeapInv

LEMMA SbrkStartHeap == IInv /\ HeapInv /\ SbrkStart => HeapInv'
<1> SUFFICES ASSUME IInv, HeapInv, SbrkStart PROVE HeapInv'
    OBVIOUS
<1>1. PICK k \in Amounts :
         job' = [job EXCEPT ![cpu] = [Idle EXCEPT !.op = "sbrk", !.tree = cpu, !.amount = k]]
    BY DEF SbrkStart
<1>2. /\ UNCHANGED <<used, space, status, cr3, held, data_pages, data_break, cpu>>
      /\ status[cpu] = "Alive" /\ job[cpu].op = "idle"
      /\ cpu \in Procs /\ DOMAIN job = Procs
    BY DEF SbrkStart, Doing, IInv, TypeOK
<1>3. /\ job'[cpu].op = "sbrk" /\ job'[cpu].tree = cpu /\ job'[cpu].pages = {}
      /\ \A p \in Procs : p # cpu => job'[p] = job[p]
    BY <1>1, <1>2 DEF Idle
<1>4. DOMAIN held[cpu] = {}
    BY <1>2 DEF IInv, IdleHoldsNone
<1>5. BreakBelowPages' /\ PagesMapped' /\ FreshCounters'
    BY <1>2, CountersStay DEF HeapInv, PagesMapped, FreshCounters
<1>6. SbrkOwn'
    BY <1>2, <1>3, <1>4 DEF HeapInv, SbrkOwn
<1>7. SpawnFills'
    BY <1>2, <1>3 DEF HeapInv, SpawnFills
<1> QED BY <1>5, <1>6, <1>7 DEF HeapInv

LEMMA NextAreaHeap == IInv /\ HeapInv /\ NextArea => HeapInv'
<1> SUFFICES ASSUME IInv, HeapInv, NextArea PROVE HeapInv'
    OBVIOUS
<1>1. /\ job' = [job EXCEPT ![cpu] =
                   [job[cpu] EXCEPT !.step = job[cpu].step + 1, !.pages = Area]]
      /\ UNCHANGED <<used, space, status, cr3, held, data_pages, data_break, cpu>>
      /\ cpu \in Procs /\ job \in [Procs -> Job]
    BY DEF NextArea, IInv, TypeOK, Job
<1>2. /\ job'[cpu].op = job[cpu].op /\ job'[cpu].tree = job[cpu].tree
      /\ job'[cpu].pages = Area
      /\ \A p \in Procs : p # cpu => job'[p] = job[p]
    <2> HIDE DEF Area
    <2> QED BY <1>1 DEF Job
<1>3. job[cpu].op = "sbrk" => Area = {HeapStart + data_pages[cpu]}
    BY DEF Area
<1>4. BreakBelowPages' /\ PagesMapped' /\ FreshCounters'
    BY <1>1, CountersStay DEF HeapInv, PagesMapped, FreshCounters
<1>5. SbrkOwn'
    BY <1>1, <1>2, <1>3 DEF HeapInv, SbrkOwn
<1>6. SpawnFills'
    BY <1>1, <1>2 DEF HeapInv, SpawnFills
<1> QED BY <1>4, <1>5, <1>6 DEF HeapInv

LEMMA AllocPageHeap == IInv /\ HeapInv /\ AllocPage => HeapInv'
<1> SUFFICES ASSUME IInv, HeapInv, AllocPage PROVE HeapInv'
    OBVIOUS
<1>1. PICK page \in job[cpu].pages, f \in Frame :
         /\ job' = [job EXCEPT ![cpu] = [job[cpu] EXCEPT !.pages = job[cpu].pages \ {page}]]
         /\ held' = [held EXCEPT ![cpu] = WithEntry(held[cpu], page, f)]
    BY DEF AllocPage
<1>2. /\ UNCHANGED <<space, status, cr3, data_pages, data_break, cpu>>
      /\ cpu \in Procs /\ job \in [Procs -> Job] /\ DOMAIN held = Procs
    BY DEF AllocPage, IInv, TypeOK, Job
<1>3. /\ job'[cpu].op = job[cpu].op /\ job'[cpu].tree = job[cpu].tree
      /\ job'[cpu].pages = job[cpu].pages \ {page}
      /\ \A p \in Procs : p # cpu => job'[p] = job[p] /\ held'[p] = held[p]
    BY <1>1, <1>2 DEF Job
<1>4. DOMAIN held'[cpu] = DOMAIN held[cpu] \cup {page}
    BY <1>1, <1>2 DEF WithEntry
<1>5. BreakBelowPages' /\ PagesMapped' /\ FreshCounters'
    BY <1>2, CountersStay DEF HeapInv, PagesMapped, FreshCounters
<1>6. SbrkOwn'
    BY <1>1, <1>2, <1>3, <1>4 DEF HeapInv, SbrkOwn
<1>7. SpawnFills'
    BY <1>2, <1>3 DEF HeapInv, SpawnFills
<1> QED BY <1>5, <1>6, <1>7 DEF HeapInv

\* The nodes of a tree only increase when something is put into it.
LEMMA TreesGrow ==
    ASSUME IInv, NEW q \in Procs, NEW n, NEW f,
           space' = [space EXCEPT ![q] = WithEntry(space[q], n, f)]
    PROVE  /\ \A p \in Procs : DOMAIN space[p] \subseteq DOMAIN space'[p]
           /\ n \in DOMAIN space'[q]
BY DEF WithEntry, IInv, TypeOK

LEMMA AllocTableHeap == IInv /\ HeapInv /\ AllocTable => HeapInv'
<1> SUFFICES ASSUME IInv, HeapInv, AllocTable PROVE HeapInv'
    OBVIOUS
<1>1. UNCHANGED <<status, cr3, job, held, data_pages, data_break, cpu>>
    BY DEF AllocTable
<1>2. \A p \in Procs : DOMAIN space[p] \subseteq DOMAIN space'[p]
    <2>1. PICK page \in DOMAIN held[cpu], f \in Frame, i \in 1 .. Levels :
             space' = [space EXCEPT ![Tree] = WithEntry(space[Tree], TableNode(i, page), f)]
        BY DEF AllocTable
    <2>2. Tree \in Procs
        BY DEF IInv, TypeOK, Tree
    <2> QED BY <2>1, <2>2, TreesGrow
<1>3. BreakBelowPages' /\ FreshCounters' /\ SbrkOwn' /\ SpawnFills'
    BY <1>1, CountersStay DEF HeapInv, FreshCounters, SbrkOwn, SpawnFills
<1>4. PagesMapped'
    BY <1>1, <1>2 DEF HeapInv, PagesMapped
<1> QED BY <1>3, <1>4 DEF HeapInv

\* page_extend_data: the page that is mapped is the next one, and is counted.
LEMMA MapPageHeap == IInv /\ HeapInv /\ MapPage => HeapInv'
<1> SUFFICES ASSUME IInv, HeapInv, MapPage PROVE HeapInv'
    OBVIOUS
<1>1. PICK page \in DOMAIN held[cpu] :
         /\ space' = [space EXCEPT ![Tree] =
                        WithEntry(space[Tree], PageNode(page), held[cpu][page])]
         /\ held' = [held EXCEPT ![cpu] =
                        [q \in DOMAIN held[cpu] \ {page} |-> held[cpu][q]]]
    BY DEF MapPage
<1>2. /\ UNCHANGED <<used, status, cr3, job, data_break, cpu>>
      /\ job[cpu].pages = {}
      /\ cpu \in Procs /\ Tree \in Procs /\ DOMAIN held = Procs
      /\ data_pages \in [Procs -> Nat] /\ data_break \in [Procs -> Nat]
    BY DEF MapPage, Mapping, IInv, TypeOK, Tree
<1>3. /\ \A p \in Procs : DOMAIN space[p] \subseteq DOMAIN space'[p]
      /\ PageNode(page) \in DOMAIN space'[Tree]
    BY <1>1, <1>2, TreesGrow
<1>4. /\ DOMAIN held'[cpu] = DOMAIN held[cpu] \ {page}
      /\ \A p \in Procs : p # cpu => held'[p] = held[p]
    BY <1>1, <1>2
<1>5. SpawnFills'
    BY <1>2 DEF HeapInv, SpawnFills
<1>6. CASE job[cpu].op # "sbrk"
    <2>1. UNCHANGED data_pages
        BY <1>6 DEF MapPage
    <2>2. BreakBelowPages' /\ FreshCounters'
        BY <1>2, <2>1, CountersStay DEF HeapInv, FreshCounters
    <2>3. PagesMapped'
        BY <1>2, <1>3, <2>1 DEF HeapInv, PagesMapped
    <2>4. SbrkOwn'
        BY <1>2, <1>4, <1>6, <2>1 DEF HeapInv, SbrkOwn
    <2> QED BY <1>5, <2>2, <2>3, <2>4 DEF HeapInv
<1>7. CASE job[cpu].op = "sbrk"
    <2>1. /\ data_pages' = [data_pages EXCEPT ![cpu] = @ + 1]
          /\ data_pages'[cpu] = data_pages[cpu] + 1
          /\ \A p \in Procs : p # cpu => data_pages'[p] = data_pages[p]
        BY <1>2, <1>7 DEF MapPage
    <2>2. /\ Tree = cpu /\ status[cpu] = "Alive" /\ page = HeapStart + data_pages[cpu]
          /\ DOMAIN held'[cpu] = {}
        BY <1>1, <1>2, <1>4, <1>7 DEF HeapInv, SbrkOwn, Tree
    <2>3. BreakBelowPages'
        <3>1. PageSize * (data_pages[cpu] + 1) = PageSize * data_pages[cpu] + PageSize
            BY <1>2, SizeAssumption
        <3>2. PageSize * data_pages[cpu] \in Nat /\ data_break[cpu] \in Nat
            BY <1>2, SizeAssumption
        <3>3. data_break'[cpu] <= Actual(cpu)'
            BY <1>2, <2>1, <3>1, <3>2, SizeAssumption
               DEF HeapInv, BreakBelowPages, Actual
        <3> QED BY <1>2, <2>1, <3>3 DEF HeapInv, BreakBelowPages, Actual
    <2>4. PagesMapped'
        <3>1. \A i \in 0 .. data_pages'[cpu] - 1 :
                 PageNode(HeapStart + i) \in DOMAIN space'[cpu]
            <4> SUFFICES ASSUME NEW i \in 0 .. data_pages'[cpu] - 1
                         PROVE PageNode(HeapStart + i) \in DOMAIN space'[cpu]
                OBVIOUS
            <4>1. CASE i = data_pages[cpu]
                BY <1>3, <2>2, <4>1
            <4>2. CASE i # data_pages[cpu]
                <5>1. i \in 0 .. data_pages[cpu] - 1
                    BY <1>2, <2>1, <4>2
                <5> QED BY <1>2, <1>3, <2>2, <5>1 DEF HeapInv, PagesMapped
            <4> QED BY <4>1, <4>2
        <3>2. \A p \in Procs : p # cpu /\ status[p] = "Alive" =>
                 \A i \in 0 .. data_pages'[p] - 1 :
                    PageNode(HeapStart + i) \in DOMAIN space'[p]
            BY <1>3, <2>1 DEF HeapInv, PagesMapped
        <3> QED BY <1>2, <3>1, <3>2 DEF PagesMapped
    <2>5. FreshCounters'
        BY <1>2, <2>1, <2>2 DEF HeapInv, FreshCounters
    <2>6. SbrkOwn'
        BY <1>2, <1>4, <2>1, <2>2 DEF HeapInv, SbrkOwn
    <2> QED BY <1>5, <2>3, <2>4, <2>5, <2>6 DEF HeapInv
<1> QED BY <1>6, <1>7

LEMMA SpawnDoneHeap == IInv /\ HeapInv /\ SpawnDone => HeapInv'
<1> SUFFICES ASSUME IInv, HeapInv, SpawnDone PROVE HeapInv'
    OBVIOUS
<1>1. /\ job' = [job EXCEPT ![cpu] = Idle]
      /\ status' = [status EXCEPT ![Tree] = "Alive"]
      /\ UNCHANGED <<used, space, cr3, held, data_pages, data_break, cpu>>
      /\ cpu \in Procs /\ Tree \in Procs /\ job[cpu].op = "spawn"
      /\ DOMAIN job = Procs /\ DOMAIN status = Procs
    BY DEF SpawnDone, Doing, IInv, TypeOK, Tree
<1>2. /\ job'[cpu].op = "idle" /\ \A p \in Procs : p # cpu => job'[p] = job[p]
      /\ status'[Tree] = "Alive" /\ \A p \in Procs : p # Tree => status'[p] = status[p]
    BY <1>1 DEF Idle
<1>3. status[Tree] = "Loading" /\ data_pages[Tree] = 0
    BY <1>1 DEF HeapInv, SpawnFills, FreshCounters, Tree
<1>4. BreakBelowPages'
    BY <1>1, CountersStay
<1>5. PagesMapped'
    BY <1>1, <1>2, <1>3 DEF HeapInv, PagesMapped
<1>6. FreshCounters'
    BY <1>1, <1>2 DEF HeapInv, FreshCounters
<1>7. SbrkOwn'
    BY <1>1, <1>2 DEF HeapInv, SbrkOwn
<1>8. SpawnFills'
    BY <1>1, <1>2 DEF HeapInv, SpawnFills, Tree
<1> QED BY <1>4, <1>5, <1>6, <1>7, <1>8 DEF HeapInv

\* extend_data_by has mapped enough before it moves the break.
LEMMA SbrkDoneHeap == IInv /\ HeapInv /\ SbrkDone => HeapInv'
<1> SUFFICES ASSUME IInv, HeapInv, SbrkDone PROVE HeapInv'
    OBVIOUS
<1>1. /\ job' = [job EXCEPT ![cpu] = Idle]
      /\ data_break' = [data_break EXCEPT ![cpu] = @ + job[cpu].amount]
      /\ UNCHANGED <<used, space, status, cr3, held, data_pages, cpu>>
      /\ cpu \in Procs /\ job[cpu].op = "sbrk" /\ DOMAIN job = Procs
      /\ data_pages \in [Procs -> Nat] /\ data_break \in [Procs -> Nat]
      /\ job[cpu].amount \in Nat
    BY DEF SbrkDone, Doing, IInv, TypeOK
<1>2. /\ job'[cpu].op = "idle" /\ \A p \in Procs : p # cpu => job'[p] = job[p]
      /\ data_break'[cpu] = data_break[cpu] + job[cpu].amount
      /\ \A p \in Procs : p # cpu => data_break'[p] = data_break[p]
    BY <1>1 DEF Idle
<1>3. BreakBelowPages'
    <2>1. Actual(cpu) \in Nat
        BY <1>1, SizeAssumption DEF Actual
    <2>2. data_break[cpu] + job[cpu].amount <= Actual(cpu)
        BY <1>1, <2>1 DEF SbrkDone, More
    <2> QED BY <1>1, <1>2, <2>2 DEF HeapInv, BreakBelowPages, Actual
<1>4. PagesMapped'
    BY <1>1 DEF HeapInv, PagesMapped
<1>5. FreshCounters'
    BY <1>1, <1>2 DEF HeapInv, FreshCounters, SbrkOwn
<1>6. SbrkOwn'
    BY <1>1, <1>2 DEF HeapInv, SbrkOwn
<1>7. SpawnFills'
    BY <1>1, <1>2 DEF HeapInv, SpawnFills
<1> QED BY <1>3, <1>4, <1>5, <1>6, <1>7 DEF HeapInv

LEMMA FailHeap == IInv /\ HeapInv /\ Fail => HeapInv'
<1> SUFFICES ASSUME IInv, HeapInv, Fail PROVE HeapInv'
    OBVIOUS
<1>1. /\ job' = [job EXCEPT ![cpu] = Idle]
      /\ held' = [held EXCEPT ![cpu] = NoTree]
      /\ UNCHANGED <<used, data_pages, data_break, cpu>>
      /\ cpu \in Procs /\ Tree \in Procs /\ DOMAIN job = Procs
      /\ DOMAIN held = Procs /\ DOMAIN status = Procs /\ DOMAIN space = Procs
    BY DEF Fail, IInv, TypeOK, Tree
<1>2. /\ job'[cpu].op = "idle"
      /\ \A p \in Procs : p # cpu => job'[p] = job[p] /\ held'[p] = held[p]
    BY <1>1 DEF Idle
<1>3. BreakBelowPages'
    BY <1>1, CountersStay
<1>4. CASE job[cpu].op = "spawn"
    <2>1. /\ \A p \in Procs : p # Tree => status'[p] = status[p] /\ space'[p] = space[p]
          /\ status'[Tree] = "None" /\ status[Tree] = "Loading"
        BY <1>1, <1>4 DEF Fail, HeapInv, SpawnFills, Tree
    <2>2. PagesMapped' /\ FreshCounters'
        BY <1>1, <2>1 DEF HeapInv, PagesMapped, FreshCounters
    <2>3. SbrkOwn'
        BY <1>1, <1>2, <2>1 DEF HeapInv, SbrkOwn
    <2>4. SpawnFills'
        BY <1>1, <1>2, <1>4, <2>1 DEF HeapInv, SpawnFills, Tree, IInv, TypeOK
    <2> QED BY <1>3, <2>2, <2>3, <2>4 DEF HeapInv
<1>5. CASE job[cpu].op # "spawn"
    <2>1. UNCHANGED <<space, status>>
        BY <1>5 DEF Fail
    <2>2. PagesMapped' /\ FreshCounters'
        BY <1>1, <2>1 DEF HeapInv, PagesMapped, FreshCounters
    <2>3. SbrkOwn' /\ SpawnFills'
        BY <1>1, <1>2, <2>1 DEF HeapInv, SbrkOwn, SpawnFills
    <2> QED BY <1>3, <2>2, <2>3 DEF HeapInv
<1> QED BY <1>4, <1>5

LEMMA ExitHeap == IInv /\ HeapInv /\ Exit => HeapInv'
<1> SUFFICES ASSUME IInv, HeapInv, Exit PROVE HeapInv'
    OBVIOUS
<1>1. /\ UNCHANGED <<job, held, data_pages, data_break>>
      /\ cpu \in Procs /\ status[cpu] = "Alive" /\ job[cpu].op = "idle"
      /\ status'[cpu] = "Zombie"
      /\ \A p \in Procs : p # cpu => status'[p] = status[p] /\ space'[p] = space[p]
    BY DEF Exit, Doing, IInv, TypeOK
<1>2. BreakBelowPages' /\ PagesMapped' /\ FreshCounters'
    BY <1>1, CountersStay DEF HeapInv, PagesMapped, FreshCounters
<1>3. SbrkOwn' /\ SpawnFills'
    BY <1>1 DEF HeapInv, SbrkOwn, SpawnFills, IInv, TypeOK
<1> QED BY <1>2, <1>3 DEF HeapInv

LEMMA ReapHeap == IInv /\ HeapInv /\ Reap => HeapInv'
<1> SUFFICES ASSUME IInv, HeapInv, Reap PROVE HeapInv'
    OBVIOUS
<1>1. PICK q \in Procs :
         /\ status[q] = "Zombie" /\ status' = [status EXCEPT ![q] = "None"]
         /\ data_pages' = [data_pages EXCEPT ![q] = 0]
         /\ data_break' = [data_break EXCEPT ![q] = 0]
    BY DEF Reap
<1>2. /\ UNCHANGED <<space, job, held>>
      /\ status'[q] = "None" /\ data_pages'[q] = 0 /\ data_break'[q] = 0
      /\ \A p \in Procs : p # q => /\ status'[p] = status[p]
                                   /\ data_pages'[p] = data_pages[p]
                                   /\ data_break'[p] = data_break[p]
    BY <1>1 DEF Reap, IInv, TypeOK
<1>3. BreakBelowPages'
    BY <1>2, SizeAssumption DEF HeapInv, BreakBelowPages, Actual
<1>4. PagesMapped' /\ FreshCounters'
    BY <1>2 DEF HeapInv, PagesMapped, FreshCounters
<1>5. SbrkOwn' /\ SpawnFills'
    BY <1>1, <1>2 DEF HeapInv, SbrkOwn, SpawnFills, IInv, TypeOK
<1> QED BY <1>3, <1>4, <1>5 DEF HeapInv

LEMMA NextHeap == IInv /\ HeapInv /\ [Next]_vars => HeapInv'
<1> SUFFICES ASSUME IInv, HeapInv, [Next]_vars PROVE HeapInv'
    OBVIOUS
<1>1. CASE UNCHANGED <<space, status, job, held, data_pages, data_break>>
    BY <1>1, CountersStay
       DEF HeapInv, PagesMapped, FreshCounters, SbrkOwn, SpawnFills
<1>2. CASE Switch
    BY <1>1, <1>2 DEF Switch
<1>3. CASE SbrkNegative
    BY <1>1, <1>3 DEF SbrkNegative
<1>4. CASE UNCHANGED vars
    BY <1>1, <1>4 DEF vars
<1>5. CASE Halt
    BY <1>4, <1>5 DEF Halt
<1> QED BY <1>2, <1>3, <1>4, <1>5, SpawnStartHeap, SbrkStartHeap, NextAreaHeap,
           AllocPageHeap, AllocTableHeap, MapPageHeap, SpawnDoneHeap, SbrkDoneHeap,
           FailHeap, ExitHeap, ReapHeap DEF Next

-----------------------------------------------------------------------------
\* The inductive invariant holds in every reachable state.
THEOREM Invariance == Spec => []IInv
BY Initially, NextKeeps, PTL DEF Spec

\* Every frame that a page table or a call under way refers to is marked used:
\* the region allocator cannot hand it out, out-of-memory failures included.
THEOREM FramesBacked == Spec => []Backed
<1>1. IInv => Backed
    BY DEF IInv
<1> QED BY <1>1, Invariance, PTL

\* No two processes, tables, pages or calls under way refer to the same frame,
\* for any number of processes and frames and any layout.
THEOREM FramesIsolated == Spec => []Isolated
<1>1. IInv => Isolated
    BY DEF IInv
<1> QED BY <1>1, Invariance, PTL

\* Whatever the order of sbrks, failed sbrks, spawns, exits and reuses of a slot,
\* every page from data_start up to the break of a live process is mapped.
THEOREM HeapBelowBreak == Spec => []HeapMapped
<1>1. HeapInv => HeapMapped
    BY DEF HeapInv, BreakBelowPages, PagesMapped, HeapMapped
<1>2. IInv /\ HeapInv /\ [Next]_vars => (IInv /\ HeapInv)'
    BY NextKeeps, NextHeap
<1> QED BY <1>1, <1>2, Initially, HeapInitially, PTL DEF Spec

\* The state keeps its type.
THEOREM TypeCorrect == Spec => []TypeOK
<1>1. IInv => TypeOK
    BY DEF IInv
<1> QED BY <1>1, Invariance, PTL
=============================================================================
