---------------------------- MODULE AddressSpace ----------------------------
(***************************************************************************)
(* Physical frames, page tables and the program break (kernel/src/memory,  *)
(* threading/processes.rs, utils/elf.rs): who holds which frame while      *)
(* processes are spawned, grow their data with sbrk, exit and are reaped.  *)
(*                                                                         *)
(* A page table tree is a function from nodes to frames.  A node is a pair *)
(* <<level, number>>: <<0, n>> is page n, <<i, n \div E^i>> the table of   *)
(* level i that covers it, <<Levels, 0>> the root.  The entry for a node   *)
(* <<i, k>> is entry k % E of the table above it, which is what translate  *)
(* computes.  Entries of the higher half are shared by all processes and   *)
(* left out.  The kernel allocates one frame at a time under the lock of   *)
(* the region allocator, and so does the model: Eve may be preempted       *)
(* between two allocations, a system call may not.  Pages are mapped in    *)
(* areas, whose frames are all allocated before the first is mapped: an    *)
(* area is one page in load_exec and sbrk, a stack or argv in alloc_map.   *)
(***************************************************************************)
EXTENDS Integers, Sequences

CONSTANTS Procs, Eve,       \* process slots; the kernel's own process
          FrameCount,       \* frames of physical memory
          Levels,           \* levels of page tables
          EntryCount, HigherHalf,  \* ENTRY_COUNT and HIGHER_HALF_ENTRY
          Layout,           \* the areas of a new process: image, stacks, argv
          HeapStart,        \* data_start, as a page number
          PageSize,
          Amounts,          \* the amounts passed to sbrk
          MaxBreak          \* bound: sbrk is not called beyond this break

ASSUME EveAssumption == Eve \in Procs
ASSUME SizeAssumption == /\ FrameCount \in Nat \ {0} /\ Levels \in Nat \ {0}
                         /\ EntryCount \in Nat \ {0} /\ HigherHalf \in 0 .. EntryCount
                         /\ PageSize \in Nat \ {0} /\ HeapStart \in Nat
                         /\ MaxBreak \in Nat
ASSUME LayoutAssumption == Layout \in Seq(SUBSET Nat)
ASSUME AmountsAssumption == Amounts \subseteq Int

VARIABLES used,         \* the bits set in the region allocator's bitmap
          space,        \* page table trees, per process
          status,       \* "None", "Loading", "Alive", "Zombie"
          cr3,          \* the root frame in each process's saved context
          job,          \* the call of each process that is under way
          held,         \* frames it has allocated and not mapped, by their pages
          data_pages, data_break,   \* AliveProcessState; the break from data_start
          cpu,          \* the process on the CPU
          panicked

vars == <<used, space, status, cr3, job, held, data_pages, data_break, cpu, panicked>>

Frame == 0 .. FrameCount - 1
NoFrame == -1
NoTree == [n \in {} |-> 0]

Root == <<Levels, 0>>
TableNode(i, page) == <<i, page \div EntryCount ^ i>>
PageNode(page) == <<0, page>>

\* A call under way: spawn fills the tree of another slot, sbrk the caller's
\* own.  pages are those of the current area that have no frame yet.
Idle == [op |-> "idle", tree |-> Eve, step |-> 0, pages |-> {}, amount |-> 0]

Init ==
    /\ used = {0}
    /\ space = [p \in Procs |-> IF p = Eve THEN [n \in {Root} |-> 0] ELSE NoTree]
    /\ status = [p \in Procs |-> IF p = Eve THEN "Alive" ELSE "None"]
    /\ cr3 = [p \in Procs |-> IF p = Eve THEN 0 ELSE NoFrame]
    /\ job = [p \in Procs |-> Idle]
    /\ held = [p \in Procs |-> NoTree]
    /\ data_pages = [p \in Procs |-> 0]
    /\ data_break = [p \in Procs |-> 0]
    /\ cpu = Eve
    /\ panicked = FALSE

-----------------------------------------------------------------------------
\* Mutant: the frame before the first free one.
IsLastUsed(f) ==
    /\ f \in used /\ f + 1 \in Frame \ used
    /\ \A g \in Frame \ used : f <= g

\* allocate_frame: the first frame whose bit is clear.
IsFirstFree(f) == f \in Frame \ used /\ \A g \in Frame \ used : f <= g

OutOfFrames == Frame \subseteq used

\* set_unused flips the bit of each frame.
Flip(frames) == (used \ frames) \cup (frames \ used)

\* A tree with one more node, or with another frame at a node it has.
WithEntry(tree, node, f) ==
    [n \in DOMAIN tree \cup {node} |-> IF n = node THEN f ELSE tree[n]]

\* PageTable::free visits the entries below HIGHER_HALF_ENTRY, at every level.
Freed(tree) ==
    {n \in DOMAIN tree :
        \A i \in n[1] .. Levels - 1 :
            (n[2] \div EntryCount ^ (i - n[1])) % EntryCount < HigherHalf}

FramesOf(tree, nodes) == {tree[n] : n \in nodes}

Doing(op) == ~panicked /\ job[cpu].op = op

\* data_break_actual
Actual(p) == PageSize * data_pages[p]

\* Another area has to be mapped.
More == IF job[cpu].op = "spawn"
        THEN job[cpu].step < Len(Layout)
        ELSE Actual(cpu) < data_break[cpu] + job[cpu].amount

\* The next area: of the image, the stacks or argv, or page_extend_data's page.
Area == IF job[cpu].op = "spawn"
        THEN Layout[job[cpu].step + 1]
        ELSE {HeapStart + data_pages[cpu]}

Tree == job[cpu].tree
First(page, pages) == page \in pages /\ \A q \in pages : page <= q

\* The call on the CPU needs a frame, has one to map, or is between two areas.
Allocating == (Doing("spawn") \/ Doing("sbrk")) /\ job[cpu].pages # {}
Mapping == /\ Doing("spawn") \/ Doing("sbrk")
           /\ job[cpu].pages = {} /\ DOMAIN held[cpu] # {}
Between == /\ Doing("spawn") \/ Doing("sbrk")
           /\ job[cpu].pages = {} /\ DOMAIN held[cpu] = {}

TablesThere(page) == \A i \in 1 .. Levels : TableNode(i, page) \in DOMAIN space[Tree]

-----------------------------------------------------------------------------
\* from_elf: allocate_pml4.  If it fails nothing has changed.
SpawnStart ==
    /\ Doing("idle")
    /\ status[cpu] = "Alive"
    /\ \E q \in Procs, f \in Frame :
         /\ status[q] = "None"
         /\ IsFirstFree(f)
         /\ used' = used \cup {f}
         /\ space' = [space EXCEPT ![q] = [n \in {Root} |-> f]]
         /\ cr3' = [cr3 EXCEPT ![q] = f]
         /\ status' = [status EXCEPT ![q] = "Loading"]
         /\ job' = [job EXCEPT ![cpu] = [Idle EXCEPT !.op = "spawn", !.tree = q]]
    /\ UNCHANGED <<held, data_pages, data_break, cpu, panicked>>

\* sbrk, extend_data_by with amount >= 0.
SbrkStart ==
    /\ Doing("idle")
    /\ status[cpu] = "Alive" /\ cpu # Eve
    /\ \E n \in Amounts :
         /\ n >= 0 /\ data_break[cpu] + n <= MaxBreak
         /\ job' = [job EXCEPT ![cpu] =
                      [Idle EXCEPT !.op = "sbrk", !.tree = cpu, !.amount = n]]
    /\ UNCHANGED <<used, space, status, cr3, held, data_pages, data_break, cpu, panicked>>

\* extend_data_by with amount < 0: cast to usize, the amount exceeds any break
\* and the checked subtraction of the build the repository runs panics.
SbrkNegative ==
    /\ Doing("idle")
    /\ status[cpu] = "Alive" /\ cpu # Eve
    /\ \E n \in Amounts : n < 0
    /\ panicked' = TRUE
    /\ UNCHANGED <<used, space, status, cr3, job, held, data_pages, data_break, cpu>>

\* The loops of load_exec, Process::new and extend_data_by go on.
NextArea ==
    /\ Between /\ More
    /\ job' = [job EXCEPT ![cpu] = [@ EXCEPT !.step = job[cpu].step + 1, !.pages = Area]]
    /\ UNCHANGED <<used, space, status, cr3, held, data_pages, data_break, cpu, panicked>>

\* load_exec, alloc_map, page_extend_data: the frame of the area's next page.
AllocPage ==
    /\ Allocating
    /\ \E page \in job[cpu].pages, f \in Frame :
         /\ First(page, job[cpu].pages)
         /\ IsFirstFree(f)
         /\ used' = used \cup {f}
         /\ job' = [job EXCEPT ![cpu] = [@ EXCEPT !.pages = job[cpu].pages \ {page}]]
         /\ held' = [held EXCEPT ![cpu] = WithEntry(@, page, f)]
    /\ UNCHANGED <<space, status, cr3, data_pages, data_break, cpu, panicked>>

\* map_to, Entry::map: the topmost table that is missing.
AllocTable ==
    /\ Mapping
    /\ \E page \in DOMAIN held[cpu], f \in Frame, i \in 1 .. Levels :
         /\ First(page, DOMAIN held[cpu])
         /\ TableNode(i, page) \notin DOMAIN space[Tree]
         /\ \A j \in i + 1 .. Levels : TableNode(j, page) \in DOMAIN space[Tree]
         /\ IsFirstFree(f)
         /\ used' = used \cup {f}
         /\ space' = [space EXCEPT ![Tree] = WithEntry(@, TableNode(i, page), f)]
    /\ UNCHANGED <<status, cr3, job, held, data_pages, data_break, cpu, panicked>>

\* map_to: the entry of the page, whatever it held.  page_extend_data counts it.
MapPage ==
    /\ Mapping
    /\ \E page \in DOMAIN held[cpu] :
         /\ First(page, DOMAIN held[cpu])
         /\ TablesThere(page)
         /\ space' = [space EXCEPT ![Tree] = WithEntry(@, PageNode(page), held[cpu][page])]
         /\ held' = [held EXCEPT ![cpu] = [q \in DOMAIN held[cpu] \ {page} |-> held[cpu][q]]]
    /\ data_pages' = IF job[cpu].op = "sbrk"
                     THEN [data_pages EXCEPT ![cpu] = @ + 1] ELSE data_pages
    /\ UNCHANGED <<used, status, cr3, job, data_break, cpu, panicked>>

\* Scheduler::add_process of the loaded process.
SpawnDone ==
    /\ Doing("spawn") /\ Between /\ ~More
    /\ status' = [status EXCEPT ![Tree] = "Alive"]
    /\ job' = [job EXCEPT ![cpu] = Idle]
    /\ UNCHANGED <<used, space, cr3, held, data_pages, data_break, cpu, panicked>>

\* Mutant: the break moves the wrong way.
SbrkDoneBackwards ==
    /\ Doing("sbrk") /\ Between /\ ~More
    /\ data_break' = [data_break EXCEPT ![cpu] = @ - job[cpu].amount]
    /\ job' = [job EXCEPT ![cpu] = Idle]
    /\ UNCHANGED <<used, space, status, cr3, held, data_pages, cpu, panicked>>

\* extend_data_by returns the new break.
SbrkDone ==
    /\ Doing("sbrk") /\ Between /\ ~More
    /\ data_break' = [data_break EXCEPT ![cpu] = @ + job[cpu].amount]
    /\ job' = [job EXCEPT ![cpu] = Idle]
    /\ UNCHANGED <<used, space, status, cr3, held, data_pages, cpu, panicked>>

\* Mutant: the break moves although the pages could not all be mapped.
FailMovesBreak ==
    /\ OutOfFrames
    /\ \/ Allocating
       \/ Mapping /\ \E page \in DOMAIN held[cpu] :
                       First(page, DOMAIN held[cpu]) /\ ~TablesThere(page)
    /\ space' = IF job[cpu].op = "spawn" THEN [space EXCEPT ![Tree] = NoTree] ELSE space
    /\ status' = IF job[cpu].op = "spawn" THEN [status EXCEPT ![Tree] = "None"] ELSE status
    /\ cr3' = IF job[cpu].op = "spawn" THEN [cr3 EXCEPT ![Tree] = NoFrame] ELSE cr3
    /\ data_break' = [data_break EXCEPT ![cpu] = @ + job[cpu].amount]
    /\ job' = [job EXCEPT ![cpu] = Idle]
    /\ held' = [held EXCEPT ![cpu] = NoTree]
    /\ UNCHANGED <<used, data_pages, cpu, panicked>>

\* FrameAllocationFailed goes up to the caller by `?`: a spawn drops the tree
\* it has built, both drop the frames they hold, and nothing is deallocated.
Fail ==
    /\ OutOfFrames
    /\ \/ Allocating
       \/ Mapping /\ \E page \in DOMAIN held[cpu] :
                       First(page, DOMAIN held[cpu]) /\ ~TablesThere(page)
    /\ space' = IF job[cpu].op = "spawn" THEN [space EXCEPT ![Tree] = NoTree] ELSE space
    /\ status' = IF job[cpu].op = "spawn" THEN [status EXCEPT ![Tree] = "None"] ELSE status
    /\ cr3' = IF job[cpu].op = "spawn" THEN [cr3 EXCEPT ![Tree] = NoFrame] ELSE cr3
    /\ job' = [job EXCEPT ![cpu] = Idle]
    /\ held' = [held EXCEPT ![cpu] = NoTree]
    /\ UNCHANGED <<used, data_pages, data_break, cpu, panicked>>

\* Mutant: the process keeps the tree that was freed.
ExitKeepsTree ==
    /\ Doing("idle")
    /\ status[cpu] = "Alive" /\ cpu # Eve
    /\ used' = Flip(FramesOf(space[cpu], Freed(space[cpu])))
    /\ status' = [status EXCEPT ![cpu] = "Zombie"]
    /\ UNCHANGED <<space, cr3, job, held, data_pages, data_break, cpu, panicked>>

\* thread_exit, Process::terminate: the tree is freed under the process.
Exit ==
    /\ Doing("idle")
    /\ status[cpu] = "Alive" /\ cpu # Eve
    /\ used' = Flip(FramesOf(space[cpu], Freed(space[cpu])))
    /\ space' = [space EXCEPT ![cpu] = NoTree]
    /\ status' = [status EXCEPT ![cpu] = "Zombie"]
    /\ UNCHANGED <<cr3, job, held, data_pages, data_break, cpu, panicked>>

\* wait() unlists a zombie.
Reap ==
    /\ Doing("idle") /\ status[cpu] = "Alive"
    /\ \E q \in Procs \ {cpu} :
         /\ status[q] = "Zombie"
         /\ status' = [status EXCEPT ![q] = "None"]
         /\ cr3' = [cr3 EXCEPT ![q] = NoFrame]
         /\ data_pages' = [data_pages EXCEPT ![q] = 0]
         /\ data_break' = [data_break EXCEPT ![q] = 0]
    /\ UNCHANGED <<used, space, job, held, cpu, panicked>>

\* A context switch: not within a system call, anywhere within Eve.  Zombies
\* are switched to as well (see Scheduler.tla).
Switch ==
    /\ ~panicked
    /\ job[cpu].op = "idle" \/ cpu = Eve
    /\ \E q \in Procs : status[q] \in {"Alive", "Zombie"} /\ cpu' = q
    /\ UNCHANGED <<used, space, status, cr3, job, held, data_pages, data_break, panicked>>

Halt == panicked /\ UNCHANGED vars

Next ==
    \/ SpawnStart \/ SpawnDone
    \/ SbrkStart \/ SbrkNegative \/ SbrkDone
    \/ NextArea \/ AllocPage \/ AllocTable \/ MapPage \/ Fail
    \/ Exit \/ Reap \/ Switch \/ Halt

Spec == Init /\ [][Next]_vars

-----------------------------------------------------------------------------
TypeOK ==
    /\ used \subseteq Frame
    /\ DOMAIN space = Procs
    /\ \A p \in Procs : space[p] \in [DOMAIN space[p] -> Frame]
    /\ status \in [Procs -> {"None", "Loading", "Alive", "Zombie"}]
    /\ cr3 \in [Procs -> Frame \cup {NoFrame}]
    /\ job \in [Procs -> [op : {"idle", "spawn", "sbrk"}, tree : Procs, step : Nat,
                          pages : SUBSET Nat, amount : Nat]]
    /\ DOMAIN held = Procs
    /\ \A p \in Procs : held[p] \in [DOMAIN held[p] -> Frame]
    /\ data_pages \in [Procs -> Nat]
    /\ data_break \in [Procs -> Nat]
    /\ cpu \in Procs
    /\ panicked \in BOOLEAN

\* Every frame a page table tree refers to, and every frame a call holds, is
\* marked used: the allocator cannot hand it out again.  A second flip of the
\* same bit by deallocate_frame would break this.
Backed ==
    \A p \in Procs :
        /\ \A n \in DOMAIN space[p] : space[p][n] \in used
        /\ \A n \in DOMAIN held[p] : held[p][n] \in used

\* No frame is in two places: not in two processes, not a table of one and a
\* page of another, not twice in one tree.  This is what separates processes
\* from each other, whatever the order of spawns, failures and exits.
Isolated ==
    \A p, q \in Procs :
        /\ \A m \in DOMAIN space[p], n \in DOMAIN space[q] :
             space[p][m] = space[q][n] => p = q /\ m = n
        /\ \A m \in DOMAIN held[p], n \in DOMAIN held[q] :
             held[p][m] = held[q][n] => p = q /\ m = n
        /\ \A m \in DOMAIN space[p], n \in DOMAIN held[q] : space[p][m] # held[q][n]

\* All pages from data_start to the break are mapped, also after an sbrk that
\* ran out of frames half way.
HeapMapped ==
    \A p \in Procs : status[p] = "Alive" =>
        /\ data_break[p] <= Actual(p)
        /\ \A i \in 0 .. data_pages[p] - 1 : PageNode(HeapStart + i) \in DOMAIN space[p]

-----------------------------------------------------------------------------
(* What the code's comments say that the code does not do *)

\* paging.rs: free "deallocates a page table including it's entries, doesn't
\* deallocate the higher half!".
ExitFreesAll ==
    [][\A p \in Procs : status[p] = "Alive" /\ status'[p] = "Zombie" =>
         \A n \in DOMAIN space[p] : space[p][n] \notin used']_vars

=============================================================================
