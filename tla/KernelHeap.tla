------------------------------ MODULE KernelHeap ------------------------------
(***************************************************************************)
(* The kernel's two allocators over one page table and one pool of frames. *)
(* Each has its own spin lock.  Of their callers only Eve runs with        *)
(* interrupts on: it can be preempted inside a call, and a system call or  *)
(* the key handler may then call either allocator.  That call runs to its  *)
(* end, if it does not want what Eve has locked: its own allocator, or the *)
(* frame allocator.  Then it spins, with interrupts off, for ever.  The    *)
(* page tables have no lock: it may also come to a table Eve is making.    *)
(***************************************************************************)
EXTENDS BuddyAllocator, PageAllocator

VARIABLES masked,       \* the allocator a caller with interrupts off is in
          doomed        \* it waits for Eve, or will lose a table to it: the end

vars == <<pageVars, buddyVars, largeVars, masked, doomed>>

Init == BuddyInit /\ LargeInit /\ masked = "none" /\ doomed = FALSE

\* The allocator's caller is the one that runs: Eve does not while a caller with
\* interrupts off is in a call.
Runs(heap) == ~ panicked /\ ~ doomed /\ masked \in {"none", heap}

\* A call of the heap, by a caller with interrupts off or by Eve, which is then
\* in no call of the other allocator
HeapStart ==
    /\ Runs("HEAP")
    /\ BuddyCall
    /\ masked' = "HEAP" \/ (job = NoJob /\ masked' = "none")
    /\ UNCHANGED <<largeVars, doomed>>

HeapStep ==
    /\ Runs("HEAP")
    /\ BuddyStep
    /\ masked' = IF call'.op = "idle" THEN "none" ELSE masked
    /\ UNCHANGED <<largeVars, doomed>>

\* The same of the page allocator
LargeHeapStart ==
    /\ Runs("LARGE_HEAP")
    /\ LargeCall
    /\ masked' = "LARGE_HEAP" \/ (call.op = "idle" /\ masked' = "none")
    /\ UNCHANGED <<buddyVars, doomed>>

LargeHeapStep ==
    /\ Runs("LARGE_HEAP")
    /\ LargeStep
    /\ masked' = IF job'.op = "idle" THEN "none" ELSE masked
    /\ UNCHANGED <<buddyVars, doomed>>

\* Eve was preempted in a call, and holds what a system call or the key handler
\* now waits for.
Spin ==
    /\ Runs("none")
    /\ call.op # "idle" \/ job.op # "idle"
    /\ doomed' = TRUE
    /\ UNCHANGED <<pageVars, buddyVars, largeVars, masked>>

\* The allocator is in the loop that maps pages, and at which page.
Mapping(heap) == IF heap = "HEAP" THEN Expanding /\ MorePages
                 ELSE job.op = "alloc" /\ job.page < job.end
PageOf(heap) == IF heap = "HEAP" THEN HeapPage(call.at) ELSE LargePage(job.page)

\* Entry::map tests an entry, takes a frame, writes the entry and clears the
\* table.  Eve was preempted in the middle of that, and the caller with
\* interrupts off comes to the same table: what it enters there Eve will clear,
\* or replace by a table of her own.
TableLost ==
    /\ Runs(masked) /\ masked # "none"
    /\ Mapping(masked)
    /\ \E eve \in Heaps \ {masked}, i \in 1 .. 3 :
         /\ held[eve] # NoFrame
         /\ FirstMissing(i, PageOf(eve))
         /\ Table(i, PageOf(eve)) = Table(i, PageOf(masked))
    /\ doomed' = TRUE
    /\ UNCHANGED <<pageVars, buddyVars, largeVars, masked>>

Next == HeapStart \/ HeapStep \/ LargeHeapStart \/ LargeHeapStep \/ Spin \/ TableLost

Spec == Init /\ [][Next]_vars

\* A caller with interrupts off runs on, and Eve is scheduled again and again,
\* as long as the machine does not hang or lose a table.
FairSpec == Spec /\ SF_vars(HeapStep) /\ SF_vars(LargeHeapStep)
-----------------------------------------------------------------------------
TypeOK ==
    /\ used \in SUBSET Frame
    /\ DOMAIN entry \subseteq {"HEAP", "LARGE_HEAP", "L3", "L2", "L1"} \X Nat
    /\ entry \in [DOMAIN entry -> Frame]
    /\ held \in [Heaps -> Frame \cup {NoFrame}]
    /\ heap_end \in Nat
    /\ DOMAIN block \subseteq 0 .. heap_end - 1
    /\ block \in [DOMAIN block -> [free : BOOLEAN, size : Nat \ {0}]]
    /\ DOMAIN live \subseteq DOMAIN block /\ live \in [DOMAIN live -> Layouts]
    /\ call \in [op : {"idle", "find", "divide", "coalesce", "expand"},
                 layout : Layouts \cup {0}, at : Nat,
                 alone : BOOLEAN, merged : BOOLEAN, retried : BOOLEAN]
    /\ overcommitted \in BOOLEAN /\ panicked \in BOOLEAN
    /\ last_end \in Nat /\ allocations \in Nat
    /\ DOMAIN large \subseteq Nat /\ large \in [DOMAIN large -> LargeSizes]
    /\ job \in [op : {"idle", "alloc", "dealloc"}, size : Nat, page : Nat, end : Nat]
    /\ masked \in Heaps \cup {"none"} /\ doomed \in BOOLEAN

\* However blocks are divided, coalesced and added, the headers tile the heap:
\* a walk from the head meets every block and ends at heap_end, and no block
\* reaches into another.
Tiled ==
    /\ 0 \in DOMAIN block
    /\ \A b \in DOMAIN block :
         /\ After(b) = heap_end \/ After(b) \in DOMAIN block
         /\ \A c \in DOMAIN block : b < c => After(b) <= c

\* The memory handed out: behind the header of a block, as long as asked for
HeapRegions == [a \in {b + Header : b \in DOMAIN live} |-> live[a - Header]]

\* Those of the page allocator are whole pages: allocate returns their length.
LargeRegions == [a \in DOMAIN large |-> DivCeil(large[a])]

Small == INSTANCE Allocator
             WITH regions <- HeapRegions, size <- heap_end, Overhead <- Header,
                  broken <- overcommitted /\ call.op = "idle"
Large == INSTANCE Allocator
             WITH regions <- LargeRegions, size <- LargeEnd, Overhead <- 0,
                  broken <- FALSE

\* The heap is an allocator, whatever was freed and coalesced in between: what
\* it hands out is memory it has, and overlaps nothing it has handed out before
\* and not got back.  It can break that promise only while its one user has
\* more than half of it, or when more is asked for than all of it.
HeapAllocates == Small!Spec

\* The page allocator is one without exception: it returns to the start of
\* LARGE_HEAP when its counter is 0, which is when no buffer is in use, and
\* never hands out the pages of one that is, nor any behind LARGE_HEAP.
LargeAllocates == Large!Spec

\* At rest no two neighbours could be coalesced: dividing the smallest block
\* that fits leaves none, and a deallocation coalesces until there are none.
\* So the search that allocmut repeats after coalescing never finds more.
Coalesced ==
    /\ call.op = "idle" =>
         \A b \in DOMAIN block : ~ Mergeable(b)
    /\ call.op = "coalesce" /\ call.retried => ~ call.merged

LargePages(a) == {LargePage(n) : n \in a .. a + DivCeil(large[a]) - 1}

\* The tables, the pages of the heap, and those of the large buffers in use
Owned == {p \in DOMAIN entry : p[1] # "LARGE_HEAP"}
         \cup UNION {LargePages(a) : a \in DOMAIN large}

\* allocations counts the buffers in use, and the one being freed.
LargeCounted ==
    allocations = Cardinality(DOMAIN large) + (IF job.op = "dealloc" THEN 1 ELSE 0)

\* A page with an entry has its tables, and the heap does not reach LARGE_HEAP.
Placed ==
    \A p \in DOMAIN entry : p[1] \in Heaps =>
        /\ Walk(p) \subseteq DOMAIN entry
        /\ p[1] = "HEAP" => p[2] < LargeStart

\* Every table, page of the heap and page of a large buffer that is in use has
\* a frame that is in use and backs no other of them, through allocations that
\* interleave and fail half way: unmap, which leaves its entries, never frees a
\* frame that has a new owner.  The frame an allocator has in its hands is none
\* of theirs, no buffer is missing from the count, and the ranges stay apart.
FramesOwned ==
    /\ LargeCounted
    /\ Placed
    /\ \A p \in Owned : /\ p \in DOMAIN entry /\ entry[p] \in used
                        /\ \A q \in Owned : entry[p] = entry[q] => p = q
    /\ \A h \in Heaps : held[h] # NoFrame =>
         /\ held[h] \in used
         /\ \A p \in Owned : entry[p] # held[h]
         /\ \A g \in Heaps : held[g] = held[h] => g = h

\* Every call of either allocator returns, unless the kernel panics or is
\* doomed by Eve's preemption: in particular coalescing comes to an end.
CallsReturn ==
    /\ [](call.op # "idle" => <>(call.op = "idle" \/ panicked \/ doomed))
    /\ [](job.op # "idle" => <>(job.op = "idle" \/ panicked \/ doomed))
=============================================================================
