---------------------------- MODULE PageAllocator ----------------------------
(***************************************************************************)
(* The allocator of the kernel's large buffers (memory/page_allocator.rs): *)
(* it goes up through LARGE_HEAP, maps the pages it passes, and returns to *)
(* the start when nothing is allocated any more.  A call runs under the    *)
(* allocator's lock, a frame per step: the other allocator of the kernel   *)
(* takes frames in between.  The allocator only ever holds page aligned    *)
(* addresses, which are page numbers here.                                 *)
(***************************************************************************)
EXTENDS KernelPages, FiniteSets

CONSTANTS LargeStart, LargeEnd, \* the LARGE_HEAP binding, in pages of the heap
          LargeSizes            \* sizes of the buffers

\* The heap's binding, before this one, is as long as the memory.
ASSUME LargeAssumption == /\ LargeStart \in Nat /\ FrameCount <= LargeStart
                          /\ LargeEnd \in Nat
                          /\ LargeSizes \subseteq Nat \ {0}

VARIABLES last_end,     \* last_allocation.1
          allocations,
          large,        \* history: the buffers handed out, start -> size
          job           \* the call that holds the lock

largeVars == <<last_end, allocations, large, job>>

NoJob == [op |-> "idle", size |-> 0, page |-> 0, end |-> 0]

\* PageAllocator::new
LargeInit ==
    /\ last_end = LargeStart
    /\ allocations = 0
    /\ large = [a \in {} |-> 0]
    /\ job = NoJob

\* The whole pages a size takes, as Allocator::allocate passes them
DivCeil(size) == (size + PageSize - 1) \div PageSize

-----------------------------------------------------------------------------
\* allocmut, when the pages are left; when they are not the call fails at once.
LargeAllocStart(size) ==
    LET end == last_end + DivCeil(size)
    IN  /\ job = NoJob
        /\ end <= LargeEnd
        /\ job' = [op |-> "alloc", size |-> size, page |-> last_end, end |-> end]
        /\ UNCHANGED <<last_end, allocations, large, pageVars>>

\* A turn of its loop takes a frame, and the tables that are missing,
LargeMap ==
    /\ job.op = "alloc"
    /\ job.page < job.end
    /\ TakeFrame("LARGE_HEAP") \/ MapTable(LargePage(job.page))
    /\ UNCHANGED largeVars

\* and writes the entry, or
LargeMapped ==
    /\ job.op = "alloc"
    /\ job.page < job.end
    /\ MapEntry(LargePage(job.page))
    /\ job' = [job EXCEPT !.page = @ + 1]
    /\ UNCHANGED <<last_end, allocations, large>>

\* fails: the pages mapped so far are not unmapped.
LargeMapFails ==
    /\ job.op = "alloc"
    /\ job.page < job.end
    /\ MapFails(LargePage(job.page))
    /\ job' = NoJob
    /\ UNCHANGED <<last_end, allocations, large>>

\* Mutant: last_allocation is not moved on.
LastEndStays == last_end

\* last_allocation.1 after an allocation
LastEnd == job.end

\* The buffer starts where the last one ended.
LargeAllocDone ==
    /\ job.op = "alloc"
    /\ job.page = job.end
    /\ last_end' = LastEnd
    /\ allocations' = allocations + 1
    /\ large' = [a \in DOMAIN large \cup {last_end} |->
                    IF a = last_end THEN job.size ELSE large[a]]
    /\ job' = NoJob
    /\ UNCHANGED pageVars

\* Mutant: the page that holds the end is unmapped too.
EndPageIncluded(a, size) == a + size \div PageSize + 1

\* The page deallocmut stops before: the one that holds the end of the buffer.
\* Of a size that is not a multiple of PageSize the last page stays mapped.
EndPage(a, size) == a + size \div PageSize

\* deallocmut
LargeDealloc(a) ==
    /\ job = NoJob
    /\ a \in DOMAIN large
    /\ job' = [op |-> "dealloc", size |-> large[a], page |-> a,
               end |-> EndPage(a, large[a])]
    /\ large' = [b \in DOMAIN large \ {a} |-> large[b]]
    /\ UNCHANGED <<last_end, allocations, pageVars>>

LargeUnmap ==
    /\ job.op = "dealloc"
    /\ job.page < job.end
    /\ Unmap(LargePage(job.page))
    /\ job' = [job EXCEPT !.page = @ + 1]
    /\ UNCHANGED <<last_end, allocations, large>>

LargeDeallocDone ==
    /\ job.op = "dealloc"
    /\ job.page >= job.end
    /\ allocations' = allocations - 1
    /\ last_end' = IF allocations' = 0 THEN LargeStart ELSE last_end
    /\ job' = NoJob
    /\ UNCHANGED <<large, pageVars>>

LargeStep == \/ LargeMap \/ LargeMapped \/ LargeMapFails \/ LargeAllocDone
             \/ LargeUnmap \/ LargeDeallocDone

LargeCall ==
    \/ \E n \in LargeSizes : LargeAllocStart(n)
    \/ \E a \in DOMAIN large : LargeDealloc(a)
=============================================================================
