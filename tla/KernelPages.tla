----------------------------- MODULE KernelPages -----------------------------
(***************************************************************************)
(* The kernel's half of the page tables as its two allocators see it       *)
(* (memory/paging.rs, memory/frame_allocator.rs): which page, and which    *)
(* table, has an entry for which frame, and which frames are in use.  An   *)
(* allocator takes a frame for a page and then calls map_to, which takes   *)
(* one for each table that is missing on the way and may find none left:   *)
(* the frame of the page is then lost, and the tables made so far stay.    *)
(*                                                                         *)
(* The roots of all processes have the same entries for this half, copies  *)
(* of those init_heap made at boot, so one tree stands for all of them.    *)
(***************************************************************************)
EXTENDS Integers

CONSTANTS PageSize, FrameCount,
          Entries,      \* ENTRY_COUNT
          FirstPage     \* the number of the first page of the heap

ASSUME PagesAssumption == /\ PageSize \in Nat \ {0} /\ FrameCount \in Nat
                          /\ Entries \in Nat \ {0} /\ FirstPage \in Nat

VARIABLES used,     \* the bits set in the region allocator's bitmap
          entry,    \* the entries present: page or table -> frame
          held      \* the frame an allocator has taken and not yet entered

pageVars == <<used, entry, held>>

Frame == 0 .. FrameCount - 1
NoFrame == -1

\* The two ranges ROOT_BINDINGS sets apart
Heaps == {"HEAP", "LARGE_HEAP"}

\* Their pages, counted from the start of the heap
HeapPage(n) == <<"HEAP", n>>
LargePage(n) == <<"LARGE_HEAP", n>>

\* Page::containing_address
Containing(addr) == addr \div PageSize

\* The levels below the root, and how many pages a table of each leads to
Level == <<"L3", "L2", "L1">>
Span == <<Entries * Entries * Entries, Entries * Entries, Entries>>

\* translate: the table of each level that leads to a page
Table(i, page) == <<Level[i], (FirstPage + page[2]) \div Span[i]>>

Walk(page) == {Table(i, page) : i \in 1 .. 3}

\* get_frame finds a frame.
IsMapped(page) == Walk(page) \subseteq DOMAIN entry /\ page \in DOMAIN entry

\* allocate_frame: the first frame whose bit is clear
IsFirstFree(f) == f \in Frame \ used /\ \A g \in Frame \ used : f <= g

OutOfFrames == Frame \subseteq used

SetEntry(place, f) ==
    entry' = [p \in DOMAIN entry \cup {place} |-> IF p = place THEN f ELSE entry[p]]

-----------------------------------------------------------------------------
\* An allocator calls allocate_frame.
TakeFrame(heap) ==
    /\ held[heap] = NoFrame
    /\ \E f \in Frame : /\ IsFirstFree(f)
                        /\ used' = used \cup {f}
                        /\ held' = [held EXCEPT ![heap] = f]
    /\ entry' = entry

\* The first table on the way that is missing is that of the i-th level.
FirstMissing(i, page) ==
    /\ Table(i, page) \notin DOMAIN entry
    /\ \A j \in 1 .. i - 1 : Table(j, page) \in DOMAIN entry

\* Entry::map of that table
MapTable(page) ==
    /\ held[page[1]] # NoFrame
    /\ \E i \in 1 .. 3 :
         /\ FirstMissing(i, page)
         /\ \E f \in Frame : /\ IsFirstFree(f)
                             /\ used' = used \cup {f}
                             /\ SetEntry(Table(i, page), f)
    /\ held' = held

\* The end of map_to, which overwrites whatever entry the page has
MapEntry(page) ==
    /\ held[page[1]] # NoFrame
    /\ Walk(page) \subseteq DOMAIN entry
    /\ SetEntry(page, held[page[1]])
    /\ held' = [held EXCEPT ![page[1]] = NoFrame]
    /\ used' = used

\* No frame is left, for the page or for a table: a frame taken is not freed.
MapFails(page) ==
    /\ OutOfFrames
    /\ held[page[1]] = NoFrame \/ ~ (Walk(page) \subseteq DOMAIN entry)
    /\ held' = [held EXCEPT ![page[1]] = NoFrame]
    /\ UNCHANGED <<used, entry>>

\* unmap frees the frame, by flipping its bit, and leaves the entry.
Unmap(page) ==
    /\ used' = IF ~ IsMapped(page) THEN used
               ELSE IF entry[page] \in used THEN used \ {entry[page]}
               ELSE used \cup {entry[page]}
    /\ UNCHANGED <<entry, held>>
=============================================================================
