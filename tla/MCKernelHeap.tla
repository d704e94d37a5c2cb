---------------------------- MODULE MCKernelHeap ----------------------------
(* KernelHeap for TLC. *)
EXTENDS KernelHeap, TLC

\* The initial heap ends with the tables of levels 1 and 2: its next page and
\* the first one of LARGE_HEAP need the same table of level 2.
MCBootEntry ==
    HeapPage(0) :> 0 @@ <<"L3", 0>> :> 1 @@ <<"L2", 0>> :> 2 @@ <<"L1", 3>> :> 3
    @@ HeapPage(1) :> 4
=============================================================================
