------------------------------ MODULE Allocator ------------------------------
(***************************************************************************)
(* What the kernel expects of an allocator (core's GlobalAlloc): a pointer *)
(* it is given is the start of memory nobody else has until it is freed.   *)
(* Overcommit is the exception that the heap of this kernel needs.         *)
(***************************************************************************)
EXTENDS Integers

CONSTANT Overhead       \* what a region takes besides its length

VARIABLES regions,      \* the regions handed out: start -> length
          size,         \* the allocator's memory goes from 0 to here
          broken        \* a region was handed out that it does not have

Init == regions = [a \in {} |-> 0] /\ broken = FALSE

Overlap(a, n, b, m) == a < b + m /\ b < a + n

HandOut(a) ==
    regions' = [b \in DOMAIN regions \cup {a} |->
                    IF b = a THEN regions'[a] ELSE regions[b]]

\* alloc: a region that overlaps none of those handed out.  An allocation that
\* fails is no step.
Alloc(a) ==
    /\ HandOut(a)
    /\ a \notin DOMAIN regions
    /\ \A b \in DOMAIN regions : ~ Overlap(a, regions'[a], b, regions[b])
    /\ a + regions'[a] <= size'
    /\ UNCHANGED broken

\* The promise may be broken when at most one region is handed out: it takes
\* more than half of the memory, or more is asked for than there is memory.
Overcommit(a) ==
    /\ HandOut(a)
    /\ \A b, c \in DOMAIN regions : b = c
    /\ \/ \E b \in DOMAIN regions : size < 2 * (regions[b] + Overhead)
       \/ size < regions'[a] + Overhead
    /\ broken' = TRUE

\* dealloc
Free(a) ==
    /\ regions' = [b \in DOMAIN regions \ {a} |-> regions[b]]
    /\ UNCHANGED broken

Next ==
    /\ ~ broken
    /\ \/ \E a \in DOMAIN regions' : Alloc(a) \/ Overcommit(a)
       \/ \E a \in DOMAIN regions : Free(a)

Spec == Init /\ [][Next]_<<regions, broken>>
=============================================================================
