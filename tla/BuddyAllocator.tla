--------------------------- MODULE BuddyAllocator ---------------------------
(***************************************************************************)
(* The kernel's heap (memory/buddy_allocator.rs).  The heap is a row of    *)
(* blocks, each headed by its size and whether it is free: who reads a     *)
(* header finds the next one behind the block, so a wrong size anywhere    *)
(* makes every later walk read garbage.  `block` holds the headers a walk  *)
(* from the head meets.  A call runs under the allocator's lock, and is    *)
(* modelled loop turn by loop turn: dividing, coalescing, mapping pages.   *)
(*                                                                         *)
(* Addresses count from the head, which is page aligned, in units of       *)
(* size_of::<Block>() / Header bytes.  `tail` is written and never read.   *)
(***************************************************************************)
EXTENDS KernelPages, FiniteSets

CONSTANTS Header,       \* size_of::<Block>()
          InitSize,     \* INIT_HEAP_SIZE
          BootEntry,    \* the frames init_heap was given
          AddressEnd,   \* 2^64
          Layouts,      \* sizes the kernel asks for
          MaxLive       \* bound: allocations at a time

VARIABLES block,        \* the headers: address -> [free, size]
          heap_end,
          live,         \* history: the blocks handed out, and for what size
          call,         \* the call that holds the lock
          overcommitted,\* history: a head that is in use or too small was taken
          panicked

buddyVars == <<block, heap_end, live, call, overcommitted, panicked>>

\* Divisible by no odd number but 1
IsPow2(n) == \A d, q \in 1 .. n : n = d * q /\ d % 2 = 1 => d = 1

\* actual_size: the header included, aligned to a power of two
ActualSize ==
    [layout \in Layouts |->
        CHOOSE n \in 1 .. 2 * (layout + Header) :
            /\ IsPow2(n) /\ layout + Header <= n
            /\ \A m \in 1 .. n - 1 : ~ (IsPow2(m) /\ layout + Header <= m)]

ASSUME HeaderAssumption == Header \in Nat \ {0}
ASSUME InitSizeAssumption == /\ InitSize \in Nat /\ IsPow2(InitSize)
                             /\ InitSize % PageSize = 0 /\ InitSize > 2 * Header
ASSUME LayoutsAssumption == Layouts \subseteq Nat \ {0}

\* The pages of the initial heap, and the tables that lead to them
InitPages == {HeapPage(n) : n \in 0 .. InitSize \div PageSize - 1}
BootPlaces == InitPages \cup UNION {Walk(p) : p \in InitPages}

ASSUME BootAssumption ==
    /\ BootEntry \in [BootPlaces -> Frame]
    /\ \A p, q \in BootPlaces : BootEntry[p] = BootEntry[q] => p = q

\* op is the loop the call is in: "find", "divide", "coalesce", "expand".
Call(op, layout, at, alone, merged, retried) ==
    [op |-> op, layout |-> layout, at |-> at, alone |-> alone, merged |-> merged,
     retried |-> retried]

Idle == Call("idle", 0, 0, FALSE, FALSE, FALSE)

\* init_heap and BuddyAllocator::init: one free block
BuddyInit ==
    /\ block = [b \in {0} |-> [free |-> TRUE, size |-> InitSize]]
    /\ heap_end = InitSize
    /\ entry = BootEntry
    /\ used = {BootEntry[p] : p \in BootPlaces}
    /\ held = [h \in Heaps |-> NoFrame]
    /\ live = [b \in {} |-> 0]
    /\ call = Idle
    /\ overcommitted = FALSE
    /\ panicked = FALSE

-----------------------------------------------------------------------------
\* Block::next, BuddyAllocator::next
After(b) == b + block[b].size
HasNext(b) == After(b) < heap_end

Doing(op) == ~ panicked /\ call.op = op

Want == ActualSize[call.layout]

\* allocmut
AllocStart(n) ==
    /\ Doing("idle") /\ ~ overcommitted
    /\ Cardinality(DOMAIN live) < MaxLive
    /\ call' = Call("find", n, 0, FALSE, FALSE, FALSE)
    /\ UNCHANGED <<block, heap_end, live, overcommitted, panicked, pageVars>>

\* find_free_block, when the head is the only block: it is taken whether or not
\* it is free and large enough.  When it is not, the memory that is handed out
\* has another owner, or is not there, and the headers in it are overwritten:
\* the call returns, and nothing is said of the ones that come after it.
FindAlone ==
    /\ Doing("find")
    /\ ~ HasNext(0)
    /\ call' = Call("divide", call.layout, 0, TRUE, FALSE, call.retried)
    /\ overcommitted' = (~ block[0].free \/ block[0].size < Want)
    /\ UNCHANGED <<block, heap_end, live, panicked, pageVars>>

\* Mutant: a block that is in use fits.
FitsUsed(b) == b \in DOMAIN block /\ block[b].size >= Want

Fits(b) == b \in DOMAIN block /\ block[b].free /\ block[b].size >= Want

\* Mutant: the first block that fits is taken.
IsFirst(b) ==
    /\ Fits(b)
    /\ \A c \in DOMAIN block : Fits(c) => b <= c

\* The smallest block that fits, the last of them
IsBest(b) ==
    /\ Fits(b)
    /\ \A c \in DOMAIN block : Fits(c) =>
         \/ block[b].size < block[c].size
         \/ block[b].size = block[c].size /\ c <= b

\* find_free_block, when there are several
FindBest(b) ==
    /\ Doing("find")
    /\ HasNext(0)
    /\ IsBest(b)
    /\ call' = Call("divide", call.layout, b, FALSE, FALSE, call.retried)
    /\ UNCHANGED <<block, heap_end, live, overcommitted, panicked, pageVars>>

\* None fits: allocmut coalesces and looks again, and then expands the heap.
FindNone ==
    /\ Doing("find")
    /\ HasNext(0)
    /\ \A b \in DOMAIN block : ~ Fits(b)
    /\ call' = IF call.retried
               THEN Call("expand", call.layout, Containing(heap_end), FALSE, FALSE, TRUE)
               ELSE Call("coalesce", call.layout, 0, FALSE, FALSE, TRUE)
    /\ UNCHANGED <<block, heap_end, live, overcommitted, panicked, pageVars>>

\* Mutant: divides while the half is no larger than what is wanted.
DividesTooFar == block[call.at].size \div 2 > Header

\* The condition of Block::spilt_to_fit
Divides ==
    /\ block[call.at].size \div 2 >= Want
    /\ block[call.at].size \div 2 > Header

\* Block::divide
Divide ==
    LET half == block[call.at].size \div 2
        right == call.at + half
    IN  /\ Doing("divide")
        /\ Divides
        /\ block' = [b \in DOMAIN block \cup {right} |->
                        IF b \in {call.at, right} THEN [free |-> TRUE, size |-> half]
                                                  ELSE block[b]]
        /\ UNCHANGED <<heap_end, live, call, overcommitted, panicked, pageVars>>

\* The block that is returned: of a head without neighbour the buddy the last
\* division split off, otherwise the block that was divided
Got == IF call.alone /\ HasNext(call.at) THEN After(call.at) ELSE call.at

\* The allocation returns the data of block b.
Return(b) == /\ live' = [c \in DOMAIN live \cup {b} |->
                            IF c = b THEN call.layout ELSE live[c]]
             /\ call' = Idle

\* block.free = false; block.data()
AllocDone ==
    /\ Doing("divide")
    /\ ~ Divides
    /\ block' = [block EXCEPT ![Got].free = FALSE]
    /\ Return(Got)
    /\ UNCHANGED <<heap_end, overcommitted, panicked, pageVars>>

-----------------------------------------------------------------------------
\* deallocmut
Dealloc(b) ==
    /\ Doing("idle") /\ ~ overcommitted
    /\ b \in DOMAIN live
    /\ block' = [block EXCEPT ![b].free = TRUE]
    /\ live' = [c \in DOMAIN live \ {b} |-> live[c]]
    /\ call' = Call("coalesce", 0, 0, FALSE, FALSE, FALSE)
    /\ UNCHANGED <<heap_end, overcommitted, panicked, pageVars>>

\* Mutant: the sizes are not compared.
MergeableAny(b) == HasNext(b) /\ block[b].free /\ block[After(b)].free

\* The block and the next one are free and of the same size.
Mergeable(b) == /\ HasNext(b)
                /\ block[b].free /\ block[After(b)].free
                /\ block[b].size = block[After(b)].size

\* coalescence_buddies: the loop goes on to the next block that can be joined,
\* joins it, and stays there.
Coalesce(b) ==
    /\ Doing("coalesce")
    /\ call.at <= b /\ Mergeable(b)
    /\ \A c \in DOMAIN block : call.at <= c /\ Mergeable(c) => b <= c
    /\ block' = [c \in DOMAIN block \ {After(b)} |->
                    IF c = b THEN [block[b] EXCEPT !.size = 2 * @] ELSE block[c]]
    /\ call' = Call("coalesce", call.layout, b, FALSE, TRUE, call.retried)
    /\ UNCHANGED <<heap_end, live, overcommitted, panicked, pageVars>>

\* Mutant: the pass is repeated whether or not it joined anything.
AgainAlways == TRUE

\* The condition of the loop of coalescence_buddies_full
Again == call.merged

\* The end of the row: another pass, or back to allocmut or deallocmut
CoalesceEnd ==
    /\ Doing("coalesce")
    /\ \A c \in DOMAIN block : call.at <= c => ~ Mergeable(c)
    /\ call' = IF Again THEN Call("coalesce", call.layout, 0, FALSE, FALSE, call.retried)
               ELSE IF call.retried THEN Call("find", call.layout, 0, FALSE, FALSE, TRUE)
               ELSE Idle
    /\ UNCHANGED <<block, heap_end, live, overcommitted, panicked, pageVars>>

-----------------------------------------------------------------------------
\* The new end of the heap is an address; otherwise computing it panics.
Expanding == Doing("expand") /\ heap_end + Want < AddressEnd

\* The loop of expand_heap_by
MorePages == call.at < Containing(heap_end + Want)

\* A page that has its frame
ExpandSkip ==
    /\ Expanding
    /\ MorePages
    /\ IsMapped(HeapPage(call.at))
    /\ call' = Call("expand", call.layout, call.at + 1, FALSE, FALSE, TRUE)
    /\ UNCHANGED <<block, heap_end, live, overcommitted, panicked, pageVars>>

\* One that has none: a frame is taken, and the tables that are missing,
ExpandMap ==
    /\ Expanding
    /\ MorePages
    /\ ~ IsMapped(HeapPage(call.at))
    /\ TakeFrame("HEAP") \/ MapTable(HeapPage(call.at))
    /\ UNCHANGED buddyVars

\* and the entry is written, or
ExpandMapped ==
    /\ Expanding
    /\ MorePages
    /\ ~ IsMapped(HeapPage(call.at))
    /\ MapEntry(HeapPage(call.at))
    /\ call' = Call("expand", call.layout, call.at + 1, FALSE, FALSE, TRUE)
    /\ UNCHANGED <<block, heap_end, live, overcommitted, panicked>>

\* alloc returns null, and what was mapped stays mapped.
ExpandFails ==
    /\ Expanding
    /\ MorePages
    /\ ~ IsMapped(HeapPage(call.at))
    /\ MapFails(HeapPage(call.at))
    /\ call' = Idle
    /\ UNCHANGED <<block, heap_end, live, overcommitted, panicked>>

\* Mutant: the end of the heap is not moved.
AddFreeStays ==
    /\ block' = [b \in DOMAIN block \cup {heap_end} |->
                    IF b = heap_end THEN [free |-> FALSE, size |-> Want] ELSE block[b]]
    /\ heap_end' = heap_end

\* add_free, and block.free = false in allocmut
AddFree ==
    /\ block' = [b \in DOMAIN block \cup {heap_end} |->
                    IF b = heap_end THEN [free |-> FALSE, size |-> Want] ELSE block[b]]
    /\ heap_end' = heap_end + Want

\* The pages before the one that holds the end are mapped, and that one may be.
ExpandDone ==
    /\ Expanding
    /\ ~ MorePages
    /\ IsMapped(HeapPage(Containing(heap_end)))
    /\ AddFree
    /\ Return(heap_end)
    /\ UNCHANGED <<overcommitted, panicked, pageVars>>

\* When it is not, writing the header faults, which the kernel does not survive;
\* neither does it when the sum overflows.
ExpandPanics ==
    /\ \/ Doing("expand") /\ ~ Expanding
       \/ Expanding /\ ~ MorePages /\ ~ IsMapped(HeapPage(Containing(heap_end)))
    /\ panicked' = TRUE
    /\ UNCHANGED <<block, heap_end, live, call, overcommitted, pageVars>>

BuddyStep ==
    \/ FindAlone \/ (\E b \in DOMAIN block : FindBest(b)) \/ FindNone
    \/ Divide \/ AllocDone
    \/ (\E b \in DOMAIN block : Coalesce(b)) \/ CoalesceEnd
    \/ ExpandSkip \/ ExpandMap \/ ExpandMapped \/ ExpandFails
    \/ ExpandDone \/ ExpandPanics

BuddyCall ==
    \/ \E n \in Layouts : AllocStart(n)
    \/ \E b \in DOMAIN live : Dealloc(b)
=============================================================================
