--------------------------- MODULE KernelHeapProofs ---------------------------
(***************************************************************************)
(* Proofs about KernelHeap, for every size of the heap, set of layouts and *)
(* number of frames.  That the headers tile the heap (Tiled) is inductive  *)
(* only with what makes dividing and joining exact: every size is a power  *)
(* of two (PowersOf2).  That memory is handed out once needs, besides, that *)
(* the blocks in use are the ones handed out, each less than twice as large *)
(* as what it holds (LiveInv), and that the call under way is at a block   *)
(* that is free and large enough, or at a lone head that is not (CallInv). *)
(* That nothing is left to join at rest needs to know which neighbours     *)
(* could be joined while a call is under way (CoalescedInv), and that the  *)
(* heap stays below LARGE_HEAP that its pages are mapped without a gap     *)
(* (SegmentInv).                                                           *)
(***************************************************************************)
EXTENDS KernelHeap, FiniteSetTheorems, FunctionTheorems, WellFoundedInduction, TLAPS

\* Half of an even power of two is one, and the halves make up the whole.
LEMMA Pow2Half ==
    ASSUME NEW n \in Nat, n > 1, IsPow2(n)
    PROVE  n = 2 * (n \div 2) /\ IsPow2(n \div 2) /\ n \div 2 \in Nat \ {0}
<1>1. n % 2 = 0
  <2> SUFFICES ASSUME n % 2 = 1 PROVE FALSE
    OBVIOUS
  <2>1. n = n * 1 /\ n \in 1 .. n /\ 1 \in 1 .. n
    OBVIOUS
  <2> QED
    BY <2>1 DEF IsPow2
<1>2. n = 2 * (n \div 2) /\ n \div 2 \in Nat \ {0}
  BY <1>1
<1>3. ASSUME NEW d \in 1 .. n \div 2, NEW q \in 1 .. n \div 2,
             n \div 2 = d * q, d % 2 = 1
      PROVE  d = 1
  <2> DEFINE h == n \div 2
  <2>1. h \in Nat /\ n = 2 * h /\ h = d * q
    BY <1>2, <1>3
  <2> HIDE DEF h
  <2>2. d \in 1 .. n /\ 2 * q \in 1 .. n
    BY <1>2, <1>3
  <2>3. n = d * (2 * q)
    BY <2>1, <1>3
  <2> QED
    BY <2>2, <2>3, <1>3 DEF IsPow2
<1> QED
  BY <1>2, <1>3 DEF IsPow2

\* Twice a power of two is one.
LEMMA Pow2Double ==
    ASSUME NEW n \in Nat \ {0}, IsPow2(n)
    PROVE  IsPow2(2 * n)
<1> SUFFICES ASSUME NEW d \in 1 .. 2 * n, NEW q \in 1 .. 2 * n,
                    2 * n = d * q, d % 2 = 1
             PROVE  d = 1
  BY DEF IsPow2
<1>1. PICK a \in Nat : d = 2 * a + 1
  <2>1. d = 2 * (d \div 2) + 1 /\ d \div 2 \in Nat
    OBVIOUS
  <2> QED
    BY <2>1
<1>2. PICK r \in Nat : q = 2 * r
  <2>1. q = 2 * (q \div 2) \/ q = 2 * (q \div 2) + 1
    OBVIOUS
  <2>2. ASSUME q = 2 * (q \div 2) + 1 PROVE FALSE
    <3> DEFINE r == q \div 2
    <3>1. r \in Nat /\ q = 2 * r + 1
      BY <2>2
    <3> HIDE DEF r
    <3>2. d * q = 2 * (2 * (a * r) + a + r) + 1 /\ a * r \in Nat
      BY <3>1, <1>1
    <3> QED
      BY <3>2, <3>1
  <2> QED
    BY <2>1, <2>2
<1>3. d * q = 2 * (d * r) /\ d * r \in Nat
  BY <1>2
<1>4. n = d * r
  BY <1>3
<1>5. r # 0
  BY <1>2
<1>6. d <= d * r /\ r <= d * r
  BY <1>5
<1>7. d \in 1 .. n /\ r \in 1 .. n
  BY <1>4, <1>5, <1>6
<1> QED
  BY <1>4, <1>7 DEF IsPow2

\* Every non-empty set of numbers has a least one.
LEMMA Least ==
    ASSUME NEW T, T \subseteq Nat, T # {}
    PROVE  \E x \in T : \A y \in T : ~ (y < x)
<1>1. IsWellFoundedOn(OpToRel(<, Nat), Nat)
  BY NatLessThanWellFounded
<1>2. \E x \in T : \A y \in T : ~ (<<y, x>> \in OpToRel(<, Nat))
  BY <1>1, WFMin
<1>3. \A x, y \in Nat : y < x => <<y, x>> \in OpToRel(<, Nat)
  BY DEF OpToRel
<1> QED
  BY <1>2, <1>3

\* There is a power of two between a number and its double: the loop of
\* align_to_power_of_2 ends there.
LEMMA Pow2Between == \A n \in Nat \ {0} : \E m \in n .. 2 * n : IsPow2(m)
<1> DEFINE T == {n \in Nat \ {0} : \A m \in n .. 2 * n : ~ IsPow2(m)}
<1> SUFFICES ASSUME T # {} PROVE FALSE
  OBVIOUS
<1>1. PICK x \in T : \A y \in T : ~ (y < x)
  <2>1. T \subseteq Nat
    OBVIOUS
  <2> HIDE DEF T
  <2> QED
    BY <2>1, Least
<1>2. x \in Nat \ {0} /\ \A m \in x .. 2 * x : ~ IsPow2(m)
  OBVIOUS
<1>3. \A y \in Nat \ {0} : y < x => \E m \in y .. 2 * y : IsPow2(m)
  BY <1>1
<1> HIDE DEF T
<1>4. x # 1
  <2>1. IsPow2(1)
    BY DEF IsPow2
  <2> QED
    BY <1>2, <2>1
<1>5. PICK h \in Nat : x = 2 * h \/ x = 2 * h + 1
  <2>1. x \div 2 \in Nat /\ (x = 2 * (x \div 2) \/ x = 2 * (x \div 2) + 1)
    BY <1>2
  <2> QED
    BY <2>1
<1>6. h # 0
  BY <1>2, <1>4, <1>5
<1>7. CASE x = 2 * h
  <2>1. PICK m \in h .. 2 * h : IsPow2(m)
    BY <1>3, <1>6, <1>7
  <2>2. m \in Nat \ {0} /\ 2 * m \in x .. 2 * x
    BY <1>6, <1>7
  <2> QED
    BY <1>2, <2>1, <2>2, Pow2Double
<1>8. CASE x = 2 * h + 1
  <2>1. PICK m \in h + 1 .. 2 * (h + 1) : IsPow2(m)
    BY <1>3, <1>6, <1>8
  <2>2. m \in Nat \ {0} /\ (2 * m \in x .. 2 * x \/ m \in x .. 2 * x)
    BY <1>6, <1>8
  <2> QED
    BY <1>2, <2>1, <2>2, Pow2Double
<1> QED
  BY <1>5, <1>7, <1>8

\* actual_size is the least power of two with room for the layout and a header.
LEMMA ActualSizeFacts ==
    ASSUME NEW n \in Layouts
    PROVE  /\ n \in Nat \ {0} /\ Header \in Nat \ {0}
           /\ ActualSize[n] \in Nat /\ IsPow2(ActualSize[n])
           /\ n + Header <= ActualSize[n]
           /\ \A m \in Nat : IsPow2(m) /\ n + Header <= m => ActualSize[n] <= m
<1>1. n \in Nat \ {0} /\ Header \in Nat \ {0}
  BY LayoutsAssumption, HeaderAssumption
<1> DEFINE P(c) == /\ IsPow2(c) /\ n + Header <= c
                   /\ \A m \in 1 .. c - 1 : ~ (IsPow2(m) /\ n + Header <= m)
           T == {m \in 1 .. 2 * (n + Header) : IsPow2(m) /\ n + Header <= m}
<1>2. \E c \in 1 .. 2 * (n + Header) : P(c)
  <2>1. PICK k \in n + Header .. 2 * (n + Header) : IsPow2(k)
    BY <1>1, Pow2Between
  <2>2. k \in T /\ T \subseteq Nat
    BY <1>1, <2>1
  <2>3. PICK c \in T : \A y \in T : ~ (y < c)
    <3> HIDE DEF T
    <3> QED
      BY <2>2, Least
  <2> QED
    BY <1>1, <2>3
<1>3. ActualSize[n] = CHOOSE c \in 1 .. 2 * (n + Header) : P(c)
  BY DEF ActualSize
<1>4. ActualSize[n] \in 1 .. 2 * (n + Header) /\ P(ActualSize[n])
  <2> HIDE DEF P
  <2> QED
    BY <1>2, <1>3
<1>5. ASSUME NEW m \in Nat, IsPow2(m), n + Header <= m PROVE ActualSize[n] <= m
  <2>1. m \in 1 .. ActualSize[n] - 1 \/ ActualSize[n] <= m
    BY <1>1, <1>4, <1>5
  <2> QED
    BY <1>4, <1>5, <2>1
<1> QED
  BY <1>1, <1>4, <1>5

-----------------------------------------------------------------------------
BuddyType ==
    /\ heap_end \in Nat /\ InitSize <= heap_end
    /\ DOMAIN block \subseteq 0 .. heap_end - 1
    /\ block \in [DOMAIN block -> [free : BOOLEAN, size : Nat \ {0}]]
    /\ DOMAIN live \subseteq DOMAIN block /\ live \in [DOMAIN live -> Layouts]
    /\ call \in [op : {"idle", "find", "divide", "coalesce", "expand"},
                 layout : Layouts \cup {0}, at : Nat,
                 alone : BOOLEAN, merged : BOOLEAN, retried : BOOLEAN]
    /\ overcommitted \in BOOLEAN /\ panicked \in BOOLEAN

\* Every size is a power of two with room for more than the header.
PowersOf2 ==
    \A b \in DOMAIN block : IsPow2(block[b].size) /\ Header < block[b].size

\* What is handed out lies in a block that is in use, and takes more than half
\* of it; nothing else is in use.
LiveInv ==
    ~ overcommitted =>
        /\ \A b \in DOMAIN live : /\ ~ block[b].free
                                  /\ live[b] + Header <= block[b].size
                                  /\ block[b].size < 2 * (live[b] + Header)
        /\ \A b \in DOMAIN block : ~ block[b].free => b \in DOMAIN live

\* The request for which a lone head is taken that is in use or too small
Misfit ==
    /\ DOMAIN live \subseteq {0}
    /\ \/ 0 \in DOMAIN live /\ heap_end < 2 * (live[0] + Header)
       \/ heap_end < call.layout + Header

\* An allocation has a layout, and once it has found a block, that block and
\* the one it will return are equal, and free and large enough if they should.
CallInv ==
    /\ call.op \in {"find", "divide", "expand"} \/ call.retried => call.layout \in Layouts
    /\ call.op = "divide" =>
         /\ call.at \in DOMAIN block /\ Got \in DOMAIN block
         /\ block[Got].size = block[call.at].size
         /\ ~ overcommitted =>
              block[call.at].free /\ block[Got].free /\ Want <= block[call.at].size
    /\ overcommitted => /\ call.op \in {"divide", "idle"}
                        /\ call.op = "divide" => Misfit

BuddyInv == BuddyType /\ Tiled /\ PowersOf2 /\ LiveInv /\ CallInv

\* Facts about the layout of the call under way
LEMMA WantFacts ==
    ASSUME CallInv, call.op \in {"find", "divide", "expand"} \/ call.retried
    PROVE  /\ call.layout \in Layouts /\ call.layout \in Nat \ {0}
           /\ Want \in Nat /\ Header \in Nat \ {0} /\ InitSize \in Nat
           /\ IsPow2(Want) /\ call.layout + Header <= Want
           /\ \A m \in Nat : IsPow2(m) /\ call.layout + Header <= m => Want <= m
           /\ Header < Want /\ 0 < Want
<1>1. call.layout \in Layouts
  BY DEF CallInv
<1> QED
  BY <1>1, ActualSizeFacts, InitSizeAssumption DEF Want

\* Page numbers are natural.
LEMMA ContainingNat == \A n \in Nat : Containing(n) \in Nat
<1>1. ASSUME NEW n \in Nat, NEW p \in Nat \ {0} PROVE n \div p \in Nat
  <2>1. n \div p \in Int
    OBVIOUS
  <2>2. n \div p >= 0
    OBVIOUS
  <2> QED
    BY <2>1, <2>2
<1> QED
  BY <1>1, PagesAssumption DEF Containing

LEMMA BuddyInitInv == BuddyInit => BuddyInv
<1> SUFFICES ASSUME BuddyInit PROVE BuddyInv
  OBVIOUS
<1>1. InitSize \in Nat \ {0} /\ IsPow2(InitSize) /\ Header \in Nat \ {0} /\ Header < InitSize
  BY InitSizeAssumption, HeaderAssumption
<1>2. DOMAIN block = {0} /\ block[0] = [free |-> TRUE, size |-> InitSize] /\ heap_end = InitSize
  BY DEF BuddyInit
<1>3. BuddyType
  <2>1. block \in [DOMAIN block -> [free : BOOLEAN, size : Nat \ {0}]]
    BY <1>1 DEF BuddyInit
  <2>2. /\ DOMAIN live = {} /\ live \in [DOMAIN live -> Layouts] /\ call = Idle
        /\ overcommitted = FALSE /\ panicked = FALSE
    BY DEF BuddyInit
  <2>3. DOMAIN block \subseteq 0 .. heap_end - 1
    BY <1>1, <1>2
  <2>4. call = [op |-> "idle", layout |-> 0, at |-> 0, alone |-> FALSE,
                merged |-> FALSE, retried |-> FALSE]
    BY <2>2 DEF Idle, Call
  <2> QED
    BY <1>1, <1>2, <2>1, <2>2, <2>3, <2>4, SMTT(60) DEF BuddyType
<1>4. Tiled
  BY <1>1, <1>2 DEF Tiled, After
<1>5. PowersOf2 /\ LiveInv /\ CallInv
  BY <1>1, <1>2 DEF BuddyInit, PowersOf2, LiveInv, CallInv, Idle, Call
<1> QED
  BY <1>3, <1>4, <1>5 DEF BuddyInv

\* Steps that leave the blocks alone
LEMMA SameBlocks ==
    ASSUME BuddyInv, UNCHANGED <<block, heap_end, live>>, panicked' \in BOOLEAN,
           overcommitted' \in BOOLEAN, overcommitted => overcommitted',
           call' \in [op : {"idle", "find", "divide", "coalesce", "expand"},
                      layout : Layouts \cup {0}, at : Nat,
                      alone : BOOLEAN, merged : BOOLEAN, retried : BOOLEAN],
           CallInv'
    PROVE  BuddyInv'
BY DEF BuddyInv, BuddyType, Tiled, After, PowersOf2, LiveInv

LEMMA AllocStartInv ==
    ASSUME BuddyInv, NEW n \in Layouts, AllocStart(n)
    PROVE  BuddyInv'
<1>1. CallInv'
  BY DEF AllocStart, Call, CallInv
<1> QED
  BY <1>1, SameBlocks DEF AllocStart, Call, BuddyInv, BuddyType

LEMMA FindInv ==
    ASSUME BuddyInv, FindAlone \/ (\E b \in DOMAIN block : FindBest(b)) \/ FindNone
    PROVE  BuddyInv'
<1> USE DEF Doing
<1>0. call.op = "find"
  BY DEF FindAlone, FindBest, FindNone
<1>1. /\ call.layout \in Layouts /\ Want \in Nat /\ Header \in Nat
      /\ call.layout \in Nat /\ ~ overcommitted
      /\ \A m \in Nat : IsPow2(m) /\ call.layout + Header <= m => Want <= m
  BY <1>0, WantFacts DEF BuddyInv, CallInv
<1>2. CASE FindAlone
  <2>1. 0 \in DOMAIN block /\ After(0) = heap_end
    <3>1. 0 \in DOMAIN block /\ (After(0) = heap_end \/ After(0) \in DOMAIN block)
      BY DEF BuddyInv, Tiled
    <3>2. After(0) \in DOMAIN block => After(0) < heap_end
      BY DEF BuddyInv, BuddyType
    <3> QED
      BY <1>2, <3>1, <3>2 DEF FindAlone, HasNext
  <2>2. block[0].size = heap_end /\ heap_end \in Nat /\ IsPow2(heap_end)
    BY <2>1 DEF After, BuddyInv, BuddyType, PowersOf2
  <2>3. DOMAIN live \subseteq {0}
    <3>1. \A b \in DOMAIN block : b \in Nat /\ b < heap_end /\ (0 < b => After(0) <= b)
      BY <2>1 DEF BuddyInv, BuddyType, Tiled
    <3>2. \A b \in DOMAIN block : b = 0
      BY <2>1, <2>2, <3>1
    <3> QED
      BY <3>2 DEF BuddyInv, BuddyType
  <2>4. /\ call' = Call("divide", call.layout, 0, TRUE, FALSE, call.retried)
        /\ overcommitted' = (~ block[0].free \/ block[0].size < Want)
        /\ UNCHANGED <<block, heap_end, live, panicked>>
    BY <1>2 DEF FindAlone
  <2>5. CallInv'
    <3>1. Want' = Want /\ Got' = 0
      BY <1>2, <2>4 DEF Want, Got, Call, FindAlone, HasNext, After
    <3>2. ASSUME ~ block[0].free PROVE 0 \in DOMAIN live /\ heap_end < 2 * (live[0] + Header)
      BY <1>1, <2>1, <2>2, <3>2 DEF BuddyInv, LiveInv
    <3>3. ASSUME block[0].size < Want PROVE heap_end < call.layout + Header
      BY <1>1, <2>2, <3>3
    <3>4. overcommitted' => Misfit'
      BY <2>3, <2>4, <3>2, <3>3 DEF Misfit, Call
    <3>5. ~ overcommitted' => block[0].free /\ Want <= block[0].size
      <4>1. ~ overcommitted' => block[0].free /\ ~ (block[0].size < Want)
        BY <2>4, Zenon
      <4> QED
        BY <1>1, <2>2, <4>1
    <3>6. call'.op = "divide" /\ call'.at = 0 /\ call'.layout = call.layout
      BY <2>4 DEF Call
    <3> QED
      BY <1>1, <2>1, <2>4, <3>1, <3>4, <3>5, <3>6 DEF CallInv
  <2>6. overcommitted' \in BOOLEAN
    BY <2>4
  <2> QED
    BY <1>1, <2>4, <2>5, <2>6, SameBlocks DEF Call, BuddyInv, BuddyType
<1>3. CASE \E b \in DOMAIN block : FindBest(b)
  <2>1. PICK b \in DOMAIN block : FindBest(b)
    BY <1>3
  <2>2. block[b].free /\ Want <= block[b].size /\ b \in Nat
    BY <2>1 DEF FindBest, IsBest, Fits, BuddyInv, BuddyType
  <2>3. /\ call' = Call("divide", call.layout, b, FALSE, FALSE, call.retried)
        /\ UNCHANGED <<block, heap_end, live, overcommitted, panicked>>
    BY <2>1 DEF FindBest
  <2>4. CallInv'
    <3>1. Want' = Want /\ Got' = b
      BY <2>3 DEF Want, Got, Call
    <3> QED
      BY <1>1, <2>2, <2>3, <3>1 DEF Call, CallInv
  <2> QED
    BY <1>1, <2>2, <2>3, <2>4, SameBlocks DEF Call, BuddyInv, BuddyType
<1>4. CASE FindNone
  <2>1. Containing(heap_end) \in Nat
    BY ContainingNat DEF BuddyInv, BuddyType
  <2>2. /\ \/ call' = Call("expand", call.layout, Containing(heap_end), FALSE, FALSE, TRUE)
           \/ call' = Call("coalesce", call.layout, 0, FALSE, FALSE, TRUE)
        /\ UNCHANGED <<block, heap_end, live, overcommitted, panicked>>
    BY <1>4 DEF FindNone
  <2>3. CallInv'
    BY <1>1, <2>2 DEF Call, CallInv
  <2>4. CASE call' = Call("expand", call.layout, Containing(heap_end), FALSE, FALSE, TRUE)
    BY <1>1, <2>1, <2>2, <2>3, <2>4, SameBlocks DEF Call, BuddyInv, BuddyType
  <2>5. CASE call' = Call("coalesce", call.layout, 0, FALSE, FALSE, TRUE)
    BY <1>1, <2>2, <2>3, <2>5, SameBlocks DEF Call, BuddyInv, BuddyType
  <2> QED
    BY <2>2, <2>4, <2>5
<1> QED
  BY <1>2, <1>3, <1>4

\* Block::divide: the halves of a power of two make up the block.
LEMMA DivideInv ==
    ASSUME BuddyInv, Divide
    PROVE  BuddyInv'
<1>0. PICK b, half, right : /\ b = call.at /\ half = block[b].size \div 2
                            /\ right = b + half
  OBVIOUS
<1>1. call.op = "divide"
  BY DEF Divide, Doing
<1>2. /\ b \in DOMAIN block /\ b \in Nat
      /\ block[b].size \in Nat \ {0} /\ Want <= half /\ Header < half
  BY <1>0, <1>1 DEF BuddyInv, BuddyType, CallInv, Divide, Divides
<1>3. /\ call.layout \in Layouts /\ Want \in Nat /\ 0 < Want /\ InitSize \in Nat
      /\ Header \in Nat
  BY <1>1, WantFacts DEF BuddyInv
<1>4. block[b].size = 2 * half /\ IsPow2(half) /\ half \in Nat \ {0}
  <2>1. block[b].size > 1
    BY <1>0, <1>2, <1>3
  <2>2. IsPow2(block[b].size)
    BY <1>2 DEF BuddyInv, PowersOf2
  <2> QED
    BY <1>0, <1>2, <2>1, <2>2, Pow2Half
<1>5. /\ DOMAIN block' = DOMAIN block \cup {right}
      /\ block'[b] = [free |-> TRUE, size |-> half]
      /\ block'[right] = [free |-> TRUE, size |-> half]
      /\ \A c \in DOMAIN block \ {b, right} : block'[c] = block[c]
      /\ block' = [c \in DOMAIN block' |-> block'[c]]
      /\ UNCHANGED <<heap_end, live, call, overcommitted, panicked>>
  BY <1>0, <1>2 DEF Divide
<1>6. right = b + half /\ right \in Nat /\ b < right /\ After(b) = right + half
  BY <1>0, <1>2, <1>4 DEF After
<1>7. right \notin DOMAIN block
  BY <1>2, <1>4, <1>6 DEF BuddyInv, Tiled, After, BuddyType
<1>8. /\ DOMAIN block \subseteq Nat /\ heap_end \in Nat
      /\ \A c \in DOMAIN block : c < heap_end /\ block[c].size \in Nat \ {0} /\ block[c].free \in BOOLEAN
  BY DEF BuddyInv, BuddyType
<1>9. After(b) <= heap_end
  BY <1>2, <1>8 DEF BuddyInv, Tiled
<1>10. BuddyType'
  <2>1. DOMAIN block' \subseteq 0 .. heap_end' - 1
    BY <1>4, <1>5, <1>6, <1>8, <1>9
  <2>2. \A c \in DOMAIN block' : block'[c] \in [free : BOOLEAN, size : Nat \ {0}]
    <3>1. \A c \in DOMAIN block : block[c] \in [free : BOOLEAN, size : Nat \ {0}]
      BY DEF BuddyInv, BuddyType
    <3>2. [free |-> TRUE, size |-> half] \in [free : BOOLEAN, size : Nat \ {0}]
      BY <1>4
    <3>3. ASSUME NEW c \in DOMAIN block' PROVE block'[c] \in [free : BOOLEAN, size : Nat \ {0}]
      <4>1. c \in {b, right} => block'[c] = [free |-> TRUE, size |-> half]
        BY <1>5
      <4>2. c \notin {b, right} => c \in DOMAIN block /\ block'[c] = block[c]
        BY <1>5
      <4> QED
        BY <3>1, <3>2, <4>1, <4>2, Zenon
    <3> QED
      BY <3>3
  <2>3. DOMAIN live' \subseteq DOMAIN block'
    BY <1>5 DEF BuddyInv, BuddyType
  <2> QED
    BY <1>5, <2>1, <2>2, <2>3 DEF BuddyInv, BuddyType
<1>11. /\ After(b)' = right /\ After(right)' = After(b)
       /\ \A c \in DOMAIN block \ {b} : After(c)' = After(c)
  BY <1>2, <1>4, <1>5, <1>6, <1>7, <1>8 DEF After
<1>12. Tiled'
  <2>1. 0 \in DOMAIN block'
    BY <1>5 DEF BuddyInv, Tiled
  <2>2. ASSUME NEW c \in DOMAIN block'
        PROVE  After(c)' = heap_end' \/ After(c)' \in DOMAIN block'
    BY <1>2, <1>5, <1>11 DEF BuddyInv, Tiled
  <2>3. ASSUME NEW c \in DOMAIN block', NEW d \in DOMAIN block', c < d
        PROVE  After(c)' <= d
    <3>1. CASE c = b
      BY <1>2, <1>4, <1>5, <1>6, <1>8, <1>11, <2>3, <3>1 DEF BuddyInv, Tiled
    <3>2. CASE c = right
      BY <1>2, <1>4, <1>5, <1>6, <1>8, <1>11, <2>3, <3>2 DEF BuddyInv, Tiled
    <3>3. CASE c \in DOMAIN block \ {b, right}
      <4>1. CASE d = right
        <5>1. c < b
          BY <1>2, <1>4, <1>6, <1>8, <2>3, <3>3, <4>1 DEF BuddyInv, Tiled
        <5>2. After(c) <= b /\ After(c) \in Nat
          BY <1>2, <1>8, <3>3, <5>1 DEF BuddyInv, Tiled, After
        <5> QED
          BY <1>2, <1>6, <1>11, <3>3, <4>1, <5>2
      <4>2. CASE d \in DOMAIN block
        BY <1>11, <2>3, <3>3, <4>2 DEF BuddyInv, Tiled
      <4> QED
        BY <1>5, <4>1, <4>2
    <3> QED
      BY <1>5, <3>1, <3>2, <3>3
  <2> QED
    BY <2>1, <2>2, <2>3 DEF Tiled
<1>13. PowersOf2'
  BY <1>2, <1>4, <1>5 DEF BuddyInv, PowersOf2
<1>14. LiveInv'
  <2> SUFFICES ASSUME ~ overcommitted PROVE LiveInv'
    BY <1>5 DEF LiveInv
  <2>1. block[b].free
    BY <1>0, <1>1 DEF BuddyInv, CallInv
  <2>2. b \notin DOMAIN live /\ right \notin DOMAIN live
    BY <1>2, <1>7, <2>1 DEF BuddyInv, BuddyType, LiveInv
  <2> QED
    BY <1>5, <2>2 DEF BuddyInv, BuddyType, LiveInv
<1>15. CallInv'
  <2>1. Want' = Want
    BY <1>5, SMTT(60) DEF Want
  <2>2. Got' = b \/ Got' = right
    BY <1>0, <1>5, <1>11 DEF Got, HasNext
  <2>3. Want <= half
    BY <1>2
  <2>4. overcommitted' => Misfit'
    BY <1>1, <1>5 DEF BuddyInv, CallInv, Misfit
  <2> QED
    BY <1>0, <1>1, <1>2, <1>3, <1>5, <2>1, <2>2, <2>3, <2>4 DEF CallInv
<1> QED
  BY <1>10, <1>12, <1>13, <1>14, <1>15 DEF BuddyInv

\* A change of whether blocks are in use leaves the row as it is.
LEMMA SameSizes ==
    ASSUME BuddyInv, heap_end' = heap_end, DOMAIN block' = DOMAIN block,
           \A c \in DOMAIN block : block'[c].size = block[c].size
    PROVE  Tiled'
BY DEF BuddyInv, Tiled, After

LEMMA AllocDoneInv ==
    ASSUME BuddyInv, AllocDone
    PROVE  /\ BuddyInv'
           /\ Got \in DOMAIN block
           /\ ~ overcommitted => Got \notin DOMAIN live
<1> DEFINE g == Got
<1>1. call.op = "divide"
  BY DEF AllocDone, Doing
<1>2. /\ g \in DOMAIN block /\ call.at \in DOMAIN block
      /\ block[g].size = block[call.at].size
      /\ block[g].size \in Nat \ {0}
      /\ ~ overcommitted => block[g].free /\ Want <= block[g].size
  BY <1>1 DEF BuddyInv, BuddyType, CallInv
<1>3. /\ call.layout \in Layouts /\ Want \in Nat /\ Header < Want
      /\ call.layout + Header <= Want
      /\ \A m \in Nat : IsPow2(m) /\ call.layout + Header <= m => Want <= m
      /\ Header \in Nat \ {0} /\ call.layout \in Nat \ {0}
  BY <1>1, WantFacts DEF BuddyInv
<1>4. /\ block' = [block EXCEPT ![g].free = FALSE]
      /\ live' = [c \in DOMAIN live \cup {g} |-> IF c = g THEN call.layout ELSE live[c]]
      /\ call' = Idle
      /\ UNCHANGED <<heap_end, overcommitted, panicked>>
      /\ ~ Divides
  BY DEF AllocDone, Return
<1>5. ~ overcommitted => g \notin DOMAIN live
  BY <1>2 DEF BuddyInv, LiveInv
<1> HIDE DEF g
<1>6. block[g].size < 2 * (call.layout + Header)
  <2>1. PICK half : half = block[g].size \div 2
    OBVIOUS
  <2>2. IsPow2(block[g].size) /\ Header < block[g].size
    BY <1>2 DEF BuddyInv, PowersOf2
  <2>3. half \in Nat /\ IsPow2(half) /\ block[g].size = 2 * half
    BY <1>2, <1>3, <2>1, <2>2, Pow2Half
  <2>4. half < Want \/ half <= Header
    BY <1>2, <1>3, <1>4, <2>1, <2>3 DEF Divides
  <2> QED
    BY <1>3, <2>3, <2>4
<1>7. /\ DOMAIN block' = DOMAIN block
      /\ \A c \in DOMAIN block : block'[c].size = block[c].size
      /\ \A c \in DOMAIN block \ {g} : block'[c] = block[c]
      /\ ~ block'[g].free
      /\ \A c \in DOMAIN block' : block'[c] \in [free : BOOLEAN, size : Nat \ {0}]
      /\ block' = [c \in DOMAIN block' |-> block'[c]]
  BY <1>2, <1>4 DEF BuddyInv, BuddyType
<1>8. Tiled'
  BY <1>4, <1>7, SameSizes
<1>9. BuddyType'
  BY <1>2, <1>3, <1>4, <1>7, ZenonT(60) DEF BuddyInv, BuddyType, Idle, Call
<1>10. PowersOf2'
  BY <1>2, <1>7 DEF BuddyInv, PowersOf2
<1>11. LiveInv'
  <2> SUFFICES ASSUME ~ overcommitted PROVE LiveInv'
    BY <1>4 DEF LiveInv
  <2>1. call.layout + Header <= block[g].size
    BY <1>2, <1>3
  <2>2. DOMAIN live' = DOMAIN live \cup {g} /\ live'[g] = call.layout
        /\ \A c \in DOMAIN live : c # g /\ live'[c] = live[c] /\ c \in DOMAIN block
    BY <1>4, <1>5 DEF BuddyInv, BuddyType
  <2> QED
    BY <1>2, <1>6, <1>7, <2>1, <2>2 DEF BuddyInv, LiveInv
<1>12. CallInv'
  BY <1>4 DEF CallInv, Idle, Call
<1> QED
  BY <1>2, <1>5, <1>8, <1>9, <1>10, <1>11, <1>12 DEF BuddyInv, g

LEMMA DeallocInv ==
    ASSUME BuddyInv, NEW b \in DOMAIN live, Dealloc(b)
    PROVE  BuddyInv'
<1>1. /\ block' = [block EXCEPT ![b].free = TRUE]
      /\ live' = [c \in DOMAIN live \ {b} |-> live[c]]
      /\ call' = Call("coalesce", 0, 0, FALSE, FALSE, FALSE)
      /\ UNCHANGED <<heap_end, overcommitted, panicked>> /\ ~ overcommitted
  BY DEF Dealloc
<1>2. b \in DOMAIN block
  BY DEF BuddyInv, BuddyType
<1>3. /\ DOMAIN block' = DOMAIN block
      /\ \A c \in DOMAIN block : block'[c].size = block[c].size
      /\ \A c \in DOMAIN block \ {b} : block'[c] = block[c]
      /\ block'[b].free
      /\ \A c \in DOMAIN block' : block'[c] \in [free : BOOLEAN, size : Nat \ {0}]
      /\ block' = [c \in DOMAIN block' |-> block'[c]]
  BY <1>1, <1>2, ZenonT(60) DEF BuddyInv, BuddyType
<1>4. Tiled'
  BY <1>1, <1>3, SameSizes
<1>5. BuddyType'
  BY <1>1, <1>3 DEF BuddyInv, BuddyType, Call
<1>6. PowersOf2'
  BY <1>2, <1>3 DEF BuddyInv, PowersOf2
<1>7. LiveInv'
  BY <1>1, <1>3 DEF BuddyInv, BuddyType, LiveInv
<1>8. CallInv'
  BY <1>1 DEF CallInv, Call
<1> QED
  BY <1>4, <1>5, <1>6, <1>7, <1>8 DEF BuddyInv

\* A turn of coalescence_buddies joins two blocks of the same size.
LEMMA CoalesceInv ==
    ASSUME BuddyInv, NEW b \in DOMAIN block, Coalesce(b)
    PROVE  BuddyInv'
<1>0. PICK n, size : n = After(b) /\ size = block[b].size
  OBVIOUS
<1>1. /\ DOMAIN block \subseteq Nat /\ heap_end \in Nat
      /\ \A c \in DOMAIN block :
            /\ c < heap_end /\ block[c].size \in Nat \ {0} /\ block[c].free \in BOOLEAN
            /\ block[c] \in [free : BOOLEAN, size : Nat \ {0}]
  BY DEF BuddyInv, BuddyType
<1>2. /\ n < heap_end /\ block[b].free /\ block[n].free /\ block[n].size = size
  BY <1>0 DEF Coalesce, Mergeable, HasNext
<1>3. /\ n \in DOMAIN block /\ n \in Nat /\ b \in Nat /\ size \in Nat \ {0}
      /\ n = b + size /\ b < n /\ After(n) = b + 2 * size
  BY <1>0, <1>1, <1>2 DEF BuddyInv, Tiled, After
<1>4. /\ DOMAIN block' = DOMAIN block \ {n}
      /\ block'[b] = [block[b] EXCEPT !.size = 2 * size]
      /\ \A c \in DOMAIN block \ {b, n} : block'[c] = block[c]
      /\ block' = [c \in DOMAIN block' |-> block'[c]]
      /\ UNCHANGED <<heap_end, live, overcommitted, panicked>>
      /\ call' = Call("coalesce", call.layout, b, FALSE, TRUE, call.retried)
      /\ ~ overcommitted
  BY <1>0, <1>3 DEF Coalesce, Doing, BuddyInv, CallInv
<1>5. block'[b].size = 2 * size /\ block'[b].free /\ block'[b] \in [free : BOOLEAN, size : Nat \ {0}]
  BY <1>1, <1>2, <1>3, <1>4
<1>6. BuddyType'
  <2>1. DOMAIN block' \subseteq 0 .. heap_end' - 1
    BY <1>1, <1>4
  <2>2. \A c \in DOMAIN block' : block'[c] \in [free : BOOLEAN, size : Nat \ {0}]
    BY <1>1, <1>4, <1>5, Zenon
  <2>3. DOMAIN live' \subseteq DOMAIN block'
    BY <1>2, <1>4 DEF BuddyInv, BuddyType, LiveInv
  <2>4. overcommitted' \in BOOLEAN /\ panicked' \in BOOLEAN
    BY <1>4 DEF BuddyInv, BuddyType
  <2> QED
    BY <1>3, <1>4, <2>1, <2>2, <2>3, <2>4 DEF BuddyInv, BuddyType, Call
<1>7. /\ After(b)' = After(n)
      /\ \A c \in DOMAIN block' \ {b} : After(c)' = After(c)
  BY <1>3, <1>4, <1>5 DEF After
<1>8. Tiled'
  <2>1. 0 \in DOMAIN block'
    BY <1>3, <1>4 DEF BuddyInv, Tiled
  <2>2. ASSUME NEW c \in DOMAIN block'
        PROVE  After(c)' = heap_end' \/ After(c)' \in DOMAIN block'
    <3>1. CASE c = b
      <4>1. After(n) # n
        BY <1>3
      <4> QED
        BY <1>3, <1>4, <1>7, <3>1, <4>1 DEF BuddyInv, Tiled
    <3>2. CASE c # b
      <4>1. c \in DOMAIN block /\ c # n /\ c \in Nat
        BY <1>1, <1>4
      <4>2. c < b \/ n < c
        <5>1. b < c => n <= c
          BY <1>0, <4>1 DEF BuddyInv, Tiled
        <5> QED
          BY <1>3, <3>2, <4>1, <5>1
      <4>3. c < b => After(c) <= b
        BY <4>1 DEF BuddyInv, Tiled
      <4>4. After(c) \in Nat /\ c < After(c)
        BY <1>1, <4>1 DEF After
      <4>5. After(c) # n
        BY <1>3, <4>1, <4>2, <4>3, <4>4
      <4> QED
        BY <1>4, <1>7, <3>2, <4>1, <4>5 DEF BuddyInv, Tiled
    <3> QED
      BY <3>1, <3>2
  <2>3. ASSUME NEW c \in DOMAIN block', NEW d \in DOMAIN block', c < d
        PROVE  After(c)' <= d
    <3>0. c \in DOMAIN block /\ d \in DOMAIN block /\ d # n /\ c # n /\ d \in Nat /\ c \in Nat
      BY <1>1, <1>4
    <3>1. CASE c = b
      <4>1. n <= d
        BY <1>0, <2>3, <3>0, <3>1 DEF BuddyInv, Tiled
      <4>2. After(n) <= d
        BY <1>3, <3>0, <4>1 DEF BuddyInv, Tiled
      <4> QED
        BY <1>7, <3>1, <4>2
    <3>2. CASE c # b
      BY <1>7, <2>3, <3>0, <3>2 DEF BuddyInv, Tiled
    <3> QED
      BY <3>1, <3>2
  <2> QED
    BY <2>1, <2>2, <2>3 DEF Tiled
<1>9. PowersOf2'
  <2>1. IsPow2(2 * size) /\ Header < 2 * size
    <3>1. IsPow2(size) /\ Header < size
      BY <1>0 DEF BuddyInv, PowersOf2
    <3> QED
      BY <1>3, <3>1, Pow2Double, HeaderAssumption
  <2> QED
    BY <1>4, <1>5, <2>1 DEF BuddyInv, PowersOf2
<1>10. LiveInv'
  <2>1. b \notin DOMAIN live /\ n \notin DOMAIN live
    BY <1>2, <1>4 DEF BuddyInv, LiveInv
  <2> QED
    BY <1>4, <2>1 DEF BuddyInv, BuddyType, LiveInv
<1>11. CallInv'
  BY <1>4 DEF BuddyInv, CallInv, Call
<1> QED
  BY <1>6, <1>8, <1>9, <1>10, <1>11 DEF BuddyInv

LEMMA CoalesceEndInv ==
    ASSUME BuddyInv, CoalesceEnd
    PROVE  BuddyInv'
<1>1. UNCHANGED <<block, heap_end, live, overcommitted, panicked>> /\ call.op = "coalesce"
  BY DEF CoalesceEnd, Doing
<1>2. \/ call' = Call("coalesce", call.layout, 0, FALSE, FALSE, call.retried)
      \/ call' = Call("find", call.layout, 0, FALSE, FALSE, TRUE) /\ call.retried
      \/ call' = Call("idle", 0, 0, FALSE, FALSE, FALSE)
  BY DEF CoalesceEnd, Idle
<1>3. CallInv'
  BY <1>1, <1>2 DEF BuddyInv, CallInv, Call
<1>4. CASE call' = Call("coalesce", call.layout, 0, FALSE, FALSE, call.retried)
  BY <1>1, <1>3, <1>4, SameBlocks DEF BuddyInv, BuddyType, Call
<1>5. CASE call' = Call("find", call.layout, 0, FALSE, FALSE, TRUE)
  BY <1>1, <1>3, <1>5, SameBlocks DEF BuddyInv, BuddyType, Call
<1>6. CASE call' = Call("idle", 0, 0, FALSE, FALSE, FALSE)
  BY <1>1, <1>3, <1>6, SameBlocks DEF BuddyInv, BuddyType, Call
<1> QED
  BY <1>2, <1>4, <1>5, <1>6

\* The turns of expand_heap_by and its ends that add no block
LEMMA ExpandInv ==
    ASSUME BuddyInv,
           ExpandSkip \/ ExpandMap \/ ExpandMapped \/ ExpandFails \/ ExpandPanics
    PROVE  BuddyInv'
<1>1. /\ UNCHANGED <<block, heap_end, live, overcommitted>> /\ call.op = "expand"
      /\ panicked' \in BOOLEAN
  BY DEF ExpandSkip, ExpandMap, ExpandMapped, ExpandFails, ExpandPanics, Expanding, Doing,
         buddyVars, BuddyInv, BuddyType
<1>2. \/ call' = Call("expand", call.layout, call.at + 1, FALSE, FALSE, TRUE)
      \/ call' = Call("idle", 0, 0, FALSE, FALSE, FALSE)
      \/ call' = call
  BY DEF ExpandSkip, ExpandMap, ExpandMapped, ExpandFails, ExpandPanics, Idle, buddyVars
<1>3. CallInv'
  BY <1>1, <1>2 DEF BuddyInv, CallInv, Call
<1>4. CASE call' = Call("expand", call.layout, call.at + 1, FALSE, FALSE, TRUE)
  BY <1>1, <1>3, <1>4, SameBlocks DEF BuddyInv, BuddyType, Call
<1>5. CASE call' = Call("idle", 0, 0, FALSE, FALSE, FALSE)
  BY <1>1, <1>3, <1>5, SameBlocks DEF BuddyInv, BuddyType, Call
<1>6. CASE call' = call
  BY <1>1, <1>3, <1>6, SameBlocks DEF BuddyInv, BuddyType
<1> QED
  BY <1>2, <1>4, <1>5, <1>6

\* add_free puts the new block behind the row.
LEMMA ExpandDoneInv ==
    ASSUME BuddyInv, ExpandDone
    PROVE  BuddyInv' /\ heap_end \notin DOMAIN live /\ heap_end \notin DOMAIN block
<1>0. PICK e, w : e = heap_end /\ w = Want
  OBVIOUS
<1>1. call.op = "expand" /\ ~ overcommitted
  BY DEF ExpandDone, Expanding, Doing, BuddyInv, CallInv
<1>2. /\ call.layout \in Layouts /\ w \in Nat /\ Header < w /\ IsPow2(w)
      /\ call.layout + Header <= w
      /\ \A m \in Nat : IsPow2(m) /\ call.layout + Header <= m => w <= m
      /\ InitSize \in Nat /\ Header \in Nat \ {0} /\ call.layout \in Nat
  BY <1>0, <1>1, WantFacts DEF BuddyInv
<1>3. /\ DOMAIN block \subseteq Nat /\ e \in Nat /\ InitSize <= e
      /\ DOMAIN live \subseteq DOMAIN block
      /\ \A c \in DOMAIN block :
            /\ c < e /\ block[c].size \in Nat \ {0}
            /\ block[c] \in [free : BOOLEAN, size : Nat \ {0}]
  BY <1>0 DEF BuddyInv, BuddyType
<1>4. e \notin DOMAIN block /\ e \notin DOMAIN live
  BY <1>3
<1>5. /\ DOMAIN block' = DOMAIN block \cup {e}
      /\ block'[e] = [free |-> FALSE, size |-> w]
      /\ \A c \in DOMAIN block : block'[c] = block[c]
      /\ block' = [c \in DOMAIN block' |-> block'[c]]
      /\ heap_end' = e + w
      /\ live' = [c \in DOMAIN live \cup {e} |-> IF c = e THEN call.layout ELSE live[c]]
      /\ call' = Idle /\ UNCHANGED <<overcommitted, panicked>>
  BY <1>0, <1>4 DEF ExpandDone, AddFree, Return
<1>6. block'[e] \in [free : BOOLEAN, size : Nat \ {0}]
  BY <1>2, <1>5
<1>7. BuddyType'
  <2>1. DOMAIN block' \subseteq 0 .. heap_end' - 1
    BY <1>2, <1>3, <1>5
  <2>2. \A c \in DOMAIN block' : block'[c] \in [free : BOOLEAN, size : Nat \ {0}]
    BY <1>3, <1>5, <1>6, Zenon
  <2>3. DOMAIN live' \subseteq DOMAIN block' /\ live' \in [DOMAIN live' -> Layouts]
    BY <1>2, <1>5 DEF BuddyInv, BuddyType
  <2> QED
    BY <1>2, <1>3, <1>5, <2>1, <2>2, <2>3 DEF BuddyInv, BuddyType, Idle, Call
<1>8. After(e)' = heap_end' /\ \A c \in DOMAIN block : After(c)' = After(c)
  BY <1>5 DEF After
<1>9. Tiled'
  <2>1. \A c \in DOMAIN block : After(c) = e \/ (After(c) \in DOMAIN block /\ After(c) < e)
    BY <1>0, <1>3 DEF BuddyInv, Tiled
  <2>2. \A c \in DOMAIN block' : After(c)' = heap_end' \/ After(c)' \in DOMAIN block'
    BY <1>5, <1>8, <2>1
  <2>3. ASSUME NEW c \in DOMAIN block', NEW d \in DOMAIN block', c < d
        PROVE  After(c)' <= d
    <3>1. c \in DOMAIN block
      BY <1>3, <1>5, <2>3
    <3>2. CASE d = e
      BY <1>3, <1>8, <2>1, <3>1, <3>2
    <3>3. CASE d \in DOMAIN block
      BY <1>8, <2>3, <3>1, <3>3 DEF BuddyInv, Tiled
    <3> QED
      BY <1>5, <3>2, <3>3
  <2> QED
    BY <1>5, <2>2, <2>3 DEF BuddyInv, Tiled
<1>10. PowersOf2'
  BY <1>2, <1>5 DEF BuddyInv, PowersOf2
<1>11. LiveInv'
  <2>1. w < 2 * (call.layout + Header)
    <3>1. w \div 2 \in Nat /\ IsPow2(w \div 2) /\ w = 2 * (w \div 2)
      BY <1>2, Pow2Half
    <3> QED
      BY <1>2, <3>1
  <2> QED
    BY <1>1, <1>2, <1>3, <1>4, <1>5, <2>1 DEF BuddyInv, LiveInv
<1>12. CallInv'
  BY <1>1, <1>5 DEF CallInv, Idle, Call
<1> QED
  BY <1>0, <1>4, <1>7, <1>9, <1>10, <1>11, <1>12 DEF BuddyInv

LEMMA BuddyNextInv ==
    ASSUME BuddyInv, BuddyCall \/ BuddyStep
    PROVE  BuddyInv'
<1>1. CASE \E n \in Layouts : AllocStart(n)
  BY <1>1, AllocStartInv
<1>2. CASE \E b \in DOMAIN live : Dealloc(b)
  BY <1>2, DeallocInv
<1>3. CASE FindAlone \/ (\E b \in DOMAIN block : FindBest(b)) \/ FindNone
  BY <1>3, FindInv
<1>4. CASE Divide
  BY <1>4, DivideInv
<1>5. CASE AllocDone
  BY <1>5, AllocDoneInv
<1>6. CASE \E b \in DOMAIN block : Coalesce(b)
  BY <1>6, CoalesceInv
<1>7. CASE CoalesceEnd
  BY <1>7, CoalesceEndInv
<1>8. CASE ExpandSkip \/ ExpandMap \/ ExpandMapped \/ ExpandFails \/ ExpandPanics
  BY <1>8, ExpandInv
<1>9. CASE ExpandDone
  BY <1>9, ExpandDoneInv
<1> QED
  BY <1>1, <1>2, <1>3, <1>4, <1>5, <1>6, <1>7, <1>8, <1>9 DEF BuddyCall, BuddyStep

\* The blocks do not depend on the page allocator.
LEMMA BuddyStutters ==
    ASSUME BuddyInv, UNCHANGED buddyVars
    PROVE  BuddyInv'
<1>1. UNCHANGED <<block, heap_end, live, call, overcommitted, panicked>>
  BY DEF buddyVars
<1>2. CallInv'
  BY <1>1 DEF BuddyInv, CallInv, Misfit, Got, HasNext, After, Want
<1> QED
  BY <1>1, <1>2, SameBlocks DEF BuddyInv, BuddyType

-----------------------------------------------------------------------------
LargeType ==
    /\ last_end \in Nat /\ allocations \in Nat
    /\ DOMAIN large \subseteq Nat /\ large \in [DOMAIN large -> LargeSizes]
    /\ job \in [op : {"idle", "alloc", "dealloc"}, size : Nat, page : Nat, end : Nat]

\* The buffers in use lie one behind the other below last_end, where the one
\* being allocated begins; the pages still to be freed are none of theirs.
LargePlaced ==
    /\ \A a \in DOMAIN large :
         /\ a + DivCeil(large[a]) <= last_end
         /\ \A b \in DOMAIN large : a < b => a + DivCeil(large[a]) <= b
    /\ job.op = "alloc" =>
         /\ job.size \in LargeSizes /\ job.end = last_end + DivCeil(job.size)
         /\ last_end <= job.page /\ job.page <= job.end /\ job.end <= LargeEnd
    /\ job.op = "dealloc" =>
         \A b \in DOMAIN large : b + DivCeil(large[b]) <= job.page \/ job.end <= b

LargeInv == LargeType /\ LargePlaced /\ LargeCounted /\ IsFiniteSet(DOMAIN large)

\* A buffer has at least one page.
LEMMA DivCeilPositive == \A n \in LargeSizes : DivCeil(n) \in Nat \ {0}
<1>1. ASSUME NEW n \in Nat \ {0}, NEW p \in Nat \ {0}
      PROVE  (n + p - 1) \div p \in Nat \ {0}
  <2>1. (n + p - 1) \div p \in Int
    OBVIOUS
  <2>2. (n + p - 1) \div p >= 1
    OBVIOUS
  <2> QED
    BY <2>1, <2>2
<1> QED
  BY <1>1, PagesAssumption, LargeAssumption DEF DivCeil

\* Deallocation stops at or before the end of the buffer.
LEMMA EndPageBound ==
    \A n \in LargeSizes, a \in Nat : EndPage(a, n) \in Nat /\ EndPage(a, n) <= a + DivCeil(n)
<1>1. ASSUME NEW n \in Nat \ {0}, NEW p \in Nat \ {0}
      PROVE  n \div p \in Nat /\ n \div p <= (n + p - 1) \div p
  <2>1. n \div p \in Int /\ (n + p - 1) \div p \in Int
    OBVIOUS
  <2>2. n \div p >= 0
    OBVIOUS
  <2>3. n \div p <= (n + p - 1) \div p
    OBVIOUS
  <2> QED
    BY <2>1, <2>2, <2>3
<1> QED
  BY <1>1, PagesAssumption, LargeAssumption DEF EndPage, DivCeil

LEMMA LargeInitInv == LargeInit => LargeInv
<1> SUFFICES ASSUME LargeInit PROVE LargeInv
  OBVIOUS
<1>1. /\ last_end = LargeStart /\ allocations = 0 /\ DOMAIN large = {}
      /\ large \in [DOMAIN large -> LargeSizes]
      /\ job = [op |-> "idle", size |-> 0, page |-> 0, end |-> 0]
  BY DEF LargeInit, NoJob
<1>2. LargeType /\ LargePlaced
  BY <1>1, LargeAssumption DEF LargeType, LargePlaced
<1>3. LargeCounted /\ IsFiniteSet(DOMAIN large)
  BY <1>1, FS_EmptySet DEF LargeCounted
<1> QED
  BY <1>2, <1>3 DEF LargeInv

LEMMA LargeStutters ==
    ASSUME LargeInv, UNCHANGED largeVars
    PROVE  LargeInv'
BY DEF largeVars, LargeInv, LargeType, LargePlaced, LargeCounted

LEMMA LargeNextInv ==
    ASSUME LargeInv, LargeCall \/ LargeStep
    PROVE  LargeInv'
<1>0. /\ LargeType /\ LargePlaced /\ LargeCounted /\ IsFiniteSet(DOMAIN large)
      /\ LargeSizes \subseteq Nat \ {0} /\ LargeStart \in Nat
      /\ \A n \in LargeSizes : DivCeil(n) \in Nat \ {0}
      /\ \A b \in DOMAIN large : large[b] \in LargeSizes
  BY LargeAssumption, DivCeilPositive DEF LargeInv, LargeType
<1>1. ASSUME NEW n \in LargeSizes, LargeAllocStart(n) PROVE LargeInv'
  <2>1. /\ job.op = "idle" /\ UNCHANGED <<last_end, allocations, large>>
        /\ job' = [op |-> "alloc", size |-> n, page |-> last_end,
                   end |-> last_end + DivCeil(n)]
        /\ last_end + DivCeil(n) <= LargeEnd
    BY <1>1 DEF LargeAllocStart, NoJob
  <2>2. LargeType' /\ LargePlaced' /\ LargeCounted'
    BY <1>0, <2>1 DEF LargeType, LargePlaced, LargeCounted
  <2> QED
    BY <1>0, <2>1, <2>2 DEF LargeInv
<1>2. CASE LargeMapped \/ LargeUnmap
  <2>1. /\ UNCHANGED <<last_end, allocations, large>>
        /\ job.op \in {"alloc", "dealloc"} /\ job.page < job.end
        /\ job' = [job EXCEPT !.page = job.page + 1]
    BY <1>2 DEF LargeMapped, LargeUnmap
  <2>2. LargeType' /\ LargePlaced' /\ LargeCounted'
    BY <1>0, <2>1 DEF LargeType, LargePlaced, LargeCounted
  <2> QED
    BY <1>0, <2>1, <2>2 DEF LargeInv
<1>3. CASE LargeMapFails
  <2>1. /\ UNCHANGED <<last_end, allocations, large>> /\ job.op = "alloc"
        /\ job' = [op |-> "idle", size |-> 0, page |-> 0, end |-> 0]
    BY <1>3 DEF LargeMapFails, NoJob
  <2>2. LargeType' /\ LargePlaced' /\ LargeCounted'
    BY <1>0, <2>1 DEF LargeType, LargePlaced, LargeCounted
  <2> QED
    BY <1>0, <2>1, <2>2 DEF LargeInv
<1>4. CASE LargeAllocDone
  <2>0. PICK e, s : e = last_end /\ s = job.size
    OBVIOUS
  <2>1. /\ job.op = "alloc" /\ s \in LargeSizes /\ job.end = e + DivCeil(s)
        /\ e \in Nat /\ DivCeil(s) \in Nat \ {0}
    BY <1>0, <1>4, <2>0 DEF LargeAllocDone, LargePlaced, LargeType
  <2>2. /\ last_end' = e + DivCeil(s) /\ allocations' = allocations + 1
        /\ large' = [a \in DOMAIN large \cup {e} |-> IF a = e THEN s ELSE large[a]]
        /\ job' = [op |-> "idle", size |-> 0, page |-> 0, end |-> 0]
    BY <1>4, <2>0, <2>1 DEF LargeAllocDone, LastEnd, NoJob
  <2>3. e \notin DOMAIN large
    BY <1>0, <2>0 DEF LargePlaced, LargeType
  <2>4. LargeType'
    BY <1>0, <2>1, <2>2 DEF LargeType
  <2>5. LargePlaced'
    BY <1>0, <2>0, <2>1, <2>2, <2>3 DEF LargeType, LargePlaced
  <2>6. LargeCounted' /\ IsFiniteSet(DOMAIN large')
    <3>1. DOMAIN large' = DOMAIN large \cup {e}
      BY <2>2
    <3>2. /\ IsFiniteSet(DOMAIN large')
          /\ Cardinality(DOMAIN large') = Cardinality(DOMAIN large) + 1
      BY <1>0, <2>3, <3>1, FS_AddElement
    <3> QED
      BY <1>0, <2>1, <2>2, <3>2, FS_CardinalityType DEF LargeCounted
  <2> QED
    BY <2>4, <2>5, <2>6 DEF LargeInv
<1>5. ASSUME NEW a \in DOMAIN large, LargeDealloc(a) PROVE LargeInv'
  <2>1. /\ job.op = "idle" /\ UNCHANGED <<last_end, allocations>>
        /\ large' = [b \in DOMAIN large \ {a} |-> large[b]]
        /\ job' = [op |-> "dealloc", size |-> large[a], page |-> a,
                   end |-> EndPage(a, large[a])]
    BY <1>5 DEF LargeDealloc, NoJob
  <2>2. /\ EndPage(a, large[a]) \in Nat /\ a \in Nat
        /\ EndPage(a, large[a]) <= a + DivCeil(large[a])
    BY <1>0, EndPageBound DEF LargeType
  <2>3. LargeType'
    BY <1>0, <2>1, <2>2 DEF LargeType
  <2>4. LargePlaced'
    BY <1>0, <2>1, <2>2 DEF LargeType, LargePlaced
  <2>5. LargeCounted' /\ IsFiniteSet(DOMAIN large')
    <3>1. DOMAIN large' = DOMAIN large \ {a}
      BY <2>1
    <3>2. /\ IsFiniteSet(DOMAIN large')
          /\ Cardinality(DOMAIN large') = Cardinality(DOMAIN large) - 1
      BY <1>0, <3>1, FS_RemoveElement
    <3> QED
      BY <1>0, <2>1, <3>2, FS_CardinalityType DEF LargeCounted
  <2> QED
    BY <2>3, <2>4, <2>5 DEF LargeInv
<1>6. CASE LargeDeallocDone
  <2>1. /\ job.op = "dealloc" /\ UNCHANGED large /\ allocations' = allocations - 1
        /\ last_end' = IF allocations' = 0 THEN LargeStart ELSE last_end
        /\ job' = [op |-> "idle", size |-> 0, page |-> 0, end |-> 0]
    BY <1>6 DEF LargeDeallocDone, NoJob
  <2>2. allocations' = Cardinality(DOMAIN large) /\ allocations' \in Nat
    BY <1>0, <2>1, FS_CardinalityType DEF LargeCounted
  <2>3. allocations' = 0 => DOMAIN large = {}
    BY <1>0, <2>2, FS_EmptySet
  <2>4. LargeType' /\ LargePlaced'
    BY <1>0, <2>1, <2>2, <2>3 DEF LargeType, LargePlaced
  <2>5. LargeCounted'
    BY <2>1, <2>2 DEF LargeCounted
  <2> QED
    BY <1>0, <2>1, <2>4, <2>5 DEF LargeInv
<1>7. CASE LargeMap
  BY <1>7, LargeStutters DEF LargeMap
<1> QED
  BY <1>1, <1>2, <1>3, <1>4, <1>5, <1>6, <1>7 DEF LargeCall, LargeStep

-----------------------------------------------------------------------------
\* The pages a call of the page allocator has mapped or has still to unmap
Pending == {LargePage(n) : n \in IF job.op = "alloc" THEN last_end .. job.page - 1
                                 ELSE IF job.op = "dealloc" THEN job.page .. job.end - 1
                                 ELSE {}}

Kept == Owned \cup Pending

Places == {"HEAP", "LARGE_HEAP", "L3", "L2", "L1"} \X Nat

PagesType ==
    /\ used \in SUBSET Frame
    /\ DOMAIN entry \subseteq Places
    /\ entry \in [DOMAIN entry -> Frame]
    /\ held \in [Heaps -> Frame \cup {NoFrame}]

\* FramesOwned, with the pages of the call under way
FrameInv ==
    /\ PagesType
    /\ \A p \in Kept :
         /\ p \in DOMAIN entry /\ entry[p] \in used
         /\ \A q \in Kept : entry[p] = entry[q] => p = q
    /\ \A h \in Heaps : held[h] # NoFrame =>
         /\ held[h] \in used
         /\ \A p \in Kept : entry[p] # held[h]
         /\ \A g \in Heaps : held[g] = held[h] => g = h

\* A page is entered once its tables are there, and no table is taken away.
WalkInv == \A p \in DOMAIN entry : p[1] \in Heaps => Walk(p) \subseteq DOMAIN entry

\* The pages of the heap are mapped from its first one on, without a gap: those
\* below heap_end are, and those the loop of expand_heap_by has passed.
SegmentInv ==
    /\ \A n, m \in Nat : m < n /\ HeapPage(n) \in DOMAIN entry => HeapPage(m) \in DOMAIN entry
    /\ \A n \in Nat : n < Containing(heap_end) => HeapPage(n) \in DOMAIN entry
    /\ call.op = "expand" => \A n \in Nat : n < call.at => HeapPage(n) \in DOMAIN entry

LockType == masked \in Heaps \cup {"none"} /\ doomed \in BOOLEAN

IInv == BuddyInv /\ LargeInv /\ FrameInv /\ WalkInv /\ SegmentInv /\ LockType

\* A table is no page.
LEMMA TableFacts ==
    ASSUME NEW p \in Heaps \X Nat, NEW i \in 1 .. 3
    PROVE  /\ Table(i, p) \in Places /\ Table(i, p)[1] \notin Heaps
           /\ \A n : Table(i, p) # HeapPage(n) /\ Table(i, p) # LargePage(n)
<1>1. Level[i] \in {"L3", "L2", "L1"}
  BY DEF Level
<1>2. Span[i] \in Nat \ {0}
  <2>1. Entries \in Nat \ {0}
    BY PagesAssumption
  <2>2. Entries * Entries \in Nat \ {0}
    BY <2>1
  <2>3. (Entries * Entries) * Entries \in Nat \ {0}
    BY <2>1, <2>2
  <2> QED
    BY <2>1, <2>2, <2>3 DEF Span
<1>3. FirstPage + p[2] \in Nat
  BY PagesAssumption
<1>4. ASSUME NEW n \in Nat, NEW d \in Nat \ {0} PROVE n \div d \in Nat
  <2>1. n \div d \in Int
    OBVIOUS
  <2>2. n \div d >= 0
    OBVIOUS
  <2> QED
    BY <2>1, <2>2
<1>5. (FirstPage + p[2]) \div Span[i] \in Nat
  BY <1>2, <1>3, <1>4
<1>6. PICK k \in Nat : Table(i, p) = <<Level[i], k>>
  BY <1>5 DEF Table
<1> QED
  BY <1>1, <1>6 DEF Places, Heaps, HeapPage, LargePage

LEMMA InitIInv == Init => IInv
<1> SUFFICES ASSUME Init PROVE IInv
  OBVIOUS
<1>1. BuddyInv /\ LargeInv
  BY BuddyInitInv, LargeInitInv DEF Init
<1> DEFINE k == InitSize \div PageSize
<1>2. k \in Int /\ FrameCount \in Nat
  BY InitSizeAssumption, PagesAssumption
<1>3. InitPages = {HeapPage(n) : n \in 0 .. k - 1}
  BY DEF InitPages
<1>4. k = Containing(heap_end)
  BY DEF Init, BuddyInit, Containing
<1> HIDE DEF k
<1>5. /\ entry = BootEntry /\ used = {BootEntry[p] : p \in BootPlaces}
      /\ held = [h \in Heaps |-> NoFrame] /\ call.op = "idle"
      /\ DOMAIN large = {} /\ job.op = "idle" /\ masked = "none" /\ doomed = FALSE
  BY DEF Init, BuddyInit, LargeInit, Idle, Call, NoJob
<1>6. /\ DOMAIN entry = BootPlaces /\ entry \in [DOMAIN entry -> Frame]
      /\ \A p, q \in BootPlaces : entry[p] = entry[q] => p = q
  BY <1>5, BootAssumption
<1>7. \A p \in InitPages : p \in Heaps \X Nat /\ p \in Places
  BY <1>2, <1>3 DEF HeapPage, Heaps, Places
<1>8. \A q \in BootPlaces : q \in InitPages \/ \E p \in InitPages, i \in 1 .. 3 : q = Table(i, p)
  BY DEF BootPlaces, Walk
<1>9. \A q \in BootPlaces : q \in Places /\ (q[1] \in Heaps => q \in InitPages)
  BY <1>7, <1>8, TableFacts
<1>10. PagesType
  <2>1. used \in SUBSET Frame
    BY <1>5, <1>6
  <2>2. held \in [Heaps -> Frame \cup {NoFrame}]
    BY <1>5
  <2> QED
    BY <1>6, <1>9, <2>1, <2>2 DEF PagesType
<1>11. Kept \subseteq BootPlaces
  BY <1>5, <1>6 DEF Kept, Owned, Pending
<1>12. FrameInv
  BY <1>5, <1>6, <1>10, <1>11 DEF FrameInv
<1>13. WalkInv
  BY <1>6, <1>9 DEF WalkInv, BootPlaces
<1>14. \A n \in Nat : HeapPage(n) \in DOMAIN entry <=> n \in 0 .. k - 1
  <2>1. \A n, m \in Nat : HeapPage(n) = HeapPage(m) => n = m
    BY DEF HeapPage
  <2>2. \A n \in Nat : HeapPage(n)[1] \in Heaps
    BY DEF HeapPage, Heaps
  <2>3. \A n \in 0 .. k - 1 : HeapPage(n) \in InitPages /\ n \in Nat
    BY <1>3
  <2>4. \A n \in Nat : HeapPage(n) \in DOMAIN entry => HeapPage(n) \in InitPages
    BY <1>6, <1>9, <2>2
  <2>5. \A n \in Nat : HeapPage(n) \in InitPages => n \in 0 .. k - 1
    BY <1>3, <2>1
  <2>6. InitPages \subseteq DOMAIN entry
    BY <1>6 DEF BootPlaces
  <2> QED
    BY <2>3, <2>4, <2>5, <2>6
<1>15. SegmentInv
  BY <1>2, <1>4, <1>5, <1>14 DEF SegmentInv
<1>16. LockType
  BY <1>5 DEF LockType
<1> QED
  BY <1>1, <1>12, <1>13, <1>15, <1>16 DEF IInv

\* Steps after which no more pages are kept and no more frames held
LEMMA FewerPages ==
    ASSUME FrameInv, UNCHANGED <<used, entry>>, Kept' \subseteq Kept,
           held' \in [Heaps -> Frame \cup {NoFrame}],
           \A h \in Heaps : held'[h] \in {held[h], NoFrame}
    PROVE  FrameInv'
<1>1. PagesType'
  BY DEF FrameInv, PagesType
<1>2. \A h \in Heaps : held'[h] # NoFrame => held'[h] = held[h]
  OBVIOUS
<1>3. ASSUME NEW h \in Heaps, held'[h] # NoFrame
      PROVE  /\ held'[h] \in used'
             /\ \A p \in Kept' : entry'[p] # held'[h]
             /\ \A g \in Heaps : held'[g] = held'[h] => g = h
  BY <1>2, <1>3 DEF FrameInv
<1>4. ASSUME NEW p \in Kept'
      PROVE  p \in DOMAIN entry' /\ entry'[p] \in used' /\ \A q \in Kept' : entry'[p] = entry'[q] => p = q
  BY <1>4 DEF FrameInv
<1> QED
  BY <1>1, <1>3, <1>4 DEF FrameInv

\* What is kept grows by at most the place that is entered.
LEMMA KeptGrows ==
    ASSUME UNCHANGED <<last_end, large, job>>, NEW p, DOMAIN entry' \subseteq DOMAIN entry \cup {p}
    PROVE  Kept' \subseteq Kept \cup {p}
BY DEF Kept, Owned, Pending, LargePages

\* A place that is not kept is given a frame that backs none that is.
LEMMA NewEntry ==
    ASSUME FrameInv, NEW p \in Places, p \notin Kept, NEW f \in Frame, SetEntry(p, f),
           used \subseteq used', used' \subseteq Frame, f \in used',
           \A q \in Kept : entry[q] # f,
           held' \in [Heaps -> Frame \cup {NoFrame}],
           \A h \in Heaps : held'[h] \in {held[h], NoFrame} /\ held'[h] # f,
           Kept' \subseteq Kept \cup {p}
    PROVE  FrameInv'
<1>1. /\ DOMAIN entry' = DOMAIN entry \cup {p} /\ entry'[p] = f
      /\ \A q \in DOMAIN entry \ {p} : entry'[q] = entry[q]
      /\ entry' = [q \in DOMAIN entry' |-> entry'[q]]
  BY DEF SetEntry
<1>2. PagesType'
  BY <1>1 DEF FrameInv, PagesType
<1>3. \A q \in Kept : q \in DOMAIN entry /\ q # p /\ entry'[q] = entry[q] /\ entry[q] \in used
  BY <1>1 DEF FrameInv
<1>4. ASSUME NEW q \in Kept', NEW r \in Kept'
      PROVE  q \in DOMAIN entry' /\ entry'[q] \in used' /\ (entry'[q] = entry'[r] => q = r)
  <2>1. (q \in Kept \/ q = p) /\ (r \in Kept \/ r = p)
    BY <1>4
  <2> QED
    BY <1>1, <1>3, <2>1 DEF FrameInv
<1>5. ASSUME NEW h \in Heaps, held'[h] # NoFrame
      PROVE  /\ held'[h] \in used'
             /\ \A q \in Kept' : entry'[q] # held'[h]
             /\ \A g \in Heaps : held'[g] = held'[h] => g = h
  <2>1. held'[h] = held[h] /\ held[h] # NoFrame /\ held[h] # f
    BY <1>5
  <2>2. held[h] \in used /\ \A g \in Heaps : held[g] = held[h] => g = h
    BY <2>1 DEF FrameInv
  <2>3. \A q \in Kept : entry[q] # held[h]
    BY <2>1 DEF FrameInv
  <2>4. \A q \in Kept' : entry'[q] # held'[h]
    BY <1>1, <1>3, <2>1, <2>3
  <2>5. ASSUME NEW g \in Heaps, held'[g] = held'[h] PROVE g = h
    <3>1. held'[g] = held[g]
      BY <2>1, <2>5
    <3> QED
      BY <2>1, <2>2, <2>5, <3>1
  <2> QED
    BY <2>1, <2>2, <2>4, <2>5
<1> QED
  BY <1>2, <1>4, <1>5 DEF FrameInv

\* No step of map_to takes a table from a page, nor a page from the heap.
LEMMA EntryGrows ==
    ASSUME PagesType, WalkInv, NEW p, NEW f, SetEntry(p, f),
           p[1] \in Heaps => Walk(p) \subseteq DOMAIN entry
    PROVE  /\ WalkInv' /\ DOMAIN entry' = DOMAIN entry \cup {p}
           /\ (\A n : p # HeapPage(n)) =>
                \A n : HeapPage(n) \in DOMAIN entry' <=> HeapPage(n) \in DOMAIN entry
<1>1. DOMAIN entry' = DOMAIN entry \cup {p}
  BY DEF SetEntry
<1> QED
  BY <1>1 DEF WalkInv

\* allocate_frame
LEMMA TakeFrameInv ==
    ASSUME FrameInv, WalkInv, NEW h \in Heaps, TakeFrame(h), UNCHANGED <<last_end, large, job>>
    PROVE  FrameInv' /\ WalkInv' /\ entry' = entry
<1>1. PICK f \in Frame : /\ f \notin used /\ used' = used \cup {f}
                         /\ held' = [held EXCEPT ![h] = f] /\ entry' = entry
  BY DEF TakeFrame, IsFirstFree
<1>2. Kept' \subseteq Kept
  BY <1>1 DEF Kept, Owned, Pending, LargePages
<1>3. WalkInv'
  BY <1>1 DEF WalkInv
<1>4. /\ held \in [Heaps -> Frame \cup {NoFrame}]
      /\ held' \in [Heaps -> Frame \cup {NoFrame}]
      /\ held'[h] = f /\ \A g \in Heaps : g # h => held'[g] = held[g]
  BY <1>1 DEF FrameInv, PagesType
<1>5. PagesType'
  BY <1>1, <1>4 DEF FrameInv, PagesType
<1>6. ASSUME NEW g \in Heaps, held'[g] # NoFrame
      PROVE  /\ held'[g] \in used'
             /\ \A p \in Kept' : entry'[p] # held'[g]
             /\ \A i \in Heaps : held'[i] = held'[g] => i = g
  <2>1. NoFrame \notin Frame
    BY PagesAssumption DEF NoFrame, Frame
  <2>2. CASE g = h
    <3>1. \A i \in Heaps : i # h => held[i] # f
      BY <1>1, <2>1 DEF FrameInv
    <3>2. \A p \in Kept' : entry[p] # f
      BY <1>1, <1>2 DEF FrameInv
    <3> QED
      BY <1>1, <1>4, <2>2, <3>1, <3>2
  <2>3. CASE g # h
    <3>1. held'[g] = held[g] /\ held[g] # NoFrame /\ held[g] \in used
      BY <1>4, <1>6, <2>3 DEF FrameInv
    <3>2. \A p \in Kept : entry[p] # held[g]
      BY <3>1 DEF FrameInv
    <3>3. \A i \in Heaps : held'[i] = held[g] => i = g
      <4>1. \A i \in Heaps : held[i] = held[g] => i = g
        BY <3>1 DEF FrameInv
      <4> QED
        BY <1>1, <1>4, <3>1, <4>1
    <3> QED
      BY <1>1, <1>2, <3>1, <3>2, <3>3
  <2> QED
    BY <2>2, <2>3
<1>7. \A p \in Kept' : /\ p \in DOMAIN entry' /\ entry'[p] \in used'
                       /\ \A q \in Kept' : entry'[p] = entry'[q] => p = q
  BY <1>1, <1>2 DEF FrameInv
<1> QED
  BY <1>1, <1>3, <1>5, <1>6, <1>7 DEF FrameInv

\* Entry::map, for a page of either heap
LEMMA MapTableInv ==
    ASSUME FrameInv, WalkInv, NEW page \in Heaps \X Nat, MapTable(page),
           UNCHANGED <<last_end, large, job>>
    PROVE  /\ FrameInv' /\ WalkInv'
           /\ \A n : HeapPage(n) \in DOMAIN entry' <=> HeapPage(n) \in DOMAIN entry
<1>1. PICK i \in 1 .. 3, f \in Frame :
          /\ Table(i, page) \notin DOMAIN entry /\ f \notin used
          /\ used' = used \cup {f} /\ SetEntry(Table(i, page), f) /\ held' = held
  BY DEF MapTable, FirstMissing, IsFirstFree
<1>2. PICK p : p = Table(i, page)
  OBVIOUS
<1>3. p \in Places /\ p[1] \notin Heaps /\ \A n : p # HeapPage(n)
  BY <1>2, TableFacts
<1>4. /\ WalkInv' /\ DOMAIN entry' = DOMAIN entry \cup {p}
      /\ \A n : HeapPage(n) \in DOMAIN entry' <=> HeapPage(n) \in DOMAIN entry
  BY <1>1, <1>2, <1>3, EntryGrows DEF FrameInv
<1>5. Kept' \subseteq Kept \cup {p}
  BY <1>4, KeptGrows
<1>6. p \notin Kept /\ \A q \in Kept : entry[q] # f
  BY <1>1, <1>2 DEF FrameInv
<1>7. /\ used \subseteq used' /\ used' \subseteq Frame /\ f \in used'
      /\ held' \in [Heaps -> Frame \cup {NoFrame}]
  BY <1>1 DEF FrameInv, PagesType
<1>8. \A h \in Heaps : held'[h] \in {held[h], NoFrame} /\ held'[h] # f
  <2>1. NoFrame \notin Frame
    BY PagesAssumption DEF NoFrame, Frame
  <2> QED
    BY <1>1, <2>1 DEF FrameInv
<1> QED
  BY <1>1, <1>2, <1>3, <1>4, <1>5, <1>6, <1>7, <1>8, NewEntry

\* The end of map_to
LEMMA MapEntryInv ==
    ASSUME FrameInv, WalkInv, NEW page \in Heaps \X Nat, page \notin Kept, MapEntry(page),
           Kept' \subseteq Kept \cup {page}
    PROVE  FrameInv' /\ WalkInv' /\ DOMAIN entry' = DOMAIN entry \cup {page}
<1>1. PICK h, f : h = page[1] /\ f = held[h]
  OBVIOUS
<1>2. /\ h \in Heaps /\ f # NoFrame /\ Walk(page) \subseteq DOMAIN entry
      /\ SetEntry(page, f) /\ held' = [held EXCEPT ![h] = NoFrame] /\ used' = used
  BY <1>1 DEF MapEntry
<1>3. f \in Frame /\ used \subseteq used' /\ used' \subseteq Frame /\ f \in used'
  BY <1>1, <1>2 DEF FrameInv, PagesType
<1>4. page \in Places
  BY DEF Places, Heaps
<1>5. \A q \in Kept : entry[q] # f
  BY <1>1, <1>2 DEF FrameInv
<1>6. held' \in [Heaps -> Frame \cup {NoFrame}]
  BY <1>2 DEF FrameInv, PagesType
<1>7. \A g \in Heaps : held'[g] \in {held[g], NoFrame} /\ held'[g] # f
  <2>1. held'[h] = NoFrame /\ \A g \in Heaps : g # h => held'[g] = held[g]
    BY <1>2 DEF FrameInv, PagesType
  <2>2. \A g \in Heaps : held[g] = held[h] => g = h
    BY <1>1, <1>2 DEF FrameInv
  <2> QED
    BY <1>1, <1>2, <2>1, <2>2
<1>8. WalkInv' /\ DOMAIN entry' = DOMAIN entry \cup {page}
  BY <1>2, EntryGrows DEF FrameInv
<1> QED
  BY <1>2, <1>3, <1>4, <1>5, <1>6, <1>7, <1>8, NewEntry

\* map_to, or allocate_frame before it, without a frame left
LEMMA MapFailsInv ==
    ASSUME FrameInv, WalkInv, NEW page \in Heaps \X Nat, MapFails(page), Kept' \subseteq Kept
    PROVE  FrameInv' /\ WalkInv' /\ entry' = entry
<1>1. page[1] \in Heaps /\ UNCHANGED <<used, entry>> /\ held' = [held EXCEPT ![page[1]] = NoFrame]
  BY DEF MapFails
<1>2. /\ held' \in [Heaps -> Frame \cup {NoFrame}]
      /\ \A h \in Heaps : held'[h] \in {held[h], NoFrame}
  BY <1>1 DEF FrameInv, PagesType
<1>3. WalkInv'
  BY <1>1 DEF WalkInv
<1> QED
  BY <1>1, <1>2, <1>3, FewerPages

\* Owned and Pending in terms of page numbers, before and after a step
LEMMA LargeNumbers ==
    /\ \A n : LargePage(n) \in Owned <=>
              \E a \in DOMAIN large : n \in a .. a + DivCeil(large[a]) - 1
    /\ \A n : LargePage(n) \in Pending <=>
              \/ job.op = "alloc" /\ n \in last_end .. job.page - 1
              \/ job.op = "dealloc" /\ n \in job.page .. job.end - 1
    /\ \A n : LargePage(n) \in Owned' <=>
              \E a \in DOMAIN large' : n \in a .. a + DivCeil(large'[a]) - 1
    /\ \A n : LargePage(n) \in Pending' <=>
              \/ job'.op = "alloc" /\ n \in last_end' .. job'.page - 1
              \/ job'.op = "dealloc" /\ n \in job'.page .. job'.end - 1
<1>1. \A n, m : LargePage(n) = LargePage(m) <=> n = m
  BY DEF LargePage
<1>2. \A n : LargePage(n)[1] = "LARGE_HEAP"
  BY DEF LargePage
<1>3. ASSUME NEW n
      PROVE  LargePage(n) \in Owned <=>
             \E a \in DOMAIN large : n \in a .. a + DivCeil(large[a]) - 1
  <2>1. LargePage(n) \in Owned <=> \E a \in DOMAIN large : LargePage(n) \in LargePages(a)
    BY <1>2, Zenon DEF Owned
  <2>2. \A a : LargePage(n) \in LargePages(a) <=> n \in a .. a + DivCeil(large[a]) - 1
    BY <1>1, Zenon DEF LargePages
  <2> QED
    BY <2>1, <2>2, Zenon
<1>4. ASSUME NEW n
      PROVE  LargePage(n) \in Pending <=>
                     \/ job.op = "alloc" /\ n \in last_end .. job.page - 1
                     \/ job.op = "dealloc" /\ n \in job.page .. job.end - 1
  BY <1>1 DEF Pending
<1>5. ASSUME NEW n
      PROVE  LargePage(n) \in Owned' <=>
             \E a \in DOMAIN large' : n \in a .. a + DivCeil(large'[a]) - 1
  <2>1. LargePage(n) \in Owned' <=> \E a \in DOMAIN large' : LargePage(n) \in LargePages(a)'
    BY <1>2, Zenon DEF Owned
  <2>2. \A a : LargePage(n) \in LargePages(a)' <=> n \in a .. a + DivCeil(large'[a]) - 1
    BY <1>1, Zenon DEF LargePages, DivCeil
  <2> QED
    BY <2>1, <2>2, Zenon
<1>6. ASSUME NEW n
      PROVE  LargePage(n) \in Pending' <=>
                     \/ job'.op = "alloc" /\ n \in last_end' .. job'.page - 1
                     \/ job'.op = "dealloc" /\ n \in job'.page .. job'.end - 1
  BY <1>1 DEF Pending
<1> QED
  BY <1>3, <1>4, <1>5, <1>6

\* The heap's steps: those that map a page map the next one of the segment.
LEMMA BuddyFrames ==
    ASSUME IInv, BuddyCall \/ BuddyStep, UNCHANGED largeVars
    PROVE  FrameInv' /\ WalkInv' /\ SegmentInv'
<1>0. /\ FrameInv /\ WalkInv /\ SegmentInv /\ UNCHANGED <<last_end, large, job>>
      /\ heap_end \in Nat /\ call.at \in Nat
  BY DEF IInv, largeVars, BuddyInv, BuddyType
<1>1. PICK page : page = HeapPage(call.at)
  OBVIOUS
<1>2. page \in Heaps \X Nat /\ page[1] = "HEAP" /\ "HEAP" \in Heaps
  BY <1>0, <1>1 DEF HeapPage, Heaps
<1>3. ASSUME NEW p PROVE DOMAIN entry' \subseteq DOMAIN entry \cup {p} => Kept' \subseteq Kept \cup {p}
  BY <1>0, KeptGrows
<1>4. CASE ExpandMap
  <2>1. UNCHANGED <<heap_end, call>> /\ (TakeFrame("HEAP") \/ MapTable(page))
    BY <1>1, <1>4 DEF ExpandMap, buddyVars
  <2>2. /\ FrameInv' /\ WalkInv'
        /\ \A n : HeapPage(n) \in DOMAIN entry' <=> HeapPage(n) \in DOMAIN entry
    BY <1>0, <1>2, <2>1, TakeFrameInv, MapTableInv
  <2>3. SegmentInv'
    BY <1>0, <2>1, <2>2 DEF SegmentInv, Containing
  <2> QED
    BY <2>2, <2>3
<1>5. CASE ExpandMapped
  <2>1. /\ MapEntry(page) /\ ~ IsMapped(page) /\ call.op = "expand" /\ heap_end' = heap_end
        /\ call' = Call("expand", call.layout, call.at + 1, FALSE, FALSE, TRUE)
    BY <1>1, <1>5 DEF ExpandMapped, Expanding, Doing
  <2>2. page \notin DOMAIN entry
    BY <1>0, <1>2, <2>1 DEF IsMapped, WalkInv
  <2>3. page \notin Kept
    BY <1>0, <2>2 DEF FrameInv
  <2>4. DOMAIN entry' = DOMAIN entry \cup {page}
    BY <2>1 DEF MapEntry, SetEntry
  <2>5. FrameInv' /\ WalkInv'
    BY <1>0, <1>2, <1>3, <2>1, <2>3, <2>4, MapEntryInv
  <2>6. \A n \in Nat : HeapPage(n) \in DOMAIN entry' <=> HeapPage(n) \in DOMAIN entry \/ n = call.at
    BY <1>1, <2>4 DEF HeapPage
  <2>7. \A n \in Nat : n < call.at => HeapPage(n) \in DOMAIN entry
    BY <1>0, <2>1 DEF SegmentInv
  <2>8. call'.at = call.at + 1
    BY <2>1 DEF Call
  <2>9. \A n \in Nat : n < call'.at => HeapPage(n) \in DOMAIN entry'
    BY <1>0, <2>6, <2>7, <2>8
  <2>10. \A n, m \in Nat : m < n /\ HeapPage(n) \in DOMAIN entry' => HeapPage(m) \in DOMAIN entry'
    BY <1>0, <2>6, <2>7 DEF SegmentInv
  <2>11. \A n \in Nat : n < Containing(heap_end') => HeapPage(n) \in DOMAIN entry'
    BY <1>0, <2>1, <2>6 DEF SegmentInv
  <2> QED
    BY <2>5, <2>9, <2>10, <2>11 DEF SegmentInv, Containing
<1>6. CASE ExpandFails
  <2>1. /\ MapFails(page) /\ heap_end' = heap_end /\ call' = Idle /\ entry' = entry
    BY <1>1, <1>6 DEF ExpandFails, MapFails
  <2>2. Kept' \subseteq Kept
    BY <1>0, <2>1 DEF Kept, Owned, Pending, LargePages
  <2>3. FrameInv' /\ WalkInv'
    BY <1>0, <1>2, <2>1, <2>2, MapFailsInv
  <2>4. SegmentInv'
    BY <1>0, <2>1 DEF SegmentInv, Containing, Idle, Call
  <2> QED
    BY <2>3, <2>4
<1>7. CASE ~ ExpandMap /\ ~ ExpandMapped /\ ~ ExpandFails
  <2>1. UNCHANGED <<used, entry, held>>
    BY <1>7 DEF BuddyCall, BuddyStep, AllocStart, Dealloc, FindAlone, FindBest, FindNone,
                Divide, AllocDone, Coalesce, CoalesceEnd, ExpandSkip, ExpandDone,
                ExpandPanics, pageVars
  <2>2. Kept' \subseteq Kept
    BY <1>0, <2>1 DEF Kept, Owned, Pending, LargePages
  <2>3. held' \in [Heaps -> Frame \cup {NoFrame}] /\ \A h \in Heaps : held'[h] \in {held[h], NoFrame}
    BY <1>0, <2>1 DEF FrameInv, PagesType
  <2>4. FrameInv'
    BY <1>0, <2>1, <2>2, <2>3, FewerPages
  <2>5. WalkInv'
    BY <1>0, <2>1 DEF WalkInv
  <2>6. SegmentInv'
    <3>1. CASE ExpandDone
      <4>1. /\ call.op = "expand" /\ call'.op = "idle" /\ heap_end' = heap_end + Want
            /\ ~ (call.at < Containing(heap_end + Want))
        BY <3>1 DEF ExpandDone, Expanding, Doing, AddFree, Return, Idle, Call, MorePages
      <4>2. Want \in Nat
        BY <4>1, WantFacts DEF IInv, BuddyInv
      <4>3. PICK c : c = Containing(heap_end + Want)
        OBVIOUS
      <4>4. c \in Nat /\ Containing(heap_end)' = c
        BY <1>0, <4>1, <4>2, <4>3, ContainingNat DEF Containing
      <4>5. \A n \in Nat : n < c => n < call.at
        BY <1>0, <4>1, <4>3, <4>4
      <4> QED
        BY <1>0, <2>1, <4>1, <4>4, <4>5 DEF SegmentInv
    <3>2. CASE ExpandSkip
      <4>1. /\ call.op = "expand" /\ heap_end' = heap_end /\ page \in DOMAIN entry
            /\ call'.at = call.at + 1
        BY <1>1, <3>2 DEF ExpandSkip, Expanding, Doing, Call, IsMapped
      <4>2. \A n \in Nat : n < call.at + 1 => n < call.at \/ n = call.at
        BY <1>0
      <4> QED
        BY <1>0, <1>1, <2>1, <4>1, <4>2 DEF SegmentInv, Containing
    <3>3. CASE ~ ExpandDone /\ ~ ExpandSkip
      <4>1. heap_end' = heap_end
        BY <1>7, <3>3
           DEF BuddyCall, BuddyStep, AllocStart, Dealloc, FindAlone, FindBest, FindNone,
               Divide, AllocDone, Coalesce, CoalesceEnd, ExpandPanics
      <4>2. CASE FindNone
        <5>1. call'.op = "expand" => call'.at = Containing(heap_end)
          BY <4>2 DEF FindNone, Call
        <5> QED
          BY <1>0, <2>1, <4>1, <5>1 DEF SegmentInv, Containing
      <4>3. CASE CoalesceEnd
        <5>1. call'.op # "expand"
          BY <4>3 DEF CoalesceEnd, Call, Idle
        <5> QED
          BY <1>0, <2>1, <4>1, <5>1 DEF SegmentInv, Containing
      <4>4. CASE ~ FindNone /\ ~ CoalesceEnd
        <5>1. BuddyCall \/ FindAlone \/ AllocDone => call'.op # "expand"
          <6>1. \A n \in Layouts : AllocStart(n) => call'.op # "expand"
            BY DEF AllocStart, Call
          <6>2. \A b \in DOMAIN live : Dealloc(b) => call'.op # "expand"
            BY DEF Dealloc, Call
          <6>3. FindAlone \/ AllocDone => call'.op # "expand"
            BY DEF FindAlone, AllocDone, Return, Idle, Call
          <6> QED
            BY <6>1, <6>2, <6>3 DEF BuddyCall
        <5>2. \A b \in DOMAIN block : FindBest(b) \/ Coalesce(b) => call'.op # "expand"
          BY DEF FindBest, Coalesce, Call
        <5>3. Divide \/ ExpandPanics => call' = call
          BY DEF Divide, ExpandPanics
        <5>4. call'.op # "expand" \/ call' = call
          BY <1>7, <3>3, <4>4, <5>1, <5>2, <5>3, Zenon DEF BuddyStep
        <5> QED
          BY <1>0, <2>1, <4>1, <5>4 DEF SegmentInv, Containing
      <4> QED
        BY <4>2, <4>3, <4>4
    <3> QED
      BY <3>1, <3>2, <3>3
  <2> QED
    BY <2>4, <2>5, <2>6
<1> QED
  BY <1>4, <1>5, <1>6, <1>7

\* The pages of LARGE_HEAP that are kept, step by step
LEMMA LargeFrames ==
    ASSUME IInv, LargeCall \/ LargeStep, UNCHANGED buddyVars
    PROVE  FrameInv' /\ WalkInv' /\ SegmentInv'
<1>0. /\ LargeInv /\ LargeInv' /\ FrameInv /\ WalkInv /\ SegmentInv
      /\ UNCHANGED <<heap_end, call>>
      /\ last_end \in Nat /\ DOMAIN large \subseteq Nat
      /\ job.page \in Nat /\ job.end \in Nat
      /\ \A b \in DOMAIN large : DivCeil(large[b]) \in Nat \ {0}
  BY LargeNextInv, DivCeilPositive DEF IInv, LargeInv, LargeType, buddyVars
<1> DEFINE Heap == {p \in DOMAIN entry : p[1] # "LARGE_HEAP"}
<1>1. /\ \A p \in Kept : p \in Heap \/ \E n \in Nat : p = LargePage(n)
      /\ \A p \in Kept' : p \in Heap' \/ \E n \in Nat : p = LargePage(n)
  <2>1. \A a \in DOMAIN large : \A n \in a .. a + DivCeil(large[a]) - 1 : n \in Nat
    BY <1>0
  <2>2. \A a \in DOMAIN large' : \A n \in a .. a + DivCeil(large'[a]) - 1 : n \in Nat
    BY <1>0 DEF LargeInv, LargeType
  <2>3. /\ job.page \in Nat /\ last_end \in Nat /\ job'.page \in Nat /\ last_end' \in Nat
    BY <1>0 DEF LargeInv, LargeType
  <2>4. \A p \in Kept : p \in Heap \/ \E n \in Nat : p = LargePage(n)
    BY <2>1, <2>3 DEF Kept, Owned, Pending, LargePages
  <2>5. \A p \in Kept' : p \in Heap' \/ \E n \in Nat : p = LargePage(n)
    BY <2>2, <2>3 DEF Kept, Owned, Pending, LargePages
  <2> QED
    BY <2>4, <2>5
<1>2. CASE LargeMap
  <2>1. /\ UNCHANGED <<last_end, large, job>>
        /\ TakeFrame("LARGE_HEAP") \/ MapTable(LargePage(job.page))
    BY <1>2 DEF LargeMap, largeVars
  <2>2. LargePage(job.page) \in Heaps \X Nat /\ "LARGE_HEAP" \in Heaps
    BY <1>0 DEF LargePage, Heaps
  <2>3. /\ FrameInv' /\ WalkInv'
        /\ \A n : HeapPage(n) \in DOMAIN entry' <=> HeapPage(n) \in DOMAIN entry
    BY <1>0, <2>1, <2>2, TakeFrameInv, MapTableInv
  <2> QED
    BY <1>0, <2>3 DEF SegmentInv, Containing
<1>3. CASE LargeMapped
  <2>1. PICK k : k = job.page
    OBVIOUS
  <2>2. MapEntry(LargePage(k))
    BY <1>3, <2>1 DEF LargeMapped
  <2>3. /\ k \in Nat /\ last_end <= k /\ job.op = "alloc" /\ job'.op = "alloc"
        /\ job'.page = k + 1 /\ UNCHANGED <<last_end, large>>
    BY <1>0, <1>3, <2>1 DEF LargeMapped, LargeInv, LargeType, LargePlaced
  <2>4. LargePage(k) \notin Owned
    BY <1>0, <2>3, LargeNumbers DEF LargeInv, LargePlaced
  <2>5. LargePage(k) \notin Pending
    BY <2>1, <2>3, LargeNumbers
  <2>6. /\ LargePage(k) \in Heaps \X Nat /\ LargePage(k)[1] = "LARGE_HEAP"
        /\ \A n : LargePage(k) # HeapPage(n)
    BY <2>3 DEF LargePage, HeapPage, Heaps
  <2>7. DOMAIN entry' = DOMAIN entry \cup {LargePage(k)}
    BY <2>2 DEF MapEntry, SetEntry
  <2>8. Heap' = Heap
    BY <2>6, <2>7
  <2>9. ASSUME NEW p \in Kept' PROVE p \in Kept \cup {LargePage(k)}
    <3>1. CASE p \in Heap
      BY <3>1 DEF Kept, Owned
    <3>2. CASE \E n \in Nat : p = LargePage(n)
      <4>1. PICK n \in Nat : p = LargePage(n)
        BY <3>2
      <4>2. LargePage(n) \in Owned' => LargePage(n) \in Owned
        BY <2>3, LargeNumbers
      <4>3. LargePage(n) \in Pending' => LargePage(n) \in Pending \/ n = k
        BY <1>0, <2>1, <2>3, LargeNumbers
      <4> QED
        BY <2>9, <4>1, <4>2, <4>3 DEF Kept
    <3> QED
      BY <1>1, <2>8, <2>9, <3>1, <3>2
  <2>10. LargePage(k) \notin Kept
    BY <2>4, <2>5 DEF Kept
  <2>11. FrameInv' /\ WalkInv'
    BY <1>0, <2>2, <2>6, <2>9, <2>10, MapEntryInv
  <2> QED
    BY <1>0, <2>6, <2>7, <2>11 DEF SegmentInv, Containing
<1>4. CASE LargeUnmap
  <2>1. PICK k : k = job.page
    OBVIOUS
  <2>2. /\ k \in Nat /\ k < job.end /\ job.op = "dealloc" /\ job'.op = "dealloc"
        /\ job'.page = k + 1 /\ job'.end = job.end /\ UNCHANGED <<last_end, large, entry, held>>
        /\ Unmap(LargePage(k))
    BY <1>0, <1>4, <2>1 DEF LargeUnmap, LargeInv, LargeType, Unmap
  <2>3. LargePage(k) \in Pending
    BY <1>0, <2>1, <2>2, LargeNumbers
  <2>4. LargePage(k) \in DOMAIN entry /\ entry[LargePage(k)] \in used
    BY <1>0, <2>3 DEF FrameInv, Kept
  <2>5. used' = used \ {entry[LargePage(k)]}
    <3>1. LargePage(k)[1] \in Heaps
      BY DEF LargePage, Heaps
    <3>2. IsMapped(LargePage(k))
      BY <1>0, <2>4, <3>1 DEF IsMapped, WalkInv
    <3> QED
      BY <2>2, <2>4, <3>2 DEF Unmap
  <2>6. LargePage(k) \notin Owned'
    BY <1>0, <2>1, <2>2, LargeNumbers DEF LargeInv, LargePlaced
  <2>7. LargePage(k) \notin Pending'
    BY <2>2, LargeNumbers
  <2>8. ASSUME NEW p \in Kept' PROVE p \in Kept
    <3>1. CASE p \in Heap
      BY <3>1 DEF Kept, Owned
    <3>2. CASE \E n \in Nat : p = LargePage(n)
      <4>1. PICK n \in Nat : p = LargePage(n)
        BY <3>2
      <4>2. LargePage(n) \in Owned' => LargePage(n) \in Owned
        BY <2>2, LargeNumbers
      <4>3. LargePage(n) \in Pending' => LargePage(n) \in Pending
        BY <1>0, <2>1, <2>2, LargeNumbers
      <4> QED
        BY <2>8, <4>1, <4>2, <4>3 DEF Kept
    <3> QED
      BY <1>1, <2>2, <2>8, <3>1, <3>2
  <2>9. PagesType'
    BY <1>0, <2>2, <2>5 DEF FrameInv, PagesType
  <2>10. \A p \in Kept' : p # LargePage(k)
    BY <2>6, <2>7 DEF Kept
  <2>11. \A p \in Kept' : entry[p] # entry[LargePage(k)]
    BY <1>0, <2>3, <2>8, <2>10 DEF FrameInv, Kept
  <2>12. \A h \in Heaps : held[h] # NoFrame => held[h] # entry[LargePage(k)]
    BY <1>0, <2>3 DEF FrameInv, Kept
  <2>13. \A h \in Heaps : held'[h] # NoFrame =>
           /\ held'[h] \in used'
           /\ \A p \in Kept' : entry'[p] # held'[h]
           /\ \A g \in Heaps : held'[g] = held'[h] => g = h
    BY <1>0, <2>2, <2>5, <2>8, <2>12 DEF FrameInv
  <2>14. \A p \in Kept' : /\ p \in DOMAIN entry' /\ entry'[p] \in used'
                          /\ \A q \in Kept' : entry'[p] = entry'[q] => p = q
    BY <1>0, <2>2, <2>5, <2>8, <2>11 DEF FrameInv
  <2>15. FrameInv'
    BY <2>9, <2>13, <2>14 DEF FrameInv
  <2> QED
    BY <1>0, <2>2, <2>15 DEF WalkInv, SegmentInv, Containing
<1>5. CASE ~ LargeMap /\ ~ LargeMapped /\ ~ LargeUnmap
  <2>1. UNCHANGED <<used, entry>>
    BY <1>5 DEF LargeCall, LargeStep, LargeAllocStart, LargeMapFails, LargeAllocDone,
                LargeDealloc, LargeDeallocDone, MapFails, pageVars
  <2>2. held' = held \/ held' = [held EXCEPT !["LARGE_HEAP"] = NoFrame]
    BY <1>5 DEF LargeCall, LargeStep, LargeAllocStart, LargeMapFails, LargeAllocDone,
                LargeDealloc, LargeDeallocDone, MapFails, pageVars, LargePage
  <2>3. /\ held' \in [Heaps -> Frame \cup {NoFrame}]
        /\ \A h \in Heaps : held'[h] \in {held[h], NoFrame}
    BY <1>0, <2>2 DEF FrameInv, PagesType
  <2>4. ASSUME NEW n \in Nat, LargePage(n) \in Kept'
        PROVE  LargePage(n) \in Kept
    <3>1. ASSUME NEW s \in LargeSizes, LargeAllocStart(s) PROVE LargePage(n) \in Kept
      <4>1. job'.page = last_end /\ job'.op = "alloc" /\ UNCHANGED <<last_end, large>>
        BY <3>1 DEF LargeAllocStart
      <4> QED
        BY <1>0, <2>4, <4>1, LargeNumbers DEF Kept
    <3>2. CASE LargeMapFails \/ LargeDeallocDone
      <4>1. job'.op = "idle" /\ UNCHANGED large
        BY <3>2 DEF LargeMapFails, LargeDeallocDone, NoJob
      <4> QED
        BY <2>4, <4>1, LargeNumbers DEF Kept
    <3>3. CASE LargeAllocDone
      <4>1. PICK e, s : e = last_end /\ s = job.size
        OBVIOUS
      <4>2. /\ job'.op = "idle" /\ job.op = "alloc" /\ job.page = e + DivCeil(s)
            /\ large' = [a \in DOMAIN large \cup {e} |-> IF a = e THEN s ELSE large[a]]
        BY <1>0, <3>3, <4>1 DEF LargeAllocDone, NoJob, LargeInv, LargePlaced
      <4>3. PICK a \in DOMAIN large' : n \in a .. a + DivCeil(large'[a]) - 1
        BY <2>4, <4>2, LargeNumbers DEF Kept
      <4>4. CASE a = e
        <5>0. large'[a] = s
          BY <4>2, <4>4
        <5>1. n \in e .. e + DivCeil(s) - 1
          BY <4>3, <4>4, <5>0
        <5>2. n \in last_end .. job.page - 1
          <6>1. s \in LargeSizes /\ last_end \in Nat /\ job.page \in Nat
            BY <1>0, <4>1, <4>2 DEF LargeInv, LargePlaced
          <6>2. DivCeil(s) \in Nat
            BY <6>1, DivCeilPositive
          <6> QED
            BY <4>1, <4>2, <5>1, <6>1, <6>2
        <5> QED
          BY <4>2, <5>2, LargeNumbers DEF Kept
      <4>5. CASE a # e
        BY <4>2, <4>3, <4>5, LargeNumbers DEF Kept
      <4> QED
        BY <4>4, <4>5
    <3>4. ASSUME NEW a \in DOMAIN large, LargeDealloc(a) PROVE LargePage(n) \in Kept
      <4>1. /\ job'.page = a /\ job'.op = "dealloc" /\ job'.end = EndPage(a, large[a])
            /\ large' = [b \in DOMAIN large \ {a} |-> large[b]]
        BY <3>4 DEF LargeDealloc
      <4>2. /\ EndPage(a, large[a]) <= a + DivCeil(large[a]) /\ EndPage(a, large[a]) \in Nat
            /\ a \in Nat
        BY <1>0, EndPageBound DEF LargeInv, LargeType
      <4>3. CASE LargePage(n) \in Owned'
        BY <4>1, <4>3, LargeNumbers DEF Kept
      <4>4. CASE LargePage(n) \in Pending'
        <5>1. n \in a .. EndPage(a, large[a]) - 1
          BY <4>1, <4>4, LargeNumbers
        <5>2. n \in a .. a + DivCeil(large[a]) - 1
          BY <1>0, <4>2, <5>1
        <5> QED
          BY <5>2, LargeNumbers DEF Kept
      <4> QED
        BY <2>4, <4>3, <4>4 DEF Kept
    <3> QED
      BY <1>5, <3>1, <3>2, <3>3, <3>4 DEF LargeCall, LargeStep
  <2>5. Heap \subseteq Kept /\ Heap' = Heap
    BY <2>1 DEF Kept, Owned
  <2>6. Kept' \subseteq Kept
    BY <1>1, <2>4, <2>5
  <2>7. FrameInv'
    BY <1>0, <2>1, <2>6, <2>3, FewerPages
  <2> QED
    BY <1>0, <2>1, <2>7 DEF WalkInv, SegmentInv, Containing
<1> QED
  BY <1>2, <1>4, <1>5, <1>3

\* IInv is an inductive invariant.
LEMMA NextIInv == IInv /\ [Next]_vars => IInv'
<1> SUFFICES ASSUME IInv, [Next]_vars PROVE IInv'
  OBVIOUS
<1>1. LockType'
  BY DEF IInv, LockType, Next, vars, HeapStart, HeapStep, LargeHeapStart, LargeHeapStep,
         Spin, TableLost, Heaps
<1>2. CASE HeapStart \/ HeapStep
  <2>1. (BuddyCall \/ BuddyStep) /\ UNCHANGED largeVars
    BY <1>2 DEF HeapStart, HeapStep
  <2> QED
    BY <1>1, <2>1, BuddyNextInv, LargeStutters, BuddyFrames DEF IInv
<1>3. CASE LargeHeapStart \/ LargeHeapStep
  <2>1. (LargeCall \/ LargeStep) /\ UNCHANGED buddyVars
    BY <1>3 DEF LargeHeapStart, LargeHeapStep
  <2> QED
    BY <1>1, <2>1, BuddyStutters, LargeNextInv, LargeFrames DEF IInv
<1>4. CASE Spin \/ TableLost \/ UNCHANGED vars
  <2>1. UNCHANGED buddyVars /\ UNCHANGED largeVars /\ UNCHANGED <<used, entry, held>>
    BY <1>4 DEF Spin, TableLost, vars, pageVars
  <2>2. Kept' \subseteq Kept
    BY <2>1 DEF largeVars, Kept, Owned, LargePages, Pending
  <2>3. FrameInv'
    <3>1. /\ held' \in [Heaps -> Frame \cup {NoFrame}]
          /\ \A h \in Heaps : held'[h] \in {held[h], NoFrame}
      BY <2>1 DEF IInv, FrameInv, PagesType
    <3> QED
      BY <2>1, <2>2, <3>1, FewerPages DEF IInv
  <2>4. WalkInv' /\ SegmentInv'
    BY <2>1 DEF IInv, WalkInv, SegmentInv, Containing, buddyVars
  <2> QED
    BY <1>1, <2>1, <2>3, <2>4, BuddyStutters, LargeStutters DEF IInv
<1> QED
  BY <1>2, <1>3, <1>4 DEF Next

LEMMA IInvHolds == Spec => []IInv
<1> QED
  BY InitIInv, NextIInv, PTL DEF Spec

\* The state of both allocators is what the code's types say, and every block
\* handed out is a block of the row.
THEOREM TypeCorrect == Spec => []TypeOK
<1>1. IInv => TypeOK
  BY DEF IInv, BuddyInv, BuddyType, LargeInv, LargeType, FrameInv, PagesType, Places,
         LockType, TypeOK
<1> QED
  BY <1>1, IInvHolds, PTL

\* divide, coalescence_buddies and add_free keep the blocks a partition of the
\* heap, for every sequence of allocations and deallocations.
THEOREM RowTilesHeap == Spec => []Tiled
<1>1. IInv => Tiled
  BY DEF IInv, BuddyInv
<1> QED
  BY <1>1, IInvHolds, PTL

\* Every page of the heap has a frame of its own, and so do those before it:
\* there are fewer of them than frames.
LEMMA HeapBelow ==
    ASSUME IInv, NEW n \in Nat, HeapPage(n) \in DOMAIN entry
    PROVE  n < LargeStart
<1> SUFFICES ASSUME FrameCount <= n PROVE FALSE
  BY PagesAssumption, LargeAssumption
<1>1. \A m \in 0 .. n : HeapPage(m) \in DOMAIN entry
  BY DEF IInv, SegmentInv
<1>2. \A m \in 0 .. n : HeapPage(m) \in Kept
  BY <1>1 DEF Kept, Owned, HeapPage
<1> DEFINE f == [m \in 0 .. n |-> entry[HeapPage(m)]]
<1>3. f \in [0 .. n -> Frame]
  BY <1>1 DEF IInv, FrameInv, PagesType
<1>4. /\ IsFiniteSet(0 .. n) /\ Cardinality(0 .. n) = n + 1
      /\ IsFiniteSet(Frame) /\ Cardinality(Frame) = FrameCount
  BY FS_Interval, PagesAssumption DEF Frame
<1>5. Cardinality(Frame) < Cardinality(0 .. n)
  BY <1>4, PagesAssumption
<1> HIDE DEF f
<1>6. \E i, j \in 0 .. n : i # j /\ f[i] = f[j]
  BY <1>3, <1>4, <1>5, FS_PigeonHole, Zenon
<1>7. PICK i \in 0 .. n, j \in 0 .. n : i # j /\ f[i] = f[j]
  BY <1>6
<1>8. entry[HeapPage(i)] = entry[HeapPage(j)]
  BY <1>7 DEF f
<1>9. HeapPage(i) = HeapPage(j)
  BY <1>2, <1>8 DEF IInv, FrameInv
<1> QED
  BY <1>7, <1>9 DEF HeapPage

\* No frame backs two tables or pages of the kernel's heaps, and none of theirs
\* is free, whatever the order in which the two allocators map and unmap, and
\* wherever map_to or allocate_frame fails; the heap, however it grows, has
\* fewer pages than there are frames and stays below LARGE_HEAP.
THEOREM FramesStayOwned == Spec => []FramesOwned
<1>1. ASSUME IInv PROVE Placed
  <2> SUFFICES ASSUME NEW p \in DOMAIN entry, p[1] = "HEAP" PROVE p[2] < LargeStart
    BY <1>1 DEF Placed, IInv, WalkInv
  <2>1. p \in Places
    BY <1>1 DEF IInv, FrameInv, PagesType
  <2>2. p = HeapPage(p[2]) /\ p[2] \in Nat
    BY <2>1 DEF Places, HeapPage
  <2> QED
    BY <1>1, <2>2, HeapBelow
<1>2. IInv => FramesOwned
  BY <1>1 DEF IInv, LargeInv, FrameInv, FramesOwned, Kept
<1> QED
  BY <1>2, IInvHolds, PTL

\* The regions after an allocation
LEMMA RegionsGrow ==
    ASSUME IInv, NEW g \in Nat, NEW n \in Nat,
           live' = [c \in DOMAIN live \cup {g} |-> IF c = g THEN n ELSE live[c]]
    PROVE  /\ DOMAIN HeapRegions = {b + Header : b \in DOMAIN live}
           /\ \A b \in DOMAIN live : HeapRegions[b + Header] = live[b]
           /\ g + Header \in DOMAIN HeapRegions' /\ HeapRegions'[g + Header] = n
           /\ Small!HandOut(g + Header)
<1>0. Header \in Nat \ {0} /\ \A b \in DOMAIN live : b \in Nat
  BY HeaderAssumption DEF IInv, BuddyInv, BuddyType
<1> DEFINE a == g + Header
           D == {b + Header : b \in DOMAIN live}
<1>1. DOMAIN HeapRegions = D /\ \A b \in DOMAIN live : HeapRegions[b + Header] = live[b]
  BY <1>0 DEF HeapRegions
<1>2. HeapRegions' = [c \in D \cup {a} |-> IF c = a THEN n ELSE HeapRegions[c]]
  <2>1. {b + Header : b \in DOMAIN live'} = D \cup {a}
    BY <1>0
  <2>2. ASSUME NEW c \in D \cup {a} PROVE live'[c - Header] = IF c = a THEN n ELSE HeapRegions[c]
    <3>1. CASE c = a
      BY <1>0, <3>1
    <3>2. CASE c # a
      <4>1. PICK b \in DOMAIN live : c = b + Header
        BY <3>2
      <4> QED
        BY <1>0, <1>1, <3>2, <4>1
    <3> QED
      BY <3>1, <3>2
  <2>3. HeapRegions' = [c \in D \cup {a} |-> live'[c - Header]]
    BY <2>1 DEF HeapRegions
  <2> QED
    BY <2>2, <2>3
<1>3. a \in DOMAIN HeapRegions' /\ HeapRegions'[a] = n
  BY <1>2
<1> QED
  BY <1>1, <1>2, <1>3 DEF Small!HandOut

\* A block that is handed out overlaps no region that is.
LEMMA HandedOutApart ==
    ASSUME IInv, ~ overcommitted, overcommitted' = overcommitted, NEW g \in Nat, NEW n \in Nat,
           \A b \in DOMAIN live : b # g,
           \A b \in DOMAIN live : b < g => After(b) <= g,
           \A b \in DOMAIN live : g < b => g + Header + n <= b,
           g + Header + n <= heap_end',
           live' = [c \in DOMAIN live \cup {g} |-> IF c = g THEN n ELSE live[c]]
    PROVE  Small!Next
<1>0. /\ Header \in Nat \ {0}
      /\ \A b \in DOMAIN live : /\ b \in Nat /\ live[b] \in Nat
                                /\ b + Header + live[b] <= After(b) /\ After(b) \in Nat
  BY HeaderAssumption, LayoutsAssumption DEF IInv, BuddyInv, BuddyType, LiveInv, After
<1>1. PICK a : a = g + Header
  OBVIOUS
<1>2. /\ DOMAIN HeapRegions = {b + Header : b \in DOMAIN live}
      /\ \A b \in DOMAIN live : HeapRegions[b + Header] = live[b]
      /\ a \in DOMAIN HeapRegions' /\ HeapRegions'[a] = n /\ Small!HandOut(a)
  BY <1>1, RegionsGrow
<1>3. a \notin DOMAIN HeapRegions /\ a + HeapRegions'[a] <= heap_end'
  BY <1>0, <1>1, <1>2
<1>4. ASSUME NEW c \in DOMAIN HeapRegions
      PROVE  ~ Small!Overlap(a, HeapRegions'[a], c, HeapRegions[c])
  <2>1. PICK b \in DOMAIN live : c = b + Header
    BY <1>2, <1>4
  <2>2. HeapRegions[c] = live[b]
    BY <1>2, <2>1
  <2> QED
    BY <1>0, <1>1, <1>2, <2>1, <2>2 DEF Small!Overlap
<1>5. Small!Alloc(a)
  BY <1>2, <1>3, <1>4 DEF Small!Alloc
<1> QED
  BY <1>2, <1>5 DEF Small!Next

\* A lone head that does not fit is handed out when it is in use, and takes more
\* than half of the heap, or when the heap is too small.
LEMMA HandedOutTwice ==
    ASSUME IInv, AllocDone, overcommitted
    PROVE  Small!Next
<1>1. PICK g, n : g = Got /\ n = call.layout
  OBVIOUS
<1>2. /\ call.op = "divide" /\ call'.op = "idle" /\ overcommitted' = overcommitted
      /\ live' = [c \in DOMAIN live \cup {g} |-> IF c = g THEN n ELSE live[c]]
  BY <1>1 DEF AllocDone, Return, Doing, Idle, Call
<1>3. g \in Nat /\ n \in Nat /\ Header \in Nat /\ heap_end \in Nat /\ DOMAIN live \subseteq Nat
  <2>1. n \in Nat /\ Header \in Nat
    BY <1>1, <1>2, WantFacts DEF IInv, BuddyInv
  <2> QED
    BY <1>1, <2>1, AllocDoneInv DEF IInv, BuddyInv, BuddyType
<1>4. Misfit
  BY <1>2 DEF IInv, BuddyInv, CallInv
<1>5. PICK a : a = g + Header
  OBVIOUS
<1>6. /\ DOMAIN HeapRegions = {b + Header : b \in DOMAIN live}
      /\ \A b \in DOMAIN live : HeapRegions[b + Header] = live[b]
      /\ a \in DOMAIN HeapRegions' /\ HeapRegions'[a] = n /\ Small!HandOut(a)
  BY <1>2, <1>3, <1>5, RegionsGrow
<1>7. \A b, c \in DOMAIN HeapRegions : b = c
  BY <1>3, <1>4, <1>6 DEF Misfit
<1>8. \/ \E b \in DOMAIN HeapRegions : heap_end < 2 * (HeapRegions[b] + Header)
      \/ heap_end < HeapRegions'[a] + Header
  <2>1. CASE 0 \in DOMAIN live /\ heap_end < 2 * (live[0] + Header)
    <3>1. 0 + Header \in DOMAIN HeapRegions /\ HeapRegions[0 + Header] = live[0]
      BY <1>6, <2>1
    <3> QED
      BY <2>1, <3>1
  <2> QED
    BY <1>1, <1>4, <1>6, <2>1 DEF Misfit
<1>9. Small!Overcommit(a)
  BY <1>2, <1>6, <1>7, <1>8 DEF Small!Overcommit
<1> QED
  BY <1>2, <1>6, <1>9 DEF Small!Next

\* Every step of the kernel is a step of an allocator over HeapRegions.
LEMMA HeapStepAllocates ==
    ASSUME IInv, [Next]_vars
    PROVE  [Small!Next]_<<HeapRegions, overcommitted /\ call.op = "idle">>
<1>0. /\ Header \in Nat \ {0}
      /\ \A b \in DOMAIN block : b \in Nat /\ block[b].size \in Nat
      /\ \A b \in DOMAIN live : b \in DOMAIN block /\ live[b] \in Nat
      /\ Layouts \subseteq Nat
      /\ heap_end \in Nat /\ overcommitted \in BOOLEAN
  BY HeaderAssumption, LayoutsAssumption DEF IInv, BuddyInv, BuddyType
<1>1. \A b \in DOMAIN block : After(b) <= heap_end
  <2>1. \A b \in DOMAIN block : b < heap_end
    BY DEF IInv, BuddyInv, BuddyType
  <2>2. \A b \in DOMAIN block : After(b) = heap_end \/ After(b) \in DOMAIN block
    BY DEF IInv, BuddyInv, Tiled
  <2> QED
    BY <1>0, <2>1, <2>2
<1>2. CASE AllocDone /\ ~ overcommitted
  <2>1. PICK g, n : g = Got /\ n = call.layout
    OBVIOUS
  <2>2. /\ g \in DOMAIN block \ DOMAIN live /\ g \in Nat
    BY <1>0, <1>2, <2>1, AllocDoneInv DEF IInv
  <2>3. /\ live' = [c \in DOMAIN live \cup {g} |-> IF c = g THEN n ELSE live[c]]
        /\ call.op = "divide" /\ UNCHANGED <<heap_end, overcommitted>>
    BY <1>2, <2>1 DEF AllocDone, Return, Doing
  <2>4. n \in Nat /\ n + Header <= block[g].size
    <3>1. n + Header <= Want /\ n \in Nat /\ Want \in Nat
      BY <2>1, <2>3, WantFacts DEF IInv, BuddyInv
    <3>2. Want <= block[g].size
      BY <1>2, <2>1, <2>3 DEF IInv, BuddyInv, CallInv
    <3> QED
      BY <1>0, <2>2, <3>1, <3>2
  <2>5. \A b \in DOMAIN live : /\ b < g => After(b) <= g
                               /\ g < b => g + block[g].size <= b
    BY <1>0, <2>2 DEF IInv, BuddyInv, Tiled, After
  <2>6. \A b \in DOMAIN live : g < b => g + Header + n <= b
    BY <1>0, <2>2, <2>4, <2>5
  <2>7. \A b \in DOMAIN live : b # g
    BY <2>2
  <2>8. g + Header + n <= heap_end'
    BY <1>0, <1>1, <2>2, <2>3, <2>4 DEF After
  <2> QED
    BY <1>2, <2>2, <2>3, <2>4, <2>5, <2>6, <2>7, <2>8, HandedOutApart
<1>3. CASE AllocDone /\ overcommitted
  BY <1>3, HandedOutTwice
<1>4. CASE ExpandDone
  <2>1. PICK g, n : g = heap_end /\ n = call.layout
    OBVIOUS
  <2>2. /\ g \in Nat /\ g \notin DOMAIN live
        /\ \A b \in DOMAIN live : b < g /\ After(b) <= g
    BY <1>0, <1>1, <1>4, <2>1, ExpandDoneInv DEF IInv, BuddyInv, BuddyType
  <2>3. /\ live' = [c \in DOMAIN live \cup {g} |-> IF c = g THEN n ELSE live[c]]
        /\ call.op = "expand" /\ heap_end' = g + Want /\ overcommitted' = overcommitted
        /\ ~ overcommitted
    BY <1>4, <2>1
       DEF ExpandDone, Expanding, AddFree, Return, Doing, IInv, BuddyInv, CallInv
  <2>4. n \in Nat /\ n + Header <= Want /\ Want \in Nat
    BY <2>1, <2>3, WantFacts DEF IInv, BuddyInv
  <2>5. /\ \A b \in DOMAIN live : b # g
        /\ \A b \in DOMAIN live : g < b => g + Header + n <= b
        /\ g + Header + n <= heap_end'
    BY <1>0, <2>2, <2>3, <2>4
  <2> QED
    BY <2>2, <2>3, <2>4, <2>5, HandedOutApart
<1>5. ASSUME NEW g \in DOMAIN live, Dealloc(g) PROVE Small!Next
  <2>1. /\ live' = [c \in DOMAIN live \ {g} |-> live[c]]
        /\ overcommitted = FALSE /\ overcommitted' = FALSE
    BY <1>0, <1>5 DEF Dealloc
  <2>2. \A b \in DOMAIN live : b \in Nat
    BY <1>0
  <2>3. DOMAIN HeapRegions = {b + Header : b \in DOMAIN live} /\ g + Header \in DOMAIN HeapRegions
    BY DEF HeapRegions
  <2>4. {b + Header : b \in DOMAIN live'} = DOMAIN HeapRegions \ {g + Header}
    BY <1>0, <2>1, <2>2, <2>3
  <2>5. \A c \in DOMAIN HeapRegions \ {g + Header} : live'[c - Header] = HeapRegions[c]
    <3> SUFFICES ASSUME NEW c \in DOMAIN HeapRegions \ {g + Header}
                 PROVE  live'[c - Header] = HeapRegions[c]
      OBVIOUS
    <3>1. PICK b \in DOMAIN live : c = b + Header
      BY <2>3
    <3>2. c - Header = b /\ b # g
      BY <1>0, <2>2, <3>1
    <3> QED
      BY <2>1, <2>3, <3>1, <3>2 DEF HeapRegions
  <2>6. HeapRegions' = [c \in DOMAIN HeapRegions \ {g + Header} |-> HeapRegions[c]]
    BY <2>4, <2>5 DEF HeapRegions
  <2>7. Small!Free(g + Header)
    BY <2>1, <2>6 DEF Small!Free
  <2> QED
    BY <2>1, <2>3, <2>7 DEF Small!Next
<1>6. ASSUME UNCHANGED live,
             (overcommitted /\ call.op = "idle")' = (overcommitted /\ call.op = "idle")
      PROVE  UNCHANGED <<HeapRegions, overcommitted /\ call.op = "idle">>
  BY <1>6 DEF HeapRegions
<1>7. \/ AllocDone \/ ExpandDone \/ \E g \in DOMAIN live : Dealloc(g)
      \/ /\ UNCHANGED live
         /\ (overcommitted /\ call.op = "idle")' = (overcommitted /\ call.op = "idle")
  <2>1. CASE UNCHANGED buddyVars
    BY <2>1 DEF buddyVars
  <2>2. CASE \E n \in Layouts : AllocStart(n)
    <3>1. UNCHANGED live /\ ~ overcommitted /\ ~ overcommitted'
      BY <2>2 DEF AllocStart
    <3> QED
      BY <3>1
  <2>3. CASE FindAlone
    <3>1. UNCHANGED live /\ call.op = "find" /\ call'.op = "divide"
      BY <2>3 DEF FindAlone, Doing, Call
    <3> QED
      BY <3>1
  <2>4. CASE Divide
    BY <2>4 DEF Divide
  <2>5. ASSUME NEW b \in DOMAIN block,
               FindBest(b) \/ FindNone \/ Coalesce(b) \/ CoalesceEnd \/ ExpandSkip
                 \/ ExpandMap \/ ExpandMapped \/ ExpandFails \/ ExpandPanics
        PROVE  /\ UNCHANGED live
               /\ (overcommitted /\ call.op = "idle")' = (overcommitted /\ call.op = "idle")
    <3>1. UNCHANGED <<live, overcommitted>> /\ call.op \in {"find", "coalesce", "expand"}
      BY <2>5 DEF FindBest, FindNone, Coalesce, CoalesceEnd, ExpandSkip, ExpandMap,
                  ExpandMapped, ExpandFails, ExpandPanics, Expanding, Doing, buddyVars
    <3>2. ~ overcommitted
      BY <3>1 DEF IInv, BuddyInv, CallInv
    <3> QED
      BY <3>1, <3>2
  <2>6. BuddyCall \/ BuddyStep \/ UNCHANGED buddyVars
    BY DEF Next, vars, HeapStart, HeapStep, LargeHeapStart, LargeHeapStep, Spin, TableLost
  <2>7. 0 \in DOMAIN block
    BY DEF IInv, BuddyInv, Tiled
  <2> QED
    BY <2>1, <2>2, <2>3, <2>4, <2>5, <2>6, <2>7, Zenon DEF BuddyCall, BuddyStep
<1> QED
  BY <1>2, <1>3, <1>4, <1>5, <1>6, <1>7, Zenon

\* The buddy allocator implements Allocator, for every heap, set of layouts and
\* history: memory it hands out is its own and overlaps none that is in use,
\* with the one exception that Overcommit states.
THEOREM HeapRefines == Spec => HeapAllocates
<1>1. Init => Small!Init
  <2> SUFFICES ASSUME Init
               PROVE  /\ HeapRegions = [a \in {} |-> 0]
                      /\ (overcommitted /\ call.op = "idle") = FALSE
    BY DEF Small!Init
  <2>1. {b + Header : b \in DOMAIN live} = {}
    BY DEF Init, BuddyInit
  <2>2. overcommitted = FALSE
    BY DEF Init, BuddyInit
  <2> QED
    BY <2>1, <2>2 DEF HeapRegions
<1>2. IInv /\ [Next]_vars => [Small!Next]_<<HeapRegions, overcommitted /\ call.op = "idle">>
  BY HeapStepAllocates
<1> QED
  BY <1>1, <1>2, IInvHolds, PTL DEF Spec, HeapAllocates, Small!Spec

\* Every step of the kernel is a step of an allocator over LargeRegions.
LEMMA LargeStepAllocates ==
    ASSUME IInv, [Next]_vars
    PROVE  [Large!Next]_<<LargeRegions, FALSE>>
<1>0. /\ LargeInv /\ last_end \in Nat /\ DOMAIN large \subseteq Nat
      /\ \A b \in DOMAIN large : large[b] \in LargeSizes /\ DivCeil(large[b]) \in Nat \ {0}
  BY DivCeilPositive DEF IInv, LargeInv, LargeType
<1>1. CASE UNCHANGED large
  BY <1>1 DEF LargeRegions, DivCeil
<1>2. CASE LargeAllocDone
  <2>1. PICK e, s : e = last_end /\ s = job.size
    OBVIOUS
  <2>2. large' = [a \in DOMAIN large \cup {e} |-> IF a = e THEN s ELSE large[a]]
    BY <1>2, <2>1 DEF LargeAllocDone
  <2>3. \A b \in DOMAIN large : b + DivCeil(large[b]) <= e /\ b < e
    BY <1>0, <2>1 DEF LargeInv, LargePlaced
  <2>4. e \in Nat /\ s \in LargeSizes /\ DivCeil(s) \in Nat /\ e + DivCeil(s) <= LargeEnd
    BY <1>0, <1>2, <2>1, DivCeilPositive DEF LargeAllocDone, LargeInv, LargePlaced
  <2>5. /\ DOMAIN LargeRegions = DOMAIN large /\ DOMAIN LargeRegions' = DOMAIN large \cup {e}
        /\ \A b \in DOMAIN large : LargeRegions[b] = DivCeil(large[b])
        /\ LargeRegions'[e] = DivCeil(s)
    BY <2>2 DEF LargeRegions, DivCeil
  <2>6. e \in DOMAIN LargeRegions' /\ e \notin DOMAIN LargeRegions
    BY <2>3, <2>4, <2>5
  <2>7. LargeRegions' = [b \in DOMAIN LargeRegions \cup {e} |->
                            IF b = e THEN LargeRegions'[e] ELSE LargeRegions[b]]
    BY <2>2, <2>5, <2>6 DEF LargeRegions, DivCeil
  <2>8. \A b \in DOMAIN LargeRegions : ~ Large!Overlap(e, LargeRegions'[e], b, LargeRegions[b])
    BY <1>0, <2>3, <2>4, <2>5 DEF Large!Overlap
  <2>9. Large!Alloc(e)
    BY <2>4, <2>5, <2>6, <2>7, <2>8 DEF Large!Alloc, Large!HandOut
  <2> QED
    BY <2>6, <2>9 DEF Large!Next
<1>3. ASSUME NEW a \in DOMAIN large, LargeDealloc(a) PROVE Large!Next
  <2>1. large' = [b \in DOMAIN large \ {a} |-> large[b]]
    BY <1>3 DEF LargeDealloc
  <2>2. DOMAIN LargeRegions = DOMAIN large
    BY DEF LargeRegions
  <2>3. LargeRegions' = [b \in DOMAIN LargeRegions \ {a} |-> LargeRegions[b]]
    BY <2>1, <2>2 DEF LargeRegions, DivCeil
  <2>4. Large!Free(a)
    BY <2>3 DEF Large!Free
  <2> QED
    BY <2>2, <2>4 DEF Large!Next
<1>4. UNCHANGED large \/ LargeAllocDone \/ \E a \in DOMAIN large : LargeDealloc(a)
  BY DEF Next, vars, HeapStart, HeapStep, LargeHeapStart, LargeHeapStep, Spin, TableLost, largeVars,
         LargeCall, LargeStep, LargeAllocStart, LargeMap, LargeMapped, LargeMapFails,
         LargeUnmap, LargeDeallocDone
<1> QED
  BY <1>1, <1>2, <1>3, <1>4

\* The page allocator implements Allocator too, without the exception: it
\* returns to the start of LARGE_HEAP only when its counter, hence the number of
\* its buffers, is zero, and goes no further than its end.
THEOREM LargeRefines == Spec => LargeAllocates
<1>1. Init => Large!Init
  BY DEF Init, LargeInit, Large!Init, LargeRegions
<1>2. IInv /\ [Next]_vars => [Large!Next]_<<LargeRegions, FALSE>>
  BY LargeStepAllocates
<1> QED
  BY <1>1, <1>2, IInvHolds, PTL DEF Spec, LargeAllocates, Large!Spec

-----------------------------------------------------------------------------
(***************************************************************************)
(* No two neighbours that could be joined are left.  While an allocation   *)
(* divides, the block it divides may be followed by its buddy, and only    *)
(* that one may: the others are excluded because no free block that fits   *)
(* is smaller than the one that is divided.  A pass of                     *)
(* coalescence_buddies that joins nothing has looked at the whole row, and *)
(* the one that allocmut makes before it retries never joins anything.     *)
(***************************************************************************)
NoneMergeable == \A b \in DOMAIN block : ~ Mergeable(b)

RestInv ==
    call.op \in {"idle", "find", "expand"} \/ (call.op = "coalesce" /\ call.retried)
        => NoneMergeable

PassInv ==
    call.op = "coalesce" =>
        /\ ~ call.merged => call.at = 0
        /\ call.retried => ~ call.merged

SmallestInv ==
    call.op = "divide" =>
        /\ \A b \in DOMAIN block : Mergeable(b) => b = call.at
        /\ \A b \in DOMAIN block : Fits(b) => block[call.at].size <= block[b].size

CoalescedInv == RestInv /\ PassInv /\ SmallestInv

LEMMA InitCoalesced == Init => CoalescedInv
<1> SUFFICES ASSUME Init PROVE CoalescedInv
  OBVIOUS
<1>1. /\ DOMAIN block = {0} /\ block[0].size = InitSize /\ heap_end = InitSize
      /\ call = Idle /\ InitSize \in Nat
  BY InitSizeAssumption DEF Init, BuddyInit
<1>2. NoneMergeable
  BY <1>1 DEF NoneMergeable, Mergeable, HasNext, After
<1> QED
  BY <1>1, <1>2 DEF CoalescedInv, RestInv, PassInv, SmallestInv, Idle, Call

\* Whether blocks can be joined depends on the row alone.
LEMMA SameRow ==
    ASSUME UNCHANGED <<block, heap_end>>
    PROVE  /\ \A b : Mergeable(b)' <=> Mergeable(b)
           /\ NoneMergeable' <=> NoneMergeable
BY DEF NoneMergeable, Mergeable, HasNext, After

LEMMA FindCoalesced ==
    ASSUME BuddyInv, CoalescedInv,
           FindAlone \/ (\E b \in DOMAIN block : FindBest(b)) \/ FindNone
    PROVE  CoalescedInv'
<1>1. /\ call.op = "find" /\ UNCHANGED <<block, heap_end>> /\ NoneMergeable
      /\ NoneMergeable' /\ \A b \in DOMAIN block : ~ Mergeable(b)'
  BY SameRow DEF FindAlone, FindBest, FindNone, Doing, CoalescedInv, RestInv, NoneMergeable
<1>2. CASE FindAlone
  <2>1. /\ call' = Call("divide", call.layout, 0, TRUE, FALSE, call.retried)
        /\ ~ (After(0) < heap_end)
    BY <1>2 DEF FindAlone, HasNext
  <2>2. \A b \in DOMAIN block : b = 0
    <3>1. 0 \in DOMAIN block /\ \A b \in DOMAIN block : 0 < b => After(0) <= b
      BY DEF BuddyInv, Tiled
    <3>2. \A b \in DOMAIN block : b \in Nat /\ b < heap_end /\ heap_end \in Nat
      BY DEF BuddyInv, BuddyType
    <3>3. After(0) \in Nat
      BY <3>1 DEF After, BuddyInv, BuddyType
    <3> QED
      BY <2>1, <3>1, <3>2, <3>3
  <2>3. \A b \in DOMAIN block : block'[0].size <= block'[b].size
    BY <1>1, <2>2 DEF BuddyInv, BuddyType
  <2> QED
    BY <1>1, <2>1, <2>3 DEF CoalescedInv, RestInv, PassInv, SmallestInv, Call
<1>3. CASE \E b \in DOMAIN block : FindBest(b)
  <2>1. PICK b \in DOMAIN block : FindBest(b)
    BY <1>3
  <2>2. /\ call' = Call("divide", call.layout, b, FALSE, FALSE, call.retried)
        /\ \A c \in DOMAIN block : Fits(c) => block[b].size <= block[c].size
    BY <2>1 DEF FindBest, IsBest, BuddyInv, BuddyType
  <2>3. \A c : Fits(c)' <=> Fits(c)
    BY <1>1, <2>2 DEF Fits, Want, Call
  <2> QED
    BY <1>1, <2>2, <2>3 DEF CoalescedInv, RestInv, PassInv, SmallestInv, Call
<1>4. CASE FindNone
  <2>1. \/ call' = Call("expand", call.layout, Containing(heap_end), FALSE, FALSE, TRUE)
        \/ call' = Call("coalesce", call.layout, 0, FALSE, FALSE, TRUE)
    BY <1>4 DEF FindNone
  <2> QED
    BY <1>1, <2>1 DEF CoalescedInv, RestInv, PassInv, SmallestInv, Call
<1> QED
  BY <1>2, <1>3, <1>4

\* Only the two halves can be joined again: a neighbour as large as a half
\* would have fitted and been divided instead.
LEMMA DivideCoalesced ==
    ASSUME BuddyInv, CoalescedInv, Divide
    PROVE  CoalescedInv'
<1>0. PICK b, half, right : /\ b = call.at /\ half = block[b].size \div 2
                            /\ right = b + half
  OBVIOUS
<1>1. call.op = "divide"
  BY DEF Divide, Doing
<1>2. /\ b \in DOMAIN block /\ b \in Nat
      /\ block[b].size \in Nat \ {0} /\ Want <= half /\ Header < half
  BY <1>0, <1>1 DEF BuddyInv, BuddyType, CallInv, Divide, Divides
<1>3. Want \in Nat /\ Header \in Nat
  BY <1>1, WantFacts DEF BuddyInv
<1>4. block[b].size = 2 * half /\ half \in Nat \ {0}
  <2>1. block[b].size > 1
    BY <1>0, <1>2, <1>3
  <2>2. IsPow2(block[b].size)
    BY <1>2 DEF BuddyInv, PowersOf2
  <2> QED
    BY <1>0, <1>2, <2>1, <2>2, Pow2Half
<1>5. /\ DOMAIN block' = DOMAIN block \cup {right}
      /\ block'[b] = [free |-> TRUE, size |-> half]
      /\ block'[right] = [free |-> TRUE, size |-> half]
      /\ \A c \in DOMAIN block \ {b, right} : block'[c] = block[c]
      /\ UNCHANGED <<heap_end, call>>
  BY <1>0, <1>2 DEF Divide
<1>6. right \in Nat /\ b < right /\ After(b) = right + half
  BY <1>0, <1>2, <1>4 DEF After
<1>7. right \notin DOMAIN block
  BY <1>0, <1>2, <1>4, <1>6 DEF BuddyInv, Tiled, After, BuddyType
<1>8. /\ DOMAIN block \subseteq Nat /\ heap_end \in Nat
      /\ \A c \in DOMAIN block : c < heap_end /\ block[c].size \in Nat \ {0}
  BY DEF BuddyInv, BuddyType
<1>9. /\ After(right)' = After(b)
      /\ \A c \in DOMAIN block \ {b} : After(c)' = After(c)
  BY <1>4, <1>5, <1>6, <1>7 DEF After
<1>10. /\ \A c \in DOMAIN block : Mergeable(c) => c = b
       /\ \A c \in DOMAIN block : block[c].free /\ Want <= block[c].size =>
                                     2 * half <= block[c].size
  BY <1>0, <1>1, <1>3, <1>4, <1>8 DEF CoalescedInv, SmallestInv, Fits
<1>11. \A c \in DOMAIN block : After(c) < heap_end => After(c) \in DOMAIN block
  BY <1>8 DEF BuddyInv, Tiled
<1>12. \A c \in DOMAIN block : block[c].free => block[c].size # half
  BY <1>2, <1>3, <1>4, <1>8, <1>10
<1>13. ~ Mergeable(right)'
  <2> SUFFICES ASSUME Mergeable(right)' PROVE FALSE
    OBVIOUS
  <2> DEFINE n == After(b)
  <2>1. n < heap_end /\ block'[n].free /\ block'[n].size = half
    BY <1>5, <1>9 DEF Mergeable, HasNext
  <2>2. n \in DOMAIN block /\ n # b /\ n # right
    BY <1>2, <1>4, <1>6, <1>11, <2>1
  <2> HIDE DEF n
  <2>3. block'[n] = block[n]
    BY <1>5, <2>2
  <2> QED
    BY <1>12, <2>1, <2>2, <2>3
<1>14. ASSUME NEW c \in DOMAIN block \ {b}, Mergeable(c)' PROVE FALSE
  <2> DEFINE n == After(c)
  <2>1. /\ block'[c] = block[c] /\ After(c)' = n
        /\ n < heap_end /\ block[c].free /\ block'[n].free
        /\ block[c].size = block'[n].size
    BY <1>5, <1>7, <1>9, <1>14 DEF Mergeable, HasNext
  <2>2. n \in DOMAIN block
    BY <1>11, <2>1
  <2> HIDE DEF n
  <2>3. CASE n = b
    BY <1>5, <1>12, <2>1, <2>3
  <2>4. CASE n # b
    <3>1. block'[n] = block[n]
      BY <1>5, <1>7, <2>2, <2>4
    <3>2. Mergeable(c)
      BY <2>1, <3>1 DEF Mergeable, HasNext, n
    <3> QED
      BY <1>10, <3>2
  <2> QED
    BY <2>3, <2>4
<1>15. \A c \in DOMAIN block' : Fits(c)' => half <= block'[c].size
  <2>1. Want' = Want
    BY <1>5 DEF Want
  <2> QED
    BY <1>3, <1>4, <1>5, <1>8, <1>10, <2>1 DEF Fits
<1>16. SmallestInv'
  BY <1>0, <1>5, <1>13, <1>14, <1>15 DEF SmallestInv
<1> QED
  BY <1>1, <1>5, <1>16 DEF CoalescedInv, RestInv, PassInv

\* Of the two halves one is handed out.
LEMMA AllocDoneCoalesced ==
    ASSUME BuddyInv, CoalescedInv, AllocDone
    PROVE  CoalescedInv'
<1>0. PICK g : g = Got
  OBVIOUS
<1>1. /\ call.op = "divide" /\ g \in DOMAIN block /\ call.at \in DOMAIN block
      /\ block' = [block EXCEPT ![g].free = FALSE] /\ UNCHANGED heap_end
      /\ call' = Idle
  BY <1>0 DEF AllocDone, Return, Doing, BuddyInv, CallInv
<1>2. /\ DOMAIN block' = DOMAIN block
      /\ \A c \in DOMAIN block : block'[c].size = block[c].size
      /\ \A c \in DOMAIN block \ {g} : block'[c] = block[c]
      /\ ~ block'[g].free
  BY <1>1 DEF BuddyInv, BuddyType
<1>3. \A c \in DOMAIN block : After(c)' = After(c)
  BY <1>2 DEF After
<1>4. \A c \in DOMAIN block : After(c) < heap_end => After(c) \in DOMAIN block
  BY DEF BuddyInv, Tiled, BuddyType
<1>5. ASSUME NEW c \in DOMAIN block, Mergeable(c)' PROVE FALSE
  <2> DEFINE n == After(c)
  <2>1. /\ n < heap_end /\ block'[c].free /\ block'[n].free
        /\ block'[c].size = block'[n].size
    BY <1>1, <1>3, <1>5 DEF Mergeable, HasNext
  <2>2. n \in DOMAIN block /\ c # g /\ n # g
    BY <1>2, <1>4, <2>1
  <2> HIDE DEF n
  <2>3. block'[c] = block[c] /\ block'[n] = block[n]
    BY <1>2, <2>2
  <2>4. Mergeable(c)
    BY <2>1, <2>3 DEF n, Mergeable, HasNext
  <2>5. c = call.at
    BY <1>1, <2>4 DEF CoalescedInv, SmallestInv
  <2> QED
    BY <1>0, <2>2, <2>5 DEF Got, n
<1> QED
  BY <1>1, <1>2, <1>5
     DEF CoalescedInv, RestInv, PassInv, SmallestInv, NoneMergeable, Idle, Call

LEMMA CoalesceCoalesced ==
    ASSUME BuddyInv, CoalescedInv,
           (\E b \in DOMAIN block : Coalesce(b)) \/ CoalesceEnd
              \/ \E b \in DOMAIN live : Dealloc(b)
    PROVE  CoalescedInv'
<1>1. ASSUME NEW b \in DOMAIN block, Coalesce(b) PROVE CoalescedInv'
  <2>1. /\ call' = Call("coalesce", call.layout, b, FALSE, TRUE, call.retried)
        /\ call.op = "coalesce" /\ Mergeable(b)
    BY <1>1 DEF Coalesce, Doing
  <2>2. ~ call.retried
    BY <2>1 DEF CoalescedInv, RestInv, NoneMergeable
  <2> QED
    BY <2>1, <2>2 DEF CoalescedInv, RestInv, PassInv, SmallestInv, Call
<1>2. CASE CoalesceEnd
  <2>1. /\ UNCHANGED <<block, heap_end>> /\ call.op = "coalesce"
        /\ \A c \in DOMAIN block : call.at <= c => ~ Mergeable(c)
        /\ call' = IF call.merged
                   THEN Call("coalesce", call.layout, 0, FALSE, FALSE, call.retried)
                   ELSE IF call.retried THEN Call("find", call.layout, 0, FALSE, FALSE, TRUE)
                   ELSE Idle
    BY <1>2 DEF CoalesceEnd, Doing, Again
  <2>2. CASE call.merged
    <3>1. ~ call.retried
      BY <2>1, <2>2 DEF CoalescedInv, PassInv
    <3> QED
      BY <2>1, <2>2, <3>1 DEF CoalescedInv, RestInv, PassInv, SmallestInv, Call
  <2>3. CASE ~ call.merged
    <3>1. call.at = 0
      BY <2>1, <2>3 DEF CoalescedInv, PassInv
    <3>2. NoneMergeable
      BY <2>1, <3>1 DEF NoneMergeable, BuddyInv, BuddyType
    <3>3. NoneMergeable'
      BY <2>1, <3>2, SameRow
    <3> QED
      BY <2>1, <2>3, <3>3 DEF CoalescedInv, RestInv, PassInv, SmallestInv, Call, Idle
  <2> QED
    BY <2>2, <2>3
<1>3. ASSUME NEW b \in DOMAIN live, Dealloc(b) PROVE CoalescedInv'
  BY <1>3 DEF Dealloc, CoalescedInv, RestInv, PassInv, SmallestInv, Call
<1> QED
  BY <1>1, <1>2, <1>3

\* The block that is added is in use.
LEMMA ExpandDoneCoalesced ==
    ASSUME BuddyInv, CoalescedInv, ExpandDone
    PROVE  CoalescedInv'
<1>0. PICK e, w : e = heap_end /\ w = Want
  OBVIOUS
<1>1. call.op = "expand" /\ NoneMergeable
  BY DEF ExpandDone, Expanding, Doing, CoalescedInv, RestInv
<1>2. e \notin DOMAIN block
  BY <1>0, ExpandDoneInv
<1>3. /\ DOMAIN block' = DOMAIN block \cup {e}
      /\ block'[e] = [free |-> FALSE, size |-> w]
      /\ \A c \in DOMAIN block : block'[c] = block[c]
      /\ call' = Idle
  BY <1>0, <1>2 DEF ExpandDone, AddFree, Return
<1>4. \A c \in DOMAIN block : /\ After(c)' = After(c)
                              /\ After(c) = e \/ (After(c) \in DOMAIN block /\ After(c) < e)
  BY <1>0, <1>3 DEF After, BuddyInv, Tiled, BuddyType
<1>5. ASSUME NEW c \in DOMAIN block', Mergeable(c)' PROVE FALSE
  <2>1. c # e /\ c \in DOMAIN block
    BY <1>3, <1>5 DEF Mergeable
  <2>2. After(c) # e
    BY <1>3, <1>4, <1>5, <2>1 DEF Mergeable
  <2>3. Mergeable(c)
    BY <1>0, <1>3, <1>4, <1>5, <2>1, <2>2 DEF Mergeable, HasNext
  <2> QED
    BY <1>1, <2>1, <2>3 DEF NoneMergeable
<1> QED
  BY <1>3, <1>5
     DEF CoalescedInv, RestInv, PassInv, SmallestInv, NoneMergeable, Idle, Call

LEMMA NextCoalesced ==
    ASSUME IInv, CoalescedInv, [Next]_vars
    PROVE  CoalescedInv'
<1>0. BuddyInv
  BY DEF IInv
<1>1. CASE UNCHANGED buddyVars
  <2>1. UNCHANGED <<block, heap_end, call>>
    BY <1>1 DEF buddyVars
  <2> QED
    BY <2>1, SameRow DEF CoalescedInv, RestInv, PassInv, SmallestInv, Fits, Want
<1>2. CASE \E n \in Layouts : AllocStart(n)
  <2>1. /\ call.op = "idle" /\ UNCHANGED <<block, heap_end>>
        /\ \E n \in Layouts : call' = Call("find", n, 0, FALSE, FALSE, FALSE)
    BY <1>2 DEF AllocStart, Doing
  <2> QED
    BY <2>1, SameRow DEF CoalescedInv, RestInv, PassInv, SmallestInv, Call
<1>3. CASE FindAlone \/ (\E b \in DOMAIN block : FindBest(b)) \/ FindNone
  BY <1>0, <1>3, FindCoalesced
<1>4. CASE ExpandSkip \/ ExpandMapped \/ ExpandFails \/ ExpandPanics
  <2>1. /\ call.op = "expand" /\ UNCHANGED <<block, heap_end>>
        /\ \/ call' = Call("expand", call.layout, call.at + 1, FALSE, FALSE, TRUE)
           \/ call' = Idle \/ call' = call
    BY <1>4 DEF ExpandSkip, ExpandMapped, ExpandFails, ExpandPanics, Expanding, Doing
  <2> QED
    BY <2>1, SameRow DEF CoalescedInv, RestInv, PassInv, SmallestInv, Call, Idle
<1>5. CASE (\E b \in DOMAIN block : Coalesce(b)) \/ CoalesceEnd
              \/ \E b \in DOMAIN live : Dealloc(b)
  BY <1>0, <1>5, CoalesceCoalesced
<1>6. BuddyCall \/ BuddyStep \/ UNCHANGED buddyVars
  BY DEF Next, vars, HeapStart, HeapStep, LargeHeapStart, LargeHeapStep, Spin, TableLost
<1>7. ExpandMap => UNCHANGED buddyVars
  BY DEF ExpandMap
<1> QED
  BY <1>0, <1>1, <1>2, <1>3, <1>4, <1>5, <1>6, <1>7, DivideCoalesced, AllocDoneCoalesced,
     ExpandDoneCoalesced DEF BuddyCall, BuddyStep

\* At rest no two free neighbours of the same size are left, and the pass that
\* allocmut makes before it looks again and expands the heap joins nothing:
\* for every heap, set of layouts and order of allocations and deallocations.
THEOREM NothingLeftToJoin == Spec => []Coalesced
<1>1. CoalescedInv => Coalesced
  BY DEF CoalescedInv, RestInv, PassInv, NoneMergeable, Coalesced
<1>2. IInv /\ CoalescedInv /\ [Next]_vars => CoalescedInv'
  BY NextCoalesced
<1> QED
  BY <1>1, <1>2, InitCoalesced, IInvHolds, PTL DEF Spec
=============================================================================
