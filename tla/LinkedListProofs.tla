--------------------------- MODULE LinkedListProofs ---------------------------
(***************************************************************************)
(* Proofs about LinkedList, for every number of pushes.  Because values    *)
(* are pushed in increasing order, that the pointers form a list can be    *)
(* said without following them: each node points to its nearest            *)
(* neighbours (Linked).  TypeOK /\ Linked is inductive, and with it every  *)
(* operation on pointers is the operation of OrderedRing.  What iterating  *)
(* yields follows by counting the older nodes of each (Rank).              *)
(***************************************************************************)
EXTENDS LinkedList, FiniteSetTheorems, WellFoundedInduction, NaturalsInduction,
        TLAPS

Inv == TypeOK /\ Linked

\* LinkedList::new
LEMMA InitInv == Init => Inv /\ LenCounts
<1> SUFFICES ASSUME Init PROVE Inv /\ LenCounts
  OBVIOUS
<1>1. Nodes = {}
  BY DEF Init, Nodes
<1>2. TypeOK /\ Linked
  BY <1>1, MaxPushAssumption DEF Init, TypeOK, Linked, Nodes
<1>3. LenCounts
  BY <1>1, FS_EmptySet DEF Init, LenCounts
<1> QED
  BY <1>2, <1>3 DEF Inv

\* push on an empty list
LEMMA PushEmptyInv ==
    ASSUME Inv, Push, tail = Nil
    PROVE  Inv' /\ Nodes' = {pushed} /\ cursor' = pushed /\ pushed' = pushed + 1
<1>1. /\ Nodes = {} /\ pushed \in Nat /\ pushed < MaxPush
      /\ DOMAIN prev = {}
  BY DEF Inv, TypeOK, Linked, Push
<1>2. /\ Nodes' = {pushed} /\ DOMAIN prev' = {pushed}
      /\ next' = [m \in {pushed} |-> Nil] /\ prev' = [m \in {pushed} |-> Nil]
      /\ head' = pushed /\ tail' = pushed /\ cursor' = pushed /\ pushed' = pushed + 1
  BY <1>1 DEF Push, WithNode, Nodes
<1>3. TypeOK'
  BY <1>1, <1>2, MaxPushAssumption DEF TypeOK, Nodes
<1>4. Linked'
  BY <1>1, <1>2, NilAssumption DEF Linked
<1> QED
  BY <1>2, <1>3, <1>4 DEF Inv

\* push on a list that is not empty
LEMMA PushTailInv ==
    ASSUME Inv, Push, tail # Nil
    PROVE  Inv' /\ Nodes' = Nodes \cup {pushed} /\ cursor' = cursor /\ pushed' = pushed + 1
<1>1. /\ Nodes # {} /\ pushed \in Nat /\ pushed < MaxPush
      /\ DOMAIN prev = Nodes /\ tail \in Nodes /\ head \in Nodes
      /\ Nodes \subseteq 0 .. pushed - 1 /\ pushed \notin Nodes
  BY DEF Inv, TypeOK, Linked, Push
<1>2. /\ Nodes' = Nodes \cup {pushed} /\ DOMAIN prev' = Nodes'
      /\ next'[pushed] = Nil /\ next'[tail] = pushed
      /\ \A m \in Nodes \ {tail} : next'[m] = next[m]
      /\ prev'[pushed] = tail
      /\ \A m \in Nodes : prev'[m] = prev[m]
      /\ head' = head /\ tail' = pushed /\ cursor' = cursor /\ pushed' = pushed + 1
  BY <1>1 DEF Push, WithNode, Nodes
<1>3. /\ next' = [m \in Nodes' |-> next'[m]] /\ prev' = [m \in Nodes' |-> prev'[m]]
  BY <1>1 DEF Push, WithNode, Nodes
<1>4. TypeOK'
  BY <1>1, <1>2, <1>3, MaxPushAssumption DEF Inv, TypeOK
<1>5. Linked'
  <2>1. \A m \in Nodes : m \in Nat /\ m < pushed /\ pushed # Nil /\ m # Nil
    BY <1>1, NilAssumption
  <2>2. ASSUME NEW n \in Nodes'
        PROVE  /\ next'[n] # Nil => next'[n] \in Nodes' /\ n < next'[n]
               /\ next'[n] = Nil => n = tail'
               /\ prev'[n] # Nil => prev'[n] \in Nodes' /\ prev'[n] < n
               /\ prev'[n] = Nil => n = head'
    BY <1>1, <1>2, <2>1, <2>2 DEF Inv, Linked
  <2>3. ASSUME NEW n \in Nodes', NEW m \in Nodes'
        PROVE  /\ n < m => next'[n] # Nil /\ next'[n] <= m
               /\ m < n => prev'[n] # Nil /\ m <= prev'[n]
    <3>1. CASE n = pushed
      BY <1>1, <1>2, <2>1, <2>3, <3>1 DEF Inv, Linked
    <3>2. CASE n \in Nodes /\ m = pushed
      <4>1. next'[n] = pushed \/ next'[n] \in Nodes
        BY <1>1, <1>2, <2>1, <3>2 DEF Inv, Linked
      <4>2. ~(m < n)
        BY <1>1, <2>1, <3>2
      <4>3. \A q \in Nodes \cup {pushed} : q # Nil /\ q <= pushed
        BY <1>1, <2>1
      <4> QED
        BY <3>2, <4>1, <4>2, <4>3
    <3>3. CASE n \in Nodes /\ m \in Nodes
      <4>1. n = tail => ~(n < m)
        BY <2>1, <3>3 DEF Inv, Linked
      <4>2. /\ n < m => next[n] # Nil /\ next[n] <= m
            /\ m < n => prev[n] # Nil /\ m <= prev[n]
        BY <3>3 DEF Inv, Linked
      <4> QED
        BY <1>2, <3>3, <4>1, <4>2
    <3> QED
      BY <1>2, <2>3, <3>1, <3>2, <3>3
  <2>4. /\ head' = Nil <=> Nodes' = {}
        /\ tail' = Nil <=> Nodes' = {}
        /\ head' \in Nodes' /\ tail' \in Nodes'
        /\ \A n \in Nodes' : head' <= n /\ n <= tail'
    BY <1>1, <1>2, <2>1 DEF Inv, Linked
  <2> QED
    BY <2>2, <2>3, <2>4 DEF Linked
<1> QED
  BY <1>2, <1>4, <1>5 DEF Inv

\* remove_node
LEMMA RemoveInv ==
    ASSUME Inv, NEW n \in Nodes, Remove(n)
    PROVE  Inv' /\ Nodes' = Nodes \ {n} /\ pushed' = pushed
<1> DEFINE a == next[n]
           b == prev[n]
<1>1. /\ pushed \in Nat /\ DOMAIN prev = Nodes /\ Nodes \subseteq 0 .. pushed - 1
      /\ a \in Nodes \cup {Nil} /\ b \in Nodes \cup {Nil} /\ a # n /\ b # n
  BY NilAssumption DEF Inv, TypeOK, Linked
<1>2. /\ Nodes' = Nodes \ {n} /\ DOMAIN prev' = Nodes'
      /\ \A m \in Nodes' : /\ next'[m] = IF m = b THEN a ELSE next[m]
                           /\ prev'[m] = IF m = a THEN b ELSE prev[m]
      /\ next' = [m \in Nodes' |-> next'[m]] /\ prev' = [m \in Nodes' |-> prev'[m]]
      /\ head' = IF head = n THEN a ELSE head
      /\ tail' = IF tail = n THEN b ELSE tail
      /\ cursor' = IF cursor = n THEN b ELSE cursor
      /\ pushed' = pushed
  BY <1>1 DEF Remove, Unlink, Nodes
<1>3. \A m \in Nodes' : /\ next[m] = n <=> m = b
                        /\ prev[m] = n <=> m = a
  BY <1>1, <1>2, NilAssumption DEF Inv, TypeOK, Linked
<1>4. TypeOK'
  BY <1>1, <1>2, <1>3, NilAssumption, SMTT(60) DEF Inv, TypeOK, Linked
<1>5. Linked'
  <2>1. \A m \in Nodes : m \in Nat /\ m # Nil
    BY <1>1, NilAssumption
  <2>2. ASSUME NEW k \in Nodes'
        PROVE  /\ next'[k] # Nil => next'[k] \in Nodes' /\ k < next'[k]
               /\ next'[k] = Nil => k = tail'
    BY <1>1, <1>2, <1>3, <2>1, <2>2 DEF Inv, Linked
  <2>3. ASSUME NEW k \in Nodes'
        PROVE  /\ prev'[k] # Nil => prev'[k] \in Nodes' /\ prev'[k] < k
               /\ prev'[k] = Nil => k = head'
    BY <1>1, <1>2, <1>3, <2>1, <2>3 DEF Inv, Linked
  <2>4. ASSUME NEW k \in Nodes', NEW m \in Nodes', k < m
        PROVE  next'[k] # Nil /\ next'[k] <= m
    <3>1. next[k] # Nil /\ next[k] <= m /\ next[k] \in Nodes
      BY <1>2, <2>4 DEF Inv, Linked
    <3>2. CASE k # b
      BY <1>2, <3>1, <3>2
    <3>3. CASE k = b
      <4>1. k < n /\ next[k] = n
        BY <1>2, <1>3, <2>1, <3>3 DEF Inv, Linked
      <4>2. n < m
        BY <1>1, <1>2, <2>1, <2>4, <3>1, <4>1
      <4>3. a # Nil /\ a <= m
        BY <1>2, <4>2 DEF Inv, Linked
      <4> QED
        BY <1>2, <3>3, <4>3
    <3> QED
      BY <3>2, <3>3
  <2>5. ASSUME NEW k \in Nodes', NEW m \in Nodes', m < k
        PROVE  prev'[k] # Nil /\ m <= prev'[k]
    <3>1. prev[k] # Nil /\ m <= prev[k] /\ prev[k] \in Nodes
      BY <1>2, <2>5 DEF Inv, Linked
    <3>2. CASE k # a
      BY <1>2, <3>1, <3>2
    <3>3. CASE k = a
      <4>1. n < k /\ prev[k] = n
        BY <1>2, <1>3, <2>1, <3>3 DEF Inv, Linked
      <4>2. m < n
        BY <1>1, <1>2, <2>1, <2>5, <3>1, <4>1
      <4>3. b # Nil /\ m <= b
        BY <1>2, <4>2 DEF Inv, Linked
      <4> QED
        BY <1>2, <3>3, <4>3
    <3> QED
      BY <3>2, <3>3
  <2>6. /\ head' = Nil <=> Nodes' = {}
        /\ Nodes' # {} => head' \in Nodes'
        /\ \A k \in Nodes' : head' <= k
    BY <1>1, <1>2, <1>3, <2>1 DEF Inv, Linked
  <2>7. /\ tail' = Nil <=> Nodes' = {}
        /\ Nodes' # {} => tail' \in Nodes'
        /\ \A k \in Nodes' : k <= tail'
    BY <1>1, <1>2, <1>3, <2>1 DEF Inv, Linked
  <2> QED
    BY <2>2, <2>3, <2>4, <2>5, <2>6, <2>7 DEF Linked
<1> QED
  BY <1>2, <1>4, <1>5 DEF Inv

\* next_wrap
LEMMA NextWrapInv ==
    ASSUME Inv, NextWrap
    PROVE  Inv' /\ Nodes' = Nodes
BY NilAssumption DEF Inv, TypeOK, Linked, NextWrap, Nodes

\* Every operation keeps the pointers a list.
LEMMA NextInv == Inv /\ [Next]_vars => Inv'
<1>1. Inv /\ UNCHANGED vars => Inv'
  BY DEF vars, Inv, TypeOK, Linked, Nodes
<1> QED
  BY <1>1, PushEmptyInv, PushTailInv, RemoveInv, NextWrapInv DEF Next

\* The pointers form a list, sorted by age, in every reachable state.
THEOREM ListIsLinked == Spec => [](TypeOK /\ Linked)
<1>1. Init => Inv
  BY InitInv
<1> QED
  BY <1>1, NextInv, PTL DEF Spec, Inv

\* len is the number of nodes.
THEOREM LenIsCount == Spec => []LenCounts
<1>1. Init => LenCounts
  BY InitInv
<1>2. ASSUME Inv, LenCounts, [Next]_vars
      PROVE  LenCounts'
  <2>0. IsFiniteSet(Nodes)
    <3>1. IsFiniteSet(0 .. pushed - 1)
      BY <1>2, FS_Interval DEF Inv, TypeOK
    <3> QED
      BY <1>2, <3>1, FS_Subset DEF Inv, TypeOK
  <2>1. CASE Push
    <3>1. Nodes' = Nodes \cup {pushed} /\ pushed \notin Nodes /\ len' = len + 1
      BY <1>2, <2>1, PushEmptyInv, PushTailInv DEF Push, Inv, TypeOK, Linked
    <3> QED
      BY <1>2, <2>0, <3>1, FS_AddElement DEF LenCounts
  <2>2. CASE \E n \in Nodes : Remove(n)
    <3>1. PICK n \in Nodes : Nodes' = Nodes \ {n} /\ len' = len - 1
      BY <1>2, <2>2, RemoveInv DEF Remove
    <3> QED
      BY <1>2, <2>0, <3>1, FS_RemoveElement DEF LenCounts
  <2>3. CASE NextWrap \/ UNCHANGED vars
    BY <1>2, <2>3 DEF NextWrap, vars, LenCounts, Nodes
  <2> QED
    BY <1>2, <2>1, <2>2, <2>3 DEF Next
<1>3. Spec => []Inv
  BY ListIsLinked, PTL DEF Inv
<1> QED
  BY <1>1, <1>2, <1>3, PTL DEF Spec

\* The cursor is lost only when the head is removed from under it.
THEOREM CursorKept == Spec => CursorLostOnlyAtHead
<1>1. ASSUME Inv, [Next]_vars
      PROVE  [cursor # Nil /\ cursor' = Nil => cursor = head]_vars
  BY <1>1, NilAssumption
  DEF Next, Push, Remove, NextWrap, vars, Inv, TypeOK, Linked
<1> QED
  BY <1>1, ListIsLinked, PTL DEF Spec, Inv, CursorLostOnlyAtHead

\* Every step on the pointers is a step of the ordered ring.
LEMMA StepRefines ==
    ASSUME Inv, [Next]_vars
    PROVE  [Ring!Next]_<<Nodes, cursor, pushed>>
<1>1. CASE Push
  <2>1. /\ Nodes' = Nodes \cup {pushed} /\ pushed' = pushed + 1
        /\ cursor' = IF Nodes = {} THEN pushed ELSE cursor
    <3>1. CASE tail = Nil
      BY <1>1, <3>1, PushEmptyInv DEF Inv, Linked
    <3>2. CASE tail # Nil
      BY <1>1, <3>2, PushTailInv DEF Inv, Linked
    <3> QED
      BY <3>1, <3>2
  <2> QED
    BY <2>1 DEF Ring!Next, Ring!Push
<1>2. ASSUME NEW n \in Nodes, Remove(n)
      PROVE  Ring!Remove
  <2>1. Nodes' = Nodes \ {n} /\ pushed' = pushed
    BY <1>2, RemoveInv
  <2>2. cursor' = IF cursor = n THEN prev[n] ELSE cursor
    BY <1>2 DEF Remove
  <2>3. Ring!IsBefore(prev[n], n)
    BY <1>2, NilAssumption DEF Ring!IsBefore, Inv, TypeOK, Linked
  <2> QED
    BY <2>1, <2>2, <2>3 DEF Ring!Remove
<1>3. CASE NextWrap
  <2>1. cursor \in Nodes /\ Nodes' = Nodes /\ pushed' = pushed /\ cursor # Nil
    BY <1>3 DEF NextWrap, Inv, TypeOK, Nodes
  <2>2. Nodes \subseteq Nat
    BY DEF Inv, TypeOK
  <2>3. CASE next[cursor] # Nil
    BY <1>3, <2>1, <2>2, <2>3 DEF NextWrap, Ring!Next, Ring!Advance, Ring!IsAfter, Inv, Linked
  <2>4. CASE next[cursor] = Nil
    BY <1>3, <2>1, <2>2, <2>4 DEF NextWrap, Ring!Next, Ring!Advance, Ring!IsAfter, Inv, Linked
  <2> QED
    BY <2>3, <2>4
<1>4. CASE UNCHANGED vars
  BY <1>4 DEF vars, Nodes
<1> QED
  BY <1>1, <1>2, <1>3, <1>4 DEF Next, Ring!Next

\* The pointers implement the ordered ring.
THEOREM ListImplementsRing == Spec => RingSpec
<1>1. Init => Ring!Init
  BY DEF Init, Ring!Init, Nodes
<1>2. Spec => []Inv
  BY ListIsLinked, PTL DEF Inv
<1> QED
  BY <1>1, <1>2, StepRefines, PTL DEF Spec, RingSpec, Ring!Spec

-----------------------------------------------------------------------------
(* clone_iter: the k-th node it yields is the one with k older nodes *)

\* Every non-empty set of numbers has a least one.
LEMMA Least ==
    ASSUME NEW T, T \subseteq Nat, T # {}
    PROVE  \E x \in T : \A y \in T : ~ (y < x)
<1>1. IsWellFoundedOn(OpToRel(<, Nat), Nat)
  BY NatLessThanWellFounded
<1>2. \E x \in T : \A y \in T : ~ (<<y, x>> \in OpToRel(<, Nat))
  BY <1>1, WFMin
<1>3. \A x, y \in Nat : y < x => <<y, x>> \in OpToRel(<, Nat)
  BY DEF OpToRel
<1> QED
  BY <1>2, <1>3

Older(n) == {m \in Nodes : m < n}
Rank(n) == Cardinality(Older(n))

LEMMA NodesFinite ==
    ASSUME Inv, LenCounts
    PROVE  /\ IsFiniteSet(Nodes) /\ Nodes \subseteq Nat /\ Nil \notin Nodes
           /\ len \in Nat /\ len <= MaxPush
<1>1. pushed \in Nat /\ pushed <= MaxPush /\ Nodes \subseteq 0 .. pushed - 1
  BY MaxPushAssumption DEF Inv, TypeOK
<1>2. IsFiniteSet(0 .. pushed - 1) /\ Cardinality(0 .. pushed - 1) = pushed
  <2> DEFINE b == pushed - 1
  <2>1. b \in Int /\ 0 \in Int /\ (0 > b => pushed = 0) /\ b - 0 + 1 = pushed
    BY <1>1
  <2>2. IsFiniteSet(0 .. b) /\ Cardinality(0 .. b) = IF 0 > b THEN 0 ELSE b - 0 + 1
    <3> HIDE DEF b
    <3> QED
      BY <2>1, FS_Interval
  <2> QED
    BY <1>1, <2>1, <2>2
<1>3. IsFiniteSet(Nodes) /\ Cardinality(Nodes) <= pushed
  BY <1>1, <1>2, FS_Subset, ZenonT(60)
<1>4. Cardinality(Nodes) \in Nat
  BY <1>3, FS_CardinalityType
<1>5. Nodes \subseteq Nat
  BY <1>1
<1>6. len \in Nat /\ len <= pushed
  BY <1>3, <1>4 DEF LenCounts
<1>7. len <= MaxPush
  BY <1>1, <1>6, MaxPushAssumption
<1> QED
  BY <1>3, <1>5, <1>6, <1>7, NilAssumption

\* A rank is below len, and a node has one rank more than an older one.
LEMMA RankBounds ==
    ASSUME Inv, LenCounts, NEW n \in Nodes
    PROVE  /\ Rank(n) \in Nat /\ Rank(n) < len
           /\ \A m \in Nodes : m < n => Rank(m) < Rank(n)
<1>0. IsFiniteSet(Nodes) /\ Nodes \subseteq Nat
  BY NodesFinite
<1>1. \A m \in Nodes : IsFiniteSet(Older(m)) /\ Rank(m) \in Nat
  <2>1. \A m \in Nodes : Older(m) \in SUBSET Nodes
    BY DEF Older
  <2> QED
    BY <1>0, <2>1, FS_Subset, FS_CardinalityType DEF Rank
<1>2. \A m \in Nodes : /\ IsFiniteSet(Older(m) \cup {m})
                       /\ Cardinality(Older(m) \cup {m}) = Rank(m) + 1
  <2> TAKE m \in Nodes
  <2>1. m \notin Older(m)
    BY <1>0 DEF Older
  <2> QED
    BY <1>1, <2>1, FS_AddElement DEF Rank
<1>3. Rank(n) < len
  <2>1. Older(n) \cup {n} \in SUBSET Nodes
    BY DEF Older
  <2>2. Cardinality(Older(n) \cup {n}) <= Cardinality(Nodes)
    BY <1>0, <2>1, FS_Subset
  <2>3. Rank(n) + 1 <= len /\ Rank(n) \in Nat
    BY <1>1, <1>2, <2>2 DEF LenCounts
  <2>4. len \in Nat
    BY NodesFinite
  <2> QED
    BY <2>3, <2>4
<1>4. ASSUME NEW m \in Nodes, m < n
      PROVE  Rank(m) < Rank(n)
  <2>1. Older(m) \cup {m} \in SUBSET Older(n)
    <3>1. \A k \in Nodes : k < m \/ k = m => k < n
      BY <1>0, <1>4
    <3> QED
      BY <1>4, <3>1 DEF Older
  <2>2. Cardinality(Older(m) \cup {m}) <= Rank(n)
    BY <1>1, <2>1, FS_Subset DEF Rank
  <2> QED
    BY <1>1, <1>2, <2>2
<1> QED
  BY <1>1, <1>3, <1>4

LEMMA RankInjective ==
    ASSUME Inv, LenCounts, NEW m \in Nodes, NEW n \in Nodes, Rank(m) = Rank(n)
    PROVE  m = n
<1>1. m \in Nat /\ n \in Nat
  BY NodesFinite
<1>2. Rank(m) \in Nat /\ (m < n => Rank(m) < Rank(n)) /\ (n < m => Rank(n) < Rank(m))
  BY RankBounds
<1> QED
  BY <1>1, <1>2

\* The head has rank 0, the next node the next rank, and after the node of
\* the last rank there is none.
LEMMA RankOfNext ==
    ASSUME Inv, LenCounts
    PROVE  /\ Nodes # {} => head \in Nodes /\ Rank(head) = 0
           /\ \A n \in Nodes : /\ next[n] # Nil => next[n] \in Nodes /\ Rank(next[n]) = Rank(n) + 1
                               /\ next[n] = Nil => len = Rank(n) + 1
<1>0. IsFiniteSet(Nodes) /\ Nodes \subseteq Nat
  BY NodesFinite
<1>1. ASSUME Nodes # {} PROVE head \in Nodes /\ Rank(head) = 0
  <2>1. head \in Nodes /\ \A n \in Nodes : head <= n
    BY <1>1 DEF Inv, Linked
  <2>2. Older(head) = {}
    <3>1. \A n \in Nodes : ~ (n < head)
      BY <1>0, <2>1
    <3> QED
      BY <3>1 DEF Older
  <2> QED
    BY <2>1, <2>2, FS_EmptySet DEF Rank
<1>2. ASSUME NEW n \in Nodes
      PROVE  /\ next[n] # Nil => next[n] \in Nodes /\ Rank(next[n]) = Rank(n) + 1
             /\ next[n] = Nil => len = Rank(n) + 1
  <2>1. Older(n) \in SUBSET Nodes /\ n \notin Older(n)
    BY <1>0 DEF Older
  <2>2. Cardinality(Older(n) \cup {n}) = Rank(n) + 1
    BY <1>0, <2>1, FS_Subset, FS_AddElement DEF Rank
  <2>3. CASE next[n] # Nil
    <3>1. next[n] \in Nodes /\ n < next[n] /\ \A m \in Nodes : n < m => next[n] <= m
      BY <2>3 DEF Inv, Linked
    <3>2. Older(next[n]) = Older(n) \cup {n}
      <4> DEFINE q == next[n]
      <4>0. q \in Nat /\ n \in Nat /\ n < q
        BY <1>0, <3>1
      <4>1. ASSUME NEW m \in Nodes PROVE m < q <=> m < n \/ m = n
        <5>1. m \in Nat /\ (n < m => q <= m)
          BY <1>0, <3>1
        <5> QED
          BY <4>0, <5>1
      <4> HIDE DEF q
      <4>2. Older(q) = Older(n) \cup {n}
        BY <4>1 DEF Older
      <4> QED
        BY <4>2 DEF q
    <3> QED
      BY <2>2, <2>3, <3>1, <3>2 DEF Rank
  <2>4. CASE next[n] = Nil
    <3>1. \A m \in Nodes : m < n \/ m = n
      BY <1>0, <2>4 DEF Inv, Linked
    <3>2. Nodes = Older(n) \cup {n}
      BY <3>1 DEF Older
    <3> QED
      BY <2>2, <2>4, <3>2 DEF LenCounts
  <2> QED
    BY <2>3, <2>4
<1> QED
  BY <1>1, <1>2

\* Every rank below len is some node's: from the least that is not.
LEMMA RankTaken ==
    ASSUME Inv, LenCounts
    PROVE  \A k \in 0 .. len - 1 : \E n \in Nodes : Rank(n) = k
<1>0. len \in Nat /\ IsFiniteSet(Nodes)
  BY NodesFinite
<1> DEFINE T == {k \in 0 .. len - 1 : ~ \E n \in Nodes : Rank(n) = k}
<1> SUFFICES ASSUME T # {} PROVE FALSE
  OBVIOUS
<1>1. T \subseteq Nat
  BY <1>0
<1>2. PICK x \in T : \A y \in T : ~ (y < x)
  <2> HIDE DEF T
  <2> QED
    BY <1>1, Least
<1>3. x \in 0 .. len - 1 /\ ~ \E n \in Nodes : Rank(n) = x
  OBVIOUS
<1>4. Nodes # {}
  BY <1>0, <1>3, FS_EmptySet DEF LenCounts
<1>5. x # 0
  BY <1>3, <1>4, RankOfNext
<1>6. x - 1 \in 0 .. len - 1 /\ x - 1 \notin T
  BY <1>0, <1>2, <1>3, <1>5
<1>7. PICK n \in Nodes : Rank(n) = x - 1
  BY <1>6
<1> QED
  BY <1>0, <1>3, <1>7, RankOfNext

NodeAt(k) == CHOOSE n \in Nodes : Rank(n) = k

\* Where clone_iter stands after k calls.
Place(k) == IF k < len THEN NodeAt(k) ELSE Nil

LEMMA PlaceStep ==
    ASSUME Inv, LenCounts
    PROVE  /\ \A k \in 0 .. len - 1 : Place(k) \in Nodes /\ Rank(Place(k)) = k
           /\ \A k \in 0 .. MaxPush : Place(k) = IF k = 0 THEN head ELSE IterNext(Place(k - 1))
<1>0. len \in Nat /\ len <= MaxPush /\ Nil \notin Nodes /\ IsFiniteSet(Nodes)
  BY NodesFinite
<1>1. ASSUME NEW k \in 0 .. len - 1
      PROVE  Place(k) \in Nodes /\ Rank(Place(k)) = k
  <2>1. \E n \in Nodes : Rank(n) = k
    BY RankTaken
  <2>2. NodeAt(k) \in Nodes /\ Rank(NodeAt(k)) = k
    BY <2>1 DEF NodeAt
  <2> QED
    BY <1>0, <2>2 DEF Place
<1>2. Place(0) = head
  <2>1. CASE Nodes = {}
    <3>1. len = 0
      BY <2>1, FS_EmptySet DEF LenCounts
    <3> QED
      BY <2>1, <3>1 DEF Place, Inv, Linked
  <2>2. CASE Nodes # {}
    <3>1. head \in Nodes /\ Rank(head) = 0
      BY <2>2, RankOfNext
    <3>2. 0 < len
      BY <3>1, RankBounds
    <3>3. Place(0) \in Nodes /\ Rank(Place(0)) = 0
      BY <1>0, <1>1, <3>2
    <3> QED
      BY <3>1, <3>3, RankInjective
  <2> QED
    BY <2>1, <2>2
<1>3. ASSUME NEW k \in 1 .. MaxPush
      PROVE  Place(k) = IterNext(Place(k - 1))
  <2>0. k - 1 \in Nat
    OBVIOUS
  <2>1. CASE k - 1 >= len
    <3>1. Place(k) = Nil /\ Place(k - 1) = Nil
      BY <1>0, <2>0, <2>1 DEF Place
    <3> QED
      BY <3>1 DEF IterNext
  <2>2. CASE k - 1 < len
    <3> DEFINE n == Place(k - 1)
    <3>1. n \in Nodes /\ Rank(n) = k - 1
      BY <1>0, <1>1, <2>0, <2>2
    <3> HIDE DEF n
    <3>2. IterNext(n) = next[n]
      BY <1>0, <3>1 DEF IterNext
    <3>3. CASE next[n] = Nil
      <4>1. len = k
        BY <3>1, <3>3, RankOfNext
      <4> QED
        BY <3>2, <3>3, <4>1 DEF Place, n
    <3>4. CASE next[n] # Nil
      <4>1. next[n] \in Nodes /\ Rank(next[n]) = k
        BY <3>1, <3>4, RankOfNext
      <4>2. k < len
        BY <4>1, RankBounds
      <4>3. Place(k) \in Nodes /\ Rank(Place(k)) = k
        BY <1>0, <1>1, <4>2
      <4> QED
        BY <3>2, <4>1, <4>3, RankInjective DEF n
    <3> QED
      BY <3>3, <3>4
  <2> QED
    BY <1>0, <2>0, <2>1, <2>2
<1> QED
  BY <1>1, <1>2, <1>3, MaxPushAssumption

\* Walk is what its definition says, because the places satisfy it.
LEMMA WalkStep ==
    ASSUME Inv, LenCounts
    PROVE  \A k \in 0 .. MaxPush : Walk[k] = IF k = 0 THEN head ELSE IterNext(Walk[k - 1])
<1> DEFINE f == [k \in 0 .. MaxPush |-> Place(k)]
<1>1. \A k \in 0 .. MaxPush : f[k] = IF k = 0 THEN head ELSE IterNext(f[k - 1])
  <2> TAKE k \in 0 .. MaxPush
  <2>1. k = 0 \/ k - 1 \in 0 .. MaxPush
    BY MaxPushAssumption
  <2> QED
    BY <2>1, PlaceStep
<1>2. f = [k \in 0 .. MaxPush |-> f[k]]
  OBVIOUS
<1> HIDE DEF f
<1>3. f = [k \in 0 .. MaxPush |-> IF k = 0 THEN head ELSE IterNext(f[k - 1])]
  BY <1>1, <1>2
<1>4. \E w : w = [k \in 0 .. MaxPush |-> IF k = 0 THEN head ELSE IterNext(w[k - 1])]
  BY <1>3
<1>5. Walk = [k \in 0 .. MaxPush |-> IF k = 0 THEN head ELSE IterNext(Walk[k - 1])]
  BY <1>4 DEF Walk
<1> QED
  BY <1>5

\* From the least call that would not be at its place.
LEMMA WalkAtPlace ==
    ASSUME Inv, LenCounts
    PROVE  \A k \in 0 .. MaxPush : Walk[k] = Place(k)
<1> DEFINE T == {k \in 0 .. MaxPush : Walk[k] # Place(k)}
<1> SUFFICES ASSUME T # {} PROVE FALSE
  OBVIOUS
<1>1. T \subseteq Nat
  BY MaxPushAssumption
<1>2. PICK x \in T : \A y \in T : ~ (y < x)
  <2> HIDE DEF T
  <2> QED
    BY <1>1, Least
<1>3. x \in 0 .. MaxPush /\ Walk[x] # Place(x)
  OBVIOUS
<1>4. x # 0
  BY <1>3, WalkStep, PlaceStep
<1>5. x - 1 \in 0 .. MaxPush /\ x - 1 \notin T
  BY <1>2, <1>3, <1>4, MaxPushAssumption
<1>6. Walk[x - 1] = Place(x - 1)
  BY <1>5
<1>7. Walk[x] = IterNext(Walk[x - 1]) /\ Place(x) = IterNext(Place(x - 1))
  BY <1>3, <1>4, WalkStep, PlaceStep
<1> QED
  BY <1>3, <1>6, <1>7

LEMMA IterOfList ==
    ASSUME Inv, LenCounts
    PROVE  IterVisitsAll
<1>0. len \in Nat /\ len <= MaxPush /\ Nodes \subseteq Nat
  BY NodesFinite
<1>1. \A k \in 0 .. len - 1 : Walk[k] \in Nodes /\ Rank(Walk[k]) = k
  BY <1>0, WalkAtPlace, PlaceStep, MaxPushAssumption
<1>2. Walk[len] = Nil
  <2>1. Walk[len] = Place(len)
    BY <1>0, WalkAtPlace, MaxPushAssumption
  <2> QED
    BY <1>0, <2>1 DEF Place
<1>3. Nodes = {Walk[k] : k \in 0 .. len - 1}
  <2>1. ASSUME NEW n \in Nodes PROVE \E k \in 0 .. len - 1 : n = Walk[k]
    <3>1. Rank(n) \in 0 .. len - 1
      BY <1>0, RankBounds
    <3>2. Walk[Rank(n)] \in Nodes /\ Rank(Walk[Rank(n)]) = Rank(n)
      BY <1>1, <3>1
    <3>3. n = Walk[Rank(n)]
      BY <3>2, RankInjective
    <3> QED
      BY <3>1, <3>3
  <2> QED
    BY <1>1, <2>1
<1>4. ASSUME NEW k \in 1 .. len - 1 PROVE Walk[k - 1] < Walk[k]
  <2> DEFINE m == Walk[k - 1]
             n == Walk[k]
  <2>1. m \in Nodes /\ n \in Nodes /\ Rank(m) = k - 1 /\ Rank(n) = k
    BY <1>0, <1>1
  <2> HIDE DEF m, n
  <2>2. n < m => Rank(n) < Rank(m)
    BY <2>1, RankBounds
  <2>3. m # n
    BY <2>1
  <2>4. m < n
    BY <1>0, <2>1, <2>2, <2>3
  <2> QED
    BY <2>4 DEF m, n
<1> QED
  BY <1>2, <1>3, <1>4 DEF IterVisitsAll

\* clone_iter, which find and for_each use, yields every node once, oldest
\* first, and then ends.
THEOREM IterIsComplete == Spec => []IterVisitsAll
<1>1. Spec => []Inv
  BY ListIsLinked, PTL DEF Inv
<1> QED
  BY <1>1, LenIsCount, IterOfList, PTL
=============================================================================
