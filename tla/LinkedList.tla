------------------------------ MODULE LinkedList ------------------------------
(***************************************************************************)
(* The doubly linked list with a cursor that holds the processes           *)
(* (kernel/src/utils/alloc.rs), at the level of its pointers.  A node is   *)
(* named by the value it holds; values are pushed in the order 0, 1, 2...  *)
(* as Scheduler::add_process pushes pids.  The nodes that have been        *)
(* allocated and not freed are the domain of next and prev.                *)
(***************************************************************************)
EXTENDS Integers, FiniteSets

CONSTANTS Nil,          \* None
          MaxPush       \* bound: values pushed before the model stops pushing

ASSUME NilAssumption == Nil \notin Nat
ASSUME MaxPushAssumption == MaxPush \in Nat

VARIABLES head, tail,   \* first and last node, or Nil
          cursor,       \* LinkedList::current
          next, prev,   \* the pointers of each node
          len,
          pushed        \* the next value to push

vars == <<head, tail, cursor, next, prev, len, pushed>>

Nodes == DOMAIN next

\* LinkedList::new
Init ==
    /\ head = Nil /\ tail = Nil /\ cursor = Nil
    /\ next = [n \in {} |-> Nil] /\ prev = [n \in {} |-> Nil]
    /\ len = 0
    /\ pushed = 0

\* The pointers f with a new node whose pointer is q.
WithNode(f, n, q) == [m \in DOMAIN f \cup {n} |-> IF m = n THEN q ELSE f[m]]

\* The pointers f without node n, the pointer of node m (if any) redirected to q.
Unlink(f, n, m, q) == [k \in DOMAIN f \ {n} |-> IF k = m THEN q ELSE f[k]]

\* Mutant: a push onto a list that is not empty does not link back.
PushNoBackLink ==
    LET node == pushed
    IN  /\ pushed < MaxPush
        /\ IF tail # Nil
           THEN /\ next' = WithNode([next EXCEPT ![tail] = node], node, Nil)
                /\ prev' = WithNode(prev, node, Nil)
                /\ UNCHANGED <<head, cursor>>
           ELSE /\ next' = WithNode(next, node, Nil)
                /\ prev' = WithNode(prev, node, Nil)
                /\ head' = node
                /\ cursor' = node
        /\ tail' = node
        /\ len' = len + 1
        /\ pushed' = pushed + 1

\* push, push_node
Push ==
    LET node == pushed
    IN  /\ pushed < MaxPush
        /\ IF tail # Nil
           THEN /\ next' = WithNode([next EXCEPT ![tail] = node], node, Nil)
                /\ prev' = WithNode(prev, node, tail)
                /\ UNCHANGED <<head, cursor>>
           ELSE /\ next' = WithNode(next, node, Nil)
                /\ prev' = WithNode(prev, node, Nil)
                /\ head' = node
                /\ cursor' = node
        /\ tail' = node
        /\ len' = len + 1
        /\ pushed' = pushed + 1

\* Mutant: the cursor moves on, past the removed node, as the head would.
RemoveCursorForward(node) ==
    LET after == next[node]
        before == prev[node]
    IN  /\ prev' = Unlink(prev, node, after, before)
        /\ next' = Unlink(next, node, before, after)
        /\ head' = IF head = node THEN after ELSE head
        /\ tail' = IF tail = node THEN before ELSE tail
        /\ cursor' = IF cursor = node THEN after ELSE cursor
        /\ len' = len - 1
        /\ UNCHANGED pushed

\* remove_where finds the node, remove_node unlinks and frees it.
Remove(node) ==
    LET after == next[node]
        before == prev[node]
    IN  /\ prev' = Unlink(prev, node, after, before)
        /\ next' = Unlink(next, node, before, after)
        /\ head' = IF head = node THEN after ELSE head
        /\ tail' = IF tail = node THEN before ELSE tail
        /\ cursor' = IF cursor = node THEN before ELSE cursor
        /\ len' = len - 1
        /\ UNCHANGED pushed

\* next_wrap, as LinkedListContinue::next calls it
NextWrap ==
    /\ cursor # Nil
    /\ cursor' = IF next[cursor] # Nil THEN next[cursor] ELSE head
    /\ UNCHANGED <<head, tail, next, prev, len, pushed>>

Next ==
    \/ Push
    \/ \E n \in Nodes : Remove(n)
    \/ NextWrap

Spec == Init /\ [][Next]_vars

(***************************************************************************)
(* clone_iter starts at the head and follows next; after the last node the *)
(* clone's cursor is None.  Walk[k] is where it stands after k calls, and  *)
(* what it has yielded so far is Walk[0] to Walk[k - 1].                   *)
(***************************************************************************)
IterNext(n) == IF n = Nil THEN Nil ELSE next[n]

Walk == LET w[k \in 0 .. MaxPush] == IF k = 0 THEN head ELSE IterNext(w[k - 1])
        IN  w

-----------------------------------------------------------------------------
\* The pointers are those of a list sorted by age: each node's neighbours are
\* the nearest nodes below and above it, head and tail the first and the last.
Linked ==
    /\ \A n \in Nodes :
         /\ next[n] # Nil => next[n] \in Nodes /\ n < next[n]
         /\ next[n] = Nil => n = tail
         /\ prev[n] # Nil => prev[n] \in Nodes /\ prev[n] < n
         /\ prev[n] = Nil => n = head
         /\ \A m \in Nodes : /\ n < m => next[n] # Nil /\ next[n] <= m
                             /\ m < n => prev[n] # Nil /\ m <= prev[n]
    /\ head = Nil <=> Nodes = {}
    /\ tail = Nil <=> Nodes = {}
    /\ Nodes # {} => head \in Nodes /\ tail \in Nodes
    /\ \A n \in Nodes : head <= n /\ n <= tail

\* No pointer that is followed dangles: the cursor is on a node, or the list
\* has no cursor, which happens only to the empty list or after its head was
\* removed from under the cursor.
TypeOK ==
    /\ Nodes \subseteq 0 .. pushed - 1 /\ DOMAIN prev = Nodes
    /\ next \in [Nodes -> Nodes \cup {Nil}] /\ prev \in [Nodes -> Nodes \cup {Nil}]
    /\ head \in Nodes \cup {Nil} /\ tail \in Nodes \cup {Nil}
    /\ cursor \in Nodes \cup {Nil}
    /\ pushed \in 0 .. MaxPush

\* len counts the nodes: inited() and the buffer of getpids depend on it.
LenCounts == len = Cardinality(Nodes)

\* clone_iter, which find and for_each use, yields every node once, oldest
\* first, and then ends.
IterVisitsAll ==
    /\ Nodes = {Walk[k] : k \in 0 .. len - 1}
    /\ \A k \in 1 .. len - 1 : Walk[k - 1] < Walk[k]
    /\ Walk[len] = Nil

\* The cursor is lost only when the head is removed from under it.
CursorLostOnlyAtHead ==
    [][cursor # Nil /\ cursor' = Nil => cursor = head]_vars

\* The pointers implement the ordered ring the scheduler expects.
Ring == INSTANCE OrderedRing WITH ring <- Nodes

RingSpec == Ring!Spec
=============================================================================
