---------------------------- MODULE RamFSProofs ----------------------------
(***************************************************************************)
(* RamFS, for any number of processes, files and descriptors, any paths    *)
(* and any lengths of reads and writes.                                    *)
(*                                                                         *)
(* The tree and its paths (RamFS).  A new inode gets the highest number    *)
(* and is entered in one directory, so that "made before" orders the tree; *)
(* it also bounds the chains of hard links and makes Final, which follows  *)
(* them, well defined (TreeInv).  What create promises of a path rests on  *)
(* the walk: the components of a path are those of its parent and a last   *)
(* one, creating something leaves every walk that had succeeded where it   *)
(* was, and so a current directory and a path once used keep their meaning *)
(* (PathInv).                                                              *)
(*                                                                         *)
(* Bytes and descriptors (RamFile).  That a sole writer finds what it      *)
(* wrote needs its position to be the length of what it wrote (SoleWriter),*)
(* which is what makes its next write an append.  That a reader has read   *)
(* the file from its start is inductive as it stands, because a write that *)
(* leaves the bytes read as they were cannot have cut the file before them.*)
(***************************************************************************)
EXTENDS RamFS, RamFile, FiniteSetTheorems, SequenceTheorems, NaturalsInduction,
        WellFoundedInduction, TLAPS

\* What a directory lists, and an inode.
Listings == UNION {[D -> Nat] : D \in SUBSET Component}
Inode == [name : Component, kind : {"Data", "Children", "HardLink"},
          children : Listings, link : Nat]

\* The inodes have the numbers below NextId, and a hard link was made after
\* the inode it holds.
Shape ==
    /\ NextId \in Nat \ {0} /\ Ids = 0 .. NextId - 1
    /\ inodes \in [Ids -> Inode]
    /\ \A i \in Ids : inodes[i].link \in Ids
    /\ \A i \in Ids : inodes[i].kind = "HardLink" => inodes[i].link < i

-----------------------------------------------------------------------------
(* The tree: induction over numbers *)

\* Every non-empty set of numbers has a least one.
LEMMA LeastNumber ==
    ASSUME NEW T, T \subseteq Nat, T # {}
    PROVE  \E x \in T : \A y \in T : ~ (y < x)
<1>1. IsWellFoundedOn(OpToRel(<, Nat), Nat)
  BY NatLessThanWellFounded
<1>2. \E x \in T : \A y \in T : ~ (<<y, x>> \in OpToRel(<, Nat))
  BY <1>1, WFMin
<1>3. \A x, y \in Nat : y < x => <<y, x>> \in OpToRel(<, Nat)
  BY DEF OpToRel
<1> QED
  BY <1>2, <1>3

\* A set with a number whenever it has all the smaller ones has all of them.
LEMMA UpTo ==
    ASSUME NEW n \in Int, NEW T,
           \A k \in 0 .. n : (\A j \in 0 .. k - 1 : j \in T) => k \in T
    PROVE  \A k \in 0 .. n : k \in T
<1>1. SUFFICES ASSUME NEW m \in 0 .. n, m \notin T
               PROVE  FALSE
  OBVIOUS
<1> DEFINE Bad == {k \in 0 .. n : k \notin T}
<1>2. Bad \subseteq Nat /\ Bad # {}
  BY <1>1
<1>3. PICK x \in Bad : \A y \in Bad : ~ (y < x)
  <2> HIDE DEF Bad
  <2> QED
    BY <1>2, LeastNumber
<1>4. x \in 0 .. n /\ x \notin T
  OBVIOUS
<1>5. \A j \in 0 .. x - 1 : j \in 0 .. n /\ j < x
  BY <1>4
<1>6. \A j \in 0 .. x - 1 : j \in T
  BY <1>3, <1>5
<1> QED
  BY <1>4, <1>6

\* A set of numbers up to n has a greatest one.
LEMMA MaxIs ==
    ASSUME NEW n \in Nat, NEW T, T \subseteq 0 .. n, T # {}
    PROVE  Max(T) \in T /\ \A x \in T : x <= Max(T)
<1> DEFINE R == {n - x : x \in T}
<1>1. R \subseteq Nat /\ R # {}
  <2>1. \A x \in T : n - x \in Nat
    OBVIOUS
  <2>2. R \subseteq Nat
    BY <2>1
  <2> QED
    BY <2>2
<1>2. PICK r \in R : \A y \in R : ~ (y < r)
  <2> HIDE DEF R
  <2> QED
    BY <1>1, LeastNumber
<1>3. PICK x \in T : r = n - x
  OBVIOUS
<1>4. \A y \in T : x >= y
  <2> TAKE y \in T
  <2>1. ~ (n - y < n - x)
    BY <1>2, <1>3
  <2> QED
    BY <2>1
<1>5. Max(T) \in T /\ \A y \in T : Max(T) >= y
  BY <1>4 DEF Max
<1> QED
  BY <1>5

-----------------------------------------------------------------------------
(* Hard links *)

\* The inode the operations of an inode end up at is that of its link.
FinalFact == Shape =>
    /\ \A i \in Ids : Final[i] = IF inodes[i].kind = "HardLink"
                                 THEN Final[inodes[i].link] ELSE i
    /\ \A i \in Ids : Final[i] \in 0 .. i /\ inodes[Final[i]].kind # "HardLink"

LEMMA FinalIs == FinalFact
<1> SUFFICES ASSUME Shape
             PROVE  /\ \A i \in Ids : Final[i] = IF inodes[i].kind = "HardLink"
                                                 THEN Final[inodes[i].link] ELSE i
                    /\ \A i \in Ids : Final[i] \in 0 .. i /\ inodes[Final[i]].kind # "HardLink"
  BY DEF FinalFact
<1> DEFINE n == NextId - 1
           Chases(g, k) == \A i \in 0 .. k : g[i] = IF inodes[i].kind = "HardLink"
                                                    THEN g[inodes[i].link] ELSE i
           T == {k \in 0 .. n : \E g : DOMAIN g = 0 .. k /\ g = [i \in 0 .. k |-> g[i]] /\ Chases(g, k)}
<1>1. n \in Nat /\ n \in Int /\ Ids = 0 .. n
  BY DEF Shape
<1>2. \A i \in 0 .. n : inodes[i].kind = "HardLink" => inodes[i].link \in 0 .. i - 1
  BY <1>1 DEF Shape
<1>3. \A k \in 0 .. n : (\A j \in 0 .. k - 1 : j \in T) => k \in T
  <2>0. SUFFICES ASSUME NEW k \in 0 .. n, \A j \in 0 .. k - 1 : j \in T
                 PROVE  k \in T
    OBVIOUS
  <2>1. CASE k = 0
    <3>1. DOMAIN [i \in 0 .. k |-> i] = 0 .. k
      OBVIOUS
    <3>2. Chases([i \in 0 .. k |-> i], k)
      BY <1>2, <2>1
    <3> QED
      BY <3>1, <3>2
  <2>2. CASE k # 0
    <3>1. k - 1 \in T
      BY <2>0, <2>2
    <3>2. PICK g : DOMAIN g = 0 .. k - 1 /\ Chases(g, k - 1)
      BY <3>1
    <3> DEFINE v == IF inodes[k].kind = "HardLink" THEN g[inodes[k].link] ELSE k
               h == [i \in 0 .. k |-> IF i = k THEN v ELSE g[i]]
    <3>3. \A i \in 0 .. k - 1 : h[i] = g[i]
      OBVIOUS
    <3>4. h[k] = v
      OBVIOUS
    <3>5. ASSUME NEW i \in 0 .. k
          PROVE  h[i] = IF inodes[i].kind = "HardLink" THEN h[inodes[i].link] ELSE i
      <4>1. inodes[i].kind = "HardLink" => inodes[i].link \in 0 .. i - 1 /\ inodes[i].link \in 0 .. k - 1
        <5>1. i \in 0 .. n /\ i \in Int /\ k \in Int /\ i <= k
          BY <1>1
        <5> QED
          BY <1>2, <5>1
      <4>2. CASE i = k
        BY <3>3, <3>4, <4>1, <4>2
      <4>3. CASE i # k
        BY <3>2, <3>3, <4>1, <4>3
      <4> QED
        BY <4>2, <4>3
    <3>6. DOMAIN h = 0 .. k /\ h = [i \in 0 .. k |-> h[i]]
      OBVIOUS
    <3> HIDE DEF h
    <3> QED
      BY <3>5, <3>6
  <2> QED
    BY <2>1, <2>2
<1>4. n \in T
  <2> HIDE DEF T
  <2>1. \A k \in 0 .. n : k \in T
    <3> HIDE DEF n
    <3> QED
      BY <1>1, <1>3, UpTo
  <2> QED
    BY <1>1, <2>1
<1>5. PICK g : /\ DOMAIN g = Ids /\ g = [i \in Ids |-> g[i]]
               /\ \A i \in Ids : g[i] = IF inodes[i].kind = "HardLink"
                                        THEN g[inodes[i].link] ELSE i
  BY <1>1, <1>4
<1>6. g = [i \in Ids |-> IF inodes[i].kind = "HardLink" THEN g[inodes[i].link] ELSE i]
  BY <1>5
<1>7. Final = [i \in Ids |-> IF inodes[i].kind = "HardLink" THEN Final[inodes[i].link] ELSE i]
  BY <1>6 DEF Final
<1>8. \A i \in Ids : Final[i] = IF inodes[i].kind = "HardLink" THEN Final[inodes[i].link] ELSE i
  BY <1>7
<1> DEFINE U == {i \in Ids : Final[i] \in 0 .. i /\ inodes[Final[i]].kind # "HardLink"}
<1>9. \A i \in 0 .. n : i \in U
  <2>1. \A k \in 0 .. n : (\A j \in 0 .. k - 1 : j \in U) => k \in U
    <3>0. SUFFICES ASSUME NEW k \in 0 .. n, \A j \in 0 .. k - 1 : j \in U
                   PROVE  k \in U
      OBVIOUS
    <3>1. k \in Ids
      BY <1>1
    <3>2. CASE inodes[k].kind = "HardLink"
      <4>1. inodes[k].link \in 0 .. k - 1 /\ inodes[k].link \in U
        BY <1>2, <3>0, <3>2
      <4>2. Final[k] = Final[inodes[k].link]
        BY <1>8, <3>1, <3>2
      <4> QED
        BY <3>1, <4>1, <4>2
    <3>3. CASE inodes[k].kind # "HardLink"
      BY <1>8, <3>1, <3>3
    <3> QED
      BY <3>2, <3>3
  <2> HIDE DEF U, n
  <2> QED
    BY <1>1, <2>1, UpTo
<1> QED
  BY <1>1, <1>8, <1>9

-----------------------------------------------------------------------------
(* The parts of a path *)

LEMMA ComponentSub ==
    ASSUME NEW s \in Component, NEW m \in 1 .. Len(s) + 1, NEW n \in 0 .. Len(s)
    PROVE  /\ SubSeq(s, m, n) \in Component
           /\ Len(SubSeq(s, m, n)) = IF m <= n THEN n - m + 1 ELSE 0
           /\ \A i \in 1 .. n - m + 1 : SubSeq(s, m, n)[i] = s[m + i - 1]
BY DEF Component

LEMMA TrimmedIs ==
    ASSUME NEW s \in Component
    PROVE  \E m \in 0 .. Len(s) :
             /\ Trimmed(s) = SubSeq(s, 1, m)
             /\ \A i \in m + 1 .. Len(s) : s[i] = Slash
             /\ m # 0 => s[m] # Slash
<1> DEFINE kept == {i \in DOMAIN s : s[i] # Slash}
           T == kept \cup {0}
           m == Max(T)
<1>1. Len(s) \in Nat /\ DOMAIN s = 1 .. Len(s)
  BY DEF Component
<1>2. T \subseteq 0 .. Len(s) /\ T # {}
  BY <1>1
<1>3. m \in T /\ \A x \in T : x <= m
  <2> HIDE DEF T
  <2> QED
    BY <1>1, <1>2, MaxIs
<1>4. Trimmed(s) = SubSeq(s, 1, m)
  BY DEF Trimmed
<1>5. m \in 0 .. Len(s) /\ (m # 0 => s[m] # Slash)
  BY <1>1, <1>3
<1>6. \A i \in m + 1 .. Len(s) : s[i] = Slash
  <2> SUFFICES ASSUME NEW i \in m + 1 .. Len(s), s[i] # Slash
               PROVE  FALSE
    OBVIOUS
  <2>1. i \in DOMAIN s
    BY <1>1, <1>5
  <2>2. i <= m
    BY <1>3, <2>1
  <2> QED
    BY <1>1, <1>5, <2>2
<1> QED
  BY <1>4, <1>5, <1>6

LEMMA LastSlashIs ==
    ASSUME NEW s \in Component
    PROVE  /\ LastSlash(s) \in 0 .. Len(s)
           /\ LastSlash(s) # 0 => s[LastSlash(s)] = Slash
           /\ \A i \in LastSlash(s) + 1 .. Len(s) : s[i] # Slash
<1> DEFINE T == {i \in DOMAIN s : s[i] = Slash} \cup {0}
           m == LastSlash(s)
<1>1. Len(s) \in Nat /\ DOMAIN s = 1 .. Len(s)
  BY DEF Component
<1>2. T \subseteq 0 .. Len(s) /\ T # {}
  BY <1>1
<1>3. m \in T /\ \A x \in T : x <= m
  <2>1. m = Max(T)
    BY DEF LastSlash
  <2> HIDE DEF T, m
  <2> QED
    BY <1>1, <1>2, <2>1, MaxIs
<1> HIDE DEF m
<1>4. m \in 0 .. Len(s) /\ (m # 0 => s[m] = Slash)
  BY <1>1, <1>3
<1>5. \A i \in m + 1 .. Len(s) : s[i] # Slash
  <2> SUFFICES ASSUME NEW i \in m + 1 .. Len(s), s[i] = Slash
               PROVE  FALSE
    OBVIOUS
  <2>1. i \in DOMAIN s
    BY <1>1, <1>4
  <2>2. i <= m
    BY <1>3, <2>1
  <2> QED
    BY <1>1, <1>4, <2>2
<1> QED
  BY <1>4, <1>5 DEF m

\* The parent and the name of a path are pieces of it.
LEMMA PartsType ==
    ASSUME NEW s \in Component
    PROVE  NameIn(s) \in Component /\ ParentText(s) \in Component /\ Trimmed(s) \in Component
<1> DEFINE t == Trimmed(s)
<1>0. Len(s) \in Nat
  BY DEF Component
<1>1. t \in Component
  <2>1. PICK m \in 0 .. Len(s) : t = SubSeq(s, 1, m)
    BY TrimmedIs
  <2> QED
    BY <1>0, <2>1, ComponentSub
<1> HIDE DEF t
<1>2. Len(t) \in Nat /\ LastSlash(t) \in 0 .. Len(t)
  BY <1>1, LastSlashIs DEF Component
<1>3. SubSeq(t, LastSlash(t) + 1, Len(t)) \in Component
  BY <1>1, <1>2, ComponentSub
<1>4. LastSlash(t) # 0 => SubSeq(t, 1, LastSlash(t) - 1) \in Component
  BY <1>1, <1>2, ComponentSub
<1>5. <<Slash>> \in Component
  BY DEF Component, Special, Slash
<1> QED
  BY <1>1, <1>3, <1>4, <1>5 DEF NameIn, ParentText, t

-----------------------------------------------------------------------------
(* What creating something does to the inodes *)

\* The directory f gets the entry name; no other inode changes.
Grows(f, name) ==
    /\ f \in Ids /\ inodes[f].kind = "Children"
    /\ name \in Component /\ name \notin DOMAIN inodes[f].children
    /\ \A j \in Ids :
         /\ j \in Ids'
         /\ inodes'[j].name = inodes[j].name
         /\ inodes'[j].kind = inodes[j].kind
         /\ inodes'[j].link = inodes[j].link
         /\ inodes'[j].children = IF j = f THEN With(inodes[j].children, name, NextId)
                                  ELSE inodes[j].children

LEMMA ListingsWith ==
    ASSUME NEW c \in Listings, NEW n \in Component, NEW v \in Nat
    PROVE  With(c, n, v) \in Listings
<1>1. PICK D \in SUBSET Component : c \in [D -> Nat]
  BY DEF Listings
<1>2. With(c, n, v) \in [D \cup {n} -> Nat]
  BY <1>1 DEF With
<1> QED
  BY <1>1, <1>2 DEF Listings

LEMMA ListingsEmpty == Empty \in Listings
<1>1. Empty \in [{} -> Nat]
  BY DEF Empty
<1> QED
  BY <1>1 DEF Listings

LEMMA NewInodes ==
    ASSUME NEW name \in Component, NEW i \in Nat
    PROVE  NewFile(name) \in Inode /\ NewDirWith(name, i) \in Inode /\ NewHardLink(<<"..">>, i) \in Inode
<1>1. Empty \in Listings
  BY ListingsEmpty
<1>2. <<"..">> \in Component
  BY DEF Component, Special
<1>3. With(Empty, <<"..">>, i) \in Listings
  BY <1>1, <1>2, ListingsWith
<1> QED
  BY <1>1, <1>2, <1>3 DEF NewFile, NewDirWith, NewDir, NewHardLink, Inode

LEMMA InsertedIs ==
    ASSUME Shape, NEW i \in Ids, IsDir(i), NEW name \in Component,
           name \notin DOMAIN Entries(i), NEW nodes, nodes = Inserted(i, name, NextId)
    PROVE  /\ Final[i] \in Ids /\ inodes[Final[i]].kind = "Children"
           /\ name \notin DOMAIN inodes[Final[i]].children
           /\ nodes \in [Ids -> Inode]
           /\ \A j \in Ids :
                /\ nodes[j].name = inodes[j].name
                /\ nodes[j].kind = inodes[j].kind
                /\ nodes[j].link = inodes[j].link
                /\ nodes[j].children = IF j = Final[i]
                                       THEN With(inodes[j].children, name, NextId)
                                       ELSE inodes[j].children
<1> DEFINE f == Final[i]
<1>1. f \in Ids
  <2>1. f \in 0 .. i
    BY FinalIs DEF FinalFact
  <2> QED
    BY <2>1 DEF Shape
<1> DEFINE new == With(inodes[f].children, name, NextId)
<1>2. new \in Listings
  <2>1. inodes[f].children \in Listings /\ NextId \in Nat
    BY <1>1 DEF Shape, Inode
  <2> QED
    BY <2>1, ListingsWith
<1>3. nodes = [inodes EXCEPT ![f].children = new]
  BY DEF Inserted
<1>4. inodes[f].kind = "Children" /\ name \notin DOMAIN inodes[f].children
  BY DEF IsDir, Entries
<1> HIDE DEF f, new
<1>5. nodes \in [Ids -> Inode]
  BY <1>1, <1>2, <1>3 DEF Shape, Inode
<1>6. \A j \in Ids :
                /\ nodes[j].name = inodes[j].name
                /\ nodes[j].kind = inodes[j].kind
                /\ nodes[j].link = inodes[j].link
                /\ nodes[j].children = IF j = f THEN new ELSE inodes[j].children
  <2> TAKE j \in Ids
  <2>1. inodes \in [Ids -> Inode] /\ inodes[j] \in Inode /\ inodes[f] \in Inode
    BY <1>1 DEF Shape
  <2>2. CASE j = f
    <3>1. nodes[j] = [inodes[f] EXCEPT !.children = new]
      BY <1>1, <1>3, <2>1, <2>2
    <3> QED
      BY <2>1, <2>2, <3>1 DEF Inode
  <2>3. CASE j # f
    BY <1>3, <2>1, <2>3
  <2> QED
    BY <2>2, <2>3
<1> QED
  BY <1>1, <1>4, <1>5, <1>6 DEF f, new

LEMMA NumbersBelow ==
    ASSUME NEW n \in Nat
    PROVE  IsFiniteSet(0 .. n - 1) /\ Cardinality(0 .. n - 1) = n
<1> DEFINE b == n - 1
<1>1. b \in Int /\ 0 \in Int /\ (0 > b => n = 0) /\ b - 0 + 1 = n
  OBVIOUS
<1>2. IsFiniteSet(0 .. b) /\ Cardinality(0 .. b) = IF 0 > b THEN 0 ELSE b - 0 + 1
  <2> HIDE DEF b
  <2> QED
    BY <1>1, FS_Interval
<1> QED
  BY <1>1, <1>2

\* One more inode, or two.
LEMMA WithNext ==
    ASSUME NEW n \in Nat, NEW nodes, DOMAIN nodes = 0 .. n - 1, NEW v
    PROVE  /\ DOMAIN With(nodes, n, v) = 0 .. n
           /\ Cardinality(0 .. n) = n + 1
           /\ With(nodes, n, v)[n] = v
           /\ \A j \in 0 .. n - 1 : With(nodes, n, v)[j] = nodes[j]
<1>1. 0 .. n = 0 .. n - 1 \cup {n}
  OBVIOUS
<1>2. n + 1 \in Nat /\ (n + 1) - 1 = n
  OBVIOUS
<1>3. Cardinality(0 .. (n + 1) - 1) = n + 1
  BY <1>2, NumbersBelow
<1> QED
  BY <1>1, <1>2, <1>3 DEF With

LEMMA CreateGrows ==
    ASSUME Shape, NEW p, NEW path, FullPath(p, path) \in Component, Create(p, path)
    PROVE  /\ Shape'
           /\ NextId' = NextId + 1
           /\ inodes'[NextId] = NewFile(NameIn(FullPath(p, path)))
           /\ \E i \in ParentOf(FullPath(p, path)) : Grows(Final[i], NameIn(FullPath(p, path)))
<1> DEFINE full == FullPath(p, path)
           name == NameIn(full)
           N == NextId
<1>1. name \in Component
  BY PartsType
<1>2. PICK i \in ParentOf(full) :
             /\ name \notin DOMAIN Entries(i)
             /\ inodes' = With(Inserted(i, name, N), N, NewFile(name))
  BY DEF Create
<1> HIDE DEF full, name
<1>3. i \in Ids /\ IsDir(i)
  BY DEF ParentOf
<1> DEFINE nodes == Inserted(i, name, N)
<1>4. /\ Final[i] \in Ids /\ inodes[Final[i]].kind = "Children"
      /\ name \notin DOMAIN inodes[Final[i]].children
      /\ nodes \in [Ids -> Inode]
      /\ \A j \in Ids :
                /\ nodes[j].name = inodes[j].name
                /\ nodes[j].kind = inodes[j].kind
                /\ nodes[j].link = inodes[j].link
                /\ nodes[j].children = IF j = Final[i]
                                       THEN With(inodes[j].children, name, N)
                                       ELSE inodes[j].children
  BY <1>1, <1>2, <1>3, InsertedIs
<1> HIDE DEF nodes
<1>5. N \in Nat \ {0} /\ Ids = 0 .. N - 1
  BY DEF Shape
<1>6. DOMAIN nodes = 0 .. N - 1
  BY <1>4, <1>5
<1>7. /\ DOMAIN inodes' = 0 .. N
      /\ Cardinality(0 .. N) = N + 1
      /\ inodes'[N] = NewFile(name)
      /\ \A j \in 0 .. N - 1 : inodes'[j] = nodes[j]
  <2>1. inodes' = With(nodes, N, NewFile(name))
    BY <1>2 DEF nodes
  <2> HIDE DEF N
  <2> QED
    BY <2>1, <1>5, <1>6, WithNext
<1>8. Ids' = 0 .. N /\ NextId' = N + 1
  BY <1>7 DEF Ids, NextId
<1> HIDE DEF N
<1>9. Grows(Final[i], name)
  BY <1>1, <1>4, <1>5, <1>7, <1>8 DEF Grows, N
<1>10. Shape'
  <2>1. inodes' = [j \in Ids' |-> inodes'[j]]
    BY <1>2, <1>7, <1>8 DEF With
  <2>2. \A j \in Ids' : inodes'[j] \in Inode
    <3>1. NewFile(name) \in Inode
      BY <1>1, NewInodes
    <3>2. \A j \in 0 .. N - 1 : inodes'[j] \in Inode
      BY <1>4, <1>5, <1>7
    <3> QED
      BY <1>5, <1>7, <1>8, <3>1, <3>2
  <2>3. inodes' \in [Ids' -> Inode]
    BY <2>1, <2>2
  <2>4. \A j \in 0 .. N - 1 : inodes'[j].link \in 0 .. N - 1 /\ (inodes'[j].kind = "HardLink" => inodes'[j].link < j)
    BY <1>4, <1>5, <1>7 DEF Shape
  <2>5. NewFile(name).link = 0 /\ NewFile(name).kind # "HardLink"
    BY DEF NewFile
  <2>6. \A j \in 0 .. N : inodes'[j].link \in 0 .. N /\ (inodes'[j].kind = "HardLink" => inodes'[j].link < j)
    BY <1>5, <1>7, <2>4, <2>5
  <2>7. NextId' \in Nat \ {0} /\ Ids' = 0 .. NextId' - 1
    BY <1>5, <1>8
  <2> QED
    BY <1>8, <2>3, <2>6, <2>7 DEF Shape
<1> QED
  BY <1>7, <1>8, <1>9, <1>10 DEF full, name, N

LEMMA CreateDirGrows ==
    ASSUME Shape, NEW p, NEW path, FullPath(p, path) \in Component, CreateDir(p, path)
    PROVE  /\ Shape'
           /\ NextId' = NextId + 2
           /\ inodes'[NextId] = NewDirWith(NameIn(FullPath(p, path)), NextId + 1)
           /\ \E i \in ParentOf(FullPath(p, path)) :
                /\ Grows(Final[i], NameIn(FullPath(p, path)))
                /\ inodes'[NextId + 1] = NewHardLink(<<"..">>, i)
<1> DEFINE full == FullPath(p, path)
           name == NameIn(full)
           N == NextId
           M == NextId + 1
<1>1. name \in Component
  BY PartsType
<1>2. PICK i \in ParentOf(full) :
             /\ name \notin DOMAIN Entries(i)
             /\ inodes' = With(With(Inserted(i, name, N), N, NewDirWith(name, M)),
                               M, NewHardLink(<<"..">>, i))
  BY DEF CreateDir
<1> HIDE DEF full, name
<1>3. i \in Ids /\ IsDir(i)
  BY DEF ParentOf
<1> DEFINE nodes == Inserted(i, name, N)
<1>4. /\ Final[i] \in Ids /\ inodes[Final[i]].kind = "Children"
      /\ name \notin DOMAIN inodes[Final[i]].children
      /\ nodes \in [Ids -> Inode]
      /\ \A j \in Ids :
                /\ nodes[j].name = inodes[j].name
                /\ nodes[j].kind = inodes[j].kind
                /\ nodes[j].link = inodes[j].link
                /\ nodes[j].children = IF j = Final[i]
                                       THEN With(inodes[j].children, name, N)
                                       ELSE inodes[j].children
  BY <1>1, <1>2, <1>3, InsertedIs
<1> HIDE DEF nodes
<1>5. N \in Nat \ {0} /\ Ids = 0 .. N - 1 /\ M \in Nat /\ M - 1 = N /\ M = N + 1
  BY DEF Shape
<1>6. DOMAIN nodes = 0 .. N - 1
  BY <1>4, <1>5
<1> DEFINE more == With(nodes, N, NewDirWith(name, M))
<1>7. inodes' = With(more, M, NewHardLink(<<"..">>, i))
  BY <1>2 DEF nodes
<1> HIDE DEF N, M
<1>8. /\ DOMAIN more = 0 .. N
      /\ more[N] = NewDirWith(name, M)
      /\ \A j \in 0 .. N - 1 : more[j] = nodes[j]
  BY <1>5, <1>6, WithNext
<1> HIDE DEF more
<1>9. /\ DOMAIN inodes' = 0 .. M
      /\ Cardinality(0 .. M) = M + 1
      /\ inodes'[M] = NewHardLink(<<"..">>, i)
      /\ \A j \in 0 .. M - 1 : inodes'[j] = more[j]
  <2>1. DOMAIN more = 0 .. M - 1
    BY <1>5, <1>8
  <2> QED
    BY <2>1, <1>5, <1>7, WithNext
<1>10. /\ Ids' = 0 .. M /\ NextId' = M + 1
       /\ inodes'[N] = NewDirWith(name, M)
       /\ \A j \in 0 .. N - 1 : inodes'[j] = nodes[j]
  BY <1>5, <1>8, <1>9 DEF Ids, NextId
<1>11. Grows(Final[i], name)
  BY <1>1, <1>4, <1>5, <1>10 DEF Grows, N
<1>12. Shape'
  <2>0. i \in 0 .. N - 1
    BY <1>3, <1>5
  <2>1. inodes' = [j \in Ids' |-> inodes'[j]]
    BY <1>7, <1>9, <1>10 DEF With
  <2>2. \A j \in Ids' : inodes'[j] \in Inode
    <3>1. NewDirWith(name, M) \in Inode /\ NewHardLink(<<"..">>, i) \in Inode
      BY <1>1, <1>5, <2>0, NewInodes
    <3>2. \A j \in 0 .. N - 1 : inodes'[j] \in Inode
      BY <1>4, <1>5, <1>10
    <3> QED
      BY <1>5, <1>9, <1>10, <3>1, <3>2
  <2>3. inodes' \in [Ids' -> Inode]
    BY <2>1, <2>2
  <2>4. \A j \in 0 .. N - 1 : inodes'[j].link \in 0 .. N - 1 /\ (inodes'[j].kind = "HardLink" => inodes'[j].link < j)
    <3>1. \A j \in 0 .. N - 1 : inodes[j].link \in 0 .. N - 1 /\ (inodes[j].kind = "HardLink" => inodes[j].link < j)
      BY <1>5 DEF Shape
    <3>2. \A j \in 0 .. N - 1 : inodes'[j].link = inodes[j].link /\ inodes'[j].kind = inodes[j].kind
      BY <1>4, <1>5, <1>10
    <3> QED
      BY <3>1, <3>2
  <2>5. NewDirWith(name, M).link = 0 /\ NewDirWith(name, M).kind # "HardLink" /\ NewHardLink(<<"..">>, i).link = i
    BY DEF NewDirWith, NewDir, NewHardLink
  <2>6. \A j \in 0 .. M : inodes'[j].link \in 0 .. M /\ (inodes'[j].kind = "HardLink" => inodes'[j].link < j)
    <3>1. inodes'[N].link = 0 /\ inodes'[N].kind # "HardLink" /\ inodes'[M].link = i
      BY <1>9, <1>10, <2>5
    <3>2. 0 \in 0 .. M /\ i \in 0 .. M /\ i < M /\ \A x \in 0 .. N - 1 : x \in 0 .. M
      BY <1>5, <2>0
    <3>3. \A j \in 0 .. M : j \in 0 .. N - 1 \/ j = N \/ j = M
      BY <1>5
    <3> TAKE j \in 0 .. M
    <3>4. CASE j \in 0 .. N - 1
      BY <2>4, <3>2, <3>4
    <3>5. CASE j = N
      BY <3>1, <3>2, <3>5
    <3>6. CASE j = M
      BY <3>1, <3>2, <3>6
    <3> QED
      BY <3>3, <3>4, <3>5, <3>6
  <2>7. NextId' \in Nat \ {0} /\ Ids' = 0 .. NextId' - 1
    BY <1>5, <1>10
  <2> QED
    BY <1>10, <2>3, <2>6, <2>7 DEF Shape
<1> QED
  BY <1>5, <1>9, <1>10, <1>11, <1>12 DEF full, name, N, M

LEMMA FinalIsNext == FinalFact'
BY FinalIs, PTL

\* Creating something leaves what the inodes lead to as it was.
LEMMA FinalStays ==
    ASSUME Shape, Shape', NEW f, NEW name, Grows(f, name)
    PROVE  \A i \in Ids : Final'[i] = Final[i]
<1> DEFINE n == NextId - 1
           T == {i \in Ids : Final'[i] = Final[i]}
<1>1. n \in Int /\ Ids = 0 .. n
  BY DEF Shape
<1>2. \A i \in Ids : Final[i] = IF inodes[i].kind = "HardLink"
                                THEN Final[inodes[i].link] ELSE i
  BY FinalIs DEF FinalFact
<1>3. \A i \in Ids : Final'[i] = IF inodes[i].kind = "HardLink"
                                 THEN Final'[inodes[i].link] ELSE i
  BY FinalIsNext DEF FinalFact, Grows
<1>4. \A k \in 0 .. n : (\A j \in 0 .. k - 1 : j \in T) => k \in T
  <2>0. SUFFICES ASSUME NEW k \in 0 .. n, \A j \in 0 .. k - 1 : j \in T
                 PROVE  k \in T
    OBVIOUS
  <2>1. k \in Ids /\ inodes[k].link \in Ids
    BY <1>1 DEF Shape
  <2>2. inodes[k].kind = "HardLink" => inodes[k].link \in 0 .. k - 1
    BY <1>1, <2>1 DEF Shape
  <2>3. inodes[k].kind = "HardLink" => inodes[k].link \in T
    BY <2>0, <2>2
  <2> QED
    BY <1>2, <1>3, <2>1, <2>3
<1>5. \A k \in 0 .. n : k \in T
  <2> HIDE DEF T, n
  <2> QED
    BY <1>1, <1>4, UpTo
<1> QED
  BY <1>1, <1>5

-----------------------------------------------------------------------------
(* The tree *)

\* Entries exist, under their names.
Named ==
    \A i \in Ids : \A n \in DOMAIN inodes[i].children :
         /\ inodes[i].children[n] \in Ids
         /\ inodes[inodes[i].children[n]].name = n

\* Every inode but the root is an entry of one directory, made before it.
Parented ==
    /\ Listing(Root) = {}
    /\ \A c \in Ids \ {Root} : \E i \in 0 .. c - 1 :
         /\ Listing(c) = {i}
         /\ inodes[i].kind = "Children"

\* Every directory keeps its entries; f has one more.
LEMMA GrowsFacts ==
    ASSUME NEW f, NEW name, Grows(f, name)
    PROVE  /\ \A j \in Ids : \A n \in DOMAIN inodes[j].children :
                /\ n \in DOMAIN inodes'[j].children
                /\ inodes'[j].children[n] = inodes[j].children[n]
           /\ \A j \in Ids \ {f} : inodes'[j].children = inodes[j].children
           /\ DOMAIN inodes'[f].children = DOMAIN inodes[f].children \cup {name}
           /\ inodes'[f].children[name] = NextId
           /\ Range(inodes'[f].children) = Range(inodes[f].children) \cup {NextId}
<1>1. f \in Ids /\ name \notin DOMAIN inodes[f].children
  BY DEF Grows
<1>2. inodes'[f].children = With(inodes[f].children, name, NextId)
  BY <1>1 DEF Grows
<1>3. \A j \in Ids \ {f} : inodes'[j].children = inodes[j].children
  BY DEF Grows
<1>4. /\ DOMAIN inodes'[f].children = DOMAIN inodes[f].children \cup {name}
      /\ inodes'[f].children[name] = NextId
      /\ Range(inodes'[f].children) = Range(inodes[f].children) \cup {NextId}
      /\ \A n \in DOMAIN inodes[f].children : inodes'[f].children[n] = inodes[f].children[n]
  <2> PICK g, h, N : g = inodes[f].children /\ h = inodes'[f].children /\ N = NextId
    OBVIOUS
  <2>1. name \notin DOMAIN g /\ h = With(g, name, N)
    BY <1>1, <1>2
  <2>2. /\ DOMAIN h = DOMAIN g \cup {name} /\ h[name] = N
        /\ Range(h) = Range(g) \cup {N}
        /\ \A n \in DOMAIN g : h[n] = g[n]
    <3>1. /\ DOMAIN h = DOMAIN g \cup {name} /\ h[name] = N
          /\ \A n \in DOMAIN g : h[n] = g[n]
      BY <2>1 DEF With
    <3>2. \A x : x \in Range(h) <=> x \in Range(g) \cup {N}
      BY <3>1 DEF Range
    <3> QED
      BY <3>1, <3>2
  <2> QED
    BY <2>2
<1> QED
  BY <1>3, <1>4

LEMMA ListingGrows ==
    ASSUME Shape, Named, NEW f, NEW name, Grows(f, name), NEW N, N = NextId, N \in Ids',
           \A j \in Ids' : j \notin Ids => Range(inodes'[j].children) \cap 0 .. N = {}
    PROVE  /\ \A c \in Ids : Listing(c)' = Listing(c)
           /\ Listing(N)' = {f}
<1> DEFINE Was(j) == Range(inodes[j].children)
           Is(j) == Range(inodes'[j].children)
<1>1. N \in Nat \ {0} /\ Ids = 0 .. N - 1
  BY DEF Shape
<1>2. \A j \in Ids : Was(j) \subseteq Ids
  BY DEF Named, Range
<1>3. \A j \in Ids : j \in Ids' /\ Is(j) = IF j = f THEN Was(j) \cup {N} ELSE Was(j)
  <2>1. /\ \A j \in Ids \ {f} : inodes'[j].children = inodes[j].children
        /\ Is(f) = Was(f) \cup {N}
    BY GrowsFacts
  <2>2. \A j \in Ids : j \in Ids'
    BY DEF Grows
  <2> QED
    BY <2>1, <2>2
<1>4. f \in Ids
  BY DEF Grows
<1>5. \A c \in 0 .. N : \A j \in Ids' : j \notin Ids => c \notin Is(j)
  OBVIOUS
<1>6. \A c : Listing(c) = {j \in Ids : c \in Was(j)}
  BY DEF Listing
<1>7. Listing(N)' = {j \in Ids' : N \in Is(j)}
  BY DEF Listing
<1>8. ASSUME NEW c \in Ids PROVE Listing(c)' = Listing(c)
  <2>1. Listing(c)' = {j \in Ids' : c \in Is(j)}
    BY DEF Listing
  <2>2. c \in 0 .. N /\ c # N
    BY <1>1
  <2> HIDE DEF Was, Is
  <2>3. \A j : (j \in Ids' /\ c \in Is(j)) <=> (j \in Ids /\ c \in Was(j))
    BY <1>3, <1>5, <2>2
  <2> QED
    BY <1>6, <2>1, <2>3
<1>9. N \in 0 .. N /\ N \notin Ids
  BY <1>1
<1>10. \A j : (j \in Ids' /\ N \in Is(j)) <=> j = f
  <2> HIDE DEF Was, Is
  <2> QED
    BY <1>2, <1>3, <1>4, <1>5, <1>9
<1>11. Listing(N)' = {f}
  <2> HIDE DEF Is
  <2> QED
    BY <1>7, <1>10
<1> QED
  BY <1>8, <1>11

LEMMA NamedGrows ==
    ASSUME Shape, Named, NEW f, NEW name, Grows(f, name), NextId \in Ids',
           inodes'[NextId].name = name
    PROVE  \A i \in Ids : \A n \in DOMAIN inodes'[i].children :
             /\ inodes'[i].children[n] \in Ids'
             /\ inodes'[inodes'[i].children[n]].name = n
<1> SUFFICES ASSUME NEW i \in Ids, NEW n \in DOMAIN inodes'[i].children
             PROVE  /\ inodes'[i].children[n] \in Ids'
                    /\ inodes'[inodes'[i].children[n]].name = n
  OBVIOUS
<1>1. CASE n \in DOMAIN inodes[i].children
  <2>1. inodes'[i].children[n] = inodes[i].children[n]
    BY <1>1, GrowsFacts
  <2>2. inodes[i].children[n] \in Ids /\ inodes[inodes[i].children[n]].name = n
    BY <1>1 DEF Named
  <2> QED
    BY <2>1, <2>2 DEF Grows
<1>2. CASE n \notin DOMAIN inodes[i].children
  <2>1. i = f /\ n = name /\ inodes'[i].children[n] = NextId
    BY <1>2, GrowsFacts
  <2> QED
    BY <2>1
<1> QED
  BY <1>1, <1>2

LEMMA RootIs == Shape => Root \in Ids
BY DEF Shape, Root

LEMMA CreateTree ==
    ASSUME Shape, Named, Parented, DotDotIsParent, NEW p, NEW path,
           FullPath(p, path) \in Component, Create(p, path)
    PROVE  Named' /\ Parented' /\ DotDotIsParent'
<1> DEFINE name == NameIn(FullPath(p, path))
<1> PICK N : N = NextId
  OBVIOUS
<1>0. /\ Shape'
      /\ NextId' = NextId + 1
      /\ inodes'[N] = NewFile(name)
      /\ \E i \in ParentOf(FullPath(p, path)) : Grows(Final[i], name)
  BY CreateGrows
<1>1. PICK f : Grows(f, name)
  BY <1>0
<1> HIDE DEF name
<1>2. N \in Nat \ {0} /\ Ids = 0 .. N - 1 /\ Ids' = 0 .. N
  BY <1>0 DEF Shape
<1>3. /\ inodes'[N].name = name /\ inodes'[N].kind = "Data"
      /\ DOMAIN inodes'[N].children = {} /\ Range(inodes'[N].children) = {}
  BY <1>0 DEF NewFile, Empty, Range
<1>4. \A j \in Ids' : j \in Ids \/ j = N
  BY <1>2
<1>5. N \in Ids' /\ Root \in Ids /\ N # Root
  BY <1>2 DEF Root
<1>6. /\ \A c \in Ids : Listing(c)' = Listing(c)
      /\ Listing(N)' = {f}
  BY <1>1, <1>3, <1>4, <1>5, ListingGrows
<1>7. Named'
  <2>1. \A i \in Ids : \A n \in DOMAIN inodes'[i].children :
             /\ inodes'[i].children[n] \in Ids'
             /\ inodes'[inodes'[i].children[n]].name = n
    BY <1>1, <1>3, <1>5, NamedGrows
  <2> QED
    BY <1>3, <1>4, <2>1 DEF Named
<1>8. Parented'
  <2>1. Listing(Root)' = {}
    BY <1>5, <1>6 DEF Parented
  <2>2. ASSUME NEW c \in Ids' \ {Root}
        PROVE  \E i \in 0 .. c - 1 : Listing(c)' = {i} /\ inodes'[i].kind = "Children"
    <3>1. CASE c = N
      BY <1>1, <1>2, <1>6, <3>1 DEF Grows
    <3>2. CASE c # N
      <4>1. PICK i \in 0 .. c - 1 : Listing(c) = {i} /\ inodes[i].kind = "Children"
        BY <1>4, <3>2 DEF Parented
      <4>2. i \in Ids /\ c \in Ids
        BY <1>2, <1>4, <3>2
      <4> QED
        BY <1>1, <1>6, <4>1, <4>2 DEF Grows
    <3> QED
      BY <3>1, <3>2
  <2> QED
    BY <2>1, <2>2 DEF Parented, Root
<1>9. DotDotIsParent'
  <2>1. SUFFICES ASSUME NEW d \in Ids' \ {Root}, inodes'[d].kind = "Children"
                 PROVE  /\ <<"..">> \in DOMAIN inodes'[d].children
                        /\ Listing(d)' = {Final'[inodes'[d].children[<<"..">>]]}
    BY DEF DotDotIsParent, Root
  <2>2. d \in Ids \ {Root} /\ inodes[d].kind = "Children"
    BY <1>1, <1>3, <1>4, <2>1 DEF Grows
  <2>3. /\ <<"..">> \in DOMAIN inodes[d].children
        /\ Listing(d) = {Final[inodes[d].children[<<"..">>]]}
    BY <2>2 DEF DotDotIsParent
  <2>4. /\ <<"..">> \in DOMAIN inodes'[d].children
        /\ inodes'[d].children[<<"..">>] = inodes[d].children[<<"..">>]
    BY <1>1, <2>2, <2>3, GrowsFacts
  <2>5. inodes[d].children[<<"..">>] \in Ids
    BY <2>2, <2>3 DEF Named
  <2>6. Final'[inodes[d].children[<<"..">>]] = Final[inodes[d].children[<<"..">>]]
    BY <1>0, <1>1, <2>5, FinalStays
  <2> QED
    BY <1>6, <2>2, <2>3, <2>4, <2>6
<1> QED
  BY <1>7, <1>8, <1>9

LEMMA CreateDirTree ==
    ASSUME Shape, Named, Parented, DotDotIsParent, NEW p, NEW path,
           FullPath(p, path) \in Component, CreateDir(p, path)
    PROVE  Named' /\ Parented' /\ DotDotIsParent'
<1> DEFINE name == NameIn(FullPath(p, path))
<1> PICK N, M : N = NextId /\ M = NextId + 1
  OBVIOUS
<1>0. /\ Shape'
      /\ NextId' = NextId + 2
      /\ inodes'[N] = NewDirWith(name, M)
      /\ \E i \in ParentOf(FullPath(p, path)) :
           Grows(Final[i], name) /\ inodes'[M] = NewHardLink(<<"..">>, i)
  BY CreateDirGrows
<1>1. PICK i \in Ids : Grows(Final[i], name) /\ inodes'[M] = NewHardLink(<<"..">>, i)
  BY <1>0 DEF ParentOf
<1> HIDE DEF name
<1>2. /\ N \in Nat \ {0} /\ Ids = 0 .. N - 1 /\ Ids' = 0 .. M
      /\ M \in Nat /\ M = N + 1 /\ NextId = N /\ Ids' = 0 .. N + 1
  BY <1>0 DEF Shape
<1> PICK f : f = Final[i]
  OBVIOUS
<1>3. /\ inodes'[N].name = name /\ inodes'[N].kind = "Children"
      /\ DOMAIN inodes'[N].children = {<<"..">>} /\ Range(inodes'[N].children) = {M}
      /\ inodes'[N].children[<<"..">>] = M
  BY <1>0 DEF NewDirWith, NewDir, Empty, Range, With
<1>4. /\ inodes'[M].name = <<"..">> /\ inodes'[M].kind = "HardLink" /\ inodes'[M].link = i
      /\ DOMAIN inodes'[M].children = {} /\ Range(inodes'[M].children) = {}
  BY <1>1 DEF NewHardLink, Empty, Range
<1>5. /\ \A j \in Ids' : j \in Ids \/ j = N \/ j = M
      /\ N \in Ids' /\ M \in Ids' /\ Root \in Ids /\ N # Root /\ N \notin Ids /\ M \notin Ids
      /\ M \notin 0 .. N
  BY <1>2 DEF Root
<1>6. /\ \A c \in Ids : Listing(c)' = Listing(c)
      /\ Listing(N)' = {f}
  <2>1. \A j \in Ids' : j \notin Ids => Range(inodes'[j].children) \cap 0 .. N = {}
    BY <1>3, <1>4, <1>5
  <2>2. Grows(f, name)
    BY <1>1
  <2> QED
    BY <1>2, <1>5, <2>1, <2>2, ListingGrows
<1>7. Named'
  <2>1. \A k \in Ids : \A n \in DOMAIN inodes'[k].children :
             /\ inodes'[k].children[n] \in Ids'
             /\ inodes'[inodes'[k].children[n]].name = n
    BY <1>1, <1>2, <1>3, <1>5, NamedGrows
  <2> QED
    BY <1>3, <1>4, <1>5, <2>1 DEF Named
<1>8. Parented'
  <2>0. \A k \in Ids : Range(inodes'[k].children) \subseteq Ids \cup {N}
    <3>1. \A k \in Ids : Range(inodes[k].children) \subseteq Ids
      BY DEF Named, Range
    <3> QED
      BY <1>1, <3>1, GrowsFacts
  <2>1. Listing(Root)' = {}
    BY <1>5, <1>6 DEF Parented
  <2>2. ASSUME NEW c \in Ids' \ {Root}
        PROVE  \E k \in 0 .. c - 1 : Listing(c)' = {k} /\ inodes'[k].kind = "Children"
    <3>1. CASE c = N
      BY <1>1, <1>2, <1>6, <3>1 DEF Grows
    <3>2. CASE c = M
      <4>1. Listing(c)' = {j \in Ids' : M \in Range(inodes'[j].children)}
        BY <3>2 DEF Listing
      <4>2. Listing(c)' = {N}
        BY <1>2, <1>3, <1>4, <1>5, <2>0, <4>1
      <4> QED
        BY <1>2, <1>3, <3>2, <4>2
    <3>3. CASE c # N /\ c # M
      <4>1. PICK k \in 0 .. c - 1 : Listing(c) = {k} /\ inodes[k].kind = "Children"
        BY <1>5, <3>3 DEF Parented
      <4>2. k \in Ids /\ c \in Ids
        BY <1>2, <1>5, <3>3
      <4> QED
        BY <1>1, <1>6, <4>1, <4>2 DEF Grows
    <3> QED
      BY <3>1, <3>2, <3>3
  <2> QED
    BY <2>1, <2>2 DEF Parented, Root
<1>9. DotDotIsParent'
  <2>1. SUFFICES ASSUME NEW d \in Ids' \ {Root}, inodes'[d].kind = "Children"
                 PROVE  /\ <<"..">> \in DOMAIN inodes'[d].children
                        /\ Listing(d)' = {Final'[inodes'[d].children[<<"..">>]]}
    BY DEF DotDotIsParent, Root
  <2>2. \A k \in Ids : Final'[k] = Final[k]
    BY <1>0, <1>1, FinalStays
  <2>3. CASE d \in Ids
    <3>2. d \in Ids \ {Root} /\ inodes[d].kind = "Children"
      BY <1>1, <2>1, <2>3 DEF Grows
    <3>3. /\ <<"..">> \in DOMAIN inodes[d].children
          /\ Listing(d) = {Final[inodes[d].children[<<"..">>]]}
      BY <3>2 DEF DotDotIsParent
    <3>4. /\ <<"..">> \in DOMAIN inodes'[d].children
          /\ inodes'[d].children[<<"..">>] = inodes[d].children[<<"..">>]
      BY <1>1, <3>2, <3>3, GrowsFacts
    <3>5. inodes[d].children[<<"..">>] \in Ids
      BY <3>2, <3>3 DEF Named
    <3> QED
      BY <1>6, <2>2, <3>2, <3>3, <3>4, <3>5
  <2>4. CASE d = N
    <3>1. Final'[M] = Final'[i]
      BY <1>0, <1>4, <1>5, FinalIsNext DEF FinalFact
    <3> QED
      BY <1>3, <1>6, <2>2, <2>4, <3>1
  <2> QED
    BY <1>4, <1>5, <2>1, <2>3, <2>4
<1> QED
  BY <1>7, <1>8, <1>9

-----------------------------------------------------------------------------
(* The invariant of the tree *)

\* Texts are sequences of tokens.
Texts ==
    /\ current_dir \in [Procs -> Component]
    /\ DOMAIN made \subseteq Ids
    /\ \A c \in DOMAIN made : made[c] \in Component

TreeInv ==
    /\ Shape /\ NextId <= MaxInodes /\ Texts
    /\ Named /\ Parented /\ DotDotIsParent

LEMMA FullPathType ==
    ASSUME Texts, NEW p \in Procs, NEW path \in Paths
    PROVE  FullPath(p, path) \in Component
<1>1. path \in Component /\ current_dir[p] \in Component
  BY PathsAssumption DEF Texts
<1>2. current_dir[p] \o path \in Component
  BY <1>1 DEF Component
<1> QED
  BY <1>1, <1>2 DEF FullPath

LEMMA EnsureSlashType ==
    ASSUME NEW s \in Component
    PROVE  EnsureSlash(s) \in Component
<1>1. Append(s, Slash) \in Component
  BY DEF Component, Special, Slash
<1> QED
  BY <1>1 DEF EnsureSlash

LEMMA RootDirType == <<Drive, Slash>> \in Component /\ NoDir \in Component /\ <<Drive, Slash>> # NoDir
BY DEF Component, Special, Slash, Drive, NoDir

LEMMA InitTree == Init => TreeInv
<1> SUFFICES ASSUME Init
             PROVE  TreeInv
  OBVIOUS
<1>1. inodes = [i \in {0} |-> NewDir(<<Slash>>)] /\ Ids = {0}
  BY DEF Init, Root, Ids
<1>2. 0 .. 1 - 1 = {0} /\ 1 \in Nat
  OBVIOUS
<1>3. NextId = 1
  <2>1. Cardinality(0 .. 1 - 1) = 1
    BY NumbersBelow
  <2> QED
    BY <1>1, <1>2, <2>1 DEF NextId
<1>4. NewDir(<<Slash>>) \in Inode
  <2>1. <<Slash>> \in Component
    BY DEF Component, Special, Slash
  <2> QED
    BY <2>1, ListingsEmpty DEF NewDir, Inode
<1>5. inodes[0].kind = "Children" /\ inodes[0].link = 0 /\ DOMAIN inodes[0].children = {}
  BY <1>1 DEF NewDir, Empty
<1>6. Shape
  BY <1>1, <1>2, <1>3, <1>4, <1>5 DEF Shape
<1>7. Texts
  BY RootDirType DEF Init, Texts, Empty
<1>8. Named /\ DotDotIsParent
  BY <1>1, <1>5 DEF Named, DotDotIsParent, Root
<1>9. Parented
  BY <1>1, <1>5 DEF Parented, Listing, Root, Range
<1> QED
  BY <1>3, <1>6, <1>7, <1>8, <1>9, BoundAssumption DEF TreeInv

\* A step that leaves the inodes alone leaves all about them as it is.
LEMMA TreeSame ==
    ASSUME UNCHANGED inodes
    PROVE  /\ Shape => Shape' /\ NextId' = NextId /\ Ids' = Ids
           /\ Named => Named'
           /\ Parented => Parented'
           /\ DotDotIsParent => DotDotIsParent'
<1>1. Ids' = Ids /\ NextId' = NextId /\ Final' = Final
  BY DEF Ids, NextId, Final
<1>2. \A c : Listing(c)' = Listing(c)
  BY <1>1 DEF Listing
<1>3. Shape => Shape'
  BY <1>1 DEF Shape
<1>4. Named => Named'
  BY <1>1 DEF Named
<1>5. Parented => Parented'
  BY <1>1, <1>2 DEF Parented, Root
<1>6. DotDotIsParent => DotDotIsParent'
  BY <1>1, <1>2 DEF DotDotIsParent, Root
<1> QED
  BY <1>1, <1>3, <1>4, <1>5, <1>6

LEMMA MadeGrows ==
    ASSUME Texts, NEW full \in Component, made' = With(made, NextId, full),
           UNCHANGED current_dir, \A i \in Ids : i \in Ids', NEW N, N = NextId, N \in Ids'
    PROVE  Texts'
<1>1. DOMAIN made' = DOMAIN made \cup {N} /\ made'[N] = full /\ \A c \in DOMAIN made : c # N => made'[c] = made[c]
  BY DEF With
<1>2. \A c \in DOMAIN made' : made'[c] \in Component
  BY <1>1 DEF Texts
<1>3. DOMAIN made' \subseteq Ids'
  BY <1>1 DEF Texts
<1> QED
  BY <1>2, <1>3 DEF Texts

LEMMA NextTree == TreeInv /\ [Next]_vars => TreeInv'
<1> SUFFICES ASSUME TreeInv, [Next]_vars
             PROVE  TreeInv'
  OBVIOUS
<1> USE DEF TreeInv
<1>1. ASSUME NEW p \in Alive, NEW path \in Paths, Create(p, path) PROVE TreeInv'
  <2>1. p \in Procs /\ FullPath(p, path) \in Component
    BY FullPathType DEF Alive
  <2>2. /\ Shape' /\ NextId' = NextId + 1
        /\ \E f : Grows(f, NameIn(FullPath(p, path)))
    BY <1>1, <2>1, CreateGrows
  <2>3. Named' /\ Parented' /\ DotDotIsParent'
    BY <1>1, <2>1, CreateTree
  <2>4. NextId' <= MaxInodes /\ NextId \in Ids'
    BY <1>1, <2>2, BoundAssumption DEF Create, Shape
  <2>5. \A i \in Ids : i \in Ids'
    BY <2>2 DEF Grows
  <2>6. made' = With(made, NextId, FullPath(p, path)) /\ UNCHANGED current_dir
    BY <1>1 DEF Create
  <2>7. Texts'
    BY <2>1, <2>4, <2>5, <2>6, MadeGrows
  <2> QED
    BY <2>2, <2>3, <2>4, <2>7
<1>2. ASSUME NEW p \in Alive, NEW path \in Paths, CreateDir(p, path) PROVE TreeInv'
  <2>1. p \in Procs /\ FullPath(p, path) \in Component
    BY FullPathType DEF Alive
  <2>2. /\ Shape' /\ NextId' = NextId + 2
        /\ \E f : Grows(f, NameIn(FullPath(p, path)))
    BY <1>2, <2>1, CreateDirGrows
  <2>3. Named' /\ Parented' /\ DotDotIsParent'
    BY <1>2, <2>1, CreateDirTree
  <2>4. NextId' <= MaxInodes /\ NextId \in Ids'
    BY <1>2, <2>2, BoundAssumption DEF CreateDir, Shape
  <2>5. \A i \in Ids : i \in Ids'
    BY <2>2 DEF Grows
  <2>6. made' = With(made, NextId, FullPath(p, path)) /\ UNCHANGED current_dir
    BY <1>2 DEF CreateDir
  <2>7. Texts'
    BY <2>1, <2>4, <2>5, <2>6, MadeGrows
  <2> QED
    BY <2>2, <2>3, <2>4, <2>7
<1>3. ASSUME UNCHANGED <<inodes, made>>, current_dir' \in [Procs -> Component] PROVE TreeInv'
  <2>1. Shape' /\ NextId' = NextId /\ Ids' = Ids /\ Named' /\ Parented' /\ DotDotIsParent'
    BY <1>3, TreeSame
  <2>2. Texts'
    BY <1>3, <2>1 DEF Texts
  <2> QED
    BY <2>1, <2>2
<1>4. ASSUME NEW p \in Alive, NEW path \in Paths, Chdir(p, path) PROVE TreeInv'
  <2>1. p \in Procs /\ EnsureSlash(FullPath(p, path)) \in Component
    BY FullPathType, EnsureSlashType DEF Alive
  <2>2. current_dir' \in [Procs -> Component]
    BY <1>4, <2>1 DEF Chdir, Texts
  <2> QED
    BY <1>3, <1>4, <2>2 DEF Chdir
<1>5. ASSUME NEW p \in Alive, NEW q \in Procs, Spawn(p, q) PROVE TreeInv'
  <2>1. current_dir' \in [Procs -> Component]
    BY <1>5, RootDirType DEF Spawn, Texts, Alive
  <2> QED
    BY <1>3, <1>5, <2>1 DEF Spawn
<1>6. CASE UNCHANGED vars
  BY <1>3, <1>6 DEF vars, Texts
<1> QED
  BY <1>1, <1>2, <1>4, <1>5, <1>6 DEF Next

LEMMA TreeInvariant == Spec => []TreeInv
BY InitTree, NextTree, PTL DEF Spec

\* However files and directories are created, by however many processes, the
\* inodes of RamFS stay a tree: get_inode finds every entry, under the name it
\* is listed by, and create, createdir and make_hardlink enter every inode but
\* the root in exactly one directory, made before it.
THEOREM TreeTheorem == Spec => []Tree
<1>1. TreeInv => Tree
  <2> SUFFICES ASSUME TreeInv PROVE Tree
    OBVIOUS
  <2>1. \A i \in Ids : inodes[i] \in Inode
    BY DEF TreeInv, Shape
  <2>2. \A c \in Listings : DOMAIN c \subseteq Component
    BY DEF Listings
  <2>3. TypeOK
    BY <2>1, <2>2 DEF TreeInv, Shape, Texts, TypeOK, Inode
  <2> QED
    BY <2>3 DEF TreeInv, Named, Parented, Tree
<1> QED
  BY <1>1, TreeInvariant, PTL

\* The hard link that createdir makes for ".." leads, through however many
\* other ones, to the directory that lists the new one.
THEOREM DotDotTheorem == Spec => []DotDotIsParent
<1>1. TreeInv => DotDotIsParent
  BY DEF TreeInv
<1> QED
  BY <1>1, TreeInvariant, PTL

-----------------------------------------------------------------------------
(* Splitting a path *)

\* The components after one more token.
CutAt(before, c) ==
    IF c \in Separators THEN Append(before, <<>>)
    ELSE [before EXCEPT ![Len(before)] = Append(@, c)]

LEMMA SplitIs ==
    ASSUME NEW s \in Component
    PROVE  \E g : /\ Split(s) = g[Len(s)]
                  /\ g[0] = << <<>> >>
                  /\ \A k \in 1 .. Len(s) : g[k] = CutAt(g[k - 1], s[k])
<1> DEFINE n == Len(s)
           Cuts(g, k) == \A i \in 0 .. k : g[i] = IF i = 0 THEN << <<>> >> ELSE CutAt(g[i - 1], s[i])
           T == {k \in 0 .. n : \E g : g = [i \in 0 .. k |-> g[i]] /\ Cuts(g, k)}
<1>1. n \in Nat /\ n \in Int
  BY DEF Component
<1>2. \A k \in 0 .. n : (\A j \in 0 .. k - 1 : j \in T) => k \in T
  <2>0. SUFFICES ASSUME NEW k \in 0 .. n, \A j \in 0 .. k - 1 : j \in T
                 PROVE  k \in T
    OBVIOUS
  <2>1. CASE k = 0
    <3> DEFINE g == [i \in 0 .. k |-> << <<>> >>]
    <3>1. g = [i \in 0 .. k |-> g[i]] /\ Cuts(g, k)
      BY <2>1
    <3> QED
      BY <3>1
  <2>2. CASE k # 0
    <3>1. k - 1 \in T
      BY <2>0, <2>2
    <3>2. PICK g : Cuts(g, k - 1)
      BY <3>1
    <3> DEFINE h == [i \in 0 .. k |-> IF i = k THEN CutAt(g[k - 1], s[k]) ELSE g[i]]
    <3>3. \A i \in 0 .. k - 1 : h[i] = g[i]
      OBVIOUS
    <3>4. h[k] = CutAt(g[k - 1], s[k])
      OBVIOUS
    <3>5. h = [i \in 0 .. k |-> h[i]]
      OBVIOUS
    <3> HIDE DEF h
    <3>6. ASSUME NEW i \in 0 .. k
          PROVE  h[i] = IF i = 0 THEN << <<>> >> ELSE CutAt(h[i - 1], s[i])
      <4>1. CASE i = k
        BY <2>2, <3>3, <3>4, <4>1
      <4>2. CASE i # k
        <5>1. i \in 0 .. k - 1 /\ (i # 0 => i - 1 \in 0 .. k - 1)
          BY <4>2
        <5> QED
          BY <3>2, <3>3, <5>1
      <4> QED
        BY <4>1, <4>2
    <3> QED
      BY <3>5, <3>6
  <2> QED
    BY <2>1, <2>2
<1>3. n \in T
  <2> HIDE DEF T, n
  <2>1. \A k \in 0 .. n : k \in T
    BY <1>1, <1>2, UpTo
  <2> QED
    BY <1>1, <2>1
<1>4. PICK g : g = [i \in 0 .. n |-> g[i]] /\ Cuts(g, n)
  BY <1>3
<1>5. g = [k \in 0 .. Len(s) |->
             IF k = 0 THEN << <<>> >>
             ELSE IF s[k] \in Separators THEN Append(g[k - 1], <<>>)
             ELSE [g[k - 1] EXCEPT ![Len(g[k - 1])] = Append(@, s[k])]]
  BY <1>4 DEF CutAt
<1> DEFINE c == CHOOSE cut : cut = [k \in 0 .. Len(s) |->
                   IF k = 0 THEN << <<>> >>
                   ELSE IF s[k] \in Separators THEN Append(cut[k - 1], <<>>)
                   ELSE [cut[k - 1] EXCEPT ![Len(cut[k - 1])] = Append(@, s[k])]]
<1>6. c = [k \in 0 .. Len(s) |->
             IF k = 0 THEN << <<>> >>
             ELSE IF s[k] \in Separators THEN Append(c[k - 1], <<>>)
             ELSE [c[k - 1] EXCEPT ![Len(c[k - 1])] = Append(@, s[k])]]
  BY <1>5
<1>7. Split(s) = c[Len(s)]
  BY DEF Split
<1> HIDE DEF c
<1>8. c[0] = << <<>> >>
  BY <1>1, <1>6
<1>9. \A k \in 1 .. Len(s) : c[k] = CutAt(c[k - 1], s[k])
  <2>1. c = [k \in 0 .. Len(s) |-> IF k = 0 THEN << <<>> >> ELSE CutAt(c[k - 1], s[k])]
    BY <1>6 DEF CutAt
  <2>2. \A k \in 1 .. Len(s) : k \in 0 .. Len(s) /\ k # 0
    BY <1>1
  <2> QED
    BY <2>1, <2>2
<1> QED
  BY <1>7, <1>8, <1>9

Token == Names \cup Special

LEMMA CutAtType ==
    ASSUME NEW b \in Seq(Component), b # <<>>, NEW c \in Token
    PROVE  CutAt(b, c) \in Seq(Component) /\ CutAt(b, c) # <<>>
<1>0. Len(b) \in Nat \ {0} /\ Component = Seq(Token) /\ <<>> \in Component
  BY DEF Component, Token
<1>1. CASE c \in Separators
  BY <1>0, <1>1 DEF CutAt
<1>2. CASE c \notin Separators
  <2>1. Append(b[Len(b)], c) \in Component
    BY <1>0
  <2> DEFINE x == Append(b[Len(b)], c)
             e == [b EXCEPT ![Len(b)] = x]
  <2>2. CutAt(b, c) = e
    BY <1>2 DEF CutAt
  <2> HIDE DEF x
  <2>3. e \in Seq(Component) /\ Len(e) = Len(b)
    BY <1>0, <2>1 DEF x
  <2> QED
    BY <1>0, <2>2, <2>3
<1> QED
  BY <1>1, <1>2

LEMMA SplitType ==
    ASSUME NEW s \in Component
    PROVE  Split(s) \in Seq(Component) /\ Split(s) # <<>>
<1> PICK g : /\ Split(s) = g[Len(s)]
             /\ g[0] = << <<>> >>
             /\ \A k \in 1 .. Len(s) : g[k] = CutAt(g[k - 1], s[k])
  BY SplitIs
<1> DEFINE n == Len(s)
           T == {k \in 0 .. n : g[k] \in Seq(Component) /\ g[k] # <<>>}
<1>1. n \in Nat /\ n \in Int /\ s \in Seq(Token) /\ \A k \in 1 .. n : s[k] \in Token
  BY DEF Component, Token
<1>2. << <<>> >> \in Seq(Component) /\ << <<>> >> # <<>>
  BY DEF Component
<1>3. \A k \in 0 .. n : (\A j \in 0 .. k - 1 : j \in T) => k \in T
  <2>0. SUFFICES ASSUME NEW k \in 0 .. n, \A j \in 0 .. k - 1 : j \in T
                 PROVE  k \in T
    OBVIOUS
  <2>1. CASE k = 0
    BY <1>2, <2>1
  <2>2. CASE k # 0
    <3>1. k - 1 \in T /\ k \in 1 .. n
      BY <2>0, <2>2
    <3>2. g[k - 1] \in Seq(Component) /\ g[k - 1] # <<>> /\ s[k] \in Token
      BY <1>1, <3>1
    <3>3. g[k] = CutAt(g[k - 1], s[k])
      BY <3>1
    <3> QED
      BY <3>2, <3>3, CutAtType
  <2> QED
    BY <2>1, <2>2
<1>4. \A k \in 0 .. n : k \in T
  <2> HIDE DEF T, n
  <2> QED
    BY <1>1, <1>3, UpTo
<1> QED
  BY <1>1, <1>4

\* One more token of the path.
LEMMA SplitAppend ==
    ASSUME NEW s \in Component, NEW c \in Token
    PROVE  Split(Append(s, c)) = CutAt(Split(s), c)
<1> PICK g : /\ Split(s) = g[Len(s)]
             /\ g[0] = << <<>> >>
             /\ \A k \in 1 .. Len(s) : g[k] = CutAt(g[k - 1], s[k])
  BY SplitIs
<1> DEFINE t == Append(s, c)
           n == Len(s)
<1>1. n \in Nat /\ n \in Int /\ t \in Component /\ Len(t) = n + 1 /\ t[n + 1] = c
      /\ \A k \in 1 .. n : t[k] = s[k]
  BY DEF Component, Token
<1> PICK h : /\ Split(t) = h[Len(t)]
             /\ h[0] = << <<>> >>
             /\ \A k \in 1 .. Len(t) : h[k] = CutAt(h[k - 1], t[k])
  BY <1>1, SplitIs
<1> DEFINE T == {k \in 0 .. n : g[k] = h[k]}
<1> HIDE DEF t
<1>3. \A k \in 0 .. n : (\A j \in 0 .. k - 1 : j \in T) => k \in T
  <2>0. SUFFICES ASSUME NEW k \in 0 .. n, \A j \in 0 .. k - 1 : j \in T
                 PROVE  k \in T
    OBVIOUS
  <2>1. CASE k = 0
    BY <2>1
  <2>2. CASE k # 0
    <3>1. k - 1 \in T /\ k \in 1 .. n /\ k \in 1 .. Len(t)
      BY <1>1, <2>0, <2>2
    <3>2. g[k - 1] = h[k - 1] /\ t[k] = s[k]
      BY <1>1, <3>1
    <3> QED
      BY <3>1, <3>2
  <2> QED
    BY <2>1, <2>2
<1>4. \A k \in 0 .. n : k \in T
  <2> HIDE DEF T, n
  <2> QED
    BY <1>1, <1>3, UpTo
<1>5. g[n] = h[n]
  BY <1>1, <1>4
<1>6. h[n + 1] = CutAt(h[n], c)
  <2>1. n + 1 \in 1 .. Len(t) /\ (n + 1) - 1 = n
    BY <1>1
  <2> QED
    BY <1>1, <2>1
<1> QED
  BY <1>1, <1>5, <1>6 DEF t

LEMMA SplitEmpty == Split(<<>>) = << <<>> >>
<1>1. <<>> \in Component /\ Len(<<>>) = 0
  BY DEF Component
<1> QED
  BY <1>1, SplitIs

\* A sequence of tokens that is not empty ends in one.
LEMMA ComponentEnds ==
    ASSUME NEW s \in Component, s # <<>>
    PROVE  \E r \in Component, c \in Token : s = Append(r, c) /\ c = Last(s) /\ Len(s) = Len(r) + 1
<1>1. s \in Seq(Token)
  BY DEF Component, Token
<1>2. PICK r \in Seq(Token), c \in Token : s = Append(r, c)
  BY <1>1, SequenceEmptyOrAppend
<1>3. Len(r) \in Nat /\ Len(s) = Len(r) + 1 /\ s[Len(r) + 1] = c
  BY <1>2
<1> QED
  BY <1>2, <1>3 DEF Component, Token, Last

LEMMA SeparatorsAre ==
    /\ Slash \in Separators /\ BackSlash \in Separators /\ Drive \notin Separators
    /\ Separators \subseteq Token /\ Drive \in Token
    /\ \A c \in Separators : c = Slash \/ c = BackSlash
    /\ \A n \in Names : n \notin Separators /\ n \in Token /\ n # Drive /\ n # "."
BY PathsAssumption DEF Separators, Slash, BackSlash, Drive, Token, Special

LEMMA ConcatAppend ==
    ASSUME NEW S, NEW a \in Seq(S), NEW q \in Seq(S), NEW c \in S
    PROVE  a \o Append(q, c) = Append(a \o q, c)
<1>1. Append(q, c) = q \o <<c>> /\ a \o q \in Seq(S) /\ <<c>> \in Seq(S)
  BY AppendIsConcat
<1>2. Append(a \o q, c) = (a \o q) \o <<c>>
  BY <1>1, AppendIsConcat
<1>3. a \o (q \o <<c>>) = (a \o q) \o <<c>>
  BY <1>1, ConcatAssociative
<1> QED
  BY <1>1, <1>2, <1>3

LEMMA CutLast ==
    ASSUME NEW S \in Seq(Component), NEW u \in Component, NEW c \in Token, c \notin Separators
    PROVE  CutAt(Append(S, u), c) = Append(S, Append(u, c))
<1> DEFINE b == Append(S, u)
           x == Append(u, c)
           n == Len(S) + 1
<1>0. x \in Component
  BY DEF Component, Token
<1>1. n \in Nat /\ b \in Seq(Component) /\ Len(b) = n /\ b[n] = u /\ \A i \in 1 .. Len(S) : b[i] = S[i]
  OBVIOUS
<1>2. CutAt(b, c) = [b EXCEPT ![n] = x]
  BY <1>1 DEF CutAt
<1> DEFINE e == [b EXCEPT ![n] = x]
           a == Append(S, x)
<1> HIDE DEF x, b
<1>3. e \in Seq(Component) /\ Len(e) = n /\ e[n] = x /\ \A i \in 1 .. Len(S) : e[i] = S[i]
  BY <1>0, <1>1
<1>4. a \in Seq(Component) /\ Len(a) = n /\ a[n] = x /\ \A i \in 1 .. Len(S) : a[i] = S[i]
  BY <1>0
<1>5. \A i \in 1 .. n : i = n \/ i \in 1 .. Len(S)
  OBVIOUS
<1>6. \A i \in 1 .. n : e[i] = a[i]
  <2> HIDE DEF e, a
  <2> QED
    BY <1>3, <1>4, <1>5
<1>7. e = a
  <2> HIDE DEF e, a, n
  <2> QED
    BY <1>3, <1>4, <1>6, SeqEqual
<1> QED
  BY <1>2, <1>7 DEF b, x

\* A name without a separator is added to the last component.
LEMMA SplitMore ==
    ASSUME NEW s \in Component, NEW S \in Seq(Component), NEW u \in Component,
           Split(s) = Append(S, u), NEW name \in Component,
           \A i \in 1 .. Len(name) : name[i] \notin Separators
    PROVE  Split(s \o name) = Append(S, u \o name)
<1> DEFINE n == Len(name)
           P(k) == SubSeq(name, 1, k)
           T == {k \in 0 .. n : Split(s \o P(k)) = Append(S, u \o P(k))}
<1>1. n \in Nat /\ n \in Int /\ name \in Seq(Token) /\ s \in Seq(Token) /\ u \in Seq(Token)
  BY DEF Component, Token
<1>2. \A k \in 0 .. n : (\A j \in 0 .. k - 1 : j \in T) => k \in T
  <2>0. SUFFICES ASSUME NEW k \in 0 .. n, \A j \in 0 .. k - 1 : j \in T
                 PROVE  k \in T
    OBVIOUS
  <2>1. CASE k = 0
    <3>1. P(k) = <<>>
      BY <1>1, <2>1
    <3>2. s \o <<>> = s /\ u \o <<>> = u
      BY <1>1
    <3> HIDE DEF P
    <3> QED
      BY <3>1, <3>2
  <2>2. CASE k # 0
    <3>1. k - 1 \in T /\ k \in 1 .. n /\ k - 1 \in 0 .. n
      BY <2>0, <2>2
    <3> DEFINE q == P(k - 1)
               c == name[k]
    <3>2. q \in Seq(Token) /\ c \in Token /\ c \notin Separators
      BY <1>1, <3>1
    <3>3. P(k) = Append(q, c)
      BY <1>1, <3>1, SubSeqRecursiveSecond
    <3>4. Split(s \o q) = Append(S, u \o q)
      BY <3>1
    <3> HIDE DEF P, q, c
    <3>5. s \o Append(q, c) = Append(s \o q, c) /\ u \o Append(q, c) = Append(u \o q, c)
      <4>1. \A a, b \in Seq(Token) : \A d \in Token : a \o Append(b, d) = Append(a \o b, d)
        BY ConcatAppend
      <4> QED
        BY <1>1, <3>2, <4>1
    <3>6. s \o q \in Component /\ u \o q \in Component
      BY <1>1, <3>2 DEF Component, Token
    <3>7. Split(Append(s \o q, c)) = CutAt(Append(S, u \o q), c)
      BY <3>2, <3>4, <3>6, SplitAppend
    <3>8. CutAt(Append(S, u \o q), c) = Append(S, Append(u \o q, c))
      BY <3>2, <3>6, CutLast
    <3> QED
      BY <3>1, <3>3, <3>5, <3>7, <3>8
  <2> QED
    BY <2>1, <2>2
<1>3. \A k \in 0 .. n : k \in T
  <2> HIDE DEF T, n
  <2> QED
    BY <1>1, <1>2, UpTo
<1>4. P(n) = name
  BY <1>1
<1>5. n \in T
  BY <1>1, <1>3
<1> QED
  BY <1>4, <1>5

\* Components that "/" separates.
LEMMA SplitSlash ==
    ASSUME NEW s \in Component
    PROVE  Split(Append(s, Slash)) = Append(Split(s), <<>>)
BY SplitAppend, SeparatorsAre DEF CutAt

LEMMA SplitSlashName ==
    ASSUME NEW s \in Component, NEW name \in Component,
           \A i \in 1 .. Len(name) : name[i] \notin Separators
    PROVE  Split(Append(s, Slash) \o name) = Append(Split(s), name)
<1>1. Split(Append(s, Slash)) = Append(Split(s), <<>>)
  BY SplitSlash
<1>2. Split(s) \in Seq(Component) /\ <<>> \in Component /\ Append(s, Slash) \in Component
  BY SplitType, SeparatorsAre DEF Component, Token
<1>3. <<>> \o name = name
  BY DEF Component
<1> DEFINE t == Append(s, Slash)
<1> HIDE DEF t
<1>4. Split(t \o name) = Append(Split(s), <<>> \o name)
  BY <1>1, <1>2, SplitMore DEF t
<1> QED
  BY <1>3, <1>4 DEF t

LEMMA SplitName ==
    ASSUME NEW name \in Component,
           \A i \in 1 .. Len(name) : name[i] \notin Separators
    PROVE  Split(name) = <<name>>
<1>1. Split(<<>>) = Append(<<>>, <<>>)
  BY SplitEmpty
<1>2. <<>> \in Component /\ <<>> \in Seq(Component)
  BY DEF Component
<1>3. <<>> \o name = name
  BY DEF Component
<1>4. Split(<<>> \o name) = Append(<<>>, <<>> \o name)
  BY <1>1, <1>2, SplitMore
<1> QED
  BY <1>3, <1>4

\* A path that does not end in a separator has a last component.
LEMMA LastComponent ==
    ASSUME NEW s \in Component, s # <<>>, Last(s) \notin Separators
    PROVE  Split(s)[Len(Split(s))] # <<>>
<1>1. PICK r \in Component, c \in Token : s = Append(r, c) /\ c = Last(s)
  BY ComponentEnds
<1> DEFINE b == Split(r)
<1>2. b \in Seq(Component) /\ b # <<>>
  BY SplitType
<1> HIDE DEF b
<1>3. Split(s) = CutAt(b, c)
  BY <1>1, SplitAppend DEF b
<1>4. Len(b) \in 1 .. Len(b) /\ b[Len(b)] \in Component /\ DOMAIN b = 1 .. Len(b)
  BY <1>2
<1> DEFINE x == Append(b[Len(b)], c)
           e == [b EXCEPT ![Len(b)] = x]
<1>5. x # <<>>
  BY <1>4 DEF Component, Token
<1>6. Split(s) = e
  BY <1>1, <1>3 DEF CutAt
<1>7. x \in Component
  BY <1>4 DEF Component, Token
<1> HIDE DEF x
<1>8. Len(e) = Len(b) /\ e[Len(b)] = x
  BY <1>2, <1>4, <1>7
<1> QED
  BY <1>5, <1>6, <1>8

-----------------------------------------------------------------------------
(* What the walk is given *)

LEMMA MountedIs ==
    ASSUME NEW s \in Component, Mounted(s)
    PROVE  /\ Components(s) = Tail(Split(s)) /\ Components(s) \in Seq(Component)
           /\ Len(Components(s)) = Len(Split(s)) - 1
           /\ \A i \in 1 .. Len(Split(s)) - 1 : Components(s)[i] = Split(s)[i + 1]
           /\ s # <<>>
<1> DEFINE b == Split(s)
<1>1. b \in Seq(Component) /\ b # <<>> /\ b[1] = <<Drive>>
  BY SplitType DEF Mounted
<1>2. <<Drive>> # <<>> /\ Drive \in Range(<<Drive>>)
  BY DEF Range
<1>3. Components(s) = Tail(b)
  BY <1>1, <1>2 DEF Components
<1>4. s # <<>>
  BY <1>1, <1>2, SplitEmpty
<1> HIDE DEF b
<1> QED
  BY <1>1, <1>3, <1>4 DEF b

LEMMA MountedMore ==
    ASSUME NEW s \in Component, NEW t \in Component, NEW x \in Component,
           Split(t) = Append(Split(s), x)
    PROVE  /\ Mounted(t) <=> Mounted(s)
           /\ Mounted(s) => Components(t) = Append(Components(s), x)
<1> DEFINE b == Split(s)
<1>1. b \in Seq(Component) /\ b # <<>>
  BY SplitType
<1> HIDE DEF b
<1>2. Append(b, x)[1] = b[1] /\ Tail(Append(b, x)) = Append(Tail(b), x)
  BY <1>1
<1>3. Mounted(t) <=> Mounted(s)
  BY <1>2 DEF b, Mounted
<1>4. ASSUME Mounted(s) PROVE Components(t) = Append(Components(s), x)
  BY <1>2, <1>3, <1>4, MountedIs DEF b
<1> QED
  BY <1>3, <1>4

-----------------------------------------------------------------------------
(* The walk *)

\* Nothing, or one inode
AtMostOne(S) == S = {} \/ \E i \in Ids : S = {i}

LEMMA StepIs ==
    ASSUME Shape, Named, NEW i \in Ids, NEW c, NEW last \in BOOLEAN
    PROVE  AtMostOne(Step(i, c, last))
<1>1. Final[i] \in Ids
  <2>1. Final[i] \in 0 .. i
    BY FinalIs DEF FinalFact
  <2> QED
    BY <2>1 DEF Shape
<1>2. c \in DOMAIN Entries(i) => Entries(i)[c] \in Ids
  BY <1>1 DEF Entries, Named
<1>3. CASE c = <<>>
  BY <1>3 DEF Step, AtMostOne
<1>4. CASE c = <<".">> /\ c # <<>>
  BY <1>4 DEF Step, AtMostOne
<1>5. CASE c # <<".">> /\ c # <<>>
  <2>1. Step(i, c, last) = IF IsDir(i) /\ c \in DOMAIN Entries(i) THEN {Entries(i)[c]} ELSE {}
    BY <1>5 DEF Step
  <2> QED
    BY <1>2, <2>1 DEF AtMostOne
<1> QED
  BY <1>3, <1>4, <1>5

WalkFact == Shape /\ Named => \A C \in Seq(Component) :
    /\ Walk(C)[0] = {Root}
    /\ \A k \in 1 .. Len(C) :
         Walk(C)[k] = UNION {Step(i, C[k], k = Len(C)) : i \in Walk(C)[k - 1]}
    /\ \A k \in 0 .. Len(C) : AtMostOne(Walk(C)[k])

LEMMA WalkIs == WalkFact
<1> SUFFICES ASSUME Shape, Named, NEW C \in Seq(Component)
             PROVE  /\ Walk(C)[0] = {Root}
                    /\ \A k \in 1 .. Len(C) :
                         Walk(C)[k] = UNION {Step(i, C[k], k = Len(C)) : i \in Walk(C)[k - 1]}
                    /\ \A k \in 0 .. Len(C) : AtMostOne(Walk(C)[k])
  BY DEF WalkFact
<1> DEFINE n == Len(C)
           Turn(W, k) == UNION {Step(i, C[k], k = n) : i \in W}
           Turns(g, k) == \A i \in 0 .. k : g[i] = IF i = 0 THEN {Root} ELSE Turn(g[i - 1], i)
           T == {k \in 0 .. n : \E g : g = [i \in 0 .. k |-> g[i]] /\ Turns(g, k)}
<1>1. n \in Nat /\ n \in Int
  OBVIOUS
<1> HIDE DEF Turn
<1>2. \A k \in 0 .. n : (\A j \in 0 .. k - 1 : j \in T) => k \in T
  <2>0. SUFFICES ASSUME NEW k \in 0 .. n, \A j \in 0 .. k - 1 : j \in T
                 PROVE  k \in T
    OBVIOUS
  <2>1. CASE k = 0
    <3> DEFINE g == [i \in 0 .. k |-> {Root}]
    <3>1. g = [i \in 0 .. k |-> g[i]] /\ Turns(g, k)
      BY <2>1
    <3> QED
      BY <3>1
  <2>2. CASE k # 0
    <3>0. k - 1 \in 0 .. k - 1
      BY <1>1, <2>2
    <3>1. k - 1 \in T
      BY <2>0, <3>0
    <3>2. PICK g : Turns(g, k - 1)
      BY <3>1
    <3> DEFINE h == [i \in 0 .. k |-> IF i = k THEN Turn(g[k - 1], k) ELSE g[i]]
    <3>3. \A i \in 0 .. k - 1 : h[i] = g[i]
      OBVIOUS
    <3>4. h[k] = Turn(g[k - 1], k)
      OBVIOUS
    <3>5. h = [i \in 0 .. k |-> h[i]]
      OBVIOUS
    <3> HIDE DEF h
    <3>6. ASSUME NEW i \in 0 .. k
          PROVE  h[i] = IF i = 0 THEN {Root} ELSE Turn(h[i - 1], i)
      <4>1. CASE i = k
        BY <2>2, <3>3, <3>4, <4>1
      <4>2. CASE i # k
        <5>1. i \in 0 .. k - 1 /\ (i # 0 => i - 1 \in 0 .. k - 1)
          BY <4>2
        <5> QED
          BY <3>2, <3>3, <5>1
      <4> QED
        BY <4>1, <4>2
    <3> QED
      BY <3>5, <3>6
  <2> QED
    BY <2>1, <2>2
<1>3. n \in T
  <2> HIDE DEF T, n
  <2>1. \A k \in 0 .. n : k \in T
    BY <1>1, <1>2, UpTo
  <2> QED
    BY <1>1, <2>1
<1>4. PICK g : g = [i \in 0 .. n |-> g[i]] /\ Turns(g, n)
  BY <1>3
<1>5. g = [k \in 0 .. n |-> IF k = 0 THEN {Root}
                            ELSE UNION {Step(i, C[k], k = n) : i \in g[k - 1]}]
  BY <1>4 DEF Turn
<1> DEFINE w == CHOOSE walk : walk =
                   [k \in 0 .. n |-> IF k = 0 THEN {Root}
                                     ELSE UNION {Step(i, C[k], k = n) : i \in walk[k - 1]}]
<1>6. w = [k \in 0 .. n |-> IF k = 0 THEN {Root}
                            ELSE UNION {Step(i, C[k], k = n) : i \in w[k - 1]}]
  BY <1>5
<1>7. Walk(C) = w
  BY DEF Walk
<1> HIDE DEF w
<1>8. w[0] = {Root}
  BY <1>1, <1>6
<1>9. \A k \in 1 .. n : w[k] = UNION {Step(i, C[k], k = n) : i \in w[k - 1]}
  <2>1. w = [k \in 0 .. n |-> IF k = 0 THEN {Root} ELSE Turn(w[k - 1], k)]
    BY <1>6 DEF Turn
  <2>2. \A k \in 1 .. n : k \in 0 .. n /\ k # 0
    BY <1>1
  <2>3. \A k \in 1 .. n : w[k] = Turn(w[k - 1], k)
    <3> HIDE DEF n
    <3> QED
      BY <2>1, <2>2
  <2> QED
    BY <2>3 DEF Turn
<1> DEFINE U == {k \in 0 .. n : AtMostOne(w[k])}
<1>10. \A k \in 0 .. n : (\A j \in 0 .. k - 1 : j \in U) => k \in U
  <2>0. SUFFICES ASSUME NEW k \in 0 .. n, \A j \in 0 .. k - 1 : j \in U
                 PROVE  k \in U
    OBVIOUS
  <2>1. CASE k = 0
    BY <1>8, <2>1, RootIs DEF AtMostOne
  <2>2. CASE k # 0
    <3>1. k - 1 \in U /\ k \in 1 .. n
      BY <2>0, <2>2
    <3>2. w[k] = UNION {Step(i, C[k], k = n) : i \in w[k - 1]}
      BY <1>9, <3>1
    <3>3. CASE w[k - 1] = {}
      BY <3>2, <3>3 DEF AtMostOne
    <3>4. CASE w[k - 1] # {}
      <4>1. PICK i \in Ids : w[k - 1] = {i}
        BY <3>1, <3>4 DEF AtMostOne
      <4>2. w[k] = Step(i, C[k], k = n)
        BY <3>2, <4>1
      <4>3. CASE k = n
        <5>1. w[k] = Step(i, C[k], TRUE)
          BY <4>2, <4>3
        <5> QED
          BY <5>1, StepIs
      <4>4. CASE k # n
        <5>1. w[k] = Step(i, C[k], FALSE)
          BY <4>2, <4>4
        <5> QED
          BY <5>1, StepIs
      <4> QED
        BY <4>3, <4>4
    <3> QED
      BY <3>3, <3>4
  <2> QED
    BY <2>1, <2>2
<1>11. \A k \in 0 .. n : k \in U
  <2> HIDE DEF U, n
  <2> QED
    BY <1>1, <1>10, UpTo
<1> QED
  BY <1>7, <1>8, <1>9, <1>11

LEMMA WalkIsNext == WalkFact'
BY WalkIs, PTL

\* Where the walk of some components ends.
EndOf(C) == Walk(C)[Len(C)]

\* One more component is one more turn, from where the others lead to, unless
\* the last of them was empty.
MoreFact == Shape /\ Named => \A C \in Seq(Component), x \in Component :
    (C = <<>> \/ C[Len(C)] # <<>>) =>
        /\ EndOf(C) = {} => EndOf(Append(C, x)) = {}
        /\ \A i \in Ids : EndOf(C) = {i} => EndOf(Append(C, x)) = Step(i, x, TRUE)

LEMMA WalkMore == MoreFact
<1> SUFFICES ASSUME Shape, Named, NEW C \in Seq(Component), NEW x \in Component,
                    C = <<>> \/ C[Len(C)] # <<>>
             PROVE  /\ EndOf(C) = {} => EndOf(Append(C, x)) = {}
                    /\ \A i \in Ids : EndOf(C) = {i} => EndOf(Append(C, x)) = Step(i, x, TRUE)
  BY DEF MoreFact
<1> DEFINE n == Len(C)
           D == Append(C, x)
           v == Walk(C)
           w == Walk(D)
           T == {k \in 0 .. n : v[k] = w[k]}
<1>1. /\ n \in Nat /\ n \in Int
      /\ D \in Seq(Component) /\ Len(D) = n + 1 /\ D[n + 1] = x /\ \A k \in 1 .. n : D[k] = C[k]
  OBVIOUS
<1> HIDE DEF D
<1>2. /\ v[0] = {Root}
      /\ \A k \in 1 .. n : v[k] = UNION {Step(i, C[k], k = n) : i \in v[k - 1]}
  BY WalkIs DEF WalkFact
<1>3. /\ w[0] = {Root}
      /\ \A k \in 1 .. n + 1 : w[k] = UNION {Step(i, D[k], k = n + 1) : i \in w[k - 1]}
  BY <1>1, WalkIs DEF WalkFact
<1> HIDE DEF v, w
<1>4. \A i : Step(i, C[n], TRUE) = Step(i, C[n], FALSE) \/ n = 0
  BY DEF Step
<1>5. \A k \in 0 .. n : (\A j \in 0 .. k - 1 : j \in T) => k \in T
  <2>0. SUFFICES ASSUME NEW k \in 0 .. n, \A j \in 0 .. k - 1 : j \in T
                 PROVE  k \in T
    OBVIOUS
  <2>1. CASE k = 0
    BY <1>2, <1>3, <2>1
  <2>2. CASE k # 0
    <3>0. k - 1 \in 0 .. k - 1 /\ k \in 1 .. n /\ k \in 1 .. n + 1 /\ k # n + 1
      BY <1>1, <2>2
    <3>1. v[k - 1] = w[k - 1] /\ D[k] = C[k]
      BY <1>1, <2>0, <3>0
    <3>2. \A i : Step(i, C[k], k = n) = Step(i, D[k], k = n + 1)
      <4>1. CASE k = n
        BY <1>4, <2>2, <3>0, <3>1, <4>1
      <4>2. CASE k # n
        BY <3>0, <3>1, <4>2
      <4> QED
        BY <4>1, <4>2
    <3>3. v[k] = w[k]
      <4>1. v[k] = UNION {Step(i, C[k], k = n) : i \in v[k - 1]}
        BY <1>2, <3>0
      <4>2. w[k] = UNION {Step(i, D[k], k = n + 1) : i \in v[k - 1]}
        BY <1>3, <3>0, <3>1
      <4>3. v[k] = UNION {Step(i, D[k], k = n + 1) : i \in v[k - 1]}
        BY <3>2, <4>1
      <4> QED
        BY <4>2, <4>3
    <3> QED
      BY <3>3
  <2> QED
    BY <2>1, <2>2
<1>6. \A k \in 0 .. n : k \in T
  <2> HIDE DEF T, n
  <2> QED
    BY <1>1, <1>5, UpTo
<1>7. w[n] = v[n]
  BY <1>1, <1>6
<1>8. w[n + 1] = UNION {Step(i, x, TRUE) : i \in v[n]}
  <2>1. n + 1 \in 1 .. n + 1 /\ (n + 1) - 1 = n
    BY <1>1
  <2>2. w[n + 1] = UNION {Step(i, D[n + 1], n + 1 = n + 1) : i \in w[n]}
    BY <1>3, <2>1
  <2> QED
    BY <1>1, <1>7, <2>2
<1> QED
  BY <1>1, <1>8 DEF EndOf, v, w, D

LEMMA WalkMoreNext == MoreFact'
BY WalkMore, PTL

\* Creating something leaves every walk that arrived where it was.
LEMMA StepGrows ==
    ASSUME Shape, Shape', NEW f, NEW name, Grows(f, name), NEW i \in Ids, NEW c, NEW last
    PROVE  /\ IsDir(i)' = IsDir(i)
           /\ \A n \in DOMAIN Entries(i) : n \in DOMAIN Entries(i)' /\ Entries(i)'[n] = Entries(i)[n]
           /\ Step(i, c, last) \subseteq Step(i, c, last)'
<1>1. Final'[i] = Final[i]
  BY FinalStays
<1>2. Final[i] \in Ids
  <2>1. Final[i] \in 0 .. i
    BY FinalIs DEF FinalFact
  <2> QED
    BY <2>1 DEF Shape
<1>3. IsDir(i)' = IsDir(i)
  BY <1>1, <1>2 DEF IsDir, Grows
<1>4. \A n \in DOMAIN Entries(i) : n \in DOMAIN Entries(i)' /\ Entries(i)'[n] = Entries(i)[n]
  BY <1>1, <1>2, GrowsFacts DEF Entries
<1>5. CASE c = <<>>
  <2>1. Step(i, c, last) = IF last THEN {i} ELSE {}
    BY <1>5 DEF Step
  <2>2. Step(i, c, last)' = IF last THEN {i} ELSE {}
    BY <1>5 DEF Step
  <2> QED
    BY <1>3, <1>4, <2>1, <2>2
<1>6. CASE c = <<".">> /\ c # <<>>
  <2>1. Step(i, c, last) = {i}
    BY <1>6 DEF Step
  <2>2. Step(i, c, last)' = {i}
    BY <1>6 DEF Step
  <2> QED
    BY <1>3, <1>4, <2>1, <2>2
<1>7. CASE c # <<".">> /\ c # <<>>
  <2>1. Step(i, c, last) = IF IsDir(i) /\ c \in DOMAIN Entries(i) THEN {Entries(i)[c]} ELSE {}
    BY <1>7 DEF Step
  <2>2. Step(i, c, last)' = IF IsDir(i)' /\ c \in DOMAIN Entries(i)' THEN {Entries(i)'[c]} ELSE {}
    BY <1>7 DEF Step
  <2> QED
    BY <1>3, <1>4, <2>1, <2>2
<1> QED
  BY <1>3, <1>4, <1>5, <1>6, <1>7

LEMMA WalkGrows ==
    ASSUME Shape, Named, Shape', Named', NEW f, NEW name, Grows(f, name),
           NEW C \in Seq(Component)
    PROVE  \A i \in Ids : EndOf(C) = {i} => EndOf(C)' = {i}
<1> DEFINE n == Len(C)
           T == {k \in 0 .. n : Walk(C)[k] \subseteq Walk(C)'[k]}
<1>1. n \in Nat /\ n \in Int
  OBVIOUS
<1>2. /\ Walk(C)[0] = {Root}
      /\ \A k \in 1 .. n : Walk(C)[k] = UNION {Step(i, C[k], k = n) : i \in Walk(C)[k - 1]}
      /\ \A k \in 0 .. n : AtMostOne(Walk(C)[k])
  BY WalkIs DEF WalkFact
<1>3. /\ Walk(C)'[0] = {Root}
      /\ \A k \in 1 .. n : Walk(C)'[k] = UNION {Step(i, C[k], k = n)' : i \in Walk(C)'[k - 1]}
      /\ \A k \in 0 .. n : AtMostOne(Walk(C)[k])'
  BY WalkIsNext DEF WalkFact, Root
<1>4. \A k \in 0 .. n : (\A j \in 0 .. k - 1 : j \in T) => k \in T
  <2>0. SUFFICES ASSUME NEW k \in 0 .. n, \A j \in 0 .. k - 1 : j \in T
                 PROVE  k \in T
    OBVIOUS
  <2>1. CASE k = 0
    BY <1>2, <1>3, <2>1
  <2>2. CASE k # 0
    <3>0. k - 1 \in 0 .. k - 1 /\ k \in 1 .. n /\ k - 1 \in 0 .. n
      BY <1>1, <2>2
    <3>1. Walk(C)[k - 1] \subseteq Walk(C)'[k - 1]
      BY <2>0, <3>0
    <3>2. Walk(C)[k - 1] \subseteq Ids
      BY <1>2, <3>0 DEF AtMostOne
    <3>3. \A i \in Ids : Step(i, C[k], k = n) \subseteq Step(i, C[k], k = n)'
      BY StepGrows
    <3>4. /\ Walk(C)[k] = UNION {Step(i, C[k], k = n) : i \in Walk(C)[k - 1]}
          /\ Walk(C)'[k] = UNION {Step(i, C[k], k = n)' : i \in Walk(C)'[k - 1]}
      BY <1>2, <1>3, <3>0
    <3>5. Walk(C)[k] \subseteq Walk(C)'[k]
      BY <3>1, <3>2, <3>3, <3>4
    <3> QED
      BY <3>5
  <2> QED
    BY <2>1, <2>2
<1>5. \A k \in 0 .. n : k \in T
  <2> HIDE DEF T, n
  <2> QED
    BY <1>1, <1>4, UpTo
<1>6. n \in 0 .. n /\ Walk(C)[n] \subseteq Walk(C)'[n]
  BY <1>1, <1>5
<1>7. AtMostOne(Walk(C)[n])'
  BY <1>3, <1>6
<1> QED
  BY <1>6, <1>7 DEF EndOf, AtMostOne

-----------------------------------------------------------------------------
(* Paths that lead somewhere *)

LEMMA ResloveEnd ==
    ASSUME NEW s
    PROVE  ReslovePath(s) = EndOf(Components(s)) /\ ReslovePath(s)' = EndOf(Components(s))'
BY DEF ReslovePath, EndOf

\* A path that does not end in a separator has no empty component at its end.
LEMMA EndsNamed ==
    ASSUME NEW s \in Component, Mounted(s), Last(s) \notin Separators
    PROVE  Components(s) = <<>> \/ Components(s)[Len(Components(s))] # <<>>
<1> DEFINE b == Split(s)
           C == Components(s)
<1>1. /\ C \in Seq(Component) /\ Len(C) = Len(b) - 1
      /\ \A i \in 1 .. Len(b) - 1 : C[i] = b[i + 1]
      /\ s # <<>>
  BY MountedIs
<1>2. b[Len(b)] # <<>>
  BY <1>1, LastComponent
<1>3. b \in Seq(Component) /\ Len(b) \in Nat
  BY SplitType
<1> HIDE DEF b, C
<1>4. C # <<>> => Len(C) \in 1 .. Len(b) - 1 /\ Len(C) + 1 = Len(b)
  BY <1>1, <1>3
<1>5. C # <<>> => C[Len(C)] # <<>>
  BY <1>1, <1>2, <1>4
<1> QED
  BY <1>5 DEF C

\* A path leads to one inode or to none.
OneFact == Shape /\ Named => \A s \in Component : Mounted(s) => AtMostOne(ReslovePath(s))

LEMMA ResloveOne == OneFact
<1> SUFFICES ASSUME Shape, Named, NEW s \in Component, Mounted(s)
             PROVE  AtMostOne(ReslovePath(s))
  BY DEF OneFact
<1> PICK C : C = Components(s)
  OBVIOUS
<1>1. C \in Seq(Component) /\ Len(C) \in 0 .. Len(C)
  BY MountedIs
<1>2. AtMostOne(Walk(C)[Len(C)])
  BY <1>1, WalkIs DEF WalkFact
<1> QED
  BY <1>2, ResloveEnd DEF EndOf

\* A slash more makes no difference,
SlashFact == Shape /\ Named => \A s \in Component :
    Mounted(s) /\ Last(s) \notin Separators => ReslovePath(Append(s, Slash)) = ReslovePath(s)

LEMMA ResloveSlash == SlashFact
<1> SUFFICES ASSUME Shape, Named, NEW s \in Component, Mounted(s), Last(s) \notin Separators
             PROVE  ReslovePath(Append(s, Slash)) = ReslovePath(s)
  BY DEF SlashFact
<1> PICK t, C : t = Append(s, Slash) /\ C = Components(s)
  OBVIOUS
<1>1. t \in Component /\ <<>> \in Component
  BY SeparatorsAre DEF Component, Token
<1>2. Split(t) = Append(Split(s), <<>>)
  BY SplitSlash
<1>3. Components(t) = Append(C, <<>>)
  BY <1>1, <1>2, MountedMore
<1>4. C \in Seq(Component) /\ (C = <<>> \/ C[Len(C)] # <<>>)
  BY MountedIs, EndsNamed
<1>5. /\ EndOf(C) = {} => EndOf(Append(C, <<>>)) = {}
      /\ \A i \in Ids : EndOf(C) = {i} => EndOf(Append(C, <<>>)) = Step(i, <<>>, TRUE)
  BY <1>1, <1>4, WalkMore DEF MoreFact
<1>6. \A i : Step(i, <<>>, TRUE) = {i}
  BY DEF Step
<1>7. AtMostOne(EndOf(C))
  BY ResloveOne, ResloveEnd DEF OneFact
<1>8. EndOf(Append(C, <<>>)) = EndOf(C)
  BY <1>5, <1>6, <1>7 DEF AtMostOne
<1> QED
  BY <1>3, <1>8, ResloveEnd

\* and a slash and a name more is the entry of that name.
EntryFact == Shape /\ Named => \A s, name \in Component :
    (/\ Mounted(s) /\ Last(s) \notin Separators
     /\ name # <<>> /\ name # <<".">> /\ \A i \in 1 .. Len(name) : name[i] \notin Separators)
    => \A i \in Ids : ReslovePath(s) = {i} =>
         ReslovePath(Append(s, Slash) \o name) =
             IF IsDir(i) /\ name \in DOMAIN Entries(i) THEN {Entries(i)[name]} ELSE {}

LEMMA ResloveEntry == EntryFact
<1> SUFFICES ASSUME Shape, Named, NEW s \in Component, NEW name \in Component,
                    Mounted(s), Last(s) \notin Separators, name # <<>>, name # <<".">>,
                    \A i \in 1 .. Len(name) : name[i] \notin Separators,
                    NEW i \in Ids, ReslovePath(s) = {i}
             PROVE  ReslovePath(Append(s, Slash) \o name) =
                        IF IsDir(i) /\ name \in DOMAIN Entries(i) THEN {Entries(i)[name]} ELSE {}
  BY DEF EntryFact
<1> PICK t, C : t = Append(s, Slash) \o name /\ C = Components(s)
  OBVIOUS
<1>1. t \in Component
  <2>1. Append(s, Slash) \in Component
    BY SeparatorsAre DEF Component, Token
  <2> QED
    BY <2>1 DEF Component
<1>2. Split(t) = Append(Split(s), name)
  BY SplitSlashName
<1>3. Components(t) = Append(C, name)
  BY <1>1, <1>2, MountedMore
<1>4. C \in Seq(Component) /\ (C = <<>> \/ C[Len(C)] # <<>>)
  BY MountedIs, EndsNamed
<1>5. EndOf(C) = {i}
  BY ResloveEnd
<1>6. EndOf(Append(C, name)) = Step(i, name, TRUE)
  <2>1. \A j \in Ids : EndOf(C) = {j} => EndOf(Append(C, name)) = Step(j, name, TRUE)
    BY <1>4, WalkMore DEF MoreFact
  <2> QED
    BY <1>5, <2>1
<1>7. Step(i, name, TRUE) = IF IsDir(i) /\ name \in DOMAIN Entries(i) THEN {Entries(i)[name]} ELSE {}
  BY DEF Step
<1> QED
  BY <1>3, <1>6, <1>7, ResloveEnd

LEMMA ResloveNext == OneFact' /\ SlashFact' /\ EntryFact'
BY ResloveOne, ResloveSlash, ResloveEntry, PTL

LEMMA ResloveGrows ==
    ASSUME Shape, Named, Shape', Named', NEW f, NEW name, Grows(f, name),
           NEW s \in Component, Mounted(s)
    PROVE  \A i \in Ids : ReslovePath(s) = {i} => ReslovePath(s)' = {i}
<1> PICK C : C = Components(s)
  OBVIOUS
<1>1. C \in Seq(Component)
  BY MountedIs
<1>2. \A i \in Ids : EndOf(C) = {i} => EndOf(C)' = {i}
  BY <1>1, WalkGrows
<1>3. ReslovePath(s) = EndOf(C) /\ ReslovePath(s)' = EndOf(C)'
  BY DEF ReslovePath, EndOf
<1> QED
  BY <1>2, <1>3

-----------------------------------------------------------------------------
(* The current directories *)

\* The text of a current directory is mounted, ends with a slash and, if it is
\* plain, leads to a directory.
GoodDir(cwd) ==
    /\ Mounted(cwd) /\ Last(cwd) = Slash
    /\ Plain(cwd) => \E i \in ReslovePath(cwd) : IsDir(i)

Cwds ==
    \A p \in Procs : \A cwd \in Component :
        cwd = current_dir[p] /\ cwd # NoDir => GoodDir(cwd)

LEMMA CwdsBase ==
    ASSUME Shape, Named, Texts, Cwds
    PROVE  CwdIsBase
<1> SUFFICES ASSUME NEW p \in Alive, Plain(current_dir[p])
             PROVE  \E d \in ReslovePath(current_dir[p]) :
                      /\ IsDir(d)
                      /\ \A n \in Names : ReslovePath(FullPath(p, <<n>>)) =
                           IF <<n>> \in DOMAIN Entries(d) THEN {Entries(d)[<<n>>]} ELSE {}
  BY DEF CwdIsBase
<1> PICK cwd : cwd = current_dir[p]
  OBVIOUS
<1>1. cwd \in Component /\ Mounted(cwd) /\ Last(cwd) = Slash /\ Plain(cwd)
      /\ cwd # <<>> /\ \E i \in ReslovePath(cwd) : IsDir(i)
  BY DEF Texts, Cwds, GoodDir, Alive, NoDir
<1>2. PICK r \in Component, c \in Token : cwd = Append(r, c) /\ c = Last(cwd) /\ Len(cwd) = Len(r) + 1
  BY <1>1, ComponentEnds
<1>3. cwd = Append(r, Slash)
  BY <1>1, <1>2
<1>4. Mounted(r)
  <2>1. Split(cwd) = Append(Split(r), <<>>) /\ <<>> \in Component
    BY <1>3, SplitSlash DEF Component
  <2> QED
    BY <1>1, <2>1, MountedMore
<1>5. Last(r) \notin Separators
  <2>1. r # <<>> /\ r \in Seq(Token)
    BY <1>4, MountedIs DEF Component, Token
  <2>2. Len(r) \in 1 .. Len(cwd) - 1 /\ Len(r) + 1 = Len(cwd) /\ Len(r) \in DOMAIN cwd
    BY <1>2, <2>1
  <2>3. cwd[Len(r)] = Last(r) /\ cwd[Len(r) + 1] = Slash
    BY <1>3, <2>1 DEF Last
  <2>4. Last(r) # Slash /\ Last(r) # BackSlash
    BY <1>1, <2>2, <2>3 DEF Plain, Range
  <2> QED
    BY <2>4, SeparatorsAre
<1>6. ReslovePath(cwd) = ReslovePath(r)
  BY <1>3, <1>4, <1>5, ResloveSlash DEF SlashFact
<1>7. PICK d \in Ids : ReslovePath(r) = {d} /\ IsDir(d)
  BY <1>1, <1>4, <1>6, ResloveOne DEF OneFact, AtMostOne
<1>8. ASSUME NEW n \in Names
      PROVE  ReslovePath(FullPath(p, <<n>>)) =
                 IF <<n>> \in DOMAIN Entries(d) THEN {Entries(d)[<<n>>]} ELSE {}
  <2> PICK name : name = <<n>>
    OBVIOUS
  <2>1. name \in Component /\ name # <<>> /\ name # <<".">> /\ Len(name) = 1 /\ name[1] = n
    BY SeparatorsAre DEF Component, Token
  <2>2. \A i \in 1 .. Len(name) : name[i] \notin Separators
    BY <2>1, SeparatorsAre
  <2>3. Split(name) = <<name>>
    BY <2>1, <2>2, SplitName
  <2>4. Last(name) # Drive
    BY <2>1, SeparatorsAre DEF Last
  <2>5. FullPath(p, name) = Append(r, Slash) \o name
    BY <1>3, <2>3, <2>4 DEF FullPath
  <2>6. ReslovePath(Append(r, Slash) \o name) =
          IF IsDir(d) /\ name \in DOMAIN Entries(d) THEN {Entries(d)[name]} ELSE {}
    BY <1>4, <1>5, <1>7, <2>1, <2>2, ResloveEntry DEF EntryFact
  <2> QED
    BY <1>7, <2>5, <2>6
<1> QED
  BY <1>6, <1>7, <1>8

\* The first inode, the root, is a directory.
RootDir == inodes[Root].kind = "Children"

LEMMA RootGood ==
    ASSUME Shape, Named, RootDir
    PROVE  GoodDir(<<Drive, Slash>>)
<1>0. Shape /\ Named
  OBVIOUS
<1> PICK s, cwd : s = <<Drive>> /\ cwd = <<Drive, Slash>>
  OBVIOUS
<1>1. /\ s \in Component /\ s # <<>> /\ Last(s) \notin Separators
      /\ \A i \in 1 .. Len(s) : s[i] \notin Separators
  BY SeparatorsAre DEF Component, Token, Last
<1>2. cwd = Append(s, Slash) /\ Last(cwd) = Slash /\ cwd \in Component
  BY RootDirType DEF Last
<1>3. Split(s) = <<s>>
  BY <1>1, SplitName
<1>4. Mounted(s)
  BY <1>3 DEF Mounted
<1>5. Mounted(cwd)
  <2>1. Split(cwd) = Append(Split(s), <<>>) /\ <<>> \in Component
    <3>1. Split(Append(s, Slash)) = Append(Split(s), <<>>)
      BY <1>1, SplitSlash
    <3>2. <<>> \in Component
      BY DEF Component
    <3>3. cwd = Append(s, Slash)
      BY <1>2
    <3> QED
      BY <3>1, <3>2, <3>3, Zenon
  <2> QED
    BY <1>1, <1>2, <1>4, <2>1, MountedMore
<1>6. Components(s) = <<>>
  BY <1>1, <1>3, <1>4, MountedIs
<1>7. ReslovePath(s) = {Root}
  <2>1. <<>> \in Seq(Component) /\ Len(<<>>) = 0
    OBVIOUS
  <2>2. Walk(<<>>)[0] = {Root}
    BY <1>0, <2>1, WalkIs DEF WalkFact
  <2> QED
    BY <1>6, <2>1, <2>2 DEF ReslovePath
<1>8. ReslovePath(cwd) = {Root}
  BY <1>0, <1>1, <1>2, <1>4, <1>7, ResloveSlash DEF SlashFact
<1>9. IsDir(Root)
  <2>1. Root \in Ids /\ inodes[Root].kind = "Children"
    BY RootIs DEF RootDir
  <2>2. Final[Root] = Root
    BY <1>0, <2>1, FinalIs DEF FinalFact
  <2> QED
    BY <2>1, <2>2 DEF IsDir
<1> QED
  BY <1>2, <1>5, <1>8, <1>9 DEF GoodDir

LEMMA InitCwds == Init => Cwds /\ RootDir
<1> SUFFICES ASSUME Init PROVE Cwds /\ RootDir
  OBVIOUS
<1>1. RootDir
  BY DEF Init, NewDir, RootDir
<1>2. GoodDir(<<Drive, Slash>>)
  BY <1>1, InitTree, RootGood DEF TreeInv
<1>3. \A p \in Procs : current_dir[p] = <<Drive, Slash>> \/ current_dir[p] = NoDir
  BY DEF Init
<1> QED
  BY <1>1, <1>2, <1>3 DEF Cwds

\* A directory that cwd leads to stays one.
LEMMA CwdsGrow ==
    ASSUME Shape, Named, Texts, Cwds, Shape', Named', UNCHANGED current_dir,
           NEW f, NEW name, Grows(f, name)
    PROVE  Cwds'
<1> SUFFICES ASSUME NEW p \in Procs, NEW cwd \in Component, cwd = current_dir'[p], cwd # NoDir
             PROVE  GoodDir(cwd)'
  BY DEF Cwds, NoDir
<1>1. Mounted(cwd) /\ Last(cwd) = Slash /\ (Plain(cwd) => \E i \in ReslovePath(cwd) : IsDir(i))
  BY DEF Cwds, GoodDir
<1>2. ASSUME Plain(cwd) PROVE \E i \in ReslovePath(cwd)' : IsDir(i)'
  <2>1. PICK i \in Ids : ReslovePath(cwd) = {i} /\ IsDir(i)
    BY <1>1, <1>2, ResloveOne DEF OneFact, AtMostOne
  <2>2. ReslovePath(cwd)' = {i}
    BY <1>1, <2>1, ResloveGrows
  <2>3. IsDir(i)'
    BY <2>1, StepGrows
  <2> QED
    BY <2>2, <2>3
<1> QED
  BY <1>1, <1>2 DEF GoodDir

\* Nothing about a path changes with a step that leaves the inodes alone.
LEMMA ResloveSame ==
    ASSUME UNCHANGED inodes, NEW s
    PROVE  /\ ReslovePath(s)' = ReslovePath(s)
           /\ GoodDir(s)' = GoodDir(s)
<1>1. Ids' = Ids /\ Final' = Final
  BY DEF Ids, Final
<1>2. \A i : IsDir(i)' = IsDir(i) /\ Entries(i)' = Entries(i)
  BY <1>1 DEF IsDir, Entries
<1>3. \A i, c, last : Step(i, c, last)' = Step(i, c, last)
  BY <1>2 DEF Step
<1>4. ReslovePath(s)' = ReslovePath(s)
  BY <1>1, <1>3 DEF ReslovePath, Walk, Step, IsDir, Entries, Final, Ids
<1> QED
  BY <1>2, <1>4 DEF GoodDir

\* What chdir sets is a good directory.
LEMMA ChdirGood ==
    ASSUME Shape, Named, NEW full \in Component, VerifyPathDir(full)
    PROVE  GoodDir(EnsureSlash(full))
<1>1. Mounted(full) /\ \E i \in ReslovePath(full) : IsDir(i)
  BY DEF VerifyPathDir
<1>2. CASE Last(full) = Slash
  BY <1>1, <1>2 DEF EnsureSlash, GoodDir
<1>3. CASE Last(full) # Slash
  <2> PICK t : t = Append(full, Slash)
    OBVIOUS
  <2>1. t \in Component /\ <<>> \in Component /\ Last(t) = Slash /\ full \in Seq(Token) /\ full # <<>>
    BY <1>1, SeparatorsAre, MountedIs DEF Component, Token, Last
  <2>2. Split(t) = Append(Split(full), <<>>)
    BY SplitSlash
  <2>3. Mounted(t)
    BY <1>1, <2>1, <2>2, MountedMore
  <2>4. ASSUME Plain(t) PROVE ReslovePath(t) = ReslovePath(full)
    <3>1. Len(full) \in DOMAIN t /\ t[Len(full)] = Last(full)
      BY <2>1, SeparatorsAre DEF Last
    <3>2. Last(full) # BackSlash
      BY <2>4, <3>1 DEF Plain, Range
    <3>3. Last(full) \notin Separators
      BY <1>3, <3>2, SeparatorsAre
    <3> QED
      BY <1>1, <3>3, ResloveSlash DEF SlashFact
  <2>5. GoodDir(t)
    BY <1>1, <2>1, <2>3, <2>4 DEF GoodDir
  <2> QED
    BY <1>3, <2>5 DEF EnsureSlash
<1> QED
  BY <1>2, <1>3

LEMMA NextCwds == TreeInv /\ TreeInv' /\ RootDir /\ Cwds /\ [Next]_vars => Cwds'
<1> SUFFICES ASSUME TreeInv, TreeInv', RootDir, Cwds, [Next]_vars
             PROVE  Cwds'
  OBVIOUS
<1>0. Shape /\ Named /\ Texts /\ Shape' /\ Named' /\ Texts'
  BY DEF TreeInv
<1>1. ASSUME NEW p \in Alive, NEW path \in Paths, Create(p, path) PROVE Cwds'
  <2>1. FullPath(p, path) \in Component
    BY <1>0, FullPathType DEF Alive
  <2>2. \E f, name : Grows(f, name)
    BY <1>0, <1>1, <2>1, CreateGrows
  <2>3. UNCHANGED current_dir
    BY <1>1 DEF Create
  <2> QED
    BY <1>0, <2>2, <2>3, CwdsGrow
<1>2. ASSUME NEW p \in Alive, NEW path \in Paths, CreateDir(p, path) PROVE Cwds'
  <2>1. FullPath(p, path) \in Component
    BY <1>0, FullPathType DEF Alive
  <2>2. \E f, name : Grows(f, name)
    BY <1>0, <1>2, <2>1, CreateDirGrows
  <2>3. UNCHANGED current_dir
    BY <1>2 DEF CreateDir
  <2> QED
    BY <1>0, <2>2, <2>3, CwdsGrow
<1>3. ASSUME UNCHANGED inodes,
             \A p \in Procs : \/ current_dir'[p] = NoDir \/ GoodDir(current_dir'[p])
                              \/ \E q \in Procs : current_dir'[p] = current_dir[q]
      PROVE  Cwds'
  <2> SUFFICES ASSUME NEW p \in Procs, NEW cwd \in Component, cwd = current_dir'[p], cwd # NoDir
               PROVE  GoodDir(cwd)'
    BY DEF Cwds, NoDir
  <2>1. GoodDir(cwd)
    BY <1>3 DEF Cwds
  <2> QED
    BY <1>3, <2>1, ResloveSame
<1>4. ASSUME NEW p \in Alive, NEW path \in Paths, Chdir(p, path) PROVE Cwds'
  <2>1. FullPath(p, path) \in Component /\ VerifyPathDir(FullPath(p, path))
    BY <1>0, <1>4, FullPathType DEF Alive, Chdir
  <2>2. GoodDir(EnsureSlash(FullPath(p, path)))
    BY <1>0, <2>1, ChdirGood
  <2>3. current_dir' = [current_dir EXCEPT ![p] = EnsureSlash(FullPath(p, path))] /\ UNCHANGED inodes
    BY <1>4 DEF Chdir
  <2>4. \A q \in Procs : current_dir'[q] = IF q = p THEN EnsureSlash(FullPath(p, path)) ELSE current_dir[q]
    BY <1>0, <2>3 DEF Texts
  <2> QED
    BY <1>3, <2>2, <2>3, <2>4
<1>5. GoodDir(<<Drive, Slash>>)
  BY <1>0, RootGood
<1>6. ASSUME NEW p \in Alive, NEW q \in Procs, Spawn(p, q) PROVE Cwds'
  <2>1. PICK dir \in {current_dir[p], <<Drive, Slash>>} : current_dir' = [current_dir EXCEPT ![q] = dir]
    BY <1>6 DEF Spawn
  <2>2. \A r \in Procs : current_dir'[r] = IF r = q THEN dir ELSE current_dir[r]
    BY <1>0, <2>1 DEF Texts
  <2>3. p \in Procs /\ UNCHANGED inodes
    BY <1>6 DEF Alive, Spawn
  <2> QED
    BY <1>3, <1>5, <2>1, <2>2, <2>3
<1>7. CASE UNCHANGED vars
  <2>1. UNCHANGED inodes /\ \A p \in Procs : current_dir'[p] = current_dir[p]
    BY <1>7 DEF vars
  <2> QED
    BY <1>3, <2>1
<1> QED
  BY <1>1, <1>2, <1>4, <1>6, <1>7 DEF Next

-----------------------------------------------------------------------------
(* What was created is found *)

\* A path without its trailing slash, cut at the last slash that is left.
LEMMA PlainParts ==
    ASSUME NEW full \in Component, Mounted(full), Plain(full), NEW t, t = Trimmed(full)
    PROVE  /\ t \in Component /\ Mounted(t) /\ Last(t) \notin Separators
           /\ full = t \/ full = Append(t, Slash)
           /\ \A i \in 1 .. Len(t) : t[i] # BackSlash
           /\ \A i \in 1 .. Len(t) - 1 : t[i] # Slash \/ t[i + 1] # Slash
<1>0. full \in Seq(Token) /\ Len(full) \in Nat
  BY DEF Component, Token
<1>1. PICK m \in 0 .. Len(full) :
             /\ t = SubSeq(full, 1, m)
             /\ \A i \in m + 1 .. Len(full) : full[i] = Slash
             /\ m # 0 => full[m] # Slash
  BY TrimmedIs
<1>2. t \in Component /\ t \in Seq(Token) /\ Len(t) = m /\ \A i \in 1 .. m : t[i] = full[i]
  <2>1. 1 \in 1 .. Len(full) + 1
    BY <1>0
  <2>2. /\ t \in Component
        /\ Len(t) = IF 1 <= m THEN m - 1 + 1 ELSE 0
        /\ \A i \in 1 .. m - 1 + 1 : t[i] = full[1 + i - 1]
    BY <1>1, <2>1, ComponentSub
  <2>3. m - 1 + 1 = m /\ (~ (1 <= m) => m = 0) /\ \A i \in 1 .. m : 1 + i - 1 = i
    BY <1>0
  <2> QED
    BY <2>2, <2>3 DEF Component, Token
<1>3. m = Len(full) \/ m = Len(full) - 1
  <2> SUFFICES ASSUME m # Len(full), m # Len(full) - 1
               PROVE  FALSE
    OBVIOUS
  <2>1. m + 1 \in m + 1 .. Len(full) /\ m + 2 \in m + 1 .. Len(full) /\ m + 1 \in 1 .. Len(full) - 1 /\ (m + 1) + 1 = m + 2
    BY <1>0
  <2> QED
    BY <1>1, <2>1 DEF Plain
<1>4. full = t \/ full = Append(t, Slash)
  <2>1. CASE m = Len(full)
    BY <1>0, <1>2, <2>1, SeqEqual
  <2>2. CASE m = Len(full) - 1
    <3> PICK u : u = Append(t, Slash)
      OBVIOUS
    <3>1. /\ u \in Seq(Token) /\ Len(u) = Len(full) /\ u[Len(full)] = Slash
          /\ \A i \in 1 .. m : u[i] = full[i]
      BY <1>0, <1>2, <2>2, SeparatorsAre
    <3>2. full[Len(full)] = Slash
      <4>1. Len(full) \in m + 1 .. Len(full)
        BY <1>0, <2>2
      <4> QED
        BY <1>1, <4>1
    <3>3. \A i \in 1 .. Len(full) : i \in 1 .. m \/ i = Len(full)
      BY <1>0, <2>2
    <3>4. \A i \in 1 .. Len(full) : u[i] = full[i]
      BY <3>1, <3>2, <3>3
    <3>5. u = full
      BY <1>0, <3>1, <3>4, SeqEqual
    <3> QED
      BY <3>5
  <2> QED
    BY <1>3, <2>1, <2>2
<1>5. Mounted(t)
  <2>1. CASE full = Append(t, Slash)
    <3>1. Split(full) = Append(Split(t), <<>>) /\ <<>> \in Component
      BY <1>2, <2>1, SplitSlash DEF Component
    <3> QED
      BY <1>2, <3>1, MountedMore
  <2> QED
    BY <1>4, <2>1
<1>6. \A i \in 1 .. Len(t) : t[i] # BackSlash
  BY <1>0, <1>2 DEF Plain, Range
<1>7. \A i \in 1 .. Len(t) - 1 : t[i] # Slash \/ t[i + 1] # Slash
  <2> TAKE i \in 1 .. Len(t) - 1
  <2>1. i \in 1 .. Len(full) - 1 /\ i \in 1 .. m /\ i + 1 \in 1 .. m
    BY <1>0, <1>2
  <2>2. full[i] # Slash \/ full[i + 1] # Slash
    BY <2>1 DEF Plain
  <2> QED
    BY <1>2, <2>1, <2>2
<1>8. Last(t) \notin Separators
  <2>1. t # <<>>
    BY <1>2, <1>5, MountedIs
  <2>2. m # 0 /\ m \in 1 .. m
    BY <1>2, <2>1
  <2>3. Last(t) # Slash /\ Last(t) # BackSlash
    BY <1>1, <1>2, <1>6, <2>2 DEF Last
  <2> QED
    BY <2>3, SeparatorsAre
<1> QED
  BY <1>2, <1>4, <1>5, <1>6, <1>7, <1>8

\* Where create cuts a plain path, the walk does too.
LEMMA PlainCut ==
    ASSUME NEW full \in Component, Mounted(full), Plain(full), NEW t, t = Trimmed(full),
           NameIn(full) # <<Drive>>
    PROVE  /\ t = Append(ParentText(full), Slash) \o NameIn(full)
           /\ ParentText(full) \in Component /\ NameIn(full) \in Component
           /\ Mounted(ParentText(full)) /\ Last(ParentText(full)) \notin Separators
           /\ NameIn(full) # <<>>
           /\ \A i \in 1 .. Len(NameIn(full)) : NameIn(full)[i] \notin Separators
<1>0. /\ t \in Component /\ Mounted(t) /\ Last(t) \notin Separators
      /\ \A i \in 1 .. Len(t) : t[i] # BackSlash
      /\ \A i \in 1 .. Len(t) - 1 : t[i] # Slash \/ t[i + 1] # Slash
  BY PlainParts
<1>1. t \in Seq(Token) /\ Len(t) \in Nat /\ t # <<>> /\ Len(t) # 0
  BY <1>0, MountedIs DEF Component, Token
<1> PICK ls : ls = LastSlash(t)
  OBVIOUS
<1>2. /\ ls \in 0 .. Len(t)
      /\ ls # 0 => t[ls] = Slash
      /\ \A i \in ls + 1 .. Len(t) : t[i] # Slash
  BY <1>0, LastSlashIs
<1> PICK name, par : name = NameIn(full) /\ par = ParentText(full)
  OBVIOUS
<1>3. name = SubSeq(t, ls + 1, Len(t)) /\ (ls # 0 => par = SubSeq(t, 1, ls - 1))
  BY DEF NameIn, ParentText
<1>4. ls # 0
  <2> SUFFICES ASSUME ls = 0 PROVE FALSE
    OBVIOUS
  <2>1. name = t
    BY <1>1, <1>3
  <2>2. \A i \in 1 .. Len(t) : t[i] \notin Separators
    BY <1>0, <1>2, SeparatorsAre
  <2>3. Split(t) = <<t>>
    BY <1>0, <2>2, SplitName
  <2> QED
    BY <1>0, <2>1, <2>3 DEF Mounted
<1>5. ls # Len(t)
  BY <1>0, <1>2, <1>4, SeparatorsAre DEF Last
<1>6. /\ name \in Component /\ name \in Seq(Token) /\ Len(name) = Len(t) - ls
      /\ \A i \in 1 .. Len(t) - ls : name[i] = t[ls + i]
  <2>1. ls + 1 \in 1 .. Len(t) + 1 /\ Len(t) \in 0 .. Len(t) /\ ls + 1 <= Len(t)
    BY <1>1, <1>2, <1>5
  <2>2. /\ name \in Component
        /\ Len(name) = IF ls + 1 <= Len(t) THEN Len(t) - (ls + 1) + 1 ELSE 0
        /\ \A i \in 1 .. Len(t) - (ls + 1) + 1 : name[i] = t[(ls + 1) + i - 1]
    BY <1>0, <1>3, <2>1, ComponentSub
  <2>3. Len(t) - (ls + 1) + 1 = Len(t) - ls /\ \A i \in 1 .. Len(t) - ls : (ls + 1) + i - 1 = ls + i
    BY <1>1, <1>2
  <2> QED
    BY <2>1, <2>2, <2>3 DEF Component, Token
<1>7. /\ par \in Component /\ par \in Seq(Token) /\ Len(par) = ls - 1
      /\ \A i \in 1 .. ls - 1 : par[i] = t[i]
  <2>1. 1 \in 1 .. Len(t) + 1 /\ ls - 1 \in 0 .. Len(t)
    BY <1>1, <1>2, <1>4
  <2>2. /\ par \in Component
        /\ Len(par) = IF 1 <= ls - 1 THEN (ls - 1) - 1 + 1 ELSE 0
        /\ \A i \in 1 .. (ls - 1) - 1 + 1 : par[i] = t[1 + i - 1]
    <3> PICK k : k = ls - 1
      OBVIOUS
    <3>1. k \in 0 .. Len(t) /\ par = SubSeq(t, 1, k)
      BY <1>3, <1>4, <2>1
    <3>2. /\ par \in Component
          /\ Len(par) = IF 1 <= k THEN k - 1 + 1 ELSE 0
          /\ \A i \in 1 .. k - 1 + 1 : par[i] = t[1 + i - 1]
      BY <1>0, <2>1, <3>1, ComponentSub
    <3> QED
      BY <3>2
  <2>3. (ls - 1) - 1 + 1 = ls - 1 /\ (~ (1 <= ls - 1) => ls - 1 = 0) /\ \A i \in 1 .. ls - 1 : 1 + i - 1 = i
    BY <1>2, <1>4
  <2> QED
    BY <2>2, <2>3 DEF Component, Token
<1>8. name # <<>> /\ \A i \in 1 .. Len(name) : name[i] \notin Separators
  <2>1. \A i \in 1 .. Len(name) : ls + i \in ls + 1 .. Len(t) /\ ls + i \in 1 .. Len(t)
    BY <1>1, <1>2, <1>6
  <2>2. \A i \in 1 .. Len(name) : name[i] # Slash /\ name[i] # BackSlash
    BY <1>0, <1>2, <1>6, <2>1
  <2>3. Len(name) # 0
    BY <1>1, <1>2, <1>5, <1>6
  <2> QED
    BY <2>2, <2>3, SeparatorsAre
<1>9. t = Append(par, Slash) \o name
  <2> PICK a, u : a = Append(par, Slash) /\ u = a \o name
    OBVIOUS
  <2>1. /\ a \in Seq(Token) /\ Len(a) = ls /\ a[ls] = Slash
        /\ \A i \in 1 .. ls - 1 : a[i] = t[i]
    BY <1>2, <1>4, <1>7, SeparatorsAre
  <2>2. /\ u \in Seq(Token) /\ Len(u) = Len(t)
        /\ \A i \in 1 .. ls : u[i] = a[i]
        /\ \A i \in ls + 1 .. Len(t) : u[i] = name[i - ls]
    BY <1>1, <1>2, <1>6, <2>1
  <2>3. \A i \in ls + 1 .. Len(t) : i - ls \in 1 .. Len(t) - ls /\ ls + (i - ls) = i
    BY <1>1, <1>2
  <2>4. \A i \in ls + 1 .. Len(t) : u[i] = t[i]
    <3> TAKE i \in ls + 1 .. Len(t)
    <3>1. u[i] = name[i - ls]
      BY <2>2
    <3>2. name[i - ls] = t[ls + (i - ls)]
      BY <1>6, <2>3
    <3> QED
      BY <2>3, <3>1, <3>2
  <2>5. \A i \in 1 .. ls : i \in 1 .. ls - 1 \/ i = ls
    BY <1>2
  <2>6. \A i \in 1 .. ls : u[i] = t[i]
    BY <1>2, <1>4, <2>1, <2>2, <2>5
  <2>7. \A i \in 1 .. Len(t) : i \in 1 .. ls \/ i \in ls + 1 .. Len(t)
    BY <1>1, <1>2
  <2>8. u = t
    BY <1>1, <2>2, <2>4, <2>6, <2>7, SeqEqual
  <2> QED
    BY <2>8
<1>10. Mounted(par)
  <2>1. Split(t) = Append(Split(par), name)
    BY <1>6, <1>7, <1>8, <1>9, SplitSlashName
  <2> QED
    BY <1>0, <1>6, <1>7, <2>1, MountedMore
<1>11. Last(par) \notin Separators
  <2>1. par # <<>>
    BY <1>7, <1>10, MountedIs
  <2>2. ls - 1 \in 1 .. Len(t) - 1 /\ ls - 1 \in 1 .. ls - 1 /\ ls - 1 \in 1 .. Len(t) /\ (ls - 1) + 1 = ls
    BY <1>1, <1>2, <1>7, <2>1
  <2>3. Last(par) = t[ls - 1]
    BY <1>7, <2>2 DEF Last
  <2>4. Last(par) # Slash /\ Last(par) # BackSlash
    BY <1>0, <1>2, <1>4, <2>2, <2>3
  <2> QED
    BY <2>4, SeparatorsAre
<1> QED
  BY <1>6, <1>7, <1>8, <1>9, <1>10, <1>11

\* What is created at a plain path is found there.
LEMMA CreatedNow ==
    ASSUME Shape, Named, Shape', Named', NEW full \in Component, Mounted(full), Plain(full),
           NameIn(full) \notin {<<Drive>>, <<".">>}, NEW i \in ParentOf(full),
           Grows(Final[i], NameIn(full)), NEW N, N = NextId
    PROVE  ReslovePath(full)' = {N}
<1> PICK t, par, name, f : t = Trimmed(full) /\ par = ParentText(full) /\ name = NameIn(full) /\ f = Final[i]
  OBVIOUS
<1>1. /\ t = Append(par, Slash) \o name /\ par \in Component /\ name \in Component
      /\ Mounted(par) /\ Last(par) \notin Separators
      /\ name # <<>> /\ name # <<".">> /\ \A k \in 1 .. Len(name) : name[k] \notin Separators
  BY PlainCut
<1>2. /\ t \in Component /\ Mounted(t) /\ Last(t) \notin Separators
      /\ full = t \/ full = Append(t, Slash)
  BY PlainParts
<1>3. i \in Ids /\ i \in ReslovePath(par) /\ IsDir(i) /\ Grows(f, name)
  BY DEF ParentOf
<1>4. ReslovePath(par) = {i}
  BY <1>1, <1>3, ResloveOne DEF OneFact, AtMostOne
<1>5. ReslovePath(par)' = {i}
  BY <1>1, <1>3, <1>4, ResloveGrows
<1>6. i \in Ids'
  BY <1>3 DEF Grows
<1>7. IsDir(i)'
  BY <1>3, StepGrows
<1>8. Final'[i] = f
  BY <1>3, FinalStays
<1>9. name \in DOMAIN Entries(i)' /\ Entries(i)'[name] = N
  BY <1>3, <1>8, GrowsFacts DEF Entries
<1>10. ReslovePath(Append(par, Slash) \o name)' =
         IF IsDir(i)' /\ name \in DOMAIN Entries(i)' THEN {Entries(i)'[name]} ELSE {}
  BY <1>1, <1>5, <1>6, ResloveNext DEF EntryFact
<1>11. ReslovePath(t)' = {N}
  BY <1>1, <1>7, <1>9, <1>10
<1>12. ReslovePath(Append(t, Slash))' = ReslovePath(t)'
  BY <1>2, ResloveNext DEF SlashFact
<1> QED
  BY <1>2, <1>11, <1>12

\* CreatedIsFound, with a name for the path.
Found ==
    \A c \in DOMAIN made : \A path \in Component : path = made[c] =>
        /\ Mounted(path)
        /\ Plain(path) /\ NameIn(path) \notin {<<Drive>>, <<".">>} => ReslovePath(path) = {c}

LEMMA FoundGrows ==
    ASSUME Shape, Named, Texts, Shape', Named', Found,
           NEW full \in Component, Mounted(full), NEW i \in ParentOf(full),
           Grows(Final[i], NameIn(full)), made' = With(made, NextId, full)
    PROVE  Found'
<1> SUFFICES ASSUME NEW c \in DOMAIN made', NEW path \in Component, path = made'[c]
             PROVE  /\ Mounted(path)
                    /\ Plain(path) /\ NameIn(path) \notin {<<Drive>>, <<".">>}
                         => ReslovePath(path)' = {c}
  BY DEF Found, Drive
<1> PICK N : N = NextId
  OBVIOUS
<1>1. CASE c = N
  <2>1. path = full
    BY <1>1 DEF With
  <2>2. Plain(full) /\ NameIn(full) \notin {<<Drive>>, <<".">>} => ReslovePath(full)' = {N}
    BY CreatedNow
  <2> QED
    BY <1>1, <2>1, <2>2
<1>2. CASE c # N
  <2>1. c \in DOMAIN made /\ c \in Ids /\ path = made[c]
    BY <1>2 DEF With, Texts
  <2>2. /\ Mounted(path)
        /\ Plain(path) /\ NameIn(path) \notin {<<Drive>>, <<".">>} => ReslovePath(path) = {c}
    BY <2>1 DEF Found
  <2>3. ReslovePath(path) = {c} => ReslovePath(path)' = {c}
    BY <2>1, <2>2, ResloveGrows
  <2> QED
    BY <2>2, <2>3
<1> QED
  BY <1>1, <1>2

LEMMA NextFound == TreeInv /\ TreeInv' /\ Found /\ [Next]_vars => Found'
<1> SUFFICES ASSUME TreeInv, TreeInv', Found, [Next]_vars
             PROVE  Found'
  OBVIOUS
<1>0. Shape /\ Named /\ Texts /\ Shape' /\ Named' /\ Texts'
  BY DEF TreeInv
<1>1. ASSUME NEW p \in Alive, NEW path \in Paths, Create(p, path) PROVE Found'
  <2> PICK full : full = FullPath(p, path)
    OBVIOUS
  <2>1. full \in Component /\ Mounted(full) /\ made' = With(made, NextId, full)
    BY <1>0, <1>1, FullPathType DEF Alive, Create
  <2>2. \E i \in ParentOf(full) : Grows(Final[i], NameIn(full))
    BY <1>0, <1>1, <2>1, CreateGrows
  <2> QED
    BY <1>0, <2>1, <2>2, FoundGrows
<1>2. ASSUME NEW p \in Alive, NEW path \in Paths, CreateDir(p, path) PROVE Found'
  <2> PICK full : full = FullPath(p, path)
    OBVIOUS
  <2>1. full \in Component /\ Mounted(full) /\ made' = With(made, NextId, full)
    BY <1>0, <1>2, FullPathType DEF Alive, CreateDir
  <2>2. \E i \in ParentOf(full) : Grows(Final[i], NameIn(full))
    BY <1>0, <1>2, <2>1, CreateDirGrows
  <2> QED
    BY <1>0, <2>1, <2>2, FoundGrows
<1>3. CASE UNCHANGED <<inodes, made>>
  <2>1. \A path : ReslovePath(path)' = ReslovePath(path)
    BY <1>3, ResloveSame
  <2> QED
    BY <1>3, <2>1 DEF Found, Drive
<1> QED
  BY <1>1, <1>2, <1>3 DEF Next, Chdir, Spawn, vars

LEMMA NextRootDir == TreeInv /\ RootDir /\ [Next]_vars => RootDir'
<1> SUFFICES ASSUME TreeInv, RootDir, [Next]_vars
             PROVE  RootDir'
  OBVIOUS
<1>0. Shape /\ Texts /\ Root \in Ids
  BY RootIs DEF TreeInv
<1>1. ASSUME NEW f, NEW name, Grows(f, name) PROVE RootDir'
  BY <1>0, <1>1 DEF Grows, RootDir, Root
<1>2. ASSUME NEW p \in Alive, NEW path \in Paths, Create(p, path) PROVE RootDir'
  BY <1>0, <1>1, <1>2, FullPathType, CreateGrows DEF Alive
<1>3. ASSUME NEW p \in Alive, NEW path \in Paths, CreateDir(p, path) PROVE RootDir'
  BY <1>0, <1>1, <1>3, FullPathType, CreateDirGrows DEF Alive
<1>4. CASE UNCHANGED inodes
  BY <1>4 DEF RootDir, Root
<1> QED
  BY <1>2, <1>3, <1>4 DEF Next, Chdir, Spawn, vars

PathInv == TreeInv /\ RootDir /\ Cwds /\ Found

LEMMA PathInvariant == Spec => []PathInv
<1>1. Init => PathInv
  BY InitTree, InitCwds DEF PathInv, Found, Init, Empty
<1>2. PathInv /\ [Next]_vars => PathInv'
  BY NextTree, NextRootDir, NextCwds, NextFound DEF PathInv
<1> QED
  BY <1>1, <1>2, PTL DEF Spec

\* A relative name means an entry of the current directory: get_from_path
\* appends it to the text that chdir made of the directory's path, and
\* reslove_path of the whole finds that entry or nothing.
THEOREM CwdTheorem == Spec => []CwdIsBase
<1>1. PathInv => CwdIsBase
  BY CwdsBase DEF PathInv, TreeInv
<1> QED
  BY <1>1, PathInvariant, PTL

\* A plain path that something was created by leads to it from then on:
\* reslove_path_uncreated, which create and createdir use, and reslove_path
\* agree on it, and nothing created later comes in between.
THEOREM CreatedTheorem == Spec => []CreatedIsFound
<1>1. PathInv => CreatedIsFound
  BY DEF PathInv, TreeInv, Texts, Found, CreatedIsFound
<1> QED
  BY <1>1, PathInvariant, PTL

-----------------------------------------------------------------------------
(* Bytes and descriptors *)

\* A descriptor that is in use refers to a file.
OpenHasFile == \A d \in Fds : IsOpen(d) => fd[d].node \in Files

\* What a sole writer has written is what it finds, up to its position.
SoleWriter ==
    \A d \in Fds : alone[d] =>
        /\ IsOpen(d)
        /\ Data(d) = written[d]
        /\ Len(written[d]) = fd[d].write_pos

FileInv == FileTypeOK /\ OpenHasFile /\ SoleWriter /\ ReaderKeepsPlace

-----------------------------------------------------------------------------
(* Bytes: facts about sequences *)

LEMMA SeqOfFunction ==
    ASSUME NEW S, NEW m \in Nat, NEW f \in [1 .. m -> S]
    PROVE  f \in Seq(S) /\ Len(f) = m
<1>1. f \in Seq(S)
    BY SeqDef
<1> QED BY <1>1, LenProperties

LEMMA MaxTwo ==
    ASSUME NEW a \in Nat, NEW b \in Nat
    PROVE  Max({a, b}) = IF a >= b THEN a ELSE b
BY DEF Max

LEMMA MinTwo ==
    ASSUME NEW a \in Nat, NEW b \in Nat
    PROVE  Min({a, b}) = IF a <= b THEN a ELSE b
BY DEF Min

\* What a file holds after the write of n bytes at pos.
LEMMA StoredFacts ==
    ASSUME NEW bytes \in Contents, NEW pos \in Nat, NEW d \in Fds, NEW n \in Nat,
           NEW new, new = Stored(bytes, pos, d, n)
    PROVE  /\ new \in Contents
           /\ Len(new) = IF Len(bytes) >= pos + n THEN Len(bytes) ELSE pos + n
           /\ \A i \in 1 .. Len(new) :
                new[i] = IF i \in pos + 1 .. pos + n THEN d
                         ELSE IF i <= Len(bytes) THEN bytes[i] ELSE Zero
<1> DEFINE m == IF Len(bytes) >= pos + n THEN Len(bytes) ELSE pos + n
<1>1. Len(bytes) \in Nat /\ pos + n \in Nat /\ m \in Nat
    BY DEF Contents
<1>2. new = [i \in 1 .. m |-> IF i \in pos + 1 .. pos + n THEN d
                              ELSE IF i <= Len(bytes) THEN bytes[i] ELSE Zero]
    BY <1>1, MaxTwo DEF Stored
<1> HIDE DEF m
<1>3. \A i \in 1 .. m : i <= Len(bytes) => bytes[i] \in Fds \cup {Zero}
    BY <1>1, ElementOfSeq DEF Contents
<1>4. new \in [1 .. m -> Fds \cup {Zero}]
    BY <1>2, <1>3
<1>5. new \in Contents /\ Len(new) = m
    BY <1>1, <1>4, SeqOfFunction DEF Contents
<1> QED BY <1>2, <1>5 DEF m

LEMMA PrefixFacts ==
    ASSUME NEW bytes \in Contents, NEW n \in Nat
    PROVE  /\ Prefix(bytes, n) = SubSeq(bytes, 1, IF n <= Len(bytes) THEN n ELSE Len(bytes))
           /\ Prefix(bytes, n) \in Contents
           /\ Len(Prefix(bytes, n)) = IF n <= Len(bytes) THEN n ELSE Len(bytes)
<1>1. Len(bytes) \in Nat
    BY DEF Contents
<1> DEFINE k == IF n <= Len(bytes) THEN n ELSE Len(bytes)
<1>2. Prefix(bytes, n) = SubSeq(bytes, 1, k) /\ k \in Nat /\ k <= Len(bytes)
    BY <1>1, MinTwo DEF Prefix
<1> HIDE DEF k
<1>3. \A i \in 1 .. k : bytes[i] \in Fds \cup {Zero}
    BY <1>1, <1>2, ElementOfSeq DEF Contents
<1>4. SubSeq(bytes, 1, k) \in Contents /\ Len(SubSeq(bytes, 1, k)) = k
    BY <1>2, <1>3, SubSeqProperties DEF Contents
<1> QED BY <1>2, <1>4 DEF k

LEMMA PrefixInside ==
    ASSUME NEW bytes \in Contents, NEW n \in Nat, n <= Len(bytes)
    PROVE  Prefix(bytes, n) = SubSeq(bytes, 1, n)
BY PrefixFacts

\* A write behind the end of what the file holds appends.
LEMMA StoredAppends ==
    ASSUME NEW bytes \in Contents, NEW d \in Fds, NEW n \in Nat
    PROVE  /\ [i \in 1 .. n |-> d] \in Contents
           /\ Len([i \in 1 .. n |-> d]) = n
           /\ Stored(bytes, Len(bytes), d, n) = bytes \o [i \in 1 .. n |-> d]
<1> DEFINE buf == [i \in 1 .. n |-> d]
           new == Stored(bytes, Len(bytes), d, n)
<1>1. buf \in [1 .. n -> Fds \cup {Zero}]
    OBVIOUS
<1>2. buf \in Contents /\ Len(buf) = n
    BY <1>1, SeqOfFunction DEF Contents
<1>3. \A i \in 1 .. n : buf[i] = d
    OBVIOUS
<1> HIDE DEF buf
<1>4. Len(bytes) \in Nat
    BY DEF Contents
<1>5. /\ new \in Contents /\ Len(new) = Len(bytes) + n
      /\ \A i \in 1 .. Len(new) : new[i] = IF i <= Len(bytes) THEN bytes[i] ELSE d
    <2>1. /\ new \in Contents
          /\ Len(new) = IF Len(bytes) >= Len(bytes) + n THEN Len(bytes) ELSE Len(bytes) + n
          /\ \A i \in 1 .. Len(new) :
               new[i] = IF i \in Len(bytes) + 1 .. Len(bytes) + n THEN d
                        ELSE IF i <= Len(bytes) THEN bytes[i] ELSE Zero
        BY <1>4, StoredFacts
    <2> HIDE DEF new
    <2>2. Len(new) = Len(bytes) + n
        BY <1>4, <2>1
    <2> QED BY <1>4, <2>1, <2>2
<1>6. /\ bytes \o buf \in Contents /\ Len(bytes \o buf) = Len(bytes) + n
      /\ \A i \in 1 .. Len(bytes) + n :
           (bytes \o buf)[i] = IF i <= Len(bytes) THEN bytes[i] ELSE buf[i - Len(bytes)]
    BY <1>2, ConcatProperties DEF Contents
<1>7. \A i \in 1 .. Len(bytes) + n : new[i] = (bytes \o buf)[i]
    <2> HIDE DEF new
    <2> TAKE i \in 1 .. Len(bytes) + n
    <2>1. i > Len(bytes) => i - Len(bytes) \in 1 .. n
        BY <1>4
    <2> QED BY <1>3, <1>4, <1>5, <1>6, <2>1
<1>8. new = bytes \o buf
    <2> HIDE DEF new
    <2> QED BY <1>5, <1>6, <1>7, SeqEqual DEF Contents
<1> QED BY <1>2, <1>8 DEF buf

-----------------------------------------------------------------------------
(* Bytes: the induction *)

Descriptor == [node : Files \cup {Zero}, read_pos : 0 .. MaxSize, write_pos : 0 .. MaxSize]

LEMMA ClosedType == Closed \in Descriptor /\ MaxSize \in Nat /\ <<>> \in Contents
BY CountsAssumption, EmptySeq DEF Closed, Descriptor, Contents

\* The types of an open descriptor and its file
LEMMA OpenFacts ==
    ASSUME FileInv, NEW d \in Fds, IsOpen(d)
    PROVE  /\ fd[d].node \in Files /\ Data(d) \in Contents /\ Len(Data(d)) \in Nat
           /\ Len(Data(d)) <= MaxSize /\ MaxSize \in Nat
           /\ fd[d].read_pos \in 0 .. MaxSize /\ fd[d].write_pos \in 0 .. MaxSize
<1>1. fd[d].node \in Files
    BY DEF FileInv, OpenHasFile
<1>2. Data(d) \in Contents /\ Len(Data(d)) <= MaxSize
    BY <1>1 DEF FileInv, FileTypeOK, Data
<1>3. fd[d].read_pos \in 0 .. MaxSize /\ fd[d].write_pos \in 0 .. MaxSize
    BY DEF FileInv, FileTypeOK
<1> QED BY <1>1, <1>2, <1>3, ClosedType DEF Contents

LEMMA Initially == FileInit => FileInv
<1> SUFFICES ASSUME FileInit PROVE FileInv
    OBVIOUS
<1>1. FileTypeOK
    <2>1. Len(<<>>) = 0 /\ \A f \in Files : Len(data[f]) <= MaxSize
        BY ClosedType DEF FileInit
    <2>2. fd \in [Fds -> Descriptor]
        BY ClosedType DEF FileInit
    <2> QED BY <2>1, <2>2, ClosedType DEF FileInit, FileTypeOK, Descriptor
<1>2. \A d \in Fds : ~ IsOpen(d) /\ ~ alone[d]
    BY DEF FileInit, IsOpen
<1> QED BY <1>1, <1>2 DEF FileInv, OpenHasFile, SoleWriter, ReaderKeepsPlace

\* Opening and closing: the descriptor starts anew.
LEMMA ForgetKeeps ==
    ASSUME FileInv, NEW d \in Fds, Forget(d), UNCHANGED <<data, panicked>>,
           NEW f \in Descriptor, fd' = [fd EXCEPT ![d] = f],
           f = Closed \/ (f.node \in Files /\ f.read_pos = 0)
    PROVE  FileInv'
<1>1. /\ fd'[d] = f /\ \A e \in Fds : e # d => fd'[e] = fd[e]
      /\ written'[d] = <<>> /\ \A e \in Fds : e # d => written'[e] = written[e]
      /\ alone'[d] = FALSE /\ \A e \in Fds : e # d => alone'[e] = alone[e]
      /\ got'[d] = <<>> /\ \A e \in Fds : e # d => got'[e] = got[e]
      /\ \A e \in Fds : e # d => fresh'[e] = fresh[e]
    BY DEF Forget, FileInv, FileTypeOK, Descriptor
<1>2. FileTypeOK'
    <2>1. fd' \in [Fds -> Descriptor]
        BY DEF FileInv, FileTypeOK, Descriptor
    <2>2. /\ written' \in [Fds -> Contents] /\ got' \in [Fds -> Contents]
          /\ alone' \in [Fds -> BOOLEAN] /\ fresh' \in [Fds -> BOOLEAN]
        BY ClosedType DEF Forget, FileInv, FileTypeOK
    <2> QED BY <2>1, <2>2 DEF FileInv, FileTypeOK, Descriptor
<1>3. OpenHasFile'
    BY <1>1 DEF FileInv, OpenHasFile, IsOpen
<1>4. SoleWriter'
    BY <1>1 DEF FileInv, SoleWriter, IsOpen, Data
<1>5. ReaderKeepsPlace'
    <2>1. ASSUME IsOpen(d)'
          PROVE  fd'[d].read_pos <= Len(Data(d)') /\ got'[d] = Prefix(Data(d)', fd'[d].read_pos)
        <3>1. f.node \in Files /\ f.read_pos = 0
            BY <1>1, <2>1 DEF IsOpen
        <3>2. Data(d)' = data[f.node] /\ data[f.node] \in Contents
            BY <1>1, <3>1 DEF Data, FileInv, FileTypeOK
        <3>3. /\ Prefix(data[f.node], 0) \in Contents
              /\ Len(data[f.node]) \in Nat /\ Len(Prefix(data[f.node], 0)) = 0
            BY <3>2, PrefixFacts DEF Contents
        <3>4. Prefix(data[f.node], 0) = <<>>
            BY <3>3, EmptySeq DEF Contents
        <3> QED BY <1>1, <3>1, <3>2, <3>3, <3>4
    <2>2. \A e \in Fds : e # d => (IsOpen(e)' <=> IsOpen(e)) /\ Data(e)' = Data(e)
        BY <1>1 DEF IsOpen, Data
    <2> QED BY <1>1, <2>1, <2>2 DEF FileInv, ReaderKeepsPlace
<1> QED BY <1>2, <1>3, <1>4, <1>5 DEF FileInv

LEMMA OpenKeeps == ASSUME FileInv, NEW d \in Fds, Open(d) PROVE FileInv'
<1>1. PICK f \in Files :
         fd' = [fd EXCEPT ![d] = [node |-> f, read_pos |-> 0, write_pos |-> 0]]
    BY DEF Open
<1>2. [node |-> f, read_pos |-> 0, write_pos |-> 0] \in Descriptor
    BY ClosedType DEF Descriptor
<1> QED BY <1>1, <1>2, ForgetKeeps DEF Open

LEMMA CloseKeeps == ASSUME FileInv, NEW d \in Fds, Close(d) PROVE FileInv'
BY ClosedType, ForgetKeeps DEF Close

\* The clone has the position and the past of the original.
LEMMA CloneKeeps == ASSUME FileInv, NEW d \in Fds, NEW e \in Fds, Clone(d, e) PROVE FileInv'
<1>1. /\ UNCHANGED <<data, panicked>> /\ IsOpen(d)
      /\ fd'[e] = fd[d] /\ \A c \in Fds : c # e => fd'[c] = fd[c]
      /\ written'[e] = written[d] /\ \A c \in Fds : c # e => written'[c] = written[c]
      /\ alone'[e] = alone[d] /\ \A c \in Fds : c # e => alone'[c] = alone[c]
      /\ got'[e] = got[d] /\ \A c \in Fds : c # e => got'[c] = got[c]
      /\ fresh'[e] = fresh[d] /\ \A c \in Fds : c # e => fresh'[c] = fresh[c]
    BY DEF Clone, FileInv, FileTypeOK
<1>2. FileTypeOK'
    <2>1. fd' \in [Fds -> Descriptor]
        BY DEF Clone, FileInv, FileTypeOK, Descriptor
    <2>2. /\ written' \in [Fds -> Contents] /\ got' \in [Fds -> Contents]
          /\ alone' \in [Fds -> BOOLEAN] /\ fresh' \in [Fds -> BOOLEAN]
        BY DEF Clone, FileInv, FileTypeOK
    <2> QED BY <1>1, <2>1, <2>2 DEF FileInv, FileTypeOK, Descriptor
<1>3. \A c \in Fds : \E b \in Fds :
         /\ fd'[c] = fd[b] /\ written'[c] = written[b] /\ alone'[c] = alone[b]
         /\ got'[c] = got[b] /\ fresh'[c] = fresh[b]
    BY <1>1
<1>4. OpenHasFile'
    BY <1>3 DEF FileInv, OpenHasFile, IsOpen
<1>5. SoleWriter'
    BY <1>1, <1>3 DEF FileInv, SoleWriter, IsOpen, Data
<1>6. ReaderKeepsPlace'
    BY <1>1, <1>3 DEF FileInv, ReaderKeepsPlace, IsOpen, Data
<1> QED BY <1>2, <1>4, <1>5, <1>6 DEF FileInv

\* What is read continues what was read.
LEMMA ReadKeeps ==
    ASSUME FileInv, NEW d \in Fds, NEW n \in Counts, Read(d, n)
    PROVE  FileInv'
<1> DEFINE c == ReadCount(d, n)
           r == fd[d].read_pos
           piece == SubSeq(Data(d), r + 1, r + c)
<1>1. /\ IsOpen(d) /\ c >= 0 /\ UNCHANGED <<data, panicked, written, alone, fresh>>
      /\ fd' = [fd EXCEPT ![d].read_pos = r + c]
      /\ got' = [got EXCEPT ![d] = got[d] \o piece]
    BY DEF Read, Advance
<1>2. /\ fd[d].node \in Files /\ Data(d) \in Contents /\ Len(Data(d)) \in Nat
      /\ Len(Data(d)) <= MaxSize /\ MaxSize \in Nat /\ r \in 0 .. MaxSize /\ n \in Nat
    BY <1>1, OpenFacts, CountsAssumption
<1>3. c \in Nat /\ r + c <= Len(Data(d)) /\ r <= Len(Data(d))
    BY <1>1, <1>2 DEF ReadCount
<1> HIDE DEF c, r
<1>4. piece \in Contents
    <2>1. \A i \in r + 1 .. r + c : Data(d)[i] \in Fds \cup {Zero}
        BY <1>2, <1>3, ElementOfSeq DEF Contents
    <2> QED BY <1>2, <1>3, <2>1, SubSeqProperties DEF Contents
<1>5. got[d] \o piece \in Contents
    <2>1. got[d] \in Contents
        BY DEF FileInv, FileTypeOK
    <2> QED BY <1>4, <2>1, ConcatProperties DEF Contents
<1>6. /\ fd'[d].node = fd[d].node /\ fd'[d].read_pos = r + c
      /\ fd'[d].write_pos = fd[d].write_pos
      /\ fd' \in [Fds -> Descriptor]
      /\ \A e \in Fds : e # d => fd'[e] = fd[e]
    <2> DEFINE f == [fd[d] EXCEPT !.read_pos = r + c]
    <2>1. fd \in [Fds -> Descriptor] /\ fd' = [fd EXCEPT ![d] = f]
        BY <1>1 DEF FileInv, FileTypeOK, Descriptor
    <2>2. r + c \in 0 .. MaxSize
        BY <1>2, <1>3
    <2>3. /\ f \in Descriptor /\ f.node = fd[d].node /\ f.read_pos = r + c
          /\ f.write_pos = fd[d].write_pos
        BY <2>1, <2>2 DEF Descriptor
    <2> HIDE DEF f
    <2> QED BY <2>1, <2>3
<1>7. got'[d] = got[d] \o piece /\ \A e \in Fds : e # d => got'[e] = got[e]
    <2> HIDE DEF piece
    <2> QED BY <1>1 DEF FileInv, FileTypeOK
<1>8. FileTypeOK'
    <2>1. got' \in [Fds -> Contents]
        <3> HIDE DEF piece
        <3> QED BY <1>1, <1>5 DEF FileInv, FileTypeOK
    <2> QED BY <1>1, <1>6, <2>1 DEF FileInv, FileTypeOK, Descriptor
<1>9. \A e \in Fds : (e # d => (IsOpen(e)' <=> IsOpen(e))) /\ Data(e)' = Data(e)
    BY <1>1, <1>6 DEF IsOpen, Data
<1>10. OpenHasFile'
    BY <1>2, <1>6, <1>9 DEF FileInv, OpenHasFile
<1>11. SoleWriter'
    <2>1. alone[d] => IsOpen(d)'
        <3>1. r = 0 /\ c = 0 => fd'[d] = fd[d]
            BY <1>1, <1>6 DEF r, FileInv, FileTypeOK
        <3>2. ~ (r = 0 /\ c = 0) => fd'[d].read_pos # 0
            BY <1>2, <1>3, <1>6
        <3> QED BY <1>1, <3>1, <3>2 DEF IsOpen, Closed
    <2> QED BY <1>1, <1>6, <1>9, <2>1 DEF FileInv, SoleWriter
<1>12. ReaderKeepsPlace'
    <2>1. ASSUME fresh[d]
          PROVE  /\ fd'[d].read_pos <= Len(Data(d)')
                 /\ got'[d] = Prefix(Data(d)', fd'[d].read_pos)
        <3>1. got[d] = Prefix(Data(d), r)
            BY <1>1, <2>1 DEF FileInv, ReaderKeepsPlace, r
        <3>2. got[d] = SubSeq(Data(d), 1, r)
            <4>1. r \in Nat
                BY <1>2
            <4> QED BY <1>2, <1>3, <3>1, <4>1, PrefixInside
        <3>3. SubSeq(Data(d), 1, r) \o piece = SubSeq(Data(d), 1, r + c)
            BY <1>2, <1>3, ConcatAdjacentSubSeq DEF Contents
        <3>4. Prefix(Data(d), r + c) = SubSeq(Data(d), 1, r + c)
            <4>1. r + c \in Nat
                BY <1>2, <1>3
            <4> QED BY <1>2, <1>3, <4>1, PrefixInside
        <3> QED BY <1>3, <1>6, <1>7, <1>9, <3>2, <3>3, <3>4
    <2> QED BY <1>1, <1>6, <1>7, <1>9, <2>1 DEF FileInv, ReaderKeepsPlace
<1> QED BY <1>8, <1>10, <1>11, <1>12 DEF FileInv

\* A sole writer appends; whoever else has the file open is no sole writer any
\* more; and whoever has read bytes that the write leaves alone keeps its place.
LEMMA WriteKeeps ==
    ASSUME FileInv, NEW d \in Fds, NEW n \in Counts, Write(d, n)
    PROVE  FileInv'
<1> DEFINE pos == fd[d].write_pos
           buf == [i \in 1 .. n |-> d]
           new == Stored(Kept(d), pos, d, n)
<1>1. /\ IsOpen(d) /\ pos + n <= MaxSize /\ UNCHANGED <<panicked, got>>
      /\ data' = [data EXCEPT ![fd[d].node] = new]
      /\ fd' = [fd EXCEPT ![d].write_pos = pos + n]
      /\ written' = [written EXCEPT ![d] = IF pos = 0 THEN buf ELSE written[d] \o buf]
      /\ alone' = [e \in Fds |-> CASE e = d -> alone[d] \/ pos = 0
                                   [] e \in Same(d) \ {d} -> FALSE
                                   [] OTHER -> alone[e]]
      /\ fresh' = [e \in Fds |->
                      fresh[e] /\ (e \in Same(d) =>
                          Prefix(new, fd[e].read_pos) = Prefix(Data(d), fd[e].read_pos))]
    BY DEF Write
<1>2. /\ fd[d].node \in Files /\ Data(d) \in Contents /\ Len(Data(d)) \in Nat
      /\ Len(Data(d)) <= MaxSize /\ MaxSize \in Nat /\ pos \in 0 .. MaxSize /\ n \in Nat
    BY <1>1, OpenFacts, CountsAssumption
<1>3. Kept(d) \in Contents /\ Len(Kept(d)) \in Nat /\ Len(Kept(d)) <= MaxSize
    <2>1. Len(<<>>) = 0
        OBVIOUS
    <2> QED BY <1>2, <2>1, ClosedType DEF Kept
<1>4. /\ new \in Contents /\ Len(new) \in Nat
      /\ Len(new) = IF Len(Kept(d)) >= pos + n THEN Len(Kept(d)) ELSE pos + n
    BY <1>2, <1>3, StoredFacts, SMTT(60) DEF Contents
<1>5. buf \in Contents /\ Len(buf) = n
    BY <1>2, <1>3, StoredAppends
<1> HIDE DEF buf, new
<1>6. Len(new) <= MaxSize
    BY <1>1, <1>2, <1>3, <1>4
<1>7. /\ fd'[d].node = fd[d].node /\ fd'[d].read_pos = fd[d].read_pos
      /\ fd'[d].write_pos = pos + n
      /\ fd' \in [Fds -> Descriptor]
      /\ \A e \in Fds : e # d => fd'[e] = fd[e]
    <2> DEFINE f == [fd[d] EXCEPT !.write_pos = pos + n]
    <2>1. fd \in [Fds -> Descriptor] /\ fd' = [fd EXCEPT ![d] = f]
        BY <1>1 DEF FileInv, FileTypeOK, Descriptor
    <2>2. pos + n \in 0 .. MaxSize
        BY <1>1, <1>2
    <2>3. /\ f \in Descriptor /\ f.node = fd[d].node /\ f.write_pos = pos + n
          /\ f.read_pos = fd[d].read_pos
        BY <2>1, <2>2 DEF Descriptor
    <2> HIDE DEF f
    <2> QED BY <2>1, <2>3
<1>8. IsOpen(d)'
    <2>1. pos = 0 /\ n = 0 => fd'[d] = fd[d]
        BY <1>1, <1>7 DEF FileInv, FileTypeOK
    <2>2. ~ (pos = 0 /\ n = 0) => fd'[d].write_pos # 0
        BY <1>2, <1>7
    <2> QED BY <1>1, <2>1, <2>2 DEF IsOpen, Closed
<1>9. /\ data'[fd[d].node] = new
      /\ \A f \in Files : f # fd[d].node => data'[f] = data[f]
    BY <1>1, <1>2 DEF FileInv, FileTypeOK
<1>10. /\ \A e \in Fds : IsOpen(e)' <=> IsOpen(e)
       /\ \A e \in Same(d) : Data(e)' = new /\ Data(e) = Data(d)
       /\ \A e \in Fds \ Same(d) : IsOpen(e) => Data(e)' = Data(e)
       /\ d \in Same(d)
    <2>1. \A e \in Fds : (IsOpen(e)' <=> IsOpen(e)) /\ fd'[e].node = fd[e].node
        BY <1>1, <1>7, <1>8 DEF IsOpen
    <2>2. \A e \in Same(d) : Data(e)' = new /\ Data(e) = Data(d)
        BY <1>9, <2>1 DEF Same, Data
    <2>3. \A e \in Fds \ Same(d) : IsOpen(e) => fd[e].node \in Files /\ fd[e].node # fd[d].node
        BY DEF Same, FileInv, OpenHasFile
    <2> QED BY <1>1, <1>9, <2>1, <2>2, <2>3 DEF Same, Data
<1>11. /\ \A e \in Fds : e # d => written'[e] = written[e]
       /\ written'[d] = IF pos = 0 THEN buf ELSE written[d] \o buf
    BY <1>1 DEF FileInv, FileTypeOK
<1>12. FileTypeOK'
    <2>1. data' \in [Files -> Contents] /\ \A f \in Files : Len(data'[f]) <= MaxSize
        BY <1>1, <1>4, <1>6, <1>9 DEF FileInv, FileTypeOK
    <2>2. written' \in [Fds -> Contents]
        <3>1. written[d] \o buf \in Contents
            BY <1>5, ConcatProperties DEF FileInv, FileTypeOK, Contents
        <3> QED BY <1>1, <1>5, <3>1 DEF FileInv, FileTypeOK
    <2>3. alone' \in [Fds -> BOOLEAN]
        <3>1. \A e \in Fds : alone[e] \in BOOLEAN
            BY DEF FileInv, FileTypeOK
        <3>2. ASSUME NEW e \in Fds PROVE alone'[e] \in BOOLEAN
            <4>1. CASE e = d
                BY <1>1, <3>1, <4>1
            <4>2. CASE e \in Same(d) \ {d}
                BY <1>1, <4>2
            <4>3. CASE e # d /\ e \notin Same(d) \ {d}
                BY <1>1, <3>1, <4>3
            <4> QED BY <4>1, <4>2, <4>3
        <3>3. alone' = [e \in Fds |-> alone'[e]]
            BY <1>1
        <3> QED BY <3>2, <3>3
    <2>4. fresh' \in [Fds -> BOOLEAN]
        BY <1>1 DEF FileInv, FileTypeOK
    <2> QED BY <1>1, <1>7, <2>1, <2>2, <2>3, <2>4 DEF FileInv, FileTypeOK, Descriptor
<1>13. OpenHasFile'
    BY <1>7, <1>10 DEF FileInv, OpenHasFile
<1>14. SoleWriter'
    <2>1. ASSUME alone'[d]
          PROVE  new = written'[d] /\ Len(written'[d]) = pos + n
        <3>1. alone[d] \/ pos = 0
            BY <1>1, <2>1
        <3>2. CASE pos = 0
            <4>1. Kept(d) = <<>> /\ Len(<<>>) = 0
                BY <3>2 DEF Kept
            <4>2. Stored(<<>>, 0, d, n) = <<>> \o buf
                <5>1. \A old \in Contents : Stored(old, Len(old), d, n) = old \o buf
                    BY <1>2, StoredAppends DEF buf
                <5> QED BY <4>1, <5>1, ClosedType
            <4>3. <<>> \o buf = buf
                BY <1>5, ConcatEmptySeq DEF Contents
            <4>4. new = buf
                BY <3>2, <4>1, <4>2, <4>3 DEF new
            <4> QED BY <1>2, <1>5, <1>11, <3>2, <4>4
        <3>3. CASE pos # 0
            <4>1. /\ Kept(d) = Data(d) /\ Data(d) = written[d] /\ Len(written[d]) = pos
                BY <3>1, <3>3 DEF Kept, FileInv, SoleWriter
            <4>2. new = Data(d) \o buf
                <5>1. \A old \in Contents : Stored(old, Len(old), d, n) = old \o buf
                    BY <1>2, StoredAppends DEF buf
                <5>2. new = Stored(Data(d), Len(Data(d)), d, n)
                    BY <4>1 DEF new
                <5> QED BY <1>2, <5>1, <5>2
            <4>3. Len(Data(d) \o buf) = Len(Data(d)) + n
                BY <1>2, <1>5, ConcatProperties DEF Contents
            <4> QED BY <1>11, <3>3, <4>1, <4>2, <4>3
        <3> QED BY <3>2, <3>3
    <2>2. ASSUME NEW e \in Fds, e # d, alone'[e]
          PROVE  e \notin Same(d) /\ alone[e]
        <3>1. e \notin Same(d)
            BY <1>1, <2>2
        <3> QED BY <1>1, <2>2, <3>1
    <2>3. ASSUME NEW e \in Fds, alone'[e]
          PROVE  IsOpen(e)' /\ Data(e)' = written'[e] /\ Len(written'[e]) = fd'[e].write_pos
        <3>1. CASE e = d
            BY <1>7, <1>8, <1>10, <2>1, <2>3, <3>1
        <3>2. CASE e # d
            BY <1>7, <1>10, <1>11, <2>2, <2>3, <3>2 DEF FileInv, SoleWriter
        <3> QED BY <3>1, <3>2
    <2> QED BY <2>3 DEF SoleWriter
<1>15. ReaderKeepsPlace'
    <2>1. ASSUME NEW e \in Fds, IsOpen(e)', fresh'[e]
          PROVE  /\ fd'[e].read_pos <= Len(Data(e)')
                 /\ got'[e] = Prefix(Data(e)', fd'[e].read_pos)
        <3> DEFINE r == fd[e].read_pos
        <3>1. /\ fd'[e].read_pos = r /\ IsOpen(e) /\ fresh[e]
              /\ e \in Same(d) => Prefix(new, r) = Prefix(Data(d), r)
            BY <1>1, <1>7, <1>10, <2>1
        <3>2. r <= Len(Data(e)) /\ got[e] = Prefix(Data(e), r)
            BY <3>1 DEF FileInv, ReaderKeepsPlace
        <3>3. CASE e \notin Same(d)
            BY <1>1, <1>10, <3>1, <3>2, <3>3
        <3>4. CASE e \in Same(d)
            <4>1. Data(e)' = new /\ Data(e) = Data(d) /\ r \in Nat
                BY <1>2, <1>10, <3>1, <3>4, OpenFacts
            <4> HIDE DEF r
            <4>2. /\ Len(Prefix(Data(d), r)) = r
                  /\ Len(Prefix(new, r)) = IF r <= Len(new) THEN r ELSE Len(new)
                BY <1>2, <1>4, <3>2, <4>1, PrefixFacts
            <4>3. r <= Len(new)
                BY <1>4, <3>1, <3>4, <4>1, <4>2
            <4> QED BY <1>1, <3>1, <3>2, <3>4, <4>1, <4>3
        <3> QED BY <3>3, <3>4
    <2> QED BY <2>1 DEF ReaderKeepsPlace
<1> QED BY <1>12, <1>13, <1>14, <1>15 DEF FileInv

LEMMA NextKeeps == FileInv /\ [FileNext]_FileVars => FileInv'
<1> SUFFICES ASSUME FileInv, [FileNext]_FileVars PROVE FileInv'
    OBVIOUS
<1>1. CASE UNCHANGED <<data, fd, history>> /\ panicked' \in BOOLEAN
    BY <1>1 DEF history, FileInv, FileTypeOK, OpenHasFile, SoleWriter, ReaderKeepsPlace,
                IsOpen, Data
<1>2. CASE UNCHANGED FileVars
    BY <1>1, <1>2 DEF FileVars, FileInv, FileTypeOK
<1>3. ASSUME NEW d \in Fds, NEW n \in Counts, ReadPanics(d, n) PROVE FileInv'
    BY <1>1, <1>3 DEF ReadPanics
<1> QED BY <1>2, <1>3, OpenKeeps, CloseKeeps, CloneKeeps, ReadKeeps, WriteKeeps DEF FileNext

LEMMA Invariance == FileSpec => []FileInv
BY Initially, NextKeeps, PTL DEF FileSpec

-----------------------------------------------------------------------------
\* A descriptor behind which nobody else has written finds the file to be what
\* it wrote since it emptied it, for any number of files, descriptors and
\* clones and any lengths of writes.
THEOREM WriterOwnsFile == FileSpec => []SoleWriterOwnsFile
<1>1. FileInv => SoleWriterOwnsFile
    BY DEF FileInv, SoleWriter, SoleWriterOwnsFile
<1> QED BY <1>1, Invariance, PTL

\* A reader whose bytes nobody touched has read the file from its start, and
\* its position is inside the file: its next read cannot underflow.
THEOREM ReaderInFile == FileSpec => []ReaderKeepsPlace
<1>1. FileInv => ReaderKeepsPlace
    BY DEF FileInv
<1> QED BY <1>1, Invariance, PTL

\* A read panics the kernel only at a descriptor of which somebody has cut off
\* or overwritten bytes that it had read.
THEOREM PanicNeedsTruncation ==
    FileSpec => [][\A d \in Fds, n \in Counts : ReadPanics(d, n) => ~ fresh[d]]_FileVars
<1>1. ASSUME FileInv, NEW d \in Fds, NEW n \in Counts, ReadPanics(d, n)
      PROVE  ~ fresh[d]
    <2>1. IsOpen(d) /\ ReadCount(d, n) < 0
        BY <1>1 DEF ReadPanics
    <2>2. /\ Len(Data(d)) \in Nat /\ fd[d].read_pos \in Nat /\ n \in Nat
        BY <1>1, <2>1, OpenFacts, CountsAssumption
    <2>3. fd[d].read_pos > Len(Data(d))
        BY <2>1, <2>2 DEF ReadCount
    <2> QED BY <1>1, <2>1, <2>2, <2>3 DEF FileInv, ReaderKeepsPlace
<1>2. FileInv => [\A d \in Fds, n \in Counts : ReadPanics(d, n) => ~ fresh[d]]_FileVars
    BY <1>1
<1> QED BY <1>2, Invariance, PTL
=============================================================================
