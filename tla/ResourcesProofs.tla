--------------------------- MODULE ResourcesProofs ---------------------------
(***************************************************************************)
(* Proofs about Resources, for any processes, objects and table length.    *)
(* NoHoleMissed is inductive together with TypeOK; it is what makes a      *)
(* search that starts at next_ri find the lowest free index of the table.  *)
(***************************************************************************)
EXTENDS Resources, TLAPS

Inv == TypeOK /\ NoHoleMissed

\* One manager is sound: its Vec has the recorded length, and no hole is below
\* next_ri.
Sound(vec, n, ri) ==
    /\ n \in 0 .. MaxFds
    /\ ri \in 0 .. n
    /\ vec \in [0 .. n - 1 -> Open \cup {Null}]
    /\ \A i \in 0 .. ri - 1 : vec[i] # Null

\* A resource is not Null.
LEMMA OpenNotNull == \A r \in Open : r # Null
BY DEF Open, File, DirIter, Null

\* The invariant says that the manager of every process is sound.
LEMMA InvSound ==
    ASSUME DOMAIN resources = Procs, len \in [Procs -> 0 .. MaxFds],
           next_ri \in [Procs -> Nat], state \in [Procs -> {"Unborn", "Alive", "Dead"}]
    PROVE  Inv <=> \A p \in Procs : Sound(resources[p], len[p], next_ri[p])
<1>1. \A p \in Procs : len[p] \in 0 .. MaxFds /\ next_ri[p] \in Nat
  OBVIOUS
<1> QED
  BY <1>1, MaxFdsAssumption DEF Inv, TypeOK, NoHoleMissed, Sound, Index

\* The manager of a new process is sound.
LEMMA EmptySound == Sound(Empty, 0, 0)
BY MaxFdsAssumption DEF Sound, Empty

\* add_resource keeps a manager sound.
LEMMA AddSound ==
    ASSUME Inv, NEW p \in Procs, NEW r \in Open, NEW ri \in 0 .. MaxFds - 1, IsSlot(p, ri)
    PROVE  /\ Sound(Placed(p, ri, r), LenWith(p, ri), ri)
           /\ Sound(Placed(p, ri, r), LenWith(p, ri), 0)
<1>1. /\ len[p] \in 0 .. MaxFds /\ next_ri[p] \in 0 .. len[p]
      /\ resources[p] \in [0 .. len[p] - 1 -> Open \cup {Null}]
      /\ \A i \in 0 .. next_ri[p] - 1 : resources[p][i] # Null
  BY MaxFdsAssumption DEF Inv, TypeOK, NoHoleMissed, Index
<1>2. ri \in next_ri[p] .. len[p] /\ \A i \in next_ri[p] .. ri - 1 : resources[p][i] # Null
  BY DEF IsSlot
<1>3. \A i \in 0 .. ri - 1 : i \in 0 .. len[p] - 1 /\ resources[p][i] # Null
  BY <1>1, <1>2
<1>4. LenWith(p, ri) \in 0 .. MaxFds /\ ri \in 0 .. LenWith(p, ri) - 1
  BY <1>1, <1>2, MaxFdsAssumption DEF LenWith
<1>5. Placed(p, ri, r) \in [0 .. LenWith(p, ri) - 1 -> Open \cup {Null}]
  BY <1>1, <1>2 DEF Placed, LenWith
<1>6. \A i \in 0 .. ri - 1 : Placed(p, ri, r)[i] # Null
  BY <1>1, <1>2, <1>3 DEF Placed
<1> QED
  BY <1>4, <1>5, <1>6, MaxFdsAssumption DEF Sound

\* remove_resource keeps a manager sound.
LEMMA RemoveSound ==
    ASSUME Inv, NEW p \in Procs, NEW ri \in Index(p)
    PROVE  Sound([resources[p] EXCEPT ![ri] = Null], len[p],
                 IF ri < next_ri[p] THEN ri ELSE next_ri[p])
<1>1. /\ len[p] \in 0 .. MaxFds /\ next_ri[p] \in 0 .. len[p]
      /\ resources[p] \in [0 .. len[p] - 1 -> Open \cup {Null}]
      /\ \A i \in 0 .. next_ri[p] - 1 : resources[p][i] # Null
  BY MaxFdsAssumption DEF Inv, TypeOK, NoHoleMissed, Index
<1> QED
  BY <1>1, MaxFdsAssumption DEF Sound, Index

\* What soundness says of next_ri.
LEMMA SoundNext ==
    ASSUME NEW v, NEW n, NEW ri, Sound(v, n, ri)
    PROVE  ri <= n /\ \A i \in 0 .. ri - 1 : v[i] # Null
BY MaxFdsAssumption DEF Sound

\* A step that gives one or two processes sound managers keeps the invariant.
LEMMA UpdateInv ==
    ASSUME Inv, NEW p \in Procs, NEW q \in Procs,
           NEW v, NEW n, NEW ri, Sound(v, n, ri), NEW w, NEW m, NEW rj, Sound(w, m, rj),
           resources' = [resources EXCEPT ![p] = v, ![q] = w],
           len' = [len EXCEPT ![p] = n, ![q] = m],
           next_ri' = [next_ri EXCEPT ![p] = ri, ![q] = rj],
           state' \in [Procs -> {"Unborn", "Alive", "Dead"}]
    PROVE  Inv'
<1>1. /\ DOMAIN resources = Procs /\ len \in [Procs -> 0 .. MaxFds]
      /\ next_ri \in [Procs -> Nat] /\ state \in [Procs -> {"Unborn", "Alive", "Dead"}]
  BY DEF Inv, TypeOK
<1>2. \A k \in Procs : Sound(resources[k], len[k], next_ri[k])
  BY <1>1, InvSound
<1>3. n \in 0 .. MaxFds /\ m \in 0 .. MaxFds /\ ri \in Nat /\ rj \in Nat
  BY DEF Sound
<1>4. /\ DOMAIN resources' = Procs /\ len' \in [Procs -> 0 .. MaxFds]
      /\ next_ri' \in [Procs -> Nat]
  BY <1>1, <1>3
<1>5. ASSUME NEW k \in Procs
      PROVE  Sound(resources'[k], len'[k], next_ri'[k])
  <2>1. CASE k = q
    BY <1>1, <2>1
  <2>2. CASE k = p /\ k # q
    BY <1>1, <2>2
  <2>3. CASE k # p /\ k # q
    <3>1. resources'[k] = resources[k] /\ len'[k] = len[k] /\ next_ri'[k] = next_ri[k]
      BY <1>1, <2>3
    <3> QED
      BY <1>2, <3>1
  <2> QED
    BY <2>1, <2>2, <2>3
<1> QED
  <2>1. \A k \in Procs : resources'[k] \in [0 .. len'[k] - 1 -> Open \cup {Null}]
    BY <1>5 DEF Sound
  <2>2. TypeOK'
    BY <1>4, <2>1 DEF TypeOK, Index
  <2>3. NoHoleMissed'
    <3> SUFFICES ASSUME NEW k \in Procs
                 PROVE  /\ next_ri'[k] <= len'[k]
                        /\ \A i \in 0 .. next_ri'[k] - 1 : resources'[k][i] # Null
      BY DEF NoHoleMissed
    <3>1. Sound(resources'[k], len'[k], next_ri'[k])
      BY <1>5
    <3> QED
      BY <3>1, SoundNext
  <2> QED
    BY <2>2, <2>3 DEF Inv

\* add_resource, remove_resource, spawn, pspawn and exit keep the invariant.
LEMMA NextInv == Inv /\ [Next]_vars => Inv'
<1> SUFFICES ASSUME Inv, [Next]_vars PROVE Inv'
  OBVIOUS
<1> DEFINE States == {"Unborn", "Alive", "Dead"}
<1>1. /\ DOMAIN resources = Procs /\ len \in [Procs -> 0 .. MaxFds]
      /\ next_ri \in [Procs -> Nat] /\ state \in [Procs -> States]
      /\ \A p \in Procs : Sound(resources[p], len[p], next_ri[p])
  BY InvSound DEF Inv, TypeOK
<1>2. \A p \in Procs : Sound(resources[p], len[p], 0)
  BY <1>1 DEF Sound
<1>3. ASSUME NEW p \in Procs, NEW r \in Open, AddResource(p, r), UNCHANGED state
      PROVE  Inv'
  <2>1. PICK ri \in 0 .. MaxFds - 1 :
          /\ IsSlot(p, ri)
          /\ resources' = [resources EXCEPT ![p] = Placed(p, ri, r)]
          /\ len' = [len EXCEPT ![p] = LenWith(p, ri)]
          /\ next_ri' = [next_ri EXCEPT ![p] = ri]
    BY <1>3 DEF AddResource
  <2>2. Sound(Placed(p, ri, r), LenWith(p, ri), ri)
    BY <1>3, <2>1, AddSound
  <2>3. /\ resources' = [resources EXCEPT ![p] = Placed(p, ri, r), ![p] = Placed(p, ri, r)]
        /\ len' = [len EXCEPT ![p] = LenWith(p, ri), ![p] = LenWith(p, ri)]
        /\ next_ri' = [next_ri EXCEPT ![p] = ri, ![p] = ri]
        /\ state' \in [Procs -> States]
    BY <1>1, <1>3, <2>1
  <2> QED
    BY <1>3, <2>2, <2>3, UpdateInv
<1>4. ASSUME NEW p \in Procs, NEW ri \in Index(p), RemoveResource(p, ri), UNCHANGED state
      PROVE  Inv'
  <2> DEFINE v == [resources[p] EXCEPT ![ri] = Null]
             rj == IF ri < next_ri[p] THEN ri ELSE next_ri[p]
  <2>1. Sound(v, len[p], rj)
    BY <1>4, RemoveSound
  <2>2. /\ resources' = [resources EXCEPT ![p] = v, ![p] = v]
        /\ len' = [len EXCEPT ![p] = len[p], ![p] = len[p]]
        /\ next_ri' = [next_ri EXCEPT ![p] = rj, ![p] = rj]
        /\ state' \in [Procs -> States]
    BY <1>1, <1>4 DEF RemoveResource
  <2> QED
    BY <1>4, <2>1, <2>2, UpdateInv
<1>5. ASSUME NEW q \in Procs, NEW v, NEW n, Sound(v, n, 0), CloneInto(q, v, n),
             state' \in [Procs -> States]
      PROVE  Inv'
  <2>1. /\ resources' = [resources EXCEPT ![q] = v, ![q] = v]
        /\ len' = [len EXCEPT ![q] = n, ![q] = n]
        /\ next_ri' = [next_ri EXCEPT ![q] = 0, ![q] = 0]
    BY <1>1, <1>5 DEF CloneInto
  <2> QED
    BY <1>5, <2>1, UpdateInv
<1>6. ASSUME NEW p \in Procs, NEW q \in Procs, Spawn(p, q)
      PROVE  Inv'
  <2>1. state' \in [Procs -> States]
    BY <1>1, <1>6 DEF Spawn
  <2> QED
    BY <1>2, <1>5, <1>6, <2>1, EmptySound DEF Spawn
<1>7. ASSUME NEW p \in Procs, NEW q \in Procs, PSpawn(p, q)
      PROVE  Inv'
  <2>1. PICK ri \in 0 .. MaxFds - 1, o \in Objects :
          /\ IsSlot(p, ri)
          /\ state' = [state EXCEPT ![q] = "Alive"]
          /\ \/ /\ resources' = [resources EXCEPT ![p] = Placed(p, ri, File(o)),
                                                  ![q] = Placed(p, ri, File(o))]
                /\ len' = [len EXCEPT ![p] = LenWith(p, ri), ![q] = LenWith(p, ri)]
             \/ /\ resources' = [resources EXCEPT ![p] = Placed(p, ri, File(o)), ![q] = Empty]
                /\ len' = [len EXCEPT ![p] = LenWith(p, ri), ![q] = 0]
          /\ next_ri' = [next_ri EXCEPT ![p] = ri, ![q] = 0]
    BY <1>7 DEF PSpawn
  <2>2. File(o) \in Open
    BY DEF Open
  <2>3. /\ Sound(Placed(p, ri, File(o)), LenWith(p, ri), ri)
        /\ Sound(Placed(p, ri, File(o)), LenWith(p, ri), 0)
    BY <1>7, <2>1, <2>2, AddSound
  <2>4. state' \in [Procs -> States]
    BY <1>1, <2>1
  <2> QED
    BY <1>7, <2>1, <2>3, <2>4, EmptySound, UpdateInv
<1>8. ASSUME NEW p \in Procs, Exit(p)
      PROVE  Inv'
  <2>1. CloneInto(p, Empty, 0) /\ state' \in [Procs -> States]
    BY <1>1, <1>8 DEF Exit, CloneInto
  <2> QED
    BY <1>5, <1>8, <2>1, EmptySound
<1>9. CASE UNCHANGED vars
  BY <1>9 DEF vars, Inv, TypeOK, NoHoleMissed, Index
<1>10. ASSUME NEW p \in Procs, OpenFile(p) \/ PSpawnFails(p)
       PROVE  Inv'
  BY <1>3, <1>10 DEF OpenFile, PSpawnFails, Open
<1>11. ASSUME NEW p \in Procs, CloseFile(p) \/ DirIterClose(p)
       PROVE  Inv'
  BY <1>4, <1>11 DEF CloseFile, DirIterClose
<1>12. ASSUME NEW p \in Procs, DirIterOpen(p)
       PROVE  Inv'
  <2>1. PICK ri \in Index(p) : /\ resources[p][ri].kind = "File"
                               /\ AddResource(p, DirIter(resources[p][ri].of))
    BY <1>12 DEF DirIterOpen
  <2>2. resources[p][ri] \in Open \cup {Null}
    BY <1>12, <2>1 DEF Inv, TypeOK
  <2>3. DirIter(resources[p][ri].of) \in Open
    BY <2>1, <2>2 DEF Open, File, DirIter, Null
  <2> QED
    BY <1>3, <1>12, <2>1, <2>3 DEF DirIterOpen
<1> QED
  BY <1>6, <1>7, <1>8, <1>9, <1>10, <1>11, <1>12 DEF Next

\* ResourceManager::new
LEMMA InitInv == Init => Inv
BY MaxFdsAssumption DEF Init, Inv, TypeOK, NoHoleMissed, Index, Empty

\* In every reachable state no hole is below next_ri, and next_ri is in bounds.
THEOREM HolesFound == Spec => [](TypeOK /\ NoHoleMissed)
<1>1. Spec => []Inv
  BY InitInv, NextInv, PTL DEF Spec
<1> QED
  BY <1>1, PTL DEF Inv

-----------------------------------------------------------------------------
(* The managers implement the tables of FdTable. *)

\* add_resource puts the resource at the lowest index free in the table.
LEMMA AddIsLowest ==
    ASSUME Inv, NEW p \in Procs, NEW ri \in 0 .. MaxFds - 1, IsSlot(p, ri)
    PROVE  Tables!Lowest(Table(p), ri)
<1>1. /\ len[p] \in 0 .. MaxFds /\ next_ri[p] \in 0 .. len[p]
      /\ \A i \in 0 .. next_ri[p] - 1 : resources[p][i] # Null
  BY MaxFdsAssumption DEF Inv, TypeOK, NoHoleMissed
<1>2. /\ ri \in next_ri[p] .. len[p] /\ \A i \in next_ri[p] .. ri - 1 : resources[p][i] # Null
      /\ ri < len[p] => resources[p][ri] = Null
  BY DEF IsSlot
<1>3. DOMAIN Table(p) = {k \in 0 .. len[p] - 1 : resources[p][k] # Null}
  BY DEF Table, Index
<1>4. ri \notin DOMAIN Table(p)
  BY <1>1, <1>2, <1>3
<1>5. \A j \in 0 .. ri - 1 : j \in DOMAIN Table(p)
  BY <1>1, <1>2, <1>3
<1> QED
  BY <1>4, <1>5 DEF Tables!Lowest

\* The table a Vec of length n stands for.
TableOf(vec, n) == [i \in {k \in 0 .. n - 1 : vec[k] # Null} |-> vec[i]]

\* Table(p) is the table of the Vec of p.
LEMMA TableIsTableOf == \A p \in Procs : Table(p) = TableOf(resources[p], len[p])
BY DEF Table, TableOf, Index

\* add_resource adds one entry to the table.
LEMMA AddTable ==
    ASSUME Inv, NEW p \in Procs, NEW r \in Open, NEW ri \in 0 .. MaxFds - 1, IsSlot(p, ri)
    PROVE  /\ TableOf(Placed(p, ri, r), LenWith(p, ri)) = Tables!Put(Table(p), ri, r)
           /\ TableOf(Placed(p, ri, r), LenWith(p, ri)) \in Tables!OneMore(Table(p))
<1>1. /\ len[p] \in 0 .. MaxFds /\ ri \in 0 .. len[p] /\ r # Null
  BY MaxFdsAssumption, OpenNotNull DEF Inv, TypeOK, NoHoleMissed, IsSlot
<1> DEFINE v == Placed(p, ri, r)
           n == LenWith(p, ri)
<1>2. /\ ri \in 0 .. n - 1 /\ v[ri] = r
      /\ \A i \in 0 .. n - 1 : i # ri => i \in 0 .. len[p] - 1 /\ v[i] = resources[p][i]
      /\ \A i \in 0 .. len[p] - 1 : i \in 0 .. n - 1
  BY <1>1 DEF Placed, LenWith
<1>3. {k \in 0 .. n - 1 : v[k] # Null} = {k \in Index(p) : resources[p][k] # Null} \cup {ri}
  BY <1>1, <1>2 DEF Index
<1>4. DOMAIN Table(p) = {k \in Index(p) : resources[p][k] # Null}
      /\ \A j \in DOMAIN Table(p) : Table(p)[j] = resources[p][j]
  BY DEF Table
<1>5. \A j \in DOMAIN Table(p) : j # ri => j \in 0 .. n - 1 /\ v[j] = Table(p)[j]
  BY <1>1, <1>2, <1>4 DEF Index
<1>6. TableOf(v, n) = Tables!Put(Table(p), ri, r)
  <2> HIDE DEF v, n
  <2>1. TableOf(v, n) = [j \in DOMAIN Table(p) \cup {ri} |-> v[j]]
    BY <1>3, <1>4 DEF TableOf
  <2>2. \A j \in DOMAIN Table(p) \cup {ri} : v[j] = IF j = ri THEN r ELSE Table(p)[j]
    BY <1>2, <1>5
  <2> QED
    BY <2>1, <2>2 DEF Tables!Put
<1>7. ri \in {k \in 0 .. MaxFds - 1 : Tables!Lowest(Table(p), k)}
  BY AddIsLowest
<1> QED
  BY <1>6, <1>7 DEF Tables!OneMore

\* remove_resource removes one entry of the table, or none if the index was a
\* hole already.
LEMMA RemoveTable ==
    ASSUME Inv, NEW p \in Procs, NEW ri \in Index(p)
    PROVE  TableOf([resources[p] EXCEPT ![ri] = Null], len[p])
             = IF resources[p][ri] = Null THEN Table(p) ELSE Tables!Drop(Table(p), ri)
<1>1. resources[p] \in [Index(p) -> Open \cup {Null}]
  BY DEF Inv, TypeOK
<1> DEFINE v == [resources[p] EXCEPT ![ri] = Null]
           D == {k \in Index(p) : resources[p][k] # Null}
<1>2. v[ri] = Null /\ \A j \in Index(p) : j # ri => v[j] = resources[p][j]
  BY <1>1
<1>3. {k \in Index(p) : v[k] # Null} = D \ {ri}
  BY <1>2
<1>4. TableOf(v, len[p]) = [j \in D \ {ri} |-> resources[p][j]]
  <2> HIDE DEF v
  <2>1. TableOf(v, len[p]) = [j \in {k \in Index(p) : v[k] # Null} |-> v[j]]
    BY DEF TableOf, Index
  <2>2. TableOf(v, len[p]) = [j \in D \ {ri} |-> v[j]]
    BY <1>3, <2>1
  <2>3. \A j \in D \ {ri} : v[j] = resources[p][j]
    BY <1>2
  <2> QED
    BY <2>2, <2>3
<1>5. Table(p) = [j \in D |-> resources[p][j]]
  BY DEF Table
<1>6. CASE resources[p][ri] = Null
  <2>1. D \ {ri} = D
    BY <1>6
  <2> QED
    BY <1>4, <1>5, <1>6, <2>1
<1>7. CASE resources[p][ri] # Null
  BY <1>4, <1>5, <1>7 DEF Tables!Drop
<1> QED
  BY <1>6, <1>7

\* The abstract tables and live processes.
tables == [p \in Procs |-> Table(p)]
live == {p \in Procs : state[p] = "Alive"}

\* The tables after a step that gives two processes new Vecs.
LEMMA TablesAfter ==
    ASSUME Inv, NEW p \in Procs, NEW q \in Procs, NEW v, NEW n, NEW w, NEW m,
           resources' = [resources EXCEPT ![p] = v, ![q] = w],
           len' = [len EXCEPT ![p] = n, ![q] = m]
    PROVE  tables' = [tables EXCEPT ![p] = TableOf(v, n), ![q] = TableOf(w, m)]
<1>1. DOMAIN resources = Procs /\ DOMAIN len = Procs
  BY DEF Inv, TypeOK
<1>2. tables' = [k \in Procs |-> TableOf(resources'[k], len'[k])]
  BY DEF tables, Table, TableOf, Index
<1>3. tables = [k \in Procs |-> TableOf(resources[k], len[k])]
  BY DEF tables, Table, TableOf, Index
<1>4. \A k \in Procs : TableOf(resources'[k], len'[k]) =
        IF k = q THEN TableOf(w, m) ELSE IF k = p THEN TableOf(v, n)
        ELSE TableOf(resources[k], len[k])
  BY <1>1
<1> QED
  BY <1>2, <1>3, <1>4

\* The tables after a step that gives one process a new Vec.
LEMMA TablesAfterOne ==
    ASSUME Inv, NEW p \in Procs, NEW v, NEW n,
           resources' = [resources EXCEPT ![p] = v],
           len' = [len EXCEPT ![p] = n]
    PROVE  tables' = [tables EXCEPT ![p] = TableOf(v, n)]
<1>1. DOMAIN resources = Procs /\ DOMAIN len = Procs
  BY DEF Inv, TypeOK
<1>2. tables' = [k \in Procs |-> TableOf(resources'[k], len'[k])]
  BY DEF tables, Table, TableOf, Index
<1>3. tables = [k \in Procs |-> TableOf(resources[k], len[k])]
  BY DEF tables, Table, TableOf, Index
<1>4. \A k \in Procs : TableOf(resources'[k], len'[k]) =
        IF k = p THEN TableOf(v, n) ELSE TableOf(resources[k], len[k])
  BY <1>1
<1> QED
  BY <1>2, <1>3, <1>4

\* The table of an empty Vec is the empty table.
LEMMA EmptyTable == TableOf(Empty, 0) = Tables!EmptyTable
BY DEF TableOf, Empty, Tables!EmptyTable

\* Every step on the Vecs is a step on the tables.
LEMMA StepRefines ==
    ASSUME Inv, [Next]_vars
    PROVE  [Tables!Next]_<<tables, live>>
<1>0. /\ DOMAIN resources = Procs /\ DOMAIN len = Procs /\ DOMAIN state = Procs
      /\ tables = [k \in Procs |-> TableOf(resources[k], len[k])]
      /\ DOMAIN tables = Procs /\ len = [k \in Procs |-> len[k]]
      /\ \A k \in Procs : tables[k] = Table(k) /\ Table(k) = TableOf(resources[k], len[k])
  BY TableIsTableOf DEF Inv, TypeOK, tables
<1>1. ASSUME NEW p \in live, NEW r \in Open, AddResource(p, r), UNCHANGED state
      PROVE  Tables!Next
  <2>0. p \in Procs
    BY DEF live
  <2>1. PICK ri \in 0 .. MaxFds - 1 :
          /\ IsSlot(p, ri)
          /\ resources' = [resources EXCEPT ![p] = Placed(p, ri, r)]
          /\ len' = [len EXCEPT ![p] = LenWith(p, ri)]
    BY <1>1 DEF AddResource
  <2> DEFINE t == TableOf(Placed(p, ri, r), LenWith(p, ri))
  <2>3. t \in Tables!OneMore(tables[p])
    BY <1>0, <2>0, <2>1, AddTable
  <2>4. tables' = [tables EXCEPT ![p] = t] /\ live' = live
    BY <1>1, <2>0, <2>1, TablesAfterOne DEF live
  <2> QED
    BY <2>3, <2>4 DEF Tables!Next, Tables!Add, tables, live
<1>2. ASSUME NEW p \in live, NEW ri \in Index(p), RemoveResource(p, ri), UNCHANGED state
      PROVE  [Tables!Next]_<<tables, live>>
  <2>0. p \in Procs
    BY DEF live
  <2> DEFINE v == [resources[p] EXCEPT ![ri] = Null]
  <2>1. resources' = [resources EXCEPT ![p] = v]
    BY <1>2 DEF RemoveResource
  <2>2. len' = [len EXCEPT ![p] = len[p]]
    BY <1>0, <1>2, <2>0 DEF RemoveResource
  <2>3. tables' = [tables EXCEPT ![p] = TableOf(v, len[p])] /\ live' = live
    BY <1>2, <2>0, <2>1, <2>2, TablesAfterOne, ZenonT(60) DEF live
  <2>4. CASE resources[p][ri] = Null
    <3>1. TableOf(v, len[p]) = tables[p]
      BY <1>0, <2>0, <2>4, RemoveTable
    <3> QED
      BY <1>0, <2>0, <2>3, <3>1
  <2>5. CASE resources[p][ri] # Null
    <3>1. TableOf(v, len[p]) = Tables!Drop(tables[p], ri)
      BY <1>0, <2>0, <2>5, RemoveTable
    <3>2. ri \in DOMAIN Table(p)
      BY <1>2, <2>5 DEF Table
    <3>3. \E i \in DOMAIN tables[p] : tables' = [tables EXCEPT ![p] = Tables!Drop(tables[p], i)]
      BY <1>0, <2>0, <2>3, <3>1, <3>2
    <3> QED
      BY <2>3, <3>3 DEF Tables!Next, Tables!Close, tables, live
  <2> QED
    BY <2>4, <2>5
<1>3. ASSUME NEW p \in live, NEW q \in Procs, Spawn(p, q)
      PROVE  Tables!Next
  <2>0. p \in Procs /\ q \in Procs \ live /\ live' = live \cup {q}
    BY <1>0, <1>3 DEF live, Spawn
  <2>1. ASSUME NEW v, NEW n, CloneInto(q, v, n)
        PROVE  tables' = [tables EXCEPT ![p] = tables[p], ![q] = TableOf(v, n)]
    <3>1. tables' = [tables EXCEPT ![q] = TableOf(v, n)]
      BY <2>1, TablesAfterOne DEF CloneInto
    <3> QED
      BY <1>0, <2>0, <3>1
  <2>2. \E c \in {tables[p], Tables!EmptyTable} :
          tables' = [tables EXCEPT ![p] = tables[p], ![q] = c]
    <3>1. CASE CloneInto(q, resources[p], len[p])
      BY <1>0, <2>0, <2>1, <3>1
    <3>2. CASE CloneInto(q, Empty, 0)
      BY <2>1, <3>2, EmptyTable
    <3> QED
      BY <1>3, <3>1, <3>2 DEF Spawn
  <2>3. \E t \in Tables!OneMore(tables[p]) \cup {tables[p]} : \E c \in {t, Tables!EmptyTable} :
          tables' = [tables EXCEPT ![p] = t, ![q] = c]
    BY <2>2
  <2> QED
    BY <2>0, <2>3, ZenonT(60) DEF Tables!Next, Tables!Fork, tables, live
<1>4. ASSUME NEW p \in live, NEW q \in Procs, PSpawn(p, q)
      PROVE  Tables!Next
  <2>0. p \in Procs /\ q \in Procs \ live /\ live' = live \cup {q}
    BY <1>0, <1>4 DEF live, PSpawn
  <2>1. PICK ri \in 0 .. MaxFds - 1, o \in Objects :
          /\ IsSlot(p, ri)
          /\ \/ /\ resources' = [resources EXCEPT ![p] = Placed(p, ri, File(o)),
                                                  ![q] = Placed(p, ri, File(o))]
                /\ len' = [len EXCEPT ![p] = LenWith(p, ri), ![q] = LenWith(p, ri)]
             \/ /\ resources' = [resources EXCEPT ![p] = Placed(p, ri, File(o)), ![q] = Empty]
                /\ len' = [len EXCEPT ![p] = LenWith(p, ri), ![q] = 0]
    BY <1>4 DEF PSpawn
  <2> DEFINE t == TableOf(Placed(p, ri, File(o)), LenWith(p, ri))
  <2>2. \E c \in {t, Tables!EmptyTable} : tables' = [tables EXCEPT ![p] = t, ![q] = c]
    BY <2>0, <2>1, TablesAfter, EmptyTable
  <2>3. t \in Tables!OneMore(tables[p])
    <3>1. File(o) \in Open
      BY DEF Open
    <3> QED
      BY <1>0, <2>0, <2>1, <3>1, AddTable
  <2> HIDE DEF t
  <2> QED
    BY <2>0, <2>2, <2>3 DEF Tables!Next, Tables!Fork, tables, live
<1>5. ASSUME NEW p \in live, Exit(p)
      PROVE  Tables!Next
  <2>0. p \in Procs /\ live' = live \ {p}
    BY <1>0, <1>5 DEF live, Exit
  <2>3. tables' = [tables EXCEPT ![p] = Tables!EmptyTable]
    BY <1>5, <2>0, TablesAfterOne, EmptyTable, ZenonT(60) DEF Exit
  <2> QED
    BY <2>0, <2>3 DEF Tables!Next, Tables!Exit, tables, live
<1>6. CASE UNCHANGED vars
  BY <1>6 DEF vars, tables, live, Table, Index
<1>7. ASSUME NEW p \in live, OpenFile(p) \/ PSpawnFails(p)
      PROVE  Tables!Next
  BY <1>1, <1>7 DEF OpenFile, PSpawnFails, Open
<1>8. ASSUME NEW p \in live, CloseFile(p) \/ DirIterClose(p)
      PROVE  [Tables!Next]_<<tables, live>>
  BY <1>2, <1>8 DEF CloseFile, DirIterClose
<1>9. ASSUME NEW p \in live, DirIterOpen(p)
      PROVE  Tables!Next
  <2>1. PICK ri \in Index(p) : /\ resources[p][ri].kind = "File"
                               /\ AddResource(p, DirIter(resources[p][ri].of))
    BY <1>9 DEF DirIterOpen
  <2>2. resources[p][ri] \in Open \cup {Null}
    BY <2>1 DEF Inv, TypeOK, live
  <2>3. DirIter(resources[p][ri].of) \in Open
    BY <2>1, <2>2 DEF Open, File, DirIter, Null
  <2> QED
    BY <1>1, <1>9, <2>1, <2>3 DEF DirIterOpen
<1> QED
  BY <1>3, <1>4, <1>5, <1>6, <1>7, <1>8, <1>9 DEF Next, live

\* The managers implement tables with lowest-free-index allocation.
THEOREM ManagersImplementTables == Spec => TableSpec
<1>1. Init => Tables!Init
  <2> SUFFICES ASSUME Init PROVE Tables!Init
    OBVIOUS
  <2>1. \A p \in Procs : {k \in Index(p) : resources[p][k] # Null} = {}
    <3> SUFFICES ASSUME NEW p \in Procs
                 PROVE  Index(p) = {}
      OBVIOUS
    <3>1. len[p] = 0
      BY DEF Init
    <3> QED
      BY <3>1 DEF Index
  <2>2. \A p \in Procs : DOMAIN Table(p) = {} /\ Table(p) = [i \in DOMAIN Table(p) |-> Table(p)[i]]
    BY <2>1 DEF Table
  <2>3. \A p \in Procs : Table(p) = [i \in {} |-> 0]
    BY <2>2
  <2> QED
    BY <2>3, FirstAssumption DEF Init, Tables!Init
<1>2. Spec => []Inv
  BY HolesFound, PTL DEF Inv
<1>3. ASSUME Inv, [Next]_vars
      PROVE  [Tables!Next]_<<[p \in Procs |-> Table(p)], {p \in Procs : state[p] = "Alive"}>>
  BY <1>3, StepRefines DEF tables, live
<1> QED
  BY <1>1, <1>2, <1>3, PTL DEF Spec, TableSpec, Tables!Spec
=============================================================================
