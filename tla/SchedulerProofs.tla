--------------------------- MODULE SchedulerProofs ---------------------------
(***************************************************************************)
(* Proofs about Scheduler, for every bound on pids and every set of exit   *)
(* codes.  The safety invariants support each other: that a waiter never   *)
(* unlists itself or Eve needs to know that what it unlists has exited,    *)
(* hence is halted, hence is not the waiter.  Their conjunction with       *)
(* PidsFresh is inductive.                                                 *)
(***************************************************************************)
EXTENDS Scheduler, TLAPS

IInv == /\ TypeOK
        /\ CurrentListed
        /\ NoneLost
        /\ ZombieKeepsCode
        /\ WaiterHoldsCode
        /\ PidsFresh

-----------------------------------------------------------------------------
(* The operators that build a Process record build a Process. *)

\* Scheduler::switch changes a status.
LEMMA StatusType ==
    ASSUME NEW r \in Process, NEW s \in Status
    PROVE  [r EXCEPT !.status = s] \in Process
BY DEF Process

\* Process::new
LEMMA NewProcessType ==
    ASSUME NEW p \in Pid
    PROVE  NewProcess(p) \in Process
BY MaxPidsAssumption DEF Process, NewProcess, Status, Point, Eve, Pid

\* Process::terminate, then khalt
LEMMA TerminateType ==
    ASSUME NEW r \in Process, NEW c \in Nat
    PROVE  [Terminate(r, c) EXCEPT !.at = "halted"] \in Process
BY DEF Process, Terminate, Status, Point

\* wait() moves from one point to the next.
LEMMA WaitType ==
    ASSUME NEW r \in Process, NEW a \in Point, NEW t \in Pid, NEW c \in Nat
    PROVE  /\ [r EXCEPT !.at = a, !.target = t] \in Process
           /\ [r EXCEPT !.at = a, !.rax = c] \in Process
BY DEF Process

-----------------------------------------------------------------------------
(* The invariant is inductive: one lemma for each operation. *)

\* Scheduler::init establishes the invariant.
LEMMA InitInv == Init => IInv
<1> SUFFICES ASSUME Init PROVE IInv
  OBVIOUS
<1>1. Eve \in Pid /\ Listed = {Eve} /\ processes[Eve] = NewProcess(Eve)
  BY MaxPidsAssumption DEF Init, Eve, Pid, Listed
<1>2. NewProcess(Eve) \in Process
  BY <1>1, NewProcessType
<1>3. TypeOK
  BY <1>1, <1>2 DEF Init, TypeOK, Listed
<1>4. CurrentListed /\ NoneLost /\ ZombieKeepsCode /\ WaiterHoldsCode
  BY <1>1 DEF Init, CurrentListed, NoneLost, ZombieKeepsCode, WaiterHoldsCode, NewProcess
<1>5. PidsFresh
  BY <1>1, MaxPidsAssumption DEF Init, PidsFresh, Eve, Pid
<1> QED
  BY <1>3, <1>4, <1>5 DEF IInv

\* Scheduler::switch, called by the timer, by a yield or by a waiter.
LEMMA SwitchInv ==
    ASSUME IInv, Switch, UNCHANGED <<next_pid, panicked, exited>>
    PROVE  IInv'
<1>1. PICK n \in Listed :
        /\ current' = n
        /\ processes' = [p \in Listed |->
                            [processes[p] EXCEPT !.status = NextStatus(p, n)]]
  BY DEF Switch
<1>2. \A p \in Listed : processes[p] \in Process
  BY DEF IInv, TypeOK
<1>3. \A p \in Listed : NextStatus(p, n) \in Status
  BY <1>2 DEF NextStatus, Process, Status
<1>4. Listed' = Listed /\ current' = n
  BY <1>1 DEF Listed
<1>5. TypeOK'
  BY <1>1, <1>2, <1>3, <1>4, StatusType DEF IInv, TypeOK
<1>6. \A p \in Listed :
        /\ processes'[p].state = processes[p].state
        /\ processes'[p].at = processes[p].at
        /\ processes'[p].target = processes[p].target
        /\ processes'[p].rax = processes[p].rax
        /\ processes'[p].exit_code = processes[p].exit_code
        /\ processes'[p].status = NextStatus(p, n)
  BY <1>1, <1>2 DEF Process
<1>7. CurrentListed'
  BY <1>4 DEF IInv, CurrentListed
<1>8. NoneLost'
  BY <1>4, <1>6 DEF IInv, NoneLost, NextStatus
<1>9. ZombieKeepsCode' /\ WaiterHoldsCode' /\ PidsFresh'
  BY <1>4, <1>6 DEF IInv, ZombieKeepsCode, WaiterHoldsCode, PidsFresh
<1> QED
  BY <1>5, <1>7, <1>8, <1>9 DEF IInv

\* Scheduler::add_process, in the name of the process on the CPU.
LEMMA AddProcessInv ==
    ASSUME IInv, next_pid < MaxPids, AddProcess(current), UNCHANGED <<current, exited>>,
           panicked' \in BOOLEAN
    PROVE  IInv'
<1>1. /\ next_pid \in Pid /\ next_pid \notin Listed
      /\ exited[next_pid] = {} /\ next_pid # current
  BY MaxPidsAssumption DEF IInv, TypeOK, PidsFresh, CurrentListed, Pid
<1>2. /\ Listed' = Listed \cup {next_pid}
      /\ processes'[next_pid] = NewProcess(current)
      /\ \A p \in Listed : processes'[p] = processes[p]
      /\ processes' = [p \in Listed' |-> processes'[p]]
      /\ next_pid' = next_pid + 1
  BY <1>1 DEF AddProcess, Listed
<1>3. NewProcess(current) \in Process
  BY NewProcessType DEF IInv, TypeOK
<1>4. TypeOK'
  BY <1>1, <1>2, <1>3 DEF IInv, TypeOK
<1>5. CurrentListed' /\ NoneLost' /\ ZombieKeepsCode' /\ WaiterHoldsCode'
  BY <1>1, <1>2 DEF IInv, CurrentListed, NoneLost, ZombieKeepsCode, WaiterHoldsCode, NewProcess
<1>6. PidsFresh'
  BY <1>1, <1>2, MaxPidsAssumption DEF IInv, TypeOK, PidsFresh, Pid
<1> QED
  BY <1>4, <1>5, <1>6 DEF IInv

\* sysexit: the caller becomes a zombie that holds its code.
LEMMA ThreadExitInv ==
    ASSUME IInv, ThreadExit
    PROVE  IInv'
<1>1. PICK code \in ExitCodes :
        /\ processes' = [processes EXCEPT ![current] =
                            [Terminate(processes[current], code) EXCEPT !.at = "halted"]]
        /\ exited' = [exited EXCEPT ![current] = @ \cup {code}]
  BY DEF ThreadExit
<1>2. /\ current \in Listed /\ current # Eve /\ processes[current].at = "user"
      /\ current' = current /\ next_pid' = next_pid /\ panicked' = panicked
      /\ code \in Nat
  BY ExitCodesAssumption DEF ThreadExit, CpuAt, IInv, CurrentListed
<1>3. /\ processes \in [Listed -> Process] /\ Listed \subseteq Pid
      /\ processes[current] \in Process /\ exited \in [Pid -> SUBSET Nat]
  BY <1>2 DEF IInv, TypeOK
<1>4. /\ Listed' = Listed
      /\ \A p \in Listed \ {current} : processes'[p] = processes[p]
      /\ processes'[current] = [Terminate(processes[current], code) EXCEPT !.at = "halted"]
  BY <1>1, <1>2, <1>3 DEF Listed
<1>5. /\ processes'[current].state = "Zombie" /\ processes'[current].at = "halted"
      /\ processes'[current].exit_code = code
  BY <1>3, <1>4 DEF Terminate, Process
<1>6. exited[current] = {}
  BY <1>2 DEF IInv, ZombieKeepsCode
<1>7. /\ exited' \in [Pid -> SUBSET Nat] /\ exited'[current] = {code}
      /\ \A p \in Pid \ {current} : exited'[p] = exited[p]
  BY <1>1, <1>2, <1>3, <1>6
<1>8. TypeOK'
  <2>1. processes'[current] \in Process
    BY <1>2, <1>3, <1>4, TerminateType
  <2> QED
    BY <1>1, <1>2, <1>3, <1>4, <1>7, <2>1 DEF IInv, TypeOK
<1>9. CurrentListed' /\ NoneLost'
  BY <1>2, <1>4 DEF IInv, CurrentListed, NoneLost
<1>10. ZombieKeepsCode'
  <2> SUFFICES ASSUME NEW p \in Listed
               PROVE  /\ processes'[p].state = "Zombie" <=> exited'[p] # {}
                      /\ processes'[p].state = "Zombie" <=> processes'[p].at = "halted"
                      /\ exited'[p] # {} => exited'[p] = {processes'[p].exit_code}
    BY <1>4 DEF ZombieKeepsCode
  <2>1. CASE p = current
    BY <1>5, <1>7, <2>1
  <2>2. CASE p # current
    <3>1. processes'[p] = processes[p] /\ exited'[p] = exited[p]
      BY <1>3, <1>4, <1>7, <2>2
    <3> QED
      BY <3>1 DEF IInv, ZombieKeepsCode
  <2> QED
    BY <2>1, <2>2
<1>11. WaiterHoldsCode'
  <2> SUFFICES ASSUME NEW p \in Listed, processes'[p].at = "remove"
               PROVE  processes'[p].rax \in exited'[processes'[p].target]
    BY <1>4 DEF WaiterHoldsCode
  <2>1. p # current /\ processes'[p] = processes[p]
    BY <1>4, <1>5
  <2>2. processes[p].rax \in exited[processes[p].target] /\ processes[p].target \in Pid
    BY <1>3, <2>1 DEF IInv, WaiterHoldsCode, Process
  <2>3. exited'[processes[p].target] = exited[processes[p].target]
    BY <1>6, <1>7, <2>2
  <2> QED
    BY <2>1, <2>2, <2>3
<1>12. PidsFresh'
  <2>1. Eve \in Pid /\ exited'[Eve] = {}
    BY <1>2, <1>7, MaxPidsAssumption DEF IInv, PidsFresh, Pid, Eve
  <2>2. ~(current >= next_pid)
    BY <1>2, <1>3 DEF IInv, PidsFresh
  <2> QED
    BY <1>2, <1>4, <1>7, <2>1, <2>2 DEF IInv, PidsFresh
<1> QED
  BY <1>8, <1>9, <1>10, <1>11, <1>12 DEF IInv

\* A step of wait() that changes nothing but where the caller stands, or that
\* also unlists a process other than the caller and Eve.
LEMMA WaiterInv ==
    ASSUME IInv, NEW r \in Process, NEW S \in SUBSET Listed,
           UNCHANGED <<current, next_pid, panicked, exited>>,
           current \in S, Eve \in S,
           processes[current].state = "Alive",
           processes' = [p \in S |-> IF p = current THEN r ELSE processes[p]],
           r.state = "Alive", r.at # "halted", r.exit_code = processes[current].exit_code,
           r.at = "remove" => r.rax \in exited[r.target]
    PROVE  IInv'
<1>1. /\ Listed' = S /\ processes'[current] = r
      /\ \A p \in S \ {current} : processes'[p] = processes[p]
  BY DEF Listed
<1>2. TypeOK'
  BY <1>1 DEF IInv, TypeOK
<1>3. CurrentListed' /\ NoneLost'
  BY <1>1 DEF IInv, CurrentListed, NoneLost
<1>4. ZombieKeepsCode' /\ WaiterHoldsCode'
  BY <1>1 DEF IInv, ZombieKeepsCode, WaiterHoldsCode
<1>5. PidsFresh'
  BY <1>1 DEF IInv, PidsFresh
<1> QED
  BY <1>2, <1>3, <1>4, <1>5 DEF IInv

\* A process at a point of its own code or of wait() is alive.
LEMMA AliveUnlessHalted ==
    ASSUME IInv, NEW p \in Listed, processes[p].at # "halted"
    PROVE  processes[p].state = "Alive" /\ exited[p] = {}
BY DEF IInv, ZombieKeepsCode, TypeOK, Process

\* syswait is entered.
LEMMA WaitCallInv ==
    ASSUME IInv, WaitCall
    PROVE  IInv'
<1>1. PICK t \in Pid :
        processes' = [processes EXCEPT ![current].at = "find", ![current].target = t]
  BY DEF WaitCall
<1>2. /\ current \in Listed /\ Eve \in Listed /\ processes[current].at = "user"
      /\ UNCHANGED <<current, next_pid, panicked, exited>>
      /\ processes[current].state = "Alive"
  BY AliveUnlessHalted DEF WaitCall, CpuAt, IInv, CurrentListed
<1> DEFINE r == [processes[current] EXCEPT !.at = "find", !.target = t]
<1>3. processes \in [Listed -> Process] /\ processes[current] \in Process
  BY <1>2 DEF IInv, TypeOK
<1>4. r \in Process /\ r.state = "Alive" /\ r.at = "find"
      /\ r.exit_code = processes[current].exit_code
  BY <1>2, <1>3, WaitType, ZenonT(60) DEF Process, Point
<1>5. processes' = [p \in Listed |-> IF p = current THEN r ELSE processes[p]]
  BY <1>1, <1>2, <1>3
<1> QED
  BY <1>2, <1>4, <1>5, WaiterInv

\* wait() looks its target up: it returns 0, yields, or holds the exit code.
LEMMA WaitFindInv ==
    ASSUME IInv, WaitFind
    PROVE  IInv'
<1> DEFINE t == processes[current].target
<1>1. /\ current \in Listed /\ Eve \in Listed /\ processes[current].at = "find"
      /\ UNCHANGED <<next_pid, panicked, exited>>
      /\ processes[current].state = "Alive"
  BY AliveUnlessHalted DEF WaitFind, CpuAt, IInv, CurrentListed
<1>2. processes \in [Listed -> Process] /\ processes[current] \in Process
  BY <1>1 DEF IInv, TypeOK
<1>3. CASE t \notin Listed /\ Return(Listed, 0) /\ UNCHANGED current
  <2> DEFINE r == [processes[current] EXCEPT !.at = "user", !.rax = 0]
  <2>1. r \in Process /\ r.state = "Alive" /\ r.at = "user"
        /\ r.exit_code = processes[current].exit_code
    BY <1>1, <1>2, WaitType, ZenonT(60) DEF Process, Point
  <2>2. processes' = [p \in Listed |-> IF p = current THEN r ELSE processes[p]]
    BY <1>3 DEF Return
  <2> QED
    BY <1>1, <1>3, <2>1, <2>2, WaiterInv
<1>4. CASE Switch
  BY <1>1, <1>4, SwitchInv
<1>5. CASE /\ t \in Listed /\ processes[t].state = "Zombie"
           /\ processes' = [processes EXCEPT ![current].at = "remove",
                                             ![current].rax = processes[t].exit_code]
           /\ UNCHANGED current
  <2> DEFINE r == [processes[current] EXCEPT !.at = "remove", !.rax = processes[t].exit_code]
  <2>1. processes[t].exit_code \in Nat /\ processes[t].exit_code \in exited[t]
    BY <1>2, <1>5 DEF IInv, ZombieKeepsCode, Process
  <2>2. r \in Process
    BY <1>2, <2>1, WaitType DEF Process, Point
  <2>3. r.state = "Alive" /\ r.at = "remove" /\ r.target = t
        /\ r.rax = processes[t].exit_code /\ r.exit_code = processes[current].exit_code
    BY <1>1, <1>2 DEF Process
  <2>4. processes' = [p \in Listed |-> IF p = current THEN r ELSE processes[p]]
    BY <1>1, <1>2, <1>5
  <2> QED
    BY <1>1, <1>5, <2>1, <2>2, <2>3, <2>4, WaiterInv
<1> QED
  BY <1>3, <1>4, <1>5 DEF WaitFind

\* What wait() is about to unlist has exited: it is neither the caller nor Eve.
LEMMA RemovesAnother ==
    ASSUME IInv, CpuAt("remove")
    PROVE  LET t == processes[current].target
           IN  /\ t # current /\ t # Eve
               /\ processes[current].rax \in exited[t]
               /\ current \in Listed /\ processes[current].state = "Alive"
<1>1. /\ current \in Listed /\ processes[current].at = "remove"
      /\ processes[current].state = "Alive" /\ exited[current] = {}
  BY AliveUnlessHalted DEF CpuAt, IInv, CurrentListed
<1> QED
  BY <1>1 DEF IInv, WaiterHoldsCode, PidsFresh

\* wait() unlists its target and returns the code it holds.
LEMMA WaitRemoveInv ==
    ASSUME IInv, WaitRemove
    PROVE  IInv'
<1> DEFINE t == processes[current].target
<1>1. CpuAt("remove") /\ UNCHANGED <<next_pid, panicked, exited>>
  BY DEF WaitRemove
<1>2. /\ t # current /\ t # Eve /\ current \in Listed /\ Eve \in Listed
      /\ processes[current].state = "Alive"
  BY <1>1, RemovesAnother DEF IInv, CurrentListed
<1>3. current' = current /\ Return(Listed \ {t}, processes[current].rax)
  BY <1>2 DEF WaitRemove, CursorAfterRemoving
<1> DEFINE r == [processes[current] EXCEPT !.at = "user", !.rax = processes[current].rax]
<1>4. processes[current] \in Process /\ processes[current].rax \in Nat
  BY <1>2 DEF IInv, TypeOK, Process
<1>5. r \in Process
  BY <1>4, WaitType DEF Process, Point
<1>6. r.state = "Alive" /\ r.at = "user" /\ r.exit_code = processes[current].exit_code
  BY <1>2, <1>4 DEF Process
<1>7. processes' = [p \in Listed \ {t} |-> IF p = current THEN r ELSE processes[p]]
  BY <1>3 DEF Return
<1>8. /\ Listed \ {t} \in SUBSET Listed /\ current \in Listed \ {t} /\ Eve \in Listed \ {t}
      /\ UNCHANGED <<current, next_pid, panicked, exited>>
  BY <1>1, <1>2, <1>3
<1> HIDE DEF t, r
<1> QED
  BY <1>2, <1>5, <1>6, <1>7, <1>8, WaiterInv

\* Every step of the kernel preserves the invariant.
LEMMA NextInv == IInv /\ [Next]_vars => IInv'
<1> SUFFICES ASSUME IInv, [Next]_vars PROVE IInv'
  OBVIOUS
<1>1. CASE TimerTick
  BY <1>1, SwitchInv DEF TimerTick
<1>2. CASE ThreadYield
  BY <1>2, SwitchInv DEF ThreadYield
<1>3. CASE Spawn
  <2>1. panicked' \in BOOLEAN
    BY <1>3 DEF Spawn, IInv, TypeOK
  <2> QED
    BY <1>3, <2>1, AddProcessInv DEF Spawn
<1>4. CASE KeyboardSpawn
  <2>1. CASE AddProcess(current) /\ panicked' = FALSE
    BY <1>4, <2>1, AddProcessInv DEF KeyboardSpawn
  <2>2. CASE panicked' = TRUE /\ UNCHANGED <<processes, next_pid>>
    BY <1>4, <2>2 DEF KeyboardSpawn, IInv, TypeOK, CurrentListed, NoneLost,
       ZombieKeepsCode, WaiterHoldsCode, PidsFresh, Listed
  <2> QED
    BY <1>4, <2>1, <2>2 DEF KeyboardSpawn
<1>5. CASE ThreadExit
  BY <1>5, ThreadExitInv
<1>6. CASE WaitCall
  BY <1>6, WaitCallInv
<1>7. CASE WaitFind
  BY <1>7, WaitFindInv
<1>8. CASE WaitRemove
  BY <1>8, WaitRemoveInv
<1>9. CASE Halt \/ UNCHANGED vars
  <2>1. UNCHANGED vars
    BY <1>9 DEF Halt
  <2> QED
    BY <2>1 DEF vars, IInv, TypeOK, CurrentListed, NoneLost, ZombieKeepsCode,
       WaiterHoldsCode, PidsFresh, Listed
<1> QED
  BY <1>1, <1>2, <1>3, <1>4, <1>5, <1>6, <1>7, <1>8, <1>9 DEF Next

-----------------------------------------------------------------------------
\* The inductive invariant holds in every state the kernel reaches.
THEOREM Invariance == Spec => []IInv
BY InitInv, NextInv, PTL DEF Spec

\* The process table is well typed in every reachable state.
THEOREM TypeCorrect == Spec => []TypeOK
BY Invariance, PTL DEF IInv

\* The unchecked unwrap in Scheduler::current is safe.
THEOREM CurrentSafe == Spec => []CurrentListed
BY Invariance, PTL DEF IInv

\* switch can find every live process.
THEOREM NoProcessLost == Spec => []NoneLost
BY Invariance, PTL DEF IInv

\* A zombie keeps its code, and its waiter holds it, until it is returned.
THEOREM CodesKept == Spec => [](ZombieKeepsCode /\ WaiterHoldsCode)
BY Invariance, PTL DEF IInv

-----------------------------------------------------------------------------
(* Action properties, from the invariant. *)

\* How a step treats a listed process: it stays the child of its parent, a
\* zombie stays a zombie, and one that is in wait() stays there unless it is
\* the waiter's own step.
Continues(p) ==
    /\ processes'[p].ppid = processes[p].ppid
    /\ processes[p].state = "Zombie" => processes'[p].state = "Zombie"
    /\ processes[p].at \in {"find", "remove"} =>
          processes'[p].at = processes[p].at \/ (p = current /\ (WaitFind \/ WaitRemove))

\* Every step continues the listed processes; wait() alone unlists one, its
\* target; only the next fresh pid is ever added.
LEMMA StepEffect ==
    ASSUME IInv, [Next]_vars
    PROVE  /\ \A p \in Listed \cap Listed' : Continues(p)
           /\ \A p \in Listed \ Listed' : WaitRemove /\ p = processes[current].target
           /\ \A p \in Listed' \ Listed : p = next_pid
<1>0. /\ processes \in [Listed -> Process] /\ current \in Listed
      /\ \A p \in Listed : processes[p] \in Process
  BY DEF IInv, TypeOK, CurrentListed
<1>1. CASE Switch
  BY <1>0, <1>1 DEF Switch, Listed, Process, Continues
<1>2. CASE AddProcess(current) /\ next_pid < MaxPids
  <2>1. next_pid \notin Listed
    BY <1>2 DEF IInv, PidsFresh, TypeOK, Pid
  <2> QED
    BY <1>2, <2>1 DEF AddProcess, Listed, Continues
<1>3. CASE ThreadExit
  <2>1. PICK code \in ExitCodes :
          processes' = [processes EXCEPT ![current] =
                            [Terminate(processes[current], code) EXCEPT !.at = "halted"]]
    BY <1>3 DEF ThreadExit
  <2>2. processes[current].at = "user"
    BY <1>3 DEF ThreadExit, CpuAt
  <2>3. /\ processes'[current].ppid = processes[current].ppid
        /\ processes'[current].state = "Zombie"
    BY <1>0, <2>1 DEF Terminate, Process
  <2> QED
    BY <1>0, <2>1, <2>2, <2>3 DEF Listed, Continues
<1>4. CASE WaitCall
  BY <1>0, <1>4 DEF WaitCall, CpuAt, Listed, Process, Continues
<1>5. CASE WaitFind
  <2>1. CASE Return(Listed, 0)
    BY <1>0, <1>5, <2>1 DEF Return, Listed, Process, Continues
  <2>2. CASE processes' = [processes EXCEPT ![current].at = "remove",
                ![current].rax = processes[processes[current].target].exit_code]
    BY <1>0, <1>5, <2>2 DEF Listed, Process, Continues
  <2> QED
    BY <1>1, <1>5, <2>1, <2>2 DEF WaitFind
<1>6. CASE WaitRemove
  BY <1>0, <1>6 DEF WaitRemove, Return, Listed, Process, Continues
<1>7. CASE UNCHANGED processes
  BY <1>7 DEF Listed, Continues
<1> QED
  BY <1>1, <1>2, <1>3, <1>4, <1>5, <1>6, <1>7
  DEF Next, TimerTick, ThreadYield, Spawn, KeyboardSpawn, Halt, vars

\* A pid never denotes two processes, so a waiter cannot collect a stranger.
THEOREM NoPidReuse == Spec => PidsNeverReused
<1>1. ASSUME IInv, [Next]_vars
      PROVE  [\A p \in Pid : exited[p] # {} \/ p \in Listed =>
                (p \in DOMAIN processes' =>
                   /\ p \in Listed
                   /\ processes'[p].ppid = processes[p].ppid
                   /\ processes[p].state = "Zombie" => processes'[p].state = "Zombie")]_vars
  <2>1. exited[next_pid] = {} \/ next_pid \notin Pid
    BY <1>1 DEF IInv, PidsFresh, Pid
  <2> QED
    BY <1>1, <2>1, StepEffect DEF Continues, Listed
<1> QED
  BY <1>1, Invariance, PTL DEF Spec, PidsNeverReused

\* A process is unlisted only as a zombie whose code the waiter then holds,
\* and never while it is on the CPU.
THEOREM ReapCollects == Spec => ReapedWhenCollected
<1>1. ASSUME IInv, [Next]_vars
      PROVE  [\A p \in Listed \ DOMAIN processes' :
                /\ processes[p].state = "Zombie"
                /\ p # current
                /\ processes'[current].rax \in exited[p]]_vars
  <2> SUFFICES ASSUME NEW p \in Listed \ DOMAIN processes'
               PROVE  /\ processes[p].state = "Zombie"
                      /\ p # current
                      /\ processes'[current].rax \in exited[p]
    OBVIOUS
  <2>1. WaitRemove /\ p = processes[current].target
    BY <1>1, StepEffect DEF Listed
  <2>2. /\ p # current /\ processes[current].rax \in exited[p] /\ current \in Listed
        /\ processes[current] \in Process
    BY <1>1, <2>1, RemovesAnother DEF WaitRemove, IInv, TypeOK
  <2>3. processes[p].state = "Zombie"
    BY <1>1, <2>2 DEF IInv, ZombieKeepsCode
  <2>4. processes'[current].rax = processes[current].rax
    BY <2>1, <2>2 DEF WaitRemove, Return, Process
  <2> QED
    BY <2>2, <2>3, <2>4
<1> QED
  BY <1>1, Invariance, PTL DEF Spec, ReapedWhenCollected

\* wait() returns its target's exit code, or 0 for a pid that is not listed.
THEOREM WaitCorrect == Spec => WaitReturnsCode
<1>1. ASSUME IInv, [Next]_vars
      PROVE  [\A p \in Listed :
                processes[p].at \in {"find", "remove"} /\ processes'[p].at = "user" =>
                   LET t == processes[p].target
                   IN  \/ processes'[p].rax \in exited[t]
                       \/ t \notin Listed /\ processes'[p].rax = 0]_vars
  <2> SUFFICES ASSUME NEW p \in Listed,
                      processes[p].at \in {"find", "remove"}, processes'[p].at = "user"
               PROVE  \/ processes'[p].rax \in exited[processes[p].target]
                      \/ processes[p].target \notin Listed /\ processes'[p].rax = 0
    OBVIOUS
  <2>0. /\ processes[p] \in Process /\ processes \in [Listed -> Process]
    BY <1>1 DEF IInv, TypeOK
  <2>1. CASE p \notin Listed'
    <3>1. WaitRemove /\ p = processes[current].target
      BY <1>1, <2>1, StepEffect
    <3>2. exited[p] # {} /\ processes[p].at = "halted"
      BY <1>1, <3>1, RemovesAnother DEF WaitRemove, IInv, ZombieKeepsCode
    <3> QED
      BY <3>2
  <2>2. CASE p \in Listed'
    <3>1. p = current /\ (WaitFind \/ WaitRemove)
      BY <1>1, <2>2, StepEffect DEF Continues
    <3>2. CASE WaitFind
      <4>1. CASE processes[current].target \notin Listed /\ Return(Listed, 0)
        BY <2>0, <3>1, <4>1 DEF Return, Process
      <4>2. CASE Switch
        BY <2>0, <4>2 DEF Switch, Process
      <4>3. CASE processes' = [processes EXCEPT ![current].at = "remove",
                     ![current].rax = processes[processes[current].target].exit_code]
        BY <2>0, <3>1, <4>3 DEF Process
      <4> QED
        BY <3>2, <4>1, <4>2, <4>3 DEF WaitFind
    <3>3. CASE WaitRemove
      <4>1. processes[p].rax \in exited[processes[p].target]
        BY <1>1, <3>1, <3>3, RemovesAnother DEF WaitRemove
      <4>2. processes'[p].rax = processes[p].rax
        BY <2>0, <2>2, <3>1, <3>3 DEF WaitRemove, Return, Process, Listed
      <4> QED
        BY <4>1, <4>2
    <3> QED
      BY <3>1, <3>2, <3>3
  <2> QED
    BY <2>1, <2>2
<1> QED
  BY <1>1, Invariance, PTL DEF Spec, WaitReturnsCode
=============================================================================
