------------------------------ MODULE Scheduler ------------------------------
(***************************************************************************)
(* The process table and the round-robin scheduler of the kernel           *)
(* (kernel/src/threading).  One CPU; a system call runs with interrupts    *)
(* off, so it is preempted only where it calls thread_yeild itself.  Eve,  *)
(* the kernel's own process, runs its calls with interrupts on.            *)
(*                                                                         *)
(* The list of processes is kept here as a function whose domain is the    *)
(* set of listed pids: add_process pushes at the tail and pids only grow,  *)
(* so the order of the list is the order of the pids.  LinkedList.tla      *)
(* models the pointers of the list and is shown to implement that order.   *)
(***************************************************************************)
EXTENDS Naturals, FiniteSets

CONSTANTS MaxPids,      \* bound: pids handed out before the model stops spawning
          ExitCodes     \* the codes a program may pass to sysexit

ASSUME MaxPidsAssumption   == MaxPids \in Nat \ {0}
ASSUME ExitCodesAssumption == ExitCodes \subseteq Nat /\ ExitCodes # {}

VARIABLES processes,    \* the listed processes, by pid
          current,      \* pid at the list's cursor: the process on the CPU
          next_pid,
          panicked,     \* the panic handler has run: interrupts off, halted
          exited        \* history: the codes each pid has passed to sysexit

vars == <<processes, current, next_pid, panicked, exited>>

Eve == 0
Pid == 0 .. MaxPids - 1
Listed == DOMAIN processes

\* ProcessStatus
Status == {"Waiting", "Running", "Zombie"}

(***************************************************************************)
(* Where a process stands when it is next given the CPU:                   *)
(*   "user"   its own code, interrupts on                                  *)
(*   "find"   in wait(), about to look the target up                       *)
(*   "remove" in wait(), holds the exit code, about to unlist the target   *)
(*   "halted" in khalt() after thread_exit, interrupts on                  *)
(***************************************************************************)
Point == {"user", "find", "remove", "halted"}

\* A Process: state is its ProcessState, target and rax belong to a wait().
Process == [ppid : Pid, status : Status, state : {"Alive", "Zombie"},
            exit_code : Nat, at : Point, target : Pid, rax : Nat]

NewProcess(parent) ==
    [ppid |-> parent, status |-> "Waiting", state |-> "Alive",
     exit_code |-> 0, at |-> "user", target |-> Eve, rax |-> 0]

TypeOK ==
    /\ Listed \subseteq Pid
    /\ processes \in [Listed -> Process]
    /\ current \in Pid
    /\ next_pid \in Nat
    /\ panicked \in BOOLEAN
    /\ exited \in [Pid -> SUBSET Nat]

\* Scheduler::init: Eve is the only process; its context is restored at once
\* and its status stays Waiting until the first switch.
Init ==
    /\ processes = [p \in {Eve} |-> NewProcess(Eve)]
    /\ current = Eve
    /\ next_pid = 1
    /\ panicked = FALSE
    /\ exited = [p \in Pid |-> {}]

-----------------------------------------------------------------------------
\* The process that has the CPU is at point a of its code.
CpuAt(a) == ~panicked /\ processes[current].at = a

\* Interrupts reach the CPU: always for Eve, else outside system calls.
InterruptsOn ==
    /\ ~panicked
    /\ current = Eve \/ processes[current].at \in {"user", "halted"}

\* Mutant: next_pid is counted up before it is handed out.
AddProcessCountsFirst(parent) ==
    /\ processes' = [p \in Listed \cup {next_pid + 1} |->
                        IF p = next_pid + 1 THEN NewProcess(parent) ELSE processes[p]]
    /\ next_pid' = next_pid + 1

\* Scheduler::add_process
AddProcess(parent) ==
    /\ processes' = [p \in Listed \cup {next_pid} |->
                        IF p = next_pid THEN NewProcess(parent) ELSE processes[p]]
    /\ next_pid' = next_pid + 1

(***************************************************************************)
(* Scheduler::switch.  The process on the CPU becomes Waiting, whatever it *)
(* was; the cursor then moves along the list, wrapping at its end, to the  *)
(* first process that is Waiting.                                          *)
(***************************************************************************)
Ready == {p \in Listed : p = current \/ processes[p].status = "Waiting"}

Comes(p, q) == \* from the cursor, p is met no later than q
    IF p > current THEN q > current => p <= q ELSE q <= current /\ p <= q

\* Mutant: the search starts over at the head of the list on every switch.
IsNextFromHead(n) == n \in Ready /\ \A q \in Ready : n <= q

IsNext(n) == n \in Ready /\ \A q \in Ready : Comes(n, q)

\* Mutant: the process that loses the CPU is left Running.
NextStatusKeepsRunning(p, n) ==
    IF p = n THEN "Running" ELSE processes[p].status

NextStatus(p, n) ==
    CASE p = n -> "Running"
      [] p # n /\ p = current -> "Waiting"
      [] OTHER -> processes[p].status

Switch ==
    \E n \in Listed :
        /\ IsNext(n)
        /\ current' = n
        /\ processes' = [p \in Listed |->
                            [processes[p] EXCEPT !.status = NextStatus(p, n)]]

-----------------------------------------------------------------------------
\* The timer interrupt: context_switch, swtch.  When Eve holds the scheduler's
\* lock, swtch resumes the same context: a stuttering step.
TimerTick ==
    /\ InterruptsOn
    /\ Switch
    /\ UNCHANGED <<next_pid, panicked, exited>>

\* sysyield, thread_yeild
ThreadYield ==
    /\ CpuAt("user")
    /\ Switch
    /\ UNCHANGED <<next_pid, panicked, exited>>

\* sysspawn, syspspawn: the caller becomes the parent.  (A spawn that fails
\* leaves the process table alone.)
Spawn ==
    /\ CpuAt("user")
    /\ next_pid < MaxPids
    /\ AddProcess(current)
    /\ UNCHANGED <<current, panicked, exited>>

\* Ctrl+Shift+C: the keyboard interrupt calls pspawn in the name of whichever
\* process it interrupted and unwraps the result.  On a zombie open() panics in
\* with_current_state; for a live process any of pspawn's steps may fail, and
\* then the unwrap panics.
KeyboardSpawn ==
    /\ InterruptsOn
    /\ next_pid < MaxPids
    /\ \/ /\ processes[current].state = "Alive"
          /\ AddProcess(current)
          /\ panicked' = FALSE
       \/ /\ panicked' = TRUE
          /\ UNCHANGED <<processes, next_pid>>
    /\ UNCHANGED <<current, exited>>

\* Mutant: the exit code is dropped.
TerminateDropsCode(p, code) ==
    [p EXCEPT !.state = "Zombie", !.status = "Zombie"]

\* Process::terminate on the process itself
Terminate(p, code) ==
    [p EXCEPT !.state = "Zombie", !.status = "Zombie", !.exit_code = code]

\* sysexit, thread_exit: zombie, interrupts on, halt.  Eve never exits.
ThreadExit ==
    /\ CpuAt("user")
    /\ current # Eve
    /\ \E code \in ExitCodes :
         /\ processes' = [processes EXCEPT ![current] =
                             [Terminate(processes[current], code) EXCEPT !.at = "halted"]]
         /\ exited' = [exited EXCEPT ![current] = @ \cup {code}]
    /\ UNCHANGED <<current, next_pid, panicked>>

\* syswait is entered, for any pid the caller cares to name.
WaitCall ==
    /\ CpuAt("user")
    /\ \E t \in Pid :
         processes' = [processes EXCEPT ![current].at = "find", ![current].target = t]
    /\ UNCHANGED <<current, next_pid, panicked, exited>>

\* wait() returns code to the process on the CPU.
Return(table, code) ==
    processes' = [p \in table |->
                    IF p = current THEN [processes[p] EXCEPT !.at = "user", !.rax = code]
                                   ELSE processes[p]]

\* Mutant: a waiter polls without giving up the CPU.
WaitFindSpins ==
    /\ CpuAt("find")
    /\ LET t == processes[current].target
       IN  \/ /\ t \notin Listed
              /\ Return(Listed, 0)
           \/ /\ t \in Listed /\ processes[t].state = "Alive"
              /\ UNCHANGED processes
           \/ /\ t \in Listed /\ processes[t].state = "Zombie"
              /\ processes' = [processes EXCEPT ![current].at = "remove",
                                                ![current].rax = processes[t].exit_code]
    /\ UNCHANGED <<current, next_pid, panicked, exited>>

\* wait(): super::find and the match on what it found.
WaitFind ==
    /\ CpuAt("find")
    /\ LET t == processes[current].target
       IN  \/ /\ t \notin Listed
              /\ Return(Listed, 0)
              /\ UNCHANGED current
           \/ /\ t \in Listed /\ processes[t].state = "Alive"
              /\ Switch
           \/ /\ t \in Listed /\ processes[t].state = "Zombie"
              /\ processes' = [processes EXCEPT ![current].at = "remove",
                                                ![current].rax = processes[t].exit_code]
              /\ UNCHANGED current
    /\ UNCHANGED <<next_pid, panicked, exited>>

\* LinkedList::remove_node: a cursor on the removed node falls back to the
\* node before it.
CursorAfterRemoving(t) ==
    IF t = current
    THEN CHOOSE p \in Listed : p < t /\ \A q \in Listed : q < t => q <= p
    ELSE current

\* Mutant: the waiter unlists itself instead of its target.
WaitRemoveSelf ==
    /\ CpuAt("remove")
    /\ Return(Listed \ {current}, processes[current].rax)
    /\ UNCHANGED <<current, next_pid, panicked, exited>>

\* wait(): super::remove, which finds nothing if another waiter was faster.
WaitRemove ==
    /\ CpuAt("remove")
    /\ LET t == processes[current].target
       IN  /\ current' = CursorAfterRemoving(t)
           /\ Return(Listed \ {t}, processes[current].rax)
    /\ UNCHANGED <<next_pid, panicked, exited>>

\* The panic handler: cli, then khalt().
Halt == panicked /\ UNCHANGED vars

Next ==
    \/ TimerTick
    \/ ThreadYield
    \/ Spawn
    \/ KeyboardSpawn
    \/ ThreadExit
    \/ WaitCall
    \/ WaitFind
    \/ WaitRemove
    \/ Halt

Spec == Init /\ [][Next]_vars

(***************************************************************************)
(* The timer keeps ticking and its interrupt stays pending while           *)
(* interrupts are off, so a tick that is enabled again and again is taken. *)
(* A quantum is far longer than the few instructions from one step of      *)
(* wait() to the next, so ticks cannot keep Eve from its next step either: *)
(* strong fairness for both.                                               *)
(***************************************************************************)
FairSpec ==
    /\ Spec
    /\ SF_vars(TimerTick)
    /\ \A p \in Pid : SF_vars(current = p /\ (WaitFind \/ WaitRemove))

-----------------------------------------------------------------------------
(* Safety *)

\* Scheduler::current unwraps the cursor unchecked: the cursor is on a listed
\* process, and the head of the list (Eve) is never unlisted.
CurrentListed == current \in Listed /\ Eve \in Listed

\* Only the process on the CPU is marked Running, and every other live process
\* is Waiting: the search in switch finds all of them, none is lost.
NoneLost ==
    \A p \in Listed \ {current} :
        /\ processes[p].status # "Running"
        /\ processes[p].state = "Alive" => processes[p].status = "Waiting"

\* A pid that has exited is not on the CPU's own code again, and the table
\* keeps the code it exited with until it is unlisted.
ZombieKeepsCode ==
    \A p \in Listed :
        /\ processes[p].state = "Zombie" <=> exited[p] # {}
        /\ processes[p].state = "Zombie" <=> processes[p].at = "halted"
        /\ exited[p] # {} => exited[p] = {processes[p].exit_code}

\* Between find and remove a waiter holds the exit code of its target, even if
\* Eve was preempted there and another waiter has unlisted the target.
WaiterHoldsCode ==
    \A p \in Listed :
        processes[p].at = "remove" => processes[p].rax \in exited[processes[p].target]

\* next_pid is above every pid listed or exited so far, and Eve never exits.
PidsFresh ==
    /\ next_pid \in 1 .. MaxPids
    /\ exited[Eve] = {}
    /\ \A p \in Pid : p >= next_pid => p \notin Listed /\ exited[p] = {}

\* wait() returns the code its target exited with, or 0 for a pid that is not
\* listed; it never returns while its target is listed and alive.
WaitReturnsCode ==
    [][\A p \in Listed :
         processes[p].at \in {"find", "remove"} /\ processes'[p].at = "user" =>
            LET t == processes[p].target
            IN  \/ processes'[p].rax \in exited[t]
                \/ t \notin Listed /\ processes'[p].rax = 0]_vars

\* A process leaves the table only as a zombie whose code a waiter then holds,
\* and never while it is on the CPU.
ReapedWhenCollected ==
    [][\A p \in Listed \ DOMAIN processes' :
         /\ processes[p].state = "Zombie"
         /\ p # current
         /\ processes'[current].rax \in exited[p]]_vars

\* A pid is never handed out twice, so a waiter cannot collect a stranger.
PidsNeverReused ==
    [][\A p \in Pid : exited[p] # {} \/ p \in Listed =>
         (p \in DOMAIN processes' =>
            /\ p \in Listed
            /\ processes'[p].ppid = processes[p].ppid
            /\ processes[p].state = "Zombie" => processes'[p].state = "Zombie")]_vars

(* Liveness *)

\* Round robin: a listed process gets the CPU again and again, whatever the
\* others do, zombies not yet collected and waiters that poll included.
EveryoneRuns ==
    \A p \in Pid :
        [](p \in Listed => <>(current = p \/ p \notin Listed \/ panicked))

\* A wait() whose target has exited returns.
WaitReturns ==
    \A p, t \in Pid :
        (p \in Listed /\ processes[p].at = "find" /\ processes[p].target = t
            /\ exited[t] # {})
        ~> (panicked \/ (p \in Listed /\ processes[p].at = "user"))

-----------------------------------------------------------------------------
(* What the code's comments and assertions say that the code does not do *)

\* threading/mod.rs: the other arm of with_current_state is unreachable!(), so
\* the kernel never panics in the name of a process that is a zombie.
CurrentStateReachable == panicked => processes[current].state = "Alive"
=============================================================================
