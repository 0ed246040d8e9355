------------------------------- MODULE Tasks -------------------------------
(***************************************************************************)
(* The multitasking core of the kernel: the ring of task blocks, the       *)
(* round-robin scheduler, the parent/child accounting and the process      *)
(* system calls (kernel/multitask/task.c, kernel/multitask/schedule.c),    *)
(* driven by the timer interrupt, by int $127 and by the user library's    *)
(* fork, wait, exit and switch_task (user/library/system.c).               *)
(*                                                                         *)
(* One processor.  A system call runs behind an interrupt gate, with the   *)
(* interrupt flag clear, so each handler is one action; an interrupt can   *)
(* strike between any two actions of the running program.                  *)
(***************************************************************************)
EXTENDS Integers, FiniteSets

CONSTANTS MaxTasks,  \* bound of the model: how many task blocks are ever created
          Shells     \* how many times main executes exec("SHELL") (3 in init/main.c)

ASSUME TasksAssumption == MaxTasks \in Nat \ {0} /\ Shells \in Nat

(* A task block is named by its pid; block 0 is made by init_multitask and
   task_queue points to it for ever. *)
Task == 0 .. MaxTasks - 1
Main == 0
Null == -1
Wild == -2   \* a word of the kernel image, read through the null cur_task

Ready   == "READY"
Blocked == "BLOCKED"
Dead    == "DEAD"

(* Where a program is, between two of its system calls: in main's loop, in its
   own code, just back from wait(), between the two system calls of the
   library's exit(), and in the endless loop that ends exit(). *)
Place == {"main", "run", "waited", "exit", "spin"}

VARIABLES
    pid_counter,     \* number of task blocks created so far
    next,            \* the circular list all task blocks hang on
    status,
    parent,
    children,        \* newest child: the head of a list linked by brothers
    brothers,
    children_count,
    cur_task,
    estatus,         \* the context saved in each task block
    cpu,             \* the context the processor runs
    launched         \* shells main has started

family == <<parent, children, brothers, children_count>>
vars == <<pid_counter, next, status, family, cur_task, estatus, cpu, launched>>

Created == 0 .. pid_counter - 1

(* The state init_multitask leaves.  Block 0 took its brothers pointer from
   the word at the offset of children in the block at address 0. *)
init_multitask ==
    /\ pid_counter = 1
    /\ next = [t \in Task |-> IF t = Main THEN Main ELSE Null]
    /\ status = [t \in Task |-> Ready]
    /\ parent = [t \in Task |-> Null]
    /\ children = [t \in Task |-> Null]
    /\ brothers = [t \in Task |-> IF t = Main THEN Wild ELSE Null]
    /\ children_count = [t \in Task |-> 0]
    /\ cur_task = Main

Init ==
    /\ init_multitask
    /\ estatus = [t \in Task |-> IF t = Main THEN "main" ELSE "run"]
    /\ cpu = "main"
    /\ launched = 0

-----------------------------------------------------------------------------
(* Scheduling *)

(* Definitions named Faulty... are what a slip in the definition after them
   would be; no action uses them, they are there to be put in its place. *)
FaultyWake(t) ==  \* skips the BLOCKED blocks only
    /\ t = cur_task \/ status[t] # Blocked
    /\ \E skipped \in SUBSET {s \in Created \ {cur_task} : status[s] = Blocked} :
          \A s \in skipped \cup {cur_task} : next[s] \in skipped \cup {t}

FaultyStart(t) ==  \* searches from block 0 on, not from the running one
    /\ t = cur_task \/ status[t] = Ready
    /\ \E skipped \in SUBSET {s \in Created \ {cur_task} : status[s] # Ready} :
          \A s \in skipped \cup {Main} : next[s] \in skipped \cup {t}

(* get_next_task follows next from cur_task past blocks that are not READY,
   and stops at the first READY one or when it is back at cur_task: it stops
   at t having passed only blocks of skipped. *)
IsNextTask(t) ==
    /\ t = cur_task \/ status[t] = Ready
    /\ \E skipped \in SUBSET {s \in Created \ {cur_task} : status[s] # Ready} :
          \A s \in skipped \cup {cur_task} : next[s] \in skipped \cup {t}

FaultySave ==  \* saves the context after cur_task has moved on
    \E t \in Created :
        /\ IsNextTask(t)
        /\ cpu' = estatus[t]
        /\ estatus' = [estatus EXCEPT ![t] = cpu]
        /\ cur_task' = t
        /\ UNCHANGED <<pid_counter, next, status, family, launched>>

(* task_switch: save the interrupted context in its block, load that of the
   chosen block (possibly the same one). *)
task_switch ==
    \E t \in Created :
        /\ IsNextTask(t)
        /\ estatus' = [estatus EXCEPT ![cur_task] = cpu]
        /\ cpu' = estatus'[t]
        /\ cur_task' = t
        /\ UNCHANGED <<pid_counter, next, status, family, launched>>

(* The timer interrupt that completes a time slice. *)
timer_handler == task_switch

(* The user library's switch_task: int $127, served by debug_handler. *)
switch_task(t) ==
    /\ cur_task = t
    /\ cpu \in {"run", "waited"}
    /\ task_switch

-----------------------------------------------------------------------------
(* Creating tasks *)

FaultyInsert(new, context) ==  \* forgets the rest of the ring
    /\ pid_counter < MaxTasks
    /\ pid_counter' = pid_counter + 1
    /\ status' = [status EXCEPT ![new] = Ready]
    /\ next' = [next EXCEPT ![new] = Main, ![Main] = new]
    /\ estatus' = [estatus EXCEPT ![new] = context]

(* create_empty_task: the new block enters the ring right behind block 0. *)
CreateTask(new, context) ==
    /\ pid_counter < MaxTasks
    /\ pid_counter' = pid_counter + 1
    /\ status' = [status EXCEPT ![new] = Ready]
    /\ next' = [next EXCEPT ![new] = next[Main], ![Main] = new]
    /\ estatus' = [estatus EXCEPT ![new] = context]

FaultyHead(new, brother, counted) ==  \* hangs the child on block 0's list
    /\ parent' = [parent EXCEPT ![new] = cur_task]
    /\ brothers' = [brothers EXCEPT ![new] = brother]
    /\ children' = [children EXCEPT ![Main] = new]
    /\ children_count' = [children_count EXCEPT ![cur_task] = @ + counted]

FaultyCount(new, brother, counted) ==  \* does not count the child
    /\ parent' = [parent EXCEPT ![new] = cur_task]
    /\ brothers' = [brothers EXCEPT ![new] = brother]
    /\ children' = [children EXCEPT ![cur_task] = new]
    /\ UNCHANGED children_count

(* The new block becomes the newest child of the running task. *)
LinkChild(new, brother, counted) ==
    /\ parent' = [parent EXCEPT ![new] = cur_task]
    /\ brothers' = [brothers EXCEPT ![new] = brother]
    /\ children' = [children EXCEPT ![cur_task] = new]
    /\ children_count' = [children_count EXCEPT ![cur_task] = @ + counted]

(* exec: a program read from the disk becomes a child of the running task. *)
exec ==
    /\ CreateTask(pid_counter, "run")
    /\ LinkChild(pid_counter, children[cur_task], 1)

exec_cmd(t) ==
    /\ cur_task = t
    /\ cpu = "run"
    /\ exec
    /\ UNCHANGED <<cur_task, cpu, launched>>

(* main starts its shells and then only loops.  main runs with interrupts on; a
   tick in the middle of its exec is taken in KernelThreads (the count) and in
   Boot (the rest). *)
main ==
    /\ cpu = "main"
    /\ launched < Shells
    /\ exec
    /\ launched' = launched + 1
    /\ UNCHANGED <<cur_task, cpu>>

(* fork_for_syscall: create_empty_task has linked and counted the child, then
   the handler links it (behind itself, now the head of the list) and counts
   it again.  The child starts where the parent called fork. *)
fork(t) ==
    /\ cur_task = t
    /\ cpu = "run"
    /\ CreateTask(pid_counter, cpu)
    /\ LinkChild(pid_counter, pid_counter, 2)
    /\ UNCHANGED <<cur_task, cpu, launched>>

-----------------------------------------------------------------------------
(* Waiting and ending *)

(* wait_for_syscall marks the caller and returns to it. *)
WaitCall(then) ==
    /\ status' = IF children_count[cur_task] > 0
                 THEN [status EXCEPT ![cur_task] = Blocked] ELSE status
    /\ cpu' = then
    /\ UNCHANGED <<pid_counter, next, family, cur_task, estatus, launched>>

wait(t) == cur_task = t /\ cpu = "run" /\ WaitCall("waited")

(* The program goes on after wait(). *)
resume(t) ==
    /\ cur_task = t
    /\ cpu = "waited"
    /\ cpu' = "run"
    /\ UNCHANGED <<pid_counter, next, status, family, cur_task, estatus, launched>>

(* The library's exit, also called when the program's main returns: first
   syscall_wait, then syscall_exit, then an endless loop. *)
exit(t) == cur_task = t /\ cpu = "run" /\ WaitCall("exit")

FaultyExit(t) ==  \* dies whether or not it has children
    /\ cur_task = t
    /\ cpu = "exit"
    /\ cpu' = "spin"
    /\ status' = [status EXCEPT ![t] = Dead]
    /\ children_count' = [children_count EXCEPT ![parent[t]] = @ - 1]
    /\ UNCHANGED <<pid_counter, next, parent, children, brothers, cur_task,
                   estatus, launched>>

FaultyFarewell(t) ==  \* does not tell its parent
    /\ cur_task = t
    /\ cpu = "exit"
    /\ cpu' = "spin"
    /\ status' = IF children_count[t] = 0 THEN [status EXCEPT ![t] = Dead] ELSE status
    /\ UNCHANGED <<pid_counter, next, family, cur_task, estatus, launched>>

(* exit_for_syscall: a task with no children left dies and its parent counts
   one less; any other goes on, into the endless loop of the library. *)
exit_for_syscall(t) ==
    /\ cur_task = t
    /\ cpu = "exit"
    /\ cpu' = "spin"
    /\ IF children_count[t] = 0
       THEN /\ status' = [status EXCEPT ![t] = Dead]
            /\ children_count' = [children_count EXCEPT ![parent[t]] = @ - 1]
       ELSE UNCHANGED <<status, children_count>>
    /\ UNCHANGED <<pid_counter, next, parent, children, brothers, cur_task,
                   estatus, launched>>

Program(t) ==
    \/ switch_task(t) \/ exec_cmd(t) \/ fork(t) \/ wait(t) \/ resume(t)
    \/ exit(t) \/ exit_for_syscall(t)

Next == timer_handler \/ main \/ \E t \in Task : Program(t)

Spec == Init /\ [][Next]_vars

(* The clock keeps ticking, and a slice is long enough for the program it goes
   to to make its next system call. *)
Fairness ==
    /\ WF_vars(timer_handler)
    /\ \A t \in Task : SF_vars(resume(t)) /\ SF_vars(exit_for_syscall(t))

FairSpec == Spec /\ Fairness

-----------------------------------------------------------------------------
(* Properties *)

At(t) == IF t = cur_task THEN cpu ELSE estatus[t]
ChildrenOf(p) == {t \in Created : parent[t] = p}
LiveChildren(p) == {t \in ChildrenOf(p) : status[t] # Dead}
ForkedChildren(p) == {t \in ChildrenOf(p) : brothers[t] = t}

(* The variables stay in their types: pointers lead to created blocks, and the
   counters of children never go below zero. *)
TypeOK ==
    /\ pid_counter \in 1 .. MaxTasks
    /\ next \in [Task -> Created \cup {Null}]
    /\ status \in [Task -> {Ready, Blocked, Dead}]
    /\ parent \in [Task -> Created \cup {Null}]
    /\ children \in [Task -> Created \cup {Null}]
    /\ brothers \in [Task -> Created \cup {Null, Wild}]
    /\ children_count \in [Task -> Nat]
    /\ cur_task \in Created
    /\ estatus \in [Task -> Place]
    /\ cpu \in Place
    /\ launched \in 0 .. Shells

(* The next pointers of the created blocks form one cycle through all of them:
   no proper part of the ring is closed under next.  get_next_task, which walks
   until it is back at cur_task, terminates because of it. *)
RingIsOneCycle ==
    /\ \A t \in Created : next[t] \in Created
    /\ \A part \in SUBSET Created :
          part # {} /\ (\A t \in part : next[t] \in part) => part = Created

(* What children_count counts: a child once while it lives, and a forked child
   once more for ever, because fork links it twice and exit takes it off once.
   So a task that forked never sees its count return to zero. *)
ChildrenCountLedger ==
    \A p \in Created :
        children_count[p] =
            Cardinality(LiveChildren(p)) + Cardinality(ForkedChildren(p))

(* A task does not die before its children: the parent pointer exit writes
   through always leads to a task that is still alive. *)
NoLiveOrphans ==
    \A t \in Created \ {Main} :
        status[t] # Dead => parent[t] \in Created /\ status[parent[t]] # Dead

(* The sibling lists of two families never get mixed, although fork links its
   child to itself and so cuts off the older children. *)
SiblingsShareParent ==
    \A t \in Created \ {Main} :
        brothers[t] # Null => brothers[t] \in Created /\ parent[brothers[t]] = parent[t]

(* A dead task that has lost the processor never gets it back, although its
   block stays on the ring for ever. *)
DeadStaysOff ==
    [][\A t \in Created : status[t] = Dead /\ cur_task # t => cur_task' # t]_vars

(* A step of the running program, or a switch, leaves every other task at the
   place where it was interrupted. *)
ContextsSurvive ==
    [][\A t \in Created : t # cur_task \/ cur_task' # cur_task => At(t)' = At(t)]_vars

(* Round robin starves nobody: a READY task gets the processor. *)
ReadyRuns ==
    \A t \in Task :
        (t \in Created /\ status[t] = Ready) ~> (cur_task = t \/ status[t] # Ready)

(* A READY program without children that is inside exit ends up dead, however
   the ticks fall between its two system calls. *)
ExitCompletes ==
    \A t \in Task :
        (t \in Created /\ At(t) = "exit" /\ status[t] = Ready /\ children_count[t] = 0)
            ~> status[t] = Dead

(* What the fork tests of kernel/lab.c expect of wait: once its children have
   ended, a task that waited goes on. *)
WaitReturns ==
    \A t \in Task :
        (t \in Created /\ At(t) = "waited" /\ LiveChildren(t) = {}) ~> At(t) # "waited"
=============================================================================
