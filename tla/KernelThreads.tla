--------------------------- MODULE KernelThreads ----------------------------
(***************************************************************************)
(* Tasks of kernel code: the fork, wait and exit the kernel itself can     *)
(* call and the messages its tasks send each other (the first half of      *)
(* kernel/multitask/task.c), as the tests in kernel/lab.c use them: main   *)
(* forks, executes a program, sends, takes and waits, its children send,   *)
(* take and exit.  (A child cannot fork: its data segment is a copy,       *)
(* cur_task included.)                                                     *)
(*                                                                         *)
(* Unlike system calls these functions run with interrupts enabled outside *)
(* their cli ... sti, which is where a tick can fall: in the loop of wait, *)
(* in exit after wait has ended with sti, and anywhere in main's exec.     *)
(* The build is not optimised (kernel/Makefile:3), so the decrement in     *)
(* exit and the increment in exec are a load and a store each.             *)
(*                                                                         *)
(* A context is the place the thread is at, its interrupt flag, and the    *)
(* register that holds the count in exit and in exec.                      *)
(***************************************************************************)
EXTENDS Tasks, Sequences

CONSTANT MaxMessages   \* bound of the model: how many messages are ever sent

ASSUME MessagesAssumption == MaxMessages \in Nat

Message == 1 .. MaxMessages   \* a message is the heap block kmalloc gave it

VARIABLES
    mode,            \* "run", or "lost" after following a wild pointer
    lost,            \* history: whose decrement main's exec wrote over
    allocated,       \* messages allocated so far
    mnext,           \* the member next of each message
    message_box, message_count

mail == <<allocated, mnext, message_box, message_count>>
kvars == <<vars, mode, lost, mail>>

(* A program read from the disk is at "program", then at "spin"; main is at
   "count" between the load and the store of its exec. *)
ThreadPlace == {"run", "wait", "count", "mark", "load", "store", "halt", "program", "spin"}
Context(place, flag) == [at |-> place, on |-> flag, reg |-> 0]

KInit ==
    /\ init_multitask
    /\ estatus = [t \in Task |-> Context("run", TRUE)]
    /\ cpu = Context("run", TRUE)
    /\ launched = 0
    /\ mode = "run"
    /\ lost = {}
    /\ allocated = 0
    /\ mnext = [m \in Message |-> Null]
    /\ message_box = [t \in Task |-> Null]
    /\ message_count = [t \in Task |-> 0]

Runs(t, place) == mode = "run" /\ cur_task = t /\ cpu.at = place

-----------------------------------------------------------------------------
(* Interrupts: the tick that ends a slice, and int $127, which a thread may
   also use while its interrupt flag is clear. *)
tick == mode = "run" /\ cpu.on /\ task_switch /\ UNCHANGED <<mode, lost, mail>>

yield(t) == Runs(t, "run") /\ task_switch /\ UNCHANGED <<mode, lost, mail>>

(* fork: it reads eflags after cli, so the child starts with interrupts off.
   Its child is linked and counted by create_empty_task and again by fork. *)
kernel_fork ==
    /\ Runs(Main, "run")
    /\ CreateTask(pid_counter, Context("run", FALSE))
    /\ LinkChild(pid_counter, pid_counter, 2)
    /\ cpu' = Context("run", TRUE)
    /\ UNCHANGED <<cur_task, launched, mode, lost, mail>>

(* main's exec loads its count of children ... *)
kernel_exec ==
    /\ Runs(Main, "run")
    /\ pid_counter < MaxTasks
    /\ cpu' = [Context("count", TRUE) EXCEPT !.reg = children_count[Main]]
    /\ UNCHANGED <<pid_counter, next, status, family, cur_task, estatus, launched, mode, lost,
                   mail>>

(* ... and stores it with the new task counted, once.  The task is linked before
   and enters the ring after; until then nobody else can see it, so that all
   of it happens here.  (Its context is still zero when it enters: see Boot.) *)
kernel_exec_count ==
    /\ Runs(Main, "count")
    /\ CreateTask(pid_counter, Context("program", TRUE))
    /\ parent' = [parent EXCEPT ![pid_counter] = Main]
    /\ brothers' = [brothers EXCEPT ![pid_counter] = children[Main]]
    /\ children' = [children EXCEPT ![Main] = pid_counter]
    /\ children_count' = [children_count EXCEPT ![Main] = cpu.reg + 1]
    /\ cpu' = Context("run", TRUE)
    /\ UNCHANGED <<cur_task, launched, mode, lost, mail>>

(* A decrement that falls between the load and the store of main's exec. *)
Overwritten(t) == lost' = IF At(Main).at = "count" THEN lost \cup {t} ELSE lost

FaultyProgramExit(t) ==  \* does not tell its parent
    /\ Runs(t, "program")
    /\ status' = [status EXCEPT ![t] = Dead]
    /\ cpu' = Context("spin", TRUE)
    /\ UNCHANGED <<pid_counter, next, family, cur_task, estatus, launched, mode, lost, mail>>

(* A program without children makes the exit system call, which is atomic. *)
program_exit(t) ==
    /\ Runs(t, "program")
    /\ status' = [status EXCEPT ![t] = Dead]
    /\ children_count' = [children_count EXCEPT ![parent[t]] = @ - 1]
    /\ Overwritten(t)
    /\ cpu' = Context("spin", TRUE)
    /\ UNCHANGED <<pid_counter, next, parent, children, brothers, cur_task, estatus, launched,
                   mode, mail>>

-----------------------------------------------------------------------------
(* The running thread goes on to a place, with interrupts enabled. *)
GoTo(place) ==
    /\ cpu' = Context(place, TRUE)
    /\ UNCHANGED <<pid_counter, next, status, family, cur_task, estatus, launched, mode, lost,
                   mail>>

(* wait looks at the count with interrupts off and halts with interrupts on
   until it is zero. *)
kernel_wait(t) == Runs(t, "run") /\ GoTo(IF children_count[t] = 0 THEN "run" ELSE "wait")

FaultyWaitOver(t) == Runs(t, "wait") /\ GoTo("run")  \* goes on after the first interrupt

wait_over(t) == children_count[t] = 0 /\ Runs(t, "wait") /\ GoTo("run")

(* exit begins with a wait, which a thread without children leaves at once. *)
kernel_exit(t) == t # Main /\ Runs(t, "run") /\ GoTo("mark")

FaultyMark(t) ==  \* does not mark the thread
    /\ Runs(t, "mark")
    /\ cpu' = Context("load", TRUE)
    /\ UNCHANGED <<pid_counter, next, status, family, cur_task, estatus, launched, mode, lost,
                   mail>>

(* The rest of exit, one instruction after the other. *)
mark(t) ==
    /\ Runs(t, "mark")
    /\ status' = [status EXCEPT ![t] = Dead]
    /\ cpu' = Context("load", TRUE)
    /\ UNCHANGED <<pid_counter, next, family, cur_task, estatus, launched, mode, lost, mail>>

load(t) ==
    /\ Runs(t, "load")
    /\ cpu' = [Context("store", TRUE) EXCEPT !.reg = children_count[parent[t]]]
    /\ UNCHANGED <<pid_counter, next, status, family, cur_task, estatus, launched, mode, lost,
                   mail>>

store(t) ==
    /\ Runs(t, "store")
    /\ children_count' = [children_count EXCEPT ![parent[t]] = cpu.reg - 1]
    /\ Overwritten(t)
    /\ cpu' = Context("halt", TRUE)
    /\ UNCHANGED <<pid_counter, next, status, parent, children, brothers, cur_task, estatus,
                   launched, mode, mail>>

-----------------------------------------------------------------------------
(* Messages.  A list leads from message_box along mnext. *)
ListOf(t) ==
    LET node[k \in 1 .. allocated + 1] ==
          IF k = 1 THEN message_box[t]
          ELSE IF node[k - 1] \in Message THEN mnext[node[k - 1]] ELSE node[k - 1]
    IN  node

(* Where the list of t ends: null, or a word of the heap that was not zero. *)
EndOf(t) == ListOf(t)[allocated + 1]
LastOf(t) == CHOOSE m \in Message : mnext[m] = Null /\ \E k \in 1 .. allocated : ListOf(t)[k] = m

FaultyDeliver(to, m, word) ==  \* puts a message into a box that is not empty in front
    /\ message_box' = [message_box EXCEPT ![to] = m]
    /\ mnext' = [mnext EXCEPT ![m] = IF message_box[to] = Null THEN word ELSE message_box[to]]

(* The message goes behind the last one; its own next is never set and is what
   the heap holds there. *)
Deliver(to, m, word) ==
    IF message_box[to] = Null
    THEN /\ message_box' = [message_box EXCEPT ![to] = m]
         /\ mnext' = [mnext EXCEPT ![m] = word]
    ELSE /\ UNCHANGED message_box
         /\ mnext' = [mnext EXCEPT ![m] = word, ![LastOf(to)] = m]

Lose == mode' = "lost" /\ UNCHANGED mail

(* The search along the ring finds every created task; for any other pid it
   stops at block 0 and sends nothing. *)
task_send_uint32_message(t, to) ==
    /\ Runs(t, "run")
    /\ cpu' = Context("run", TRUE)
    /\ UNCHANGED <<pid_counter, next, status, family, cur_task, estatus, launched, lost>>
    /\ \/ to \notin Created /\ UNCHANGED <<mode, mail>>
       \/ /\ to \in Created
          /\ allocated < MaxMessages
          /\ IF EndOf(to) = Wild THEN Lose
             ELSE /\ \E word \in {Null, Wild} : Deliver(to, allocated + 1, word)
                  /\ allocated' = allocated + 1
                  /\ message_count' = [message_count EXCEPT ![to] = @ + 1]
                  /\ UNCHANGED mode

(* An empty box gives a pointer that was never set; what its reader makes of it
   is not modelled. *)
task_take_message(t) ==
    /\ Runs(t, "run")
    /\ cpu' = Context("run", TRUE)
    /\ IF message_count[t] = 0 THEN UNCHANGED <<message_box, message_count>>
       ELSE /\ message_box' = [message_box EXCEPT ![t] = mnext[@]]
            /\ message_count' = [message_count EXCEPT ![t] = @ - 1]
    /\ UNCHANGED <<pid_counter, next, status, family, cur_task, estatus, launched, mode, lost,
                   allocated, mnext>>

Thread(t) ==
    \/ yield(t) \/ program_exit(t)
    \/ kernel_wait(t) \/ wait_over(t) \/ kernel_exit(t)
    \/ mark(t) \/ load(t) \/ store(t)
    \/ task_take_message(t) \/ \E to \in Task : task_send_uint32_message(t, to)

KNext ==
    \/ tick \/ kernel_fork \/ kernel_exec \/ kernel_exec_count \/ \E t \in Task : Thread(t)
    \/ mode = "lost" /\ UNCHANGED kvars

KSpec == KInit /\ [][KNext]_kvars

(* The clock ticks while interrupts are enabled, a thread inside exit that gets
   the processor again and again goes on, and so does main in wait, which looks
   at its count after every interrupt. *)
KFairness ==
    /\ WF_kvars(tick)
    /\ \A t \in Task : SF_kvars(mark(t))
    /\ SF_kvars(wait_over(Main))

KFairSpec == KSpec /\ KFairness

-----------------------------------------------------------------------------
(* Properties *)

KTypeOK ==
    /\ mode \in {"run", "lost"}
    /\ cur_task \in Created
    /\ children_count \in [Task -> Nat]
    /\ \A t \in Task : At(t) \in [at : ThreadPlace, on : BOOLEAN, reg : Nat]
    /\ allocated \in 0 .. MaxMessages
    /\ mnext \in [Message -> Message \cup {Null, Wild}]
    /\ message_box \in [Task -> Message \cup {Null, Wild}]

(* The messages in the box of t. *)
BoxOf(t) == [k \in 1 .. message_count[t] |-> ListOf(t)[k]]

Boxes == INSTANCE MailBoxes
    WITH Owner <- Task, Letter <- Message, box <- [t \in Task |-> BoxOf(t)]

(* A linked list, a count and next pointers nobody sets act like one queue per
   task, until a send follows a pointer that was never set. *)
MailSpec == Boxes!Spec

(* What the decrement takes off is what the count is: no thread that loaded the
   count of its parent loses the processor and comes back to store it. *)
RegisterIsFresh == cpu.at = "store" => cpu.reg = children_count[parent[cur_task]]

(* The count of main; while its exec is at work, the value in the register. *)
Counted == IF At(Main).at = "count" THEN At(Main).reg ELSE children_count[Main]

(* The threads and programs that reached the end of exit. *)
Ended == {t \in Created : At(t).at \in {"halt", "spin"}}

(* The count main waits for is one for each child, one more for each child it
   forked, less one for each that reached the end of exit, unless it did so
   while main was between the load and the store of exec: then its decrement is
   lost for ever.  So is that of a child that a tick stops right after it has
   marked itself. *)
ForkedCount ==
    Counted + Cardinality(Ended \ lost) =
        Cardinality(ChildrenOf(Main)) + Cardinality(ForkedChildren(Main))

(* wait never ends while a child of the caller lives, wherever the ticks fall. *)
WaitOutlivesChildren ==
    [][\A t \in Created :
        At(t).at = "wait" /\ At(t)'.at # "wait" => LiveChildren(t) = {}]_kvars

(* What lab7_test_message of kernel/lab.c expects of fork and wait: main goes on
   once its child has come to the end of exit. *)
WaitEnds ==
    (At(Main).at = "wait" /\ ChildrenOf(Main) \subseteq Ended) ~> At(Main).at # "wait"

(* A thread that calls exit ends up dead, unless a forked thread keeps the
   processor for ever with its interrupts off. *)
ThreadsEnd ==
    \A t \in Task :
        (t \in Created /\ At(t).at = "mark")
            ~> (status[t] = Dead \/ mode = "lost" \/ [](~ cpu.on))
=============================================================================
