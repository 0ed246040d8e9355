# A TLA+ development of TAHITI

TAHITI is a small 32-bit teaching kernel in C and NASM: it boots from a floppy
image, reads programs from a FAT12 disk, runs them as tasks under a round-robin
scheduler, and gives them three text terminals, one keyboard and a set of
system calls through `int $128`. This directory holds TLA+ modules
that model it, TLC configurations that check them on small instances, and
theorems about them that TLAPS proves for every instance.

Paths are relative to the repository (`src/` left out). What counts as the
system is what `kernel/Makefile:22-30` links and what `user/Makefile` builds;
`kernel/lab.c` is not linked, and is read as the authors' tests.

## 1. Inventory

| part | source | state | operations |
|---|---|---|---|
| tasks, scheduler | `kernel/multitask/task.c`, `schedule.c` | ring of task blocks (`next`), `status`, `parent`, `children`, `brothers`, `children_count`, saved `estatus`, `cur_task`, `pid_counter` | `init_multitask`, `create_empty_task`, `create_task_from_mem`, `task_switch`, fork, wait, exit, getpid by system call; kernel-mode fork, share_fork, exit, wait, messages |
| timer, dispatch | `kernel/interrupt/*`, `kernel/debug.c` | tick counters, routine tables | tick = spinner + `task_switch`; `int $127` = voluntary switch |
| keyboard | `kernel/interrupt/keyboard.c`, `user/library/stdio.c` | ring of 128 scancodes with head, tail, length; Ctrl and Alt | interrupt handler, `get_key` system call, `getch` loop |
| screen | `kernel/screen.c` | video memory: the shown page and a copy per terminal; one cursor, saved cursors, hide mode | `scr_putch`, `putch`, scrolling, temporary moves for status lines, `switch_video_page` |
| FAT | `kernel/fs/hd.c` | the first FAT in memory and on the disk | follow, set, release, allocate chains; flush |
| file tree | `kernel/fs/fs.c` | tree of entries in memory, current directory, directories on the disk | scan at start, `cd`, `cat`, `exec`, `rm`, `cp`, listings |
| open files | `kernel/fs/fio.c` | ten shared buffers with position | open, close, put, get, seek |
| command interpreter, shell | `kernel/exec_cmd.c`, `user/programs/shell.c` | line buffer | edit a line, match a command, run it inside one system call |
| heap, descriptor tables | `kernel/mm/heap.c`, `kernel/gdt.c` | a growing pointer, `gdt_count` | allocate; nothing is given back |
| semaphores | `kernel/semaphore.c` | none: every body is commented out | - |

How they interact. System calls enter through a gate that clears the interrupt
flag and run to their end, so a system call is atomic with respect to ticks,
keys and other tasks; the program between two of its system calls is not. The
timer handler runs `task_switch` inside whatever program it interrupts. The
keyboard handler calls `switch_video_page` (screen) and empties the ring. The
screen and the keyboard both compare `video_page` of the calling task with
`cur_video_page`. `exec` ties the file tree to the tasks. `main` is the one
piece of kernel code that does all this with interrupts enabled.

What is hard about it: ticks between any two system calls of any program (the
library's `exit` is two system calls and a loop); the child accounting over
whole families of tasks in every order of death; one cursor and one buffer
shared by several terminals; ring indices at the wrap; pages switched while
programs poll; FAT chains, a directory and a memory image of both that reach
the disk at different moments; buffers of files that other programs remove.
`main` adds the other kind of difficulty: it starts shells while ticks, page
keys and the shells already running interrupt it at every step. The kernel-mode
fork, wait and exit run with interrupts on as well, except between their `cli`
and `sti`.
`PROJECT.json` lists each of these hazards at its line with the properties that
watch it; those that no property covers, or only in part, have a note that says why.

What makes each part correct:

* tasks: the ring stays one cycle; counters of children mean something in every
  order of forks and exits; nobody dies before its children; what is dead stays
  off the processor; what is READY gets it; contexts survive switches.
* keyboard: a bounded FIFO that drops the newest; no key crosses a page switch;
  a key goes to one program of the visible page and does not linger.
* screen: terminals that do not know of each other; cursors inside the text.
* FAT and files: chains end, are disjoint, and belong to exactly one name; what
  a restart reads back is a disk that satisfies this too; a file keeps what was
  written to it.
* shell and interpreter: the row shows what is in the line, but for the keys that
  are never echoed; the loop over the commands ends; `cd` acts on the words its user
  sees; `tree` visits every entry once.
* kernel threads: what the count `wait` looks at means, and which decrements are
  lost; messages arrive in order, each once.
* boot: requests find gates; no task runs before it has a context; texts and
  cursors of the terminals survive what interrupts main.

## 2. Modules

| module | models | instance checked |
|---|---|---|
| `Tasks` | tasks, scheduler, fork/exec/wait/exit of programs, ticks | `MCTasks.cfg`, `MCTasksWait.cfg` |
| `TasksProofs` | theorems about `Tasks` | proofs |
| `MailBoxes` | what messages promise: a queue per task | through `MailSpec` |
| `KernelThreads` | fork, exec, wait, exit and messages of kernel code; extends `Tasks` | `MCKernelThreads.cfg`, `MCKernelWait.cfg` |
| `KernelThreadsProofs` | theorems about `KernelThreads` | proofs |
| `Boot` | `main` step by step, with interrupts between its steps; extends `Tasks` | `MCBoot.cfg` |
| `BootProofs` | theorems about `Boot` | proofs |
| `BoundedFifo` | what the keyboard ring promises | through `FifoSpec` |
| `KbBuffer` | the ring: `push`, `pop`, `reset` with head, tail, length | through `Keyboard` |
| `Keyboard` | interrupt handler, page switch, `get_key`, polling programs; extends `KbBuffer` | `MCKeyboard` |
| `KeyboardProofs` | theorems about `KbBuffer` and `Keyboard` | proofs |
| `Terminals` | what the screen promises: independent terminals | through `TerminalsSpec` |
| `Screen` | `scr_putch`, `putch_for_syscall`, status lines, `switch_video_page` over one video memory | `MCScreen.cfg` |
| `ScreenProofs` | theorems about `Screen` | proofs |
| `Fat12` | the packed table of `hd.c`: read, set, follow, release, allocate | through `Files` |
| `Fat12Proofs` | theorems about entries and chains in `Fat12` | proofs |
| `Files` | the tree in memory, directory, data and table on the disk, `rm`, `cp`, readers, the buffers of `fio.c`, restarts; extends `Fat12` | `MCFiles` with three `.cfg` |
| `FilesProofs` | theorems about `Files`; extends `Fat12Proofs` | proofs |
| `Numbers` | printing and reading of numbers, the columns of `ls` | through `Shell` |
| `Directory` | the tree of subdirectories: `scan_dir`, `cd`, `tree`, `print_path` | through `Shell` |
| `Shell` | the line editor of the shell and the interpreter behind it; extends `Directory`, `Numbers` | `MCShell` with two `.cfg` |
| `ShellProofs` | theorems about `Shell` | proofs |

Definitions called `Faulty...` are not part of the models. Each is a slip in the
definition that follows it; putting it in that definition's place must make a
property fail, which shows that the property notices such a slip.

### Tasks

A task block is its pid (blocks are never freed, pids never reused), so
pointers are pids, `Null` is the null pointer and `Wild` the one pointer that
`create_empty_task` reads through the null `cur_task` when it makes block 0.
The registers of a task are abstracted to the *place* the program is at: main's
loop, the program's own code, right after `wait`, between the two system calls
of the library's `exit`, or in the loop that ends it. `cpu` is the place the
processor is at, `estatus` the saved ones, so a switch is exactly the two
assignments of `task_switch`. `get_next_task` is a loop; `IsNextTask(t)` says
where it stops by naming the set of blocks it passed, which needs no recursion
and which `NextTaskUnique` proves to be determined. `exec` is the creation of a
task from a file with everything but the task left out; the only callers are
`main` and `exec_cmd_for_syscall`.

`main`'s own `exec` runs with interrupts enabled and a tick may in reality fall
inside it. Here it is one step; in `Boot` it is four, and in `KernelThreads` its
count of children is loaded in one step and stored in another. The two stores that
put a block on the ring (`task.c:44-45`) are one step everywhere, so what a
fork by another program between them does to the ring is not covered by
`RingIsOneCycle`. Everything else in the module is atomic in the code as well.

### KernelThreads, MailBoxes

The first half of `task.c` is a second set of fork, wait and exit, which kernel
code calls directly; `kernel/lab.c` uses it. A context is more than a place
here: the interrupt flag, because `fork` reads `eflags` after its `cli`
(`task.c:168`) and its child therefore starts with interrupts off, and a
register, because the kernel is compiled without optimisation
(`kernel/Makefile:3`): `--cur_task->parent->children_count` in `exit` and
`children_count++` in main's `exec` (`task.c:33`) are a load and a store each.
`mark`, `load` and `store` are the instructions of `exit`, `kernel_exec` and
`kernel_exec_count` the load and the store of `exec`, with a tick
possible before each. Two kinds of decrement never come about. A tick right after
`mark` takes the processor from a dead thread for ever; that is why `ForkedCount`
counts threads at `halt`, not dead threads. And a decrement, by a thread or by the
exit system call of a program, between the two halves of main's `exec` is written
over: the history `lost` records whose, and `ForkedCount` says that these are the
only ones. While main is between its load and its store, the count is what its
register holds.

A message is the heap block it lies in. Blocks are never reused (`kfree` is
empty), and the member `next` of a new message is whatever the heap holds: null
or, in the model, the pointer `Wild`. `mode` becomes "lost" when a send follows
such a pointer. Only `main` forks: a child runs on a copied data segment with
its own copy of `cur_task`.

### Boot

`cpu` of main is the next step of `init/main.c`; `Setup`, `Showing` and
`Executing` give their order, and `After` the way from one to the next. Setting
up is a set of gates, of routines and a flag for the remapping; `VectorOf` says
which vector a request comes to before and after it. `switch_video_page` and
`exec`, atomic in every other module because system calls and handlers run them
with interrupts off, are sequences of steps here. Between any two of them a
slice may end, a page key be struck, or a running shell print.

Variables are loaded and stored in steps of their own where an interrupt in between
matters: main's line "system starts" (`main.c:43`, interrupts on) puts a character on
the screen (`start`), loads and stores `scr_y` (`next`, `advance`), and loads and
assigns the arguments of `scr_update_cursor` (`arguments`, `assign`);
`switch_video_page` finds the page, copies, finds it again and stores the cursor;
the temporary move to the status row loads the cursor (`aside`) before it keeps it,
and loads the kept one (`back`) before it puts it back. `reg` and `dest` are what main
has loaded.

What an interrupt inside such a sequence breaks is kept in `struck`: "early" for
one between `sti` and the return of `init_multitask`, where the dispatcher
follows a null `cur_task`; "exec" for a slice that ends after the new block is
on the ring and before it has a context, after which the processor loads a null
stack segment and faults for ever; "start" for a page key inside the
line main prints, after which the page the key shows has the cursor of the one
before; "show", "status" and "page" for the copies of
a page, the moves of the cursor around the terminal's name, and the time between
main's choice of a page and the creation of the task that inherits it. The
properties say that everything holds as long as the window in question has not
been struck, so they fail if there is another one.

Of the video memory only this is kept: whose text each page holds, and how many
characters each cursor is away from the start (`Status` for the status row). One
character stands for a line. `cls` runs before `video_mem` is set and blanks
addresses 0 to 3999 instead of the screen, which nothing here depends on. The
second run of main that `gdt_flush` starts repeats only `preset`.

### KbBuffer, Keyboard

The C variables keep their names. `kb_buffer_tail` starts at -1, as in
`reset_kb_buffer`. `Keyboard` adds the modifier keys, the function keys that
select a page (any scancodes of the instance), and programs that poll. The
variables `typed`, `stamp` and `switched` are history: when each key was typed
and when the page last changed. They are never read by an action's guard other
than the bound `MaxTyped`.

### Screen

`video` is the video memory as one array, page 0 being what the monitor shows.
Addresses are computed as in the code, so a cursor that leaves its page writes
into the next one or into the status lines in the model as well. `BS` is the
backspace character. The one precondition is `Erasable`: programs erase only
what they typed (`user/programs/shell.c:30`); without it `\b` at column 0
moves the cursor before the first cell of the page, in the code and in the model.
The spinner and the "Current PID" line are both `timer_handler`.

### Directory, Numbers, Shell

An image is the shape of a directory tree: which entries are directories and
what lies in which. `Directory` turns it into the lists of `scan_dir`, newest
first, with the links `.` and `..`, and defines `cd`, `tree` and `print_path` on
them. `tree` prints the current entry once before its loop (`fs.c:140`) and, from a
subdirectory, runs on through the rest of the disk; both are in its list of lines.
`cd` into a plain file is possible in the code (`fs.c:280`) and in the
model; nothing is found from there. The current directory is one variable of the
kernel for all shells, hence `other_cd`.

`Below` says what lies below an entry without any loop: the lists from the top, each
directory followed by what lies in it, with the depth taken from the path.
`TreeIsPreorder` compares the lines of `tree` with it, line by line: the repeated
first one, then the preorder of the whole disk from the current entry to its end.

A cell of the command line is a blank, a comma, an Esc or a whole word, since the
interpreter never looks inside a word except to compare it. The shell stores an Esc
like any key (`shell.c:51`), but `putch` shows nothing for it (`screen.c:205`), and a
backspace over it erases a character of the row all the same: `LineIsShown` says that
the row has the cells of the line but the Escs, in their order, and
claims nothing of the row once an Esc has been erased (`garbled`). No text of the
repository speaks of Esc, so this is recorded here and as a hazard, not as a finding.

The path of the prompt is printed by `kprintf`, on the page that is shown
(`fs.c:93`): a hidden shell's prompt comes without one (`NoPath`), and its path, like
the output of the commands of other shells, falls into the row of the shell that is
shown (`other_output`), which is `garbled` until its next prompt.

The buffer keeps what earlier lines left in it, and behind it lies `Unknown`.
`get_next_argv` tests the pointer where it means the character
(`exec_cmd.c:14`), so it runs over the end of the line, into an earlier one or
behind the buffer; `Finds` returns then whatever could be found. A comma keeps
the loop of `exec_cmd_for_syscall` where it is for ever, with interrupts off:
`mode` is "stuck". So may `cat`, `exec`, `rm` and `cp` when they find a file, by
following its chain (see `Files`); `Command` says which of them are typed.
`rm` and `cp` may also change the disk; `mode` "changed" ends
what is followed here, for the image is fixed.

`Numbers` has the two loops of `_scr_putnum` (and their twins in the library),
`atob` with its signed weight, and the columns of `ls`, in words of `WordSize`
values. The listings do not depend on the line, and are checked in the initial
states of `Shell`: every image with length 0, every length on one image.

### Fat12, Files

A table is a function from byte offsets to bytes, packed and unpacked exactly as
`get_next_cluster` and `set_fat` do it, so the shift by two bits of odd entries
(`hd.c:90`) and what it does to the neighbours is in the model. Only the first
`Entries` entries are there; the others of the 3072 are free and stay so while
`apply_fat` finds enough clusters among the first. The loops of `hd.c` are
recursive functions over a number of rounds that no chain with an end exceeds;
a chain that has not ended by then does not end. `FAT[0]` is 0, because
`Makefile:30-35` makes the image from zeroes, which is why a chain that runs into
a free entry goes round for ever.

`Files` models one directory, the root, with blank extensions. `children`
is the list in memory, newest entry first, `directory` the slots on the disk.
Each command and each file call is one action: they are system calls with
interrupts off. `read` is what `cat` and `exec` do to this state, namely
nothing unless they never return. A cluster holds one byte, which makes a file
as long as its chain. Clusters 0 and 1, which a broken chain may reach, are the
last two sectors of the root directory: they matter only when more than 192
entries are in use, and are left out. `mode` is "lost" once a call follows a
chain without an end; nothing is modelled after that, since what the
loop writes is whatever the heap holds. `restart` is the machine switched off
and on between two calls or in `panic`, `RestartInCopy` the same between the
disk writes of `cp`; the other calls write one thing to the disk. `flush_fat` writes
nine sectors (`hd.c:12`) and is one step: the modelled entries lie in the first
sector, so a switch-off between two of its sectors is not among the cases. Below the
root there is one more endless chain that is not modelled: the entry `..` of a directory
in the root has cluster 0.

The variables `freed`, `disk_freed`, `reused`, `odd`, `full` and `resets` are history.
`reused` and `odd` name the two known weaknesses, so that the properties can
say that there is no third one: a copy keeps the first cluster of the old file
(`fs.c:402`), so after `rm` of one name the other leads into a freed chain; and a
copy that gets an odd cluster gets a broken chain (`hd.c:90`).

## 3. Runs

| run | expects | bounds | what it shows |
|---|---|---|---|
| `tasks` | pass | 4 task blocks, 2 shells | six safety and action properties and the types, over every interleaving of ticks with fork, exec, wait, exit; round robin starves nobody; a READY childless program in exit dies |
| `tasks_wait` | violation | 3 blocks, 1 shell | a program that waited never goes on |
| `keyboard` | pass | ring of 3, 4 keys typed, 3 programs on 2 pages | the ring is a FIFO, keys do not cross a page switch, are taken on the visible page only, and do not linger |
| `kernel_threads` | pass | 3 blocks, 2 messages | what the count means and which decrements are lost wherever ticks fall, `wait` outlasts the children, messages are queues, `exit` ends |
| `kernel_wait` | violation | 2 blocks, 1 message | main's `wait` does not end after its forked child has |
| `boot` | pass | 3 blocks, 2 shells, 2 characters a page, 1 window struck | main from its first line to its loop: what each window can break, and that all else holds |
| `screen` | pass | 2 terminals of 2 rows by 2 columns and a status row, tabs of 2 | the driver implements independent terminals, the hardware cursor is where the text goes |
| `files` | pass | 8 table entries, files of 2 and 1 clusters, 2 slots, 2 buffers, positions to 1, 1 restart | calls end, chains stay whole in memory and on the disk, memory mirrors the directory, data change only when the file's own buffer is closed |
| `files_names` | violation | 8 table entries, 3 slots, 1 buffer, 1 restart | a copy can get a name that exists |
| `files_fat` | violation | 8 table entries, 3 slots, 1 buffer, 1 restart | the chain of a copy leaves its clusters |
| `shell` | pass | lines of 3 cells, `cat`, `cp` and `rm` typed, images of up to 5 entries, words of 4096 values | the row shows the line but its Escs, only commas and commands that follow a chain stick, `cd` does what the line shows, `tree` prints the preorder from the current entry to the end of the disk, numbers are read as printed |
| `shell_tree` | violation | lines of 2 cells, images of up to 5 entries | `tree` leaves the current directory |

Why the bounds are enough. Four task blocks give `main`, two shells and a
program, or a shell, its child and its grandchild: three generations below main,
siblings of two kinds (forked and executed), a family whose parent exits first or
last, and a ring with dead blocks between live ones. A ring of three slots and four keys wraps both indices and
overflows. Two by two cells make every character wrap or scroll, and a
page of three rows keeps the status row below the text, so a text that runs
over its page is visible as damage. The image of `Files` has a file of two
clusters at 2 and 3 and one of one cluster at 5, so free clusters are even and odd,
lie between and behind files, and become adjacent after an `rm`; the names A, B and AB
give a name that is the head of another; two slots are full at first, and a copy has
room after an `rm`. With two buffers a file is open twice or two files at once, and a
restart falls between any two calls or inside `cp` while both are open (938,036 states;
with a third slot 1,367,940 states were run as well, too long to repeat every time).

In `kernel_threads` main and two children give two threads in the window of the
decrement at once, a thread and a program among the children of one `wait`, and
a task that is sent to before, between and after the messages it takes; two
messages make a box that is empty, full and empty again with a `next` nobody
set (78,832 states). In `boot` two shells give a page that is current, one that is next and the
one main started with, and the second `exec` runs while a shell is printing; one struck
window is followed to its end (259,417 states). In `shell` (200,029 states) a
line of three cells just holds a command, a blank and its argument, or an Esc in the
place of one of them, so that erasing, filling, the end mark behind the last cell and
the remains of an earlier line all meet; five entries give nested directories, empty ones, and a
directory that is the last entry of the last one. `WordSize` is chosen so that
the greatest power of ten is smaller than half of it, as 10^9 is for 2^31; with
4096 every value is printed and read.

The theorems below need none of these bounds.

### Fairness

`FairSpec` of `Tasks`: the timer keeps ticking (weak fairness on `timer_handler`:
the PIT interrupts for ever and interrupts are enabled in every place a program
can be at), and a program that gets the processor again and again makes its next
move (strong fairness on `resume` and `exit_for_syscall`: a slice is twenty ticks
at 20 Hz, one second, and the code in question is a handful of instructions).
Nothing is assumed about programs forking, waiting or calling exit. `Spec` of
`Keyboard`: each program keeps polling, which is the loop of `getch` under round
robin. `KFairSpec` of `KernelThreads`: the clock ticks while interrupts are
enabled, a thread in `exit` that gets the processor again and again executes
the one assignment that marks it, and main in `wait` looks at its count again, which it
does after every interrupt; nothing is assumed of a thread whose interrupts
are off, which is why `ThreadsEnd` allows it to keep the processor. `BFairSpec` of
`Boot`: slices end, and main, given slice after slice, takes its next step.

### Findings

`wait_for_syscall` (`kernel/multitask/task.c:404`) sets the caller BLOCKED, and
nothing in the kernel sets a block READY except its creation. The tests in
`kernel/lab.c:64-77` and `kernel/lab.c:133-137` fork, wait and go on to take
the message of the child. The run `tasks_wait` gives the execution: the parent
waits, a tick takes the processor away, the child exits, and the parent is
passed over for ever. Together with `ForkerTheorem` (a task that forked keeps a
count above zero) it also means that a task that forked never leaves `exit`.

`copy_file` writes the new name over the old one letter by letter
(`kernel/fs/fs.c:406`) and keeps what is behind it, while `cp` has asked whether
the typed name exists (`fs.c:456`): `files_names` copies AB to A and has AB twice.

The kernel's own `fork` counts its child twice (`kernel/multitask/task.c:33` in
`create_empty_task` and `task.c:182`) and `exit` takes one off, so `wait` after a `fork`
never ends. The test `lab7_test_message` (`kernel/lab.c:79-94`) forks, waits and goes on
to the child's message. `kernel_wait` gives the execution with one child; under
`ForkedCount` every `fork` leaves the count one too high.

`tree` recognises its end by coming back to the directory it started from or by the
end of the root's list (`kernel/fs/fs.c:153-155`), so from a subdirectory it prints the
rest of the disk as well. The help text says "traverse current directory"
(`kernel/exec_cmd.c:65`). `shell_tree` has a directory with an entry behind it.

`set_fat` and `get_next_cluster` disagree about odd entries
(`kernel/fs/hd.c:90` against 33). `files_fat` removes a file, copies another one
into the cluster 3 that is free now, and the chain of the copy goes 3, 1023, 0, 0
and so on: the system call never returns. `OddEntryLosesBits` says it for every table.

## 4. Proofs

Everything proved is proved with no assumption but the named `ASSUME` of the
constants, which TLC evaluates in the runs: `TasksAssumption` (at least one task
block), `MessagesAssumption`, that of `KbBuffer` (a ring of at least one slot, `NoKey` not
a scancode), `Fat12Assumption` (an even number of entries, more than three, in a
table of 3072), and `FilesAssumption`: the files of the image fit the directory,
lie in data clusters of their own and have different names, and the blank that
pads names is no letter of a name; `DirectoryAssumption` and `ShellAssumption`
(an image has an entry, a line has a place, and the commands that follow a chain are
among `cat`, `exec`, `rm` and `cp`); `NamesAssumption` (the entries of a
directory of the image at which lines are typed have different names, none that of a
link or an Esc: a disk on which `cp` has made a second AB, see Findings, is left out, since
`cd` cannot tell the two apart either); `NumbersAssumption` (a word has an
even number of values) and `WidthAssumption`: the weight of the leading digit of the
largest word is positive as an int, and the longest length fits its column of
`ls`, as 10^9 and ten digits do in words of 32 bits.

`TasksProofs`. The inductive invariant `IInv` consists of `TypeOK`,
`RingIsOneCycle`, `ChildrenCountLedger`, `NoLiveOrphans`,
`SiblingsShareParent`, and four facts they need: main is always in its loop
(so block 0 never exits and its null parent is never decremented), a dead task
is in the final loop (so it makes no further system call and cannot be
decremented twice), the head of a list of children is a child (so the sibling
link of a new child stays in the family) and an unborn block has no children.
The ledger is what makes the rest work: a count of zero means no live child,
hence a dying task leaves no orphan, hence its parent is alive and counts it,
hence the decrement stays in the naturals. `InitIInv` and `NextIInv` show
that `IInv` is inductive, with a lemma per kind of step: `SwitchIInv`,
`CreateIInv` (with `CreateRing` for the ring), `MoveIInv`, `ExitIInv`.
`RingTheorem`, `LedgerTheorem`, `OrphanTheorem`, `SiblingTheorem` follow;
`DeadTheorem` and `ContextTheorem` are the action properties; `ForkerTheorem`
says what double counting costs; `NextTaskUnique` that the scheduler's choice
is a function of the state.

`KeyboardProofs` begins with the ring alone. `KbTypeCorrect` keeps head, tail and
length in range; `KbRefinesFifo` shows `KbSpec => FifoSpec`: the ring implements
`BoundedFifo` under the mapping that reads the slots from tail to head. The
strengthening is `HeadFollows` (the head is tail plus length, modulo the size)
and `HeldAreCodes`. It then extends these facts to the whole of `Keyboard`. `KInv` is the
invariant of the ring with `TypeOK` and `NothingLeftOver`, which says of every
slot in use when its key was typed. From it follow `TakenTheorem` (a key leaves by
a page switch or as the oldest, to a program of the visible page) and
`KeyboardRefinesFifo` (the composition still implements `BoundedFifo`, the
interrupt handler and the system call included).

`Fat12Proofs` is about every table of bytes, every cluster and every 12-bit value.
Entries: writing one gives a table of bytes (`SetFatTable`), an even entry reads
back (`EvenEntryReadsBack`), an odd one reads back divided by four
(`OddEntryLosesBits`), entries of other byte triples do not change
(`OtherEntriesStay`) and the odd neighbour of an even entry does not either
(`OddNeighbourStays`). The even neighbour of an odd one does, because the low bits of
the value are or-ed into it, unless the value is 0 or the neighbour is an end of
chain (`EvenNeighbourStays`): release writes zeroes, and an entry that is
followed by a free one is an end of chain if its file lies in a row. That is all that
stands between this code and damaged files. Chains: `ApplyKeeps` and
`ApplyKeepsWhole` say so for an allocation of any length, odd clusters included;
`ReleaseWhole` and `ReleaseKeepsWhole` for a removal; `ApplyChain` that the chain
of a copy is what `apply_fat` took if that is even. The loops of
the model are functions defined by recursion over their rounds. `Loop` proves once
that such a function exists, `Rounds` is induction over the rounds with a set in
place of a predicate, and `Complete` characterises a trail by its entries,
so that the proofs speak of entries and not of recursion.

`FilesProofs` proves every property of `Files` for every image that fits the disk,
any number of clusters, slots, buffers and restarts. `FInv` is inductive: types
(`FTypes`: each entry in the tree, the directory and the buffers has the first
cluster and length of a file on the image, `Kin`), `FChains` and `CallsEnd`. `FChains`
says that, while no freed chain has been used, each file that was not freed is
whole in memory and on the disk (`AllWhole`, entry by entry), and an open buffer has
a byte for each cluster of its file (`BuffersFit`). Types alone are not
inductive with `Entry` in the place of `Kin`: an entry with any cluster and length
could lead a call anywhere. One lemma per action keeps `FInv`. `CallsEnd` then
follows because a call whose chain has no end used a freed one (`UsedWhole`), or
got an odd cluster (`ApplyChain`). `DataTheorem` follows because a copy writes
only to clusters that were free (`CopyMissesImage`) and `fclose` only to those of
its file (`CloseWrites`). `MirrorTheorem` counts: each action changes how often a
name is listed and how often it is stored by the same number (`CountFront`,
`CountTakeOut`, `CountPut`), and `scan_dir` lists what is stored (`ScanCounts`). The
proof that the image's table satisfies all of it (`ImageNext`) unpacks
the bytes `ImageTable` packs.

`ScreenProofs`. `SInv` says that the cursor of every terminal, wherever it is kept,
is inside the text of its page. From it follow that pages do not overlap
(`PagesApart`), that a character changes only the page it is printed on
(`PutViews`), that a change of page shows what the new terminal had
(`SwitchStep`), and with these, step by step, `ScreenRefinesTerminals`.

`KernelThreadsProofs`. `TInv` adds to `RegisterIsFresh` and `ForkedCount` that a
task is dead exactly from `mark` on (`DeadAreEnding`), that all children are
main's (`MainIsParent`), and what holds while main is inside `exec`. The decrement of
a thread loses none of another because a thread at
`store` is dead: once it loses the processor the scheduler never comes back to
it, so a loaded count can only be stored while it is fresh. The increment in main's
`exec` has no such excuse: it writes over the decrements made since its load, which are
those in `lost`. `WaitTheorem`
follows by counting: a count of zero means that as many decrements are done as there
are children, the forked ones counted twice; hence there are no forked children
and all others are dead; a lost decrement only makes the count too high. `MailTheorem` shows that the linked lists of messages
implement `MailBoxes`. `MailInv` says that some assignment of sequences to tasks
agrees with box, count and `next` of every list (`IsMail`), that lists share no
message, and that behind the last one stands null or a word of the heap; `ListIs`
that this assignment is what `BoxOf` reads. Sending appends to one sequence and
receiving takes the head of one; every other step leaves the lists alone.

`BootProofs` proves every invariant of `Boot` for any number of shells and of struck
windows. `BInv` says which blocks exist at each step of main (`Control`), so that a
switch can only fault on the block of `create_empty_task` before
`write_context`; that nobody but main runs inside `switch_video_page` unless
the window was struck (`Alone`); and where cursors and texts are at each of its
steps (`Cursors`, `Texts`), what main has loaded included: outside the windows, "start"
among them, the register still holds what the variable does. One lemma per kind of step keeps it.

`ShellProofs`. The invariant `LInv` is `LineIsShown` and `CommandEnds` with the
types of the cells (`TypedCells`). That the row is the line without its Escs is said
by a function from the places of the row to those of the line (`Placed`); it is
extended by a key (`PlacedMore`), left alone by an Esc (`PlacedEsc`), and shortened by a
backspace (`PlacedLess`). `SkipStops` says where a scan over the buffer ends; it rests on
the library's theorem that the naturals are well-founded. The end mark
at `cmd_len` stops every scan of the line, so what stops the loop before it
is a comma, and what makes a command stay is that it stands at the beginning of the
line; both stand in the row.

`NumbersAgree` and `TreeIsPreorder` are about recursive functions, and the
library's theorems on induction and recursion cannot be used (they take an operator as
a parameter). `Upwards` and `Strongly` are induction up to a bound with a set in the
place of the predicate, and `Course` says that a recursive definition that looks only at
arguments of a smaller measure has a solution, with the definition as a function;
from it each loop is shown to exist before anything is said of it.

`NumbersTheorem` takes some sequence of powers of ten (`IsTens`). `WeightIs` and
`DigitsAre` find what the two loops of `_scr_putnum` print: the digit at each weight,
with what is left over after each (`Prints`). `AtobReads` adds the same digits up
again: the sum so far and what is left over always make the number, and neither the
weights nor the sum leave the word. `PrintedLength` compares the digits with those
`ls` counts, and `DateColumn` follows `__printfile`.

`TreeTheorem` holds on every image. `ScanLists`: a list holds what lies in its
directory once, later entries first and, but for the root, a link last. So `brother`
is the next of the list, and only in the root may it be missing: this is why
`tree` may go up by one level and no more. The theorem says what it prints from every
entry: the entry itself, then the preorder of the disk from there to its end. A `Chain` is a sequence of nodes each of which is
where `TreeStep` goes from the one before. By induction from the last entry down,
what lies below an entry is a chain from it to its brother (`BelowChain`), whose nodes all
come after the brother; so no node occurs twice (`ChainOnce`), the chain is no
longer than there are nodes and does not come back to the directory it started from.
`TreeStepIs` gives the depth, and `TreePrints` carries the chain through the loop
of `tree`. `OnEntry` is the invariant behind it: whatever `cd` finds, also behind the
buffer, the current directory is an entry of the disk and never a link.

`CdTheorem` joins the line, the interpreter and the tree. `CdReads` says where the scans
of the kernel stop in a line with two words: at the words the user sees, since only
what was typed lies before the end mark (`TypedCells`); a second word is what keeps
`get_next_argv` from running over it. `FindFileFinds`: `find_file` returns a child of
that name if there is one. `PathsApart`: entries with the same path are the same,
by induction along the entries, so the path that is shown says which directory is
current. `CdGoes` puts them together for down, up and nowhere.

Only model-checked: liveness (`ReadyRuns`, `ExitCompletes`, `NoKeyLingers`,
`ThreadsEnd`, `ShellsRun`), which is out of the prover's reach; and what the
violation runs refute.

## 5. Plan

In this order; all of it is done as far as section 6 says.

1. `Tasks`, `TasksProofs`.
2. `BoundedFifo`, `KbBuffer`, `Keyboard`, `KeyboardProofs`.
3. `Terminals`, `Screen`, `ScreenProofs`.
4. `Fat12`, `Fat12Proofs`.
5. `Files` for the root directory, `FilesProofs`.
6. `MailBoxes`, `KernelThreads`, `KernelThreadsProofs`.
7. `Boot`, `BootProofs`.
8. `Directory`, `Numbers`, `Shell`, `ShellProofs`.

What could follow: `rm` and `cp` below the root, where the slots of a directory
lie in a chain of their own; a table without enough free clusters, once it is
known what lies behind it in the heap. A module for the heap and the descriptor
table against their limits was planned and dropped: nothing in the code compares
them with anything, so it would only say that no comparison is there.

## 6. Not modelled

Port access, sector transfers, register-level interrupt stubs, descriptor bits,
hexadecimal output, the register dump and string copying carry no state the properties
speak of. The boot loader and set-up run once, before any state of the kernel
exists; one hazard of theirs is listed. The semaphore system calls have empty
bodies. `kernel/mm/paging.c`, `tss.c`, `ldt.c`, `floppy.c`, `hd2.c` and `time.c` are
not linked. `share_fork` is left out: parent and child share one stack, and
its test in `kernel/lab.c:97` is marked abandoned; nothing calls
`set_cur_priority`. A tab in the command line, stored as one character and
echoed as several columns, `rm` and `cp` below the root, a disk without enough
free clusters and disk errors are not modelled; `PROJECT.json` says so per
component.
