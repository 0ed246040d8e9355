---------------------------- MODULE TasksProofs ----------------------------
(***************************************************************************)
(* Proofs, for every number of tasks and shells, of the safety properties  *)
(* of module Tasks.                                                        *)
(*                                                                         *)
(* The properties are inductive together with four facts about the code    *)
(* that none of them states: main never leaves its loop, only a program in *)
(* the endless loop of exit can be dead, the head of a list of children is *)
(* a child, and a block that was never created has no children.            *)
(***************************************************************************)
EXTENDS Tasks, TLAPS, FiniteSetTheorems

MainLoops == \A t \in Created : t = Main <=> At(t) = "main"
DeadSpins == \A t \in Created : status[t] = Dead => At(t) = "spin"
HeadIsChild ==
    \A p \in Created : children[p] # Null => children[p] # Main /\ parent[children[p]] = p
UnbornHasNoChildren ==
    \A t \in Task \ Created : children_count[t] = 0 /\ children[t] = Null

IInv ==
    /\ TypeOK
    /\ MainLoops
    /\ DeadSpins
    /\ HeadIsChild
    /\ UnbornHasNoChildren
    /\ RingIsOneCycle
    /\ ChildrenCountLedger
    /\ NoLiveOrphans
    /\ SiblingsShareParent

-----------------------------------------------------------------------------
(* The initial state satisfies the invariant. *)
LEMMA InitIInv == Init => IInv
<1> SUFFICES ASSUME Init PROVE IInv
  OBVIOUS
<1> USE TasksAssumption
<1>1. Created = {Main} /\ Main \in Task /\ Null \notin Task /\ Wild \notin Task
  BY DEF Init, init_multitask, Created, Main, Task, Null, Wild
<1>2. TypeOK
  BY <1>1 DEF Init, init_multitask, TypeOK, Place, Ready, Blocked, Dead, Task, Main
<1>3. MainLoops /\ DeadSpins
  BY <1>1 DEF Init, init_multitask, MainLoops, DeadSpins, At, Ready, Dead
<1>4. HeadIsChild /\ UnbornHasNoChildren /\ NoLiveOrphans /\ SiblingsShareParent
  BY <1>1 DEF Init, init_multitask, HeadIsChild, UnbornHasNoChildren, NoLiveOrphans, SiblingsShareParent
<1>5. RingIsOneCycle
  BY <1>1 DEF Init, init_multitask, RingIsOneCycle
<1>6. ChildrenCountLedger
  <2>1. ChildrenOf(Main) = {}
    BY <1>1 DEF Init, init_multitask, ChildrenOf, Main, Null
  <2>2. LiveChildren(Main) = {} /\ ForkedChildren(Main) = {}
    BY <2>1 DEF LiveChildren, ForkedChildren
  <2>3. Cardinality({}) = 0
    BY FS_EmptySet
  <2> QED
    BY <1>1, <2>2, <2>3 DEF Init, init_multitask, ChildrenCountLedger
<1> QED
  BY <1>2, <1>3, <1>4, <1>5, <1>6 DEF IInv

-----------------------------------------------------------------------------
(* Created and all sets of children are finite. *)
LEMMA ChildrenFinite ==
    ASSUME TypeOK, NEW p
    PROVE  /\ IsFiniteSet(LiveChildren(p)) /\ Cardinality(LiveChildren(p)) \in Nat
           /\ IsFiniteSet(ForkedChildren(p)) /\ Cardinality(ForkedChildren(p)) \in Nat
<1>1. IsFiniteSet(Created)
  BY FS_Interval, TasksAssumption DEF TypeOK, Created
<1>2. LiveChildren(p) \in SUBSET Created /\ ForkedChildren(p) \in SUBSET Created
  BY DEF LiveChildren, ForkedChildren, ChildrenOf
<1> QED
  BY <1>1, <1>2, FS_Subset, FS_CardinalityType

(* The program that runs is not dead, unless it is in the endless loop. *)
LEMMA RunnerLives ==
    ASSUME IInv, cpu # "spin" PROVE status[cur_task] # Dead
BY DEF IInv, DeadSpins, TypeOK, At

(* A step that switches tasks, or one that leaves blocks alone, keeps the ring
   and the families. *)
LEMMA SameFamily ==
    ASSUME IInv, UNCHANGED <<pid_counter, next, family>>,
           status' = status
    PROVE  /\ Created' = Created
           /\ HeadIsChild' /\ UnbornHasNoChildren' /\ RingIsOneCycle'
           /\ ChildrenCountLedger' /\ NoLiveOrphans' /\ SiblingsShareParent'
BY DEF IInv, family, Created, HeadIsChild, UnbornHasNoChildren, RingIsOneCycle,
       ChildrenCountLedger, NoLiveOrphans, SiblingsShareParent, LiveChildren,
       ForkedChildren, ChildrenOf

(* A switch keeps the invariant. *)
LEMMA SwitchIInv == IInv /\ task_switch => IInv'
<1> SUFFICES ASSUME IInv, task_switch PROVE IInv'
  OBVIOUS
<1> USE TasksAssumption
<1>1. PICK t \in Created : 
        /\ IsNextTask(t)
        /\ estatus' = [estatus EXCEPT ![cur_task] = cpu]
        /\ cpu' = estatus'[t]
        /\ cur_task' = t
        /\ UNCHANGED <<pid_counter, next, status, family, launched>>
  BY DEF task_switch
<1>2. Created \subseteq Task
  BY DEF IInv, TypeOK, Created, Task
<1>3. TypeOK'
  BY <1>1, <1>2 DEF IInv, TypeOK, family, Created
<1>4. \A s \in Created : At(s)' = At(s)
  BY <1>1, <1>2 DEF At, IInv, TypeOK
<1>5. /\ Created' = Created
      /\ HeadIsChild' /\ UnbornHasNoChildren' /\ RingIsOneCycle'
      /\ ChildrenCountLedger' /\ NoLiveOrphans' /\ SiblingsShareParent'
  BY <1>1, SameFamily
<1>6. MainLoops' /\ DeadSpins'
  BY <1>1, <1>4, <1>5 DEF IInv, MainLoops, DeadSpins
<1> QED
  BY <1>3, <1>5, <1>6 DEF IInv

(* Putting a new block behind block 0 keeps the ring one cycle. *)
LEMMA CreateRing ==
    ASSUME IInv, NEW context, CreateTask(pid_counter, context)
    PROVE  RingIsOneCycle'
<1> USE TasksAssumption
<1> DEFINE new == pid_counter
<1>1. /\ Created' = Created \cup {new}
      /\ new \in Task \ Created
      /\ Main \in Created
      /\ Created \subseteq Task
  BY DEF IInv, TypeOK, CreateTask, Created, Task, Main
<1>2. /\ next'[new] = next[Main]
      /\ next'[Main] = new
      /\ \A t \in Created \ {Main} : next'[t] = next[t]
  BY <1>1 DEF IInv, TypeOK, CreateTask
<1>3. \A t \in Created : next[t] \in Created
  BY DEF IInv, RingIsOneCycle
<1> HIDE DEF new
<1>4. \A t \in Created' : next'[t] \in Created'
  BY <1>1, <1>2, <1>3
<1>5. ASSUME NEW part \in SUBSET Created', part # {}, \A t \in part : next'[t] \in part
      PROVE  part = Created'
  <2>1. CASE new \notin part
    <3>1. Main \notin part
      BY <1>2, <1>5, <2>1
    <3>2. part \subseteq Created /\ \A t \in part : next[t] \in part
      BY <1>1, <1>2, <1>5, <2>1, <3>1
    <3>3. part = Created
      BY <1>5, <3>2 DEF IInv, RingIsOneCycle
    <3> QED
      BY <1>1, <3>1, <3>3
  <2>2. CASE new \in part
    <3> DEFINE old == part \ {new}
    <3>1. next[Main] \in old
      BY <1>1, <1>2, <1>3, <1>5, <2>2
    <3>2. old \subseteq Created
      BY <1>1
    <3>3. \A t \in old : next[t] \in old
      BY <1>1, <1>2, <1>3, <1>5, <3>1, <3>2
    <3>4. old = Created
      BY <3>1, <3>2, <3>3 DEF IInv, RingIsOneCycle
    <3> QED
      BY <1>1, <2>2, <3>4
  <2> QED
    BY <2>1, <2>2
<1> QED
  BY <1>4, <1>5 DEF RingIsOneCycle

(* Creating a child, by exec (linked and counted once) or by fork (linked to
   itself and counted twice), keeps the invariant. *)
LEMMA CreateIInv ==
    ASSUME IInv, NEW context \in Place, NEW brother, NEW counted,
           CreateTask(pid_counter, context),
           LinkChild(pid_counter, brother, counted),
           \/ brother = children[cur_task] /\ counted = 1
           \/ brother = pid_counter /\ counted = 2,
           context # "main", cpu # "spin",
           UNCHANGED <<cur_task, cpu>>, launched' \in 0 .. Shells
    PROVE  IInv'
<1> USE TasksAssumption
<1>0. PICK new : new = pid_counter
  OBVIOUS
<1>1. /\ Created' = Created \cup {new}
      /\ new \in Task \ Created
      /\ Main \in Created /\ cur_task \in Created
      /\ Created \subseteq Task
      /\ Null \notin Task /\ Wild \notin Task /\ Null # Wild
      /\ new # Main
  BY <1>0 DEF IInv, TypeOK, CreateTask, Created, Task, Main, Null, Wild
<1>2. TypeOK'
  <2>1. pid_counter' \in 1 .. MaxTasks
    BY DEF IInv, TypeOK, CreateTask
  <2>2. brother \in Created \cup {Null, pid_counter} /\ counted \in Nat
    BY <1>1 DEF IInv, TypeOK
  <2>3. next' \in [Task -> Created' \cup {Null}] /\ status' \in [Task -> {Ready, Blocked, Dead}]
    BY <1>0, <1>1 DEF IInv, TypeOK, CreateTask
  <2>4. estatus' \in [Task -> Place] /\ cpu' \in Place /\ cur_task' \in Created'
    BY <1>0, <1>1 DEF IInv, TypeOK, CreateTask
  <2>5. parent' \in [Task -> Created' \cup {Null}] /\ children' \in [Task -> Created' \cup {Null}]
    BY <1>0, <1>1 DEF IInv, TypeOK, LinkChild
  <2>6. brothers' \in [Task -> Created' \cup {Null, Wild}] /\ children_count' \in [Task -> Nat]
    BY <1>0, <1>1, <2>2 DEF IInv, TypeOK, LinkChild
  <2> QED
    BY <2>1, <2>3, <2>4, <2>5, <2>6 DEF TypeOK
<1>3. /\ status'[new] = Ready
      /\ parent'[new] = cur_task
      /\ brothers'[new] = brother
      /\ \A t \in Task \ {new} : /\ status'[t] = status[t]
                                 /\ parent'[t] = parent[t]
                                 /\ brothers'[t] = brothers[t]
  BY <1>0, <1>1 DEF IInv, TypeOK, CreateTask, LinkChild
<1>12. /\ children'[cur_task] = new
       /\ children_count'[cur_task] = children_count[cur_task] + counted
       /\ \A t \in Task \ {cur_task} : /\ children'[t] = children[t]
                                       /\ children_count'[t] = children_count[t]
  BY <1>0, <1>1 DEF IInv, TypeOK, LinkChild
<1>13. At(new)' = context /\ \A t \in Created : At(t)' = At(t)
  BY <1>0, <1>1 DEF IInv, TypeOK, CreateTask, At
<1>4. \A t \in Created : /\ parent[t] \in Created \cup {Null}
                         /\ children[t] \in Created \cup {Null}
                         /\ brothers[t] \in Created \cup {Null, Wild}
  BY <1>1 DEF IInv, TypeOK
<1>5. children_count[new] = 0 /\ children[new] = Null
  BY <1>1 DEF IInv, UnbornHasNoChildren
<1>6. status[cur_task] # Dead
  BY RunnerLives
<1>7. MainLoops' /\ DeadSpins'
  BY <1>1, <1>3, <1>13 DEF IInv, MainLoops, DeadSpins, Ready, Dead
<1>8. RingIsOneCycle'
  BY CreateRing
<1>9. NoLiveOrphans'
  BY <1>1, <1>3, <1>4, <1>6 DEF IInv, NoLiveOrphans
<1>10. UnbornHasNoChildren'
  BY <1>1, <1>12 DEF IInv, UnbornHasNoChildren
<1>11. HeadIsChild'
  <2>1. ASSUME NEW q \in Created', children'[q] # Null
        PROVE  children'[q] # Main /\ parent'[children'[q]] = q
    <3>1. CASE q = cur_task
      BY <1>1, <1>3, <1>12, <3>1
    <3>2. CASE q # cur_task /\ q \in Created
      BY <1>1, <1>3, <1>4, <1>12, <2>1, <3>2 DEF IInv, HeadIsChild
    <3>3. CASE q = new
      BY <1>1, <1>5, <1>12, <2>1, <3>3
    <3> QED
      BY <1>1, <3>1, <3>2, <3>3
  <2> QED
    BY <2>1 DEF HeadIsChild
<1>14. SiblingsShareParent'
  <2>1. ASSUME NEW q \in Created' \ {Main}, brothers'[q] # Null
        PROVE  brothers'[q] \in Created' /\ parent'[brothers'[q]] = parent'[q]
    <3>1. CASE q = new
      <4>1. CASE brother = new
        BY <1>1, <1>3, <3>1, <4>1
      <4>2. CASE brother = children[cur_task]
        BY <1>1, <1>3, <1>4, <2>1, <3>1, <4>2 DEF IInv, HeadIsChild
      <4> QED
        BY <1>0, <4>1, <4>2
    <3>2. CASE q # new
      BY <1>1, <1>3, <2>1, <3>2 DEF IInv, SiblingsShareParent
    <3> QED
      BY <3>1, <3>2
  <2> QED
    BY <2>1 DEF SiblingsShareParent
<1>15. ChildrenCountLedger'
  <2>1. \A p : /\ IsFiniteSet(LiveChildren(p)) /\ Cardinality(LiveChildren(p)) \in Nat
              /\ IsFiniteSet(ForkedChildren(p)) /\ Cardinality(ForkedChildren(p)) \in Nat
    BY ChildrenFinite DEF IInv
  <2>2. \A p : new \notin LiveChildren(p) /\ new \notin ForkedChildren(p)
    BY <1>1 DEF LiveChildren, ForkedChildren, ChildrenOf
  <2>3. \A p \in Created \ {cur_task} :
          LiveChildren(p)' = LiveChildren(p) /\ ForkedChildren(p)' = ForkedChildren(p)
    BY <1>1, <1>3 DEF LiveChildren, ForkedChildren, ChildrenOf
  <2>4. LiveChildren(new)' = {} /\ ForkedChildren(new)' = {}
    BY <1>1, <1>3, <1>4 DEF LiveChildren, ForkedChildren, ChildrenOf
  <2>5. LiveChildren(cur_task)' = LiveChildren(cur_task) \cup {new}
    BY <1>1, <1>3 DEF LiveChildren, ChildrenOf, Ready, Dead
  <2>6. Cardinality(LiveChildren(cur_task)') = Cardinality(LiveChildren(cur_task)) + 1
    BY <2>1, <2>2, <2>5, FS_AddElement
  <2>7. children_count[cur_task] = Cardinality(LiveChildren(cur_task))
                                     + Cardinality(ForkedChildren(cur_task))
    BY <1>1 DEF IInv, ChildrenCountLedger
  <2>8. children_count'[cur_task] = Cardinality(LiveChildren(cur_task)')
                                      + Cardinality(ForkedChildren(cur_task)')
    <3>1. CASE brother = children[cur_task] /\ counted = 1
      <4>1. ForkedChildren(cur_task)' = ForkedChildren(cur_task)
        BY <1>1, <1>3, <1>4, <3>1 DEF ForkedChildren, ChildrenOf
      <4> QED
        BY <1>12, <2>1, <2>6, <2>7, <3>1, <4>1
    <3>2. CASE brother = new /\ counted = 2
      <4>1. ForkedChildren(cur_task)' = ForkedChildren(cur_task) \cup {new}
        BY <1>1, <1>3, <3>2 DEF ForkedChildren, ChildrenOf
      <4>2. Cardinality(ForkedChildren(cur_task)') = Cardinality(ForkedChildren(cur_task)) + 1
        BY <2>1, <2>2, <4>1, FS_AddElement
      <4> QED
        BY <1>12, <2>1, <2>6, <2>7, <3>2, <4>2
    <3> QED
      BY <1>0, <3>1, <3>2
  <2>9. \A p \in Created \ {cur_task} :
          children_count'[p] = Cardinality(LiveChildren(p)') + Cardinality(ForkedChildren(p)')
    BY <1>1, <1>12, <2>3 DEF IInv, ChildrenCountLedger
  <2>10. children_count'[new] = Cardinality(LiveChildren(new)') + Cardinality(ForkedChildren(new)')
    BY <1>1, <1>5, <1>12, <2>4, FS_EmptySet
  <2>11. \A p \in Created' :
          children_count'[p] = Cardinality(LiveChildren(p)') + Cardinality(ForkedChildren(p)')
    BY <1>1, <2>8, <2>9, <2>10
  <2> QED
    BY <2>11 DEF ChildrenCountLedger
<1> QED
  BY <1>2, <1>7, <1>8, <1>9, <1>10, <1>11, <1>14, <1>15 DEF IInv

(* A step of the running program that only moves it on, and may mark it
   BLOCKED, keeps the invariant. *)
LEMMA MoveIInv ==
    ASSUME IInv, cpu \in {"run", "waited"}, cpu' \in {"run", "waited", "exit"},
           status' = status \/ status' = [status EXCEPT ![cur_task] = Blocked],
           UNCHANGED <<pid_counter, next, family, cur_task, estatus, launched>>
    PROVE  IInv'
<1> USE TasksAssumption
<1>1. Created' = Created /\ Created \subseteq Task /\ cur_task \in Created
  BY DEF IInv, TypeOK, Created, Task
<1>2. status[cur_task] # Dead
  BY RunnerLives
<1>3. TypeOK'
  BY <1>1 DEF IInv, TypeOK, family, Place
<1>4. \A t \in Created : status'[t] = Dead <=> status[t] = Dead
  BY <1>1, <1>2 DEF IInv, TypeOK, Blocked, Dead
<1>5. MainLoops' /\ DeadSpins'
  BY <1>1, <1>2, <1>4 DEF IInv, MainLoops, DeadSpins, At
<1>6. \A p : LiveChildren(p)' = LiveChildren(p) /\ ForkedChildren(p)' = ForkedChildren(p)
  BY <1>1, <1>4 DEF LiveChildren, ForkedChildren, ChildrenOf, family
<1>7. ChildrenCountLedger'
  BY <1>1, <1>6 DEF IInv, ChildrenCountLedger, family
<1>8. NoLiveOrphans'
  BY <1>1, <1>4 DEF IInv, NoLiveOrphans, family
<1>9. HeadIsChild' /\ UnbornHasNoChildren' /\ RingIsOneCycle' /\ SiblingsShareParent'
  BY <1>1 DEF IInv, HeadIsChild, UnbornHasNoChildren, RingIsOneCycle,
              SiblingsShareParent, family
<1> QED
  BY <1>3, <1>5, <1>7, <1>8, <1>9 DEF IInv

(* exit_for_syscall keeps the invariant: whoever dies has no live child, and is
   a live child of its parent until then. *)
LEMMA ExitIInv ==
    ASSUME IInv, NEW t \in Task, exit_for_syscall(t) PROVE IInv'
<1> USE TasksAssumption
<1>1. /\ Created' = Created /\ Created \subseteq Task /\ t \in Created
      /\ cur_task = t /\ cpu = "exit" /\ cpu' = "spin"
      /\ UNCHANGED <<pid_counter, next, parent, children, brothers, cur_task,
                     estatus, launched>>
  BY DEF IInv, TypeOK, Created, Task, exit_for_syscall
<1>2. status[t] # Dead
  BY <1>1, RunnerLives
<1>3. t # Main
  BY <1>1 DEF IInv, MainLoops, At
<1>4. MainLoops'
  BY <1>1, <1>3 DEF IInv, MainLoops, At
<1>5. HeadIsChild' /\ RingIsOneCycle' /\ SiblingsShareParent'
  BY <1>1 DEF IInv, HeadIsChild, RingIsOneCycle, SiblingsShareParent
<1>6. CASE children_count[t] = 0
  <2>0. PICK p : p = parent[t]
    OBVIOUS
  <2>1. /\ status' = [status EXCEPT ![t] = Dead]
        /\ children_count' = [children_count EXCEPT ![p] = @ - 1]
    BY <1>6, <2>0 DEF exit_for_syscall
  <2>2. p \in Created /\ status[p] # Dead
    BY <1>1, <1>2, <1>3, <2>0 DEF IInv, NoLiveOrphans
  <2>3. \A q : /\ IsFiniteSet(LiveChildren(q)) /\ Cardinality(LiveChildren(q)) \in Nat
               /\ IsFiniteSet(ForkedChildren(q)) /\ Cardinality(ForkedChildren(q)) \in Nat
    BY ChildrenFinite DEF IInv
  <2>4. LiveChildren(t) = {}
    <3>1. Cardinality(LiveChildren(t)) + Cardinality(ForkedChildren(t)) = 0
      BY <1>1, <1>6 DEF IInv, ChildrenCountLedger
    <3>2. Cardinality(LiveChildren(t)) = 0
      BY <2>3, <3>1
    <3> QED
      BY <2>3, <3>2, FS_EmptySet
  <2>5. t \in LiveChildren(p)
    BY <1>1, <1>2, <2>0 DEF LiveChildren, ChildrenOf
  <2>6. p # t
    BY <2>4, <2>5
  <2>7. /\ status'[t] = Dead
        /\ \A q \in Task \ {t} : status'[q] = status[q]
        /\ children_count'[p] = children_count[p] - 1
        /\ \A q \in Task \ {p} : children_count'[q] = children_count[q]
    BY <1>1, <2>1, <2>2 DEF IInv, TypeOK
  <2>8. children_count[p] = Cardinality(LiveChildren(p)) + Cardinality(ForkedChildren(p))
    BY <2>2 DEF IInv, ChildrenCountLedger
  <2>9. Cardinality(LiveChildren(p) \ {t}) = Cardinality(LiveChildren(p)) - 1
    BY <2>3, <2>5, FS_RemoveElement
  <2>10. Cardinality(LiveChildren(p) \ {t}) \in Nat
    BY <2>3, FS_RemoveElement, FS_CardinalityType
  <2>11. children_count[p] - 1 \in Nat
    BY <2>3, <2>8, <2>9, <2>10
  <2>12. TypeOK'
    <3>1. children_count' \in [Task -> Nat] /\ status' \in [Task -> {Ready, Blocked, Dead}]
      BY <1>1, <2>1, <2>2, <2>11 DEF IInv, TypeOK
    <3> QED
      BY <1>1, <3>1 DEF IInv, TypeOK, Place
  <2>13. ChildrenCountLedger'
    <3>1. \A q \in Created : ForkedChildren(q)' = ForkedChildren(q)
      BY <1>1 DEF ForkedChildren, ChildrenOf
    <3>2. \A q \in Created \ {p} : LiveChildren(q)' = LiveChildren(q)
      BY <1>1, <2>0, <2>7 DEF LiveChildren, ChildrenOf
    <3>3. LiveChildren(p)' = LiveChildren(p) \ {t}
      BY <1>1, <1>3, <2>7 DEF LiveChildren, ChildrenOf
    <3>4. \A q \in Created \ {p} :
            children_count'[q] = Cardinality(LiveChildren(q)') + Cardinality(ForkedChildren(q)')
      BY <1>1, <2>7, <3>1, <3>2 DEF IInv, ChildrenCountLedger
    <3>5. children_count'[p] = Cardinality(LiveChildren(p)') + Cardinality(ForkedChildren(p)')
      BY <1>1, <2>2, <2>3, <2>7, <2>8, <2>9, <3>1, <3>3
    <3> QED
      BY <1>1, <3>4, <3>5 DEF ChildrenCountLedger
  <2>14. NoLiveOrphans'
    <3>1. \A q \in Created \ {Main} : status'[q] # Dead => parent[q] # t /\ status[q] # Dead
      BY <1>1, <2>4, <2>7 DEF LiveChildren, ChildrenOf
    <3> QED
      BY <1>1, <2>7, <3>1 DEF IInv, NoLiveOrphans
  <2>15. DeadSpins'
    BY <1>1, <2>7 DEF IInv, DeadSpins, At
  <2>16. UnbornHasNoChildren'
    BY <1>1, <2>2, <2>7 DEF IInv, UnbornHasNoChildren
  <2> QED
    BY <1>4, <1>5, <2>12, <2>13, <2>14, <2>15, <2>16 DEF IInv
<1>7. CASE children_count[t] # 0
  <2>1. UNCHANGED <<pid_counter, next, family>> /\ status' = status
    BY <1>1, <1>7 DEF exit_for_syscall, family
  <2>2. /\ HeadIsChild' /\ UnbornHasNoChildren' /\ RingIsOneCycle'
        /\ ChildrenCountLedger' /\ NoLiveOrphans' /\ SiblingsShareParent'
    BY <2>1, SameFamily
  <2>3. TypeOK'
    BY <1>1, <2>1 DEF IInv, TypeOK, family, Place
  <2>4. DeadSpins'
    BY <1>1, <1>2, <2>1 DEF IInv, DeadSpins, At
  <2> QED
    BY <1>4, <2>2, <2>3, <2>4 DEF IInv
<1> QED
  BY <1>6, <1>7

(* Every step keeps the invariant. *)
LEMMA NextIInv == IInv /\ [Next]_vars => IInv'
<1> SUFFICES ASSUME IInv, [Next]_vars PROVE IInv'
  OBVIOUS
<1> USE TasksAssumption
<1>1. CASE task_switch
  BY <1>1, SwitchIInv
<1>2. CASE main
  <2>1. PICK brother, counted : brother = children[cur_task] /\ counted = 1
    OBVIOUS
  <2>2. /\ CreateTask(pid_counter, "run") /\ LinkChild(pid_counter, brother, counted)
        /\ cpu = "main" /\ UNCHANGED <<cur_task, cpu>>
        /\ launched' \in 0 .. Shells
    BY <1>2, <2>1 DEF main, exec, IInv, TypeOK
  <2> QED
    BY <2>1, <2>2, CreateIInv DEF Place
<1>3. ASSUME NEW t \in Task, exec_cmd(t) PROVE IInv'
  <2>1. PICK brother, counted : brother = children[cur_task] /\ counted = 1
    OBVIOUS
  <2>2. /\ CreateTask(pid_counter, "run") /\ LinkChild(pid_counter, brother, counted)
        /\ cpu = "run" /\ UNCHANGED <<cur_task, cpu>>
        /\ launched' \in 0 .. Shells
    BY <1>3, <2>1 DEF exec_cmd, exec, IInv, TypeOK
  <2> QED
    BY <2>1, <2>2, CreateIInv DEF Place
<1>4. ASSUME NEW t \in Task, fork(t) PROVE IInv'
  <2>1. PICK brother, counted : brother = pid_counter /\ counted = 2
    OBVIOUS
  <2>2. /\ CreateTask(pid_counter, "run") /\ LinkChild(pid_counter, brother, counted)
        /\ cpu = "run" /\ UNCHANGED <<cur_task, cpu>>
        /\ launched' \in 0 .. Shells
    BY <1>4, <2>1 DEF fork, IInv, TypeOK
  <2> QED
    BY <2>1, <2>2, CreateIInv DEF Place
<1>5. ASSUME NEW t \in Task, wait(t) \/ resume(t) \/ exit(t) PROVE IInv'
  BY <1>5, MoveIInv DEF wait, resume, exit, WaitCall
<1>6. ASSUME NEW t \in Task, exit_for_syscall(t) PROVE IInv'
  BY <1>6, ExitIInv
<1>7. CASE UNCHANGED vars
  <2>1. /\ HeadIsChild' /\ UnbornHasNoChildren' /\ RingIsOneCycle'
        /\ ChildrenCountLedger' /\ NoLiveOrphans' /\ SiblingsShareParent'
    BY <1>7, SameFamily DEF vars
  <2>2. TypeOK' /\ MainLoops' /\ DeadSpins'
    BY <1>7 DEF vars, family, IInv, TypeOK, MainLoops, DeadSpins, At, Created
  <2> QED
    BY <2>1, <2>2 DEF IInv
<1> QED
  BY <1>1, <1>2, <1>3, <1>4, <1>5, <1>6, <1>7 DEF Next, timer_handler, Program, switch_task

(* The invariant holds in every state the kernel reaches. *)
THEOREM Invariance == Spec => []IInv
BY InitIInv, NextIInv, PTL DEF Spec

-----------------------------------------------------------------------------
(* The pointers and counters of the task blocks stay in their types; no
   counter of children drops below zero. *)
THEOREM TypeCorrect == Spec => []TypeOK
<1>1. IInv => TypeOK
  BY DEF IInv
<1> QED
  BY <1>1, Invariance, PTL

(* The ring the scheduler walks is one cycle through all blocks created. *)
THEOREM RingTheorem == Spec => []RingIsOneCycle
<1>1. IInv => RingIsOneCycle
  BY DEF IInv
<1> QED
  BY <1>1, Invariance, PTL

(* children_count is the live children plus, once more, the forked ones. *)
THEOREM LedgerTheorem == Spec => []ChildrenCountLedger
<1>1. IInv => ChildrenCountLedger
  BY DEF IInv
<1> QED
  BY <1>1, Invariance, PTL

(* No task dies before its children. *)
THEOREM OrphanTheorem == Spec => []NoLiveOrphans
<1>1. IInv => NoLiveOrphans
  BY DEF IInv
<1> QED
  BY <1>1, Invariance, PTL

(* No list of siblings runs from one family into another. *)
THEOREM SiblingTheorem == Spec => []SiblingsShareParent
<1>1. IInv => SiblingsShareParent
  BY DEF IInv
<1> QED
  BY <1>1, Invariance, PTL

(* A task that ever forked never counts zero children again: its exit never
   takes effect, and its wait always blocks it. *)
ForkersStayParents == \A p \in Created : ForkedChildren(p) # {} => children_count[p] > 0

THEOREM ForkerTheorem == Spec => []ForkersStayParents
<1>1. ASSUME IInv, NEW p \in Created, ForkedChildren(p) # {}
      PROVE  children_count[p] > 0
  <2>1. /\ IsFiniteSet(LiveChildren(p)) /\ Cardinality(LiveChildren(p)) \in Nat
        /\ IsFiniteSet(ForkedChildren(p)) /\ Cardinality(ForkedChildren(p)) \in Nat
    BY <1>1, ChildrenFinite DEF IInv
  <2>2. Cardinality(ForkedChildren(p)) # 0
    BY <1>1, <2>1, FS_EmptySet
  <2>3. children_count[p] = Cardinality(LiveChildren(p)) + Cardinality(ForkedChildren(p))
    BY <1>1 DEF IInv, ChildrenCountLedger
  <2> QED
    BY <2>1, <2>2, <2>3
<1>2. IInv => ForkersStayParents
  BY <1>1 DEF ForkersStayParents
<1> QED
  BY <1>2, Invariance, PTL

-----------------------------------------------------------------------------
(* get_next_task's choice is determined by the ring and the status words: two
   walks that stop, stop at the same block.  If they did not, the blocks both
   have passed would be a proper part of the ring closed under next. *)
THEOREM NextTaskUnique ==
    ASSUME RingIsOneCycle, cur_task \in Created,
           NEW t, NEW u, IsNextTask(t), IsNextTask(u)
    PROVE  t = u
<1> DEFINE Passable == {s \in Created \ {cur_task} : status[s] # Ready}
<1>1. PICK S \in SUBSET Passable : \A s \in S \cup {cur_task} : next[s] \in S \cup {t}
  BY DEF IsNextTask
<1>2. PICK R \in SUBSET Passable : \A s \in R \cup {cur_task} : next[s] \in R \cup {u}
  BY DEF IsNextTask
<1>3. t \notin R /\ u \notin S
  BY <1>1, <1>2 DEF IsNextTask
<1>4. SUFFICES ASSUME t # u PROVE FALSE
  OBVIOUS
<1> DEFINE both == S \cap R
<1>5. \A s \in both \cup {cur_task} : next[s] \in both
  BY <1>1, <1>2, <1>3, <1>4
<1>6. both \subseteq Created /\ cur_task \notin both /\ cur_task \in Created
  BY <1>1
<1>7. both # {} /\ \A s \in both : next[s] \in both
  BY <1>5
<1>8. both = Created
  BY <1>6, <1>7 DEF RingIsOneCycle
<1> QED
  BY <1>6, <1>8

(* A switch never gives the processor to another task that is dead. *)
THEOREM DeadTheorem == Spec => DeadStaysOff
<1>1. IInv /\ [Next]_vars => [\A t \in Created : status[t] = Dead /\ cur_task # t => cur_task' # t]_vars
  <2> SUFFICES ASSUME IInv, Next, NEW t \in Created, status[t] = Dead, cur_task # t
               PROVE  cur_task' # t
    BY DEF vars
  <2>1. CASE task_switch
    BY <2>1 DEF task_switch, IsNextTask, Ready, Dead
  <2>2. CASE cur_task' = cur_task
    BY <2>2
  <2> QED
    BY <2>1, <2>2 DEF Next, timer_handler, main, Program, switch_task, exec_cmd, fork,
                      wait, resume, exit, WaitCall, exit_for_syscall
<1> QED
  BY <1>1, Invariance, PTL DEF Spec, DeadStaysOff

(* An interrupted task is found where it was when it gets the processor back. *)
THEOREM ContextTheorem == Spec => ContextsSurvive
<1>1. IInv /\ [Next]_vars =>
        [\A t \in Created : t # cur_task \/ cur_task' # cur_task => At(t)' = At(t)]_vars
  <2> SUFFICES ASSUME IInv, Next, NEW t \in Created, t # cur_task \/ cur_task' # cur_task
               PROVE  At(t)' = At(t)
    BY DEF vars
  <2>1. /\ t \in Task /\ t # pid_counter /\ pid_counter \in Int
        /\ cur_task \in Task /\ estatus \in [Task -> Place]
    BY TasksAssumption DEF IInv, TypeOK, Created, Task
  <2>2. CASE task_switch
    BY <2>1, <2>2 DEF task_switch, At
  <2>3. CASE cur_task' = cur_task /\ estatus' = estatus
    BY <2>3 DEF At
  <2>4. ASSUME NEW context, CreateTask(pid_counter, context), cur_task' = cur_task
        PROVE  At(t)' = At(t)
    BY <2>1, <2>4 DEF CreateTask, At
  <2> QED
    BY <2>2, <2>3, <2>4 DEF Next, timer_handler, main, Program, switch_task, exec_cmd, exec,
                      fork, wait, resume, exit, WaitCall, exit_for_syscall
<1> QED
  BY <1>1, Invariance, PTL DEF Spec, ContextsSurvive
=============================================================================
