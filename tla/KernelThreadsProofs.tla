------------------------ MODULE KernelThreadsProofs -------------------------
(***************************************************************************)
(* Proofs, for any number of tasks and messages, about the fork, wait and  *)
(* exit of kernel code: what the count that wait looks at counts, which    *)
(* decrements main's exec loses, that two exits lose none between them     *)
(* although a tick can fall into each, and that wait outlasts the          *)
(* children.                                                               *)
(***************************************************************************)
EXTENDS KernelThreads, TLAPS, FiniteSetTheorems, WellFoundedInduction

USE TasksAssumption

KernelTypes ==
    /\ pid_counter \in 1 .. MaxTasks
    /\ cur_task \in Created
    /\ status \in [Task -> {Ready, Dead}]
    /\ parent \in [Task -> Created \cup {Null}]
    /\ children \in [Task -> Created \cup {Null}]
    /\ DOMAIN brothers = Task
    /\ children_count \in [Task -> Int]
    /\ DOMAIN estatus = Task

(* A task is dead from the moment it marks itself on. *)
DeadAreEnding ==
    \A t \in Created : status[t] = Dead <=> At(t).at \in {"load", "store", "halt", "spin"}

(* main has no parent and never exits, and has all the children there are. *)
MainIsParent ==
    /\ parent[Main] = Null
    /\ At(Main).at \in {"run", "wait", "count"}
    /\ \A t \in Created \ {Main} : parent[t] = Main

(* Between the load and the store of exec the count in memory may already have
   lost decrements, but no more than there are ended tasks. *)
CountLimits ==
    /\ lost \subseteq Ended
    /\ At(Main).at = "count" => At(Main).reg \in Int
    /\ Cardinality(ChildrenOf(Main)) + Cardinality(ForkedChildren(Main))
           <= children_count[Main] + Cardinality(Ended)

TInv ==
    /\ KernelTypes
    /\ DeadAreEnding
    /\ MainIsParent
    /\ RegisterIsFresh
    /\ ForkedCount
    /\ CountLimits

-----------------------------------------------------------------------------
LEMMA CreatedFacts ==
    ASSUME KernelTypes
    PROVE  /\ Created \subseteq Task /\ Main \in Created /\ IsFiniteSet(Created)
           /\ Null \notin Task /\ pid_counter \notin Created
BY FS_Interval DEF KernelTypes, Created, Task, Main, Null

LEMMA SetsFinite ==
    ASSUME KernelTypes
    PROVE  /\ IsFiniteSet(Ended) /\ Cardinality(Ended) \in Nat
           /\ IsFiniteSet(Ended \ lost) /\ Cardinality(Ended \ lost) \in Nat
           /\ Cardinality(Ended \ lost) <= Cardinality(Ended)
           /\ IsFiniteSet(ChildrenOf(Main)) /\ Cardinality(ChildrenOf(Main)) \in Nat
           /\ IsFiniteSet(ForkedChildren(Main)) /\ Cardinality(ForkedChildren(Main)) \in Nat
<1>1. IsFiniteSet(Created)
  BY CreatedFacts
<1>2. /\ Ended \in SUBSET Created /\ ChildrenOf(Main) \in SUBSET Created
      /\ ForkedChildren(Main) \in SUBSET Created /\ Ended \ lost \in SUBSET Ended
  BY DEF Ended, ChildrenOf, ForkedChildren
<1> QED
  BY <1>1, <1>2, FS_Subset, FS_CardinalityType

LEMMA AddOne ==
    ASSUME NEW S, IsFiniteSet(S), NEW x, x \notin S, NEW T, T = S \cup {x}
    PROVE  IsFiniteSet(T) /\ Cardinality(T) = Cardinality(S) + 1
BY FS_AddElement

(* The count is a number, and outside exec the ledger bounds it from below. *)
LEMMA CountIsInt == KernelTypes /\ CountLimits => Counted \in Int /\ children_count[Main] \in Int
BY CreatedFacts DEF KernelTypes, CountLimits, Counted

LEMMA Enough ==
    ASSUME KernelTypes, ForkedCount, At(Main).at # "count"
    PROVE  Cardinality(ChildrenOf(Main)) + Cardinality(ForkedChildren(Main))
               <= children_count[Main] + Cardinality(Ended)
<1>1. children_count[Main] \in Int
  BY CreatedFacts DEF KernelTypes
<1>2. children_count[Main] + Cardinality(Ended \ lost) =
          Cardinality(ChildrenOf(Main)) + Cardinality(ForkedChildren(Main))
  BY DEF ForkedCount, Counted
<1> QED
  BY <1>1, <1>2, SetsFinite

LEMMA EnoughNext ==
    (KernelTypes /\ ForkedCount /\ At(Main).at # "count")' =>
        (Cardinality(ChildrenOf(Main)) + Cardinality(ForkedChildren(Main))
             <= children_count[Main] + Cardinality(Ended))'
<1>1. KernelTypes /\ ForkedCount /\ At(Main).at # "count" =>
          Cardinality(ChildrenOf(Main)) + Cardinality(ForkedChildren(Main))
              <= children_count[Main] + Cardinality(Ended)
  BY Enough
<1> QED
  BY <1>1, PTL

(* A step that changes neither family nor the place of main or of an ended
   task. *)
LEMMA SameCounts ==
    ASSUME ForkedCount, CountLimits, UNCHANGED <<pid_counter, family, lost>>,
           Ended' = Ended, Counted' = Counted, At(Main).at # "count" => At(Main)'.at # "count"
                                                \/ At(Main)'.reg \in Int,
           At(Main).at = "count" => At(Main)' = At(Main)
    PROVE  ForkedCount' /\ CountLimits'
<1>1. ChildrenOf(Main)' = ChildrenOf(Main) /\ ForkedChildren(Main)' = ForkedChildren(Main)
  BY DEF ChildrenOf, ForkedChildren, family, Created
<1> QED
  BY <1>1 DEF ForkedCount, CountLimits, family

LEMMA InitTInv == KInit => TInv
<1> SUFFICES ASSUME KInit PROVE TInv
  OBVIOUS
<1>1. Created = {Main} /\ Main \in Task /\ Null \notin Task
  BY DEF KInit, init_multitask, Created, Main, Task, Null
<1>2. cpu.at = "run" /\ cur_task = Main
  BY DEF KInit, init_multitask, Context
<1>3. KernelTypes
  BY <1>1 DEF KInit, init_multitask, KernelTypes, Task, Main
<1>4. DeadAreEnding /\ MainIsParent /\ RegisterIsFresh
  BY <1>1, <1>2 DEF KInit, init_multitask, DeadAreEnding, MainIsParent, RegisterIsFresh, At,
                    Ready, Dead
<1>5. ForkedCount /\ CountLimits
  <2>1. ChildrenOf(Main) = {} /\ ForkedChildren(Main) = {} /\ Ended = {} /\ Ended \ lost = {}
    BY <1>1, <1>2 DEF KInit, init_multitask, ChildrenOf, ForkedChildren, Ended, At, Main, Null
  <2>2. At(Main).at = "run" /\ children_count[Main] = 0 /\ lost = {}
    BY <1>1, <1>2 DEF KInit, init_multitask, At
  <2> QED
    BY <2>1, <2>2, FS_EmptySet DEF ForkedCount, CountLimits, Counted
<1> QED
  BY <1>3, <1>4, <1>5 DEF TInv

(* A switch leaves every task at its place, and gives the processor to a live
   task or leaves it where it is. *)
LEMMA SwitchTInv == TInv /\ task_switch /\ UNCHANGED lost => TInv'
<1> SUFFICES ASSUME TInv, task_switch, UNCHANGED lost PROVE TInv'
  OBVIOUS
<1>1. PICK t \in Created :
        /\ IsNextTask(t)
        /\ estatus' = [estatus EXCEPT ![cur_task] = cpu]
        /\ cpu' = estatus'[t]
        /\ cur_task' = t
        /\ UNCHANGED <<pid_counter, next, status, family, launched>>
  BY DEF task_switch
<1>2. Created' = Created /\ Created \subseteq Task /\ Main \in Created
  BY <1>1, CreatedFacts DEF TInv, Created
<1>3. \A s \in Created : At(s)' = At(s)
  BY <1>1, <1>2 DEF At, TInv, KernelTypes
<1>4. KernelTypes'
  BY <1>1, <1>2 DEF TInv, KernelTypes, family
<1>5. DeadAreEnding' /\ MainIsParent'
  BY <1>1, <1>2, <1>3 DEF TInv, DeadAreEnding, MainIsParent, family
<1>6. RegisterIsFresh'
  <2>1. t = cur_task \/ status[t] = Ready
    BY <1>1 DEF IsNextTask
  <2>2. CASE t = cur_task
    <3>1. cpu' = cpu
      BY <1>1, <1>2, <2>2 DEF TInv, KernelTypes
    <3> QED
      BY <1>1, <2>2, <3>1 DEF TInv, RegisterIsFresh, family
  <2>3. CASE status[t] = Ready
    <3>1. cpu' = At(t)
      BY <1>1, <1>3 DEF At
    <3>2. At(t).at # "store"
      BY <2>3 DEF TInv, DeadAreEnding, Ready, Dead
    <3> QED
      BY <3>1, <3>2 DEF RegisterIsFresh
  <2> QED
    BY <2>1, <2>2, <2>3
<1>7. ForkedCount' /\ CountLimits'
  <2>1. Ended' = Ended /\ At(Main)' = At(Main)
    BY <1>2, <1>3 DEF Ended
  <2>2. Counted' = Counted
    BY <1>1, <2>1 DEF Counted, family
  <2> QED
    BY <1>1, <2>1, <2>2, SameCounts DEF TInv, family
<1> QED
  BY <1>4, <1>5, <1>6, <1>7 DEF TInv

(* main gets a child, counted once (exec) or, linked to itself, twice (fork). *)
LEMMA CreateTInv ==
    ASSUME TInv, NEW context, NEW brother, NEW counted,
           cur_task = Main, cpu.at \in {"run", "count"}, cpu'.at = "run",
           UNCHANGED <<cur_task, lost>>,
           context.at \in {"run", "program"},
           CreateTask(pid_counter, context),
           parent' = [parent EXCEPT ![pid_counter] = Main],
           brothers' = [brothers EXCEPT ![pid_counter] = brother],
           children' = [children EXCEPT ![Main] = pid_counter],
           children_count' = [children_count EXCEPT ![Main] = Counted + counted],
           \/ brother = children[Main] /\ counted = 1
           \/ brother = pid_counter /\ counted = 2
    PROVE  TInv'
<1>0. PICK new : new = pid_counter
  OBVIOUS
<1>1. /\ Created' = Created \cup {new} /\ new \in Task \ Created /\ new # Main
      /\ Created \subseteq Task /\ Main \in Created /\ Null \notin Task
  BY <1>0, CreatedFacts DEF TInv, KernelTypes, CreateTask, Created, Task, Main
<1>2. /\ status' = [status EXCEPT ![new] = Ready]
      /\ estatus' = [estatus EXCEPT ![new] = context]
      /\ parent' = [parent EXCEPT ![new] = Main]
      /\ brothers' = [brothers EXCEPT ![new] = brother]
      /\ children' = [children EXCEPT ![Main] = new]
      /\ children_count' = [children_count EXCEPT ![Main] = Counted + counted]
      /\ pid_counter' = pid_counter + 1 /\ pid_counter < MaxTasks
  BY <1>0 DEF CreateTask
<1>3. /\ At(new)'.at = context.at
      /\ At(Main)'.at = "run" /\ At(Main).at \in {"run", "count"}
      /\ \A t \in Created \ {Main} : At(t)' = At(t)
  BY <1>1, <1>2 DEF At, TInv, KernelTypes
<1>4. KernelTypes'
  <2>1. pid_counter' \in 1 .. MaxTasks /\ cur_task' \in Created'
    BY <1>1, <1>2 DEF TInv, KernelTypes
  <2>2. status' \in [Task -> {Ready, Dead}] /\ DOMAIN estatus' = Task /\ DOMAIN brothers' = Task
    BY <1>1, <1>2 DEF TInv, KernelTypes
  <2>3. parent' \in [Task -> Created' \cup {Null}] /\ children' \in [Task -> Created' \cup {Null}]
    BY <1>1, <1>2 DEF TInv, KernelTypes
  <2>4. Counted + counted \in Int
    <3>1. Counted \in Int /\ counted \in Int
      BY CountIsInt DEF TInv
    <3> QED
      BY <3>1
  <2>5. children_count' \in [Task -> Int]
    BY <1>1, <1>2, <2>4 DEF TInv, KernelTypes
  <2> QED
    BY <2>1, <2>2, <2>3, <2>5 DEF KernelTypes
<1>5. /\ status'[new] = Ready /\ parent'[new] = Main /\ brothers'[new] = brother
      /\ children_count'[Main] = Counted + counted
      /\ \A t \in Created : status'[t] = status[t] /\ parent'[t] = parent[t]
                            /\ brothers'[t] = brothers[t]
  BY <1>1, <1>2 DEF TInv, KernelTypes
<1>6. DeadAreEnding'
  BY <1>1, <1>3, <1>5 DEF TInv, DeadAreEnding, Ready, Dead
<1>7. MainIsParent'
  BY <1>1, <1>3, <1>5 DEF TInv, MainIsParent
<1>8. RegisterIsFresh'
  BY DEF RegisterIsFresh
<1>9. ForkedCount'
  <2>1. /\ IsFiniteSet(ChildrenOf(Main)) /\ Cardinality(ChildrenOf(Main)) \in Nat
        /\ IsFiniteSet(ForkedChildren(Main)) /\ Cardinality(ForkedChildren(Main)) \in Nat
        /\ Cardinality(Ended \ lost) \in Nat /\ Counted \in Int
    BY <1>1, SetsFinite, CountIsInt DEF TInv, KernelTypes
  <2>2. Ended' = Ended /\ (Ended \ lost)' = Ended \ lost
    BY <1>1, <1>3 DEF Ended
  <2>3. ChildrenOf(Main)' = ChildrenOf(Main) \cup {new} /\ new \notin ChildrenOf(Main)
    BY <1>1, <1>5 DEF ChildrenOf
  <2>4. Cardinality(ChildrenOf(Main)') = Cardinality(ChildrenOf(Main)) + 1
    BY <2>1, <2>3, AddOne
  <2>5. Counted + Cardinality(Ended \ lost) =
            Cardinality(ChildrenOf(Main)) + Cardinality(ForkedChildren(Main))
    BY DEF TInv, ForkedCount
  <2>6. Cardinality(ForkedChildren(Main)') = Cardinality(ForkedChildren(Main)) + (counted - 1)
    <3>1. CASE brother = children[Main] /\ counted = 1
      <4>1. brother # new
        BY <1>1, <3>1 DEF TInv, KernelTypes
      <4>2. ForkedChildren(Main)' = ForkedChildren(Main)
        BY <1>1, <1>5, <4>1 DEF ForkedChildren, ChildrenOf
      <4> QED
        BY <2>1, <3>1, <4>2
    <3>2. CASE brother = new /\ counted = 2
      <4>1. /\ ForkedChildren(Main)' = ForkedChildren(Main) \cup {new}
            /\ new \notin ForkedChildren(Main)
        BY <1>1, <1>5, <3>2 DEF ForkedChildren, ChildrenOf
      <4>2. Cardinality(ForkedChildren(Main)') = Cardinality(ForkedChildren(Main)) + 1
        BY <2>1, <4>1, AddOne
      <4> QED
        BY <2>1, <3>2, <4>2
    <3> QED
      BY <1>0, <3>1, <3>2
  <2>7. children_count'[Main] + Cardinality((Ended \ lost)') =
            Cardinality(ChildrenOf(Main)') + Cardinality(ForkedChildren(Main)')
    BY <1>5, <2>1, <2>2, <2>4, <2>5, <2>6
  <2> QED
    BY <1>3, <2>7 DEF ForkedCount, Counted
<1>10. CountLimits'
  <2>1. (lost \subseteq Ended)'
    BY <1>1, <1>3 DEF TInv, CountLimits, Ended
  <2>2. At(Main)'.at # "count"
    BY <1>3
  <2>3. (KernelTypes /\ ForkedCount /\ At(Main).at # "count")'
    BY <1>4, <1>9, <2>2
  <2> QED
    BY <2>1, <2>2, <2>3, EnoughNext DEF CountLimits
<1> QED
  BY <1>4, <1>6, <1>7, <1>8, <1>9, <1>10 DEF TInv

(* A step of a thread to another place, before it has marked itself and after,
   changes nothing that is counted. *)
LEMMA MoveTInv ==
    ASSUME TInv, UNCHANGED <<pid_counter, next, status, family, cur_task, estatus, lost>>,
           \/ /\ cpu.at \in {"run", "wait"}
              /\ (cpu'.at \in {"run", "wait"} \/ (cur_task # Main /\ cpu'.at = "mark"))
           \/ /\ cpu.at = "run" /\ cur_task = Main
              /\ cpu'.at = "count" /\ cpu'.reg = children_count[Main]
           \/ /\ cpu.at = "load" /\ cpu'.at = "store"
              /\ cpu'.reg = children_count[parent[cur_task]]
    PROVE  TInv'
<1>1. Created' = Created /\ Created \subseteq Task /\ Main \in Created
  BY CreatedFacts DEF TInv, Created
<1>2. KernelTypes'
  BY <1>1 DEF TInv, KernelTypes, family
<1>3. \A t \in Created : t # cur_task => At(t)' = At(t)
  BY DEF At
<1>4. At(cur_task) = cpu /\ At(cur_task)' = cpu' /\ cur_task' = cur_task
  BY DEF At
<1>5. DeadAreEnding'
  BY <1>1, <1>3, <1>4 DEF TInv, DeadAreEnding
<1>6. MainIsParent'
  BY <1>1, <1>3, <1>4 DEF TInv, MainIsParent, family
<1>7. RegisterIsFresh'
  BY DEF RegisterIsFresh, family
<1>8. ForkedCount' /\ CountLimits'
  <2>1. Ended' = Ended
    BY <1>1, <1>3, <1>4 DEF Ended
  <2>2. CASE cur_task = Main
    <3>1. At(Main).at \in {"run", "wait"} /\ At(Main)' = cpu' /\ children_count' = children_count
      BY <1>4, <2>2 DEF TInv, MainIsParent, family
    <3>2. cpu'.at = "count" => cpu'.reg = children_count[Main]
      BY <1>4, <2>2, <3>1
    <3>3. Counted' = Counted
      BY <3>1, <3>2 DEF Counted
    <3>4. children_count[Main] \in Int
      BY CountIsInt DEF TInv
    <3>5. ForkedCount /\ CountLimits /\ UNCHANGED <<pid_counter, family, lost>>
      BY DEF TInv
    <3> QED
      BY <2>1, <3>1, <3>2, <3>3, <3>4, <3>5, SameCounts
  <2>3. CASE cur_task # Main
    <3>1. At(Main)' = At(Main)
      BY <1>1, <1>3, <2>3
    <3>2. Counted' = Counted
      BY <3>1 DEF Counted, family
    <3>3. ForkedCount /\ CountLimits /\ UNCHANGED <<pid_counter, family, lost>>
      BY DEF TInv
    <3> QED
      BY <2>1, <3>1, <3>2, <3>3, SameCounts
  <2> QED
    BY <2>2, <2>3
<1> QED
  BY <1>2, <1>5, <1>6, <1>7, <1>8 DEF TInv

(* A thread marks itself; its decrement is still to come. *)
LEMMA MarkTInv == ASSUME TInv, NEW t \in Task, mark(t) PROVE TInv'
<1>1. /\ t = cur_task /\ cpu.at = "mark" /\ cpu'.at = "load"
      /\ status' = [status EXCEPT ![t] = Dead]
      /\ UNCHANGED <<pid_counter, next, family, cur_task, estatus, lost>>
  BY DEF mark, Runs, Context
<1>2. /\ Created' = Created /\ Created \subseteq Task /\ Main \in Created /\ t \in Created
  BY <1>1, CreatedFacts DEF TInv, KernelTypes, Created
<1>3. /\ At(t) = cpu /\ At(t)' = cpu' /\ \A s \in Created \ {t} : At(s)' = At(s)
  BY <1>1 DEF At
<1>4. t # Main
  BY <1>1, <1>3 DEF TInv, MainIsParent
<1>5. KernelTypes'
  BY <1>1, <1>2 DEF TInv, KernelTypes, family
<1>6. status'[t] = Dead /\ \A s \in Created \ {t} : status'[s] = status[s]
  BY <1>1, <1>2 DEF TInv, KernelTypes
<1>7. DeadAreEnding'
  BY <1>1, <1>2, <1>3, <1>6 DEF TInv, DeadAreEnding
<1>8. MainIsParent'
  BY <1>1, <1>2, <1>3, <1>4 DEF TInv, MainIsParent, family
<1>9. RegisterIsFresh'
  BY <1>1 DEF RegisterIsFresh
<1>10. ForkedCount' /\ CountLimits'
  <2>1. Ended' = Ended
    BY <1>1, <1>2, <1>3 DEF Ended
  <2>2. At(Main)' = At(Main)
    BY <1>2, <1>3, <1>4
  <2>3. Counted' = Counted
    BY <1>1, <2>2 DEF Counted, family
  <2>4. ForkedCount /\ CountLimits /\ UNCHANGED <<pid_counter, family, lost>>
    BY <1>1 DEF TInv
  <2> QED
    BY <2>1, <2>2, <2>3, <2>4, SameCounts
<1> QED
  BY <1>5, <1>7, <1>8, <1>9, <1>10 DEF TInv

(* A task takes itself off the count of main: by the store of exit, or in the
   exit system call.  While exec holds the count in a register, that is lost. *)
LEMMA DoneTInv ==
    ASSUME TInv, NEW t, t = cur_task,
           \/ cpu.at = "store" /\ cpu'.at = "halt" /\ status' = status
           \/ cpu.at = "program" /\ cpu'.at = "spin" /\ status' = [status EXCEPT ![t] = Dead],
           children_count' = [children_count EXCEPT ![parent[t]] = @ - 1], Overwritten(t),
           UNCHANGED <<pid_counter, next, parent, children, brothers, cur_task, estatus>>
    PROVE  TInv'
<1>1. /\ Created' = Created /\ Created \subseteq Task /\ Main \in Created /\ t \in Created
  BY CreatedFacts DEF TInv, KernelTypes, Created
<1>2. /\ At(t) = cpu /\ At(t)' = cpu' /\ \A s \in Created \ {t} : At(s)' = At(s)
  BY DEF At
<1>3. t # Main /\ parent[t] = Main
  BY <1>1, <1>2 DEF TInv, MainIsParent
<1>4. children_count' = [children_count EXCEPT ![Main] = @ - 1]
  BY <1>3
<1>5. KernelTypes'
  BY <1>1, <1>4 DEF TInv, KernelTypes
<1>6. status'[t] = Dead /\ \A s \in Created \ {t} : status'[s] = status[s]
  <2>1. CASE status' = [status EXCEPT ![t] = Dead]
    BY <1>1, <2>1 DEF TInv, KernelTypes
  <2>2. CASE cpu.at = "store" /\ status' = status
    BY <1>1, <1>2, <2>2 DEF TInv, DeadAreEnding
  <2> QED
    BY <2>1, <2>2
<1>7. DeadAreEnding'
  BY <1>1, <1>2, <1>6 DEF TInv, DeadAreEnding
<1>8. MainIsParent'
  BY <1>1, <1>2, <1>3 DEF TInv, MainIsParent
<1>9. RegisterIsFresh'
  BY DEF RegisterIsFresh
<1>10. ForkedCount' /\ CountLimits'
  <2>1. /\ IsFiniteSet(Ended) /\ Cardinality(Ended) \in Nat
        /\ IsFiniteSet(Ended \ lost) /\ Cardinality(Ended \ lost) \in Nat
        /\ Cardinality(ChildrenOf(Main)) \in Nat /\ Cardinality(ForkedChildren(Main)) \in Nat
        /\ children_count[Main] \in Int
    BY <1>1, SetsFinite DEF TInv, KernelTypes
  <2>2. Ended' = Ended \cup {t} /\ t \notin Ended /\ t \notin lost
    BY <1>1, <1>2 DEF Ended, TInv, CountLimits
  <2>3. Cardinality(Ended') = Cardinality(Ended) + 1
    BY <2>1, <2>2, AddOne
  <2>4. ChildrenOf(Main)' = ChildrenOf(Main) /\ ForkedChildren(Main)' = ForkedChildren(Main)
    BY <1>1 DEF ChildrenOf, ForkedChildren
  <2>5. children_count'[Main] = children_count[Main] - 1
    BY <1>1, <1>4 DEF TInv, KernelTypes
  <2>6. At(Main)' = At(Main)
    BY <1>1, <1>2, <1>3
  <2>7. Counted + Cardinality(Ended \ lost) =
            Cardinality(ChildrenOf(Main)) + Cardinality(ForkedChildren(Main))
    BY DEF TInv, ForkedCount
  <2>8. ForkedCount' /\ (lost \subseteq Ended)'
    <3>1. CASE At(Main).at = "count"
      <4>1. lost' = lost \cup {t}
        BY <3>1 DEF Overwritten
      <4>2. (Ended \ lost)' = Ended \ lost /\ (lost \subseteq Ended)'
        BY <2>2, <4>1 DEF TInv, CountLimits
      <4>3. Counted' = Counted
        BY <2>6, <3>1 DEF Counted
      <4> QED
        BY <2>4, <2>7, <4>2, <4>3 DEF ForkedCount
    <3>2. CASE At(Main).at # "count"
      <4>1. lost' = lost
        BY <3>2 DEF Overwritten
      <4>2. (Ended \ lost)' = (Ended \ lost) \cup {t} /\ t \notin Ended \ lost
            /\ (lost \subseteq Ended)'
        BY <2>2, <4>1 DEF TInv, CountLimits
      <4>3. Cardinality((Ended \ lost)') = Cardinality(Ended \ lost) + 1
        BY <2>1, <4>2, AddOne
      <4>4. Counted = children_count[Main] /\ Counted' = children_count'[Main]
        BY <2>6, <3>2 DEF Counted
      <4>5. Counted' + Cardinality((Ended \ lost)') =
                Cardinality(ChildrenOf(Main)') + Cardinality(ForkedChildren(Main)')
        BY <2>1, <2>4, <2>5, <2>7, <4>3, <4>4
      <4> QED
        BY <4>2, <4>5 DEF ForkedCount
    <3> QED
      BY <3>1, <3>2
  <2>9. Cardinality(ChildrenOf(Main)') + Cardinality(ForkedChildren(Main)')
            <= children_count'[Main] + Cardinality(Ended')
    <3>1. Cardinality(ChildrenOf(Main)) + Cardinality(ForkedChildren(Main))
              <= children_count[Main] + Cardinality(Ended)
      BY DEF TInv, CountLimits
    <3> QED
      BY <2>1, <2>3, <2>4, <2>5, <3>1
  <2>10. At(Main)'.at = "count" => At(Main)'.reg \in Int
    BY <2>6 DEF TInv, CountLimits
  <2> QED
    BY <2>8, <2>9, <2>10 DEF CountLimits
<1> QED
  BY <1>5, <1>7, <1>8, <1>9, <1>10 DEF TInv

LEMMA StutterTInv == TInv /\ UNCHANGED <<vars, lost>> => TInv'
<1> SUFFICES ASSUME TInv, UNCHANGED <<vars, lost>> PROVE TInv'
  OBVIOUS
<1>1. /\ Created' = Created /\ \A t : At(t)' = At(t)
      /\ UNCHANGED <<pid_counter, status, family, cpu, cur_task, estatus, lost>>
  BY DEF vars, Created, At
<1>2. KernelTypes' /\ DeadAreEnding' /\ MainIsParent' /\ RegisterIsFresh'
  BY <1>1 DEF family, TInv, KernelTypes, DeadAreEnding, MainIsParent, RegisterIsFresh
<1>3. Ended' = Ended /\ Counted' = Counted /\ At(Main)' = At(Main)
  BY <1>1 DEF Ended, Counted, family
<1>4. ForkedCount' /\ CountLimits'
  BY <1>1, <1>3, SameCounts DEF TInv
<1> QED
  BY <1>2, <1>4 DEF TInv

-----------------------------------------------------------------------------
(* Every step of the kernel's threads keeps the invariant. *)
LEMMA ThreadTInv == ASSUME TInv, NEW t \in Task, Thread(t) PROVE TInv'
<1>1. CASE yield(t)
  BY <1>1, SwitchTInv DEF yield
<1>2. CASE program_exit(t)
  <2>1. /\ t = cur_task /\ cpu.at = "program" /\ cpu'.at = "spin"
        /\ status' = [status EXCEPT ![t] = Dead]
        /\ children_count' = [children_count EXCEPT ![parent[t]] = @ - 1] /\ Overwritten(t)
        /\ UNCHANGED <<pid_counter, next, parent, children, brothers, cur_task, estatus>>
    BY <1>2 DEF program_exit, Runs, Context
  <2> QED
    BY <2>1, DoneTInv
<1>3. CASE kernel_wait(t) \/ wait_over(t) \/ kernel_exit(t)
  <2>1. /\ UNCHANGED <<pid_counter, next, status, family, cur_task, estatus, lost>>
        /\ cpu.at \in {"run", "wait"}
        /\ (cpu'.at \in {"run", "wait"} \/ (cur_task # Main /\ cpu'.at = "mark"))
    BY <1>3 DEF kernel_wait, wait_over, kernel_exit, Runs, GoTo, Context
  <2> QED
    BY <2>1, MoveTInv
<1>4. CASE mark(t)
  BY <1>4, MarkTInv
<1>5. CASE load(t)
  <2>1. /\ UNCHANGED <<pid_counter, next, status, family, cur_task, estatus, lost>>
        /\ cpu.at = "load" /\ cpu'.at = "store"
        /\ cpu'.reg = children_count[parent[cur_task]]
    BY <1>5 DEF load, Runs, Context
  <2> QED
    BY <2>1, MoveTInv
<1>6. CASE store(t)
  <2>1. /\ t = cur_task /\ cpu.at = "store" /\ cpu'.at = "halt" /\ status' = status
        /\ children_count' = [children_count EXCEPT ![parent[t]] = cpu.reg - 1]
        /\ Overwritten(t) /\ UNCHANGED <<pid_counter, next, parent, children, brothers, cur_task, estatus>>
    BY <1>6 DEF store, Runs, Context
  <2>2. cpu.reg = children_count[parent[t]]
    BY <2>1 DEF TInv, RegisterIsFresh
  <2>3. children_count' = [children_count EXCEPT ![parent[t]] = @ - 1]
    BY <2>1, <2>2
  <2> QED
    BY <2>1, <2>3, DoneTInv
<1>7. CASE task_take_message(t)
  <2>1. /\ UNCHANGED <<pid_counter, next, status, family, cur_task, estatus, lost>>
        /\ cpu.at = "run" /\ cpu'.at = "run"
    BY <1>7 DEF task_take_message, Runs, Context
  <2> QED
    BY <2>1, MoveTInv
<1>8. ASSUME NEW to \in Task, task_send_uint32_message(t, to) PROVE TInv'
  <2>1. /\ UNCHANGED <<pid_counter, next, status, family, cur_task, estatus, lost>>
        /\ cpu.at = "run" /\ cpu'.at = "run"
    BY <1>8 DEF task_send_uint32_message, Runs, Context
  <2> QED
    BY <2>1, MoveTInv
<1> QED
  BY <1>1, <1>2, <1>3, <1>4, <1>5, <1>6, <1>7, <1>8 DEF Thread

LEMMA NextTInv == TInv /\ [KNext]_kvars => TInv'
<1> SUFFICES ASSUME TInv, [KNext]_kvars PROVE TInv'
  OBVIOUS
<1>1. CASE tick
  BY <1>1, SwitchTInv DEF tick
<1>2. CASE kernel_fork
  <2>1. PICK context, brother, counted :
            context = Context("run", FALSE) /\ brother = pid_counter /\ counted = 2
    OBVIOUS
  <2>2. /\ cur_task = Main /\ cpu.at = "run" /\ cpu'.at = "run" /\ UNCHANGED <<cur_task, lost>>
        /\ CreateTask(pid_counter, context) /\ LinkChild(pid_counter, brother, counted)
    BY <1>2, <2>1 DEF kernel_fork, Runs, Context
  <2>3. context.at = "run"
    BY <2>1 DEF Context
  <2>4. Counted = children_count[Main]
    BY <2>2 DEF Counted, At
  <2>5. /\ parent' = [parent EXCEPT ![pid_counter] = Main]
        /\ brothers' = [brothers EXCEPT ![pid_counter] = brother]
        /\ children' = [children EXCEPT ![Main] = pid_counter]
        /\ children_count' = [children_count EXCEPT ![Main] = Counted + counted]
    BY <2>2, <2>4 DEF LinkChild
  <2> QED
    BY <2>1, <2>2, <2>3, <2>5, CreateTInv
<1>3. CASE kernel_exec_count
  <2>1. PICK context, brother, counted :
            context = Context("program", TRUE) /\ brother = children[Main] /\ counted = 1
    OBVIOUS
  <2>2. /\ cur_task = Main /\ cpu.at = "count" /\ cpu'.at = "run" /\ UNCHANGED <<cur_task, lost>>
        /\ CreateTask(pid_counter, context)
    BY <1>3, <2>1 DEF kernel_exec_count, Runs, Context
  <2>3. context.at = "program"
    BY <2>1 DEF Context
  <2>4. Counted = cpu.reg
    BY <2>2 DEF Counted, At
  <2>5. /\ parent' = [parent EXCEPT ![pid_counter] = Main]
        /\ brothers' = [brothers EXCEPT ![pid_counter] = brother]
        /\ children' = [children EXCEPT ![Main] = pid_counter]
        /\ children_count' = [children_count EXCEPT ![Main] = Counted + counted]
    BY <1>3, <2>1, <2>4 DEF kernel_exec_count
  <2> QED
    BY <2>1, <2>2, <2>3, <2>5, CreateTInv
<1>4. ASSUME NEW t \in Task, Thread(t) PROVE TInv'
  BY <1>4, ThreadTInv
<1>5. CASE kernel_exec
  <2>1. /\ UNCHANGED <<pid_counter, next, status, family, cur_task, estatus, lost>>
        /\ cpu.at = "run" /\ cur_task = Main
        /\ cpu'.at = "count" /\ cpu'.reg = children_count[Main]
    BY <1>5 DEF kernel_exec, Runs, Context
  <2> QED
    BY <2>1, MoveTInv
<1>6. CASE UNCHANGED kvars
  BY <1>6, StutterTInv DEF kvars
<1> QED
  BY <1>1, <1>2, <1>3, <1>4, <1>5, <1>6 DEF KNext

LEMMA ThreadsInvariance == KSpec => []TInv
BY InitTInv, NextTInv, PTL DEF KSpec

-----------------------------------------------------------------------------
(* What the decrement of exit stores is the count less one: whoever loaded the
   count and lost the processor never comes back to store it. *)
THEOREM FreshTheorem == KSpec => []RegisterIsFresh
<1>1. TInv => RegisterIsFresh
  BY DEF TInv
<1> QED
  BY <1>1, ThreadsInvariance, PTL

(* What main waits for to become zero: its children, the forked ones twice,
   less those that have taken themselves off, unless main's exec was at work. *)
THEOREM ForkedCountTheorem == KSpec => []ForkedCount
<1>1. TInv => ForkedCount
  BY DEF TInv
<1> QED
  BY <1>1, ThreadsInvariance, PTL

(* A count of zero leaves no live child: no forked child ever, and no executed
   one that has not ended. *)
LEMMA ZeroCount ==
    ASSUME TInv, NEW t \in Created, children_count[t] = 0, At(t).at # "count"
    PROVE  LiveChildren(t) = {}
<1>1. Main \in Created /\ Null \notin Task /\ Created \subseteq Task
  BY CreatedFacts DEF TInv
<1>2. CASE t # Main
  BY <1>1, <1>2 DEF TInv, MainIsParent, LiveChildren, ChildrenOf
<1>3. CASE t = Main
  <2>0. PICK told : told = Ended \ lost
    OBVIOUS
  <2>1. /\ IsFiniteSet(told) /\ Cardinality(told) \in Nat
        /\ IsFiniteSet(ChildrenOf(Main)) /\ Cardinality(ChildrenOf(Main)) \in Nat
        /\ Cardinality(ForkedChildren(Main)) \in Nat
    BY <2>0, SetsFinite DEF TInv
  <2>2. told \subseteq ChildrenOf(Main)
    <3>1. Main \notin Ended
      BY DEF TInv, MainIsParent, Ended
    <3> QED
      BY <2>0, <3>1 DEF TInv, MainIsParent, Ended, ChildrenOf
  <2>3. Cardinality(told) = Cardinality(ChildrenOf(Main)) + Cardinality(ForkedChildren(Main))
    BY <1>3, <2>0, <2>1 DEF TInv, ForkedCount, Counted
  <2>4. Cardinality(told) <= Cardinality(ChildrenOf(Main))
        /\ (Cardinality(told) = Cardinality(ChildrenOf(Main)) => told = ChildrenOf(Main))
    BY <2>1, <2>2, FS_Subset
  <2>5. told = ChildrenOf(Main)
    BY <2>1, <2>3, <2>4
  <2> QED
    BY <1>3, <2>0, <2>5 DEF TInv, DeadAreEnding, Ended, LiveChildren, ChildrenOf
<1> QED
  BY <1>2, <1>3

(* wait never ends while a child of the caller lives. *)
THEOREM WaitTheorem == KSpec => WaitOutlivesChildren
<1> DEFINE Outlives == \A t \in Created :
        At(t).at = "wait" /\ At(t)'.at # "wait" => LiveChildren(t) = {}
<1>1. TInv /\ [KNext]_kvars => [Outlives]_kvars
  <2> SUFFICES ASSUME TInv, KNext, NEW t \in Created, At(t).at = "wait", At(t)'.at # "wait"
               PROVE  LiveChildren(t) = {}
    OBVIOUS
  <2>0. /\ t \in Task /\ t # pid_counter /\ cur_task \in Task /\ DOMAIN estatus = Task
    BY CreatedFacts DEF TInv, KernelTypes
  <2>1. ASSUME task_switch PROVE FALSE
    BY <2>0, <2>1 DEF task_switch, At
  <2>2. ASSUME NEW context, CreateTask(pid_counter, context), cur_task' = cur_task,
               t = cur_task => cpu.at # "wait" PROVE FALSE
    BY <2>0, <2>2 DEF CreateTask, At
  <2>3. ASSUME t = cur_task, cpu.at # "wait" PROVE FALSE
    BY <2>3 DEF At
  <2>4. ASSUME t # cur_task, cur_task' = cur_task, estatus' = estatus PROVE FALSE
    BY <2>4 DEF At
  <2>5. ASSUME NEW u \in Task, Thread(u) PROVE LiveChildren(t) = {}
    <3>1. CASE yield(u)
      BY <2>1, <3>1 DEF yield
    <3>2. CASE wait_over(u) /\ t = cur_task
      BY <3>2, ZeroCount DEF wait_over, Runs, At
    <3>3. CASE ~ yield(u)
      <4>1. cur_task' = cur_task /\ estatus' = estatus /\ cur_task = u
            /\ (cpu.at # "wait" \/ wait_over(u))
        BY <2>5, <3>3 DEF Thread, program_exit, kernel_wait, wait_over, kernel_exit, mark, load,
                          store, task_take_message, task_send_uint32_message, GoTo, Runs
      <4> QED
        BY <2>3, <2>4, <3>2, <4>1
    <3> QED
      BY <3>1, <3>3
  <2>6. CASE tick
    BY <2>1, <2>6 DEF tick
  <2>7. CASE kernel_fork \/ kernel_exec_count
    BY <2>2, <2>7 DEF kernel_fork, kernel_exec_count, Runs
  <2>8. CASE kernel_exec
    BY <2>3, <2>4, <2>8 DEF kernel_exec, Runs
  <2>9. CASE UNCHANGED kvars
    BY <2>9 DEF kvars, vars, At
  <2> QED
    BY <2>5, <2>6, <2>7, <2>8, <2>9 DEF KNext
<1> QED
  BY <1>1, ThreadsInvariance, PTL DEF KSpec, WaitOutlivesChildren

-----------------------------------------------------------------------------
(* Types.  Only main has children; that its count stays a natural number rests
   on the ledger: no more threads have ended than main has children. *)
Contexts == [at : ThreadPlace, on : BOOLEAN, reg : Nat]

ContextTypes ==
    /\ mode \in {"run", "lost"}
    /\ estatus \in [Task -> Contexts] /\ cpu \in Contexts
    /\ \A t \in Task \ {Main} : children_count[t] = 0

LEMMA CountIsNat ==
    ASSUME TInv, ContextTypes PROVE children_count \in [Task -> Nat]
<1>1. children_count \in [Task -> Int] /\ Main \in Task
  BY CreatedFacts DEF TInv, KernelTypes
<1>2. /\ IsFiniteSet(Ended) /\ Cardinality(Ended) \in Nat
      /\ IsFiniteSet(ChildrenOf(Main)) /\ Cardinality(ChildrenOf(Main)) \in Nat
      /\ Cardinality(ForkedChildren(Main)) \in Nat
  BY SetsFinite DEF TInv
<1>3. Ended \subseteq ChildrenOf(Main)
  <2>1. Main \notin Ended
    BY DEF TInv, MainIsParent, Ended
  <2> QED
    BY <2>1 DEF TInv, MainIsParent, Ended, ChildrenOf
<1>4. Cardinality(Ended) <= Cardinality(ChildrenOf(Main))
  BY <1>2, <1>3, FS_Subset
<1>5. Cardinality(ChildrenOf(Main)) + Cardinality(ForkedChildren(Main))
          <= children_count[Main] + Cardinality(Ended)
  BY DEF TInv, CountLimits
<1>6. children_count[Main] \in Nat
  BY <1>1, <1>2, <1>4, <1>5
<1> QED
  BY <1>1, <1>6 DEF ContextTypes

LEMMA InitContexts == KInit => ContextTypes
<1> SUFFICES ASSUME KInit PROVE ContextTypes
  OBVIOUS
<1>1. Context("run", TRUE) \in Contexts
  BY DEF Context, Contexts, ThreadPlace
<1> QED
  BY <1>1 DEF KInit, init_multitask, ContextTypes

LEMMA ContextIsTyped ==
    ASSUME NEW place \in ThreadPlace, NEW flag \in BOOLEAN
    PROVE  Context(place, flag) \in Contexts
BY DEF Context, Contexts

LEMMA SwitchContexts == TInv /\ ContextTypes /\ task_switch /\ UNCHANGED mode => ContextTypes'
<1> SUFFICES ASSUME TInv, ContextTypes, task_switch, UNCHANGED mode PROVE ContextTypes'
  OBVIOUS
<1>1. PICK t \in Created :
        /\ estatus' = [estatus EXCEPT ![cur_task] = cpu]
        /\ cpu' = estatus'[t]
        /\ UNCHANGED family
  BY DEF task_switch
<1>2. Created \subseteq Task
  BY CreatedFacts DEF TInv
<1> QED
  BY <1>1, <1>2 DEF ContextTypes, family

LEMMA ThreadContexts ==
    ASSUME TInv, ContextTypes, NEW t \in Task, Thread(t) PROVE ContextTypes'
<1>1. CASE yield(t)
  BY <1>1, SwitchContexts DEF yield
<1>2. \A place \in ThreadPlace : Context(place, TRUE) \in Contexts
  BY ContextIsTyped
<1>3. {"run", "wait", "mark", "load", "store", "halt", "spin"} \subseteq ThreadPlace
  BY DEF ThreadPlace
<1>4. CASE \/ kernel_wait(t) \/ wait_over(t) \/ kernel_exit(t) \/ mark(t)
           \/ task_take_message(t)
  BY <1>2, <1>3, <1>4 DEF kernel_wait, wait_over, kernel_exit, mark, task_take_message, GoTo,
                          ContextTypes, family
<1>5. CASE \E to \in Task : task_send_uint32_message(t, to)
  BY <1>2, <1>3, <1>5 DEF task_send_uint32_message, Lose, ContextTypes, family
<1>6. CASE load(t)
  <2>1. /\ t = cur_task /\ At(t) = cpu /\ cpu.at = "load"
        /\ cpu' = [Context("store", TRUE) EXCEPT !.reg = children_count[parent[t]]]
        /\ UNCHANGED <<mode, estatus, children_count>>
    BY <1>6 DEF load, Runs, At, family
  <2>2. t \in Created /\ t # Main
    BY <2>1 DEF TInv, KernelTypes, MainIsParent
  <2>3. parent[t] = Main /\ Main \in Task
    BY <2>2, CreatedFacts DEF TInv, MainIsParent
  <2>4. PICK n : n = children_count[parent[t]]
    OBVIOUS
  <2>5. n \in Nat
    BY <2>3, <2>4, CountIsNat
  <2>6. cpu' \in Contexts
    BY <1>3, <2>1, <2>4, <2>5 DEF Context, Contexts
  <2> QED
    BY <2>1, <2>6 DEF ContextTypes
<1>7. CASE store(t) \/ program_exit(t)
  <2>1. /\ t = cur_task /\ At(t) = cpu /\ cpu.at \in {"store", "program"}
        /\ cpu' \in Contexts /\ UNCHANGED <<mode, estatus>>
        /\ \E n : children_count' = [children_count EXCEPT ![parent[t]] = n]
    BY <1>2, <1>3, <1>7 DEF store, program_exit, Runs, At
  <2>2. t \in Created /\ t # Main
    BY <2>1 DEF TInv, KernelTypes, MainIsParent
  <2>3. parent[t] = Main
    BY <2>2 DEF TInv, MainIsParent
  <2> QED
    BY <2>1, <2>3 DEF ContextTypes, TInv, KernelTypes
<1> QED
  BY <1>1, <1>4, <1>5, <1>6, <1>7 DEF Thread

LEMMA NextContexts == TInv /\ ContextTypes /\ [KNext]_kvars => ContextTypes'
<1> SUFFICES ASSUME TInv, ContextTypes, [KNext]_kvars PROVE ContextTypes'
  OBVIOUS
<1>1. CASE tick
  BY <1>1, SwitchContexts DEF tick
<1>2. CASE kernel_fork \/ kernel_exec_count
  <2>1. PICK context, n :
          /\ context \in Contexts
          /\ estatus' = [estatus EXCEPT ![pid_counter] = context]
          /\ children_count' = [children_count EXCEPT ![cur_task] = n]
          /\ cur_task = Main /\ UNCHANGED mode
          /\ cpu' = Context("run", TRUE)
    <3>1. Context("run", FALSE) \in Contexts /\ Context("program", TRUE) \in Contexts
      BY ContextIsTyped DEF ThreadPlace
    <3> QED
      BY <1>2, <3>1 DEF kernel_fork, kernel_exec_count, CreateTask, LinkChild, Runs
  <2>2. cpu' \in Contexts
    BY <2>1, ContextIsTyped DEF ContextTypes, ThreadPlace
  <2> QED
    BY <2>1, <2>2 DEF ContextTypes, TInv, KernelTypes
<1>3. ASSUME NEW t \in Task, Thread(t) PROVE ContextTypes'
  BY <1>3, ThreadContexts
<1>4. CASE kernel_exec
  <2>1. PICK n : n = children_count[Main]
    OBVIOUS
  <2>2. n \in Nat
    BY <2>1, CountIsNat, CreatedFacts DEF TInv
  <2>3. cpu' \in Contexts
    BY <1>4, <2>1, <2>2 DEF kernel_exec, Context, Contexts, ThreadPlace
  <2> QED
    BY <1>4, <2>3 DEF kernel_exec, ContextTypes, family
<1>5. CASE UNCHANGED kvars
  BY <1>5 DEF kvars, vars, family, ContextTypes
<1> QED
  BY <1>1, <1>2, <1>3, <1>4, <1>5 DEF KNext

LEMMA ContextsInvariance == KSpec => []ContextTypes
BY InitContexts, NextContexts, ThreadsInvariance, PTL DEF KSpec


-----------------------------------------------------------------------------
(* The messages.  A set of naturals has a least element, and what is true of 0
   and passes from each number to the next is true of all. *)
LEMMA Least ==
    ASSUME NEW S \in SUBSET Nat, S # {}
    PROVE  \E m \in S : \A k \in S : m <= k
<1>1. PICK m \in S : \A k \in S : ~ (<<k, m>> \in OpToRel(<, Nat))
  BY NatLessThanWellFounded, WFMin, Zenon
<1>2. \A k \in S : ~ (k < m)
  BY <1>1 DEF OpToRel
<1> QED
  BY <1>2

(* The equation of ListOf; two functions that satisfy it are the same one. *)
Follows(f, first) ==
    f = [k \in 1 .. allocated + 1 |->
            IF k = 1 THEN first
            ELSE IF f[k - 1] \in Message THEN mnext[f[k - 1]] ELSE f[k - 1]]

LEMMA OneList ==
    ASSUME allocated \in Nat, NEW first, NEW f, NEW g, Follows(f, first), Follows(g, first)
    PROVE  f = g
<1>0. PICK n \in Nat : n = allocated + 1
  OBVIOUS
<1>1. /\ f = [k \in 1 .. n |-> f[k]] /\ g = [k \in 1 .. n |-> g[k]]
      /\ \A k \in 1 .. n : k = 1 => f[k] = first /\ g[k] = first
      /\ \A k \in 1 .. n : k # 1 =>
            /\ f[k] = IF f[k - 1] \in Message THEN mnext[f[k - 1]] ELSE f[k - 1]
            /\ g[k] = IF g[k - 1] \in Message THEN mnext[g[k - 1]] ELSE g[k - 1]
  BY <1>0 DEF Follows
<1> DEFINE S == {k \in 1 .. n : f[k] # g[k]}
<1>2. ASSUME S # {} PROVE FALSE
  <2>1. PICK m \in S : \A k \in S : m <= k
    <3>1. S \in SUBSET Nat
      OBVIOUS
    <3> QED
      BY <1>2, <3>1, Least
  <2>2. m \in 1 .. n /\ f[m] # g[m]
    OBVIOUS
  <2>3. m # 1
    BY <1>1, <2>2
  <2>4. m - 1 \in 1 .. n /\ ~ (m <= m - 1)
    BY <2>2, <2>3
  <2>5. f[m - 1] = g[m - 1]
    BY <2>1, <2>4
  <2> QED
    BY <1>1, <2>2, <2>3, <2>5
<1>3. \A k \in 1 .. n : f[k] = g[k]
  BY <1>2
<1> QED
  BY <1>1, <1>3

(* q gives every task the messages its list holds: box, count and next pointers
   agree on them, no message is in two places, and what stands behind the last
   one is nothing or a word of the heap. *)
IsMail(q) ==
    /\ q \in [Task -> Seq(Message)]
    /\ \A t \in Task :
          /\ Len(q[t]) = message_count[t]
          /\ q[t] = <<>> => message_box[t] \in {Null, Wild}
          /\ q[t] # <<>> => message_box[t] = q[t][1] /\ mnext[q[t][Len(q[t])]] \in {Null, Wild}
          /\ \A k \in 1 .. Len(q[t]) : q[t][k] \in 1 .. allocated
          /\ \A k \in 1 .. Len(q[t]) - 1 : mnext[q[t][k]] = q[t][k + 1]
    /\ \A t, u \in Task : \A k \in 1 .. Len(q[t]), l \in 1 .. Len(q[u]) :
          q[t][k] = q[u][l] => t = u /\ k = l

MailInv ==
    /\ allocated \in 0 .. MaxMessages
    /\ mnext \in [Message -> Message \cup {Null, Wild}]
    /\ message_box \in [Task -> Message \cup {Null, Wild}]
    /\ message_count \in [Task -> Nat]
    /\ \E q : IsMail(q)

LEMMA MessageFacts == Message = 1 .. MaxMessages /\ MaxMessages \in Nat
                      /\ Null \notin Message /\ Wild \notin Message /\ Null # Wild
BY MessagesAssumption DEF Message, Null, Wild

(* A task never holds more messages than were ever allocated. *)
LEMMA FewMessages ==
    ASSUME NEW q, IsMail(q), allocated \in Nat, NEW t \in Task PROVE Len(q[t]) <= allocated
<1>1. q[t] \in Seq(Message) /\ Len(q[t]) \in Nat
  BY DEF IsMail
<1>2. SUFFICES ASSUME allocated < Len(q[t]) PROVE FALSE
  BY <1>1
<1>3. /\ IsFiniteSet(1 .. Len(q[t])) /\ Cardinality(1 .. Len(q[t])) = Len(q[t])
      /\ IsFiniteSet(1 .. allocated) /\ Cardinality(1 .. allocated) = allocated
  <2>1. /\ 1 \in Int /\ Len(q[t]) \in Int /\ allocated \in Int
        /\ (1 > Len(q[t]) => Len(q[t]) = 0) /\ (1 > allocated => allocated = 0)
    BY <1>1
  <2>2. /\ IsFiniteSet(1 .. Len(q[t]))
        /\ Cardinality(1 .. Len(q[t])) = IF 1 > Len(q[t]) THEN 0 ELSE Len(q[t]) - 1 + 1
    BY <2>1, FS_Interval
  <2>3. /\ IsFiniteSet(1 .. allocated)
        /\ Cardinality(1 .. allocated) = IF 1 > allocated THEN 0 ELSE allocated - 1 + 1
    BY <2>1, FS_Interval
  <2> QED
    BY <1>1, <2>1, <2>2, <2>3
<1> DEFINE f == [k \in 1 .. Len(q[t]) |-> q[t][k]]
<1>4. f \in [1 .. Len(q[t]) -> 1 .. allocated]
  <2>1. PICK s : s = q[t]
    OBVIOUS
  <2>2. \A k \in 1 .. Len(s) : s[k] \in 1 .. allocated
    BY <2>1 DEF IsMail
  <2>3. PICK g : g = [k \in 1 .. Len(s) |-> s[k]]
    OBVIOUS
  <2>4. g \in [1 .. Len(s) -> 1 .. allocated]
    BY <2>2, <2>3
  <2> QED
    BY <2>1, <2>3, <2>4, Zenon
<1> HIDE DEF f
<1>5. \E x, y \in 1 .. Len(q[t]) : x # y /\ f[x] = f[y]
  BY <1>2, <1>3, <1>4, FS_PigeonHole
<1> QED
  BY <1>5 DEF f, IsMail

(* Following the list gives the messages of q and then its end. *)
LEMMA ListIs ==
    ASSUME MailInv, NEW q, IsMail(q), NEW t \in Task
    PROVE  /\ Len(q[t]) \in Nat /\ Len(q[t]) <= allocated
           /\ \A k \in 1 .. Len(q[t]) : ListOf(t)[k] = q[t][k]
           /\ \A k \in Len(q[t]) + 1 .. allocated + 1 :
                 ListOf(t)[k] = IF q[t] = <<>> THEN message_box[t] ELSE mnext[q[t][Len(q[t])]]
<1>1. /\ allocated \in Nat /\ q[t] \in Seq(Message) /\ Len(q[t]) \in Nat
      /\ Len(q[t]) <= allocated
  <2>1. allocated \in Nat
    BY DEF MailInv
  <2>2. q[t] \in Seq(Message) /\ Len(q[t]) \in Nat
    BY DEF IsMail
  <2> QED
    BY <2>1, <2>2, FewMessages
<1>2. PICK end : end = IF q[t] = <<>> THEN message_box[t] ELSE mnext[q[t][Len(q[t])]]
  OBVIOUS
<1>3. end \notin Message
  BY <1>2, MessageFacts DEF IsMail
<1>4. PICK n : n = Len(q[t])
  OBVIOUS
<1>5. PICK f : f = [k \in 1 .. allocated + 1 |-> IF k <= n THEN q[t][k] ELSE end]
  OBVIOUS
<1>6. f = [k \in 1 .. allocated + 1 |->
             IF k = 1 THEN message_box[t]
             ELSE IF f[k - 1] \in Message THEN mnext[f[k - 1]] ELSE f[k - 1]]
  <2>1. SUFFICES ASSUME NEW k \in 1 .. allocated + 1
                 PROVE  f[k] = IF k = 1 THEN message_box[t]
                               ELSE IF f[k - 1] \in Message THEN mnext[f[k - 1]] ELSE f[k - 1]
    BY <1>5
  <2>2. CASE k = 1
    <3>1. q[t] = <<>> <=> n = 0
      BY <1>1, <1>4
    <3> QED
      BY <1>1, <1>2, <1>4, <1>5, <2>2, <3>1 DEF IsMail
  <2>3. CASE k # 1 /\ k <= n
    <3>1. k - 1 \in 1 .. Len(q[t]) - 1 /\ k - 1 \in 1 .. allocated + 1 /\ (k - 1) + 1 = k
      BY <1>1, <1>4, <2>3
    <3>2. mnext[q[t][k - 1]] = q[t][k]
      BY <3>1 DEF IsMail
    <3>3. f[k - 1] = q[t][k - 1] /\ f[k] = q[t][k] /\ q[t][k - 1] \in Message
      BY <1>1, <1>4, <1>5, <2>3, <3>1
    <3> QED
      BY <2>3, <3>2, <3>3
  <2>4. CASE k # 1 /\ k = n + 1
    <3>1. f[k] = end /\ f[k - 1] = q[t][n] /\ n \in 1 .. Len(q[t]) /\ q[t] # <<>>
      BY <1>1, <1>4, <1>5, <2>4
    <3>2. q[t][n] \in Message
      BY <1>1, <3>1
    <3> QED
      BY <1>2, <1>4, <2>4, <3>1, <3>2
  <2>5. CASE k # 1 /\ k > n + 1
    <3>1. k - 1 \in 1 .. allocated + 1 /\ ~ (k - 1 <= n) /\ ~ (k <= n)
      BY <1>1, <1>4, <2>5
    <3>2. f[k] = end /\ f[k - 1] = end
      BY <1>5, <3>1
    <3> QED
      BY <1>3, <2>5, <3>2
  <2> QED
    BY <1>1, <1>4, <2>2, <2>3, <2>4, <2>5
<1>7. PICK node : node = ListOf(t)
  OBVIOUS
<1>8. Follows(f, message_box[t])
  BY <1>6 DEF Follows
<1>9. Follows(node, message_box[t])
  BY <1>6, <1>7 DEF ListOf, Follows
<1>10. node = f
  BY <1>1, <1>8, <1>9, OneList
<1> QED
  BY <1>1, <1>2, <1>4, <1>5, <1>7, <1>10

(* What the box of a task holds is the queue. *)
LEMMA BoxIs ==
    ASSUME MailInv, NEW q, IsMail(q) PROVE [t \in Task |-> BoxOf(t)] = q
<1>1. SUFFICES ASSUME NEW t \in Task PROVE BoxOf(t) = q[t]
  BY DEF IsMail
<1>2. q[t] \in Seq(Message) /\ Len(q[t]) = message_count[t]
  BY DEF IsMail
<1>3. q[t] = [k \in 1 .. Len(q[t]) |-> q[t][k]]
  BY <1>2
<1>4. \A k \in 1 .. Len(q[t]) : ListOf(t)[k] = q[t][k]
  BY ListIs
<1> QED
  BY <1>2, <1>3, <1>4 DEF BoxOf

LEMMA InitMail == KInit => MailInv /\ IsMail([t \in Task |-> <<>>])
<1> SUFFICES ASSUME KInit PROVE MailInv /\ IsMail([t \in Task |-> <<>>])
  OBVIOUS
<1>1. IsMail([t \in Task |-> <<>>])
  BY DEF KInit, IsMail
<1> QED
  BY <1>1, MessageFacts DEF KInit, MailInv


(* A send that does not get lost puts its message behind the others. *)
LEMMA SendMail ==
    ASSUME MailInv, NEW q, IsMail(q), NEW t \in Task, NEW to \in Task,
           task_send_uint32_message(t, to), mail' # mail
    PROVE  MailInv' /\ \E m \in Message : IsMail([q EXCEPT ![to] = Append(@, m)])'
<1>1. PICK m, word : /\ word \in {Null, Wild} /\ m = allocated + 1 /\ allocated < MaxMessages
                     /\ EndOf(to) # Wild /\ Deliver(to, m, word)
                     /\ allocated' = m
                     /\ message_count' = [message_count EXCEPT ![to] = @ + 1]
  BY DEF task_send_uint32_message, Lose, mail
<1>2. PICK n, s : n = Len(q[to]) /\ s = q[to]
  OBVIOUS
<1>3. /\ n \in Nat /\ n <= allocated /\ allocated \in Nat /\ s \in Seq(Message) /\ n = Len(s)
      /\ q \in [Task -> Seq(Message)] /\ message_count[to] = n
      /\ (s = <<>> <=> n = 0)
  <2>1. n \in Nat /\ n <= allocated /\ allocated \in Nat
    BY <1>2, ListIs DEF MailInv
  <2>2. s \in Seq(Message) /\ n = Len(s) /\ q \in [Task -> Seq(Message)] /\ message_count[to] = n
    BY <1>2 DEF IsMail
  <2> QED
    BY <2>1, <2>2
<1>4. m \in Message /\ m \in Nat /\ \A u \in Task : \A k \in 1 .. Len(q[u]) : q[u][k] # m
                                                      /\ q[u][k] \in 1 .. m
  <2>1. m \in Message /\ m \in Nat
    BY <1>1, <1>3, MessageFacts
  <2>2. \A u \in Task : \A k \in 1 .. Len(q[u]) : q[u][k] \in 1 .. allocated
    BY DEF IsMail
  <2> QED
    BY <1>1, <1>3, <2>1, <2>2
<1>5. PICK q2 : q2 = [q EXCEPT ![to] = Append(@, m)]
  OBVIOUS
<1>6. /\ q2 \in [Task -> Seq(Message)]
      /\ q2[to] = Append(s, m) /\ Len(q2[to]) = n + 1 /\ q2[to] # <<>>
      /\ \A k \in 1 .. n : q2[to][k] = s[k]
      /\ q2[to][n + 1] = m
      /\ \A u \in Task \ {to} : q2[u] = q[u]
  <2>1. /\ Append(s, m) \in Seq(Message) /\ Len(Append(s, m)) = n + 1 /\ Append(s, m) # <<>>
        /\ \A k \in 1 .. n : Append(s, m)[k] = s[k]
        /\ Append(s, m)[n + 1] = m
    <3>1. /\ Append(s, m) \in Seq(Message) /\ Len(Append(s, m)) = n + 1
          /\ Append(s, m)[n + 1] = m
      BY <1>3, <1>4
    <3>2. \A k \in 1 .. n : Append(s, m)[k] = s[k]
      BY <1>3, <1>4
    <3>3. Append(s, m) # <<>>
      <4>1. PICK a : a = Append(s, m)
        OBVIOUS
      <4>2. Len(a) # 0
        BY <1>3, <3>1, <4>1
      <4> QED
        BY <4>1, <4>2
    <3> QED
      BY <3>1, <3>2, <3>3
  <2> QED
    BY <1>2, <1>3, <1>5, <2>1
<1>7. EndOf(to) = IF s = <<>> THEN message_box[to] ELSE mnext[s[n]]
  <2>1. allocated + 1 \in Len(q[to]) + 1 .. allocated + 1
    BY <1>2, <1>3
  <2> QED
    BY <1>2, <2>1, ListIs DEF EndOf
<1>8. /\ s = <<>> => message_box[to] = Null
      /\ s # <<>> => /\ mnext[s[n]] = Null /\ message_box[to] = s[1]
                     /\ s[n] \in Message /\ message_box[to] # Null
  <2>1. CASE s = <<>>
    BY <1>1, <1>2, <1>7, <2>1 DEF IsMail
  <2>2. CASE s # <<>>
    <3>1. 1 \in 1 .. n /\ n \in 1 .. n
      BY <1>3, <2>2
    <3>2. s[1] \in Message /\ s[n] \in Message
      BY <1>3, <3>1
    <3> QED
      BY <1>1, <1>2, <1>7, <2>2, <3>2, MessageFacts DEF IsMail
  <2> QED
    BY <2>1, <2>2
<1>9. ASSUME s # <<>> PROVE LastOf(to) = s[n]
  <2>1. n \in 1 .. allocated /\ ListOf(to)[n] = s[n]
    <3>1. n \in 1 .. Len(q[to]) /\ n \in 1 .. allocated
      BY <1>2, <1>3, <1>9
    <3> QED
      BY <1>2, <3>1, ListIs
  <2>2. ASSUME NEW w \in Message, mnext[w] = Null, NEW k \in 1 .. allocated, ListOf(to)[k] = w
        PROVE  w = s[n]
    <3>1. CASE k <= n
      <4>1. k \in 1 .. Len(q[to])
        BY <1>2, <1>3, <3>1
      <4>2. w = s[k]
        BY <1>2, <2>2, <4>1, ListIs
      <4>3. ASSUME k # n PROVE FALSE
        <5>1. k \in 1 .. Len(q[to]) - 1 /\ k + 1 \in 1 .. n
          BY <1>2, <1>3, <3>1, <4>3
        <5>2. mnext[s[k]] = s[k + 1]
          BY <1>2, <5>1 DEF IsMail
        <5>3. s[k + 1] \in Message
          BY <1>3, <5>1
        <5> QED
          BY <2>2, <4>2, <5>2, <5>3, MessageFacts
      <4> QED
        BY <4>2, <4>3
    <3>2. CASE ~ (k <= n)
      <4>1. k \in Len(q[to]) + 1 .. allocated + 1
        BY <1>2, <1>3, <3>2
      <4>2. w = mnext[s[n]]
        BY <1>2, <1>9, <2>2, <4>1, ListIs
      <4> QED
        BY <1>8, <1>9, <4>2, MessageFacts
    <3> QED
      BY <3>1, <3>2
  <2> QED
    BY <1>8, <1>9, <2>1, <2>2 DEF LastOf
<1>10. /\ mnext' \in [Message -> Message \cup {Null, Wild}]
       /\ mnext'[m] = word
       /\ s # <<>> => mnext'[s[n]] = m
       /\ \A w \in Message : w # m /\ (s # <<>> => w # s[n]) => mnext'[w] = mnext[w]
       /\ message_box' \in [Task -> Message \cup {Null, Wild}]
       /\ message_box'[to] = IF s = <<>> THEN m ELSE s[1]
       /\ \A u \in Task \ {to} : message_box'[u] = message_box[u]
  <2>1. /\ mnext \in [Message -> Message \cup {Null, Wild}]
        /\ message_box \in [Task -> Message \cup {Null, Wild}]
    BY DEF MailInv
  <2>2. CASE s = <<>>
    <3>1. /\ message_box' = [message_box EXCEPT ![to] = m]
          /\ mnext' = [mnext EXCEPT ![m] = word]
      BY <1>1, <1>8, <2>2 DEF Deliver
    <3> QED
      BY <1>1, <1>4, <2>1, <2>2, <3>1
  <2>3. CASE s # <<>>
    <3>1. /\ message_box' = message_box
          /\ mnext' = [mnext EXCEPT ![m] = word, ![s[n]] = m]
      BY <1>1, <1>8, <1>9, <2>3 DEF Deliver
    <3>2. n \in 1 .. n /\ s[n] # m
      BY <1>2, <1>3, <1>4, <2>3
    <3> QED
      BY <1>1, <1>4, <1>8, <2>1, <2>3, <3>1, <3>2
  <2> QED
    BY <2>2, <2>3
<1>11. message_count' \in [Task -> Nat] /\ message_count'[to] = n + 1
       /\ \A u \in Task \ {to} : message_count'[u] = message_count[u]
  BY <1>1, <1>3 DEF MailInv
<1>12. \A u \in Task : \A k \in 1 .. Len(q2[u]) : q2[u][k] \in 1 .. m
  <2>1. SUFFICES ASSUME NEW u \in Task, NEW k \in 1 .. Len(q2[u]) PROVE q2[u][k] \in 1 .. m
    OBVIOUS
  <2>2. CASE u # to
    BY <1>4, <1>6, <2>2
  <2>3. CASE u = to
    <3>1. k \in 1 .. n \/ k = n + 1
      BY <1>3, <1>6, <2>3
    <3>2. CASE k \in 1 .. n
      BY <1>2, <1>4, <1>6, <2>3, <3>2
    <3>3. m \in 1 .. m
      BY <1>4, MessageFacts
    <3> QED
      BY <1>6, <2>3, <3>1, <3>2, <3>3
  <2> QED
    BY <2>2, <2>3
<1>13. ASSUME NEW u \in Task, u # to
       PROVE  /\ q2[u] = <<>> => message_box'[u] \in {Null, Wild}
              /\ q2[u] # <<>> =>
                    message_box'[u] = q2[u][1] /\ mnext'[q2[u][Len(q2[u])]] \in {Null, Wild}
              /\ \A k \in 1 .. Len(q2[u]) - 1 : mnext'[q2[u][k]] = q2[u][k + 1]
              /\ Len(q2[u]) = message_count'[u]
  <2>1. /\ q2[u] = q[u] /\ message_box'[u] = message_box[u]
        /\ message_count'[u] = message_count[u]
    BY <1>6, <1>10, <1>11, <1>13
  <2>2. \A k \in 1 .. Len(q[u]) : mnext'[q[u][k]] = mnext[q[u][k]]
    <3>1. SUFFICES ASSUME NEW k \in 1 .. Len(q[u]) PROVE mnext'[q[u][k]] = mnext[q[u][k]]
      OBVIOUS
    <3>2. q[u][k] \in Message /\ q[u][k] # m
      BY <1>3, <1>4
    <3>3. s # <<>> => q[u][k] # s[n]
      <4>1. s # <<>> => n \in 1 .. Len(q[to])
        BY <1>2, <1>3
      <4> QED
        BY <1>2, <1>13, <4>1 DEF IsMail
    <3> QED
      BY <1>10, <3>2, <3>3
  <2>3. /\ q[u] \in Seq(Message)
        /\ \A k \in 1 .. Len(q[u]) - 1 : k \in 1 .. Len(q[u])
        /\ q[u] # <<>> => Len(q[u]) \in 1 .. Len(q[u])
    BY <1>3
  <2>4. /\ Len(q[u]) = message_count[u]
        /\ q[u] = <<>> => message_box[u] \in {Null, Wild}
        /\ q[u] # <<>> => message_box[u] = q[u][1] /\ mnext[q[u][Len(q[u])]] \in {Null, Wild}
        /\ \A k \in 1 .. Len(q[u]) - 1 : mnext[q[u][k]] = q[u][k + 1]
    BY DEF IsMail
  <2>5. \A k \in 1 .. Len(q[u]) - 1 : mnext'[q[u][k]] = q[u][k + 1]
    BY <2>2, <2>3, <2>4
  <2>6. q[u] # <<>> => mnext'[q[u][Len(q[u])]] \in {Null, Wild}
    BY <2>2, <2>3, <2>4
  <2> QED
    BY <2>1, <2>4, <2>5, <2>6
<1>14. /\ message_box'[to] = q2[to][1] /\ mnext'[q2[to][n + 1]] \in {Null, Wild}
       /\ \A k \in 1 .. n : mnext'[q2[to][k]] = q2[to][k + 1]
  <2>1. message_box'[to] = q2[to][1]
    <3>1. CASE s = <<>>
      BY <1>3, <1>6, <1>10, <3>1
    <3>2. CASE s # <<>>
      <4>1. 1 \in 1 .. n
        BY <1>3, <3>2
      <4> QED
        BY <1>6, <1>10, <3>2, <4>1
    <3> QED
      BY <3>1, <3>2
  <2>2. ASSUME NEW k \in 1 .. n PROVE mnext'[q2[to][k]] = q2[to][k + 1]
    <3>1. s # <<>> /\ n \in 1 .. n
      BY <1>3, <2>2
    <3>2. CASE k = n
      BY <1>6, <1>10, <3>1, <3>2
    <3>3. CASE k # n
      <4>1. k \in 1 .. Len(q[to]) - 1 /\ k + 1 \in 1 .. n
        BY <1>2, <1>3, <3>3
      <4>2. s[k] # s[n]
        BY <1>2, <3>1, <3>3 DEF IsMail
      <4>3. s[k] \in Message /\ s[k] # m
        BY <1>2, <1>3, <1>4
      <4>4. mnext'[s[k]] = s[k + 1]
        BY <1>2, <1>10, <4>1, <4>2, <4>3 DEF IsMail
      <4> QED
        BY <1>6, <4>1, <4>4
    <3> QED
      BY <3>2, <3>3
  <2> QED
    BY <1>1, <1>6, <1>10, <2>1, <2>2
<1>15. ASSUME NEW u \in Task, NEW v \in Task, NEW k \in 1 .. Len(q2[u]), NEW l \in 1 .. Len(q2[v]),
              q2[u][k] = q2[v][l]
       PROVE  u = v /\ k = l
  <2>1. ASSUME NEW x \in Task, NEW i \in 1 .. Len(q2[x])
        PROVE  \/ i \in 1 .. Len(q[x]) /\ q2[x][i] = q[x][i] /\ q2[x][i] # m
               \/ x = to /\ i = n + 1 /\ q2[x][i] = m
    <3>1. CASE x # to
      BY <1>4, <1>6, <3>1
    <3>2. CASE x = to
      <4>1. i \in 1 .. n \/ i = n + 1
        BY <1>3, <1>6, <3>2
      <4> QED
        BY <1>2, <1>4, <1>6, <3>2, <4>1
    <3> QED
      BY <3>1, <3>2
  <2>2. \/ k \in 1 .. Len(q[u]) /\ q2[u][k] = q[u][k] /\ q2[u][k] # m
        \/ u = to /\ k = n + 1 /\ q2[u][k] = m
    BY <2>1
  <2>3. \/ l \in 1 .. Len(q[v]) /\ q2[v][l] = q[v][l] /\ q2[v][l] # m
        \/ v = to /\ l = n + 1 /\ q2[v][l] = m
    BY <2>1
  <2> QED
    BY <1>15, <2>2, <2>3 DEF IsMail
<1>16. IsMail(q2)'
  <2>1. \A u \in Task :
          /\ Len(q2[u]) = message_count'[u]
          /\ q2[u] = <<>> => message_box'[u] \in {Null, Wild}
          /\ q2[u] # <<>> =>
                message_box'[u] = q2[u][1] /\ mnext'[q2[u][Len(q2[u])]] \in {Null, Wild}
          /\ \A k \in 1 .. Len(q2[u]) - 1 : mnext'[q2[u][k]] = q2[u][k + 1]
    <3>1. SUFFICES ASSUME NEW u \in Task PROVE
          /\ Len(q2[u]) = message_count'[u]
          /\ q2[u] = <<>> => message_box'[u] \in {Null, Wild}
          /\ q2[u] # <<>> =>
                message_box'[u] = q2[u][1] /\ mnext'[q2[u][Len(q2[u])]] \in {Null, Wild}
          /\ \A k \in 1 .. Len(q2[u]) - 1 : mnext'[q2[u][k]] = q2[u][k + 1]
      OBVIOUS
    <3>2. CASE u # to
      BY <1>13, <3>2
    <3>3. CASE u = to
      <4>1. (n + 1) - 1 = n
        BY <1>3
      <4> QED
        BY <1>6, <1>11, <1>14, <3>3, <4>1
    <3> QED
      BY <3>2, <3>3
  <2>2. \A u \in Task : \A k \in 1 .. Len(q2[u]) : q2[u][k] \in 1 .. allocated'
    BY <1>1, <1>12
  <2> QED
    BY <1>6, <1>15, <2>1, <2>2 DEF IsMail
<1>17. allocated' \in 0 .. MaxMessages
  BY <1>1, <1>3, MessageFacts
<1> QED
  BY <1>4, <1>5, <1>10, <1>11, <1>16, <1>17 DEF MailInv


(* A take moves the box on to the second message. *)
LEMMA TakeMail ==
    ASSUME MailInv, NEW q, IsMail(q), NEW t \in Task, task_take_message(t), mail' # mail
    PROVE  MailInv' /\ q[t] # <<>> /\ IsMail([q EXCEPT ![t] = Tail(@)])'
<1>1. /\ message_count[t] # 0
      /\ message_box' = [message_box EXCEPT ![t] = mnext[@]]
      /\ message_count' = [message_count EXCEPT ![t] = @ - 1]
      /\ allocated' = allocated /\ mnext' = mnext
  BY DEF task_take_message, mail
<1>2. PICK n, s : n = Len(q[t]) /\ s = q[t]
  OBVIOUS
<1>3. /\ n \in Nat /\ s \in Seq(Message) /\ n = Len(s) /\ message_count[t] = n
      /\ q \in [Task -> Seq(Message)] /\ s # <<>> /\ n > 0
  BY <1>1, <1>2 DEF IsMail, MailInv
<1>4. PICK q2 : q2 = [q EXCEPT ![t] = Tail(@)]
  OBVIOUS
<1>5. /\ q2 \in [Task -> Seq(Message)]
      /\ q2[t] = Tail(s) /\ Len(q2[t]) = n - 1
      /\ \A k \in 1 .. n - 1 : q2[t][k] = s[k + 1]
      /\ q2[t] = <<>> <=> n = 1
      /\ \A u \in Task \ {t} : q2[u] = q[u]
  <2>1. /\ Tail(s) \in Seq(Message) /\ Len(Tail(s)) = n - 1
        /\ \A k \in 1 .. n - 1 : Tail(s)[k] = s[k + 1]
    BY <1>3
  <2>2. Tail(s) = <<>> <=> n = 1
    BY <1>3, <2>1
  <2> QED
    BY <1>2, <1>3, <1>4, <2>1, <2>2
<1>6. /\ mnext \in [Message -> Message \cup {Null, Wild}]
      /\ message_box \in [Task -> Message \cup {Null, Wild}]
      /\ message_count \in [Task -> Nat]
  BY DEF MailInv
<1>7. /\ message_box[t] = s[1] /\ s[1] \in Message /\ mnext[s[n]] \in {Null, Wild}
      /\ \A k \in 1 .. n - 1 : mnext[s[k]] = s[k + 1]
      /\ \A k \in 1 .. n : s[k] \in 1 .. allocated
  <2>1. 1 \in 1 .. n
    BY <1>3
  <2> QED
    BY <1>2, <1>3, <2>1 DEF IsMail
<1>8. /\ message_box' \in [Task -> Message \cup {Null, Wild}]
      /\ message_count' \in [Task -> Nat]
      /\ message_box'[t] = mnext[s[1]] /\ message_count'[t] = n - 1
      /\ \A u \in Task \ {t} : message_box'[u] = message_box[u]
                               /\ message_count'[u] = message_count[u]
  <2>1. mnext[s[1]] \in Message \cup {Null, Wild} /\ n - 1 \in Nat
    BY <1>3, <1>6, <1>7
  <2> QED
    BY <1>1, <1>3, <1>6, <1>7, <2>1
<1>9. /\ q2[t] = <<>> => message_box'[t] \in {Null, Wild}
      /\ q2[t] # <<>> => message_box'[t] = q2[t][1] /\ mnext'[q2[t][n - 1]] \in {Null, Wild}
      /\ \A k \in 1 .. n - 1 : q2[t][k] \in 1 .. allocated
      /\ \A k \in 1 .. (n - 1) - 1 : mnext'[q2[t][k]] = q2[t][k + 1]
  <2>1. CASE n = 1
    BY <1>5, <1>7, <1>8, <2>1
  <2>2. CASE n # 1
    <3>1. /\ 1 \in 1 .. n - 1 /\ n - 1 \in 1 .. n - 1 /\ (n - 1) + 1 = n
      BY <1>3, <2>2
    <3>2. q2[t][1] = s[1 + 1] /\ mnext[s[1]] = s[1 + 1] /\ q2[t][n - 1] = s[n]
      BY <1>5, <1>7, <3>1
    <3>3. \A k \in 1 .. (n - 1) - 1 : mnext[q2[t][k]] = q2[t][k + 1]
      <4>1. SUFFICES ASSUME NEW k \in 1 .. (n - 1) - 1 PROVE mnext[q2[t][k]] = q2[t][k + 1]
        OBVIOUS
      <4>2. k \in 1 .. n - 1 /\ k + 1 \in 1 .. n - 1
        BY <1>3
      <4> QED
        BY <1>5, <1>7, <4>2
    <3>4. \A k \in 1 .. n - 1 : k + 1 \in 1 .. n
      BY <1>3
    <3> QED
      BY <1>1, <1>5, <1>7, <1>8, <2>2, <3>2, <3>3, <3>4
  <2> QED
    BY <2>1, <2>2
<1>10. ASSUME NEW u \in Task, NEW v \in Task, NEW k \in 1 .. Len(q2[u]), NEW l \in 1 .. Len(q2[v]),
              q2[u][k] = q2[v][l]
       PROVE  u = v /\ k = l
  <2>1. ASSUME NEW x \in Task, NEW i \in 1 .. Len(q2[x])
        PROVE  \/ x # t /\ i \in 1 .. Len(q[x]) /\ q2[x][i] = q[x][i]
               \/ x = t /\ i + 1 \in 1 .. Len(q[x]) /\ q2[x][i] = q[x][i + 1]
    <3>1. CASE x # t
      BY <1>5, <3>1
    <3>2. CASE x = t
      <4>1. i \in 1 .. n - 1
        BY <1>5, <3>2
      <4>2. i + 1 \in 1 .. n
        BY <1>3, <4>1
      <4> QED
        BY <1>2, <1>5, <3>2, <4>1, <4>2
    <3> QED
      BY <3>1, <3>2
  <2>2. \/ u # t /\ k \in 1 .. Len(q[u]) /\ q2[u][k] = q[u][k]
        \/ u = t /\ k + 1 \in 1 .. Len(q[u]) /\ q2[u][k] = q[u][k + 1]
    BY <2>1
  <2>3. \/ v # t /\ l \in 1 .. Len(q[v]) /\ q2[v][l] = q[v][l]
        \/ v = t /\ l + 1 \in 1 .. Len(q[v]) /\ q2[v][l] = q[v][l + 1]
    BY <2>1
  <2>4. k \in Int /\ l \in Int
    OBVIOUS
  <2>5. \A x, y \in Task : \A i \in 1 .. Len(q[x]), j \in 1 .. Len(q[y]) :
            q[x][i] = q[y][j] => x = y /\ i = j
    BY DEF IsMail
  <2> QED
    BY <1>10, <2>2, <2>3, <2>4, <2>5
<1>11. IsMail(q2)'
  <2>1. ASSUME NEW u \in Task
        PROVE  /\ Len(q2[u]) = message_count'[u]
               /\ q2[u] = <<>> => message_box'[u] \in {Null, Wild}
               /\ q2[u] # <<>> =>
                     message_box'[u] = q2[u][1] /\ mnext'[q2[u][Len(q2[u])]] \in {Null, Wild}
               /\ \A k \in 1 .. Len(q2[u]) : q2[u][k] \in 1 .. allocated'
               /\ \A k \in 1 .. Len(q2[u]) - 1 : mnext'[q2[u][k]] = q2[u][k + 1]
    <3>1. CASE u = t
      BY <1>1, <1>5, <1>8, <1>9, <3>1
    <3>2. CASE u # t
      BY <1>1, <1>5, <1>8, <3>2 DEF IsMail
    <3> QED
      BY <3>1, <3>2
  <2> QED
    BY <1>5, <1>10, <2>1 DEF IsMail
<1> QED
  BY <1>1, <1>2, <1>3, <1>4, <1>8, <1>11 DEF MailInv

(* A step that touches no message keeps every box. *)
LEMMA SameMail == ASSUME MailInv, UNCHANGED mail PROVE MailInv' /\ \A q : IsMail(q) => IsMail(q)'
<1>1. \A q : IsMail(q) => IsMail(q)'
  BY DEF mail, IsMail
<1> QED
  BY <1>1 DEF mail, MailInv

(* Every step either leaves the boxes alone, or sends or takes one message. *)
LEMMA MailStep ==
    ASSUME MailInv, [KNext]_kvars
    PROVE  \/ UNCHANGED mail
           \/ \E t, to \in Task : task_send_uint32_message(t, to)
           \/ \E t \in Task : task_take_message(t)
<1>1. CASE tick \/ kernel_fork \/ kernel_exec \/ kernel_exec_count
  BY <1>1 DEF tick, kernel_fork, kernel_exec, kernel_exec_count
<1>2. ASSUME NEW t \in Task, Thread(t)
      PROVE  \/ UNCHANGED mail
             \/ \E to \in Task : task_send_uint32_message(t, to)
             \/ task_take_message(t)
  BY <1>2 DEF Thread, yield, program_exit, kernel_wait, wait_over, kernel_exit, mark, load, store,
              GoTo
<1>3. CASE UNCHANGED kvars
  BY <1>3 DEF kvars
<1> QED
  BY <1>1, <1>2, <1>3 DEF KNext

LEMMA BoxIsNext ==
    ASSUME NEW CONSTANT q
    PROVE  (MailInv /\ IsMail(q))' => ([t \in Task |-> BoxOf(t)] = q)'
<1>1. MailInv /\ IsMail(q) => [t \in Task |-> BoxOf(t)] = q
  BY BoxIs
<1> QED
  BY <1>1, PTL

LEMMA NextMail ==
    ASSUME MailInv, [KNext]_kvars PROVE MailInv' /\ [Boxes!Next]_[t \in Task |-> BoxOf(t)]
<1>1. PICK q : IsMail(q)
  BY DEF MailInv
<1>2. [t \in Task |-> BoxOf(t)] = q
  BY <1>1, BoxIs
<1>3. ASSUME MailInv', NEW r, IsMail(r)' PROVE [t \in Task |-> BoxOf(t)]' = r
  BY <1>3, BoxIsNext
<1>4. CASE UNCHANGED mail
  <2>1. MailInv' /\ IsMail(q)'
    BY <1>1, <1>4, SameMail
  <2> QED
    BY <1>2, <1>3, <2>1
<1>5. ASSUME NEW t \in Task, NEW to \in Task, task_send_uint32_message(t, to), mail' # mail
      PROVE  MailInv' /\ [Boxes!Next]_[u \in Task |-> BoxOf(u)]
  <2>1. MailInv' /\ \E m \in Message : IsMail([q EXCEPT ![to] = Append(@, m)])'
    BY <1>1, <1>5, SendMail
  <2>2. PICK m, r : m \in Message /\ r = [q EXCEPT ![to] = Append(@, m)] /\ IsMail(r)'
    BY <2>1
  <2>3. [u \in Task |-> BoxOf(u)]' = r
    BY <1>3, <2>1, <2>2
  <2>4. Boxes!Send(to, m)
    BY <1>2, <2>2, <2>3 DEF Boxes!Send
  <2>5. MailInv'
    BY <2>1
  <2> QED
    BY <2>2, <2>4, <2>5 DEF Boxes!Next
<1>6. ASSUME NEW t \in Task, task_take_message(t), mail' # mail
      PROVE  MailInv' /\ [Boxes!Next]_[u \in Task |-> BoxOf(u)]
  <2>1. MailInv' /\ q[t] # <<>> /\ IsMail([q EXCEPT ![t] = Tail(@)])'
    BY <1>1, <1>6, TakeMail
  <2>2. PICK r : r = [q EXCEPT ![t] = Tail(@)] /\ IsMail(r)'
    BY <2>1
  <2>3. [u \in Task |-> BoxOf(u)]' = r
    BY <1>3, <2>1, <2>2
  <2> QED
    BY <1>2, <2>1, <2>2, <2>3 DEF Boxes!Next, Boxes!Take
<1> QED
  BY <1>4, <1>5, <1>6, MailStep

LEMMA MailInvariance == KSpec => []MailInv
<1>1. KInit => MailInv
  BY InitMail
<1>2. MailInv /\ [KNext]_kvars => MailInv'
  BY NextMail
<1> QED
  BY <1>1, <1>2, PTL DEF KSpec

(* The linked lists of the kernel, with their counts and their next pointers
   nobody sets, act like one queue per task, for any number of tasks and of
   messages and wherever the ticks fall. *)
THEOREM MailTheorem == KSpec => MailSpec
<1>1. KInit => Boxes!Init
  <2> SUFFICES ASSUME KInit PROVE Boxes!Init
    OBVIOUS
  <2>1. PICK q : q = [t \in Task |-> <<>>]
    OBVIOUS
  <2>2. [t \in Task |-> BoxOf(t)] = q
    BY <2>1, InitMail, BoxIs
  <2> QED
    BY <2>1, <2>2 DEF Boxes!Init
<1>2. MailInv /\ [KNext]_kvars => [Boxes!Next]_[t \in Task |-> BoxOf(t)]
  BY NextMail
<1> QED
  BY <1>1, <1>2, MailInvariance, PTL DEF KSpec, MailSpec, Boxes!Spec

(* The threads' variables stay in their types: contexts at the places of the
   code, counts that never go below zero, and pointers that lead to messages. *)
THEOREM KTypeCorrect == KSpec => []KTypeOK
<1>1. TInv /\ ContextTypes /\ MailInv => KTypeOK
  <2> SUFFICES ASSUME TInv, ContextTypes, MailInv PROVE KTypeOK
    OBVIOUS
  <2>1. children_count \in [Task -> Nat]
    BY CountIsNat
  <2>2. \A t \in Task : At(t) \in [at : ThreadPlace, on : BOOLEAN, reg : Nat]
    BY DEF ContextTypes, Contexts, At
  <2> QED
    BY <2>1, <2>2 DEF TInv, KernelTypes, ContextTypes, MailInv, KTypeOK
<1> QED
  BY <1>1, ThreadsInvariance, ContextsInvariance, MailInvariance, PTL

=============================================================================
