--------------------------- MODULE TaskOwnProofs ----------------------------
(***************************************************************************)
(* Proofs about what the tasks of Task own and what wait and wait_nb       *)
(* answer, for any number of slots, ids, stacks, waiters and failures.     *)
(* Only four things can happen to the table: the processor changes hands,  *)
(* a task ends, a task detaches, a slot is given a task (or fails to be).  *)
(* Each handler is shown to do one of them; what each of them leaves alone *)
(* is all the later proofs need to know of it.                             *)
(***************************************************************************)
EXTENDS TaskProofs

(* What the ownership of a slot's task comes down to.                      *)
Owns(s) ==
    /\ Live(s) => /\ tasks[s].kernel_stack \in heap
                  /\ tasks[s].page_dir = tasks[s].id
                  /\ tasks[s].fd_table
    /\ tasks[s].state = "TERMINATED" => tasks[s].page_dir = 0
    /\ tasks[s].id = 0 => tasks[s].kernel_stack = NoStack

OwnInv ==
    fd_failures = 0 =>
        /\ \A s \in Slots : Owns(s)
        /\ \A s, t \in Slots :
              s # t /\ tasks[s].kernel_stack = tasks[t].kernel_stack
                  => tasks[s].kernel_stack = NoStack
        /\ heap = {tasks[s].kernel_stack : s \in Slots} \ {NoStack}
        /\ spaces = {tasks[s].page_dir : s \in Slots} \ {0}

Runnable(s) == tasks[s].state \in {"READY", "RUNNING"}

(* Nothing of the task in slot s but its turn on the processor changes.    *)
SameOwner(s) ==
    /\ tasks'[s].id = tasks[s].id
    /\ tasks'[s].kernel_stack = tasks[s].kernel_stack
    /\ tasks'[s].page_dir = tasks[s].page_dir
    /\ tasks'[s].fd_table = tasks[s].fd_table
    /\ tasks'[s].state = "TERMINATED" <=> tasks[s].state = "TERMINATED"

SameAnswer(s) ==
    /\ tasks'[s].id = tasks[s].id
    /\ tasks'[s].exit_code = tasks[s].exit_code
    /\ tasks'[s].detached = tasks[s].detached
    /\ tasks'[s].state = "TERMINATED" <=> tasks[s].state = "TERMINATED"

SameTask(s) == SameOwner(s) /\ SameAnswer(s)

SameWait(s) ==
    /\ frame'[s].at = frame[s].at
    /\ frame'[s].task_id = frame[s].task_id
    /\ frame'[s].child = frame[s].child

GoesOn(s) == SameWait(s) /\ (Runnable(s)' => Runnable(s))

StartsToWait(s) == frame'[s].task_id < next_task_id /\ ~Runnable(s)'

(* The processor changes hands, or a handler starts or ends.               *)
Switches ==
    /\ \A s \in Slots : SameTask(s)
    /\ \A s \in Slots : frame'[s].at = "wait" => GoesOn(s) \/ StartsToWait(s)
    /\ UNCHANGED <<heap, spaces, answer, fd_failures, next_task_id>>

(* Task t ends with that code, and its waiters wake.                       *)
Ends(t, code) ==
    /\ t \in Slots /\ tasks[t].id # 0 /\ tasks[t].state # "TERMINATED"
    /\ \A s \in Slots : s # t => SameTask(s)
    /\ tasks'[t].id = tasks[t].id /\ tasks'[t].detached = tasks[t].detached
    /\ tasks'[t].kernel_stack = tasks[t].kernel_stack
    /\ tasks'[t].page_dir = 0 /\ tasks'[t].exit_code = code
    /\ tasks'[t].state = "TERMINATED"
    /\ \A s \in Slots : s # t /\ Runnable(s)' =>
          \/ Runnable(s)
          \/ (tasks[s].state = "BLOCKED" /\ tasks[s].waiting_for = tasks[t].id)
    /\ \A s \in Slots : SameWait(s) \/ (s = t /\ frame'[s].at = "user")
    /\ spaces' = spaces \ {tasks[t].page_dir}
    /\ answer' = Answered(tasks[t].id, code)
    /\ UNCHANGED <<heap, fd_failures, next_task_id>>

(* The current task detaches, and its waiters wake.                        *)
Detaches(t) ==
    /\ t \in Slots /\ tasks[t].id # 0 /\ tasks[t].state # "TERMINATED"
    /\ \A s \in Slots : s # t => SameTask(s)
    /\ tasks'[t].id = tasks[t].id /\ tasks'[t].detached
    /\ tasks'[t].kernel_stack = tasks[t].kernel_stack
    /\ tasks'[t].page_dir = tasks[t].page_dir
    /\ tasks'[t].fd_table = tasks[t].fd_table
    /\ tasks'[t].state = tasks[t].state
    /\ \A s \in Slots : Runnable(s)' =>
          \/ Runnable(s)
          \/ (tasks[s].state = "BLOCKED" /\ tasks[s].waiting_for = tasks[t].id)
    /\ answer' = [answer EXCEPT ![tasks[t].id] = Detached]
    /\ UNCHANGED <<frame, heap, spaces, fd_failures, next_task_id>>

(* Slot t, free until now, is given a task or found unable to hold it.     *)
Creates(t, b, loaded) ==
    /\ t \in Slots
    /\ tasks[t].state = "TERMINATED" \/ tasks[t].id = 0
    /\ \A s \in Slots : s # t => SameTask(s) /\ tasks'[s].state = tasks[s].state
    /\ tasks'[t].id = next_task_id /\ ~tasks'[t].detached
    /\ tasks'[t].kernel_stack = b /\ tasks'[t].page_dir = next_task_id
    /\ loaded => tasks'[t].fd_table /\ tasks'[t].state = "READY"
    /\ ~loaded => tasks'[t].state = "TERMINATED"
    /\ \A s \in Slots : s # t => frame'[s] = frame[s]
    /\ IF loaded THEN frame'[t] = UserCode ELSE frame'[t] = frame[t]
    /\ b \in Stacks \ HeapReclaimed(t)
    /\ IF loaded THEN /\ heap' = HeapReclaimed(t) \cup {b}
                      /\ spaces' = spaces \cup {next_task_id}
                      /\ fd_failures' = fd_failures
                 ELSE fd_failures' # 0
    /\ next_task_id <= MaxId /\ next_task_id' = next_task_id + 1
    /\ UNCHANGED answer

(* The slot search alone: the leftover stack of slot t is given back.      *)
Reclaims(t) ==
    /\ t \in Slots
    /\ tasks[t].state = "TERMINATED" \/ tasks[t].id = 0
    /\ \A s \in Slots : s # t => SameTask(s)
    /\ tasks'[t].id = tasks[t].id /\ tasks'[t].detached = tasks[t].detached
    /\ tasks'[t].page_dir = tasks[t].page_dir
    /\ tasks'[t].exit_code = tasks[t].exit_code
    /\ tasks'[t].kernel_stack = IF tasks[t].state = "TERMINATED" THEN NoStack
                                ELSE tasks[t].kernel_stack
    /\ \A s \in Slots : tasks'[s].state = tasks[s].state
    /\ heap' = HeapReclaimed(t)
    /\ UNCHANGED <<frame, spaces, answer, fd_failures, next_task_id>>
-----------------------------------------------------------------------------
(* Facts of the first invariant that the second one uses.                  *)
LEMMA TableFacts ==
    ASSUME IInv
    PROVE  /\ \A s \in Slots : tasks[s].id \in Nat /\ tasks[s].id < next_task_id
           /\ \A s \in Slots : tasks[s].id # 0 => tasks[s].id \in 1 .. MaxId
           /\ \A s, t \in Slots : tasks[s].id = tasks[t].id /\ s # t => tasks[s].id = 0
           /\ \A s \in Slots : tasks[s].page_dir \in {0, tasks[s].id}
           /\ \A s \in Slots : tasks[s].detached \in BOOLEAN
           /\ \A s \in Slots : frame[s].child \in Slots /\ frame[s].task_id \in Nat
           /\ next_task_id \in Nat /\ next_task_id # 0
  <1>1. tasks \in Table /\ frame \in Frames
    BY Unblocked
  <1>2. \A s \in Slots : tasks[s].id \in Ids /\ tasks[s].detached \in BOOLEAN
    BY <1>1 DEF Table, TaskRecord
  <1>3. \A s \in Slots : frame[s].child \in Slots /\ frame[s].task_id \in Nat
    BY <1>1, TaskAssumption DEF Frames, Ids
  <1>4. next_task_id \in Nat /\ next_task_id # 0
    BY OtherTypes
  <1>5. /\ \A s \in Slots : tasks[s].id < next_task_id
        /\ \A s, t \in Slots : tasks[s].id = tasks[t].id /\ s # t => tasks[s].id = 0
        /\ \A s \in Slots : tasks[s].page_dir \in {0, tasks[s].id}
    BY DEF IInv, IdsOK, SpacesOK
  <1>6. \A s \in Slots : tasks[s].id # 0 => tasks[s].id \in 1 .. MaxId
    BY <1>2, TaskAssumption DEF Ids
  <1>7. \A s \in Slots : tasks[s].id \in Nat
    BY <1>2, TaskAssumption DEF Ids
  <1> QED BY <1>2, <1>3, <1>4, <1>5, <1>6, <1>7

(* A task on the processor other than the kernel task has an id.           *)
LEMMA CurrentHasId ==
    ASSUME IInv, current_task # 0
    PROVE  tasks[current_task].id # 0 /\ tasks[current_task].id \in 1 .. MaxId
  <1>1. tasks[current_task].id # 0
    BY DEF IInv, RingOK, OnList, ListOK
  <1>2. tasks[current_task].id \in Ids
    BY Unblocked DEF Table, TaskRecord
  <1> QED BY <1>1, <1>2, TaskAssumption DEF Ids

(* The four states a task can be in.                                       *)
LEMMA States ==
    ASSUME NEW ts \in Table, NEW s \in Slots
    PROVE  ts[s].state \in {"READY", "RUNNING", "BLOCKED", "TERMINATED"}
  BY DEF Table, TaskRecord

(* A handler that calls schedule on the table as it is only switches.      *)
LEMMA ScheduleSwitches ==
    ASSUME IInv, schedule(tasks),
           \A s \in Slots : SameWait(s) \/ frame'[s].at # "wait",
           UNCHANGED <<heap, spaces, answer, fd_failures, next_task_id>>
    PROVE  Switches
  <1>1. /\ tasks' \in Table
        /\ \A s \in Slots : SameButState(tasks'[s], tasks[s])
        /\ \A s \in Slots :
              tasks'[s].state = "TERMINATED" <=> tasks[s].state = "TERMINATED"
        /\ \A s \in Slots :
              tasks'[s].state = "BLOCKED" <=> tasks[s].state = "BLOCKED"
    BY Unblocked, OtherTypes, ZeroSlot, ScheduleTable
  <1>2. \A s \in Slots : SameTask(s)
    BY <1>1, Zenon DEF SameTask, SameOwner, SameAnswer, SameButState
  <1>3. \A s \in Slots : Runnable(s)' => Runnable(s)
    BY <1>1, States, Unblocked DEF Runnable
  <1> QED BY <1>2, <1>3 DEF Switches, GoesOn

(* sys_do_yield only switches.                                             *)
LEMMA YieldSwitches ==
    ASSUME IInv, sys_do_yield
    PROVE  Switches
  BY ScheduleSwitches DEF sys_do_yield, SameWait

(* sys_do_sleepms also leaves its own frame, which is not a wait.           *)
LEMMA SleepSwitches ==
    ASSUME IInv, NEW n, sys_do_sleepms(n)
    PROVE  Switches
  <1>1. /\ schedule(tasks) /\ frame' = [frame EXCEPT ![current_task] = InSleep(n)]
        /\ UNCHANGED <<heap, spaces, answer, fd_failures, next_task_id>>
    BY DEF sys_do_sleepms
  <1>2. \A s \in Slots : SameWait(s) \/ frame'[s].at # "wait"
    BY <1>1, Unblocked DEF Frames, InSleep, SameWait
  <1> QED BY <1>1, <1>2, ScheduleSwitches

(* The timer only counts the sleepers down and switches.                   *)
LEMMA TickSwitches ==
    ASSUME IInv, timer_handler_switch
    PROVE  Switches
  <1>1. /\ schedule(tasks) /\ frame' = SleepersAfterTick
        /\ UNCHANGED <<heap, spaces, answer, fd_failures, next_task_id>>
    BY DEF timer_handler_switch
  <1>2. \A s \in Slots : SameWait(s)
    BY <1>1, Unblocked DEF Frames, SleepersAfterTick, SameWait
  <1> QED BY <1>1, <1>2, ScheduleSwitches

(* The sleep loop yields again, or ends and changes no task.               *)
LEMMA SleepResumedSwitches ==
    ASSUME IInv, sys_do_sleepms_resumed
    PROVE  Switches
  <1>0. UNCHANGED <<heap, spaces, answer, fd_failures, next_task_id>>
    BY DEF sys_do_sleepms_resumed
  <1>1. CASE schedule(tasks) /\ UNCHANGED frame
    BY <1>0, <1>1, ScheduleSwitches DEF SameWait
  <1>2. CASE frame' = [frame EXCEPT ![current_task] = UserCode] /\ UNCHANGED tasks
    <2>1. \A s \in Slots : SameWait(s) \/ frame'[s].at # "wait"
      BY <1>2, Unblocked DEF Frames, UserCode, SameWait
    <2>2. \A s \in Slots : SameTask(s) /\ (Runnable(s)' => Runnable(s))
      BY <1>2 DEF SameTask, SameOwner, SameAnswer, Runnable
    <2> QED BY <1>0, <2>1, <2>2 DEF Switches, GoesOn
  <1> QED BY <1>1, <1>2 DEF sys_do_sleepms_resumed

(* A wait that returns clears waiting_for, which nobody reads any more.    *)
LEMMA WaitResumedSwitches ==
    ASSUME IInv, sys_do_wait_resumed
    PROVE  Switches
  <1>1. /\ tasks' = [tasks EXCEPT ![current_task].waiting_for = 0]
        /\ frame' = [frame EXCEPT ![current_task] = UserCode]
        /\ UNCHANGED <<heap, spaces, answer, fd_failures, next_task_id>>
    BY DEF sys_do_wait_resumed
  <1>2. \A s \in Slots : SameWait(s) \/ frame'[s].at # "wait"
    BY <1>1, Unblocked DEF Frames, UserCode, SameWait
  <1>3. \A s \in Slots : SameTask(s) /\ (Runnable(s)' => Runnable(s))
    BY <1>1, Unblocked DEF SameTask, SameOwner, SameAnswer, Runnable, Table, TaskRecord
  <1> QED BY <1>1, <1>2, <1>3 DEF Switches, GoesOn

(* A task that starts to wait is BLOCKED until it is woken.                *)
LEMMA WaitSwitches ==
    ASSUME IInv, NEW w \in Ids, sys_do_wait(w)
    PROVE  Switches
  <1> DEFINE ts == [tasks EXCEPT ![current_task].waiting_for = w,
                                 ![current_task].state = "BLOCKED"]
  <1>1. /\ current_task # 0 /\ Found(w) /\ schedule(ts)
        /\ frame' = [frame EXCEPT ![current_task] = InWait(w, task_get_by_id(w))]
        /\ UNCHANGED <<heap, spaces, answer, fd_failures, next_task_id>>
    BY DEF sys_do_wait, InUserCode
  <1>2. PICK c \in Slots : c = current_task /\ tasks[c].state = "RUNNING"
    BY Unblocked
  <1>3. /\ ts \in Table
        /\ \A s \in Slots :
              /\ ts[s].id = tasks[s].id /\ ts[s].detached = tasks[s].detached
              /\ ts[s].page_dir = tasks[s].page_dir
              /\ ts[s].exit_code = tasks[s].exit_code
              /\ ts[s].kernel_stack = tasks[s].kernel_stack
              /\ ts[s].fd_table = tasks[s].fd_table
              /\ ts[s].state = IF s = c THEN "BLOCKED" ELSE tasks[s].state
    BY <1>2, Unblocked, ZenonT(60) DEF Table, TaskRecord
  <1> HIDE DEF ts
  <1>4. RunnableOK(ts)
    BY <1>1, <1>2, <1>3, ZeroSlot DEF IInv, OneRunning, RunnableOK
  <1>5. /\ tasks' \in Table
        /\ \A s \in Slots : SameButState(tasks'[s], ts[s])
        /\ \A s \in Slots :
              tasks'[s].state = "TERMINATED" <=> ts[s].state = "TERMINATED"
        /\ \A s \in Slots :
              tasks'[s].state = "BLOCKED" <=> ts[s].state = "BLOCKED"
    BY <1>1, <1>3, <1>4, Unblocked, OtherTypes, ZeroSlot, ScheduleTable, Zenon
  <1>6. \A s \in Slots : SameTask(s)
    BY <1>2, <1>3, <1>5 DEF SameTask, SameOwner, SameAnswer, SameButState
  <1>7. \A s \in Slots : Runnable(s)' => Runnable(s) /\ s # c
    BY <1>3, <1>5, States, Unblocked DEF Runnable
  <1>8. \A s \in Slots : s # c => SameWait(s)
    BY <1>1, <1>2, Unblocked DEF Frames, SameWait
  <1>9. frame'[c].task_id = w
    BY <1>1, <1>2, Unblocked DEF Frames, InWait
  <1>10. w < next_task_id
    BY <1>1, HolderFound DEF IInv, IdsOK
  <1>11. \A s \in Slots : GoesOn(s) \/ StartsToWait(s)
    BY <1>7, <1>8, <1>9, <1>10 DEF GoesOn, StartsToWait
  <1> QED BY <1>1, <1>6, <1>11 DEF Switches
-----------------------------------------------------------------------------
(* sys_do_exit, a fault, and a task killing itself end the current task.   *)
LEMMA ExitEnds ==
    ASSUME IInv, NEW code \in Codes, task_exit_with_code(code)
    PROVE  Ends(current_task, code)
  <1>1. PICK c \in Slots : c = current_task /\ tasks[c].state = "RUNNING"
    BY Unblocked
  <1>2. PICK ts : ts = Terminated(tasks, c, code)
    OBVIOUS
  <1>3. /\ c # 0 /\ schedule(ts)
        /\ spaces' = spaces \ {tasks[c].page_dir}
        /\ answer' = Answered(tasks[c].id, code)
        /\ UNCHANGED <<frame, heap, fd_failures, next_task_id>>
    BY <1>1, <1>2 DEF task_exit_with_code
  <1>4. /\ ts \in Table
        /\ \A s \in Slots :
              /\ ts[s].id = tasks[s].id /\ ts[s].detached = tasks[s].detached
              /\ ts[s].page_dir = IF s = c THEN 0 ELSE tasks[s].page_dir
              /\ ts[s].kernel_stack = tasks[s].kernel_stack
              /\ ts[s].exit_code = IF s = c THEN code ELSE tasks[s].exit_code
              /\ s # c => ts[s].fd_table = tasks[s].fd_table
              /\ ts[s].state = IF s = c THEN "TERMINATED"
                               ELSE IF tasks[s].state = "BLOCKED"
                                       /\ tasks[s].waiting_for = tasks[c].id
                               THEN "READY" ELSE tasks[s].state
    BY <1>1, <1>2, Unblocked, TerminatedTable, SMTT(30)
  <1>5. RunnableOK(ts)
    BY <1>1, <1>3, <1>4, ZeroSlot, ZenonT(60) DEF IInv, OneRunning, RunnableOK
  <1>6. /\ tasks' \in Table
        /\ \A s \in Slots : SameButState(tasks'[s], ts[s])
        /\ \A s \in Slots :
              tasks'[s].state = "TERMINATED" <=> ts[s].state = "TERMINATED"
        /\ \A s \in Slots :
              tasks'[s].state = "BLOCKED" <=> ts[s].state = "BLOCKED"
    BY <1>3, <1>4, <1>5, Unblocked, OtherTypes, ZeroSlot, ScheduleTable, ZenonT(60)
  <1>7. \A s \in Slots : s # c => SameTask(s)
    BY <1>4, <1>6 DEF SameTask, SameOwner, SameAnswer, SameButState
  <1>8. /\ tasks'[c].id = tasks[c].id /\ tasks'[c].detached = tasks[c].detached
        /\ tasks'[c].kernel_stack = tasks[c].kernel_stack
        /\ tasks'[c].page_dir = 0 /\ tasks'[c].exit_code = code
        /\ tasks'[c].state = "TERMINATED"
    BY <1>4, <1>6 DEF SameButState
  <1>9. \A s \in Slots : s # c /\ Runnable(s)' =>
           \/ Runnable(s)
           \/ (tasks[s].state = "BLOCKED" /\ tasks[s].waiting_for = tasks[c].id)
    BY <1>4, <1>6, States, Unblocked DEF Runnable
  <1>10. tasks[c].id # 0
    BY <1>1, <1>3, CurrentHasId
  <1>11. \A s \in Slots : SameWait(s)
    BY <1>3 DEF SameWait
  <1>12. Ends(c, code)
    BY <1>1, <1>3, <1>7, <1>8, <1>9, <1>10, <1>11 DEF Ends
  <1> QED BY <1>1, <1>12

(* task_kill ends the task it finds.                                       *)
LEMMA KillEnds ==
    ASSUME IInv, NEW w \in Ids, task_kill(w)
    PROVE  \E t : Ends(t, KilledCode)
  <1>1. KilledCode \in Codes
    BY DEF Codes
  <1>2. CASE task_exit_with_code(KilledCode)
    BY <1>1, <1>2, ExitEnds
  <1>3. CASE ~task_exit_with_code(KilledCode)
    <2>1. PICK t \in Slots : t = task_get_by_id(w) /\ tasks[t].id = w /\ Found(w)
      BY HolderFound DEF task_kill
    <2>2. PICK ts : ts = Terminated(tasks, t, KilledCode)
      OBVIOUS
    <2>3. /\ t # 0 /\ tasks[t].state # "TERMINATED"
          /\ tasks' = ts
          /\ spaces' = spaces \ {tasks[t].page_dir}
          /\ answer' = Answered(w, KilledCode)
          /\ frame' = [frame EXCEPT ![t] = UserCode]
          /\ UNCHANGED <<heap, fd_failures, next_task_id>>
      BY <1>3, <2>1, <2>2, Zenon DEF task_kill
    <2>4. /\ ts \in Table
          /\ \A s \in Slots :
                /\ ts[s].id = tasks[s].id /\ ts[s].detached = tasks[s].detached
                /\ ts[s].page_dir = IF s = t THEN 0 ELSE tasks[s].page_dir
                /\ ts[s].kernel_stack = tasks[s].kernel_stack
                /\ ts[s].exit_code = IF s = t THEN KilledCode ELSE tasks[s].exit_code
                /\ s # t => ts[s].fd_table = tasks[s].fd_table
                /\ ts[s].state = IF s = t THEN "TERMINATED"
                                 ELSE IF tasks[s].state = "BLOCKED"
                                         /\ tasks[s].waiting_for = tasks[t].id
                                 THEN "READY" ELSE tasks[s].state
      BY <1>1, <2>2, Unblocked, TerminatedTable
    <2>5. \A s \in Slots : s # t => SameTask(s)
      BY <2>3, <2>4 DEF SameTask, SameOwner, SameAnswer
    <2>6. \A s \in Slots : s # t /\ Runnable(s)' =>
             \/ Runnable(s)
             \/ (tasks[s].state = "BLOCKED" /\ tasks[s].waiting_for = tasks[t].id)
      BY <2>3, <2>4 DEF Runnable
    <2>7. \A s \in Slots : SameWait(s) \/ (s = t /\ frame'[s].at = "user")
      BY <2>3, Unblocked DEF Frames, UserCode, SameWait
    <2>8. tasks[t].id # 0
      <3>1. tasks[0].id = 0
        BY Zenon DEF IInv, IdsOK
      <3> QED BY <2>1, <2>3, <3>1, HolderFound, Zenon
    <2>9. Ends(t, KilledCode)
      BY <2>1, <2>3, <2>4, <2>5, <2>6, <2>7, <2>8, Zenon DEF Ends
    <2> QED BY <2>9
  <1> QED BY <1>2, <1>3

(* sys_do_detach sets the caller's flag and wakes its waiters.             *)
LEMMA DetachDetaches ==
    ASSUME IInv, sys_do_detach
    PROVE  Detaches(current_task)
  <1>1. PICK c \in Slots : c = current_task /\ tasks[c].state = "RUNNING"
    BY Unblocked
  <1>2. PICK ts : ts = [tasks EXCEPT ![c].detached = TRUE]
    BY Zenon
  <1>3. PICK w \in Ids : w = tasks[c].id
    BY Unblocked DEF Table, TaskRecord
  <1>4. /\ c # 0 /\ tasks' = Woken(ts, w)
        /\ answer' = [answer EXCEPT ![w] = Detached]
        /\ UNCHANGED <<frame, heap, spaces, fd_failures, next_task_id>>
    BY <1>1, <1>2, <1>3 DEF sys_do_detach, InUserCode
  <1>5. /\ ts \in Table
        /\ ts[c].detached = TRUE
        /\ \A s \in Slots :
              /\ ts[s].id = tasks[s].id /\ ts[s].page_dir = tasks[s].page_dir
              /\ ts[s].exit_code = tasks[s].exit_code
              /\ ts[s].kernel_stack = tasks[s].kernel_stack
              /\ ts[s].fd_table = tasks[s].fd_table
              /\ ts[s].waiting_for = tasks[s].waiting_for
              /\ ts[s].state = tasks[s].state
              /\ s # c => ts[s].detached = tasks[s].detached
    BY <1>2, Unblocked, ZenonT(60) DEF Table, TaskRecord
  <1>6. \A s \in Slots :
           /\ tasks'[s].id = ts[s].id /\ tasks'[s].detached = ts[s].detached
           /\ tasks'[s].page_dir = ts[s].page_dir
           /\ tasks'[s].kernel_stack = ts[s].kernel_stack
           /\ tasks'[s].fd_table = ts[s].fd_table
           /\ tasks'[s].exit_code = ts[s].exit_code
           /\ tasks'[s].state = IF ts[s].state = "BLOCKED" /\ ts[s].waiting_for = w
                                THEN "READY" ELSE ts[s].state
    BY <1>4, <1>5, WokenTable
  <1>7. \A s \in Slots : s # c => SameTask(s)
    BY <1>5, <1>6 DEF SameTask, SameOwner, SameAnswer
  <1>8. \A s \in Slots : Runnable(s)' =>
           \/ Runnable(s)
           \/ (tasks[s].state = "BLOCKED" /\ tasks[s].waiting_for = w)
    BY <1>5, <1>6 DEF Runnable
  <1>9. tasks'[c].detached
    BY <1>5, <1>6, ZenonT(60)
  <1>10. tasks[c].id # 0
    BY <1>1, <1>4, CurrentHasId, SMTT(30)
  <1>11. /\ tasks'[c].id = tasks[c].id /\ tasks'[c].kernel_stack = tasks[c].kernel_stack
         /\ tasks'[c].page_dir = tasks[c].page_dir /\ tasks'[c].fd_table = tasks[c].fd_table
    BY <1>5, <1>6, ZenonT(60)
  <1>12. tasks'[c].state = tasks[c].state /\ tasks[c].state # "TERMINATED"
    BY <1>1, <1>5, <1>6
  <1>13. Detaches(c)
    BY <1>3, <1>4, <1>7, <1>8, <1>9, <1>10, <1>11, <1>12, Zenon DEF Detaches
  <1> QED BY <1>1, <1>13

(* The fields a new task starts with.                                      *)
LEMMA CreatedFields ==
    ASSUME IInv, NEW t \in Slots, NEW b \in Stacks, NEW loaded \in BOOLEAN,
           next_task_id <= MaxId, tasks' = Created(t, b, loaded)
    PROVE  /\ \A s \in Slots : s # t =>
                 SameTask(s) /\ tasks'[s].state = tasks[s].state
           /\ tasks'[t].id = next_task_id /\ ~tasks'[t].detached
           /\ tasks'[t].kernel_stack = b /\ tasks'[t].page_dir = next_task_id
           /\ loaded => tasks'[t].fd_table /\ tasks'[t].state = "READY"
           /\ ~loaded => tasks'[t].state = "TERMINATED"
  <1>1. PICK r : r = Reclaimed(t)
    OBVIOUS
  <1>2. /\ r \in Table
        /\ \A s \in Slots :
              /\ r[s].id = tasks[s].id /\ r[s].detached = tasks[s].detached
              /\ r[s].page_dir = tasks[s].page_dir /\ r[s].state = tasks[s].state
              /\ r[s].exit_code = tasks[s].exit_code
              /\ r[s].fd_table = tasks[s].fd_table
              /\ s # t => r[s].kernel_stack = tasks[s].kernel_stack
    BY <1>1, Unblocked, ReclaimedTable
  <1>3. PICK new : new = NewTask(r[t], b, loaded)
    OBVIOUS
  <1>4. tasks' = [r EXCEPT ![t] = new]
    BY <1>1, <1>3 DEF Created
  <1>5. \A s \in Slots : tasks'[s] = IF s = t THEN new ELSE r[s]
    BY <1>2, <1>4 DEF Table
  <1>6. r[t] \in TaskRecord
    BY <1>2 DEF Table
  <1>7. /\ new.id = next_task_id /\ new.detached = FALSE /\ new.kernel_stack = b
        /\ new.page_dir = next_task_id /\ new.fd_table = loaded
        /\ new.state = IF loaded THEN "READY" ELSE "TERMINATED"
    BY <1>3, <1>6, SMTT(30) DEF NewTask, TaskRecord
  <1>8. \A s \in Slots : s # t => SameTask(s) /\ tasks'[s].state = tasks[s].state
    BY <1>2, <1>5 DEF SameTask, SameOwner, SameAnswer
  <1>9. /\ tasks'[t].id = next_task_id
        /\ tasks'[t].kernel_stack = b /\ tasks'[t].page_dir = next_task_id
        /\ tasks'[t].state = IF loaded THEN "READY" ELSE "TERMINATED"
    BY <1>5, <1>7
  <1>10. ~tasks'[t].detached /\ (loaded => tasks'[t].fd_table)
    BY <1>5, <1>7, ZenonT(60)
  <1> QED BY <1>8, <1>9, <1>10

(* task_create_user_elf, in each of its outcomes.                          *)
LEMMA CreateCreates ==
    ASSUME IInv, FreeSlots # {},
           \/ CreateSucceeds(FirstFree)
           \/ CreateFailsAtFdTable(FirstFree)
           \/ CreateFailsEarly(FirstFree)
    PROVE  \/ \E t, b : Creates(t, b, TRUE) \/ Creates(t, b, FALSE)
           \/ \E t : Reclaims(t)
  <1>1. PICK t \in Slots : /\ t = FirstFree
                           /\ tasks[t].state = "TERMINATED" \/ tasks[t].id = 0
    BY FreeSlotFound
  <1>2. CASE CreateSucceeds(t)
    <2>1. PICK b \in Stacks \ HeapReclaimed(t) :
             tasks' = Created(t, b, TRUE) /\ heap' = HeapReclaimed(t) \cup {b}
      BY <1>2, Zenon DEF CreateSucceeds
    <2>2. /\ next_task_id <= MaxId /\ next_task_id' = next_task_id + 1
          /\ spaces' = spaces \cup {next_task_id}
          /\ frame' = [frame EXCEPT ![t] = UserCode]
          /\ UNCHANGED <<answer, fd_failures>>
      BY <1>2 DEF CreateSucceeds
    <2>3. /\ frame'[t] = UserCode
          /\ \A s \in Slots : s # t => frame'[s] = frame[s]
      BY <2>2, Unblocked DEF Frames
    <2>4. /\ \A s \in Slots : s # t =>
                SameTask(s) /\ tasks'[s].state = tasks[s].state
          /\ tasks'[t].id = next_task_id /\ ~tasks'[t].detached
          /\ tasks'[t].kernel_stack = b /\ tasks'[t].page_dir = next_task_id
          /\ tasks'[t].fd_table /\ tasks'[t].state = "READY"
      BY <2>1, <2>2, CreatedFields, Zenon
    <2>5. Creates(t, b, TRUE)
      BY <1>1, <2>1, <2>2, <2>3, <2>4, Zenon DEF Creates
    <2> QED BY <2>5, Zenon
  <1>3. CASE CreateFailsAtFdTable(t)
    <2>1. PICK b \in Stacks \ HeapReclaimed(t) : tasks' = Created(t, b, FALSE)
      BY <1>3, Zenon DEF CreateFailsAtFdTable
    <2>2. /\ next_task_id <= MaxId /\ next_task_id' = next_task_id + 1
          /\ fd_failures' = fd_failures + 1
          /\ UNCHANGED <<frame, answer>>
      BY <1>3 DEF CreateFailsAtFdTable
    <2>3. fd_failures' # 0
      BY <2>2, OtherTypes
    <2>4. /\ \A s \in Slots : s # t =>
                SameTask(s) /\ tasks'[s].state = tasks[s].state
          /\ tasks'[t].id = next_task_id /\ ~tasks'[t].detached
          /\ tasks'[t].kernel_stack = b /\ tasks'[t].page_dir = next_task_id
          /\ tasks'[t].state = "TERMINATED"
      BY <2>1, <2>2, CreatedFields, Zenon
    <2>5. Creates(t, b, FALSE)
      BY <1>1, <2>1, <2>2, <2>3, <2>4, Zenon DEF Creates
    <2> QED BY <2>5, Zenon
  <1>4. CASE CreateFailsEarly(t)
    <2>1. /\ tasks' = Reclaimed(t) /\ heap' = HeapReclaimed(t)
          /\ UNCHANGED <<frame, spaces, answer, fd_failures, next_task_id>>
      BY <1>4, Zenon DEF CreateFailsEarly
    <2>2. \A s \in Slots :
             /\ tasks'[s].id = tasks[s].id /\ tasks'[s].detached = tasks[s].detached
             /\ tasks'[s].page_dir = tasks[s].page_dir
             /\ tasks'[s].state = tasks[s].state
             /\ tasks'[s].exit_code = tasks[s].exit_code
             /\ tasks'[s].fd_table = tasks[s].fd_table
             /\ tasks'[s].kernel_stack =
                   IF s = t /\ tasks[t].state = "TERMINATED" THEN NoStack
                   ELSE tasks[s].kernel_stack
      BY <2>1, Unblocked, ReclaimedTable, SMTT(30)
    <2>3. \A s \in Slots : s # t => SameTask(s)
      BY <2>2, Zenon DEF SameTask, SameOwner, SameAnswer
    <2>4. Reclaims(t)
      BY <1>1, <2>1, <2>2, <2>3, Zenon DEF Reclaims
    <2> QED BY <2>4, Zenon
  <1> QED BY <1>1, <1>2, <1>3, <1>4, Zenon
-----------------------------------------------------------------------------
(* Ownership as the sets of blocks and spaces the slots hold.              *)
LEMMA OwnParts ==
    OwnInv <=>
      (fd_failures = 0 =>
        /\ \A s \in Slots : Owns(s)
        /\ \A s, t \in Slots :
              s # t /\ tasks[s].kernel_stack = tasks[t].kernel_stack
                  => tasks[s].kernel_stack = NoStack
        /\ \A x : x \in heap <=> x # NoStack /\ \E s \in Slots : x = tasks[s].kernel_stack
        /\ \A x : x \in spaces <=> x # 0 /\ \E s \in Slots : x = tasks[s].page_dir)
  BY DEF OwnInv

(* Switching leaves everything where it was.                               *)
LEMMA SwitchesOwn ==
    ASSUME OwnInv, Switches
    PROVE  OwnInv'
  <1> SUFFICES ASSUME fd_failures' = 0
               PROVE  OwnInv'
    BY DEF OwnInv
  <1>1. /\ \A s \in Slots : SameTask(s)
        /\ UNCHANGED <<heap, spaces, fd_failures>>
    BY DEF Switches
  <1>2. \A s \in Slots : Owns(s)'
    BY <1>1 DEF OwnInv, Owns, Live, SameTask, SameOwner
  <1>3. \A s \in Slots : /\ tasks'[s].kernel_stack = tasks[s].kernel_stack
                         /\ tasks'[s].page_dir = tasks[s].page_dir
    BY <1>1, Zenon DEF SameTask, SameOwner
  <1> QED BY <1>1, <1>2, <1>3 DEF OwnInv

(* A task that ends gives up its address space; its stack stays its slot's.*)
LEMMA EndsOwn ==
    ASSUME IInv, OwnInv, NEW t, NEW code, Ends(t, code)
    PROVE  OwnInv'
  <1> SUFFICES ASSUME fd_failures' = 0
               PROVE  OwnInv'
    BY Zenon DEF OwnInv
  <1>1. /\ t \in Slots /\ fd_failures = 0 /\ heap' = heap
        /\ spaces' = spaces \ {tasks[t].page_dir}
        /\ tasks'[t].page_dir = 0 /\ tasks'[t].state = "TERMINATED"
        /\ tasks'[t].id = tasks[t].id
        /\ \A s \in Slots : s # t => SameTask(s)
        /\ \A s \in Slots : tasks'[s].kernel_stack = tasks[s].kernel_stack
        /\ \A s \in Slots : s # t => tasks'[s].page_dir = tasks[s].page_dir
    BY Zenon DEF Ends, SameTask, SameOwner
  <1>2. \A s \in Slots : Owns(s)
    BY <1>1 DEF OwnInv
  <1>3. ASSUME NEW s \in Slots PROVE Owns(s)'
    <2>1. CASE s = t
      BY <1>1, <1>2, <2>1, Zenon DEF Owns, Live
    <2>2. CASE s # t
      BY <1>1, <1>2, <2>2, SMTT(30) DEF Owns, Live, SameTask, SameOwner
    <2> QED BY <2>1, <2>2, Zenon
  <1>4. /\ \A x : x \in heap <=> x # NoStack /\ \E s \in Slots : x = tasks[s].kernel_stack
        /\ \A x : x \in spaces <=> x # 0 /\ \E s \in Slots : x = tasks[s].page_dir
        /\ \A s, r \in Slots :
              s # r /\ tasks[s].kernel_stack = tasks[r].kernel_stack
                  => tasks[s].kernel_stack = NoStack
    BY <1>1, OwnParts, Zenon
  <1>5. \A s \in Slots : s # t => tasks[s].page_dir # tasks[t].page_dir \/ tasks[s].page_dir = 0
    BY <1>1, TableFacts
  <1>6. ASSUME NEW x
        PROVE  x \in spaces' <=> x # 0 /\ \E s \in Slots : x = tasks'[s].page_dir
    BY <1>1, <1>4, <1>5
  <1> QED BY <1>1, <1>3, <1>4, <1>6, SMTT(30) DEF OwnInv

(* Detaching gives up nothing.                                             *)
LEMMA DetachesOwn ==
    ASSUME OwnInv, NEW t, Detaches(t)
    PROVE  OwnInv'
  <1> SUFFICES ASSUME fd_failures' = 0
               PROVE  OwnInv'
    BY Zenon DEF OwnInv
  <1>1. /\ t \in Slots /\ UNCHANGED <<heap, spaces, fd_failures>>
        /\ \A s \in Slots :
              /\ tasks'[s].id = tasks[s].id /\ tasks'[s].page_dir = tasks[s].page_dir
              /\ tasks'[s].kernel_stack = tasks[s].kernel_stack
              /\ tasks'[s].fd_table = tasks[s].fd_table
              /\ tasks'[s].state = "TERMINATED" <=> tasks[s].state = "TERMINATED"
    BY DEF Detaches, SameTask, SameOwner
  <1>2. \A s \in Slots : Owns(s)'
    BY <1>1 DEF OwnInv, Owns, Live
  <1> QED BY <1>1, <1>2 DEF OwnInv

(* The slot search gives back the stack of the dead task, nobody else's.   *)
LEMMA HeapAfterReclaim ==
    ASSUME IInv, OwnInv, fd_failures = 0, NEW t \in Slots,
           tasks[t].state = "TERMINATED" \/ tasks[t].id = 0
    PROVE  \A x : x \in HeapReclaimed(t) <=>
               x # NoStack /\ \E s \in Slots : s # t /\ x = tasks[s].kernel_stack
  <1>1. /\ \A x : x \in heap <=> x # NoStack /\ \E s \in Slots : x = tasks[s].kernel_stack
        /\ \A s, r \in Slots :
              s # r /\ tasks[s].kernel_stack = tasks[r].kernel_stack
                  => tasks[s].kernel_stack = NoStack
        /\ Owns(t)
    BY OwnParts
  <1>2. CASE tasks[t].state = "TERMINATED"
    <2>1. HeapReclaimed(t) = heap \ {tasks[t].kernel_stack}
      BY <1>2 DEF HeapReclaimed
    <2> QED BY <1>1, <2>1
  <1>3. CASE tasks[t].state # "TERMINATED"
    <2>1. HeapReclaimed(t) = heap /\ tasks[t].kernel_stack = NoStack
      BY <1>1, <1>3 DEF HeapReclaimed, Owns
    <2> QED BY <1>1, <2>1
  <1> QED BY <1>2, <1>3

(* A free slot holds no address space.                                     *)
LEMMA FreeSlotHasNoSpace ==
    ASSUME IInv, OwnInv, fd_failures = 0, NEW t \in Slots,
           tasks[t].state = "TERMINATED" \/ tasks[t].id = 0
    PROVE  tasks[t].page_dir = 0
  BY TableFacts DEF OwnInv, Owns

(* A new task gets a stack and a space nobody had.                         *)
LEMMA CreatesOwn ==
    ASSUME IInv, OwnInv, NEW t, NEW b, NEW loaded \in BOOLEAN, Creates(t, b, loaded)
    PROVE  OwnInv'
  <1> SUFFICES ASSUME fd_failures' = 0
               PROVE  OwnInv'
    BY DEF OwnInv
  <1>1. /\ loaded /\ fd_failures = 0 /\ t \in Slots
        /\ tasks[t].state = "TERMINATED" \/ tasks[t].id = 0
        /\ heap' = HeapReclaimed(t) \cup {b}
        /\ spaces' = spaces \cup {next_task_id}
        /\ b \in Stacks \ HeapReclaimed(t)
    BY DEF Creates
  <1>2. /\ tasks'[t].id = next_task_id /\ tasks'[t].page_dir = next_task_id
        /\ tasks'[t].kernel_stack = b /\ tasks'[t].fd_table
        /\ tasks'[t].state = "READY"
        /\ \A s \in Slots : s # t => SameTask(s)
    BY <1>1, Zenon DEF Creates
  <1>3. /\ \A x : x \in heap <=> x # NoStack /\ \E s \in Slots : x = tasks[s].kernel_stack
        /\ \A x : x \in spaces <=> x # 0 /\ \E s \in Slots : x = tasks[s].page_dir
        /\ \A s, r \in Slots :
              s # r /\ tasks[s].kernel_stack = tasks[r].kernel_stack
                  => tasks[s].kernel_stack = NoStack
        /\ \A s \in Slots : Owns(s)
    BY <1>1, OwnParts, Zenon
  <1>4. \A x : x \in HeapReclaimed(t) <=>
               x # NoStack /\ \E s \in Slots : s # t /\ x = tasks[s].kernel_stack
    BY <1>1, HeapAfterReclaim, Zenon
  <1>5. b # NoStack /\ next_task_id # 0 /\ tasks[t].page_dir = 0
    BY <1>1, TaskAssumption, TableFacts, FreeSlotHasNoSpace, Zenon
  <1>6. \A s \in Slots : s # t =>
           /\ tasks'[s].kernel_stack = tasks[s].kernel_stack
           /\ tasks'[s].page_dir = tasks[s].page_dir
    BY <1>2 DEF SameTask, SameOwner
  <1>7. ASSUME NEW s \in Slots PROVE Owns(s)'
    <2>1. CASE s = t
      <3>1. b \in heap'
        BY <1>1
      <3> QED BY <1>2, <1>5, <2>1, <3>1, Zenon DEF Owns, Live
    <2>2. CASE s # t
      <3>1. Owns(s) /\ SameTask(s)
        BY <1>2, <1>3, <2>2, Zenon
      <3>2. tasks[s].kernel_stack \in heap => tasks[s].kernel_stack \in heap'
        BY <1>1, <1>3, <1>4, <2>2, Zenon
      <3> QED BY <3>1, <3>2, Zenon DEF Owns, Live, SameTask, SameOwner
    <2> QED BY <2>1, <2>2
  <1>8. ASSUME NEW s \in Slots, NEW r \in Slots, s # r,
               tasks'[s].kernel_stack = tasks'[r].kernel_stack
        PROVE  tasks'[s].kernel_stack = NoStack
    BY <1>1, <1>2, <1>3, <1>4, <1>6, <1>8, SMTT(30)
  <1>9. ASSUME NEW x
        PROVE  x \in heap' <=> x # NoStack /\ \E s \in Slots : x = tasks'[s].kernel_stack
    BY <1>1, <1>2, <1>4, <1>5, <1>6, SMTT(30)
  <1>10. ASSUME NEW x
         PROVE  x \in spaces' <=> x # 0 /\ \E s \in Slots : x = tasks'[s].page_dir
    BY <1>1, <1>2, <1>3, <1>5, <1>6, SMTT(30)
  <1> QED BY <1>7, <1>8, <1>9, <1>10 DEF OwnInv

(* Neither is anything lost when creating stops at once.                   *)
LEMMA ReclaimsOwn ==
    ASSUME IInv, OwnInv, NEW t, Reclaims(t)
    PROVE  OwnInv'
  <1> SUFFICES ASSUME fd_failures' = 0
               PROVE  OwnInv'
    BY DEF OwnInv
  <1>1. /\ fd_failures = 0 /\ t \in Slots
        /\ tasks[t].state = "TERMINATED" \/ tasks[t].id = 0
        /\ heap' = HeapReclaimed(t) /\ spaces' = spaces
        /\ tasks'[t].kernel_stack = IF tasks[t].state = "TERMINATED" THEN NoStack
                                    ELSE tasks[t].kernel_stack
        /\ tasks'[t].id = tasks[t].id /\ tasks'[t].page_dir = tasks[t].page_dir
        /\ tasks'[t].state = tasks[t].state
        /\ \A s \in Slots : s # t => SameTask(s)
    BY Zenon DEF Reclaims
  <1>2. \A s \in Slots : Owns(s)
    BY <1>1, Zenon DEF OwnInv
  <1>3. tasks'[t].kernel_stack = NoStack
    BY <1>1, <1>2, Zenon DEF Owns
  <1>4. \A s \in Slots : /\ s # t => tasks'[s].kernel_stack = tasks[s].kernel_stack
                         /\ tasks'[s].page_dir = tasks[s].page_dir
    BY <1>1, Zenon DEF SameTask, SameOwner
  <1>5. \A x : x \in HeapReclaimed(t) <=>
               x # NoStack /\ \E s \in Slots : s # t /\ x = tasks[s].kernel_stack
    BY <1>1, HeapAfterReclaim
  <1>6. ASSUME NEW s \in Slots PROVE Owns(s)'
    <2>1. CASE s = t
      BY <1>1, <1>2, <1>3, <2>1, Zenon DEF Owns, Live
    <2>2. CASE s # t
      <3>1. Owns(s) /\ SameTask(s)
        BY <1>1, <1>2, <2>2, Zenon
      <3>2. tasks[s].kernel_stack \in heap => tasks[s].kernel_stack # NoStack
        BY <1>1, OwnParts, Zenon
      <3>3. tasks[s].kernel_stack \in heap => tasks[s].kernel_stack \in heap'
        BY <1>1, <1>5, <2>2, <3>2, Zenon
      <3> QED BY <3>1, <3>3, Zenon DEF Owns, Live, SameTask, SameOwner
    <2> QED BY <2>1, <2>2, Zenon
  <1>7. ASSUME NEW s \in Slots, NEW r \in Slots, s # r,
               tasks'[s].kernel_stack = tasks'[r].kernel_stack
        PROVE  tasks'[s].kernel_stack = NoStack
    BY <1>1, <1>3, <1>4, <1>7, Zenon DEF OwnInv
  <1>8. heap' = {tasks'[s].kernel_stack : s \in Slots} \ {NoStack}
    BY <1>1, <1>3, <1>4, <1>5, SMTT(30)
  <1>9. spaces' = {tasks'[s].page_dir : s \in Slots} \ {0}
    BY <1>1, <1>4 DEF OwnInv
  <1> QED BY <1>6, <1>7, <1>8, <1>9, Zenon DEF OwnInv
-----------------------------------------------------------------------------
(* Every handler does one of the four things.                              *)
LEMMA Kinds ==
    ASSUME IInv, [Next]_vars
    PROVE  \/ Switches
           \/ \E t, code : Ends(t, code)
           \/ \E t : Detaches(t)
           \/ \E t, b : Creates(t, b, TRUE) \/ Creates(t, b, FALSE)
           \/ \E t : Reclaims(t)
  <1>1. CASE kernel_main \/ sys_do_spawn
    BY <1>1, CreateCreates, Zenon DEF kernel_main, sys_do_spawn
  <1>2. CASE \E code \in ExitCodes : sys_do_exit(code)
    BY <1>2, ExitEnds, Zenon DEF sys_do_exit, Codes
  <1>3. CASE idt_exception_handler(PageFault)
    BY <1>3, ExitEnds, Zenon DEF idt_exception_handler, Codes
  <1>4. CASE \E w \in Ids : task_kill(w)
    BY <1>4, KillEnds, Zenon
  <1>5. CASE sys_do_detach
    BY <1>5, DetachDetaches, Zenon
  <1>6. CASE timer_handler_switch \/ sys_do_yield \/ sys_do_sleepms_resumed
    BY <1>6, TickSwitches, YieldSwitches, SleepResumedSwitches, Zenon
  <1>7. CASE sys_do_wait_resumed \/ \E w \in Ids : sys_do_wait(w)
    BY <1>7, WaitResumedSwitches, WaitSwitches, Zenon
  <1>8. CASE \E n \in 1 .. MaxSleep : sys_do_sleepms(n)
    BY <1>8, SleepSwitches, Zenon
  <1>9. CASE UNCHANGED vars
    BY <1>9, Zenon DEF vars, Switches, SameTask, SameOwner, SameAnswer, SameWait, GoesOn,
                Runnable
  <1> QED BY <1>1, <1>2, <1>3, <1>4, <1>5, <1>6, <1>7, <1>8, <1>9, ZenonT(60) DEF Next

(* Ownership is kept by every step.                                        *)
LEMMA NextOwn ==
    ASSUME IInv, OwnInv, [Next]_vars
    PROVE  OwnInv'
  BY Kinds, SwitchesOwn, EndsOwn, DetachesOwn, CreatesOwn, ReclaimsOwn, Zenon

(* task_init owns nothing.                                                 *)
LEMMA InitOwn ==
    ASSUME task_init
    PROVE  OwnInv
  <1>1. \A s \in Slots :
           /\ tasks[s].id = 0 /\ tasks[s].kernel_stack = NoStack
           /\ tasks[s].page_dir = 0 /\ tasks[s].state # "TERMINATED"
    BY DEF task_init, KernelTask, UnusedSlot
  <1> QED BY <1>1 DEF task_init, OwnInv, Owns, Live

(* While fd tables can be had, kernel stacks and address spaces are        *)
(* neither shared, lost nor freed twice, however slots are reused.         *)
THEOREM TasksOwnTheirMemory == Spec => []NothingSharedOrLeaked
  <1>1. task_init => IInv /\ OwnInv
    BY InitIInv, InitOwn
  <1>2. (IInv /\ OwnInv) /\ [Next]_vars => (IInv /\ OwnInv)'
    BY NextIInv, NextOwn, Zenon
  <1>3. OwnInv => NothingSharedOrLeaked
    BY DEF OwnInv, Owns, NothingSharedOrLeaked
  <1> QED BY <1>1, <1>2, <1>3, PTL DEF Spec
-----------------------------------------------------------------------------
(* The answers.  The invariant ties what each id is owed to the slot that  *)
(* holds the task and to the frames of those who wait for it.              *)

(* What is owed for the task of a slot is what the slot says of it.        *)
Recorded(s) ==
    tasks[s].id # 0 =>
        /\ tasks[s].detached => answer[tasks[s].id] = Detached
        /\ ~tasks[s].detached /\ tasks[s].state # "TERMINATED"
              => answer[tasks[s].id] = NoCode
        /\ fd_failures = 0 /\ ~tasks[s].detached /\ tasks[s].state = "TERMINATED"
              => answer[tasks[s].id] = tasks[s].exit_code

(* A waiter that may run again has its answer in the child's slot, unless  *)
(* the slot was given away meanwhile.                                      *)
Returns(s) ==
    frame[s].at = "wait" /\ Runnable(s)
            /\ tasks[frame[s].child].id = frame[s].task_id =>
        /\ frame[s].task_id # 0
        /\ tasks[frame[s].child].detached \/ tasks[frame[s].child].state = "TERMINATED"
        /\ WaitResult(s) = answer[frame[s].task_id]

(* Ids are not handed out twice: nothing is owed for one still to come,    *)
(* and nobody waits for it.                                                *)
Fresh ==
    /\ \A i \in 1 .. MaxId : i >= next_task_id => answer[i] = NoCode
    /\ \A s \in Slots : frame[s].at = "wait" => frame[s].task_id < next_task_id

AnsInv ==
    /\ \A s \in Slots : Recorded(s) /\ Returns(s)
    /\ Fresh

(* Whether by its end or by detaching: what task t answers is settled.     *)
Settles(t) ==
    /\ t \in Slots /\ tasks[t].id # 0 /\ tasks'[t].id = tasks[t].id
    /\ tasks'[t].detached \/ tasks'[t].state = "TERMINATED"
    /\ \A s \in Slots : s # t => SameAnswer(s)
    /\ answer'[tasks[t].id] = IF tasks'[t].detached THEN Detached ELSE tasks'[t].exit_code
    /\ \A i \in 1 .. MaxId : i # tasks[t].id => answer'[i] = answer[i]
    /\ \A s \in Slots : frame'[s].at = "wait" => SameWait(s)
    /\ \A s \in Slots : frame'[s].at = "wait" /\ Runnable(s)' =>
          \/ Runnable(s)
          \/ (tasks[s].state = "BLOCKED" /\ tasks[s].waiting_for = tasks[t].id)
    /\ UNCHANGED <<fd_failures, next_task_id>>
-----------------------------------------------------------------------------
(* Switching gives no answer and takes none back.                          *)
LEMMA SwitchesAns ==
    ASSUME IInv, AnsInv, Switches
    PROVE  AnsInv'
  <1>1. \A s \in Slots : SameAnswer(s)
    BY DEF Switches, SameTask
  <1>2. \A s \in Slots : frame'[s].at = "wait" => GoesOn(s) \/ StartsToWait(s)
    BY DEF Switches
  <1>3. UNCHANGED <<answer, fd_failures, next_task_id>>
    BY DEF Switches
  <1>4. ASSUME NEW s \in Slots PROVE Recorded(s)'
    <2>1. Recorded(s) /\ SameAnswer(s)
      BY <1>1, Zenon DEF AnsInv
    <2> QED BY <1>3, <2>1 DEF Recorded, SameAnswer
  <1>5. ASSUME NEW s \in Slots PROVE Returns(s)'
    <2> SUFFICES ASSUME frame'[s].at = "wait", Runnable(s)'
                 PROVE  Returns(s)'
      BY DEF Returns
    <2>1. PICK c \in Slots : c = frame[s].child
      BY TableFacts
    <2>2. Runnable(s) /\ SameWait(s)
      BY <1>2 DEF GoesOn, StartsToWait
    <2>3. Returns(s) /\ SameAnswer(c)
      BY <1>1 DEF AnsInv
    <2> QED BY <1>3, <2>1, <2>2, <2>3, Zenon DEF Returns, WaitResult, SameAnswer, SameWait
  <1>6. Fresh'
    BY <1>2, <1>3 DEF AnsInv, Fresh, GoesOn, StartsToWait, SameWait
  <1> QED BY <1>4, <1>5, <1>6 DEF AnsInv

(* A waiter woken by the end or the detaching of t was waiting for t.      *)
LEMMA WokenWaitsFor ==
    ASSUME IInv, NEW s \in Slots, NEW t \in Slots, tasks[t].id # 0,
           tasks[s].state = "BLOCKED", tasks[s].waiting_for = tasks[t].id
    PROVE  frame[s].child = t
  <1>1. /\ tasks[s].waiting_for = frame[s].task_id
        /\ tasks[frame[s].child].id = frame[s].task_id
    BY DEF IInv, WaitOK
  <1>2. frame[s].child \in Slots
    BY TableFacts
  <1>3. \A r \in Slots : tasks[r].id = tasks[t].id => r = t
    BY TableFacts, Zenon
  <1> QED BY <1>1, <1>2, <1>3, ZenonT(60)

(* An answer is given once: to a task that ends without having detached.   *)
LEMMA EndsSettles ==
    ASSUME IInv, AnsInv, NEW t, NEW code, Ends(t, code)
    PROVE  Settles(t)
  <1>1. /\ t \in Slots /\ tasks[t].id # 0 /\ tasks[t].state # "TERMINATED"
        /\ tasks'[t].id = tasks[t].id /\ tasks'[t].detached = tasks[t].detached
        /\ tasks'[t].exit_code = code /\ tasks'[t].state = "TERMINATED"
        /\ answer' = Answered(tasks[t].id, code)
        /\ UNCHANGED <<fd_failures, next_task_id>>
    BY Zenon DEF Ends
  <1>2. \A s \in Slots : s # t => SameAnswer(s)
    BY Zenon DEF Ends, SameTask
  <1>3. /\ \A s \in Slots : s # t /\ Runnable(s)' =>
              \/ Runnable(s)
              \/ (tasks[s].state = "BLOCKED" /\ tasks[s].waiting_for = tasks[t].id)
        /\ \A s \in Slots : SameWait(s) \/ (s = t /\ frame'[s].at = "user")
    BY Zenon DEF Ends
  <1>4. PICK w \in 1 .. MaxId : w = tasks[t].id
    BY <1>1, TableFacts
  <1>5. answer' = [answer EXCEPT ![w] = IF answer[w] = Detached THEN answer[w] ELSE code]
    BY <1>1, <1>4 DEF Answered
  <1>6. /\ answer'[w] = IF answer[w] = Detached THEN answer[w] ELSE code
        /\ \A i \in 1 .. MaxId : i # w => answer'[i] = answer[i]
    BY <1>5, Unblocked DEF Answers
  <1>7. NoCode # Detached
    BY TaskAssumption, SMTT(30) DEF Detached
  <1>8. answer[w] = IF tasks[t].detached THEN Detached ELSE NoCode
    BY <1>1, <1>4 DEF AnsInv, Recorded
  <1>9. answer'[w] = IF tasks[t].detached THEN Detached ELSE code
    BY <1>6, <1>7, <1>8, Zenon
  <1>10. ~Runnable(t)'
    BY <1>1, Zenon DEF Runnable
  <1> QED BY <1>1, <1>2, <1>3, <1>4, <1>6, <1>9, <1>10, ZenonT(60) DEF Settles

(* Detaching answers for good.                                             *)
LEMMA DetachesSettles ==
    ASSUME IInv, NEW t, Detaches(t)
    PROVE  Settles(t)
  <1>1. /\ t \in Slots /\ tasks[t].id # 0
        /\ tasks'[t].id = tasks[t].id /\ tasks'[t].detached
        /\ answer' = [answer EXCEPT ![tasks[t].id] = Detached]
        /\ UNCHANGED <<frame, fd_failures, next_task_id>>
    BY Zenon DEF Detaches
  <1>2. \A s \in Slots : s # t => SameAnswer(s)
    BY Zenon DEF Detaches, SameTask
  <1>3. \A s \in Slots : Runnable(s)' =>
           \/ Runnable(s)
           \/ (tasks[s].state = "BLOCKED" /\ tasks[s].waiting_for = tasks[t].id)
    BY Zenon DEF Detaches
  <1>4. PICK w \in 1 .. MaxId : w = tasks[t].id
    BY <1>1, TableFacts, Zenon
  <1>5. /\ answer'[w] = Detached
        /\ \A i \in 1 .. MaxId : i # w => answer'[i] = answer[i]
    BY <1>1, <1>4, Unblocked, Zenon DEF Answers
  <1>6. \A s \in Slots : SameWait(s)
    BY <1>1 DEF SameWait
  <1> QED BY <1>1, <1>2, <1>3, <1>4, <1>5, <1>6, Zenon DEF Settles

(* What t answers reaches its waiters and nobody else's.                   *)
LEMMA SettlesAns ==
    ASSUME IInv, AnsInv, NEW t, Settles(t)
    PROVE  AnsInv'
  <1>1. /\ t \in Slots /\ tasks'[t].id = tasks[t].id
        /\ tasks'[t].detached \/ tasks'[t].state = "TERMINATED"
        /\ UNCHANGED <<fd_failures, next_task_id>>
    BY Zenon DEF Settles
  <1>2. PICK w \in 1 .. MaxId : w = tasks[t].id
    BY TableFacts, Zenon DEF Settles
  <1>3. /\ answer'[w] = IF tasks'[t].detached THEN Detached ELSE tasks'[t].exit_code
        /\ \A i \in 1 .. MaxId : i # w => answer'[i] = answer[i]
    BY <1>2, Zenon DEF Settles
  <1>4. w # 0
    BY <1>2, Zenon DEF Settles
  <1>5. \A s \in Slots : s # t => SameAnswer(s)
    BY DEF Settles
  <1>6. \A s \in Slots : s # t => tasks[s].id # w
    BY <1>1, <1>2, <1>4, TableFacts
  <1>7. ASSUME NEW s \in Slots PROVE Recorded(s)'
    <2>1. CASE s = t
      BY <1>1, <1>2, <1>3, <2>1, Zenon DEF Recorded
    <2>2. CASE s # t
      <3>1. Recorded(s) /\ SameAnswer(s)
        BY <1>5, <2>2, Zenon DEF AnsInv
      <3>2. tasks[s].id # 0 => answer'[tasks[s].id] = answer[tasks[s].id]
        BY <1>3, <1>6, <2>2, TableFacts, Zenon
      <3> QED BY <1>1, <3>1, <3>2 DEF Recorded, SameAnswer
    <2> QED BY <2>1, <2>2, Zenon
  <1>8. ASSUME NEW s \in Slots PROVE Returns(s)'
    <2> SUFFICES ASSUME frame'[s].at = "wait", Runnable(s)',
                        tasks'[frame'[s].child].id = frame'[s].task_id
                 PROVE  Returns(s)'
      BY DEF Returns
    <2>1. PICK c \in Slots : c = frame[s].child
      BY TableFacts
    <2>2. PICK i : i = frame[s].task_id
      BY Zenon
    <2>3. frame[s].at = "wait" /\ frame'[s].child = c /\ frame'[s].task_id = i
      BY <2>1, <2>2, Zenon DEF Settles, SameWait
    <2>4. tasks[c].id = i
      BY <1>1, <1>5, <2>3, Zenon DEF SameAnswer
    <2>5. CASE c = t
      <3>1. i = w
        BY <1>2, <2>4, <2>5, Zenon
      <3> QED BY <1>1, <1>3, <1>4, <2>3, <2>5, <3>1, Zenon DEF Returns, WaitResult
    <2>6. CASE c # t
      <3>1. Runnable(s)
        BY <1>1, <1>2, <1>4, <2>1, <2>6, WokenWaitsFor, Zenon DEF Settles
      <3>2. /\ i # 0
            /\ tasks[c].detached \/ tasks[c].state = "TERMINATED"
            /\ WaitResult(s) = answer[i]
        BY <2>1, <2>2, <2>3, <2>4, <3>1, Zenon DEF AnsInv, Returns
      <3>3. answer'[i] = answer[i]
        BY <1>3, <1>6, <2>4, <2>6, <3>2, TableFacts, Zenon
      <3>4. SameAnswer(c)
        BY <1>5, <2>6
      <3> QED BY <2>1, <2>3, <3>2, <3>3, <3>4, Zenon DEF Returns, WaitResult, SameAnswer
    <2> QED BY <2>5, <2>6, Zenon
  <1>9. Fresh'
    <2>1. w < next_task_id /\ next_task_id \in Nat
      BY <1>1, <1>2, TableFacts, Zenon
    <2>2. \A i \in 1 .. MaxId : i >= next_task_id' => answer'[i] = NoCode
      BY <1>1, <1>3, <2>1, SMTT(30) DEF AnsInv, Fresh
    <2>3. \A s \in Slots : frame'[s].at = "wait" => frame'[s].task_id < next_task_id'
      BY <1>1 DEF AnsInv, Fresh, SameWait, Settles
    <2> QED BY <2>2, <2>3, Zenon DEF Fresh
  <1> QED BY <1>7, <1>8, <1>9, Zenon DEF AnsInv

(* A slot given to a new task no longer answers for the old one.           *)
LEMMA CreatesAns ==
    ASSUME IInv, AnsInv, NEW t, NEW b, NEW loaded \in BOOLEAN, Creates(t, b, loaded)
    PROVE  AnsInv'
  <1>1. /\ t \in Slots
        /\ tasks'[t].id = next_task_id /\ ~tasks'[t].detached
        /\ loaded => tasks'[t].state = "READY"
        /\ ~loaded => tasks'[t].state = "TERMINATED" /\ fd_failures' # 0
    BY DEF Creates
  <1>2. \A s \in Slots : s # t => SameAnswer(s) /\ tasks'[s].state = tasks[s].state
    BY Zenon DEF Creates, SameTask
  <1>3. /\ \A s \in Slots : s # t => frame'[s] = frame[s]
        /\ IF loaded THEN frame'[t] = UserCode ELSE frame'[t] = frame[t]
        /\ fd_failures' = 0 => fd_failures = 0
    BY DEF Creates
  <1>4. /\ next_task_id <= MaxId /\ next_task_id' = next_task_id + 1
        /\ answer' = answer
    BY Zenon DEF Creates
  <1>5. next_task_id \in 1 .. MaxId /\ MaxId \in Nat
    BY <1>4, TableFacts, OtherTypes
  <1>6. answer[next_task_id] = NoCode
    BY <1>5 DEF AnsInv, Fresh
  <1>7. ASSUME NEW s \in Slots PROVE Recorded(s)'
    <2>1. CASE s = t
      BY <1>1, <1>4, <1>6, <2>1, Zenon DEF Recorded
    <2>2. CASE s # t
      <3>1. Recorded(s) /\ SameAnswer(s)
        BY <1>2, <2>2, Zenon DEF AnsInv
      <3> QED BY <1>3, <1>4, <3>1, Zenon DEF Recorded, SameAnswer
    <2> QED BY <2>1, <2>2, Zenon
  <1>8. ASSUME NEW s \in Slots PROVE Returns(s)'
    <2> SUFFICES ASSUME frame'[s].at = "wait", Runnable(s)',
                        tasks'[frame'[s].child].id = frame'[s].task_id
                 PROVE  Returns(s)'
      BY Zenon DEF Returns
    <2>1. s # t
      BY <1>1, <1>3, SMTT(30) DEF Runnable, UserCode
    <2>2. frame'[s] = frame[s] /\ Runnable(s)
      BY <1>2, <1>3, <2>1, Zenon DEF Runnable
    <2>3. PICK c \in Slots : c = frame[s].child
      BY TableFacts, Zenon
    <2>4. frame[s].task_id < next_task_id /\ frame[s].task_id \in Nat
      BY <2>2, TableFacts, Zenon DEF AnsInv, Fresh, Ids
    <2>5. c # t
      BY <1>1, <1>5, <2>2, <2>3, <2>4, SMTT(30)
    <2>6. Returns(s) /\ SameAnswer(c)
      BY <1>2, <2>5 DEF AnsInv
    <2> QED BY <1>4, <2>2, <2>3, <2>6, Zenon DEF Returns, WaitResult, SameAnswer
  <1>9. Fresh'
    <2>1. \A i \in 1 .. MaxId : i >= next_task_id' => answer'[i] = NoCode
      BY <1>4, <1>5 DEF AnsInv, Fresh
    <2>2. ASSUME NEW s \in Slots, frame'[s].at = "wait"
          PROVE  frame'[s].task_id < next_task_id'
      <3>1. frame'[s] = frame[s]
        BY <1>3, <2>2, SMTT(30) DEF UserCode
      <3>2. frame[s].task_id < next_task_id /\ frame[s].task_id \in Nat
        BY <2>2, <3>1, TableFacts DEF AnsInv, Fresh, Ids
      <3> QED BY <1>4, <1>5, <3>1, <3>2, SMTT(30)
    <2> QED BY <2>1, <2>2 DEF Fresh
  <1> QED BY <1>7, <1>8, <1>9, Zenon DEF AnsInv

(* Giving back a stack changes no answer.                                  *)
LEMMA ReclaimsAns ==
    ASSUME IInv, AnsInv, NEW t, Reclaims(t)
    PROVE  AnsInv'
  <1>1. \A s \in Slots : SameAnswer(s) /\ tasks'[s].state = tasks[s].state
    BY Zenon DEF Reclaims, SameTask, SameAnswer
  <1>2. UNCHANGED <<frame, answer, fd_failures, next_task_id>>
    BY Zenon DEF Reclaims
  <1>3. ASSUME NEW s \in Slots PROVE Recorded(s)'
    <2>1. Recorded(s) /\ SameAnswer(s)
      BY <1>1, Zenon DEF AnsInv
    <2> QED BY <1>2, <2>1 DEF Recorded, SameAnswer
  <1>4. ASSUME NEW s \in Slots PROVE Returns(s)'
    <2>1. PICK c \in Slots : c = frame[s].child
      BY TableFacts
    <2>2. Returns(s) /\ SameAnswer(c) /\ tasks'[s].state = tasks[s].state
      BY <1>1, Zenon DEF AnsInv
    <2> QED BY <1>2, <2>1, <2>2, Zenon DEF Returns, Runnable, WaitResult, SameAnswer
  <1>5. Fresh'
    BY <1>2 DEF AnsInv, Fresh
  <1> QED BY <1>3, <1>4, <1>5, Zenon DEF AnsInv
-----------------------------------------------------------------------------
(* Every step keeps the answers.                                           *)
LEMMA NextAns ==
    ASSUME IInv, AnsInv, [Next]_vars
    PROVE  AnsInv'
  BY Kinds, SwitchesAns, EndsSettles, DetachesSettles, SettlesAns, CreatesAns,
     ReclaimsAns, ZenonT(60)

(* task_init owes nothing.                                                 *)
LEMMA InitAns ==
    ASSUME task_init
    PROVE  AnsInv
  <1>1. \A s \in Slots : tasks[s].id = 0 /\ frame[s].at = "user"
    BY DEF task_init, KernelTask, UnusedSlot, UserCode
  <1> QED BY <1>1 DEF task_init, AnsInv, Recorded, Returns, Fresh

(* wait and wait_nb answer with the exit code of the task they name, or    *)
(* with -3 when it detached, for any number of tasks, slots and waiters.   *)
THEOREM WaitsAreAnswered == Spec => []WaitAnswers
  <1>1. ASSUME IInv, AnsInv PROVE WaitAnswers
    <2>1. ASSUME NEW s \in Slots, tasks[s].state = "RUNNING", frame[s].at = "wait",
                 tasks[frame[s].child].id = frame[s].task_id
          PROVE  WaitResult(s) = answer[frame[s].task_id]
      BY <1>1, <2>1, Zenon DEF AnsInv, Returns, Runnable
    <2>2. ASSUME fd_failures = 0, NEW w \in 1 .. MaxId, Found(w)
          PROVE  sys_do_wait_nb(w) = IF answer[w] = NoCode THEN -1 ELSE answer[w]
      <3>1. PICK t \in Slots : t = task_get_by_id(w) /\ tasks[t].id = w
        BY <2>2, HolderFound
      <3>2. w # 0
        BY TaskAssumption
      <3>3. Recorded(t)
        BY <1>1, Zenon DEF AnsInv
      <3>4. /\ tasks[t].detached => answer[w] = Detached
            /\ ~tasks[t].detached /\ tasks[t].state # "TERMINATED" => answer[w] = NoCode
            /\ ~tasks[t].detached /\ tasks[t].state = "TERMINATED"
                  => answer[w] = tasks[t].exit_code
        BY <2>2, <3>1, <3>2, <3>3 DEF Recorded
      <3>5. tasks[t].exit_code # NoCode /\ Detached # NoCode
        <4>1. tasks[t].exit_code \in Codes
          BY <1>1, Unblocked DEF Table, TaskRecord
        <4>2. ExitCodes \subseteq Int /\ NoCode \notin Int
          BY TaskAssumption
        <4>3. \A x \in Codes : x \in Int
          BY <4>2 DEF Codes, KilledCode, PageFault
        <4>4. Detached \in Int
          BY DEF Detached
        <4> QED BY <4>1, <4>2, <4>3, <4>4, Zenon
      <3>6. sys_do_wait_nb(w) = IF tasks[t].detached THEN Detached
                                ELSE IF tasks[t].state = "TERMINATED"
                                THEN tasks[t].exit_code ELSE -1
        BY <2>2, <3>1 DEF sys_do_wait_nb
      <3> QED BY <3>4, <3>5, <3>6, Zenon
    <2> QED BY <2>1, <2>2, Zenon DEF WaitAnswers
  <1>2. task_init => IInv /\ AnsInv
    BY InitIInv, InitAns
  <1>3. (IInv /\ AnsInv) /\ [Next]_vars => (IInv /\ AnsInv)'
    BY NextIInv, NextAns
  <1> QED BY <1>1, <1>2, <1>3, PTL DEF Spec
=============================================================================
