-------------------------------- MODULE Task --------------------------------
(***************************************************************************)
(* proc/task.c and the process syscalls of syscall.c: the task table, the  *)
(* circular run list, spawn, exit, kill, wait, detach, yield, sleep and    *)
(* the round-robin scheduler.                                              *)
(*                                                                         *)
(* Syscall and exception gates are interrupt gates, so a handler runs with *)
(* interrupts off and is one step, cut only where it calls task_yield:     *)
(* inside sys_do_wait and in the loop of sys_do_sleepms.  What a task has  *)
(* left to do on its kernel stack is its frame.  The timer can interrupt   *)
(* user code and the idle loop of the kernel task (slot 0), nothing else.  *)
(***************************************************************************)
EXTENDS Integers, Sequences

CONSTANTS MaxTasks,       \* MAX_TASKS, slots of the table
          MaxId,          \* bound: the last task id a behaviour hands out
          MaxSleep,       \* bound: the longest sleep, in timer ticks
          MaxFdFailures,  \* bound: failed allocations of an fd table
          ExitCodes,      \* codes programs pass to exit
          Stacks,         \* kmalloc blocks of TASK_STACK_SIZE
          NoStack,        \* the NULL kernel_stack
          NoCode          \* no exit code yet

ASSUME TaskAssumption ==
    /\ MaxTasks \in Nat \ {0}
    /\ MaxId \in Nat
    /\ MaxSleep \in Nat
    /\ MaxFdFailures \in Nat
    /\ ExitCodes \subseteq Int
    /\ NoStack \notin Stacks
    /\ NoCode \notin Int

VARIABLES tasks,                \* tasks[MAX_TASKS]
          frame,                \* what each task resumes: user code or a handler
          ring,                 \* the run list in the order of ->next
          current_task,         \* slot of the running task
          next_task_id,
          multitasking_enabled,
          heap,                 \* kernel stacks allocated by kmalloc
          spaces,               \* address spaces alive, named by task id
          cr3,                  \* page directory loaded; 0 is the kernel's
          answer,               \* history: what wait owes for each id: its exit
                                \* code, or -3 once it has detached
          fd_failures           \* history: failed fd table allocations

vars == <<tasks, frame, ring, current_task, next_task_id,
          multitasking_enabled, heap, spaces, cr3, answer, fd_failures>>

Slots == 0 .. MaxTasks - 1
Ids == 0 .. MaxId
KilledCode == -9
Detached == -3
PageFault == 14
Codes == ExitCodes \cup {0, KilledCode, -PageFault}

(* The frame of a handler that yielded holds its local variables.          *)
UserCode == [at |-> "user", task_id |-> 0, child |-> 0, left |-> 0]
InWait(w, c) == [at |-> "wait", task_id |-> w, child |-> c, left |-> 0]
InSleep(n) == [at |-> "sleep", task_id |-> 0, child |-> 0, left |-> n]

KernelTask ==
    [id |-> 0, state |-> "RUNNING", waiting_for |-> 0, exit_code |-> 0,
     detached |-> FALSE, kernel_stack |-> NoStack, page_dir |-> 0,
     fd_table |-> FALSE]

(* A slot never used: memset leaves id 0 and state 0, which is TASK_READY. *)
UnusedSlot == [KernelTask EXCEPT !.state = "READY"]

task_init ==
    /\ tasks = [s \in Slots |-> IF s = 0 THEN KernelTask ELSE UnusedSlot]
    /\ frame = [s \in Slots |-> UserCode]
    /\ ring = <<0>>
    /\ current_task = 0
    /\ next_task_id = 1
    /\ multitasking_enabled = FALSE
    /\ heap = {}
    /\ spaces = {}
    /\ cr3 = 0
    /\ answer = [i \in 1 .. MaxId |-> NoCode]
    /\ fd_failures = 0
-----------------------------------------------------------------------------
(* schedule: the first READY task after slot c in run-list order, c itself *)
(* last, and the kernel task when there is none.                           *)
Position(c) == CHOOSE p \in 1 .. Len(ring) : ring[p] = c
After(c, k) == ring[((Position(c) - 1 + k) % Len(ring)) + 1]

NextReady(ts, c) ==
    LET steps == {k \in 1 .. Len(ring) : ts[After(c, k)].state = "READY"}
    IN  IF steps = {} THEN 0
        ELSE After(c, CHOOSE k \in steps : \A j \in steps : k <= j)

(* Mutant: the preempted task stays RUNNING.                               *)
Preempted_StaysRunning(ts, c) == ts

Preempted(ts, c) ==
    IF ts[c].state = "RUNNING" THEN [ts EXCEPT ![c].state = "READY"] ELSE ts

(* Mutant: the search starts over at the head of the list every time.      *)
schedule_FromHead(ts) ==
    LET ready == {k \in 1 .. Len(ring) : Preempted(ts, current_task)[ring[k]].state = "READY"}
        n == IF ready = {} THEN 0 ELSE ring[CHOOSE k \in ready : \A j \in ready : k <= j]
    IN  /\ current_task' = n
        /\ tasks' = [Preempted(ts, current_task) EXCEPT ![n].state = "RUNNING"]
        /\ cr3' = ts[n].page_dir

schedule(ts) ==
    LET saved == Preempted(ts, current_task)
        n == NextReady(saved, current_task)
    IN  /\ current_task' = n
        /\ tasks' = [saved EXCEPT ![n].state = "RUNNING"]
        /\ cr3' = saved[n].page_dir

(* Mutant: nobody is woken.                                                *)
Woken_Nobody(ts, w) == ts

(* Everyone blocked on task id w becomes READY (task_terminate, detach).   *)
Woken(ts, w) ==
    [s \in Slots |->
        IF ts[s].state = "BLOCKED" /\ ts[s].waiting_for = w
        THEN [ts[s] EXCEPT !.state = "READY", !.waiting_for = 0]
        ELSE ts[s]]

(* task_get_by_id: the first slot with that id, or none.                   *)
Holders(w) == {s \in Slots : tasks[s].id = w}
Found(w) == Holders(w) # {}
task_get_by_id(w) == CHOOSE s \in Holders(w) : \A r \in Holders(w) : s <= r
-----------------------------------------------------------------------------
(* task_terminate on the table: the waiters wake, the descriptor table and *)
(* the address space go; the kernel stack stays until the slot is reused.  *)
Terminated(ts, t, code) ==
    LET dead == [ts EXCEPT ![t].state = "TERMINATED", ![t].exit_code = code]
    IN  [Woken(dead, ts[t].id) EXCEPT ![t].fd_table = FALSE, ![t].page_dir = 0]

Answered(w, code) == [answer EXCEPT ![w] = IF @ = Detached THEN @ ELSE code]

task_exit_with_code(code) ==
    LET c == current_task
    IN  /\ c # 0
        /\ schedule(Terminated(tasks, c, code))
        /\ spaces' = spaces \ {tasks[c].page_dir}
        /\ answer' = Answered(tasks[c].id, code)
        /\ UNCHANGED <<frame, ring, next_task_id, multitasking_enabled, heap,
                       fd_failures>>

(* The current task executes a user instruction: slot 0 never does.        *)
InUserCode == current_task # 0 /\ frame[current_task] = UserCode

sys_do_exit(code) == InUserCode /\ task_exit_with_code(code)

idt_exception_handler(number) == InUserCode /\ task_exit_with_code(-number)

(* Mutant: the caller is left on the kernel's page directory.              *)
task_kill_KeepsKernelCr3(w) ==
    /\ InUserCode
    /\ Found(w) /\ task_get_by_id(w) \notin {0, current_task}
    /\ tasks[task_get_by_id(w)].state # "TERMINATED"
    /\ tasks' = Terminated(tasks, task_get_by_id(w), KilledCode)
    /\ cr3' = 0
    /\ spaces' = spaces \ {tasks[task_get_by_id(w)].page_dir}
    /\ answer' = Answered(w, KilledCode)
    /\ UNCHANGED <<frame, ring, current_task, next_task_id,
                   multitasking_enabled, heap, fd_failures>>

(* Refused for the kernel task and for one that is TERMINATED already.     *)
(* A handler the victim was in is never resumed: its frame is dropped.     *)
task_kill(w) ==
    LET t == task_get_by_id(w)
    IN  /\ InUserCode
        /\ Found(w) /\ t # 0 /\ tasks[t].state # "TERMINATED"
        /\ \/ t = current_task /\ task_exit_with_code(KilledCode)
           \/ /\ t # current_task
              /\ tasks' = Terminated(tasks, t, KilledCode)
              /\ cr3' = tasks[current_task].page_dir
              /\ spaces' = spaces \ {tasks[t].page_dir}
              /\ answer' = Answered(w, KilledCode)
              /\ frame' = [frame EXCEPT ![t] = UserCode]
              /\ UNCHANGED <<ring, current_task, next_task_id,
                             multitasking_enabled, heap, fd_failures>>
-----------------------------------------------------------------------------
FreeSlots == {s \in Slots \ {0} : tasks[s].state = "TERMINATED" \/ tasks[s].id = 0}
FirstFree == CHOOSE s \in FreeSlots : \A r \in FreeSlots : s <= r

(* A reused slot first gives back the stack its dead task ran on.          *)
Reclaimed(t) ==
    IF tasks[t].state = "TERMINATED"
    THEN [tasks EXCEPT ![t].kernel_stack = NoStack] ELSE tasks

(* Mutant: the leftover stack of a reused slot is forgotten.               *)
HeapReclaimed_Leak(t) == heap

HeapReclaimed(t) ==
    IF tasks[t].state = "TERMINATED" THEN heap \ {tasks[t].kernel_stack} ELSE heap

LinkedAfterCurrent(t) ==
    LET p == Position(current_task)
    IN  SubSeq(ring, 1, p) \o <<t>> \o SubSeq(ring, p + 1, Len(ring))

(* A slot is linked behind its creator once: a reused one already is.      *)
Linked(t) == IF tasks[t].state = "TERMINATED" THEN ring ELSE LinkedAfterCurrent(t)

(* Mutant: a reused slot keeps the detached flag of its last task.         *)
NewTask_KeepsDetached(old, stack, loaded) ==
    [old EXCEPT !.id = next_task_id,
                !.state = IF loaded THEN "READY" ELSE "TERMINATED",
                !.kernel_stack = stack,
                !.page_dir = next_task_id,
                !.fd_table = loaded]

(* The fields task_create_user_elf sets; exit_code and waiting_for keep    *)
(* what the slot's last task left in them.                                 *)
NewTask(old, stack, loaded) ==
    [old EXCEPT !.id = next_task_id,
                !.state = IF loaded THEN "READY" ELSE "TERMINATED",
                !.detached = FALSE,
                !.kernel_stack = stack,
                !.page_dir = next_task_id,
                !.fd_table = loaded]

Created(t, stack, loaded) ==
    [Reclaimed(t) EXCEPT ![t] = NewTask(@, stack, loaded)]

(* No address space, no ELF file or no kernel stack: nothing is created.   *)
CreateFailsEarly(t) ==
    /\ tasks' = Reclaimed(t)
    /\ heap' = HeapReclaimed(t)
    /\ UNCHANGED <<frame, ring, next_task_id, multitasking_enabled, spaces,
                   answer, fd_failures>>

(* No fd table: stack and address space are released, yet the slot keeps   *)
(* pointing at both and is TERMINATED whether it was linked or not.        *)
CreateFailsAtFdTable(t) ==
    /\ next_task_id <= MaxId
    /\ fd_failures < MaxFdFailures
    /\ \E b \in Stacks \ HeapReclaimed(t) :
          tasks' = Created(t, b, FALSE)
    /\ heap' = HeapReclaimed(t)
    /\ next_task_id' = next_task_id + 1
    /\ fd_failures' = fd_failures + 1
    /\ UNCHANGED <<frame, ring, multitasking_enabled, spaces, answer>>

CreateSucceeds(t) ==
    /\ next_task_id <= MaxId
    /\ \E b \in Stacks \ HeapReclaimed(t) :
          /\ tasks' = Created(t, b, TRUE)
          /\ heap' = HeapReclaimed(t) \cup {b}
    /\ spaces' = spaces \cup {next_task_id}
    /\ next_task_id' = next_task_id + 1
    /\ ring' = Linked(t)
    /\ frame' = [frame EXCEPT ![t] = UserCode]
    /\ multitasking_enabled' = TRUE
    /\ UNCHANGED <<answer, fd_failures>>

(* kernel_main starts the boot program and task_enable; without it the     *)
(* machine halts, which is no step.                                        *)
kernel_main ==
    /\ ~multitasking_enabled
    /\ FreeSlots # {}
    /\ CreateSucceeds(FirstFree)
    /\ UNCHANGED <<current_task, cr3>>

(* sys_do_spawn around task_create_user_elf: built on the kernel's page    *)
(* directory, left on the caller's.                                        *)
sys_do_spawn ==
    /\ InUserCode
    /\ FreeSlots # {}
    /\ \/ CreateSucceeds(FirstFree)
       \/ CreateFailsAtFdTable(FirstFree)
       \/ CreateFailsEarly(FirstFree)
    /\ cr3' = tasks[current_task].page_dir
    /\ UNCHANGED current_task
-----------------------------------------------------------------------------
(* Mutant: the flag is set and the waiters are forgotten.                  *)
sys_do_detach_NoWake ==
    /\ InUserCode
    /\ tasks' = [tasks EXCEPT ![current_task].detached = TRUE]
    /\ answer' = [answer EXCEPT ![tasks[current_task].id] = Detached]
    /\ UNCHANGED <<frame, ring, current_task, next_task_id, cr3,
                   multitasking_enabled, heap, spaces, fd_failures>>

sys_do_detach ==
    /\ InUserCode
    /\ tasks' = Woken([tasks EXCEPT ![current_task].detached = TRUE],
                      tasks[current_task].id)
    /\ answer' = [answer EXCEPT ![tasks[current_task].id] = Detached]
    /\ UNCHANGED <<frame, ring, current_task, next_task_id, cr3,
                   multitasking_enabled, heap, spaces, fd_failures>>

(* sys_do_wait_nb reads and changes nothing.                               *)
sys_do_wait_nb(w) ==
    LET child == tasks[task_get_by_id(w)]
    IN  IF ~Found(w) THEN -2
        ELSE IF child.detached THEN Detached
        ELSE IF child.state = "TERMINATED" THEN child.exit_code
        ELSE -1

(* The part of sys_do_wait up to its task_yield.  A child that is missing, *)
(* detached or TERMINATED is answered at once, which changes nothing.      *)
sys_do_wait(w) ==
    LET child == task_get_by_id(w)
    IN  /\ InUserCode
        /\ Found(w)
        /\ ~tasks[child].detached
        /\ tasks[child].state # "TERMINATED"
        /\ frame' = [frame EXCEPT ![current_task] = InWait(w, child)]
        /\ schedule([tasks EXCEPT ![current_task].waiting_for = w,
                                  ![current_task].state = "BLOCKED"])
        /\ UNCHANGED <<ring, next_task_id, multitasking_enabled, heap, spaces,
                       answer, fd_failures>>

(* What sys_do_wait returns after its task_yield, from the child pointer.  *)
WaitResult(s) ==
    LET child == tasks[frame[s].child]
    IN  IF child.detached THEN Detached ELSE child.exit_code

(* The rest of sys_do_wait, when the scheduler runs the waiter again.      *)
sys_do_wait_resumed ==
    LET c == current_task
    IN  /\ frame[c].at = "wait"
        /\ tasks' = [tasks EXCEPT ![c].waiting_for = 0]
        /\ frame' = [frame EXCEPT ![c] = UserCode]
        /\ UNCHANGED <<ring, current_task, next_task_id, multitasking_enabled,
                       heap, spaces, cr3, answer, fd_failures>>

sys_do_yield ==
    /\ InUserCode
    /\ schedule(tasks)
    /\ UNCHANGED <<frame, ring, next_task_id, multitasking_enabled, heap,
                   spaces, answer, fd_failures>>

(* sys_do_sleepms: at least one tick is slept, and every turn of the loop  *)
(* that finds ticks left yields.  left counts down what ticks - start      *)
(* counts up, in unsigned arithmetic that a wrapping counter cannot upset. *)
sys_do_sleepms(n) ==
    /\ InUserCode
    /\ frame' = [frame EXCEPT ![current_task] = InSleep(n)]
    /\ schedule(tasks)
    /\ UNCHANGED <<ring, next_task_id, multitasking_enabled, heap, spaces,
                   answer, fd_failures>>

sys_do_sleepms_resumed ==
    LET c == current_task
    IN  /\ frame[c].at = "sleep"
        /\ \/ /\ frame[c].left > 0
              /\ schedule(tasks)
              /\ UNCHANGED frame
           \/ /\ frame[c].left = 0
              /\ frame' = [frame EXCEPT ![c] = UserCode]
              /\ UNCHANGED <<tasks, current_task, cr3>>
        /\ UNCHANGED <<ring, next_task_id, multitasking_enabled, heap, spaces,
                       answer, fd_failures>>

(* Mutant: the system clock stands still.                                  *)
SleepersAfterTick_Stuck == frame

SleepersAfterTick ==
    [s \in Slots |-> IF frame[s].left > 0
                     THEN [frame[s] EXCEPT !.left = @ - 1] ELSE frame[s]]

(* The hardware tick, where interrupts are enabled.                        *)
timer_handler_switch ==
    /\ multitasking_enabled
    /\ frame[current_task] = UserCode
    /\ frame' = SleepersAfterTick
    /\ schedule(tasks)
    /\ UNCHANGED <<ring, next_task_id, multitasking_enabled, heap, spaces,
                   answer, fd_failures>>
-----------------------------------------------------------------------------
Next ==
    \/ kernel_main
    \/ timer_handler_switch
    \/ sys_do_spawn
    \/ \E code \in ExitCodes : sys_do_exit(code)
    \/ idt_exception_handler(PageFault)
    \/ \E w \in Ids : task_kill(w)
    \/ \E w \in Ids : sys_do_wait(w)
    \/ sys_do_wait_resumed
    \/ sys_do_detach
    \/ sys_do_yield
    \/ \E n \in 1 .. MaxSleep : sys_do_sleepms(n)
    \/ sys_do_sleepms_resumed

Spec == task_init /\ [][Next]_vars
-----------------------------------------------------------------------------
TaskRecord ==
    [id : Ids, state : {"READY", "RUNNING", "BLOCKED", "TERMINATED"},
     waiting_for : Ids, exit_code : Codes, detached : BOOLEAN,
     kernel_stack : Stacks \cup {NoStack}, page_dir : Ids, fd_table : BOOLEAN]

TypeOK ==
    /\ tasks \in [Slots -> TaskRecord]
    /\ frame \in [Slots -> [at : {"user", "wait", "sleep"}, task_id : Ids,
                            child : Slots, left : 0 .. MaxSleep]]
    /\ ring \in Seq(Slots)
    /\ current_task \in Slots
    /\ next_task_id \in 1 .. MaxId + 1
    /\ multitasking_enabled \in BOOLEAN
    /\ heap \subseteq Stacks
    /\ spaces \subseteq Ids
    /\ cr3 \in Ids
    /\ answer \in [1 .. MaxId -> Codes \cup {Detached, NoCode}]
    /\ fd_failures \in 0 .. MaxFdFailures

Live(s) == tasks[s].id # 0 /\ tasks[s].state # "TERMINATED"

(* The scheduler's two records of who runs agree: the current task is      *)
(* RUNNING and no other is, through exits, kills, blocking and preemption, *)
(* and the fallback to slot 0 finds it runnable (task.c schedule).         *)
OneRunning ==
    /\ \A s \in Slots : tasks[s].state = "RUNNING" <=> s = current_task
    /\ tasks[0].state \in {"READY", "RUNNING"}

(* No lost wakeup: whoever is BLOCKED in wait is there for a task that is  *)
(* still to exit or detach, and its child pointer still names that task    *)
(* (syscall.c sys_do_wait, the wake loops of task_terminate and detach).   *)
NoLostWakeup ==
    \A s \in Slots : tasks[s].state = "BLOCKED" =>
        LET child == tasks[frame[s].child]
        IN  /\ frame[s].at = "wait"
            /\ tasks[s].waiting_for = frame[s].task_id
            /\ child.id = frame[s].task_id
            /\ child.state # "TERMINATED"
            /\ ~child.detached

(* The loaded page directory is the current task's and has not been        *)
(* destroyed, after a kill of another task as well (task.c:497-512).       *)
Cr3IsCurrent ==
    /\ cr3 = tasks[current_task].page_dir
    /\ cr3 # 0 => cr3 \in spaces

(* As long as no fd table allocation failed, every live task owns a kernel *)
(* stack, an address space and an fd table, no two slots share a stack,    *)
(* and nothing is allocated that no slot owns (task.c create, terminate).  *)
NothingSharedOrLeaked ==
    fd_failures = 0 =>
        /\ \A s \in Slots : Live(s) =>
              /\ tasks[s].kernel_stack \in heap
              /\ tasks[s].page_dir = tasks[s].id
              /\ tasks[s].fd_table
        /\ \A s, t \in Slots :
              s # t /\ tasks[s].kernel_stack = tasks[t].kernel_stack
                  => tasks[s].kernel_stack = NoStack
        /\ heap = {tasks[s].kernel_stack : s \in Slots} \ {NoStack}
        /\ spaces = {tasks[s].page_dir : s \in Slots} \ {0}

(* Both waits answer with what the task they name did, its exit code or -3 *)
(* once it has detached, while its slot still holds it.                    *)
WaitAnswers ==
    /\ \A s \in Slots :
          tasks[s].state = "RUNNING" /\ frame[s].at = "wait"
              /\ tasks[frame[s].child].id = frame[s].task_id
          => WaitResult(s) = answer[frame[s].task_id]
    /\ fd_failures = 0 =>
          \A w \in 1 .. MaxId : Found(w) =>
              sys_do_wait_nb(w) = IF answer[w] = NoCode THEN -1 ELSE answer[w]
-----------------------------------------------------------------------------
(* The comment on sys_do_wait, "block until a child task exits, return its *)
(* exit code", without assuming that the child's slot is still the child's.*)
WaitReturnsChildsCode ==
    \A s \in Slots :
        tasks[s].state = "RUNNING" /\ frame[s].at = "wait"
            => WaitResult(s) = answer[frame[s].task_id]

(* The comment at task.c:380, "skip if reusing - already linked": a task   *)
(* that was created is on the run list.                                    *)
CreatedTasksAreLinked ==
    \A s \in Slots : Live(s) => \E i \in 1 .. Len(ring) : ring[i] = s

(* The comment at task.c:197, "free leftover kernel stack from terminated  *)
(* task": reusing a slot never frees the stack of a task that is alive.    *)
LiveStacksAllocated ==
    \A s \in Slots : Live(s) => tasks[s].kernel_stack \in heap
-----------------------------------------------------------------------------
(* The timer keeps interrupting whatever runs with interrupts enabled, and *)
(* a handler that is running returns or yields.                            *)
FairSpec ==
    /\ Spec
    /\ WF_vars(timer_handler_switch)
    /\ WF_vars(sys_do_wait_resumed)
    /\ WF_vars(sys_do_sleepms_resumed)

(* Round robin: a READY task on the run list runs, unless it is killed     *)
(* first.                                                                  *)
ReadyRuns ==
    \A s \in Slots :
        ((\E i \in 1 .. Len(ring) : ring[i] = s) /\ tasks[s].state = "READY")
            ~> (current_task = s \/ tasks[s].state = "TERMINATED")

(* A task waiting for one that has exited or detached gets its answer.     *)
WaiterReturns ==
    \A s \in Slots, w \in 1 .. MaxId :
        (frame[s].at = "wait" /\ frame[s].task_id = w /\ answer[w] # NoCode)
            ~> (frame[s].at # "wait" \/ tasks[s].state = "TERMINATED")

(* A sleep ends: sleepers that yield to each other never keep the kernel   *)
(* task, the only place where ticks arrive, from running.                  *)
SleepEnds ==
    \A s \in Slots :
        frame[s].at = "sleep"
            ~> (frame[s].at # "sleep" \/ tasks[s].state = "TERMINATED")
=============================================================================
