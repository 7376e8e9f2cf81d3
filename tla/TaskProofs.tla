----------------------------- MODULE TaskProofs -----------------------------
(***************************************************************************)
(* Proofs about Task, for any number of slots, ids, stacks and failures.   *)
(* The parts of the inductive invariant are stated for any task table ts,  *)
(* so that they can be established for the table a handler builds before   *)
(* it calls schedule, and then carried over the scheduler's own changes.   *)
(***************************************************************************)
EXTENDS Task, WellFoundedInduction, TLAPS

Table == [Slots -> TaskRecord]
Frames == [Slots -> [at : {"user", "wait", "sleep"}, task_id : Ids,
                     child : Slots, left : 0 .. MaxSleep]]

OnList(s) == \E i \in 1 .. Len(ring) : ring[i] = s

(* The scheduler always finds its way: both slots it may start from or     *)
(* fall back to are on the list.                                           *)
RingOK == OnList(0) /\ OnList(current_task)

(* NoLostWakeup, and only slot 0 is ever found under id 0.                 *)
WaitOK(ts, fr) ==
    \A s \in Slots : ts[s].state = "BLOCKED" =>
        /\ fr[s].at = "wait"
        /\ ts[s].waiting_for = fr[s].task_id
        /\ ts[fr[s].child].id = fr[s].task_id
        /\ ts[fr[s].child].state # "TERMINATED"
        /\ ~ts[fr[s].child].detached
        /\ fr[s].task_id = 0 => fr[s].child = 0

IdsOK(ts, n) ==
    /\ ts[0].id = 0
    /\ \A s \in Slots : ts[s].id < n
    /\ \A s, t \in Slots : ts[s].id = ts[t].id => s = t \/ ts[s].id = 0

(* A task owns the address space named after it as long as it is alive.    *)
SpacesOK(ts, sp) ==
    \A s \in Slots :
        /\ ts[s].page_dir \in {0, ts[s].id}
        /\ ts[s].state # "TERMINATED" => ts[s].page_dir = 0 \/ ts[s].page_dir \in sp

(* Only slots that were given a task are on the list.                      *)
ListOK(ts, list) ==
    \A i \in 1 .. Len(list) : list[i] = 0 \/ ts[list[i]].id # 0

(* What a handler may hand to schedule.                                    *)
RunnableOK(ts) ==
    /\ ts[0].state \in {"READY", "RUNNING"}
    /\ \A s \in Slots : ts[s].state = "RUNNING" => s = current_task

IInv ==
    /\ TypeOK
    /\ OneRunning
    /\ WaitOK(tasks, frame)
    /\ IdsOK(tasks, next_task_id)
    /\ SpacesOK(tasks, spaces)
    /\ cr3 = tasks[current_task].page_dir
    /\ RingOK
    /\ ListOK(tasks, ring)
-----------------------------------------------------------------------------
(* Slot 0 is the kernel task and 0 its id (task_init).                     *)
LEMMA ZeroSlot == 0 \in Slots /\ 0 \in Ids
  BY TaskAssumption DEF Slots, Ids

(* IdsOK speaks of the ids alone.                                          *)
LEMMA SameIds ==
    ASSUME NEW ts, NEW us, NEW n, IdsOK(ts, n),
           \A s \in Slots : us[s].id = ts[s].id
    PROVE  IdsOK(us, n)
  <1>1. us[0].id = 0
    BY ZeroSlot, ZenonT(60) DEF IdsOK
  <1>2. \A s \in Slots : us[s].id < n
    BY ZenonT(60) DEF IdsOK
  <1>3. \A s, t \in Slots : us[s].id = us[t].id => s = t \/ us[s].id = 0
    BY ZenonT(60) DEF IdsOK
  <1> QED BY <1>1, <1>2, <1>3, ZenonT(60) DEF IdsOK

(* The types of the variables the task table and the frames do not hold.   *)
LEMMA OtherTypes ==
    ASSUME IInv
    PROVE  /\ heap \subseteq Stacks /\ spaces \subseteq Ids
           /\ next_task_id \in 1 .. MaxId + 1
           /\ multitasking_enabled \in BOOLEAN
           /\ fd_failures \in 0 .. MaxFdFailures
           /\ ring \in Seq(Slots) /\ RingOK
           /\ MaxId \in Nat /\ MaxFdFailures \in Nat
  BY TaskAssumption DEF IInv, TypeOK

(* What the theorems of the library say of sequences, as far as the list   *)
(* of slots needs it.                                                      *)
LEMMA LenProperties ==
    ASSUME NEW S, NEW q \in Seq(S)
    PROVE  Len(q) \in Nat /\ q \in [1 .. Len(q) -> S] /\ DOMAIN q = 1 .. Len(q)
  OBVIOUS

(* Two lists of slots joined.                                              *)
LEMMA ConcatProperties ==
    ASSUME NEW S, NEW q \in Seq(S), NEW r \in Seq(S)
    PROVE  /\ q \o r \in Seq(S)
           /\ Len(q \o r) = Len(q) + Len(r)
           /\ \A i \in 1 .. Len(q) + Len(r) :
                 (q \o r)[i] = IF i <= Len(q) THEN q[i] ELSE r[i - Len(q)]
  OBVIOUS

(* A piece of a list of slots.                                             *)
LEMMA SubSeqProperties ==
    ASSUME NEW S, NEW q, NEW m \in Int, NEW n \in Int, \A i \in m .. n : q[i] \in S
    PROVE  /\ SubSeq(q, m, n) \in Seq(S)
           /\ Len(SubSeq(q, m, n)) = IF m <= n THEN n - m + 1 ELSE 0
           /\ \A i \in 1 .. n - m + 1 : SubSeq(q, m, n)[i] = q[m + i - 1]
  OBVIOUS

(* The remainder of a division by a list's length is an index of it.       *)
LEMMA ModRange ==
    ASSUME NEW x \in Int, NEW n \in Nat, n > 0
    PROVE  x % n \in 0 .. n - 1
  OBVIOUS

(* A nonempty set of naturals has a least element.                         *)
LEMMA LeastExists ==
    ASSUME NEW T \in SUBSET Nat, T # {}
    PROVE  \E x \in T : \A y \in T : x <= y
  <1>1. \E x \in T : \A y \in T : ~ (<<y, x>> \in OpToRel(<, Nat))
    BY NatLessThanWellFounded, WFMin
  <1>2. \A x, y \in Nat : ~ (<<y, x>> \in OpToRel(<, Nat)) => x <= y
    BY DEF OpToRel
  <1> QED BY <1>1, <1>2

(* A slot on the run list has a position in it.                            *)
LEMMA PositionOnList ==
    ASSUME NEW c, OnList(c)
    PROVE  Position(c) \in 1 .. Len(ring) /\ ring[Position(c)] = c
  BY DEF Position, OnList

(* Stepping along the list from a slot on it stays on it (task_t.next).    *)
LEMMA AfterOnList ==
    ASSUME ring \in Seq(Slots), NEW c, OnList(c), NEW k \in Nat
    PROVE  After(c, k) \in Slots /\ OnList(After(c, k))
  <1>1. Position(c) \in 1 .. Len(ring)
    BY DEF Position, OnList
  <1>2. Len(ring) \in Nat /\ Len(ring) > 0
    BY <1>1, LenProperties
  <1> DEFINE x == Position(c) - 1 + k
  <1>3. x \in Int
    BY <1>1, <1>2
  <1>4. x % Len(ring) \in 0 .. Len(ring) - 1
    BY <1>2, <1>3, ModRange
  <1>5. (x % Len(ring)) + 1 \in 1 .. Len(ring)
    <2> DEFINE r == x % Len(ring)
    <2>1. r \in 0 .. Len(ring) - 1
      BY <1>4
    <2> HIDE DEF r
    <2>2. r + 1 \in 1 .. Len(ring)
      BY <1>2, <2>1
    <2> QED BY <2>2 DEF r
  <1>6. After(c, k) = ring[(x % Len(ring)) + 1]
    BY DEF After
  <1> HIDE DEF x
  <1>7. \A i \in 1 .. Len(ring) : ring[i] \in Slots
    BY LenProperties
  <1> QED BY <1>5, <1>6, <1>7 DEF OnList

(* schedule picks a READY task of the list or the kernel task.             *)
LEMMA NextReadyPicks ==
    ASSUME ring \in Seq(Slots), NEW ts, NEW c, OnList(c), OnList(0), 0 \in Slots
    PROVE  /\ NextReady(ts, c) \in Slots
           /\ OnList(NextReady(ts, c))
           /\ NextReady(ts, c) = 0 \/ ts[NextReady(ts, c)].state = "READY"
  <1> DEFINE steps == {k \in 1 .. Len(ring) : ts[After(c, k)].state = "READY"}
  <1>1. CASE steps = {}
    BY <1>1 DEF NextReady
  <1>2. CASE steps # {}
    <2> DEFINE m == CHOOSE k \in steps : \A j \in steps : k <= j
    <2>0. Len(ring) \in Nat
      BY LenProperties
    <2>1. m \in steps
      <3>1. \A k \in steps : k \in Nat
        BY <2>0
      <3>2. \E k \in steps : \A j \in steps : k <= j
        BY <1>2, <3>1, LeastExists, Zenon
      <3> QED BY <3>2
    <2>2. NextReady(ts, c) = After(c, m)
      BY <1>2 DEF NextReady
    <2>3. m \in Nat /\ ts[After(c, m)].state = "READY"
      BY <2>0, <2>1
    <2> QED BY <2>2, <2>3, AfterOnList
  <1> QED BY <1>1, <1>2
-----------------------------------------------------------------------------
(* Everything in a task record but its state.                              *)
SameButState(r, q) ==
    /\ r.id = q.id
    /\ r.waiting_for = q.waiting_for
    /\ r.exit_code = q.exit_code
    /\ r.detached = q.detached
    /\ r.kernel_stack = q.kernel_stack
    /\ r.page_dir = q.page_dir
    /\ r.fd_table = q.fd_table

(* The names under which lemmas and their uses agree on an expression.     *)
InsertAfter(r, p, t) == SubSeq(r, 1, p) \o <<t>> \o SubSeq(r, p + 1, Len(r))

SetTo(ts, n, st) == [ts EXCEPT ![n].state = st]

(* Storing to one task's state leaves every other field as it was.         *)
LEMMA SetState ==
    ASSUME NEW ts \in Table, NEW n \in Slots,
           NEW st \in {"READY", "RUNNING", "BLOCKED", "TERMINATED"}
    PROVE  /\ SetTo(ts, n, st) \in Table
           /\ \A s \in Slots :
                 /\ SameButState(SetTo(ts, n, st)[s], ts[s])
                 /\ SetTo(ts, n, st)[s].state = IF s = n THEN st ELSE ts[s].state
  BY DEF SetTo, Table, TaskRecord, SameButState

(* schedule only moves tasks between READY and RUNNING, and leaves exactly *)
(* the task it picked RUNNING (task.c schedule).                           *)
LEMMA ScheduleTable ==
    ASSUME ring \in Seq(Slots), current_task \in Slots, 0 \in Slots, RingOK,
           NEW ts \in Table, RunnableOK(ts), schedule(ts)
    PROVE  /\ tasks' \in Table
           /\ current_task' \in Slots
           /\ OnList(current_task')
           /\ \A s \in Slots : SameButState(tasks'[s], ts[s])
           /\ \A s \in Slots : tasks'[s].state = "RUNNING" <=> s = current_task'
           /\ \A s \in Slots :
                 tasks'[s].state = "TERMINATED" <=> ts[s].state = "TERMINATED"
           /\ \A s \in Slots :
                 tasks'[s].state = "BLOCKED" <=> ts[s].state = "BLOCKED"
           /\ tasks'[0].state \in {"READY", "RUNNING"}
           /\ cr3' = tasks'[current_task'].page_dir
  <1> DEFINE saved == Preempted(ts, current_task)
             n == NextReady(saved, current_task)
  <1>1. /\ saved \in Table
        /\ \A s \in Slots : SameButState(saved[s], ts[s])
        /\ \A s \in Slots : saved[s].state =
              IF s = current_task /\ ts[s].state = "RUNNING" THEN "READY"
              ELSE ts[s].state
    BY DEF Preempted, Table, TaskRecord, SameButState
  <1>2. /\ n \in Slots
        /\ OnList(n)
        /\ n = 0 \/ saved[n].state = "READY"
    BY NextReadyPicks DEF RingOK
  <1>3. /\ current_task' = n
        /\ tasks' = SetTo(saved, n, "RUNNING")
        /\ cr3' = saved[n].page_dir
    BY DEF schedule, SetTo
  <1> HIDE DEF saved, n
  <1>4. /\ tasks' \in Table
        /\ \A s \in Slots : SameButState(tasks'[s], saved[s])
        /\ \A s \in Slots : tasks'[s].state =
              IF s = n THEN "RUNNING" ELSE saved[s].state
    <2> DEFINE next == SetTo(saved, n, "RUNNING")
    <2>1. /\ next \in Table
          /\ \A s \in Slots :
                /\ SameButState(next[s], saved[s])
                /\ next[s].state = IF s = n THEN "RUNNING" ELSE saved[s].state
      BY <1>1, <1>2, SetState
    <2>2. tasks' = next
      BY <1>3
    <2> HIDE DEF next
    <2> QED BY <2>1, <2>2
  <1>5. \A s \in Slots : SameButState(tasks'[s], ts[s])
    BY <1>1, <1>4 DEF SameButState
  <1>6. cr3' = tasks'[n].page_dir
    BY <1>2, <1>3, <1>4 DEF SameButState
  <1>7. /\ ts[0].state \in {"READY", "RUNNING"}
        /\ \A s \in Slots : ts[s].state = "RUNNING" => s = current_task
    BY DEF RunnableOK
  <1>8. \A s \in Slots : saved[s].state # "RUNNING"
    BY <1>1, <1>7
  <1>9. saved[0].state = "READY" /\ saved[n].state = "READY"
    BY <1>1, <1>2, <1>7
  <1> QED BY <1>1, <1>2, <1>3, <1>4, <1>5, <1>6, <1>8, <1>9

(* So whatever a handler established for the table it built still holds.   *)
LEMMA ScheduleKeeps ==
    ASSUME ring \in Seq(Slots), current_task \in Slots, 0 \in Slots, RingOK,
           NEW ts \in Table, RunnableOK(ts), schedule(ts),
           NEW fr \in Frames, NEW n, NEW sp,
           WaitOK(ts, fr), IdsOK(ts, n), SpacesOK(ts, sp)
    PROVE  WaitOK(tasks', fr) /\ IdsOK(tasks', n) /\ SpacesOK(tasks', sp)
  <1>1. /\ \A s \in Slots : SameButState(tasks'[s], ts[s])
        /\ \A s \in Slots :
              tasks'[s].state = "TERMINATED" <=> ts[s].state = "TERMINATED"
        /\ \A s \in Slots :
              tasks'[s].state = "BLOCKED" <=> ts[s].state = "BLOCKED"
    BY ScheduleTable
  <1>2. \A s \in Slots : fr[s].child \in Slots
    BY DEF Frames
  <1>3. WaitOK(tasks', fr)
    BY <1>1, <1>2 DEF WaitOK, SameButState
  <1>4. IdsOK(tasks', n)
    BY <1>1 DEF IdsOK, SameButState
  <1>5. SpacesOK(tasks', sp)
    BY <1>1 DEF SpacesOK, SameButState
  <1> QED BY <1>3, <1>4, <1>5
-----------------------------------------------------------------------------
(* The wake loop turns BLOCKED into READY for those who wait for w.        *)
LEMMA WokenTable ==
    ASSUME NEW ts \in Table, NEW w \in Ids
    PROVE  /\ Woken(ts, w) \in Table
           /\ \A s \in Slots :
                 LET r == Woken(ts, w)[s] IN
                 /\ r.id = ts[s].id /\ r.detached = ts[s].detached
                 /\ r.page_dir = ts[s].page_dir
                 /\ r.kernel_stack = ts[s].kernel_stack
                 /\ r.fd_table = ts[s].fd_table /\ r.exit_code = ts[s].exit_code
                 /\ r.state = IF ts[s].state = "BLOCKED" /\ ts[s].waiting_for = w
                              THEN "READY" ELSE ts[s].state
                 /\ r.state = "BLOCKED" => r.waiting_for = ts[s].waiting_for
  <1>1. 0 \in Ids
    BY TaskAssumption DEF Ids
  <1> QED BY <1>1, ZenonT(60) DEF Woken, Table, TaskRecord

(* What task_terminate stores: one dead task and its woken waiters.        *)
LEMMA TerminatedTable ==
    ASSUME NEW ts \in Table, NEW t \in Slots, NEW code \in Codes
    PROVE  /\ Terminated(ts, t, code) \in Table
           /\ \A s \in Slots :
                 LET r == Terminated(ts, t, code)[s] IN
                 /\ r.id = ts[s].id /\ r.detached = ts[s].detached
                 /\ r.page_dir = IF s = t THEN 0 ELSE ts[s].page_dir
                 /\ r.kernel_stack = ts[s].kernel_stack
                 /\ r.exit_code = IF s = t THEN code ELSE ts[s].exit_code
                 /\ s # t => r.fd_table = ts[s].fd_table
                 /\ r.state = IF s = t THEN "TERMINATED"
                              ELSE IF ts[s].state = "BLOCKED"
                                      /\ ts[s].waiting_for = ts[t].id
                              THEN "READY" ELSE ts[s].state
                 /\ r.state = "BLOCKED" => r.waiting_for = ts[s].waiting_for
  <1> DEFINE dead == [ts EXCEPT ![t].state = "TERMINATED", ![t].exit_code = code]
             woken == Woken(dead, ts[t].id)
  <1>1. dead \in Table /\ ts[t].id \in Ids
    BY ZenonT(60) DEF Table, TaskRecord
  <1>2. \A s \in Slots :
           /\ dead[s].id = ts[s].id /\ dead[s].detached = ts[s].detached
           /\ dead[s].page_dir = ts[s].page_dir
           /\ dead[s].kernel_stack = ts[s].kernel_stack
           /\ dead[s].exit_code = IF s = t THEN code ELSE ts[s].exit_code
           /\ dead[s].fd_table = ts[s].fd_table
           /\ dead[s].waiting_for = ts[s].waiting_for
           /\ dead[s].state = IF s = t THEN "TERMINATED" ELSE ts[s].state
    BY DEF Table, TaskRecord
  <1> HIDE DEF dead
  <1>3. /\ woken \in Table
        /\ \A s \in Slots :
              /\ woken[s].id = dead[s].id /\ woken[s].detached = dead[s].detached
              /\ woken[s].page_dir = dead[s].page_dir
              /\ woken[s].kernel_stack = dead[s].kernel_stack
              /\ woken[s].fd_table = dead[s].fd_table
              /\ woken[s].exit_code = dead[s].exit_code
              /\ woken[s].state =
                    IF dead[s].state = "BLOCKED" /\ dead[s].waiting_for = ts[t].id
                    THEN "READY" ELSE dead[s].state
              /\ woken[s].state = "BLOCKED" => woken[s].waiting_for = dead[s].waiting_for
    BY <1>1, WokenTable
  <1>4. Terminated(ts, t, code) =
           [woken EXCEPT ![t].fd_table = FALSE, ![t].page_dir = 0]
    BY DEF Terminated, dead
  <1> HIDE DEF woken
  <1>5. 0 \in Ids
    BY TaskAssumption DEF Ids
  <1> DEFINE last == [woken EXCEPT ![t].fd_table = FALSE, ![t].page_dir = 0]
  <1>6. /\ last \in Table
        /\ \A s \in Slots :
              /\ last[s].id = woken[s].id /\ last[s].detached = woken[s].detached
              /\ last[s].page_dir = IF s = t THEN 0 ELSE woken[s].page_dir
              /\ last[s].kernel_stack = woken[s].kernel_stack
              /\ last[s].exit_code = woken[s].exit_code
              /\ s # t => last[s].fd_table = woken[s].fd_table
              /\ last[s].state = woken[s].state
              /\ last[s].waiting_for = woken[s].waiting_for
    <2>1. woken \in Table
      BY <1>3
    <2> QED BY <1>5, <2>1, ZenonT(60) DEF Table, TaskRecord
  <1> HIDE DEF last
  <1>7. Terminated(ts, t, code) = last
    BY <1>4 DEF last
  <1> QED BY <1>2, <1>3, <1>6, <1>7

(* Ending task t wakes whoever waits for it and takes away its address     *)
(* space and nobody else's, because ids are not shared.                    *)
LEMMA TerminatedKeeps ==
    ASSUME NEW ts \in Table, NEW t \in Slots, NEW code \in Codes, t # 0,
           NEW fr \in Frames, NEW fr2, NEW n, NEW sp,
           \A s \in Slots \ {t} : fr2[s] = fr[s],
           WaitOK(ts, fr), IdsOK(ts, n), SpacesOK(ts, sp)
    PROVE  /\ WaitOK(Terminated(ts, t, code), fr2)
           /\ IdsOK(Terminated(ts, t, code), n)
           /\ SpacesOK(Terminated(ts, t, code), sp \ {ts[t].page_dir})
  <1> DEFINE u == Terminated(ts, t, code)
  <1>1. /\ u \in Table
        /\ \A s \in Slots :
              /\ u[s].id = ts[s].id /\ u[s].detached = ts[s].detached
              /\ u[s].page_dir = IF s = t THEN 0 ELSE ts[s].page_dir
              /\ u[s].state = IF s = t THEN "TERMINATED"
                              ELSE IF ts[s].state = "BLOCKED"
                                      /\ ts[s].waiting_for = ts[t].id
                              THEN "READY" ELSE ts[s].state
              /\ u[s].state = "BLOCKED" => u[s].waiting_for = ts[s].waiting_for
    BY TerminatedTable
  <1>2. \A s \in Slots : fr[s].child \in Slots
    BY DEF Frames
  <1> HIDE DEF u
  <1>3. WaitOK(u, fr2)
    <2> SUFFICES ASSUME NEW s \in Slots, u[s].state = "BLOCKED"
                 PROVE  /\ fr2[s].at = "wait"
                        /\ u[s].waiting_for = fr2[s].task_id
                        /\ u[fr2[s].child].id = fr2[s].task_id
                        /\ u[fr2[s].child].state # "TERMINATED"
                        /\ ~u[fr2[s].child].detached
                        /\ fr2[s].task_id = 0 => fr2[s].child = 0
      BY DEF WaitOK
    <2>1. s # t /\ ts[s].state = "BLOCKED" /\ ts[s].waiting_for # ts[t].id
      BY <1>1
    <2>2. fr2[s] = fr[s]
      BY <2>1
    <2>3. /\ fr[s].at = "wait"
          /\ ts[s].waiting_for = fr[s].task_id
          /\ ts[fr[s].child].id = fr[s].task_id
          /\ ts[fr[s].child].state # "TERMINATED"
          /\ ~ts[fr[s].child].detached
          /\ fr[s].task_id = 0 => fr[s].child = 0
      BY <2>1 DEF WaitOK
    <2>4. fr[s].child # t
      BY <2>1, <2>3
    <2> QED BY <1>1, <1>2, <2>2, <2>3, <2>4
  <1>4. IdsOK(u, n)
    BY <1>1, ZeroSlot DEF IdsOK
  <1>5. SpacesOK(u, sp \ {ts[t].page_dir})
    BY <1>1 DEF IdsOK, SpacesOK
  <1> QED BY <1>3, <1>4, <1>5 DEF u
-----------------------------------------------------------------------------
Answers == [1 .. MaxId -> Codes \cup {Detached, NoCode}]

(* The three kernel frames a task may be suspended in are frames.          *)
LEMMA FrameTypes ==
    /\ UserCode \in [at : {"user", "wait", "sleep"}, task_id : Ids,
                     child : Slots, left : 0 .. MaxSleep]
    /\ \A w \in Ids, c \in Slots :
          InWait(w, c) \in [at : {"user", "wait", "sleep"}, task_id : Ids,
                            child : Slots, left : 0 .. MaxSleep]
    /\ \A n \in 0 .. MaxSleep :
          InSleep(n) \in [at : {"user", "wait", "sleep"}, task_id : Ids,
                          child : Slots, left : 0 .. MaxSleep]
  <1>1. 0 \in 0 .. MaxSleep
    BY TaskAssumption
  <1> QED BY <1>1, ZeroSlot DEF UserCode, InWait, InSleep

(* ListOK depends on the ids of the tasks only.                            *)
LEMMA ListKept ==
    ASSUME NEW ts, NEW us, ring \in Seq(Slots), ListOK(ts, ring),
           \A s \in Slots : us[s].id = ts[s].id
    PROVE  ListOK(us, ring)
  <1>1. \A i \in 1 .. Len(ring) : ring[i] \in Slots
    BY LenProperties
  <1> QED BY <1>1 DEF ListOK

(* A handler that ends in schedule keeps the invariant if the table it     *)
(* hands over is in order.                                                 *)
LEMMA ViaSchedule ==
    ASSUME IInv, NEW ts \in Table, RunnableOK(ts), schedule(ts),
           \A s \in Slots : ts[s].id = tasks[s].id,
           WaitOK(ts, frame'), IdsOK(ts, next_task_id), SpacesOK(ts, spaces'),
           frame' \in Frames, spaces' \subseteq Ids, answer' \in Answers,
           UNCHANGED <<ring, next_task_id, multitasking_enabled, heap,
                       fd_failures>>
    PROVE  IInv'
  <1>1. /\ ring \in Seq(Slots) /\ current_task \in Slots /\ RingOK
        /\ 0 \in Slots
    BY ZeroSlot DEF IInv, TypeOK
  <1>2. /\ tasks' \in Table
        /\ current_task' \in Slots
        /\ OnList(current_task')
        /\ \A s \in Slots : tasks'[s].state = "RUNNING" <=> s = current_task'
        /\ tasks'[0].state \in {"READY", "RUNNING"}
        /\ cr3' = tasks'[current_task'].page_dir
        /\ \A s \in Slots : tasks'[s].id = tasks[s].id
    BY <1>1, ScheduleTable DEF SameButState
  <1>3. /\ WaitOK(tasks', frame')
        /\ IdsOK(tasks', next_task_id)
        /\ SpacesOK(tasks', spaces')
    BY <1>1, ScheduleKeeps
  <1>4. cr3' \in Ids
    BY <1>2 DEF Table, TaskRecord
  <1>5. TypeOK'
    BY <1>2, <1>4, Zenon DEF IInv, TypeOK, Table, Frames, Answers
  <1>6. RingOK'
    BY <1>1, <1>2 DEF RingOK, OnList
  <1>7. ListOK(tasks', ring')
    BY <1>1, <1>2, ListKept DEF IInv
  <1> QED BY <1>2, <1>3, <1>5, <1>6, <1>7 DEF IInv, OneRunning

(* task_get_by_id returns the slot of a task with that id, and for id 0    *)
(* the first slot of all.                                                  *)
LEMMA HolderFound ==
    ASSUME NEW w, Found(w)
    PROVE  /\ task_get_by_id(w) \in Slots
           /\ tasks[task_get_by_id(w)].id = w
           /\ tasks[0].id = w => task_get_by_id(w) = 0
  <1>1. Holders(w) \in SUBSET Nat /\ Holders(w) # {}
    BY DEF Found, Holders, Slots
  <1>2. \E s \in Holders(w) : \A r \in Holders(w) : s <= r
    BY <1>1, LeastExists
  <1>3. /\ task_get_by_id(w) \in Holders(w)
        /\ \A r \in Holders(w) : task_get_by_id(w) <= r
    BY <1>2 DEF task_get_by_id
  <1>4. tasks[0].id = w => 0 \in Holders(w)
    BY ZeroSlot DEF Holders
  <1>5. task_get_by_id(w) \in Nat
    BY <1>1, <1>3
  <1>6. tasks[0].id = w => task_get_by_id(w) = 0
    BY <1>3, <1>4, <1>5
  <1> QED BY <1>3, <1>6 DEF Holders

(* The recorded answers stay exit codes (task_terminate, first exit).      *)
LEMMA AnsweredType ==
    ASSUME answer \in Answers, NEW w, NEW code \in Codes
    PROVE  Answered(w, code) \in Answers
  BY Zenon DEF Answered, Answers

(* sys_do_exit, the exception handler and a task killing itself.           *)
LEMMA ExitKeeps ==
    ASSUME IInv, NEW code \in Codes, task_exit_with_code(code)
    PROVE  IInv'
  <1> DEFINE c == current_task
             ts == Terminated(tasks, c, code)
  <1>1. /\ tasks \in Table /\ frame \in Frames /\ c \in Slots
        /\ answer \in Answers /\ spaces \subseteq Ids
    BY DEF IInv, TypeOK, Table, Frames, Answers
  <1>2. /\ c # 0
        /\ schedule(ts)
        /\ spaces' = spaces \ {tasks[c].page_dir}
        /\ answer' = Answered(tasks[c].id, code)
        /\ UNCHANGED <<frame, ring, next_task_id, multitasking_enabled, heap,
                       fd_failures>>
    BY DEF task_exit_with_code
  <1>3. /\ ts \in Table
        /\ \A s \in Slots : ts[s].id = tasks[s].id
        /\ \A s \in Slots : ts[s].state =
              IF s = c THEN "TERMINATED"
              ELSE IF tasks[s].state = "BLOCKED" /\ tasks[s].waiting_for = tasks[c].id
              THEN "READY" ELSE tasks[s].state
    BY <1>1, TerminatedTable
  <1>4. /\ WaitOK(ts, frame) /\ IdsOK(ts, next_task_id)
        /\ SpacesOK(ts, spaces \ {tasks[c].page_dir})
    BY <1>1, <1>2, TerminatedKeeps DEF IInv
  <1>5. answer' \in Answers
    BY <1>1, <1>2, AnsweredType, Zenon
  <1> HIDE DEF ts
  <1>6. RunnableOK(ts)
    BY <1>2, <1>3, ZeroSlot DEF IInv, OneRunning, RunnableOK
  <1> HIDE DEF c
  <1>7. /\ frame' \in Frames /\ spaces' \subseteq Ids
        /\ WaitOK(ts, frame') /\ SpacesOK(ts, spaces')
    BY <1>1, <1>2, <1>4
  <1> QED BY <1>2, <1>3, <1>4, <1>5, <1>6, <1>7, ViaSchedule, Zenon

(* A handler that returns to its caller keeps the invariant if the table   *)
(* it leaves is in order and the running task is still the running one.    *)
LEMMA ViaReturn ==
    ASSUME IInv, tasks' \in Table, frame' \in Frames, answer' \in Answers,
           heap' \subseteq Stacks, spaces' \subseteq Ids,
           next_task_id' \in 1 .. MaxId + 1, multitasking_enabled' \in BOOLEAN,
           fd_failures' \in 0 .. MaxFdFailures,
           ring' \in Seq(Slots), RingOK', ListOK(tasks', ring'),
           WaitOK(tasks', frame'), IdsOK(tasks', next_task_id'),
           SpacesOK(tasks', spaces'), OneRunning',
           current_task' = current_task, cr3' = tasks'[current_task].page_dir
    PROVE  IInv'
  <1>1. cr3' \in Ids /\ current_task' \in Slots
    BY DEF IInv, TypeOK, Table, TaskRecord
  <1>2. TypeOK'
    BY <1>1 DEF TypeOK, Table, Frames, Answers
  <1> QED BY <1>2 DEF IInv

(* task_kill of another task.                                              *)
LEMMA KillKeeps ==
    ASSUME IInv, NEW w \in Ids, task_kill(w)
    PROVE  IInv'
  <1> DEFINE t == task_get_by_id(w)
             ts == Terminated(tasks, t, KilledCode)
  <1>1. KilledCode \in Codes
    BY DEF Codes
  <1>2. CASE t = current_task /\ task_exit_with_code(KilledCode)
    BY <1>1, <1>2, ExitKeeps, ZenonT(30)
  <1>3. CASE t # current_task
    <2>1. /\ tasks \in Table /\ frame \in Frames /\ current_task \in Slots
          /\ answer \in Answers /\ spaces \subseteq Ids
      BY Zenon DEF IInv, TypeOK, Table, Frames, Answers
    <2>2. /\ InUserCode /\ Found(w) /\ t # 0
          /\ tasks' = ts
          /\ cr3' = tasks[current_task].page_dir
          /\ spaces' = spaces \ {tasks[t].page_dir}
          /\ answer' = Answered(w, KilledCode)
          /\ frame' = [frame EXCEPT ![t] = UserCode]
          /\ UNCHANGED <<ring, current_task, next_task_id,
                         multitasking_enabled, heap, fd_failures>>
      BY <1>3 DEF task_kill
    <2>3. t \in Slots
      BY <2>2, HolderFound
    <2> HIDE DEF t
    <2>4. /\ ts \in Table
          /\ \A s \in Slots :
                /\ ts[s].id = tasks[s].id
                /\ ts[s].page_dir = IF s = t THEN 0 ELSE tasks[s].page_dir
                /\ ts[s].state = IF s = t THEN "TERMINATED"
                                 ELSE IF tasks[s].state = "BLOCKED"
                                         /\ tasks[s].waiting_for = tasks[t].id
                                 THEN "READY" ELSE tasks[s].state
      BY <1>1, <2>1, <2>3, TerminatedTable
    <2>5. /\ frame' \in Frames
          /\ \A s \in Slots \ {t} : frame'[s] = frame[s]
      BY <2>1, <2>2, FrameTypes, Zenon DEF Frames
    <2>6. /\ WaitOK(ts, frame') /\ IdsOK(ts, next_task_id)
          /\ SpacesOK(ts, spaces \ {tasks[t].page_dir})
      BY <1>1, <2>1, <2>2, <2>3, <2>5, TerminatedKeeps, ZenonT(60) DEF IInv
    <2>7. answer' \in Answers
      BY <1>1, <2>1, <2>2, AnsweredType, Zenon
    <2> HIDE DEF ts
    <2>8. OneRunning' /\ cr3' = tasks'[current_task].page_dir
      BY <1>3, <2>1, <2>2, <2>4, ZeroSlot DEF IInv, OneRunning
    <2>9. /\ heap' \subseteq Stacks /\ spaces' \subseteq Ids
          /\ next_task_id' \in 1 .. MaxId + 1 /\ multitasking_enabled' \in BOOLEAN
          /\ fd_failures' \in 0 .. MaxFdFailures
          /\ ring' \in Seq(Slots) /\ RingOK'
      <3>1. heap \subseteq Stacks /\ spaces \subseteq Ids
        BY OtherTypes
      <3>2. /\ next_task_id \in 1 .. MaxId + 1 /\ multitasking_enabled \in BOOLEAN
            /\ fd_failures \in 0 .. MaxFdFailures /\ ring \in Seq(Slots)
        BY OtherTypes
      <3>3. RingOK'
        BY <2>2, OtherTypes DEF RingOK, OnList
      <3> QED BY <2>2, <3>1, <3>2, <3>3
    <2>10. ListOK(tasks', ring')
      <3>1. ring \in Seq(Slots) /\ ListOK(tasks, ring)
        BY OtherTypes DEF IInv
      <3>2. ListOK(ts, ring)
        BY <2>4, <3>1, ListKept
      <3> QED BY <2>2, <3>2
    <2> QED BY <2>2, <2>4, <2>5, <2>6, <2>7, <2>8, <2>9, <2>10, ViaReturn
  <1> QED BY <1>2, <1>3 DEF task_kill
-----------------------------------------------------------------------------
(* Only the frames of BLOCKED tasks matter to WaitOK.                      *)
LEMMA WaitOKFrames ==
    ASSUME NEW ts, NEW fr, NEW fr2, WaitOK(ts, fr),
           \A s \in Slots : ts[s].state = "BLOCKED" =>
               /\ fr2[s].at = fr[s].at
               /\ fr2[s].task_id = fr[s].task_id
               /\ fr2[s].child = fr[s].child
    PROVE  WaitOK(ts, fr2)
  BY DEF WaitOK

(* What every handler that calls schedule on the table as it is needs.     *)
LEMMA Unblocked ==
    ASSUME IInv
    PROVE  /\ tasks \in Table /\ frame \in Frames /\ answer \in Answers
           /\ spaces \subseteq Ids /\ current_task \in Slots
           /\ RunnableOK(tasks)
           /\ tasks[current_task].state = "RUNNING"
  BY DEF IInv, TypeOK, OneRunning, RunnableOK, Table, Frames, Answers

(* schedule with the task table as it is: yield, sleep and the timer.      *)
LEMMA SwitchKeeps ==
    ASSUME IInv, schedule(tasks), frame' \in Frames,
           \A s \in Slots : tasks[s].state = "BLOCKED" =>
               /\ frame'[s].at = frame[s].at
               /\ frame'[s].task_id = frame[s].task_id
               /\ frame'[s].child = frame[s].child,
           UNCHANGED <<ring, next_task_id, multitasking_enabled, heap, spaces,
                       answer, fd_failures>>
    PROVE  IInv'
  <1>1. WaitOK(tasks, frame')
    BY WaitOKFrames DEF IInv
  <1>2. SpacesOK(tasks, spaces') /\ IdsOK(tasks, next_task_id)
    BY DEF IInv
  <1> QED BY <1>1, <1>2, Unblocked, ViaSchedule, Zenon

(* sys_do_yield calls schedule on the table as it is.                      *)
LEMMA YieldKeeps ==
    ASSUME IInv, sys_do_yield
    PROVE  IInv'
  BY Unblocked, SwitchKeeps DEF sys_do_yield

(* sys_do_sleepms records the deadline and calls schedule.                 *)
LEMMA SleepKeeps ==
    ASSUME IInv, NEW n \in 1 .. MaxSleep, sys_do_sleepms(n)
    PROVE  IInv'
  <1>1. n \in 0 .. MaxSleep
    BY TaskAssumption
  <1>2. /\ schedule(tasks)
        /\ frame' = [frame EXCEPT ![current_task] = InSleep(n)]
        /\ UNCHANGED <<ring, next_task_id, multitasking_enabled, heap, spaces,
                       answer, fd_failures>>
    BY DEF sys_do_sleepms
  <1>3. /\ frame' \in Frames
        /\ \A s \in Slots : tasks[s].state = "BLOCKED" => frame'[s] = frame[s]
    BY <1>1, <1>2, Unblocked, FrameTypes DEF Frames
  <1> QED BY <1>2, <1>3, SwitchKeeps

(* The timer handler ages the sleepers and calls schedule.                 *)
LEMMA TickKeeps ==
    ASSUME IInv, timer_handler_switch
    PROVE  IInv'
  <1>1. /\ schedule(tasks)
        /\ frame' = SleepersAfterTick
        /\ UNCHANGED <<ring, next_task_id, multitasking_enabled, heap, spaces,
                       answer, fd_failures>>
    BY DEF timer_handler_switch
  <1>2. \A k \in 0 .. MaxSleep : k > 0 => k - 1 \in 0 .. MaxSleep
    BY TaskAssumption
  <1>3. /\ frame' \in Frames
        /\ \A s \in Slots : /\ frame'[s].at = frame[s].at
                            /\ frame'[s].task_id = frame[s].task_id
                            /\ frame'[s].child = frame[s].child
    BY <1>1, <1>2, Unblocked DEF Frames, SleepersAfterTick
  <1> QED BY <1>1, <1>3, SwitchKeeps

(* The sleep loop yields again or returns to user code.                    *)
LEMMA SleepResumedKeeps ==
    ASSUME IInv, sys_do_sleepms_resumed
    PROVE  IInv'
  <1> DEFINE c == current_task
  <1>0. UNCHANGED <<ring, next_task_id, multitasking_enabled, heap, spaces,
                    answer, fd_failures>>
    BY DEF sys_do_sleepms_resumed
  <1>1. CASE schedule(tasks) /\ UNCHANGED frame
    BY <1>0, <1>1, Unblocked, SwitchKeeps
  <1>2. CASE /\ frame' = [frame EXCEPT ![c] = UserCode]
             /\ UNCHANGED <<tasks, current_task, cr3>>
    <2>1. /\ frame' \in Frames
          /\ \A s \in Slots : tasks[s].state = "BLOCKED" => frame'[s] = frame[s]
      BY <1>2, Unblocked, FrameTypes DEF Frames
    <2>2. WaitOK(tasks, frame')
      BY <2>1, WaitOKFrames DEF IInv
    <2>3. TypeOK'
      BY <1>0, <1>2, <2>1, Zenon DEF IInv, TypeOK, Frames
    <2>4. RingOK' /\ OneRunning' /\ cr3' = tasks'[current_task'].page_dir
      BY <1>0, <1>2 DEF IInv, RingOK, OnList, OneRunning
    <2>5. /\ WaitOK(tasks', frame') /\ IdsOK(tasks', next_task_id')
          /\ SpacesOK(tasks', spaces') /\ ListOK(tasks', ring')
      BY <1>0, <1>2, <2>2 DEF IInv
    <2> QED BY <2>3, <2>4, <2>5 DEF IInv
  <1> QED BY <1>1, <1>2 DEF sys_do_sleepms_resumed
-----------------------------------------------------------------------------
(* sys_do_wait blocks only for a task that is alive and not detached.      *)
LEMMA WaitKeeps ==
    ASSUME IInv, NEW w \in Ids, sys_do_wait(w)
    PROVE  IInv'
  <1> DEFINE c == current_task
             child == task_get_by_id(w)
             ts == [tasks EXCEPT ![c].waiting_for = w, ![c].state = "BLOCKED"]
  <1>1. /\ c # 0 /\ Found(w)
        /\ ~tasks[child].detached
        /\ tasks[child].state # "TERMINATED"
        /\ frame' = [frame EXCEPT ![c] = InWait(w, child)]
        /\ schedule(ts)
        /\ UNCHANGED <<ring, next_task_id, multitasking_enabled, heap, spaces,
                       answer, fd_failures>>
    BY DEF sys_do_wait, InUserCode
  <1>2. /\ child \in Slots /\ tasks[child].id = w
        /\ tasks[0].id = w => child = 0
    BY <1>1, HolderFound
  <1>3. /\ tasks \in Table /\ frame \in Frames /\ c \in Slots
        /\ answer \in Answers /\ spaces \subseteq Ids
    BY Unblocked
  <1>4. ts \in Table
    BY <1>3, ZenonT(60) DEF Table, TaskRecord
  <1>5. \A s \in Slots :
           /\ ts[s].id = tasks[s].id /\ ts[s].detached = tasks[s].detached
           /\ ts[s].page_dir = tasks[s].page_dir
           /\ ts[s].state = IF s = c THEN "BLOCKED" ELSE tasks[s].state
           /\ ts[s].waiting_for = IF s = c THEN w ELSE tasks[s].waiting_for
    BY <1>3 DEF Table, TaskRecord
  <1>6. /\ frame' \in Frames
        /\ \A s \in Slots : frame'[s] = IF s = c THEN InWait(w, child) ELSE frame[s]
    BY <1>1, <1>2, <1>3, FrameTypes DEF Frames
  <1> HIDE DEF ts, child
  <1>7. WaitOK(ts, frame')
    <2> SUFFICES ASSUME NEW s \in Slots, ts[s].state = "BLOCKED"
                 PROVE  /\ frame'[s].at = "wait"
                        /\ ts[s].waiting_for = frame'[s].task_id
                        /\ ts[frame'[s].child].id = frame'[s].task_id
                        /\ ts[frame'[s].child].state # "TERMINATED"
                        /\ ~ts[frame'[s].child].detached
                        /\ frame'[s].task_id = 0 => frame'[s].child = 0
      BY DEF WaitOK
    <2>1. CASE s = c
      <3>1. /\ frame'[s].at = "wait" /\ frame'[s].task_id = w
            /\ frame'[s].child = child
        BY <1>6, <2>1 DEF InWait
      <3>2. tasks[0].id = 0
        BY DEF IInv, IdsOK
      <3> QED BY <1>1, <1>2, <1>5, <2>1, <3>1, <3>2
    <2>2. CASE s # c
      <3>1. frame'[s] = frame[s] /\ frame[s].child \in Slots
        BY <1>3, <1>6, <2>2 DEF Frames
      <3>2. tasks[s].state = "BLOCKED"
        BY <1>5, <2>2, Zenon
      <3>3. /\ frame[s].at = "wait"
            /\ tasks[s].waiting_for = frame[s].task_id
            /\ tasks[frame[s].child].id = frame[s].task_id
            /\ tasks[frame[s].child].state # "TERMINATED"
            /\ ~tasks[frame[s].child].detached
            /\ frame[s].task_id = 0 => frame[s].child = 0
        BY <3>2 DEF IInv, WaitOK
      <3> QED BY <1>5, <2>2, <3>1, <3>3
    <2> QED BY <2>1, <2>2
  <1>8. IdsOK(ts, next_task_id)
    <2>1. IdsOK(tasks, next_task_id)
      BY Zenon DEF IInv
    <2>2. \A s \in Slots : ts[s].id = tasks[s].id
      BY <1>5, Zenon
    <2> QED BY <2>1, <2>2, SameIds, Zenon
  <1>9. SpacesOK(ts, spaces')
    BY <1>1, <1>3, <1>5, Unblocked, ZenonT(30) DEF IInv, SpacesOK
  <1>10. RunnableOK(ts)
    BY <1>1, <1>5, ZeroSlot DEF IInv, OneRunning, RunnableOK
  <1> HIDE DEF c
  <1> QED BY <1>1, <1>3, <1>4, <1>5, <1>6, <1>7, <1>8, <1>9, <1>10, ViaSchedule, Zenon

(* A resumed sys_do_wait returns to user code.                             *)
LEMMA WaitResumedKeeps ==
    ASSUME IInv, sys_do_wait_resumed
    PROVE  IInv'
  <1> DEFINE c == current_task
  <1>1. /\ tasks' = [tasks EXCEPT ![c].waiting_for = 0]
        /\ frame' = [frame EXCEPT ![c] = UserCode]
        /\ UNCHANGED <<ring, current_task, next_task_id, multitasking_enabled,
                       heap, spaces, cr3, answer, fd_failures>>
    BY DEF sys_do_wait_resumed
  <1>2. /\ tasks \in Table /\ frame \in Frames /\ c \in Slots
        /\ tasks[c].state = "RUNNING"
    BY Unblocked
  <1>3. /\ tasks' \in Table
        /\ \A s \in Slots :
              /\ tasks'[s].id = tasks[s].id /\ tasks'[s].detached = tasks[s].detached
              /\ tasks'[s].page_dir = tasks[s].page_dir
              /\ tasks'[s].state = tasks[s].state
              /\ s # c => tasks'[s].waiting_for = tasks[s].waiting_for
    BY <1>1, <1>2, ZeroSlot DEF Table, TaskRecord
  <1>4. /\ frame' \in Frames
        /\ \A s \in Slots : s # c => frame'[s] = frame[s]
    BY <1>1, <1>2, FrameTypes DEF Frames
  <1>5. WaitOK(tasks', frame')
    <2>1. \A s \in Slots : frame[s].child \in Slots
      BY <1>2 DEF Frames
    <2>2. WaitOK(tasks, frame)
      BY DEF IInv
    <2> QED BY <1>2, <1>3, <1>4, <2>1, <2>2 DEF WaitOK
  <1>6. /\ IdsOK(tasks', next_task_id') /\ SpacesOK(tasks', spaces')
        /\ OneRunning'
    BY <1>1, <1>3, ZeroSlot DEF IInv, IdsOK, SpacesOK, OneRunning
  <1>7. ListOK(tasks', ring')
    BY <1>1, <1>3, ListKept, Zenon DEF IInv, TypeOK
  <1>8. RingOK' /\ cr3' = tasks'[c].page_dir
    BY <1>1, <1>2, <1>3 DEF IInv, RingOK, OnList
  <1>9. /\ answer' \in Answers /\ heap' \subseteq Stacks /\ spaces' \subseteq Ids
        /\ next_task_id' \in 1 .. MaxId + 1 /\ multitasking_enabled' \in BOOLEAN
        /\ fd_failures' \in 0 .. MaxFdFailures /\ ring' \in Seq(Slots)
    BY <1>1, ZenonT(30) DEF IInv, TypeOK, Answers
  <1> QED BY <1>1, <1>3, <1>4, <1>5, <1>6, <1>7, <1>8, <1>9, ViaReturn

(* sys_do_detach wakes everyone who waits for the caller.                  *)
LEMMA DetachKeeps ==
    ASSUME IInv, sys_do_detach
    PROVE  IInv'
  <1> DEFINE c == current_task
             ts == [tasks EXCEPT ![c].detached = TRUE]
  <1>1. /\ c # 0
        /\ tasks' = Woken(ts, tasks[c].id)
        /\ answer' = [answer EXCEPT ![tasks[c].id] = Detached]
        /\ UNCHANGED <<frame, ring, current_task, next_task_id, cr3,
                       multitasking_enabled, heap, spaces, fd_failures>>
    BY DEF sys_do_detach, InUserCode
  <1>2. /\ tasks \in Table /\ frame \in Frames /\ c \in Slots
        /\ tasks[c].state = "RUNNING" /\ answer \in Answers
    BY Unblocked
  <1>3. /\ ts \in Table /\ tasks[c].id \in Ids
        /\ \A s \in Slots :
              /\ ts[s].id = tasks[s].id
              /\ ts[s].detached = IF s = c THEN TRUE ELSE tasks[s].detached
              /\ ts[s].page_dir = tasks[s].page_dir
              /\ ts[s].state = tasks[s].state
              /\ ts[s].waiting_for = tasks[s].waiting_for
    BY <1>2, ZenonT(60) DEF Table, TaskRecord
  <1> HIDE DEF ts
  <1>4. /\ tasks' \in Table
        /\ \A s \in Slots :
              /\ tasks'[s].id = ts[s].id
              /\ tasks'[s].detached = ts[s].detached
              /\ tasks'[s].page_dir = ts[s].page_dir
              /\ tasks'[s].state =
                    IF ts[s].state = "BLOCKED" /\ ts[s].waiting_for = tasks[c].id
                    THEN "READY" ELSE ts[s].state
              /\ tasks'[s].state = "BLOCKED" => tasks'[s].waiting_for = ts[s].waiting_for
    <2> DEFINE w == tasks[c].id
    <2>1. w \in Ids /\ ts \in Table /\ tasks' = Woken(ts, w)
      BY <1>1, <1>3
    <2> HIDE DEF w
    <2>2. \A s \in Slots :
              /\ tasks'[s].id = ts[s].id
              /\ tasks'[s].detached = ts[s].detached
              /\ tasks'[s].page_dir = ts[s].page_dir
              /\ tasks'[s].state =
                    IF ts[s].state = "BLOCKED" /\ ts[s].waiting_for = w
                    THEN "READY" ELSE ts[s].state
              /\ tasks'[s].state = "BLOCKED" => tasks'[s].waiting_for = ts[s].waiting_for
      BY <2>1, WokenTable
    <2> QED BY <2>1, <2>2, WokenTable, Zenon DEF w
  <1>5. WaitOK(tasks', frame')
    <2> SUFFICES ASSUME NEW s \in Slots, tasks'[s].state = "BLOCKED"
                 PROVE  /\ frame[s].at = "wait"
                        /\ tasks'[s].waiting_for = frame[s].task_id
                        /\ tasks'[frame[s].child].id = frame[s].task_id
                        /\ tasks'[frame[s].child].state # "TERMINATED"
                        /\ ~tasks'[frame[s].child].detached
                        /\ frame[s].task_id = 0 => frame[s].child = 0
      BY <1>1, Zenon DEF WaitOK
    <2>1. tasks[s].state = "BLOCKED" /\ tasks[s].waiting_for # tasks[c].id
      BY <1>3, <1>4, ZenonT(60)
    <2>2. /\ frame[s].at = "wait"
          /\ tasks[s].waiting_for = frame[s].task_id
          /\ tasks[frame[s].child].id = frame[s].task_id
          /\ tasks[frame[s].child].state # "TERMINATED"
          /\ ~tasks[frame[s].child].detached
          /\ frame[s].task_id = 0 => frame[s].child = 0
      BY <2>1 DEF IInv, WaitOK
    <2>3. frame[s].child # c /\ frame[s].child \in Slots
      BY <1>2, <2>1, <2>2 DEF Frames
    <2> QED BY <1>3, <1>4, <2>1, <2>2, <2>3, ZenonT(60)
  <1>6. /\ IdsOK(tasks', next_task_id') /\ SpacesOK(tasks', spaces')
        /\ OneRunning' /\ ListOK(tasks', ring')
    <2>1. \A s \in Slots :
             /\ tasks'[s].id = tasks[s].id
             /\ tasks'[s].page_dir = tasks[s].page_dir
             /\ \/ tasks'[s].state = tasks[s].state
                \/ (tasks[s].state = "BLOCKED" /\ tasks'[s].state = "READY")
      BY <1>3, <1>4, ZenonT(60)
    <2>2. IdsOK(tasks', next_task_id')
      <3>1. IdsOK(tasks, next_task_id) /\ next_task_id' = next_task_id
        BY <1>1 DEF IInv
      <3>2. \A s \in Slots : tasks'[s].id = tasks[s].id
        BY <2>1, ZenonT(60)
      <3> QED BY <3>1, <3>2, SameIds
    <2>3. SpacesOK(tasks', spaces')
      BY <1>1, <2>1, ZenonT(30) DEF IInv, SpacesOK
    <2>4. OneRunning'
      BY <1>1, <2>1, ZeroSlot, ZenonT(30) DEF IInv, OneRunning
    <2>5. ListOK(tasks', ring')
      BY <1>1, <2>1, ListKept DEF IInv, TypeOK
    <2> QED BY <2>2, <2>3, <2>4, <2>5
  <1>8. RingOK' /\ cr3' = tasks'[c].page_dir
    BY <1>1, <1>2, <1>3, <1>4, Zenon DEF IInv, RingOK, OnList
  <1>9. answer' \in Answers
    BY <1>1, <1>2, ZenonT(60) DEF Answers
  <1>10. /\ heap' \subseteq Stacks /\ spaces' \subseteq Ids
         /\ next_task_id' \in 1 .. MaxId + 1 /\ multitasking_enabled' \in BOOLEAN
         /\ fd_failures' \in 0 .. MaxFdFailures /\ ring' \in Seq(Slots)
         /\ frame' \in Frames
    BY <1>1, <1>2, Zenon DEF IInv, TypeOK
  <1> QED BY <1>1, <1>4, <1>5, <1>6, <1>8, <1>9, <1>10, ViaReturn, Zenon
-----------------------------------------------------------------------------
(* Inserting slot t after position p adds t to the list and nothing else.  *)
LEMMA InsertMembers ==
    ASSUME NEW S, NEW r \in Seq(S), NEW p \in 1 .. Len(r), NEW t \in S
    PROVE  LET q == InsertAfter(r, p, t) IN
           /\ q \in Seq(S)
           /\ Len(q) = Len(r) + 1
           /\ \A i \in 1 .. Len(r) + 1 :
                 q[i] = IF i <= p THEN r[i] ELSE IF i = p + 1 THEN t ELSE r[i - 1]
  <1> DEFINE a == SubSeq(r, 1, p)
             b == SubSeq(r, p + 1, Len(r))
             q == a \o <<t>> \o b
  <1>1. Len(r) \in Nat /\ \A i \in 1 .. Len(r) : r[i] \in S
    BY LenProperties
  <1>2. a \in Seq(S) /\ Len(a) = p /\ \A i \in 1 .. p : a[i] = r[i]
    <2>1. \A i \in 1 .. p : r[i] \in S
      BY <1>1
    <2>2. /\ SubSeq(r, 1, p) \in Seq(S)
          /\ Len(SubSeq(r, 1, p)) = IF 1 <= p THEN p - 1 + 1 ELSE 0
          /\ \A i \in 1 .. p - 1 + 1 : SubSeq(r, 1, p)[i] = r[1 + i - 1]
      BY <2>1, SubSeqProperties
    <2> QED BY <2>2
  <1>3. /\ b \in Seq(S) /\ Len(b) = Len(r) - p
        /\ \A i \in 1 .. Len(r) - p : b[i] = r[p + i]
    <2>1. \A i \in p + 1 .. Len(r) : r[i] \in S
      BY <1>1
    <2>2. /\ SubSeq(r, p + 1, Len(r)) \in Seq(S)
          /\ Len(SubSeq(r, p + 1, Len(r))) =
                IF p + 1 <= Len(r) THEN Len(r) - (p + 1) + 1 ELSE 0
          /\ \A i \in 1 .. Len(r) - (p + 1) + 1 :
                SubSeq(r, p + 1, Len(r))[i] = r[(p + 1) + i - 1]
      BY <1>1, <2>1, SubSeqProperties
    <2>3. /\ b \in Seq(S)
          /\ Len(b) = IF p + 1 <= Len(r) THEN Len(r) - (p + 1) + 1 ELSE 0
          /\ \A i \in 1 .. Len(r) - (p + 1) + 1 : b[i] = r[(p + 1) + i - 1]
      BY <2>2, Zenon
    <2> HIDE DEF b
    <2>4. Len(b) = Len(r) - p
      BY <1>1, <2>3
    <2>5. ASSUME NEW i \in 1 .. Len(r) - p
          PROVE  b[i] = r[p + i]
      <3>1. i \in 1 .. Len(r) - (p + 1) + 1 /\ (p + 1) + i - 1 = p + i
        BY <1>1
      <3> QED BY <2>3, <3>1
    <2> QED BY <2>3, <2>4, <2>5
  <1> HIDE DEF a, b
  <1>4. /\ a \o <<t>> \in Seq(S) /\ Len(a \o <<t>>) = p + 1
        /\ \A i \in 1 .. p + 1 : (a \o <<t>>)[i] = IF i <= p THEN r[i] ELSE t
    <2>1. <<t>> \in Seq(S) /\ Len(<<t>>) = 1 /\ <<t>>[1] = t
      OBVIOUS
    <2>2. /\ a \o <<t>> \in Seq(S)
          /\ Len(a \o <<t>>) = p + 1
          /\ \A i \in 1 .. p + 1 :
                (a \o <<t>>)[i] = IF i <= p THEN a[i] ELSE <<t>>[i - p]
      BY <1>2, <2>1, ConcatProperties
    <2>3. \A i \in 1 .. p + 1 : i <= p \/ i - p = 1
      BY <1>1
    <2> QED BY <1>2, <2>1, <2>2, <2>3
  <1> DEFINE at == a \o <<t>>
  <1> HIDE DEF at
  <1>5. /\ q \in Seq(S)
        /\ Len(q) = Len(r) + 1
        /\ \A i \in 1 .. Len(r) + 1 :
              q[i] = IF i <= p + 1 THEN at[i] ELSE b[i - (p + 1)]
    <2>1. at \in Seq(S) /\ Len(at) = p + 1
      BY <1>4 DEF at
    <2>2. p + 1 + (Len(r) - p) = Len(r) + 1
      BY <1>1
    <2>3. q = at \o b
      BY DEF at
    <2> HIDE DEF q
    <2>4. /\ at \o b \in Seq(S)
          /\ Len(at \o b) = Len(at) + Len(b)
          /\ \A i \in 1 .. Len(at) + Len(b) :
                (at \o b)[i] = IF i <= Len(at) THEN at[i] ELSE b[i - Len(at)]
      BY <1>3, <2>1, ConcatProperties, ZenonT(60)
    <2>5. Len(at) + Len(b) = Len(r) + 1
      BY <1>3, <2>1, <2>2
    <2> QED BY <2>1, <2>3, <2>4, <2>5
  <1> HIDE DEF q
  <1>6. ASSUME NEW i \in 1 .. Len(r) + 1
        PROVE  q[i] = IF i <= p THEN r[i] ELSE IF i = p + 1 THEN t ELSE r[i - 1]
    <2>1. CASE i <= p + 1
      <3>1. i \in 1 .. p + 1 /\ q[i] = at[i]
        BY <1>1, <1>5, <2>1
      <3>2. at[i] = IF i <= p THEN r[i] ELSE t
        BY <1>4, <3>1 DEF at
      <3>3. i <= p \/ i = p + 1
        BY <1>1, <3>1
      <3> QED BY <3>1, <3>2, <3>3
    <2>2. CASE i > p + 1
      <3>1. i - (p + 1) \in 1 .. Len(r) - p /\ p + (i - (p + 1)) = i - 1
        BY <1>1, <2>2
      <3>2. b[i - (p + 1)] = r[i - 1]
        BY <1>3, <3>1
      <3> QED BY <1>1, <1>5, <2>2, <3>2
    <2> QED BY <1>1, <2>1, <2>2
  <1>7. InsertAfter(r, p, t) = q
    BY DEF InsertAfter, q, a, b
  <1> QED BY <1>5, <1>6, <1>7

(* The slot search returns a slot of its own, never the running task's.    *)
LEMMA FreeSlotFound ==
    ASSUME IInv, FreeSlots # {}
    PROVE  /\ FirstFree \in Slots /\ FirstFree # 0 /\ FirstFree # current_task
           /\ tasks[FirstFree].state = "TERMINATED" \/ tasks[FirstFree].id = 0
  <1>1. FreeSlots \in SUBSET Nat
    BY DEF FreeSlots, Slots
  <1>2. FirstFree \in FreeSlots
    BY <1>1, LeastExists, Zenon DEF FirstFree
  <1>3. /\ FirstFree \in Slots /\ FirstFree # 0
        /\ tasks[FirstFree].state = "TERMINATED" \/ tasks[FirstFree].id = 0
    BY <1>2 DEF FreeSlots
  <1>4. current_task = 0 \/ tasks[current_task].id # 0
    BY DEF IInv, RingOK, OnList, ListOK
  <1> QED BY <1>3, <1>4, Unblocked

(* Reclaiming a slot changes only its stack field.                         *)
LEMMA ReclaimedTable ==
    ASSUME tasks \in Table, NEW t \in Slots
    PROVE  /\ Reclaimed(t) \in Table
           /\ \A s \in Slots :
                 LET r == Reclaimed(t)[s] IN
                 /\ r.id = tasks[s].id /\ r.detached = tasks[s].detached
                 /\ r.page_dir = tasks[s].page_dir /\ r.state = tasks[s].state
                 /\ r.waiting_for = tasks[s].waiting_for
                 /\ r.exit_code = tasks[s].exit_code
                 /\ r.fd_table = tasks[s].fd_table
                 /\ r.kernel_stack =
                       IF s = t /\ tasks[t].state = "TERMINATED" THEN NoStack
                       ELSE tasks[s].kernel_stack
  BY ZenonT(60) DEF Reclaimed, Table, TaskRecord

(* A task given to a free slot: the others do not notice.                  *)
LEMMA CreatedTable ==
    ASSUME IInv, NEW t \in Slots, t # 0, t # current_task,
           tasks[t].state = "TERMINATED" \/ tasks[t].id = 0,
           NEW b \in Stacks, NEW loaded \in BOOLEAN, next_task_id <= MaxId,
           NEW fr, \A s \in Slots \ {t} : fr[s] = frame[s],
           NEW sp, spaces \subseteq sp, loaded => next_task_id \in sp
    PROVE  LET u == Created(t, b, loaded) IN
           /\ u \in Table
           /\ \A s \in Slots : s # t => u[s].id = tasks[s].id
           /\ u[t].id = next_task_id
           /\ WaitOK(u, fr)
           /\ IdsOK(u, next_task_id + 1)
           /\ SpacesOK(u, sp)
           /\ \A s \in Slots : u[s].state = "RUNNING" <=> s = current_task
           /\ u[0].state \in {"READY", "RUNNING"}
           /\ u[current_task].page_dir = tasks[current_task].page_dir
  <1> DEFINE r == Reclaimed(t)
             u == [r EXCEPT ![t] = NewTask(@, b, loaded)]
  <1>1. /\ tasks \in Table /\ frame \in Frames /\ current_task \in Slots
        /\ tasks[current_task].state = "RUNNING"
    BY Unblocked, Zenon
  <1>2. /\ r \in Table
        /\ \A s \in Slots :
              /\ r[s].id = tasks[s].id /\ r[s].detached = tasks[s].detached
              /\ r[s].page_dir = tasks[s].page_dir /\ r[s].state = tasks[s].state
              /\ r[s].waiting_for = tasks[s].waiting_for
    BY <1>1, ReclaimedTable, ZenonT(60)
  <1> HIDE DEF r
  <1>3. next_task_id \in Ids /\ next_task_id \in Nat /\ next_task_id # 0
    BY TaskAssumption DEF IInv, TypeOK, Ids
  <1>4. /\ NewTask(r[t], b, loaded) \in TaskRecord
        /\ NewTask(r[t], b, loaded).id = next_task_id
        /\ NewTask(r[t], b, loaded).page_dir = next_task_id
        /\ NewTask(r[t], b, loaded).detached = FALSE
        /\ NewTask(r[t], b, loaded).state = IF loaded THEN "READY" ELSE "TERMINATED"
    <2>1. r[t] \in TaskRecord
      BY <1>2, Zenon DEF Table
    <2> QED BY <1>3, <2>1, Zenon DEF NewTask, TaskRecord
  <1>5. /\ u \in Table
        /\ \A s \in Slots : s # t => u[s] = r[s]
        /\ u[t] = NewTask(r[t], b, loaded)
    BY <1>2, <1>4, Zenon DEF Table
  <1> HIDE DEF u
  <1>6. /\ u[t].id = next_task_id /\ u[t].page_dir = next_task_id
        /\ u[t].state = IF loaded THEN "READY" ELSE "TERMINATED"
        /\ \A s \in Slots : s # t =>
              /\ u[s].id = tasks[s].id /\ u[s].detached = tasks[s].detached
              /\ u[s].page_dir = tasks[s].page_dir /\ u[s].state = tasks[s].state
              /\ u[s].waiting_for = tasks[s].waiting_for
    BY <1>2, <1>4, <1>5
  <1>7. WaitOK(u, fr)
    <2> SUFFICES ASSUME NEW s \in Slots, u[s].state = "BLOCKED"
                 PROVE  /\ fr[s].at = "wait"
                        /\ u[s].waiting_for = fr[s].task_id
                        /\ u[fr[s].child].id = fr[s].task_id
                        /\ u[fr[s].child].state # "TERMINATED"
                        /\ ~u[fr[s].child].detached
                        /\ fr[s].task_id = 0 => fr[s].child = 0
      BY Zenon DEF WaitOK
    <2>1. s # t /\ tasks[s].state = "BLOCKED" /\ fr[s] = frame[s]
      BY <1>6, Zenon
    <2>2. /\ frame[s].at = "wait"
          /\ tasks[s].waiting_for = frame[s].task_id
          /\ tasks[frame[s].child].id = frame[s].task_id
          /\ tasks[frame[s].child].state # "TERMINATED"
          /\ ~tasks[frame[s].child].detached
          /\ frame[s].task_id = 0 => frame[s].child = 0
      BY <2>1 DEF IInv, WaitOK
    <2>3. frame[s].child \in Slots /\ frame[s].child # t
      BY <1>1, <2>2 DEF Frames
    <2> QED BY <1>6, <2>1, <2>2, <2>3, ZenonT(60)
  <1>8. IdsOK(u, next_task_id + 1)
    <2>1. /\ tasks[0].id = 0
          /\ \A s \in Slots : tasks[s].id < next_task_id
          /\ \A s, q \in Slots : tasks[s].id = tasks[q].id => s = q \/ tasks[s].id = 0
      BY DEF IInv, IdsOK
    <2>2. \A s \in Slots : tasks[s].id \in Nat
      BY <1>1 DEF Table, TaskRecord, Ids
    <2>3. \A s \in Slots : s # t => u[s].id < next_task_id
      BY <1>6, <2>1
    <2>4. \A s \in Slots : u[s].id < next_task_id + 1
      BY <1>3, <1>6, <2>2, <2>3
    <2>5. \A s, q \in Slots : u[s].id = u[q].id => s = q \/ u[s].id = 0
      BY <1>3, <1>6, <2>1, <2>2, <2>3
    <2>6. u[0].id = 0
      BY <1>6, <2>1, ZeroSlot, Zenon
    <2> QED BY <2>4, <2>5, <2>6 DEF IdsOK
  <1>9. SpacesOK(u, sp)
    BY <1>6 DEF IInv, SpacesOK
  <1>10. /\ \A s \in Slots : u[s].state = "RUNNING" <=> s = current_task
         /\ u[0].state \in {"READY", "RUNNING"}
         /\ u[current_task].page_dir = tasks[current_task].page_dir
    BY <1>1, <1>6, ZeroSlot, ZenonT(60) DEF IInv, OneRunning
  <1>11. Created(t, b, loaded) = u
    BY DEF Created, u, r
  <1> QED BY <1>5, <1>6, <1>7, <1>8, <1>9, <1>10, <1>11

(* The list after linking: its old slots and, if it was new, slot t.       *)
LEMMA LinkedList ==
    ASSUME IInv, NEW t \in Slots
    PROVE  /\ Linked(t) \in Seq(Slots)
           /\ \A s : OnList(s) => \E i \in 1 .. Len(Linked(t)) : Linked(t)[i] = s
           /\ \A i \in 1 .. Len(Linked(t)) : Linked(t)[i] = t \/ OnList(Linked(t)[i])
  <1>1. ring \in Seq(Slots) /\ Len(ring) \in Nat
    BY LenProperties DEF IInv, TypeOK
  <1>2. CASE tasks[t].state = "TERMINATED"
    BY <1>1, <1>2 DEF Linked, OnList
  <1>3. CASE tasks[t].state # "TERMINATED"
    <2> DEFINE p == Position(current_task)
               q == InsertAfter(ring, p, t)
    <2>1. p \in 1 .. Len(ring)
      BY PositionOnList DEF IInv, RingOK
    <2>2. Linked(t) = q
      BY <1>3, ZenonT(60) DEF Linked, LinkedAfterCurrent, InsertAfter
    <2> HIDE DEF p
    <2>3. /\ q \in Seq(Slots)
          /\ Len(q) = Len(ring) + 1
          /\ \A i \in 1 .. Len(ring) + 1 :
                q[i] = IF i <= p THEN ring[i] ELSE IF i = p + 1 THEN t ELSE ring[i - 1]
      BY <1>1, <2>1, InsertMembers, SMTT(60)
    <2> HIDE DEF q
    <2>4. ASSUME NEW s, OnList(s)
          PROVE  \E i \in 1 .. Len(q) : q[i] = s
      <3>1. PICK i \in 1 .. Len(ring) : ring[i] = s
        BY <2>4 DEF OnList
      <3>2. CASE i <= p
        BY <1>1, <2>3, <3>1, <3>2
      <3>3. CASE i > p
        <4>1. /\ i + 1 \in 1 .. Len(ring) + 1 /\ ~(i + 1 <= p) /\ i + 1 # p + 1
              /\ (i + 1) - 1 = i
          BY <1>1, <2>1, <3>3
        <4>2. q[i + 1] = ring[i]
          BY <2>3, <4>1
        <4> QED BY <2>3, <3>1, <4>1, <4>2
      <3> QED BY <1>1, <2>1, <3>2, <3>3
    <2>5. ASSUME NEW i \in 1 .. Len(q)
          PROVE  q[i] = t \/ OnList(q[i])
      <3>1. CASE i <= p
        <4>1. q[i] = ring[i] /\ i \in 1 .. Len(ring)
          BY <1>1, <2>1, <2>3, <3>1
        <4> QED BY <4>1 DEF OnList
      <3>2. CASE i = p + 1
        BY <1>1, <2>1, <2>3, <3>2
      <3>3. CASE i > p + 1
        <4>1. q[i] = ring[i - 1] /\ i - 1 \in 1 .. Len(ring)
          BY <1>1, <2>1, <2>3, <3>3
        <4> QED BY <4>1 DEF OnList
      <3> QED BY <1>1, <2>1, <2>3, <3>1, <3>2, <3>3
    <2> QED BY <2>2, <2>3, <2>4, <2>5
  <1> QED BY <1>2, <1>3

(* The heap after the slot search still holds stacks only.                 *)
LEMMA HeapReclaimedType ==
    ASSUME IInv, NEW t
    PROVE  HeapReclaimed(t) \subseteq Stacks
  BY DEF IInv, TypeOK, HeapReclaimed

(* task_create_user_elf, in each of its outcomes.                          *)
LEMMA CreateKeeps ==
    ASSUME IInv, FreeSlots # {},
           \/ CreateSucceeds(FirstFree)
           \/ CreateFailsAtFdTable(FirstFree)
           \/ CreateFailsEarly(FirstFree),
           current_task' = current_task, cr3' = tasks[current_task].page_dir
    PROVE  IInv'
  <1> DEFINE t == FirstFree
  <1>1. /\ t \in Slots /\ t # 0 /\ t # current_task
        /\ tasks[t].state = "TERMINATED" \/ tasks[t].id = 0
    BY FreeSlotFound
  <1>2. /\ tasks \in Table /\ frame \in Frames /\ current_task \in Slots
        /\ answer \in Answers /\ spaces \subseteq Ids /\ ring \in Seq(Slots)
        /\ HeapReclaimed(t) \subseteq Stacks
    BY Unblocked, HeapReclaimedType, ZenonT(30) DEF IInv, TypeOK
  <1>3. CASE CreateSucceeds(t)
    <2>1. /\ next_task_id <= MaxId
          /\ spaces' = spaces \cup {next_task_id}
          /\ next_task_id' = next_task_id + 1
          /\ ring' = Linked(t)
          /\ frame' = [frame EXCEPT ![t] = UserCode]
          /\ multitasking_enabled' = TRUE
          /\ UNCHANGED <<answer, fd_failures>>
      BY <1>3 DEF CreateSucceeds
    <2>2. PICK b \in Stacks \ HeapReclaimed(t) :
             /\ tasks' = Created(t, b, TRUE)
             /\ heap' = HeapReclaimed(t) \cup {b}
      BY <1>3, Zenon DEF CreateSucceeds
    <2> HIDE DEF t
    <2>3. /\ frame' \in Frames /\ \A s \in Slots \ {t} : frame'[s] = frame[s]
      BY <1>2, <2>1, FrameTypes, ZenonT(60) DEF Frames
    <2>3a. /\ next_task_id <= MaxId /\ TRUE \in BOOLEAN
           /\ spaces \subseteq spaces' /\ next_task_id \in spaces'
      BY <2>1
    <2>4. /\ tasks' \in Table
          /\ \A s \in Slots : s # t => tasks'[s].id = tasks[s].id
          /\ tasks'[t].id = next_task_id
          /\ WaitOK(tasks', frame')
          /\ IdsOK(tasks', next_task_id + 1)
          /\ SpacesOK(tasks', spaces')
          /\ \A s \in Slots : tasks'[s].state = "RUNNING" <=> s = current_task
          /\ tasks'[0].state \in {"READY", "RUNNING"}
          /\ tasks'[current_task].page_dir = tasks[current_task].page_dir
      BY <1>1, <2>2, <2>3, <2>3a, CreatedTable, ZenonT(60)
    <2>5. next_task_id \in 1 .. MaxId /\ next_task_id \in Ids
      BY <2>1, OtherTypes DEF Ids
    <2>6. /\ heap' \subseteq Stacks /\ spaces' \subseteq Ids /\ answer' \in Answers
          /\ next_task_id' \in 1 .. MaxId + 1 /\ multitasking_enabled' \in BOOLEAN
          /\ fd_failures' \in 0 .. MaxFdFailures
      <3>1. next_task_id' \in 1 .. MaxId + 1
        BY <2>1, <2>5, OtherTypes
      <3>2. spaces' \subseteq Ids
        BY <1>2, <2>1, <2>5
      <3>3. heap' \subseteq Stacks
        BY <1>2, <2>2
      <3>4. fd_failures' \in 0 .. MaxFdFailures /\ answer' \in Answers
        BY <1>2, <2>1, OtherTypes
      <3> QED BY <2>1, <3>1, <3>2, <3>3, <3>4
    <2>7. /\ ring' \in Seq(Slots) /\ RingOK'
      <3>1. \A s : OnList(s) => \E i \in 1 .. Len(ring') : ring'[i] = s
        BY <1>1, <2>1, LinkedList, ZenonT(60)
      <3>2. OnList(0) /\ OnList(current_task)
        BY DEF IInv, RingOK
      <3> QED BY <1>1, <2>1, <3>1, <3>2, LinkedList, ZenonT(60) DEF RingOK, OnList
    <2>8. ListOK(tasks', ring')
      <3> SUFFICES ASSUME NEW i \in 1 .. Len(ring')
                   PROVE  ring'[i] = 0 \/ tasks'[ring'[i]].id # 0
        BY DEF ListOK
      <3>1. ring'[i] = t \/ OnList(ring'[i])
        BY <1>1, <2>1, LinkedList
      <3>2. CASE ring'[i] = t
        <4>1. tasks'[t].id = next_task_id
          BY <2>4, ZenonT(60)
        <4>2. next_task_id # 0
          BY <2>5
        <4> QED BY <3>2, <4>1, <4>2, ZenonT(60)
      <3>3. CASE OnList(ring'[i]) /\ ring'[i] # t
        <4>1. ring'[i] = 0 \/ tasks[ring'[i]].id # 0
          BY <3>3 DEF IInv, ListOK, OnList
        <4>2. ring'[i] \in Slots
          BY <1>2, <3>3, LenProperties, Zenon DEF OnList
        <4> QED BY <2>4, <3>3, <4>1, <4>2, ZenonT(30)
      <3> QED BY <3>1, <3>2, <3>3, Zenon
    <2>9. OneRunning'
      BY <2>4, ZenonT(30) DEF OneRunning
    <2> QED BY <2>1, <2>3, <2>4, <2>6, <2>7, <2>8, <2>9, ViaReturn, Zenon
  <1>4. CASE CreateFailsAtFdTable(t)
    <2>1. /\ next_task_id <= MaxId
          /\ fd_failures < MaxFdFailures
          /\ heap' = HeapReclaimed(t)
          /\ next_task_id' = next_task_id + 1
          /\ fd_failures' = fd_failures + 1
          /\ UNCHANGED <<frame, ring, multitasking_enabled, spaces, answer>>
      BY <1>4 DEF CreateFailsAtFdTable
    <2>2. PICK b \in Stacks \ HeapReclaimed(t) :
             tasks' = Created(t, b, FALSE)
      BY <1>4, Zenon DEF CreateFailsAtFdTable
    <2> HIDE DEF t
    <2>3. /\ tasks' \in Table
          /\ \A s \in Slots : s # t => tasks'[s].id = tasks[s].id
          /\ tasks'[t].id = next_task_id
          /\ WaitOK(tasks', frame')
          /\ IdsOK(tasks', next_task_id + 1)
          /\ SpacesOK(tasks', spaces')
          /\ \A s \in Slots : tasks'[s].state = "RUNNING" <=> s = current_task
          /\ tasks'[0].state \in {"READY", "RUNNING"}
          /\ tasks'[current_task].page_dir = tasks[current_task].page_dir
      BY <1>1, <2>1, <2>2, CreatedTable, ZenonT(60)
    <2>4. next_task_id \in 1 .. MaxId
      BY <2>1, OtherTypes
    <2>5. /\ heap' \subseteq Stacks /\ spaces' \subseteq Ids /\ answer' \in Answers
          /\ next_task_id' \in 1 .. MaxId + 1 /\ multitasking_enabled' \in BOOLEAN
          /\ fd_failures' \in 0 .. MaxFdFailures
          /\ ring' \in Seq(Slots) /\ frame' \in Frames
      <3>1. next_task_id' \in 1 .. MaxId + 1
        BY <2>1, <2>4, OtherTypes
      <3>2. fd_failures' \in 0 .. MaxFdFailures
        BY <2>1, OtherTypes
      <3>3. /\ heap' \subseteq Stacks /\ spaces' \subseteq Ids /\ answer' \in Answers
            /\ ring' \in Seq(Slots) /\ frame' \in Frames
        BY <1>2, <2>1
      <3>4. multitasking_enabled' \in BOOLEAN
        BY <2>1, OtherTypes, ZenonT(30)
      <3> QED BY <3>1, <3>2, <3>3, <3>4
    <2>6. RingOK' /\ OneRunning'
      BY <1>1, <2>1, <2>3, Zenon DEF IInv, RingOK, OnList, OneRunning
    <2>7. ListOK(tasks', ring')
      <3>1. \A i \in 1 .. Len(ring) : ring[i] \in Slots
        BY <1>2, LenProperties
      <3>2. \A i \in 1 .. Len(ring) : ring[i] = 0 \/ tasks[ring[i]].id # 0
        BY Zenon DEF IInv, ListOK
      <3>3. \A s \in Slots : tasks[s].id # 0 => tasks'[s].id # 0
        <4>1. next_task_id # 0
          BY <2>4
        <4> QED BY <2>3, <4>1, ZenonT(60)
      <3>4. ListOK(tasks', ring)
        BY <3>1, <3>2, <3>3, ZenonT(30) DEF ListOK
      <3> QED BY <2>1, <3>4
    <2> QED BY <2>1, <2>3, <2>5, <2>6, <2>7, ViaReturn, ZenonT(30)
  <1>5. CASE CreateFailsEarly(t)
    <2>1. /\ tasks' = Reclaimed(t)
          /\ heap' = HeapReclaimed(t)
          /\ UNCHANGED <<frame, ring, next_task_id, multitasking_enabled, spaces,
                         answer, fd_failures>>
      BY <1>5 DEF CreateFailsEarly
    <2>2. /\ tasks' \in Table
          /\ \A s \in Slots :
                /\ tasks'[s].id = tasks[s].id /\ tasks'[s].detached = tasks[s].detached
                /\ tasks'[s].page_dir = tasks[s].page_dir
                /\ tasks'[s].state = tasks[s].state
                /\ tasks'[s].waiting_for = tasks[s].waiting_for
      BY <1>1, <1>2, <2>1, ReclaimedTable, ZenonT(30)
    <2>3. WaitOK(tasks', frame')
      <3>1. \A s \in Slots : frame[s].child \in Slots
        BY <1>2 DEF Frames
      <3>2. WaitOK(tasks, frame)
        BY Zenon DEF IInv
      <3>3. WaitOK(tasks', frame)
        BY <2>2, <3>1, <3>2 DEF WaitOK
      <3> QED BY <2>1, <3>3
    <2>4. IdsOK(tasks', next_task_id') /\ SpacesOK(tasks', spaces')
      <3>1. IdsOK(tasks, next_task_id) /\ SpacesOK(tasks, spaces)
        BY DEF IInv
      <3>2. IdsOK(tasks', next_task_id)
        <4>1. \A s \in Slots : tasks'[s].id = tasks[s].id
          BY <2>2, ZenonT(60)
        <4> QED BY <3>1, <4>1, SameIds
      <3>3. SpacesOK(tasks', spaces)
        BY <2>2, <3>1 DEF SpacesOK
      <3> QED BY <2>1, <3>2, <3>3
    <2>5. OneRunning' /\ RingOK' /\ cr3' = tasks'[current_task].page_dir
      BY <1>2, <2>1, <2>2, ZeroSlot, Zenon DEF IInv, OneRunning, RingOK, OnList
    <2>6. ListOK(tasks', ring')
      BY <1>2, <2>1, <2>2, ListKept DEF IInv
    <2>7. /\ heap' \subseteq Stacks /\ spaces' \subseteq Ids /\ answer' \in Answers
          /\ next_task_id' \in 1 .. MaxId + 1 /\ multitasking_enabled' \in BOOLEAN
          /\ fd_failures' \in 0 .. MaxFdFailures
          /\ ring' \in Seq(Slots) /\ frame' \in Frames
      BY <1>2, <2>1 DEF IInv, TypeOK
    <2> QED BY <2>2, <2>3, <2>4, <2>5, <2>6, <2>7, ViaReturn, Zenon
  <1> QED BY <1>3, <1>4, <1>5
-----------------------------------------------------------------------------
(* task_init establishes the inductive invariant.                          *)
LEMMA InitIInv == task_init => IInv
  <1> SUFFICES ASSUME task_init PROVE IInv
    OBVIOUS
  <1>1. /\ 0 \in Slots /\ 0 \in Ids /\ 0 \in Codes /\ 0 \in 0 .. MaxSleep
        /\ 1 \in 1 .. MaxId + 1 /\ 0 \in 0 .. MaxFdFailures
    BY ZeroSlot, TaskAssumption DEF Codes
  <1>2. KernelTask \in TaskRecord /\ UnusedSlot \in TaskRecord
    BY <1>1, Zenon DEF KernelTask, UnusedSlot, TaskRecord
  <1>3. tasks \in Table /\ frame \in Frames
    BY <1>2, FrameTypes DEF task_init, Table, Frames
  <1>4. ring \in Seq(Slots) /\ Len(ring) = 1 /\ ring[1] = 0
    BY <1>1 DEF task_init
  <1>5. answer \in Answers
    BY DEF task_init, Answers
  <1>6. TypeOK
    BY <1>1, <1>3, <1>4, <1>5, Zenon DEF task_init, TypeOK, Table, Frames, Answers
  <1>7. \A s \in Slots :
           /\ tasks[s].id = 0 /\ tasks[s].page_dir = 0
           /\ tasks[s].state = IF s = 0 THEN "RUNNING" ELSE "READY"
    BY DEF task_init, KernelTask, UnusedSlot
  <1>8. OneRunning /\ WaitOK(tasks, frame) /\ SpacesOK(tasks, spaces)
    BY <1>1, <1>7 DEF task_init, OneRunning, WaitOK, SpacesOK
  <1>9. IdsOK(tasks, next_task_id) /\ cr3 = tasks[current_task].page_dir
    BY <1>1, <1>7 DEF task_init, IdsOK
  <1>10. RingOK /\ ListOK(tasks, ring)
    BY <1>4 DEF task_init, RingOK, OnList, ListOK
  <1> QED BY <1>6, <1>8, <1>9, <1>10 DEF IInv

(* Every handler, the timer included, keeps the inductive invariant.       *)
LEMMA NextIInv == IInv /\ [Next]_vars => IInv'
  <1> SUFFICES ASSUME IInv, [Next]_vars PROVE IInv'
    OBVIOUS
  <1>1. CASE kernel_main
    <2>1. FreeSlots # {} /\ CreateSucceeds(FirstFree) /\ UNCHANGED <<current_task, cr3>>
      BY <1>1 DEF kernel_main
    <2>2. cr3 = tasks[current_task].page_dir
      BY DEF IInv
    <2> QED BY <2>1, <2>2, CreateKeeps
  <1>2. CASE timer_handler_switch
    BY <1>2, TickKeeps
  <1>3. CASE sys_do_spawn
    BY <1>3, CreateKeeps DEF sys_do_spawn
  <1>4. CASE \E code \in ExitCodes : sys_do_exit(code)
    BY <1>4, ExitKeeps DEF sys_do_exit, Codes
  <1>5. CASE idt_exception_handler(PageFault)
    BY <1>5, ExitKeeps DEF idt_exception_handler, Codes
  <1>6. CASE \E w \in Ids : task_kill(w)
    BY <1>6, KillKeeps
  <1>7. CASE \E w \in Ids : sys_do_wait(w)
    BY <1>7, WaitKeeps
  <1>8. CASE sys_do_wait_resumed
    BY <1>8, WaitResumedKeeps
  <1>9. CASE sys_do_detach
    BY <1>9, DetachKeeps
  <1>10. CASE sys_do_yield
    BY <1>10, YieldKeeps
  <1>11. CASE \E n \in 1 .. MaxSleep : sys_do_sleepms(n)
    BY <1>11, SleepKeeps, ZenonT(30)
  <1>12. CASE sys_do_sleepms_resumed
    BY <1>12, SleepResumedKeeps
  <1>13. CASE UNCHANGED vars
    BY <1>13 DEF vars, IInv, TypeOK, OneRunning, WaitOK, IdsOK, SpacesOK, RingOK,
                 OnList, ListOK
  <1> QED
    BY <1>1, <1>2, <1>3, <1>4, <1>5, <1>6, <1>7, <1>8, <1>9, <1>10, <1>11,
       <1>12, <1>13 DEF Next

(* The inductive invariant holds whatever the processes and the timer do.  *)
THEOREM Invariance == Spec => []IInv
  BY InitIInv, NextIInv, PTL DEF Spec

(* Every variable of the scheduler keeps its type.                         *)
THEOREM TypeCorrect == Spec => []TypeOK
  <1>1. IInv => TypeOK
    BY DEF IInv
  <1> QED BY <1>1, Invariance, PTL

(* The current task is RUNNING and no other is, whatever was spawned,      *)
(* killed, blocked or preempted, with any number of tasks and ids.         *)
THEOREM ExactlyOneRunning == Spec => []OneRunning
  <1>1. IInv => OneRunning
    BY Zenon DEF IInv
  <1> QED BY <1>1, Invariance, PTL

(* No task is left BLOCKED for a task that has exited, detached or lost    *)
(* its slot to another, even when fd table allocations fail.               *)
THEOREM WakeupsAreNotLost == Spec => []NoLostWakeup
  <1>1. IInv => NoLostWakeup
    BY Zenon DEF IInv, WaitOK, NoLostWakeup
  <1> QED BY <1>1, Invariance, PTL

(* The processor never runs on a destroyed page directory.                 *)
THEOREM PageDirectoryIsLive == Spec => []Cr3IsCurrent
  <1>1. IInv => Cr3IsCurrent
    <2> SUFFICES ASSUME IInv PROVE Cr3IsCurrent
      OBVIOUS
    <2>1. cr3 = tasks[current_task].page_dir /\ current_task \in Slots
      BY DEF IInv, TypeOK
    <2>2. tasks[current_task].state = "RUNNING"
      BY Unblocked
    <2> QED BY <2>1, <2>2 DEF IInv, SpacesOK, Cr3IsCurrent
  <1> QED BY <1>1, Invariance, PTL
=============================================================================
