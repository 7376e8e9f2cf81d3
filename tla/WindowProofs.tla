---------------------------- MODULE WindowProofs ----------------------------
(***************************************************************************)
(* Three results about the window table for every number of tasks, slots,  *)
(* windows and pixel buffers and every width of the generation: what an    *)
(* old id can reach, what the end of a task leaves behind, and in which    *)
(* order the text of a window is read.                                     *)
(***************************************************************************)
EXTENDS Window, FiniteSetTheorems, WellFoundedInduction, TLAPS

(* Quotient and remainder of q * n + r are q and r.                        *)
LEMMA DivMod ==
    ASSUME NEW n \in Nat, NEW q \in Nat, NEW r \in Nat, r < n
    PROVE  (q * n + r) % n = r /\ (q * n + r) \div n = q
<1> DEFINE a == q * n + r
           d == a \div n
           m == a % n
<1>1. a \in Nat /\ n > 0 /\ q * n \in Nat
  OBVIOUS
<1>2. d \in Nat /\ m \in 0 .. n - 1 /\ a = d * n + m
  BY <1>1
<1> HIDE DEF d, m
<1>3. ~(q < d)
  <2> SUFFICES ASSUME q < d PROVE FALSE
    OBVIOUS
  <2>1. (q + 1) * n <= d * n /\ (q + 1) * n = q * n + n
    BY <1>1, <1>2
  <2> QED BY <1>1, <1>2, <2>1
<1>4. ~(d < q)
  <2> SUFFICES ASSUME d < q PROVE FALSE
    OBVIOUS
  <2>1. (d + 1) * n <= q * n /\ (d + 1) * n = d * n + n /\ d * n \in Nat
    BY <1>1, <1>2
  <2> QED BY <1>1, <1>2, <2>1
<1>5. d = q
  BY <1>2, <1>3, <1>4
<1>6. m = r
  BY <1>1, <1>2, <1>5
<1> QED BY <1>5, <1>6 DEF d, m

(* Numbers less than n apart have different remainders.                    *)
LEMMA ModApart ==
    ASSUME NEW n \in Nat, n > 0, NEW x \in Nat, NEW y \in Nat,
           x <= y, y - x < n, x % n = y % n
    PROVE  x = y
<1> DEFINE dx == x \div n
           dy == y \div n
           m == x % n
<1>1. /\ dx \in Nat /\ dy \in Nat /\ m \in 0 .. n - 1
      /\ x = dx * n + m /\ y = dy * n + m
      /\ dx * n \in Nat /\ dy * n \in Nat
  OBVIOUS
<1> HIDE DEF dx, dy, m
<1>2. ~(dx < dy)
  <2> SUFFICES ASSUME dx < dy PROVE FALSE
    OBVIOUS
  <2>1. (dx + 1) * n <= dy * n /\ (dx + 1) * n = dx * n + n
    BY <1>1
  <2> QED BY <1>1, <2>1
<1>3. ~(dy < dx)
  <2> SUFFICES ASSUME dy < dx PROVE FALSE
    OBVIOUS
  <2>1. (dy + 1) * n <= dx * n /\ (dy + 1) * n = dy * n + n
    BY <1>1
  <2> QED BY <1>1, <2>1
<1> QED BY <1>1, <1>2, <1>3

(* A remainder is smaller than its divisor.                                *)
LEMMA ModRange ==
    ASSUME NEW x \in Nat, NEW n \in Nat, n > 0
    PROVE  x % n \in 0 .. n - 1
  OBVIOUS

(* The remainder can be taken before or after counting on (generation).    *)
LEMMA ModNext ==
    ASSUME NEW n \in Nat, n > 0, NEW x \in Nat
    PROVE  ((x % n) + 1) % n = (x + 1) % n
<1> DEFINE d == x \div n
           m == x % n
<1>1. d \in Nat /\ m \in 0 .. n - 1 /\ x = d * n + m
  OBVIOUS
<1> HIDE DEF d, m
<1>2. CASE m + 1 < n
  <2>1. x + 1 = d * n + (m + 1)
    BY <1>1
  <2>2. (x + 1) % n = m + 1
    BY <1>1, <1>2, <2>1, DivMod
  <2>3. (m + 1) % n = m + 1
    BY <1>1, <1>2
  <2> QED BY <2>2, <2>3 DEF m
<1>3. CASE m + 1 = n
  <2>1. x + 1 = (d + 1) * n + 0
    BY <1>1, <1>3
  <2>2. (x + 1) % n = 0
    BY <1>1, <2>1, DivMod
  <2>3. (m + 1) % n = 0
    <3>1. m + 1 = 1 * n + 0
      BY <1>1, <1>3
    <3> QED BY <3>1, DivMod
  <2> QED BY <2>2, <2>3 DEF m
<1> QED BY <1>1, <1>2, <1>3
-----------------------------------------------------------------------------
Live == {s \in Slot : windows[s].active}

(* The table has a record with these fields in every slot.                 *)
Shape ==
    /\ windows = [s \in Slot |-> windows[s]]
    /\ \A s \in Slot :
          windows[s] = [active |-> windows[s].active, generation |-> windows[s].generation,
                        owner_pid |-> windows[s].owner_pid, buffer |-> windows[s].buffer,
                        key |-> windows[s].key, text |-> windows[s].text]

(* The generation of a slot counts its windows, whoever they belonged to.  *)
Generations ==
    /\ creates \in [Slot -> Nat]
    /\ \A s \in Slot : windows[s].generation = creates[s] % GenSpan

(* A live window has a live owner and a buffer that no other window has,   *)
(* and there are no other buffers.                                         *)
Owned ==
    /\ task = [p \in Pid |-> task[p]]
    /\ \A s \in Live : windows[s].owner_pid \in Pid /\ task[windows[s].owner_pid] = "alive"
    /\ heap = BuffersOf(Live)
    /\ \A s, t \in Live : windows[s].buffer = windows[t].buffer => s = t

WindowInv == Shape /\ Generations /\ Owned

(* A slot's number is not None.                                            *)
LEMMA SlotIsNat == Slot \subseteq Nat /\ None \notin Slot
  BY WindowAssumption DEF Slot, None

(* What window_init sets up.                                               *)
LEMMA WindowInvInit == window_init => WindowInv
<1> SUFFICES ASSUME window_init PROVE WindowInv
  OBVIOUS
<1>1. \A s \in Slot : windows[s] = Cleared(0)
  BY DEF window_init
<1>2. Shape
  BY <1>1, Zenon DEF window_init, Shape, Cleared
<1>3. Generations
  <2>1. 0 % GenSpan = 0
    BY WindowAssumption
  <2> QED BY <1>1, <2>1 DEF window_init, Generations, Cleared
<1>4. Live = {}
  BY <1>1 DEF Live, Cleared
<1>5. Owned
  BY <1>4 DEF window_init, Owned, BuffersOf
<1> QED BY <1>2, <1>3, <1>5 DEF WindowInv

(* Only the rings of a window change.                                      *)
SameTable ==
    \A s \in Slot :
       /\ windows'[s].active = windows[s].active
       /\ windows'[s].generation = windows[s].generation
       /\ windows'[s].owner_pid = windows[s].owner_pid
       /\ windows'[s].buffer = windows[s].buffer

(* Keys and text touch nothing the invariant speaks of.                    *)
LEMMA RingsOnly ==
    ASSUME WindowInv, Shape', SameTable, UNCHANGED <<heap, creates>>,
           \A p \in Pid : task[p] = "alive" => task'[p] = "alive",
           task' = [p \in Pid |-> task'[p]]
    PROVE  WindowInv'
<1>1. Live' = Live
  BY DEF SameTable, Live
<1>2. BuffersOf(Live)' = BuffersOf(Live)
  BY <1>1 DEF SameTable, BuffersOf, Live
<1>3. Owned'
  BY <1>1, <1>2 DEF WindowInv, Owned, SameTable, Live
<1>4. Generations'
  BY DEF WindowInv, Generations, SameTable
<1> QED BY <1>3, <1>4 DEF WindowInv

(* A step that changes one window's keys.                                  *)
LEMMA KeyChange ==
    ASSUME Shape, NEW s \in Slot, NEW e, windows' = [windows EXCEPT ![s].key = e]
    PROVE  Shape' /\ SameTable
  BY DEF Shape, SameTable

(* A step that changes one window's text.                                  *)
LEMMA TextChange ==
    ASSUME Shape, NEW s \in Slot, NEW e, windows' = [windows EXCEPT ![s].text = e]
    PROVE  Shape' /\ SameTable
  BY DEF Shape, SameTable

(* What win_get finds is a live window's slot, of the id's generation.     *)
LEMMA WinGet ==
    ASSUME NEW wid, win_get(wid) # None
    PROVE  /\ win_get(wid) \in Live /\ win_get(wid) \in Slot
           /\ win_get(wid) = WIN_SLOT(wid)
           /\ windows[win_get(wid)].generation = WIN_GEN(wid)
  BY DEF win_get, Live

(* The generation is what memset leaves of a slot.                         *)
LEMMA ClearedFields ==
    ASSUME NEW g PROVE Cleared(g).active = FALSE /\ Cleared(g).generation = g
  BY DEF Cleared

(* Closing windows frees their buffers and keeps their generations.        *)
LEMMA Closing ==
    ASSUME WindowInv, NEW slots \in SUBSET Live,
           windows' = Emptied(slots), heap' = heap \ BuffersOf(slots),
           UNCHANGED creates, task' = [p \in Pid |-> task'[p]],
           \A s \in Live \ slots : task'[windows[s].owner_pid] = "alive"
    PROVE  WindowInv'
<1>1. /\ \A s \in slots : windows'[s] = Cleared(windows[s].generation)
      /\ \A s \in Slot : s \notin slots => windows'[s] = windows[s]
      /\ slots \subseteq Slot
  BY DEF Emptied, Live
<1>2. Shape'
  BY <1>1, Zenon DEF WindowInv, Shape, Emptied, Cleared
<1>3. Generations'
  <2>1. \A s \in slots : windows'[s].generation = windows[s].generation
    BY <1>1, ClearedFields, Zenon
  <2> QED BY <1>1, <2>1 DEF WindowInv, Generations
<1>4. Live' = Live \ slots
  <2>1. ASSUME NEW s \in slots PROVE windows'[s].active = FALSE
    <3>1. windows'[s] = Cleared(windows[s].generation)
      BY <1>1
    <3>2. Cleared(windows[s].generation).active = FALSE
      BY ClearedFields, Zenon
    <3> QED BY <3>1, <3>2, Zenon
  <2> QED BY <1>1, <2>1, Zenon DEF Live
<1>5. \A s \in Live \ slots : windows'[s] = windows[s]
  BY <1>1 DEF Live
<1>6. BuffersOf(Live)' = BuffersOf(Live \ slots)
  BY <1>4, <1>5 DEF BuffersOf
<1>7. BuffersOf(Live \ slots) = BuffersOf(Live) \ BuffersOf(slots)
  BY DEF BuffersOf, WindowInv, Owned
<1>8. Owned'
  <2>1. heap' = BuffersOf(Live)'
    BY <1>6, <1>7, Zenon DEF WindowInv, Owned
  <2>2. \A s \in Live' : windows'[s].owner_pid \in Pid /\ task'[windows'[s].owner_pid] = "alive"
    BY <1>4, <1>5 DEF WindowInv, Owned
  <2>3. \A s, t \in Live' : windows'[s].buffer = windows'[t].buffer => s = t
    BY <1>4, <1>5 DEF WindowInv, Owned
  <2> QED BY <2>1, <2>2, <2>3 DEF Owned
<1> QED BY <1>2, <1>3, <1>8 DEF WindowInv

(* A nonempty set of slots has a first.                                    *)
LEMMA FirstIn ==
    ASSUME NEW T \in SUBSET Slot, T # {}
    PROVE  First(T) \in T
<1>1. T \subseteq Nat
  BY SlotIsNat
<1>2. \E x \in T : \A y \in T : ~ (<<y, x>> \in OpToRel(<, Nat))
  BY <1>1, NatLessThanWellFounded, WFMin
<1>3. \A x, y \in Nat : ~ (<<y, x>> \in OpToRel(<, Nat)) => x <= y
  BY DEF OpToRel
<1>4. \E x \in T : \A y \in T : x <= y
  BY <1>1, <1>2, <1>3
<1> QED BY <1>4 DEF First

(* A new window gets a free slot, its next generation and a new buffer.    *)
LEMMA Creating ==
    ASSUME WindowInv, NEW p \in Pid, task[p] = "alive", window_create(p)
    PROVE  WindowInv'
<1> DEFINE free == {s \in Slot : ~windows[s].active}
           n == First(free)
           gen == (windows[n].generation + 1) % GenSpan
<1>1. n \in Slot /\ n \notin Live
  BY FirstIn, ZenonT(30) DEF window_create, Live
<1>2. PICK b \in Buffer \ heap :
        /\ heap' = heap \cup {b}
        /\ windows' = [windows EXCEPT ![n] =
              [active |-> TRUE, generation |-> gen, owner_pid |-> p,
               buffer |-> b, key |-> 0, text |-> <<>>]]
  BY Zenon DEF window_create
<1>3. creates' = [creates EXCEPT ![n] = @ + 1] /\ UNCHANGED task
  BY DEF window_create
<1>4. gen = (creates[n] + 1) % GenSpan
  BY <1>1, ModNext, WindowAssumption, Zenon DEF WindowInv, Generations
<1> HIDE DEF free, n, gen
<1>5. /\ windows'[n] = [active |-> TRUE, generation |-> gen, owner_pid |-> p,
                        buffer |-> b, key |-> 0, text |-> <<>>]
      /\ \A s \in Slot : s # n => windows'[s] = windows[s]
  BY <1>1, <1>2 DEF WindowInv, Shape
<1>6. Shape'
  <2>1. windows' = [s \in Slot |-> windows'[s]]
    BY <1>1, <1>2, Zenon DEF WindowInv, Shape
  <2> QED BY <1>1, <1>5, <2>1 DEF WindowInv, Shape
<1>7. Generations'
  BY <1>1, <1>3, <1>4, <1>5 DEF WindowInv, Generations
<1>8. Live' = Live \cup {n}
  BY <1>1, <1>5 DEF Live
<1>9. \A s \in Live : windows'[s] = windows[s] /\ s # n
  BY <1>1, <1>5 DEF Live
<1>10. BuffersOf(Live)' = BuffersOf(Live) \cup {b}
  BY <1>5, <1>8, <1>9 DEF BuffersOf
<1>11. \A s \in Live : windows[s].buffer # b
  BY <1>2 DEF WindowInv, Owned, BuffersOf
<1>12. Owned'
  <2>1. heap' = BuffersOf(Live)'
    BY <1>2, <1>10 DEF WindowInv, Owned
  <2>2. \A s \in Live' : windows'[s].owner_pid \in Pid /\ task'[windows'[s].owner_pid] = "alive"
    BY <1>3, <1>5, <1>8, <1>9 DEF WindowInv, Owned
  <2>3. \A s, t \in Live' : windows'[s].buffer = windows'[t].buffer => s = t
    BY <1>5, <1>8, <1>9, <1>11 DEF WindowInv, Owned
  <2> QED BY <1>3, <2>1, <2>2, <2>3 DEF WindowInv, Owned
<1> QED BY <1>6, <1>7, <1>12 DEF WindowInv

(* Every call keeps the invariant.                                         *)
LEMMA WindowInvNext == WindowInv /\ [Next]_vars => WindowInv'
<1> SUFFICES ASSUME WindowInv, [Next]_vars PROVE WindowInv'
  OBVIOUS
<1>0. Shape /\ task = [p \in Pid |-> task[p]]
  BY DEF WindowInv, Owned
<1>1. CASE UNCHANGED vars
  <2>1. Shape' /\ SameTable
    BY <1>0, <1>1 DEF vars, Shape, SameTable
  <2> QED BY <1>0, <1>1, <2>1, RingsOnly DEF vars
<1>2. ASSUME NEW p \in Pid, task[p] = "alive", Step(p) PROVE WindowInv'
  <2>1. CASE window_create(p)
    BY <1>2, <2>1, Creating
  <2>2. ASSUME NEW wid \in Ids, window_destroy(p, wid) PROVE WindowInv'
    <3> DEFINE s == win_get(wid)
    <3>1. s \in Live /\ UNCHANGED <<task, creates>>
      BY <2>2, WinGet DEF window_destroy, Owns
    <3>2. windows' = Emptied({s}) /\ heap' = heap \ BuffersOf({s})
      BY <2>2 DEF window_destroy
    <3>3. {s} \in SUBSET Live
      BY <3>1
    <3>4. \A t \in Live \ {s} : task'[windows[t].owner_pid] = "alive"
      BY <3>1 DEF WindowInv, Owned
    <3> HIDE DEF s
    <3> QED BY <1>0, <3>1, <3>2, <3>3, <3>4, Closing
  <2>3. ASSUME NEW wid \in Ids, window_sendkey(wid) \/ window_getkey(p, wid) PROVE WindowInv'
    <3> DEFINE s == win_get(wid)
    <3>1. s \in Slot /\ UNCHANGED <<heap, task, creates>>
      BY <2>3, WinGet DEF window_sendkey, window_getkey, Owns
    <3>2. \E e : windows' = [windows EXCEPT ![s].key = e]
      BY <2>3 DEF window_sendkey, window_getkey
    <3> HIDE DEF s
    <3>3. Shape' /\ SameTable
      BY <1>0, <3>1, <3>2, KeyChange, Zenon
    <3> QED BY <1>0, <3>1, <3>3, RingsOnly
  <2>4. ASSUME NEW wid \in Ids, NEW len \in Lens, window_read_text(p, wid, len) PROVE WindowInv'
    <3> DEFINE s == win_get(wid)
    <3>1. s \in Slot /\ UNCHANGED <<heap, task, creates>>
      BY <2>4, WinGet DEF window_read_text, Owns
    <3>2. \E e : windows' = [windows EXCEPT ![s].text = e]
      BY <2>4, Zenon DEF window_read_text
    <3> HIDE DEF s
    <3>3. Shape' /\ SameTable
      BY <1>0, <3>1, <3>2, TextChange, Zenon
    <3> QED BY <1>0, <3>1, <3>3, RingsOnly
  <2>5. ASSUME NEW wid, SetStdout(p, wid) PROVE WindowInv'
    <3>1. Shape' /\ SameTable /\ UNCHANGED <<heap, task, creates>>
      BY <1>0, <2>5 DEF SetStdout, Shape, SameTable
    <3> QED BY <1>0, <3>1, RingsOnly
  <2>6. ASSUME NEW len \in Lens, window_append_text(p, len) PROVE WindowInv'
    <3> DEFINE s == IF stdout_wid[p] >= 0 THEN win_get(stdout_wid[p]) ELSE None
    <3>1. s \in Slot /\ UNCHANGED <<heap, task, creates>>
      BY <2>6, WinGet, ZenonT(30) DEF window_append_text
    <3>2. \E e : windows' = [windows EXCEPT ![s].text = e]
      BY <2>6, Zenon DEF window_append_text
    <3> HIDE DEF s
    <3>3. Shape' /\ SameTable
      BY <1>0, <3>1, <3>2, TextChange, Zenon
    <3> QED BY <1>0, <3>1, <3>3, RingsOnly
  <2>7. CASE sys_do_spawn(p)
    <3>1. \E c : task' = [task EXCEPT ![c] = "alive"]
      BY <2>7, Zenon DEF sys_do_spawn
    <3>2. /\ \A q \in Pid : task[q] = "alive" => task'[q] = "alive"
          /\ task' = [q \in Pid |-> task'[q]]
      BY <1>0, <3>1
    <3>3. Shape' /\ SameTable /\ UNCHANGED <<heap, creates>>
      BY <1>0, <2>7 DEF sys_do_spawn, Shape, SameTable
    <3> QED BY <3>2, <3>3, RingsOnly
  <2>8. CASE window_cleanup_pid(p)
    <3>1. task' = [task EXCEPT ![p] = "dead"] /\ UNCHANGED creates
      BY <2>8 DEF window_cleanup_pid
    <3>2. windows' = Emptied(Orphaned(p)) /\ heap' = heap \ BuffersOf(Orphaned(p))
      BY <2>8 DEF window_cleanup_pid
    <3>3. Orphaned(p) \in SUBSET Live
      BY DEF Orphaned, Live
    <3>4. \A s \in Live \ Orphaned(p) : windows[s].owner_pid # p
      BY DEF Orphaned, Live
    <3>5. \A s \in Live \ Orphaned(p) : task'[windows[s].owner_pid] = "alive"
      BY <1>0, <3>1, <3>4 DEF WindowInv, Owned
    <3>6. task' = [q \in Pid |-> task'[q]]
      BY <1>0, <3>1
    <3> QED BY <3>1, <3>2, <3>3, <3>5, <3>6, Closing, Zenon
  <2> QED
    BY <1>2, <2>1, <2>2, <2>3, <2>4, <2>5, <2>6, <2>7, <2>8 DEF Step
<1> QED BY <1>1, <1>2 DEF Next

(* An id decodes to the slot and the generation it was made of.            *)
LEMMA IdDecodes ==
    ASSUME NEW s \in Slot, NEW n \in Nat
    PROVE  WIN_SLOT(IdOf(s, n)) = s /\ WIN_GEN(IdOf(s, n)) = n % GenSpan
<1> DEFINE g == n % GenSpan
<1>1. /\ g \in 0 .. GenSpan - 1 /\ g \in Nat /\ s \in Nat /\ s < SlotSpan
      /\ SlotSpan \in Nat /\ GenSpan \in Nat
  BY WindowAssumption, ModRange DEF Slot
<1> HIDE DEF g
<1>2. (g * SlotSpan + s) % SlotSpan = s /\ (g * SlotSpan + s) \div SlotSpan = g
  BY <1>1, DivMod
<1>3. g % GenSpan = g
  BY <1>1
<1>4. IdOf(s, n) = g * SlotSpan + s
  BY DEF IdOf, WIN_MAKE_ID, g
<1> QED BY <1>2, <1>3, <1>4 DEF WIN_SLOT, WIN_GEN, g

(* An id whose window is gone reaches nothing (win_get), whatever became   *)
(* of its slot, until the generation has gone all the way round.           *)
THEOREM OldIdsReachNothing == Spec => []StaleIdsReachNothing
<1>1. WindowInv => StaleIdsReachNothing
  <2> SUFFICES ASSUME WindowInv, NEW k \in Known,
                      win_get(IdOf(k[1], k[2])) # None, creates[k[1]] - k[2] < GenSpan
               PROVE  k[2] = creates[k[1]]
    BY DEF StaleIdsReachNothing
  <2> DEFINE s == k[1]
             n == k[2]
  <2>1. s \in Slot /\ n \in Nat /\ n <= creates[s] /\ creates[s] \in Nat
    BY WindowAssumption DEF Known, WindowInv, Generations
  <2>2. creates[s] - n < GenSpan /\ win_get(IdOf(s, n)) # None
    OBVIOUS
  <2> HIDE DEF s, n
  <2>3. windows[s].generation = n % GenSpan
    BY <2>1, <2>2, IdDecodes, WinGet
  <2>4. n % GenSpan = creates[s] % GenSpan
    BY <2>1, <2>3 DEF WindowInv, Generations
  <2>5. n = creates[s]
    BY <2>1, <2>2, <2>4, ModApart, WindowAssumption, ZenonT(30)
  <2> QED BY <2>5 DEF s, n
<1> QED BY WindowInvInit, WindowInvNext, <1>1, PTL DEF Spec

(* Every window and every pixel buffer belongs to a live task: the end of  *)
(* a task (window_cleanup_pid) and window_destroy leave nothing behind.    *)
THEOREM WindowsEndWithTheirTask == Spec => []NothingOutlivesItsTask
<1>1. WindowInv => NothingOutlivesItsTask
  <2> SUFFICES ASSUME WindowInv PROVE NothingOutlivesItsTask
    OBVIOUS
  <2> DEFINE f == [s \in Live |-> windows[s].buffer]
  <2>1. heap = BuffersOf(Live)
    BY DEF WindowInv, Owned
  <2>2. f \in Bijection(Live, heap)
    <3>1. f \in [Live -> heap]
      BY <2>1 DEF BuffersOf
    <3>2. \A s, t \in Live : f[s] = f[t] => s = t
      BY DEF WindowInv, Owned
    <3>3. \A b \in heap : \E s \in Live : f[s] = b
      BY <2>1 DEF BuffersOf
    <3> HIDE DEF f
    <3> QED BY <3>1, <3>2, <3>3 DEF Bijection, Injection, Surjection, IsInjective
  <2>3. IsFiniteSet(Live)
    <3>1. IsFiniteSet(Slot)
      BY WindowAssumption, FS_Interval DEF Slot
    <3>2. Live \subseteq Slot
      BY DEF Live
    <3> QED BY <3>1, <3>2, FS_Subset
  <2>4. Cardinality(heap) = Cardinality(Live)
    BY <2>2, <2>3, FS_Bijection DEF ExistsBijection
  <2> QED BY <2>1, <2>4 DEF NothingOutlivesItsTask, Live, WindowInv, Owned
<1> QED BY WindowInvInit, WindowInvNext, <1>1, PTL DEF Spec
-----------------------------------------------------------------------------
(* The text of every window, as TextInOrder; a slot without a window has   *)
(* no history.                                                             *)
TextInv ==
    /\ sent \in [Slot -> Seq(Nat)] /\ got \in [Slot -> Seq(Nat)]
    /\ \A s \in Slot :
          /\ windows[s].text \in Seq(Nat)
          /\ windows[s].active => got[s] \o windows[s].text = sent[s]
          /\ ~windows[s].active => got[s] = <<>> /\ sent[s] = <<>>

(* Sequences with the same elements are the same sequence.                 *)
LEMMA SameSequence ==
    ASSUME NEW S, NEW a \in Seq(S), NEW b \in Seq(S), Len(a) = Len(b),
           \A i \in 1 .. Len(a) : a[i] = b[i]
    PROVE  a = b
OBVIOUS

(* The elements of a concatenation.                                        *)
LEMMA Concatenated ==
    ASSUME NEW a \in Seq(Nat), NEW b \in Seq(Nat)
    PROVE  /\ a \o b \in Seq(Nat) /\ Len(a \o b) = Len(a) + Len(b)
           /\ \A i \in 1 .. Len(a) + Len(b) :
                 (a \o b)[i] = IF i <= Len(a) THEN a[i] ELSE b[i - Len(a)]
  OBVIOUS

(* Taking n elements off the front of a sequence loses none of them.       *)
LEMMA TakeFront ==
    ASSUME NEW q \in Seq(Nat), NEW n \in 0 .. Len(q)
    PROVE  /\ SubSeq(q, 1, n) \in Seq(Nat) /\ SubSeq(q, n + 1, Len(q)) \in Seq(Nat)
           /\ SubSeq(q, 1, n) \o SubSeq(q, n + 1, Len(q)) = q
<1>1. PICK a, b : a = SubSeq(q, 1, n) /\ b = SubSeq(q, n + 1, Len(q))
  BY Zenon
<1>2. Len(q) \in Nat /\ \A i \in 1 .. Len(q) : q[i] \in Nat
  OBVIOUS
<1>3. a \in Seq(Nat) /\ Len(a) = n /\ \A i \in 1 .. n : a[i] = q[i]
  BY <1>1, <1>2
<1>4. b \in Seq(Nat) /\ Len(b) = Len(q) - n /\ \A i \in 1 .. Len(q) - n : b[i] = q[n + i]
  BY <1>1, <1>2
<1>5. /\ a \o b \in Seq(Nat) /\ Len(a \o b) = Len(q)
      /\ \A i \in 1 .. Len(q) : (a \o b)[i] = IF i <= n THEN a[i] ELSE b[i - n]
  <2>1. Len(a) + Len(b) = Len(q)
    BY <1>2, <1>3, <1>4
  <2>2. /\ a \o b \in Seq(Nat) /\ Len(a \o b) = Len(a) + Len(b)
        /\ \A i \in 1 .. Len(a) + Len(b) :
              (a \o b)[i] = IF i <= Len(a) THEN a[i] ELSE b[i - Len(a)]
    BY <1>3, <1>4, Concatenated, Zenon
  <2>3. PICK k : k = Len(a)
    BY Zenon
  <2>4. k = n
    BY <1>3, <2>3, Zenon
  <2>5. \A i \in 1 .. Len(q) : (a \o b)[i] = IF i <= k THEN a[i] ELSE b[i - k]
    BY <2>1, <2>2, <2>3, Zenon
  <2> QED BY <2>1, <2>2, <2>4, <2>5, Zenon
<1>6. ASSUME NEW i \in 1 .. Len(q) PROVE (a \o b)[i] = q[i]
  <2>1. CASE i <= n
    <3>1. i \in 1 .. n
      BY <1>2, <2>1
    <3> QED BY <1>3, <1>5, <2>1, <3>1, Zenon
  <2>2. CASE ~(i <= n)
    <3>1. i - n \in 1 .. Len(q) - n /\ n + (i - n) = i
      BY <1>2, <2>2
    <3> QED BY <1>4, <1>5, <2>2, <3>1, Zenon
  <2> QED BY <2>1, <2>2, Zenon
<1>7. a \o b = q
  BY <1>5, <1>6, SameSequence, Zenon
<1> QED BY <1>1, <1>3, <1>4, <1>7, Zenon

(* The numbers m + 1 .. m + n, in order.                                   *)
LEMMA Counting ==
    ASSUME NEW n \in Nat, NEW m \in Nat
    PROVE  /\ [k \in 1 .. n |-> m + k] \in Seq(Nat)
           /\ Len([k \in 1 .. n |-> m + k]) = n
           /\ SubSeq([k \in 1 .. n |-> m + k], 1, n) = [k \in 1 .. n |-> m + k]
<1> DEFINE q == [k \in 1 .. n |-> m + k]
<1>1. q \in [1 .. n -> Nat]
  OBVIOUS
<1>2. q \in Seq(Nat) /\ Len(q) = n
  <2> HIDE DEF q
  <2>1. q \in Seq(Nat)
    BY <1>1
  <2>2. DOMAIN q = 1 .. n
    BY <1>1
  <2> QED BY <2>1, <2>2
<1> HIDE DEF q
<1>3. SubSeq(q, 1, n) = q
  BY <1>2
<1> QED BY <1>2, <1>3 DEF q

(* What window_append_text stores and what it reports are the same.        *)
LEMMA AppendKeepsOrder ==
    ASSUME NEW a \in Seq(Nat), NEW t \in Seq(Nat), NEW d \in Seq(Nat)
    PROVE  /\ t \o d \in Seq(Nat) /\ a \o t \in Seq(Nat) /\ (a \o t) \o d \in Seq(Nat)
           /\ a \o (t \o d) = (a \o t) \o d
<1>1. t \o d \in Seq(Nat) /\ a \o t \in Seq(Nat)
  OBVIOUS
<1>2. (a \o t) \o d \in Seq(Nat)
  BY <1>1
<1>3. (a \o t) \o d = a \o (t \o d)
  OBVIOUS
<1> QED BY <1>1, <1>2, <1>3, Zenon

(* Calls that leave the text of every window alone.                        *)
LEMMA TextKept ==
    ASSUME TextInv, UNCHANGED <<sent, got>>,
           \A s \in Slot : /\ windows'[s].active = windows[s].active
                           /\ windows'[s].text = windows[s].text
    PROVE  TextInv'
  BY Zenon DEF TextInv

(* Windows that close take their text along.                               *)
LEMMA TextClosed ==
    ASSUME TextInv, NEW slots \in SUBSET Slot, windows' = Emptied(slots),
           sent' = Forgotten(sent, slots), got' = Forgotten(got, slots)
    PROVE  TextInv'
<1>1. <<>> \in Seq(Nat)
  OBVIOUS
<1>2. sent' \in [Slot -> Seq(Nat)] /\ got' \in [Slot -> Seq(Nat)]
  BY <1>1 DEF TextInv, Forgotten
<1>3. ASSUME NEW s \in Slot
      PROVE  /\ windows'[s].text \in Seq(Nat)
             /\ windows'[s].active => got'[s] \o windows'[s].text = sent'[s]
             /\ ~windows'[s].active => got'[s] = <<>> /\ sent'[s] = <<>>
  <2>1. CASE s \in slots
    <3>1. windows'[s] = Cleared(windows[s].generation) /\ got'[s] = <<>> /\ sent'[s] = <<>>
      BY <2>1 DEF Emptied, Forgotten
    <3>2. windows'[s].text = <<>> /\ windows'[s].active = FALSE
      BY <3>1 DEF Cleared
    <3> QED BY <1>1, <3>1, <3>2
  <2>2. CASE s \notin slots
    <3>1. windows'[s] = windows[s] /\ got'[s] = got[s] /\ sent'[s] = sent[s]
      BY <2>2 DEF Emptied, Forgotten
    <3> QED BY <3>1 DEF TextInv
  <2> QED BY <2>1, <2>2, Zenon
<1> QED BY <1>2, <1>3 DEF TextInv

(* One live window gets text e, and its history a and g.                   *)
LEMMA TextMoved ==
    ASSUME Shape, TextInv, NEW s \in Slot, windows[s].active,
           NEW e \in Seq(Nat), NEW a \in Seq(Nat), NEW g \in Seq(Nat), g \o e = a,
           windows' = [windows EXCEPT ![s].text = e],
           sent' = [sent EXCEPT ![s] = a], got' = [got EXCEPT ![s] = g]
    PROVE  TextInv'
<1>1. sent' \in [Slot -> Seq(Nat)] /\ got' \in [Slot -> Seq(Nat)]
  BY DEF TextInv
<1>2. /\ windows'[s].text = e /\ windows'[s].active = windows[s].active
      /\ sent'[s] = a /\ got'[s] = g
  BY DEF Shape, TextInv
<1>3. \A t \in Slot \ {s} : windows'[t] = windows[t] /\ sent'[t] = sent[t] /\ got'[t] = got[t]
  BY DEF Shape, TextInv
<1>4. ASSUME NEW t \in Slot
      PROVE  /\ windows'[t].text \in Seq(Nat)
             /\ windows'[t].active => got'[t] \o windows'[t].text = sent'[t]
             /\ ~windows'[t].active => got'[t] = <<>> /\ sent'[t] = <<>>
  <2>1. CASE t = s
    BY <1>2, <2>1, Zenon
  <2>2. CASE t # s
    BY <1>3, <2>2 DEF TextInv
  <2> QED BY <2>1, <2>2, Zenon
<1> QED BY <1>1, <1>4, Zenon DEF TextInv

(* Every call keeps the text in order.                                     *)
LEMMA TextInvNext == WindowInv /\ TextInv /\ [Next]_vars => TextInv'
<1> SUFFICES ASSUME WindowInv, TextInv, [Next]_vars PROVE TextInv'
  OBVIOUS
<1>0. Shape
  BY DEF WindowInv
<1>1. CASE UNCHANGED vars
  BY <1>1, TextKept DEF vars
<1>2. ASSUME NEW p \in Pid, task[p] = "alive", Step(p) PROVE TextInv'
  <2>1. CASE window_create(p)
    <3> DEFINE n == First({s \in Slot : ~windows[s].active})
    <3>1. n \in Slot /\ ~windows[n].active
      <4>1. {s \in Slot : ~windows[s].active} # {}
        BY <2>1 DEF window_create
      <4>2. n \in {s \in Slot : ~windows[s].active}
        BY <4>1, FirstIn
      <4> QED BY <4>2
    <3>2. PICK r : windows' = [windows EXCEPT ![n] = r] /\ r.text = <<>>
      <4>1. PICK b : windows' = [windows EXCEPT ![n] =
               [active |-> TRUE, generation |-> (windows[n].generation + 1) % GenSpan,
                owner_pid |-> p, buffer |-> b, key |-> 0, text |-> <<>>]]
        BY <2>1, Zenon DEF window_create
      <4>2. PICK r : r = [active |-> TRUE, generation |-> (windows[n].generation + 1) % GenSpan,
                          owner_pid |-> p, buffer |-> b, key |-> 0, text |-> <<>>]
        BY Zenon
      <4>3. r.text = <<>>
        BY <4>2
      <4> HIDE DEF n
      <4> QED BY <4>1, <4>2, <4>3, Zenon
    <3>3. UNCHANGED <<sent, got>>
      BY <2>1 DEF window_create
    <3> HIDE DEF n
    <3>4. windows'[n] = r /\ \A s \in Slot \ {n} : windows'[s] = windows[s]
      BY <1>0, <3>1, <3>2 DEF Shape
    <3>5. got[n] = <<>> /\ sent[n] = <<>> /\ <<>> \o <<>> = <<>> /\ <<>> \in Seq(Nat)
      BY <3>1 DEF TextInv
    <3> QED BY <3>1, <3>2, <3>3, <3>4, <3>5 DEF TextInv
  <2>2. ASSUME NEW wid \in Ids, window_destroy(p, wid) PROVE TextInv'
    <3> DEFINE s == win_get(wid)
    <3>1. {s} \in SUBSET Slot
      BY <2>2, WinGet DEF window_destroy, Owns
    <3>2. windows' = Emptied({s}) /\ sent' = Forgotten(sent, {s}) /\ got' = Forgotten(got, {s})
      BY <2>2 DEF window_destroy
    <3> HIDE DEF s
    <3> QED BY <3>1, <3>2, TextClosed
  <2>3. ASSUME NEW wid \in Ids, window_sendkey(wid) \/ window_getkey(p, wid) PROVE TextInv'
    <3> DEFINE s == win_get(wid)
    <3>1. s \in Slot /\ UNCHANGED <<sent, got>>
      BY <2>3, WinGet DEF window_sendkey, window_getkey, Owns
    <3>2. PICK e : windows' = [windows EXCEPT ![s].key = e]
      BY <2>3 DEF window_sendkey, window_getkey
    <3> HIDE DEF s
    <3>3. \A t \in Slot : windows'[t].active = windows[t].active /\ windows'[t].text = windows[t].text
      BY <1>0, <3>1, <3>2 DEF Shape
    <3> QED BY <3>1, <3>3, TextKept
  <2>4. ASSUME NEW wid \in Ids, NEW len \in Lens, window_read_text(p, wid, len) PROVE TextInv'
    <3> DEFINE s == win_get(wid)
               q == windows[s].text
               n == Lesser(len, Len(q))
               e == SubSeq(q, n + 1, Len(q))
               g == got[s] \o SubSeq(q, 1, n)
    <3>1. s \in Slot /\ windows[s].active /\ UNCHANGED sent
      BY <2>4, WinGet DEF window_read_text, Owns, Live
    <3>2. windows' = [windows EXCEPT ![s].text = e] /\ got' = [got EXCEPT ![s] = g]
      BY <2>4 DEF window_read_text
    <3>3. q \in Seq(Nat) /\ got[s] \in Seq(Nat) /\ sent[s] \in Seq(Nat) /\ got[s] \o q = sent[s]
      BY <3>1, Zenon DEF TextInv
    <3>4. n \in 0 .. Len(q)
      BY <3>3, WindowAssumption DEF Lesser
    <3> HIDE DEF n
    <3>5. /\ e \in Seq(Nat) /\ SubSeq(q, 1, n) \in Seq(Nat) /\ SubSeq(q, 1, n) \o e = q
      BY <3>3, <3>4, TakeFront, Zenon
    <3> HIDE DEF s, q, e
    <3>6. g \in Seq(Nat) /\ g \o e = sent[s]
      <4>1. PICK a \in Seq(Nat), f \in Seq(Nat), r \in Seq(Nat) :
               a = got[s] /\ f = SubSeq(q, 1, n) /\ r = e
        BY <3>3, <3>5, Zenon
      <4>2. a \o f \in Seq(Nat) /\ (a \o f) \o r = a \o (f \o r)
        BY AppendKeepsOrder, ZenonT(60)
      <4> QED BY <3>3, <3>5, <4>1, <4>2, Zenon
    <3>7. sent' = [sent EXCEPT ![s] = sent[s]]
      BY <3>1 DEF TextInv
    <3> HIDE DEF g
    <3> QED BY <1>0, <3>1, <3>2, <3>3, <3>5, <3>6, <3>7, TextMoved, Zenon
  <2>5. ASSUME NEW wid, SetStdout(p, wid) PROVE TextInv'
    BY <2>5, TextKept DEF SetStdout
  <2>6. ASSUME NEW len \in Lens, window_append_text(p, len) PROVE TextInv'
    <3> DEFINE s == IF stdout_wid[p] >= 0 THEN win_get(stdout_wid[p]) ELSE None
               q == windows[s].text
               n == Written(len, q)
               m == Len(sent[s])
               d == [k \in 1 .. n |-> m + k]
               e == q \o SubSeq(d, 1, Lesser(n, (WIN_TEXT_BUF_SIZE - 1) - Len(q)))
    <3>1. s \in Slot /\ windows[s].active /\ UNCHANGED got /\ n > 0
      BY <2>6, WinGet, ZenonT(30) DEF window_append_text, Live
    <3>2. windows' = [windows EXCEPT ![s].text = e] /\ sent' = [sent EXCEPT ![s] = sent[s] \o d]
      BY <2>6, ZenonT(30) DEF window_append_text
    <3>3. /\ q \in Seq(Nat) /\ got[s] \in Seq(Nat) /\ sent[s] \in Seq(Nat) /\ got[s] \o q = sent[s]
          /\ Len(q) \in Nat /\ m \in Nat
      <4>1. /\ q \in Seq(Nat) /\ got[s] \in Seq(Nat) /\ sent[s] \in Seq(Nat) /\ got[s] \o q = sent[s]
        BY <3>1, Zenon DEF TextInv
      <4>2. Len(q) \in Nat /\ m \in Nat
        BY <4>1
      <4> QED BY <4>1, <4>2
    <3>4. n \in Nat /\ Lesser(n, (WIN_TEXT_BUF_SIZE - 1) - Len(q)) = n
      <4>1. PICK l \in Nat, k \in Nat : l = len /\ k = Len(q)
        BY <3>3, WindowAssumption
      <4>2. n = Lesser(l, (WIN_TEXT_BUF_SIZE - 1) - k)
        BY <4>1 DEF Written
      <4> HIDE DEF n, q
      <4>3. n <= (WIN_TEXT_BUF_SIZE - 1) - k /\ n \in Int
        BY <4>2, WindowAssumption DEF Lesser
      <4> QED BY <3>1, <4>1, <4>3, SMTT(30) DEF Lesser
    <3> HIDE DEF n, m, q, s
    <3>5. d \in Seq(Nat) /\ SubSeq(d, 1, n) = d
      BY <3>3, <3>4, Counting
    <3> HIDE DEF d
    <3>6. e = q \o d
      BY <3>4, <3>5, Zenon
    <3> HIDE DEF e
    <3>7. e \in Seq(Nat) /\ sent[s] \o d \in Seq(Nat) /\ got[s] \o e = sent[s] \o d
      <4>1. PICK a \in Seq(Nat), t \in Seq(Nat) : a = got[s] /\ t = q
        BY <3>3
      <4>2. PICK w \in Seq(Nat) : w = d
        BY <3>5
      <4>3. t \o w \in Seq(Nat) /\ (a \o t) \o w \in Seq(Nat) /\ a \o (t \o w) = (a \o t) \o w
        BY AppendKeepsOrder, Zenon
      <4> QED BY <3>3, <3>6, <4>1, <4>2, <4>3
    <3>8. got' = [got EXCEPT ![s] = got[s]]
      BY <3>1 DEF TextInv
    <3> QED BY <1>0, <3>1, <3>2, <3>3, <3>7, <3>8, TextMoved, Zenon
  <2>7. CASE sys_do_spawn(p)
    BY <2>7, TextKept DEF sys_do_spawn
  <2>8. CASE window_cleanup_pid(p)
    <3>1. Orphaned(p) \in SUBSET Slot
      BY DEF Orphaned
    <3> QED BY <2>8, <3>1, TextClosed DEF window_cleanup_pid
  <2> QED
    BY <1>2, <2>1, <2>2, <2>3, <2>4, <2>5, <2>6, <2>7, <2>8, ZenonT(60) DEF Step
<1> QED BY <1>1, <1>2 DEF Next

(* The owner of a window reads exactly what window_append_text reported as *)
(* written, in order, however many tasks write to it and however small     *)
(* the ring is.                                                            *)
THEOREM TextIsReadInOrder == Spec => []TextInOrder
<1>1. window_init => TextInv
  <2> SUFFICES ASSUME window_init PROVE TextInv
    OBVIOUS
  <2>1. <<>> \in Seq(Nat)
    OBVIOUS
  <2>2. \A s \in Slot : windows[s].text = <<>> /\ windows[s].active = FALSE
    BY DEF window_init, Cleared
  <2> QED BY <2>1, <2>2, Zenon DEF window_init, TextInv
<1>2. TextInv => TextInOrder
  BY DEF TextInv, TextInOrder
<1> QED BY WindowInvInit, WindowInvNext, TextInvNext, <1>1, <1>2, PTL DEF Spec
=============================================================================
