------------------------------- MODULE Window -------------------------------
(***************************************************************************)
(* io/window.c and the calls of syscall.c that reach it: the window table, *)
(* ids that carry a slot's generation, key and text rings, standard output *)
(* redirected to a window and inherited by spawn, and the cleanup when a   *)
(* task ends.  Each call saves and disables interrupts: one step.          *)
(* Pixel contents, geometry and titles are left out.                       *)
(***************************************************************************)
EXTENDS Integers, Sequences, FiniteSets

CONSTANTS Pid,                    \* task ids, never reused
          MAX_WINDOWS,
          SlotSpan,               \* 256: ids are generation * 256 + slot
          GenSpan,                \* 65536: generation is a uint16_t
          WIN_KEY_BUF_SIZE, WIN_TEXT_BUF_SIZE,
          Buffer,                 \* the pixel buffers kmalloc can give
          Lens,                   \* lengths of text written and read
          MaxCreates, MaxText     \* bounds: per slot, per window

(* WIN_SLOT keeps the low byte of an id, which holds every slot's number.  *)
ASSUME WindowAssumption ==
    /\ MAX_WINDOWS \in Nat /\ SlotSpan \in Nat /\ GenSpan \in Nat /\ MaxCreates \in Nat
    /\ MAX_WINDOWS <= SlotSpan /\ 0 < SlotSpan /\ 0 < GenSpan
    /\ WIN_TEXT_BUF_SIZE \in Nat \ {0} /\ Lens \subseteq Nat

VARIABLES windows,                \* the window table
          heap,                   \* pixel buffers allocated
          task,                   \* "unborn", "alive" or "dead"
          stdout_wid,             \* task_t.stdout_wid
          creates,                \* history: windows ever created in a slot
          sent, got               \* history: text reported written to and
                                  \* read from the window in a slot

vars == <<windows, heap, task, stdout_wid, creates, sent, got>>

None == -1
Slot == 0 .. MAX_WINDOWS - 1
Lesser(a, b) == IF a <= b THEN a ELSE b
First(S) == CHOOSE i \in S : \A j \in S : i <= j

WIN_MAKE_ID(slot, gen) == gen * SlotSpan + slot
WIN_SLOT(wid) == wid % SlotSpan
WIN_GEN(wid) == (wid \div SlotSpan) % GenSpan

(* The id handed out for the n-th window of a slot.                        *)
IdOf(slot, n) == WIN_MAKE_ID(slot, n % GenSpan)
Known == {k \in Slot \X (1 .. MaxCreates) : k[2] <= creates[k[1]]}
Ids == {IdOf(k[1], k[2]) : k \in Known}

Cleared(gen) == [active |-> FALSE, generation |-> gen, owner_pid |-> 0,
                 buffer |-> None, key |-> 0, text |-> <<>>]

(* The slot of a live window with this id, or None.                        *)
win_get(wid) ==
    LET s == WIN_SLOT(wid)
    IN  IF s \in Slot /\ windows[s].active /\ windows[s].generation = WIN_GEN(wid)
        THEN s ELSE None

Owns(p, s) == s # None /\ windows[s].owner_pid = p

window_init ==
    /\ windows = [s \in Slot |-> Cleared(0)]
    /\ heap = {}
    /\ task = [p \in Pid |-> IF p = First(Pid) THEN "alive" ELSE "unborn"]
    /\ stdout_wid = [p \in Pid |-> None]
    /\ creates = [s \in Slot |-> 0]
    /\ sent = [s \in Slot |-> <<>>]
    /\ got = [s \in Slot |-> <<>>]

(* kmalloc may fail: then no action.  The id goes to the creator, and to   *)
(* whoever asks window_list.                                               *)
window_create(p) ==
    LET free == {s \in Slot : ~windows[s].active}
        s == First(free)
        gen == (windows[s].generation + 1) % GenSpan
    IN  /\ free # {} /\ creates[s] < MaxCreates
        /\ \E b \in Buffer \ heap :
              /\ heap' = heap \cup {b}
              /\ windows' = [windows EXCEPT ![s] =
                    [active |-> TRUE, generation |-> gen, owner_pid |-> p,
                     buffer |-> b, key |-> 0, text |-> <<>>]]
        /\ creates' = [creates EXCEPT ![s] = @ + 1]
        /\ UNCHANGED <<task, stdout_wid, sent, got>>

(* Mutant: the memset also clears the slot's generation.                   *)
Emptied_ForgetsGeneration(slots) ==
    [s \in Slot |-> IF s \in slots THEN Cleared(0) ELSE windows[s]]

(* kfree and memset of the slots, their generation kept.                   *)
Emptied(slots) ==
    [s \in Slot |-> IF s \in slots THEN Cleared(windows[s].generation)
                    ELSE windows[s]]

BuffersOf(slots) == {windows[s].buffer : s \in slots}

Forgotten(text, slots) == [s \in Slot |-> IF s \in slots THEN <<>> ELSE text[s]]

window_destroy(p, wid) ==
    LET s == win_get(wid)
    IN  /\ Owns(p, s)
        /\ windows' = Emptied({s})
        /\ heap' = heap \ BuffersOf({s})
        /\ sent' = Forgotten(sent, {s}) /\ got' = Forgotten(got, {s})
        /\ UNCHANGED <<task, stdout_wid, creates>>

(* Any task may send a key to any window; a full ring refuses it.  Keys    *)
(* are only counted.                                                       *)
window_sendkey(wid) ==
    LET s == win_get(wid)
    IN  /\ s # None /\ windows[s].key < WIN_KEY_BUF_SIZE - 1
        /\ windows' = [windows EXCEPT ![s].key = @ + 1]
        /\ UNCHANGED <<heap, task, stdout_wid, creates, sent, got>>

window_getkey(p, wid) ==
    LET s == win_get(wid)
    IN  /\ Owns(p, s) /\ windows[s].key > 0
        /\ windows' = [windows EXCEPT ![s].key = @ - 1]
        /\ UNCHANGED <<heap, task, stdout_wid, creates, sent, got>>

(* Mutant: characters dropped by a full ring are reported as written.      *)
Written_All(len, ring) == len

(* How many of len characters window_append_text reports as written.       *)
Written(len, ring) == Lesser(len, (WIN_TEXT_BUF_SIZE - 1) - Len(ring))

(* sys_do_write to descriptor 1 of a task whose output is redirected.      *)
window_append_text(p, len) ==
    LET s == IF stdout_wid[p] >= 0 THEN win_get(stdout_wid[p]) ELSE None
        n == Written(len, windows[s].text)
        data == [k \in 1 .. n |-> Len(sent[s]) + k]
    IN  /\ s # None /\ n > 0
        /\ Len(sent[s]) + n <= MaxText
        /\ windows' = [windows EXCEPT ![s].text =
              @ \o SubSeq(data, 1, Lesser(n, (WIN_TEXT_BUF_SIZE - 1) - Len(@)))]
        /\ sent' = [sent EXCEPT ![s] = @ \o data]
        /\ UNCHANGED <<heap, task, stdout_wid, creates, got>>

window_read_text(p, wid, max_len) ==
    LET s == win_get(wid)
        n == Lesser(max_len, Len(windows[s].text))
    IN  /\ Owns(p, s) /\ n > 0
        /\ windows' = [windows EXCEPT ![s].text = SubSeq(@, n + 1, Len(@))]
        /\ got' = [got EXCEPT ![s] =
                      @ \o SubSeq(windows[s].text, 1, n)]
        /\ UNCHANGED <<heap, task, stdout_wid, creates, sent>>

(* SYS_WIN_SET_STDOUT takes any number without looking it up.              *)
SetStdout(p, wid) ==
    /\ stdout_wid[p] # wid
    /\ stdout_wid' = [stdout_wid EXCEPT ![p] = wid]
    /\ UNCHANGED <<windows, heap, task, creates, sent, got>>

(* sys_do_spawn: the child inherits its parent's redirection.  Task ids    *)
(* count up and are not reused.                                            *)
sys_do_spawn(p) ==
    LET unborn == {c \in Pid : task[c] = "unborn"}
        c == First(unborn)
    IN  /\ unborn # {}
        /\ task' = [task EXCEPT ![c] = "alive"]
        /\ stdout_wid' = [stdout_wid EXCEPT ![c] = stdout_wid[p]]
        /\ UNCHANGED <<windows, heap, creates, sent, got>>

(* Mutant: the search stops at the task's first window.                    *)
Orphaned_First(p) ==
    LET mine == {s \in Slot : windows[s].active /\ windows[s].owner_pid = p}
    IN  IF mine = {} THEN {} ELSE {First(mine)}

Orphaned(p) == {s \in Slot : windows[s].active /\ windows[s].owner_pid = p}

(* A task ends: task_terminate calls window_cleanup_pid.                   *)
window_cleanup_pid(p) ==
    /\ task' = [task EXCEPT ![p] = "dead"]
    /\ windows' = Emptied(Orphaned(p))
    /\ heap' = heap \ BuffersOf(Orphaned(p))
    /\ stdout_wid' = [stdout_wid EXCEPT ![p] = None]
    /\ sent' = Forgotten(sent, Orphaned(p)) /\ got' = Forgotten(got, Orphaned(p))
    /\ UNCHANGED creates

Step(p) ==
    \/ window_create(p)
    \/ \E wid \in Ids :
          \/ window_destroy(p, wid)
          \/ window_sendkey(wid)
          \/ window_getkey(p, wid)
          \/ \E len \in Lens : window_read_text(p, wid, len)
          \/ SetStdout(p, wid)
    \/ SetStdout(p, None)
    \/ \E len \in Lens : window_append_text(p, len)
    \/ sys_do_spawn(p)
    \/ window_cleanup_pid(p)

Next == \E p \in Pid : task[p] = "alive" /\ Step(p)

Spec == window_init /\ [][Next]_vars

-----------------------------------------------------------------------------
(* The window table has the shape io/window.h declares: the rings stay     *)
(* within their arrays, the generation within its 16 bits, and every id    *)
(* handed out decodes to its slot and generation.                          *)
TypeOK ==
    /\ \A s \in Slot :
          /\ windows[s].active \in BOOLEAN
          /\ windows[s].generation \in 0 .. GenSpan - 1
          /\ windows[s].key \in 0 .. WIN_KEY_BUF_SIZE - 1
          /\ Len(windows[s].text) < WIN_TEXT_BUF_SIZE
    /\ \A k \in Known : /\ WIN_SLOT(IdOf(k[1], k[2])) = k[1]
                         /\ WIN_GEN(IdOf(k[1], k[2])) = k[2] % GenSpan
    /\ heap \subseteq Buffer

(* An id kept after its window is gone (by the window manager, by a child  *)
(* that inherited it as standard output) reaches nothing, however often    *)
(* the slot is reused by others, until 65536 windows later.                *)
StaleIdsReachNothing ==
    \A k \in Known :
       win_get(IdOf(k[1], k[2])) # None /\ creates[k[1]] - k[2] < GenSpan
          => k[2] = creates[k[1]]

(* Whatever tasks write to a window they share as standard output, its     *)
(* owner reads exactly the characters reported as written, in order; a     *)
(* full ring drops characters but never claims to have taken them.         *)
TextInOrder ==
    \A s \in Slot : windows[s].active => got[s] \o windows[s].text = sent[s]

(* No task leaves a window behind: every live window belongs to a live     *)
(* task, and the pixel buffers allocated are those of the live windows,    *)
(* one each.                                                               *)
NothingOutlivesItsTask ==
    LET live == {s \in Slot : windows[s].active}
    IN  /\ \A s \in live : task[windows[s].owner_pid] = "alive"
        /\ heap = BuffersOf(live)
        /\ Cardinality(heap) = Cardinality(live)
=============================================================================
