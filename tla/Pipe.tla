-------------------------------- MODULE Pipe --------------------------------
(***************************************************************************)
(* fs/pipe.c: named pipes, the handles open on them, and readers and       *)
(* writers that yield inside the kernel until the pipe has bytes or room.  *)
(* A handler runs with interrupts off; only task_yield() lets another task *)
(* run, so a call is one step up to its first yield and one step per turn  *)
(* after it.  The ring is a sequence of at most PIPE_BUF_SIZE - 1 bytes    *)
(* (see KRing).  Vfs puts the descriptor tables of the tasks on top.       *)
(***************************************************************************)
EXTENDS Integers, Sequences, FiniteSets

CONSTANTS Proc,
          PIPE_MAX, PIPE_FD_MAX, PIPE_BUF_SIZE, PIPE_NAME_MAX,
          Names,                \* names given to create, destroy and open
          Lens,                 \* lengths given to read and write (0 returns 0)
          MaxLives,             \* bound: pipes ever created
          MaxBytes              \* bound: bytes ever written

(* The sizes of the tables and of a ring, and the lengths callers may ask. *)
ASSUME PipeAssumption ==
    /\ PIPE_MAX \in Nat /\ PIPE_FD_MAX \in Nat /\ PIPE_BUF_SIZE \in Nat \ {0}
    /\ Lens \subseteq Nat

VARIABLES pipes,                \* the pipe slots
          pipe_fds,             \* the open pipe handles
          call,                 \* the read or write a task is blocked in
          sent, got             \* history: bytes reported written to and
                                \* read from each pipe ever created

pipeVars == <<pipes, pipe_fds, call, sent, got>>

Slot == 0 .. PIPE_MAX - 1
Handle == 0 .. PIPE_FD_MAX - 1
Life == 1 .. MaxLives
Room == PIPE_BUF_SIZE - 1

(* `life' numbers the pipes ever created: it tells apart two pipes that    *)
(* used the same slot, which the code cannot do.                           *)
NoPipe == [in_use |-> FALSE, name |-> <<>>, ring |-> <<>>, life |-> 0]
Closed == [in_use |-> FALSE]
Running == [op |-> "none"]

First(S) == CHOOSE i \in S : \A j \in S : i <= j
Lesser(a, b) == IF a <= b THEN a ELSE b
Lives == Len(sent)              \* pipes created so far
Bytes ==                        \* bytes written so far
    Cardinality(UNION {{k} \X DOMAIN sent[k] : k \in 1 .. Lives})

Found(name) == {i \in Slot : pipes[i].in_use /\ pipes[i].name = name}

pipe_init ==
    /\ pipes = [i \in Slot |-> NoPipe]
    /\ pipe_fds = [h \in Handle |-> Closed]
    /\ call = [p \in Proc |-> Running]
    /\ sent = <<>> /\ got = <<>>

(* A name longer than the slot's array is cut when it is stored, never     *)
(* when it is looked up.                                                   *)
Stored(name) == SubSeq(name, 1, Lesser(Len(name), PIPE_NAME_MAX - 1))

pipe_create(name) ==
    LET free == {i \in Slot : ~pipes[i].in_use}
    IN  /\ Found(name) = {} /\ free # {}
        /\ Lives < MaxLives
        /\ pipes' = [pipes EXCEPT ![First(free)] =
                        [in_use |-> TRUE, name |-> Stored(name),
                         ring |-> <<>>, life |-> Lives + 1]]
        /\ sent' = Append(sent, <<>>)
        /\ got' = Append(got, <<>>)
        /\ UNCHANGED <<pipe_fds, call>>

(* The handles open on the pipe, and the tasks blocked in it, stay.        *)
pipe_destroy(name) ==
    /\ Found(name) # {}
    /\ pipes' = [pipes EXCEPT ![First(Found(name))] = NoPipe]
    /\ UNCHANGED <<pipe_fds, call, sent, got>>

(* The handle pipe_open returns on /pipe/<name>: the first free one, or -1 *)
(* without a pipe of the name or without a free handle.                    *)
pipe_open(name) ==
    LET free == {h \in Handle : ~pipe_fds[h].in_use}
    IN  IF Found(name) = {} \/ free = {} THEN -1 ELSE First(free)

(* What pipe_alloc_fd leaves in that handle.                               *)
pipe_alloc_fd(name, writable) ==
    pipe_fds' = [pipe_fds EXCEPT ![pipe_open(name)] =
                    [in_use |-> TRUE, pipe_idx |-> First(Found(name)),
                     writable |-> writable]]

(* One turn of the loop in pipe_read: every byte there is, up to len; a    *)
(* yield with nothing yet; or an error when the pipe is gone.              *)
ReadTurn(p, idx, len) ==
    LET pipe == pipes[idx]
        n == Lesser(len, Len(pipe.ring))
    IN  \/ /\ pipe.in_use /\ n > 0
           /\ pipes' = [pipes EXCEPT ![idx].ring = SubSeq(@, n + 1, Len(@))]
           /\ got' = [got EXCEPT ![pipe.life] = @ \o SubSeq(pipe.ring, 1, n)]
           /\ call' = [call EXCEPT ![p] = Running]
           /\ UNCHANGED sent
        \/ /\ pipe.in_use /\ n = 0
           /\ call' = [call EXCEPT ![p] =
                          [op |-> "read", idx |-> idx, len |-> len,
                           life |-> IF call[p] = Running THEN pipe.life ELSE @.life]]
           /\ UNCHANGED <<pipes, sent, got>>
        \/ /\ ~pipe.in_use
           /\ call' = [call EXCEPT ![p] = Running]
           /\ UNCHANGED <<pipes, sent, got>>

(* Mutant: a byte that the full ring refuses is counted as sent.           *)
Accepted_Refused(len, ring) == len

(* How many of len bytes pipe_write reports as sent.                       *)
Accepted(len, ring) == Lesser(len, Room - Len(ring))

(* One turn of the loop in pipe_write.  A byte is told by the pipe it was  *)
(* sent to and its place there; the ring takes what it has room for.       *)
WriteTurn(p, idx, len) ==
    LET pipe == pipes[idx]
        n == Accepted(len, pipe.ring)
        data == [k \in 1 .. n |-> <<pipe.life, Len(sent[pipe.life]) + k>>]
    IN  \/ /\ pipe.in_use /\ n > 0
           /\ Bytes + n <= MaxBytes
           /\ pipes' = [pipes EXCEPT ![idx].ring =
                           @ \o SubSeq(data, 1, Lesser(n, Room - Len(@)))]
           /\ sent' = [sent EXCEPT ![pipe.life] = @ \o data]
           /\ call' = [call EXCEPT ![p] = Running]
           /\ UNCHANGED got
        \/ /\ pipe.in_use /\ n = 0
           /\ call' = [call EXCEPT ![p] =
                          [op |-> "write", idx |-> idx, len |-> len,
                           life |-> IF call[p] = Running THEN pipe.life ELSE @.life]]
           /\ UNCHANGED <<pipes, sent, got>>
        \/ /\ ~pipe.in_use
           /\ call' = [call EXCEPT ![p] = Running]
           /\ UNCHANGED <<pipes, sent, got>>

(* The scheduler comes back to a task that yielded inside a pipe call.     *)
Resume(p) ==
    /\ \/ call[p].op = "read" /\ ReadTurn(p, call[p].idx, call[p].len)
       \/ call[p].op = "write" /\ WriteTurn(p, call[p].idx, call[p].len)
    /\ UNCHANGED pipe_fds

(* pipe_close of each of the handles.                                      *)
Released(handles) ==
    [h \in Handle |-> IF h \in handles THEN Closed ELSE pipe_fds[h]]
-----------------------------------------------------------------------------
(* Whatever readers, writers, destroys and exits interleave, the bytes     *)
(* pipe_write said it sent to a pipe are the ones its readers got, in      *)
(* order, followed by the ones in the ring: none lost, none repeated.      *)
BytesInOrder ==
    \A k \in 1 .. Lives :
       LET ring == {pipes[i].ring : i \in {s \in Slot : pipes[s].life = k}}
       IN  IF ring = {} THEN got[k] = SubSeq(sent[k], 1, Len(got[k]))
           ELSE \A r \in ring : got[k] \o r = sent[k]

(* fs/pipe.h on pipe_destroy: "Wakes any blocked readers/writers with      *)
(* error."  A call that blocked on a pipe never completes on another one.  *)
DestroyWakesWithError ==
    [][\A p \in Proc :
          LET c == call[p]
          IN  c # Running /\ call'[p] = Running
                 /\ pipes'[c.idx].ring # pipes[c.idx].ring
              => pipes[c.idx].life = c.life]_pipeVars

(* fs/pipe.h on pipe_create: "-1 if name is taken".                        *)
NamesAreUnique ==
    \A i, j \in Slot :
       pipes[i].in_use /\ pipes[j].in_use /\ pipes[i].name = pipes[j].name
          => i = j
=============================================================================
