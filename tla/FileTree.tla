------------------------------ MODULE FileTree ------------------------------
(***************************************************************************)
(* What a file system promises its callers: a tree of files and            *)
(* directories under path names, and handles on files.  Nothing here knows *)
(* of clusters, directory entries or caches.                               *)
(***************************************************************************)
EXTENDS Integers, Sequences, SequencesExt

CONSTANTS Paths,              \* the paths callers use
          Handle,
          OpenFlags,          \* [access, creat, trunc, append]
          Payloads,           \* sequences of file contents callers write
          Zero,               \* what a lengthened file is filled with
          Lengths             \* lengths callers pass to ftruncate

VARIABLES tree,               \* what each path names
          handles             \* the open handles

vars == <<tree, handles>>

Absent == [kind |-> "absent"]
Directory == [kind |-> "dir"]
File(c) == [kind |-> "file", data |-> c]
Closed == [open |-> FALSE]

Below(p, q) == Len(q) > Len(p) /\ SubSeq(q, 1, Len(p)) = p
IsFile(p) == tree[p].kind = "file"
HasParent(p) == Len(p) = 1 \/ tree[Front(p)] = Directory
ContentOf(h) == tree[handles[h].path].data
Writable(h) == handles[h].open /\ handles[h].access # 0

Init ==
    /\ tree = [p \in Paths |-> Absent]
    /\ handles = [h \in Handle |-> Closed]

(* The file is there afterwards, cut if asked; the handle may be refused.  *)
Open(p, fl) ==
    /\ IsFile(p) \/ (tree[p] = Absent /\ fl.creat /\ HasParent(p))
    /\ tree' = [tree EXCEPT ![p] =
                  IF @ = Absent \/ (fl.trunc /\ fl.access # 0) THEN File(<<>>) ELSE @]
    /\ \/ UNCHANGED handles
       \/ \E h \in Handle :
            /\ ~handles[h].open
            /\ handles' = [handles EXCEPT ![h] =
                             [open |-> TRUE, path |-> p, pos |-> 0,
                              access |-> fl.access, append |-> fl.append]]

Close(h) ==
    /\ handles[h].open
    /\ handles' = [handles EXCEPT ![h] = Closed]
    /\ UNCHANGED tree

(* Reading and seeking stay within the file.                               *)
Move(h) ==
    /\ handles[h].open
    /\ \E p \in 0 .. Len(ContentOf(h)) : handles' = [handles EXCEPT ![h].pos = p]
    /\ UNCHANGED tree

(* Some prefix of the data replaces what was there, or extends the file.   *)
Overwritten(c, at, data) == SubSeq(c, 1, at) \o data \o SubSeq(c, at + Len(data) + 1, Len(c))
Write(h) ==
    /\ Writable(h)
    /\ \E data \in Payloads : \E n \in 0 .. Len(data) :
          LET at == IF handles[h].append THEN Len(ContentOf(h)) ELSE handles[h].pos
          IN  /\ tree' = [tree EXCEPT ![handles[h].path] =
                            File(Overwritten(@.data, at, SubSeq(data, 1, n)))]
              /\ handles' = [handles EXCEPT ![h].pos = at + n]

Resized(c, len) == [i \in 1 .. len |-> IF i <= Len(c) THEN c[i] ELSE Zero]
Resize(h) ==
    /\ Writable(h)
    /\ \E len \in Lengths :
          /\ tree' = [tree EXCEPT ![handles[h].path] = File(Resized(@.data, len))]
          /\ handles' = [handles EXCEPT ![h].pos = IF @ > len THEN len ELSE @]

Unlink(p) ==
    /\ IsFile(p)
    /\ tree' = [tree EXCEPT ![p] = Absent]
    /\ UNCHANGED handles

Mkdir(p) ==
    /\ tree[p] = Absent /\ HasParent(p)
    /\ tree' = [tree EXCEPT ![p] = Directory]
    /\ UNCHANGED handles

Rmdir(p) ==
    /\ tree[p] = Directory
    /\ \A q \in Paths : Below(p, q) => tree[q] = Absent
    /\ tree' = [tree EXCEPT ![p] = Absent]
    /\ UNCHANGED handles

(* p, with all below it, is at q afterwards; a file at q is replaced.      *)
Rebased(p, q, r) == q \o SubSeq(r, Len(p) + 1, Len(r))
Rename(p, q) ==
    LET moved == {r \in Paths : r = p \/ Below(p, r)}
        Source(r) == Rebased(q, p, r)
    IN  /\ p # q /\ tree[p] # Absent /\ tree[q] # Directory /\ HasParent(q) /\ ~Below(p, q)
        /\ tree' = [r \in Paths |->
                      IF r = q \/ Below(q, r)
                      THEN IF Source(r) \in Paths THEN tree[Source(r)] ELSE Absent
                      ELSE IF r \in moved THEN Absent ELSE tree[r]]
        /\ handles' = [h \in Handle |->
                         IF handles[h].open /\ handles[h].path \in moved
                         THEN [handles[h] EXCEPT !.path = Rebased(p, q, @)] ELSE handles[h]]

PowerCycle ==
    /\ handles' = [h \in Handle |-> Closed]
    /\ UNCHANGED tree

Next ==
    \/ \E p \in Paths :
          \/ \E fl \in OpenFlags : Open(p, fl)
          \/ Unlink(p) \/ Mkdir(p) \/ Rmdir(p)
          \/ \E q \in Paths : Rename(p, q)
    \/ \E h \in Handle : Close(h) \/ Move(h) \/ Write(h) \/ Resize(h)
    \/ PowerCycle

Spec == Init /\ [][Next]_vars
=============================================================================
