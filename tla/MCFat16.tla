------------------------------ MODULE MCFat16 -------------------------------
(***************************************************************************)
(* Small instances of Fat16, and the refinement mapping to FileTree.  The  *)
(* file tree the volume stands for is kept in a variable that always has   *)
(* that value, so that TLC computes it once in a state.                    *)
(***************************************************************************)
EXTENDS Fat16

CONSTANTS f1, f2,            \* two short names
          LongPaths          \* paths of files with long names, and others

VARIABLES view,              \* the tree and the handles the state stands for
          long               \* whether callers use LongPaths or Paths

(* Where the paths lead on volume v, the node there, and what a handle     *)
(* stands for.                                                             *)
Entries(v) == [p \in Paths |-> fat16_resolve_path(v, p, {}).hit]
Node(v, p) ==
    LET e == CellAt(v, p)
    IN  CASE p = Nowhere -> [kind |-> "absent"]
          [] p # Nowhere /\ IsDir(e) -> [kind |-> "dir"]
          [] OTHER -> [kind |-> "file", data |-> fat16_read_file(v, e.cluster, 0, e.size)]
HandleView(f, at) ==
    IF ~f.in_use THEN [open |-> FALSE]
    ELSE [open |-> TRUE, pos |-> f.pos, access |-> f.access, append |-> f.append,
          path |-> IF f.dirent \in Range(at) THEN CHOOSE q \in Paths : at[q] = f.dirent
                   ELSE <<>>]
Cells(data) == [i \in DOMAIN data |-> Byte(data[i])]

(* The file tree and the handles that volume v and open files g stand for. *)
View(v, g) ==
    LET at == Entries(v)
    IN  [tree |-> [p \in Paths |-> Node(v, at[p])],
         handles |-> [h \in Handle |-> HandleView(g[h], at)]]
tree == view.tree
handles == view.handles

RootOnly == {<<>>}

(* Long names break the promise of FileTree: where callers use them, the   *)
(* tree stands still, and no data is written.                              *)
MCInit ==
    /\ Init
    /\ long \in {FALSE, LongPaths # {}}
    /\ view = View(Volume, g_open)
ShortCalls ==
    /\ ~long
    /\ Next
    /\ view' = View([fat |-> fat', disk |-> disk'], g_open')
    /\ UNCHANGED long
LongCalls ==
    /\ long
    /\ Calls(LongPaths, {}, RootOnly, {})
    /\ UNCHANGED <<view, long>>
MCvars == <<vars, view, long>>
MCSpec == MCInit /\ [][ShortCalls \/ LongCalls]_MCvars

Promise == INSTANCE FileTree WITH Payloads <- {Cells(d) : d \in Payloads}

(* The driver implements the file tree: what is read is what was written,  *)
(* no call changes another file, and a handle follows its file through     *)
(* renames.                                                                *)
ImplementsFileTree == Promise!Spec

(* Lengthening a file adds zeroes to it and changes no other file: "Bytes  *)
(* within the existing last cluster beyond old_size are zeroed here"       *)
(* (fat16.c:1849).                                                         *)
GrowingAddsZeroes ==
    [][(\E h \in Handle, len \in Lengths : fat16_vfs_ftruncate_grow(h, len)) =>
          UNCHANGED tree \/ \E h \in Handle : Promise!Resize(h)]_MCvars

(* A file that was renamed has its content under the new name              *)
(* (userland/test.c:2223).                                                 *)
RenameKeepsContent ==
    [][\A p, q \in Paths :
          fat16_vfs_rename(p, q, {}) /\ tree[p].kind = "file" =>
              tree'[q] = tree[p] \/ UNCHANGED tree]_MCvars

(* Renaming into a directory that does not exist does nothing: "parent     *)
(* must exist" (fat16.c:1675).                                             *)
RenameNeedsItsParent ==
    [][\A p, q \in Paths :
          fat16_vfs_rename(p, q, {}) /\ ~Promise!HasParent(q) => UNCHANGED tree]_MCvars

-----------------------------------------------------------------------------
(* Values for the constants.                                               *)

Flag(a, c, t, p) == [access |-> a, creat |-> c, trunc |-> t, append |-> p]

ReadOnly == Flag(0, FALSE, FALSE, FALSE)
Create == Flag(2, TRUE, FALSE, FALSE)
Rewrite == Flag(1, TRUE, TRUE, FALSE)
AppendTo == Flag(2, FALSE, FALSE, TRUE)

AllFlags == {ReadOnly, Create, Rewrite, AppendTo}
CreateOnly == {Create}

(* Two files in the root.                                                  *)
TwoFiles == {<<f1>>, <<f2>>}
(* Two names in the root, and in a directory of either name.               *)
TwoLevels == TwoFiles \cup {<<f1, f1>>, <<f1, f2>>, <<f2, f1>>, <<f2, f2>>}

OneCell == {<<1>>}
TwoCells == {<<1, 2>>}
RootAndDirectories == {<<>>} \cup TwoFiles

NameSymmetry == Permutations({f1, f2})

(* A short name, a long name of one LFN entry and one of two.              *)
LongToo == {<<"s">>, <<"l1">>, <<"l2">>}
LongLengths == [n \in {"l1", "l2"} |-> IF n = "l1" THEN 1 ELSE 2]
OneBase == [n \in {"l1", "l2"} |-> "LONGNA"]
NoLong == [n \in {} |-> 0]
=============================================================================
