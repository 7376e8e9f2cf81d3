--------------------------------- MODULE Vfs ---------------------------------
(***************************************************************************)
(* fs/vfs.c: the descriptor table of each task and the routing of calls.   *)
(* A descriptor holds a number, fs_id, whose range says what it stands     *)
(* for: a file system, the console, a virtual file of /mos or a handle of  *)
(* fs/pipe.c; each call decodes it again.  Of fat16 (see Fat16) only the   *)
(* open-file table with its sizes and positions is here, of the virtual    *)
(* files only that their length differs from one call to the next.         *)
(* Paths are resolved before the call, so a path is a value; calls that    *)
(* return an error before they change anything are not steps.              *)
(***************************************************************************)
EXTENDS Pipe

CONSTANTS VFS_MAX_FDS_PER_TASK, FAT16_MAX_OPEN,
          virtual_file_count,
          StdFds,               \* descriptors given to the console: 0 .. 2
          Access,               \* access modes programs ask for
          Paths,                \* files of the one registered file system
          MaxSize,              \* bound: size of a file
          MaxOpened             \* bound: descriptors opened at one time

VARIABLES fds,                  \* each task's descriptors
          g_open,               \* the open files of fat16
          file_size             \* the sizes in their directory entries

vfsVars == <<fds, g_open, file_size>>
vars == <<pipeVars, vfsVars>>

Fd == 0 .. VFS_MAX_FDS_PER_TASK - 1
OpenFile == 0 .. FAT16_MAX_OPEN - 1
Virtual == 0 .. virtual_file_count - 1
Greater(a, b) == IF a >= b THEN a ELSE b

NotInUse == [in_use |-> FALSE]
NotOpen == [in_use |-> FALSE]

-----------------------------------------------------------------------------
(* The numbers descriptors are told apart by.                              *)
fs_count == 1
VFS_VIRT_BASE_ID == -1000
VFS_PIPE_BASE_ID == -2000
ConsoleId == -1

(* There are at most VFS_MAX_VIRTUAL_FILES: their numbers stop short of    *)
(* the first pipe's.                                                       *)
ASSUME VfsAssumption ==
    /\ VFS_MAX_FDS_PER_TASK \in Nat /\ FAT16_MAX_OPEN \in Nat /\ MaxSize \in Nat
    /\ virtual_file_count \in 0 .. VFS_VIRT_BASE_ID - VFS_PIPE_BASE_ID

vfs_virtual_fs_id_from_index(index) == VFS_VIRT_BASE_ID - index

(* Mutant: the number of virtual files is taken for the last index.        *)
vfs_virtual_index_from_fs_id_Short(fs_id) ==
    LET index == VFS_VIRT_BASE_ID - fs_id
    IN  IF index < 0 \/ index >= virtual_file_count - 1 THEN -1 ELSE index

vfs_virtual_index_from_fs_id(fs_id) ==
    LET index == VFS_VIRT_BASE_ID - fs_id
    IN  IF index < 0 \/ index >= virtual_file_count THEN -1 ELSE index

vfs_pipe_fs_id_from_handle(handle) == VFS_PIPE_BASE_ID - handle

vfs_pipe_handle_from_fs_id(fs_id) ==
    LET h == VFS_PIPE_BASE_ID - fs_id
    IN  IF h < 0 \/ h >= PIPE_FD_MAX \/ fs_id > VFS_PIPE_BASE_ID THEN -1 ELSE h

(* What vfs_read, vfs_write and vfs_seek refuse as "console fd".           *)
IsConsole(fs_id) == fs_id < 0 /\ fs_id > VFS_VIRT_BASE_ID

-----------------------------------------------------------------------------
(* The table a task starts with: the console on the standard descriptors.  *)
FreshTable ==
    [d \in Fd |->
        IF d \in StdFds
        THEN [in_use |-> TRUE, fs_id |-> ConsoleId, fs_handle |-> d,
              open_flags |-> IF d = 0 THEN "O_RDONLY" ELSE "O_WRONLY"]
        ELSE NotInUse]

Init ==
    /\ pipe_init
    /\ fds = [p \in Proc |-> FreshTable]
    /\ g_open = [h \in OpenFile |-> NotOpen]
    /\ file_size = [path \in Paths |-> 0]

FreeFds(p) == {d \in Fd : ~fds[p][d].in_use}

(* The first free descriptor of p is filled in.                            *)
Descriptor(p, fs_id, fs_handle, access) ==
    fds' = [fds EXCEPT ![p][First(FreeFds(p))] =
               [in_use |-> TRUE, fs_id |-> fs_id, fs_handle |-> fs_handle,
                open_flags |-> access]]

(* vfs_open of /pipe/<name>.                                               *)
vfs_open_pipe(p, name, access) ==
    /\ FreeFds(p) # {}
    /\ access # "O_RDWR"
    /\ pipe_open(name) >= 0
    /\ pipe_alloc_fd(name, access = "O_WRONLY")
    /\ Descriptor(p, vfs_pipe_fs_id_from_handle(pipe_open(name)), pipe_open(name), access)
    /\ UNCHANGED <<pipes, call, sent, got, g_open, file_size>>

vfs_open_virtual(p, vfi, access) ==
    /\ FreeFds(p) # {}
    /\ access = "O_RDONLY"
    /\ Descriptor(p, vfs_virtual_fs_id_from_index(vfi), 0, access)
    /\ UNCHANGED <<pipeVars, g_open, file_size>>

(* fat16_vfs_open of an existing file, without O_TRUNC.                    *)
vfs_open_file(p, path, access) ==
    LET free == {h \in OpenFile : ~g_open[h].in_use}
    IN  /\ FreeFds(p) # {} /\ free # {}
        /\ g_open' = [g_open EXCEPT ![First(free)] =
                         [in_use |-> TRUE, path |-> path, flags |-> access,
                          size |-> file_size[path], pos |-> 0]]
        /\ Descriptor(p, 0, First(free), access)
        /\ UNCHANGED <<pipeVars, file_size>>

vfs_open(p) ==
    /\ Cardinality({qd \in Proc \X Fd : LET f == fds[qd[1]][qd[2]]
                                      IN  f.in_use /\ f.fs_id # ConsoleId}) < MaxOpened
    /\ \E access \in Access :
       \/ \E name \in Names : vfs_open_pipe(p, name, access)
       \/ \E vfi \in Virtual : vfs_open_virtual(p, vfi, access)
       \/ \E path \in Paths : vfs_open_file(p, path, access)

-----------------------------------------------------------------------------
fat16_vfs_read(h, len) ==
    LET f == g_open[h]
    IN  /\ f.in_use /\ f.flags # "O_WRONLY" /\ f.pos < f.size
        /\ g_open' = [g_open EXCEPT ![h].pos = @ + Lesser(len, f.size - f.pos)]

(* The text is made anew on each call and may have any length; the         *)
(* position is in the descriptor's fs_handle.                              *)
vfs_read_virtual(p, d, len) ==
    \E size \in 0 .. MaxSize :
       LET n == Lesser(len, Greater(size - fds[p][d].fs_handle, 0))
       IN  n > 0 /\ fds' = [fds EXCEPT ![p][d].fs_handle = @ + n]

vfs_read(p, d, len) ==
    LET f == fds[p][d]
        ph == vfs_pipe_handle_from_fs_id(f.fs_id)
        vfi == vfs_virtual_index_from_fs_id(f.fs_id)
    IN  /\ f.in_use /\ f.open_flags # "O_WRONLY" /\ ~IsConsole(f.fs_id)
        /\ \/ /\ ph >= 0 /\ pipe_fds[ph].in_use /\ ~pipe_fds[ph].writable
              /\ ReadTurn(p, pipe_fds[ph].pipe_idx, len)
              /\ UNCHANGED <<pipe_fds, vfsVars>>
           \/ /\ ph < 0 /\ vfi >= 0
              /\ vfs_read_virtual(p, d, len)
              /\ UNCHANGED <<pipeVars, g_open, file_size>>
           \/ /\ ph < 0 /\ vfi < 0 /\ f.fs_id \in 0 .. fs_count - 1
              /\ fat16_vfs_read(f.fs_handle, len)
              /\ UNCHANGED <<pipeVars, fds, file_size>>

(* What there was room for is written; the directory entry gets the size   *)
(* this handle believes in.                                                *)
fat16_vfs_write(h, len) ==
    LET f == g_open[h]
    IN  /\ f.in_use /\ f.flags # "O_RDONLY"
        /\ \E done \in 1 .. Lesser(len, MaxSize - f.pos) :
              /\ g_open' = [g_open EXCEPT ![h].pos = @ + done,
                                          ![h].size = Greater(@, f.pos + done)]
              /\ file_size' = [file_size EXCEPT ![f.path] = Greater(f.size, f.pos + done)]

vfs_write(p, d, len) ==
    LET f == fds[p][d]
        ph == vfs_pipe_handle_from_fs_id(f.fs_id)
    IN  /\ f.in_use /\ f.open_flags # "O_RDONLY" /\ ~IsConsole(f.fs_id)
        /\ \/ /\ ph >= 0 /\ pipe_fds[ph].in_use /\ pipe_fds[ph].writable
              /\ WriteTurn(p, pipe_fds[ph].pipe_idx, len)
              /\ UNCHANGED <<pipe_fds, vfsVars>>
           \/ /\ ph < 0 /\ vfs_virtual_index_from_fs_id(f.fs_id) < 0
              /\ f.fs_id \in 0 .. fs_count - 1
              /\ fat16_vfs_write(f.fs_handle, len)
              /\ UNCHANGED <<pipeVars, fds>>

(* Every origin and offset, cut to the size.  A pipe is not sought: the    *)
(* call has no case for it (SeekIsRouted below).                           *)
vfs_seek(p, d) ==
    LET f == fds[p][d]
        vfi == vfs_virtual_index_from_fs_id(f.fs_id)
    IN  /\ f.in_use /\ ~IsConsole(f.fs_id)
        /\ \/ /\ vfi >= 0
              /\ \E pos \in 0 .. MaxSize : fds' = [fds EXCEPT ![p][d].fs_handle = pos]
              /\ UNCHANGED <<g_open>>
           \/ /\ vfi < 0 /\ f.fs_id \in 0 .. fs_count - 1
              /\ \E pos \in 0 .. g_open[f.fs_handle].size :
                    g_open' = [g_open EXCEPT ![f.fs_handle].pos = pos]
              /\ UNCHANGED fds
        /\ UNCHANGED <<pipeVars, file_size>>

vfs_ftruncate(p, d, length) ==
    LET f == fds[p][d]
        h == f.fs_handle
    IN  /\ f.in_use /\ f.open_flags # "O_RDONLY" /\ f.fs_id >= 0
        /\ length # g_open[h].size
        /\ g_open' = [g_open EXCEPT ![h].size = length, ![h].pos = Lesser(@, length)]
        /\ file_size' = [file_size EXCEPT ![g_open[h].path] = length]
        /\ UNCHANGED <<pipeVars, fds>>

-----------------------------------------------------------------------------
(* Mutant: the handle of the file system is forgotten.                     *)
vfs_close_of_PipesOnly(D) ==
    LET handles == {vfs_pipe_handle_from_fs_id(f.fs_id) : f \in D}
    IN  pipe_fds' = Released(handles) /\ UNCHANGED g_open

(* vfs_close of descriptors with these contents.                           *)
vfs_close_of(D) ==
    LET handles == {vfs_pipe_handle_from_fs_id(f.fs_id) : f \in D}
        files == {f.fs_handle : f \in {g \in D :
                     /\ vfs_pipe_handle_from_fs_id(g.fs_id) < 0
                     /\ vfs_virtual_index_from_fs_id(g.fs_id) < 0
                     /\ g.fs_id >= 0}}
    IN  /\ pipe_fds' = Released(handles)
        /\ g_open' = [h \in OpenFile |-> IF h \in files THEN NotOpen ELSE g_open[h]]

vfs_close(p, d) ==
    /\ fds[p][d].in_use
    /\ vfs_close_of({fds[p][d]})
    /\ fds' = [fds EXCEPT ![p][d] = NotInUse]
    /\ UNCHANGED <<pipes, call, sent, got, file_size>>

(* The end of a task, its own or by task_kill inside a blocked call; the   *)
(* next task to use the slot starts with a table of its own.               *)
vfs_close_all(p) ==
    /\ call[p] # Running \/ fds[p] # FreshTable
    /\ vfs_close_of({fds[p][d] : d \in {e \in Fd : fds[p][e].in_use}})
    /\ fds' = [fds EXCEPT ![p] = FreshTable]
    /\ call' = [call EXCEPT ![p] = Running]
    /\ UNCHANGED <<pipes, sent, got, file_size>>

(* exec or spawn of /pipe/<name>: load_elf_into asks for the size, opens   *)
(* the pipe in a table of its own, reads that many bytes, which are all    *)
(* there without a yield, closes it and finds no program in them.  Of a    *)
(* file nothing remains after the call.                                    *)
load_elf_into(name) ==
    LET idx == First(Found(name))
    IN  /\ pipe_open(name) >= 0
        /\ pipes[idx].ring # <<>>
        /\ pipes' = [pipes EXCEPT ![idx].ring = <<>>]
        /\ got' = [got EXCEPT ![pipes[idx].life] = @ \o pipes[idx].ring]
        /\ UNCHANGED <<pipe_fds, call, sent, vfsVars>>

(* A task in user code makes a call.                                       *)
Step(p) ==
    \/ /\ call[p] = Running
       /\ \/ vfs_open(p)
          \/ \E d \in Fd, len \in Lens : vfs_read(p, d, len)
          \/ \E d \in Fd, len \in Lens : vfs_write(p, d, len)
          \/ \E d \in Fd : vfs_seek(p, d)
          \/ \E d \in Fd, length \in 0 .. MaxSize : vfs_ftruncate(p, d, length)
          \/ \E d \in Fd : vfs_close(p, d)
    \/ Resume(p) /\ UNCHANGED vfsVars
    \/ vfs_close_all(p)

(* These three do the same whoever calls them.                             *)
Next ==
    \/ \E p \in Proc : Step(p)
    \/ /\ {p \in Proc : call[p] = Running} # {}
       /\ \/ \E name \in Names : pipe_create(name) /\ UNCHANGED vfsVars
          \/ \E name \in Names : pipe_destroy(name) /\ UNCHANGED vfsVars
          \/ \E name \in Names : load_elf_into(name)

Spec == Init /\ [][Next]_vars

-----------------------------------------------------------------------------
(* What descriptor f stands for, decoded from its number the way the calls *)
(* decode it.                                                              *)
Meaning(f) ==
    LET ph == vfs_pipe_handle_from_fs_id(f.fs_id)
        vfi == vfs_virtual_index_from_fs_id(f.fs_id)
        x(object, pos) == [object |-> object, access |-> f.open_flags, pos |-> pos]
    IN  IF ~f.in_use THEN [object |-> "none"]
        ELSE IF f.fs_id = ConsoleId THEN x(<<"console", f.fs_handle>>, 0)
        ELSE IF ph >= 0 /\ pipe_fds[ph].in_use
             THEN x(<<"pipe", pipe_fds[ph].pipe_idx, pipe_fds[ph].writable>>, 0)
        ELSE IF vfi >= 0 THEN x(<<"virtual", vfi>>, f.fs_handle)
        ELSE IF f.fs_id \in 0 .. fs_count - 1 /\ g_open[f.fs_handle].in_use
             THEN x(<<"file", g_open[f.fs_handle].path>>, g_open[f.fs_handle].pos)
        ELSE [object |-> "lost"]

OpenedObjects ==
    {[object |-> <<"pipe", i, a = "O_WRONLY">>, access |-> a, pos |-> 0] :
        i \in Slot, a \in Access \ {"O_RDWR"}}
    \cup {[object |-> <<"virtual", v>>, access |-> "O_RDONLY", pos |-> 0] : v \in Virtual}
    \cup {[object |-> <<"file", path>>, access |-> a, pos |-> 0] : path \in Paths, a \in Access}

ConsoleTable ==
    [d \in Fd |->
        IF d \in StdFds
        THEN [object |-> <<"console", d>>, access |-> FreshTable[d].open_flags, pos |-> 0]
        ELSE [object |-> "none"]]

Promised == INSTANCE Descriptors WITH
    Opened <- OpenedObjects,
    Fresh <- ConsoleTable,
    MaxPos <- MaxSize,
    desc <- [p \in Proc |-> [d \in Fd |-> Meaning(fds[p][d])]]

(* fs/vfs.h "File operations (take task's fd table)": with descriptors     *)
(* decoded from their numbers, and with pipe handles and open files shared *)
(* by all tasks, every step of every task is one call on one descriptor of *)
(* its own: no call moves, closes or redirects another's.                  *)
ImplementsDescriptors == Promised!Spec

(* A descriptor that refers to pipe handle h, or to open file h, and the   *)
(* places of the descriptors that do.                                      *)
IsPipe(f, h) == f.in_use /\ f.fs_id = vfs_pipe_fs_id_from_handle(h)
IsFile(f, h) == f.in_use /\ f.fs_id = 0 /\ f.fs_handle = h
Owners(h, Refers(_, _)) == {pd \in Proc \X Fd : Refers(fds[pd[1]][pd[2]], h)}

(* A pipe handle and an open file are in use exactly when one descriptor   *)
(* of one task refers to them: vfs_close, exiting and being killed inside  *)
(* a blocked call neither leak one of the PIPE_FD_MAX handles or of the    *)
(* FAT16_MAX_OPEN files nor leave it to two owners.                        *)
EveryHandleHasOneOwner ==
    LET Owned(x, owners) == IF x.in_use THEN \E pd \in Proc \X Fd : owners = {pd}
                            ELSE owners = {}
    IN  /\ \A h \in Handle : Owned(pipe_fds[h], Owners(h, IsPipe))
        /\ \A h \in OpenFile : Owned(g_open[h], Owners(h, IsFile))

-----------------------------------------------------------------------------
(* fs/vfs.h: filesystems[] holds the registered file systems.  A           *)
(* descriptor that vfs_seek passes on to filesystems[fs_id] names one.     *)
SeekIsRouted ==
    \A p \in Proc, d \in Fd :
       LET f == fds[p][d]
       IN  f.in_use /\ ~IsConsole(f.fs_id) /\ vfs_virtual_index_from_fs_id(f.fs_id) < 0
           => f.fs_id \in 0 .. fs_count - 1
=============================================================================
