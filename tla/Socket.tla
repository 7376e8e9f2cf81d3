------------------------------- MODULE Socket -------------------------------
(***************************************************************************)
(* The TCP socket table of net/net.c between the programs that call it and *)
(* the vendored lwIP stack that calls it back.  The timer interrupt runs   *)
(* net_poll, so a callback is one step, as is a system call.  lwIP is kept *)
(* to what the table can see: connection blocks (pcbs) that are allocated, *)
(* handed over by the accept callback, deliver bytes within their receive  *)
(* window and end.  Sending only hands bytes to lwIP and is left out.      *)
(***************************************************************************)
EXTENDS Integers, Sequences, FiniteSets

CONSTANTS Pid,                 \* tasks that use sockets
          MAX_SOCKETS, SOCK_RX_BUF,
          Pcb,                 \* MEMP_NUM_TCP_PCB connection blocks
          TCP_WND,
          Lens,                \* bytes in a segment; length of a recv
          MaxStream            \* bound: bytes a peer sends on a connection

VARIABLES sockets,             \* the socket table
          pcbs,                \* lwIP's connection blocks
          alive,               \* tasks that have not ended
          got                  \* history: what recv returned on a socket

None == -1
Listening == -2                \* the pcb of a listener

(* A connection block is told apart from no block.                         *)
ASSUME SocketAssumption ==
    /\ MAX_SOCKETS \in Nat /\ None \notin Pcb /\ Listening \notin Pcb
    /\ SOCK_RX_BUF \in Nat \ {0} /\ TCP_WND \in Nat /\ Lens \subseteq Nat

vars == <<sockets, pcbs, alive, got>>

Fd == 0 .. MAX_SOCKETS - 1
Lesser(a, b) == IF a <= b THEN a ELSE b
First(S) == CHOOSE i \in S : \A j \in S : i <= j

Unused == [in_use |-> FALSE, type |-> "UNUSED", pcb |-> None, owner_pid |-> 0,
           accepted_fd |-> None, ring |-> <<>>, closed |-> FALSE]

(* A pcb: its state, the listener it came in on, the socket its callbacks  *)
(* are given, its receive window and how many bytes have arrived.          *)
FreePcb == [state |-> "free", listener |-> None, arg |-> None,
            rcv_wnd |-> TCP_WND, next |-> 0]

Init ==
    /\ sockets = [fd \in Fd |-> Unused]
    /\ pcbs = [c \in Pcb |-> FreePcb]
    /\ alive = Pid
    /\ got = [fd \in Fd |-> <<>>]

FreeFds == {fd \in Fd : ~sockets[fd].in_use}

(* alloc_socket clears the slot; its caller fills in these fields.         *)
Taken(type, pcb, owner) ==
    [in_use |-> TRUE, type |-> type, pcb |-> pcb, owner_pid |-> owner,
     accepted_fd |-> None, ring |-> <<>>, closed |-> FALSE]

(* Failures of tcp_new, tcp_bind and tcp_listen give the slot back: no     *)
(* action.                                                                 *)
net_sock_listen(p) ==
    /\ FreeFds # {}
    /\ sockets' = [sockets EXCEPT ![First(FreeFds)] = Taken("LISTEN", Listening, p)]
    /\ got' = [got EXCEPT ![First(FreeFds)] = <<>>]
    /\ UNCHANGED <<pcbs, alive>>

(* A SYN takes a pcb while there is one.                                   *)
tcp_listen_input(ls) ==
    LET free == {c \in Pcb : pcbs[c].state = "free"}
    IN  /\ sockets[ls].type = "LISTEN" /\ free # {}
        /\ \E c \in free :
              pcbs' = [pcbs EXCEPT ![c] = [FreePcb EXCEPT !.state = "syn",
                                                          !.listener = ls]]
        /\ UNCHANGED <<sockets, alive, got>>

(* Mutant: the accepted connection gets no owner.                          *)
ChildOwner_Nobody(ls) == 0

ChildOwner(ls) == sockets[ls].owner_pid

(* The accept callback, when the listener has no connection waiting and a  *)
(* slot is free (otherwise the connection is aborted).                     *)
sock_accept_cb(ls, pcb) ==
    LET fd == First(FreeFds)
    IN  /\ sockets' = [sockets EXCEPT
              ![fd] = Taken("STREAM", pcb, ChildOwner(ls)),
              ![ls].accepted_fd = fd]
        /\ got' = [got EXCEPT ![fd] = <<>>]
        /\ UNCHANGED alive

Accepts(ls) == ls # None /\ sockets[ls].accepted_fd = None /\ FreeFds # {}

(* Without a pcb for a SYN lwIP calls the accept callback with none        *)
(* (ERR_MEM), and the callback makes a socket of it all the same.          *)
tcp_listen_input_NoMemory(ls) ==
    /\ sockets[ls].type = "LISTEN" /\ Accepts(ls)
    /\ \A c \in Pcb : pcbs[c].state # "free"
    /\ sock_accept_cb(ls, None)
    /\ UNCHANGED pcbs

(* The handshake of a connection completes.                                *)
tcp_process_ack(c) ==
    LET ls == pcbs[c].listener
    IN  /\ pcbs[c].state = "syn"
        /\ \/ /\ ~Accepts(ls)
              /\ pcbs' = [pcbs EXCEPT ![c] = FreePcb]
              /\ UNCHANGED <<sockets, alive, got>>
           \/ /\ Accepts(ls)
              /\ sock_accept_cb(ls, c)
              /\ pcbs' = [pcbs EXCEPT ![c].state = "open", ![c].listener = None,
                                      ![c].arg = First(FreeFds)]

(* The bytes of an n-byte segment that fit the ring.                       *)
Pushed(n, ring) == Lesser(n, (SOCK_RX_BUF - 1) - Len(ring))

(* Mutant: every byte of the segment is acknowledged, stored or not.       *)
Recved_All(n, pushed) == n

(* The bytes of an n-byte segment that tcp_recved is told about.           *)
Recved(n, pushed) == pushed

(* A segment arrives inside the window: lwIP takes n bytes off the window  *)
(* and calls back; the ring takes what it has room for, and the rest goes  *)
(* with the pbuf.                                                          *)
sock_recv_cb(c, n) ==
    LET fd == pcbs[c].arg
        pushed == Pushed(n, sockets[fd].ring)
        data == [k \in 1 .. pushed |-> pcbs[c].next + k]
        wnd == pcbs[c].rcv_wnd - n
    IN  /\ pcbs[c].state = "open" /\ fd # None /\ ~sockets[fd].closed
        /\ n <= pcbs[c].rcv_wnd
        /\ pcbs[c].next + n <= MaxStream
        /\ sockets' = [sockets EXCEPT ![fd].ring = @ \o data]
        /\ pcbs' = [pcbs EXCEPT ![c].next = @ + n,
                      ![c].rcv_wnd = Lesser(TCP_WND, wnd + Recved(n, pushed))]
        /\ UNCHANGED <<alive, got>>

(* The peer closes its side: the callback is given no pbuf.                *)
sock_recv_cb_Fin(c) ==
    LET fd == pcbs[c].arg
    IN  /\ pcbs[c].state = "open" /\ fd # None /\ ~sockets[fd].closed
        /\ sockets' = [sockets EXCEPT ![fd].closed = TRUE]
        /\ UNCHANGED <<pcbs, alive, got>>

(* A reset, or lwIP gives up: the pcb is gone.  A pcb still in its         *)
(* handshake, or closed by its socket, has no callback.                    *)
sock_err_cb(c) ==
    LET fd == pcbs[c].arg
    IN  /\ pcbs[c].state # "free"
        /\ pcbs' = [pcbs EXCEPT ![c] = FreePcb]
        /\ sockets' = IF fd = None THEN sockets
                      ELSE [sockets EXCEPT ![fd].closed = TRUE, ![fd].pcb = None]
        /\ UNCHANGED <<alive, got>>

net_sock_accept(p, fd) ==
    /\ sockets[fd].type = "LISTEN" /\ sockets[fd].owner_pid = p
    /\ sockets[fd].accepted_fd # None
    /\ sockets' = [sockets EXCEPT ![fd].accepted_fd = None]
    /\ UNCHANGED <<pcbs, alive, got>>

net_sock_recv(p, fd, len) ==
    LET s == sockets[fd]
        n == Lesser(len, Len(s.ring))
    IN  /\ s.type = "STREAM" /\ s.owner_pid = p /\ n > 0
        /\ sockets' = [sockets EXCEPT ![fd].ring = SubSeq(@, n + 1, Len(@))]
        /\ got' = [got EXCEPT ![fd] = @ \o SubSeq(s.ring, 1, n)]
        /\ UNCHANGED <<pcbs, alive>>

(* What closing fd closes: a listener takes the connection waiting on it   *)
(* along, if that is in use and the caller may close it, and so on.        *)
Chain(fd, p, force) ==
    LET TakesAlong(ls) ==
            LET child == sockets[ls].accepted_fd
            IN  /\ sockets[ls].type = "LISTEN" /\ child # None
                /\ sockets[child].in_use
                /\ force \/ sockets[child].owner_pid = p
        closed == {S \in SUBSET Fd : /\ fd \in S
                                     /\ \A ls \in S : TakesAlong(ls) =>
                                                        sockets[ls].accepted_fd \in S}
    IN  {k \in Fd : \A S \in closed : k \in S}

(* Mutant: the callbacks of a closed connection stay in place.             *)
Detached_KeepsArg(c, fds, ends) ==
    IF pcbs[c].listener \in fds THEN [pcbs[c] EXCEPT !.listener = None]
    ELSE pcbs[c]

(* The pcbs once the sockets fds are closed: a listener's handshakes lose  *)
(* it, and a connection loses its callbacks and lingers in lwIP, unless    *)
(* lwIP drops it at once.                                                  *)
Detached(c, fds, ends) ==
    IF pcbs[c].listener \in fds THEN [pcbs[c] EXCEPT !.listener = None]
    ELSE IF pcbs[c].arg \notin fds THEN pcbs[c]
    ELSE IF c \in ends THEN FreePcb
    ELSE [FreePcb EXCEPT !.state = "closing"]

net_sock_close_internal(fds) ==
    /\ sockets' = [fd \in Fd |-> IF fd \in fds THEN Unused ELSE sockets[fd]]
    /\ got' = [fd \in Fd |-> IF fd \in fds THEN <<>> ELSE got[fd]]
    /\ \E ends \in SUBSET {c \in Pcb : pcbs[c].arg \in fds} :
          pcbs' = [c \in Pcb |-> Detached(c, fds, ends)]

net_sock_close(p, fd) ==
    /\ sockets[fd].in_use /\ sockets[fd].owner_pid = p
    /\ net_sock_close_internal(Chain(fd, p, FALSE))
    /\ UNCHANGED alive

(* A task ends: task_terminate closes every socket it owns.                *)
net_sock_close_all_for_pid(p) ==
    LET mine == {fd \in Fd : sockets[fd].in_use /\ sockets[fd].owner_pid = p}
    IN  /\ net_sock_close_internal(UNION {Chain(fd, p, TRUE) : fd \in mine})
        /\ alive' = alive \ {p}

Lwip ==
    \/ \E ls \in Fd : tcp_listen_input(ls) \/ tcp_listen_input_NoMemory(ls)
    \/ \E c \in Pcb : \/ tcp_process_ack(c)
                      \/ \E n \in Lens : sock_recv_cb(c, n)
                      \/ sock_recv_cb_Fin(c)
                      \/ sock_err_cb(c)

Step(p) ==
    \/ net_sock_listen(p)
    \/ \E fd \in Fd : \/ net_sock_accept(p, fd)
                      \/ \E len \in Lens : net_sock_recv(p, fd, len)
                      \/ net_sock_close(p, fd)
    \/ net_sock_close_all_for_pid(p)

Next == Lwip \/ \E p \in alive : Step(p)

Spec == Init /\ [][Next]_vars

-----------------------------------------------------------------------------
(* Sockets and pcbs have the shapes net.c declares and the receive ring    *)
(* never holds more than SOCK_RX_BUF - 1 bytes.                            *)
TypeOK ==
    /\ \A fd \in Fd :
          /\ sockets[fd].type \in {"UNUSED", "LISTEN", "STREAM"}
          /\ sockets[fd].in_use = (sockets[fd].type # "UNUSED")
          /\ sockets[fd].pcb \in Pcb \cup {None, Listening}
          /\ sockets[fd].accepted_fd \in Fd \cup {None}
          /\ Len(sockets[fd].ring) < SOCK_RX_BUF
    /\ \A c \in Pcb : pcbs[c].rcv_wnd \in 0 .. TCP_WND

(* A callback of lwIP never touches a socket that is not its own: a pcb    *)
(* carries a socket exactly when that socket is a connection in use on     *)
(* that pcb, through accepts, resets, closes, exits and reuse of the slot. *)
CallbacksReachTheirSocket ==
    \A c \in Pcb, fd \in Fd :
       pcbs[c].arg = fd <=> sockets[fd].type = "STREAM" /\ sockets[fd].pcb = c

(* Every socket in use belongs to a task that has not ended: connections   *)
(* waiting for accept go with the task that owns their listener.           *)
NoSocketOutlivesItsTask ==
    \A fd \in Fd : sockets[fd].in_use => sockets[fd].owner_pid \in alive

(* The receive window is short by exactly the bytes that arrived and were  *)
(* not stored: what sock_recv_cb acknowledges is what a reader has got or  *)
(* will find in the ring, and no byte is stored twice or out of order.     *)
AcknowledgedBytesAreStored ==
    \A c \in Pcb : pcbs[c].arg # None =>
       LET bytes == got[pcbs[c].arg] \o sockets[pcbs[c].arg].ring
       IN  /\ TCP_WND - pcbs[c].rcv_wnd = pcbs[c].next - Len(bytes)
           /\ \A i, j \in DOMAIN bytes : i < j => bytes[i] < bytes[j]

-----------------------------------------------------------------------------
(* net.c on sock_recv_cb: "Only acknowledge bytes we actually stored; lwIP *)
(* will retransmit the rest."  A reader then sees the stream without gaps. *)
StreamHasNoGaps ==
    \A fd \in Fd : sockets[fd].type = "STREAM" =>
       LET bytes == got[fd] \o sockets[fd].ring
       IN  \A i \in DOMAIN bytes : bytes[i] = i

(* net.c on ksocket_t.accepted_fd: "For listeners: fd of newly accepted    *)
(* connection (-1 if none)".                                               *)
WaitingConnectionIsOpen ==
    \A ls \in Fd :
       LET fd == sockets[ls].accepted_fd
       IN  fd # None => sockets[fd].type = "STREAM"

(* The same comment: what waits for accept is, or was, a connection.       *)
WaitingIsAConnection ==
    \A ls \in Fd :
       LET fd == sockets[ls].accepted_fd
       IN  fd # None /\ sockets[fd].type = "STREAM" =>
              sockets[fd].pcb # None \/ sockets[fd].closed
=============================================================================
