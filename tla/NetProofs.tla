----------------------------- MODULE NetProofs ------------------------------
(***************************************************************************)
(* Proofs about the sockets of Socket and about net_ping, for any number   *)
(* of tasks, sockets and connection blocks: a callback of lwIP never       *)
(* reaches a socket that is not its own, no socket is left behind by the   *)
(* task that owns it, what a peer was told is received is stored in order, *)
(* and pings do not meet.                                                  *)
(***************************************************************************)
EXTENDS Socket, Ping, WellFoundedInduction, TLAPS

SocketFields == {"in_use", "type", "pcb", "owner_pid", "accepted_fd", "ring", "closed"}
PcbFields == {"state", "listener", "arg", "rcv_wnd", "next"}

(* Every slot of the two tables holds a record with these fields.          *)
SocketShape ==
    /\ sockets = [fd \in Fd |-> sockets[fd]]
    /\ \A fd \in Fd : DOMAIN sockets[fd] = SocketFields

PcbShape ==
    /\ pcbs = [c \in Pcb |-> pcbs[c]]
    /\ \A c \in Pcb : DOMAIN pcbs[c] = PcbFields

Shape == SocketShape /\ PcbShape

(* A free slot is of no type, and its owner has not ended.                 *)
Used ==
    \A fd \in Fd :
       /\ sockets[fd].in_use <=> sockets[fd].type # "UNUSED"
       /\ sockets[fd].in_use => sockets[fd].owner_pid \in alive

(* A handshake names a listener in use and has no socket yet; only an open *)
(* connection has one.                                                     *)
Handshakes ==
    \A c \in Pcb :
       /\ pcbs[c].listener # None =>
             pcbs[c].listener \in Fd /\ sockets[pcbs[c].listener].type = "LISTEN"
       /\ pcbs[c].arg # None => pcbs[c].state = "open" /\ pcbs[c].listener = None
       /\ pcbs[c].arg \in Fd \cup {None}

SocketInv == Shape /\ Used /\ Handshakes /\ CallbacksReachTheirSocket

(* A socket's number is not None.                                          *)
LEMMA FdIsNat == Fd \subseteq Nat /\ None \notin Fd
  BY SocketAssumption DEF Fd, None

(* A nonempty set of slots has a first.                                    *)
LEMMA FirstIn ==
    ASSUME NEW T \in SUBSET Fd, T # {}
    PROVE  First(T) \in T
<1>1. T \subseteq Nat
  BY FdIsNat
<1>2. \E x \in T : \A y \in T : ~ (<<y, x>> \in OpToRel(<, Nat))
  BY <1>1, NatLessThanWellFounded, WFMin
<1>3. \A x, y \in Nat : ~ (<<y, x>> \in OpToRel(<, Nat)) => x <= y
  BY DEF OpToRel
<1>4. \E x \in T : \A y \in T : x <= y
  BY <1>1, <1>2, <1>3
<1> QED BY <1>4 DEF First

(* The fields of the records that alloc_socket and lwIP start from.        *)
LEMMA Fields ==
    /\ Unused.in_use = FALSE /\ Unused.type = "UNUSED" /\ Unused.pcb = None
    /\ FreePcb.state = "free" /\ FreePcb.listener = None /\ FreePcb.arg = None
  BY DEF Unused, FreePcb

(* Both tables start empty.                                                *)
LEMMA SocketInvInit == Init => SocketInv
<1> SUFFICES ASSUME Init PROVE SocketInv
  OBVIOUS
<1>1. Shape
  BY DEF Init, Shape, SocketShape, PcbShape, SocketFields, PcbFields, Unused, FreePcb
<1>2. \A fd \in Fd : sockets[fd].in_use = FALSE /\ sockets[fd].type = "UNUSED"
  BY Fields DEF Init
<1>3. \A c \in Pcb : pcbs[c].arg = None /\ pcbs[c].listener = None
  BY Fields DEF Init
<1>4. Used /\ Handshakes /\ CallbacksReachTheirSocket
  BY <1>2, <1>3, FdIsNat DEF Used, Handshakes, CallbacksReachTheirSocket
<1> QED BY <1>1, <1>4 DEF SocketInv

(* Steps that leave these fields of the two tables alone.                  *)
SameSockets ==
    \A fd \in Fd :
       /\ sockets'[fd].in_use = sockets[fd].in_use
       /\ sockets'[fd].type = sockets[fd].type
       /\ sockets'[fd].pcb = sockets[fd].pcb
       /\ sockets'[fd].owner_pid = sockets[fd].owner_pid

SamePcbs ==
    \A c \in Pcb :
       /\ pcbs'[c].state = pcbs[c].state
       /\ pcbs'[c].listener = pcbs[c].listener
       /\ pcbs'[c].arg = pcbs[c].arg

(* Data, a fin and an accept change nothing the invariant speaks of.       *)
LEMMA Unaffected ==
    ASSUME SocketInv, Shape', SameSockets, SamePcbs, UNCHANGED alive
    PROVE  SocketInv'
<1>1. Used'
  BY DEF SocketInv, Used, SameSockets
<1>2. Handshakes'
  BY DEF SocketInv, Handshakes, SameSockets, SamePcbs
<1>3. CallbacksReachTheirSocket'
  BY DEF SocketInv, CallbacksReachTheirSocket, SameSockets, SamePcbs
<1> QED BY <1>1, <1>2, <1>3 DEF SocketInv

(* A segment fills the socket's ring, a recv empties it.                   *)
LEMMA RingChange ==
    ASSUME SocketShape, NEW fd \in Fd, NEW e, sockets' = [sockets EXCEPT ![fd].ring = e]
    PROVE  SocketShape' /\ SameSockets
  BY DEF SocketShape, SocketFields, SameSockets

(* A fin marks the socket closed.                                          *)
LEMMA FinChange ==
    ASSUME SocketShape, NEW fd \in Fd, sockets' = [sockets EXCEPT ![fd].closed = TRUE]
    PROVE  SocketShape' /\ SameSockets
  BY Zenon DEF SocketShape, SocketFields, SameSockets

(* Accept forgets the waiting connection.                                  *)
LEMMA AcceptChange ==
    ASSUME SocketShape, NEW fd \in Fd, sockets' = [sockets EXCEPT ![fd].accepted_fd = None]
    PROVE  SocketShape' /\ SameSockets
  BY DEF SocketShape, SocketFields, SameSockets

(* A segment moves the window and the next number of its pcb.              *)
LEMMA WindowChange ==
    ASSUME PcbShape, NEW c \in Pcb, NEW n, NEW w,
           pcbs' = [pcbs EXCEPT ![c].next = n, ![c].rcv_wnd = w]
    PROVE  PcbShape' /\ SamePcbs
  BY Zenon DEF PcbShape, PcbFields, SamePcbs

(* The pcb of a completed handshake.                                       *)
LEMMA OpenChange ==
    ASSUME PcbShape, NEW c \in Pcb, NEW fd,
           pcbs' = [pcbs EXCEPT ![c].state = "open", ![c].listener = None, ![c].arg = fd]
    PROVE  /\ PcbShape'
           /\ pcbs'[c].state = "open" /\ pcbs'[c].listener = None /\ pcbs'[c].arg = fd
           /\ \A k \in Pcb \ {c} : pcbs'[k] = pcbs[k]
  BY Zenon DEF PcbShape, PcbFields

(* The socket of a connection that ends.                                   *)
LEMMA ResetChange ==
    ASSUME SocketShape, NEW fd \in Fd,
           sockets' = [sockets EXCEPT ![fd].closed = TRUE, ![fd].pcb = None]
    PROVE  /\ SocketShape'
           /\ \A k \in Fd : /\ sockets'[k].in_use = sockets[k].in_use
                             /\ sockets'[k].type = sockets[k].type
                             /\ sockets'[k].owner_pid = sockets[k].owner_pid
           /\ sockets'[fd].pcb = None
           /\ \A k \in Fd \ {fd} : sockets'[k].pcb = sockets[k].pcb
  BY Zenon DEF SocketShape, SocketFields

(* The sockets but fd keep what the invariant is about.                    *)
OthersKept(fd) ==
    \A k \in Fd \ {fd} : /\ sockets'[k].in_use = sockets[k].in_use
                         /\ sockets'[k].type = sockets[k].type
                         /\ sockets'[k].pcb = sockets[k].pcb
                         /\ sockets'[k].owner_pid = sockets[k].owner_pid

(* The handshake of pcb c is complete and socket fd is its argument.       *)
Opened(c, fd) ==
    /\ c \in Pcb /\ pcbs[c].state = "syn"
    /\ pcbs'[c].state = "open" /\ pcbs'[c].listener = None /\ pcbs'[c].arg = fd
    /\ \A k \in Pcb \ {c} : pcbs'[k] = pcbs[k]

(* The socket and the listener of an accepted connection.                  *)
LEMMA AcceptedChange ==
    ASSUME SocketShape, NEW fd \in Fd, NEW ls \in Fd, fd # ls,
           DOMAIN sockets'[fd] = SocketFields,
           sockets'[ls] = [sockets[ls] EXCEPT !.accepted_fd = fd],
           \A k \in Fd \ {fd, ls} : sockets'[k] = sockets[k],
           sockets' = [k \in Fd |-> sockets'[k]]
    PROVE  SocketShape' /\ OthersKept(fd)
<1>1. /\ DOMAIN sockets'[ls] = SocketFields
      /\ sockets'[ls].in_use = sockets[ls].in_use
      /\ sockets'[ls].type = sockets[ls].type
      /\ sockets'[ls].pcb = sockets[ls].pcb
      /\ sockets'[ls].owner_pid = sockets[ls].owner_pid
  BY DEF SocketShape, SocketFields
<1>2. SocketShape'
  BY <1>1 DEF SocketShape
<1> QED BY <1>1, <1>2, Zenon DEF OthersKept

(* A slot that was free becomes a socket of a live task: a listener, a     *)
(* connection without a pcb, or one whose pcb is given it as argument.     *)
LEMMA NewSocket ==
    ASSUME SocketInv, Shape', NEW fd \in Fd, ~sockets[fd].in_use,
           NEW type \in {"LISTEN", "STREAM"}, NEW pcb, NEW owner \in alive,
           sockets'[fd] = Taken(type, pcb, owner),
           OthersKept(fd), UNCHANGED alive,
           \/ UNCHANGED pcbs /\ pcb \notin Pcb
           \/ type = "STREAM" /\ Opened(pcb, fd)
    PROVE  SocketInv'
<1>1. /\ sockets'[fd].in_use = TRUE /\ sockets'[fd].type = type
      /\ sockets'[fd].pcb = pcb /\ sockets'[fd].owner_pid = owner
  BY DEF Taken
<1>2. sockets[fd].type = "UNUSED"
  BY DEF SocketInv, Used
<1>3. Used'
  BY <1>1 DEF SocketInv, Used, OthersKept
<1>4. \A c \in Pcb : pcbs[c].arg # fd
  BY <1>2 DEF SocketInv, OthersKept, Opened, CallbacksReachTheirSocket
<1>5. CASE UNCHANGED pcbs /\ pcb \notin Pcb
  <2>1. Handshakes'
    BY <1>2, <1>5 DEF SocketInv, OthersKept, Opened, Handshakes
  <2>2. CallbacksReachTheirSocket'
    BY <1>1, <1>4, <1>5 DEF SocketInv, OthersKept, Opened, CallbacksReachTheirSocket
  <2> QED BY <1>3, <2>1, <2>2 DEF SocketInv
<1>6. CASE type = "STREAM" /\ Opened(pcb, fd)
  <2>1. Handshakes'
    <3>1. \A c \in Pcb \ {pcb} : pcbs'[c].listener # None =>
             pcbs'[c].listener \in Fd /\ sockets'[pcbs'[c].listener].type = "LISTEN"
      BY <1>2, <1>6 DEF SocketInv, OthersKept, Opened, Handshakes
    <3> QED BY <1>6, <3>1 DEF SocketInv, OthersKept, Opened, Handshakes
  <2>2. \A k \in Fd : ~(sockets[k].type = "STREAM" /\ sockets[k].pcb = pcb)
    BY <1>6, FdIsNat DEF SocketInv, OthersKept, Opened, Handshakes, CallbacksReachTheirSocket
  <2>3. CallbacksReachTheirSocket'
    BY <1>1, <1>4, <1>6, <2>2 DEF SocketInv, OthersKept, Opened, CallbacksReachTheirSocket
  <2> QED BY <1>3, <2>1, <2>3 DEF SocketInv
<1> QED BY <1>5, <1>6

(* The accept callback for a listener in use, with the pcb of a completed  *)
(* handshake or with none.                                                 *)
LEMMA Accepting ==
    ASSUME SocketInv, NEW ls \in Fd, sockets[ls].type = "LISTEN", Accepts(ls),
           NEW pcb, sock_accept_cb(ls, pcb),
           \/ UNCHANGED pcbs /\ pcb \notin Pcb
           \/ /\ pcb \in Pcb /\ pcbs[pcb].state = "syn"
              /\ pcbs' = [pcbs EXCEPT ![pcb].state = "open", ![pcb].listener = None,
                                      ![pcb].arg = First(FreeFds)]
    PROVE  SocketInv'
<1>a. PICK fd \in Fd : fd = First(FreeFds) /\ ~sockets[fd].in_use
  <2>1. FreeFds # {} /\ FreeFds \subseteq Fd
    BY Zenon DEF Accepts, FreeFds
  <2>2. First(FreeFds) \in FreeFds
    BY <2>1, FirstIn
  <2> QED BY <2>2, Zenon DEF FreeFds
<1>b. PICK owner \in alive : owner = sockets[ls].owner_pid /\ sockets[ls].in_use
  BY DEF SocketInv, Used
<1>1. fd \in Fd /\ ~sockets[fd].in_use
  BY <1>a
<1>2. sockets[ls].in_use /\ owner \in alive
  BY <1>b
<1>3. fd # ls /\ UNCHANGED alive
  BY <1>1, <1>2 DEF sock_accept_cb
<1>4. sockets' = [sockets EXCEPT ![fd] = Taken("STREAM", pcb, owner), ![ls].accepted_fd = fd]
  BY <1>a, <1>b DEF sock_accept_cb, ChildOwner
<1>5. SocketShape /\ PcbShape
  BY DEF SocketInv, Shape
<1>6. \/ UNCHANGED pcbs /\ pcb \notin Pcb
      \/ /\ pcb \in Pcb /\ pcbs[pcb].state = "syn"
         /\ pcbs' = [pcbs EXCEPT ![pcb].state = "open", ![pcb].listener = None,
                                 ![pcb].arg = fd]
  BY <1>a
<1> DEFINE new == Taken("STREAM", pcb, owner)
<1>7. DOMAIN new = SocketFields
  BY DEF Taken, SocketFields
<1>8. sockets' = [sockets EXCEPT ![fd] = new, ![ls].accepted_fd = fd]
  BY <1>4
<1> HIDE DEF new
<1>9. /\ sockets'[fd] = new
      /\ sockets'[ls] = [sockets[ls] EXCEPT !.accepted_fd = fd]
      /\ \A k \in Fd \ {fd, ls} : sockets'[k] = sockets[k]
      /\ sockets' = [k \in Fd |-> sockets'[k]]
  BY <1>3, <1>5, <1>8, ZenonT(30) DEF SocketShape
<1>10. SocketShape' /\ OthersKept(fd)
  BY <1>3, <1>5, <1>7, <1>9, AcceptedChange
<1>11. sockets'[fd] = Taken("STREAM", pcb, owner)
  BY <1>9 DEF new
<1>12. CASE UNCHANGED pcbs /\ pcb \notin Pcb
  <2>1. Shape'
    BY <1>5, <1>10, <1>12 DEF Shape, PcbShape
  <2> QED BY <1>1, <1>3, <1>10, <1>11, <1>12, <2>1, NewSocket
<1>13. CASE /\ pcb \in Pcb /\ pcbs[pcb].state = "syn"
            /\ pcbs' = [pcbs EXCEPT ![pcb].state = "open", ![pcb].listener = None,
                                    ![pcb].arg = fd]
  <2>1. PcbShape' /\ Opened(pcb, fd)
    BY <1>5, <1>13, OpenChange, Zenon DEF Opened
  <2>2. Shape'
    BY <1>10, <2>1 DEF Shape
  <2> QED BY <1>1, <1>3, <1>10, <1>11, <2>1, <2>2, NewSocket
<1> QED BY <1>6, <1>12, <1>13

(* A pcb that no socket has is taken or given back.                        *)
LEMMA PcbOnly ==
    ASSUME SocketInv, NEW c \in Pcb, NEW new, pcbs[c].arg = None,
           pcbs' = [pcbs EXCEPT ![c] = new], DOMAIN new = PcbFields, new.arg = None,
           new.listener # None => new.listener \in Fd /\ sockets[new.listener].type = "LISTEN",
           UNCHANGED <<sockets, alive>>
    PROVE  SocketInv'
<1>1. pcbs'[c] = new /\ \A k \in Pcb \ {c} : pcbs'[k] = pcbs[k]
  BY DEF SocketInv, Shape, PcbShape
<1>2. Shape'
  BY <1>1 DEF SocketInv, Shape, SocketShape, PcbShape
<1>3. Handshakes'
  BY <1>1 DEF SocketInv, Handshakes
<1>4. CallbacksReachTheirSocket'
  BY <1>1 DEF SocketInv, CallbacksReachTheirSocket
<1>5. Used'
  BY DEF SocketInv, Used
<1> QED BY <1>2, <1>3, <1>4, <1>5 DEF SocketInv

(* What lwIP does to the table between two system calls.                   *)
LEMMA LwipStep == ASSUME SocketInv, Lwip PROVE SocketInv'
<1>0. SocketShape /\ PcbShape
  BY DEF SocketInv, Shape
<1>1. ASSUME NEW ls \in Fd, tcp_listen_input(ls) PROVE SocketInv'
  <2>1. PICK c \in Pcb : /\ pcbs[c].state = "free"
                         /\ pcbs' = [pcbs EXCEPT ![c] = [FreePcb EXCEPT !.state = "syn",
                                                                       !.listener = ls]]
    BY <1>1, Zenon DEF tcp_listen_input
  <2> DEFINE new == [FreePcb EXCEPT !.state = "syn", !.listener = ls]
  <2>2. DOMAIN new = PcbFields /\ new.arg = None /\ new.listener = ls
    BY DEF FreePcb, PcbFields
  <2>3. pcbs[c].arg = None
    BY <2>1 DEF SocketInv, Handshakes
  <2>4. sockets[ls].type = "LISTEN" /\ UNCHANGED <<sockets, alive>>
    BY <1>1 DEF tcp_listen_input
  <2>5. pcbs' = [pcbs EXCEPT ![c] = new]
    BY <2>1
  <2> HIDE DEF new
  <2> QED BY <2>2, <2>3, <2>4, <2>5, PcbOnly, Zenon
<1>2. ASSUME NEW ls \in Fd, tcp_listen_input_NoMemory(ls) PROVE SocketInv'
  BY <1>2, Accepting, SocketAssumption, Zenon DEF tcp_listen_input_NoMemory
<1>3. ASSUME NEW c \in Pcb, tcp_process_ack(c) PROVE SocketInv'
  <2> DEFINE ls == pcbs[c].listener
  <2>1. pcbs[c].state = "syn"
    BY <1>3 DEF tcp_process_ack
  <2>2. pcbs[c].arg = None
    BY <2>1 DEF SocketInv, Handshakes
  <2>3. CASE pcbs' = [pcbs EXCEPT ![c] = FreePcb] /\ UNCHANGED <<sockets, alive>>
    <3>1. DOMAIN FreePcb = PcbFields
      BY DEF FreePcb, PcbFields
    <3> QED BY <2>2, <2>3, <3>1, Fields, PcbOnly, Zenon
  <2>4. CASE /\ Accepts(ls) /\ sock_accept_cb(ls, c)
             /\ pcbs' = [pcbs EXCEPT ![c].state = "open", ![c].listener = None,
                                     ![c].arg = First(FreeFds)]
    <3>1. ls \in Fd /\ sockets[ls].type = "LISTEN"
      BY <2>4 DEF Accepts, SocketInv, Handshakes
    <3> HIDE DEF ls
    <3> QED BY <2>1, <2>4, <3>1, Accepting, Zenon
  <2> QED BY <1>3, <2>3, <2>4 DEF tcp_process_ack
<1>4. ASSUME NEW c \in Pcb, NEW n \in Lens, sock_recv_cb(c, n) PROVE SocketInv'
  <2> DEFINE fd == pcbs[c].arg
  <2>1. fd \in Fd /\ UNCHANGED alive
    BY <1>4 DEF sock_recv_cb, SocketInv, Handshakes
  <2>2. \E e : sockets' = [sockets EXCEPT ![fd].ring = e]
    BY <1>4, ZenonT(30) DEF sock_recv_cb
  <2>3. \E m, w : pcbs' = [pcbs EXCEPT ![c].next = m, ![c].rcv_wnd = w]
    BY <1>4, Zenon DEF sock_recv_cb
  <2> HIDE DEF fd
  <2>4. SocketShape' /\ SameSockets
    BY <1>0, <2>1, <2>2, RingChange, Zenon
  <2>5. PcbShape' /\ SamePcbs
    BY <1>0, <2>3, WindowChange, Zenon
  <2> QED BY <2>1, <2>4, <2>5, Unaffected, ZenonT(30) DEF Shape
<1>5. ASSUME NEW c \in Pcb, sock_recv_cb_Fin(c) PROVE SocketInv'
  <2> DEFINE fd == pcbs[c].arg
  <2>1. fd \in Fd /\ UNCHANGED <<pcbs, alive>>
    BY <1>5 DEF sock_recv_cb_Fin, SocketInv, Handshakes
  <2>2. sockets' = [sockets EXCEPT ![fd].closed = TRUE]
    BY <1>5 DEF sock_recv_cb_Fin
  <2> HIDE DEF fd
  <2>3. SocketShape' /\ SameSockets
    BY <1>0, <2>1, <2>2, FinChange, Zenon
  <2>4. PcbShape' /\ SamePcbs
    BY <1>0, <2>1 DEF PcbShape, SamePcbs
  <2> QED BY <2>1, <2>3, <2>4, Unaffected DEF Shape
<1>6. ASSUME NEW c \in Pcb, sock_err_cb(c) PROVE SocketInv'
  <2>0. pcbs' = [pcbs EXCEPT ![c] = FreePcb] /\ UNCHANGED alive /\ DOMAIN FreePcb = PcbFields
    BY <1>6 DEF sock_err_cb, FreePcb, PcbFields
  <2>1. CASE pcbs[c].arg = None
    BY <1>6, <2>0, <2>1, Fields, PcbOnly, Zenon DEF sock_err_cb
  <2>2. CASE pcbs[c].arg # None
    <3> DEFINE fd == pcbs[c].arg
    <3>1. fd \in Fd
      BY <2>2 DEF SocketInv, Handshakes
    <3>2. sockets' = [sockets EXCEPT ![fd].closed = TRUE, ![fd].pcb = None]
      BY <1>6, <2>2 DEF sock_err_cb
    <3>3. \A k \in Fd : pcbs[c].arg = k <=> k = fd
      OBVIOUS
    <3> HIDE DEF fd
    <3>4. /\ SocketShape'
          /\ \A k \in Fd : /\ sockets'[k].in_use = sockets[k].in_use
                            /\ sockets'[k].type = sockets[k].type
                            /\ sockets'[k].owner_pid = sockets[k].owner_pid
          /\ sockets'[fd].pcb = None
          /\ \A k \in Fd \ {fd} : sockets'[k].pcb = sockets[k].pcb
      BY <1>0, <3>1, <3>2, ResetChange, Zenon
    <3>5. pcbs'[c] = FreePcb /\ \A k \in Pcb \ {c} : pcbs'[k] = pcbs[k]
      BY <1>0, <2>0 DEF PcbShape
    <3>6. Shape'
      BY <1>0, <2>0, <3>4, <3>5 DEF Shape, PcbShape
    <3>7. Used'
      BY <2>0, <3>4 DEF SocketInv, Used
    <3>8. Handshakes'
      BY <3>4, <3>5, Fields DEF SocketInv, Handshakes
    <3>9. CallbacksReachTheirSocket'
      BY <3>1, <3>3, <3>4, <3>5, Fields, FdIsNat, SocketAssumption
         DEF SocketInv, CallbacksReachTheirSocket
    <3> QED BY <3>6, <3>7, <3>8, <3>9 DEF SocketInv
  <2> QED BY <2>1, <2>2
<1> QED BY <1>1, <1>2, <1>3, <1>4, <1>5, <1>6 DEF Lwip

(* Sockets are closed: their slots are cleared and no pcb names them.      *)
LEMMA Closing ==
    ASSUME SocketInv, NEW fds \in SUBSET Fd, net_sock_close_internal(fds),
           \A fd \in Fd \ fds : sockets[fd].in_use => sockets[fd].owner_pid \in alive'
    PROVE  SocketInv'
<1>1. /\ \A fd \in fds : sockets'[fd] = Unused
      /\ \A fd \in Fd \ fds : sockets'[fd] = sockets[fd]
      /\ sockets' = [fd \in Fd |-> sockets'[fd]]
  BY DEF net_sock_close_internal
<1>2. PICK ends : pcbs' = [c \in Pcb |-> Detached(c, fds, ends)]
  BY DEF net_sock_close_internal
<1>3. None \notin fds
  BY FdIsNat, Zenon
<1>4. ASSUME NEW c \in Pcb
      PROVE  /\ DOMAIN pcbs'[c] = PcbFields
             /\ pcbs'[c].arg = IF pcbs[c].arg \in fds THEN None ELSE pcbs[c].arg
             /\ pcbs'[c].listener = pcbs[c].listener \/ pcbs'[c].listener = None
             /\ pcbs'[c].listener \notin fds
             /\ pcbs'[c].arg # None => pcbs'[c].state = pcbs[c].state
  <2>0. pcbs'[c] = Detached(c, fds, ends) /\ DOMAIN pcbs[c] = PcbFields
    BY <1>2 DEF SocketInv, Shape, PcbShape
  <2>1. CASE pcbs[c].listener \in fds
    <3>1. pcbs[c].arg = None
      BY <1>3, <2>1 DEF SocketInv, Handshakes
    <3>2. pcbs'[c] = [pcbs[c] EXCEPT !.listener = None]
      BY <2>0, <2>1 DEF Detached
    <3> QED BY <1>3, <2>0, <3>1, <3>2 DEF PcbFields
  <2>2. CASE pcbs[c].listener \notin fds /\ pcbs[c].arg \notin fds
    BY <2>0, <2>2 DEF Detached
  <2>3. CASE pcbs[c].listener \notin fds /\ pcbs[c].arg \in fds
    <3>1. pcbs'[c] = FreePcb \/ pcbs'[c] = [FreePcb EXCEPT !.state = "closing"]
      BY <2>0, <2>3 DEF Detached
    <3> QED BY <1>3, <2>3, <3>1 DEF FreePcb, PcbFields
  <2> QED BY <2>1, <2>2, <2>3
<1>5. Shape'
  <2>1. SocketShape'
    <3>1. DOMAIN Unused = SocketFields
      BY DEF Unused, SocketFields
    <3> QED BY <1>1, <3>1 DEF SocketInv, Shape, SocketShape
  <2>2. pcbs' = [c \in Pcb |-> pcbs'[c]]
    BY <1>2
  <2> QED BY <1>4, <2>1, <2>2 DEF Shape, PcbShape
<1>6. Used'
  BY <1>1, Fields DEF SocketInv, Used
<1>7. Handshakes'
  BY <1>1, <1>4 DEF SocketInv, Handshakes
<1>8. CallbacksReachTheirSocket'
  <2> SUFFICES ASSUME NEW c \in Pcb, NEW fd \in Fd
               PROVE  pcbs'[c].arg = fd <=> sockets'[fd].type = "STREAM" /\ sockets'[fd].pcb = c
    BY DEF CallbacksReachTheirSocket
  <2>1. CASE fd \in fds
    <3>1. sockets'[fd].type = "UNUSED"
      BY <1>1, <2>1, Fields
    <3>2. pcbs'[c].arg # fd
      BY <1>3, <1>4, <2>1
    <3> QED BY <3>1, <3>2
  <2>2. CASE fd \notin fds
    <3>1. pcbs'[c].arg = fd <=> pcbs[c].arg = fd
      BY <1>4, <2>2, FdIsNat
    <3> QED BY <1>1, <2>2, <3>1 DEF SocketInv, CallbacksReachTheirSocket
  <2> QED BY <2>1, <2>2
<1> QED BY <1>5, <1>6, <1>7, <1>8 DEF SocketInv

(* What closing a socket closes is in the table, and the socket is in it.  *)
LEMMA ChainInTable ==
    ASSUME NEW fd \in Fd, NEW p, NEW force
    PROVE  Chain(fd, p, force) \subseteq Fd /\ fd \in Chain(fd, p, force)
  BY DEF Chain

(* Every call and every callback keeps the invariant.                      *)
LEMMA SocketInvNext == SocketInv /\ [Next]_vars => SocketInv'
<1> SUFFICES ASSUME SocketInv, [Next]_vars PROVE SocketInv'
  OBVIOUS
<1>0. SocketShape /\ PcbShape
  BY DEF SocketInv, Shape
<1>1. CASE UNCHANGED vars
  <2>1. Shape' /\ SameSockets /\ SamePcbs
    BY <1>0, <1>1 DEF vars, Shape, SocketShape, PcbShape, SameSockets, SamePcbs
  <2> QED BY <1>1, <2>1, Unaffected DEF vars
<1>2. CASE Lwip
  BY <1>2, LwipStep
<1>3. ASSUME NEW p \in alive, net_sock_listen(p) PROVE SocketInv'
  <2> DEFINE fd == First(FreeFds)
  <2>1. fd \in Fd /\ ~sockets[fd].in_use /\ UNCHANGED <<pcbs, alive>>
    BY <1>3, FirstIn DEF net_sock_listen, FreeFds
  <2>2. sockets' = [sockets EXCEPT ![fd] = Taken("LISTEN", Listening, p)]
    BY <1>3 DEF net_sock_listen
  <2> HIDE DEF fd
  <2> DEFINE new == Taken("LISTEN", Listening, p)
  <2>3. DOMAIN new = SocketFields
    BY DEF Taken, SocketFields
  <2> HIDE DEF new
  <2>4. /\ sockets'[fd] = new /\ \A k \in Fd \ {fd} : sockets'[k] = sockets[k]
        /\ sockets' = [k \in Fd |-> sockets'[k]]
    BY <1>0, <2>1, <2>2 DEF SocketShape, new
  <2>5. Shape'
    BY <1>0, <2>1, <2>3, <2>4 DEF Shape, SocketShape, PcbShape
  <2>6. sockets'[fd] = Taken("LISTEN", Listening, p)
    BY <2>4 DEF new
  <2>7. OthersKept(fd)
    BY <2>4 DEF OthersKept
  <2> QED BY <2>1, <2>5, <2>6, <2>7, NewSocket, SocketAssumption
<1>4. ASSUME NEW p \in alive, NEW fd \in Fd, net_sock_accept(p, fd) PROVE SocketInv'
  <2>1. SocketShape' /\ SameSockets
    BY <1>0, <1>4, AcceptChange, Zenon DEF net_sock_accept
  <2>2. PcbShape' /\ SamePcbs /\ UNCHANGED alive
    BY <1>0, <1>4 DEF net_sock_accept, PcbShape, SamePcbs
  <2> QED BY <2>1, <2>2, Unaffected DEF Shape
<1>5. ASSUME NEW p \in alive, NEW fd \in Fd, NEW len \in Lens, net_sock_recv(p, fd, len)
      PROVE  SocketInv'
  <2>1. \E e : sockets' = [sockets EXCEPT ![fd].ring = e]
    BY <1>5, Zenon DEF net_sock_recv
  <2>2. SocketShape' /\ SameSockets
    BY <1>0, <2>1, RingChange, Zenon
  <2>3. PcbShape' /\ SamePcbs /\ UNCHANGED alive
    BY <1>0, <1>5 DEF net_sock_recv, PcbShape, SamePcbs
  <2> QED BY <2>2, <2>3, Unaffected DEF Shape
<1>6. ASSUME NEW p \in alive, NEW fd \in Fd, net_sock_close(p, fd) PROVE SocketInv'
  <2> DEFINE fds == Chain(fd, p, FALSE)
  <2>1. fds \in SUBSET Fd
    BY ChainInTable, Zenon
  <2>2. net_sock_close_internal(fds) /\ UNCHANGED alive
    BY <1>6, Zenon DEF net_sock_close
  <2> HIDE DEF fds
  <2> QED BY <2>1, <2>2, Closing DEF SocketInv, Used
<1>7. ASSUME NEW p \in alive, net_sock_close_all_for_pid(p) PROVE SocketInv'
  <2> DEFINE mine == {fd \in Fd : sockets[fd].in_use /\ sockets[fd].owner_pid = p}
             fds == UNION {Chain(fd, p, TRUE) : fd \in mine}
  <2>1. fds \in SUBSET Fd /\ mine \subseteq fds
    <3>1. \A fd \in mine : Chain(fd, p, TRUE) \subseteq Fd /\ fd \in Chain(fd, p, TRUE)
      BY ChainInTable, Zenon
    <3> QED BY <3>1, Zenon
  <2>2. net_sock_close_internal(fds) /\ alive' = alive \ {p}
    BY <1>7 DEF net_sock_close_all_for_pid
  <2>3. \A fd \in Fd \ fds : sockets[fd].in_use => sockets[fd].owner_pid \in alive'
    BY <2>1, <2>2, Zenon DEF SocketInv, Used
  <2> HIDE DEF fds
  <2> QED BY <2>1, <2>2, <2>3, Closing
<1> QED
  BY <1>1, <1>2, <1>3, <1>4, <1>5, <1>6, <1>7 DEF Next, Step

(* A callback of lwIP reaches the socket of its connection or none,        *)
(* through accepts, resets, closes, ends of tasks and reuse of slots and   *)
(* of pcbs.                                                                *)
THEOREM CallbacksStayApart == Spec => []CallbacksReachTheirSocket
<1>1. SocketInv => CallbacksReachTheirSocket
  BY DEF SocketInv
<1> QED BY SocketInvInit, SocketInvNext, <1>1, PTL DEF Spec

(* Every socket in use, one made for an unaccepted connection included,    *)
(* belongs to a task that has not ended.                                   *)
THEOREM SocketsEndWithTheirTask == Spec => []NoSocketOutlivesItsTask
<1>1. SocketInv => NoSocketOutlivesItsTask
  BY DEF SocketInv, Used, NoSocketOutlivesItsTask
<1> QED BY SocketInvInit, SocketInvNext, <1>1, PTL DEF Spec
-----------------------------------------------------------------------------
(* What a reader of socket fd has got or will find in its ring.            *)
Bytes(fd) == got[fd] \o sockets[fd].ring

(* The bytes b kept of the n that arrived, under a window of w: in order,  *)
(* and the window is short of those dropped.                               *)
Stored(b, n, w) ==
    /\ b \in Seq(Nat) /\ Len(b) <= n
    /\ \A i \in 1 .. Len(b) : b[i] <= n
    /\ \A i, j \in 1 .. Len(b) : i < j => b[i] < b[j]
    /\ TCP_WND - w = n - Len(b)

(* Rings stay within their array; a handshake has received nothing.        *)
DataTypes ==
    /\ got \in [Fd -> Seq(Nat)]
    /\ \A fd \in Fd : sockets[fd].ring \in Seq(Nat) /\ Len(sockets[fd].ring) < SOCK_RX_BUF
    /\ \A c \in Pcb :
          /\ pcbs[c].rcv_wnd \in Nat /\ pcbs[c].next \in Nat
          /\ pcbs[c].state = "syn" => pcbs[c].next = 0 /\ pcbs[c].rcv_wnd = TCP_WND

Streams ==
    \A c \in Pcb : pcbs[c].arg # None =>
       Stored(Bytes(pcbs[c].arg), pcbs[c].next, pcbs[c].rcv_wnd)

StreamInv == DataTypes /\ Streams

(* The sizes of net.c and lwipopts.h.                                      *)
LEMMA Sizes ==
    /\ SOCK_RX_BUF \in Nat /\ SOCK_RX_BUF > 0 /\ TCP_WND \in Nat
    /\ \A len \in Lens : len \in Nat
  BY SocketAssumption

(* Concatenation of three byte sequences.                                  *)
LEMMA Joined ==
    ASSUME NEW a \in Seq(Nat), NEW b \in Seq(Nat), NEW c \in Seq(Nat)
    PROVE  (a \o b) \o c = a \o (b \o c) /\ a \o b \in Seq(Nat)
  OBVIOUS

(* Sequences with the same elements are the same sequence.                 *)
LEMMA SameSequence ==
    ASSUME NEW S, NEW a \in Seq(S), NEW b \in Seq(S), Len(a) = Len(b),
           \A i \in 1 .. Len(a) : a[i] = b[i]
    PROVE  a = b
OBVIOUS

(* The elements of a concatenation.                                        *)
LEMMA Concatenated ==
    ASSUME NEW a \in Seq(Nat), NEW b \in Seq(Nat)
    PROVE  /\ a \o b \in Seq(Nat) /\ Len(a \o b) = Len(a) + Len(b)
           /\ \A i \in 1 .. Len(a) + Len(b) :
                 (a \o b)[i] = IF i <= Len(a) THEN a[i] ELSE b[i - Len(a)]
  OBVIOUS

(* Taking n elements off the front of a sequence loses none of them.       *)
LEMMA TakeFront ==
    ASSUME NEW q \in Seq(Nat), NEW n \in 0 .. Len(q)
    PROVE  /\ SubSeq(q, 1, n) \in Seq(Nat) /\ SubSeq(q, n + 1, Len(q)) \in Seq(Nat)
           /\ SubSeq(q, 1, n) \o SubSeq(q, n + 1, Len(q)) = q
<1>1. PICK a, b : a = SubSeq(q, 1, n) /\ b = SubSeq(q, n + 1, Len(q))
  BY Zenon
<1>2. Len(q) \in Nat /\ \A i \in 1 .. Len(q) : q[i] \in Nat
  OBVIOUS
<1>3. a \in Seq(Nat) /\ Len(a) = n /\ \A i \in 1 .. n : a[i] = q[i]
  BY <1>1, <1>2
<1>4. b \in Seq(Nat) /\ Len(b) = Len(q) - n /\ \A i \in 1 .. Len(q) - n : b[i] = q[n + i]
  BY <1>1, <1>2
<1>5. /\ a \o b \in Seq(Nat) /\ Len(a \o b) = Len(q)
      /\ \A i \in 1 .. Len(q) : (a \o b)[i] = IF i <= n THEN a[i] ELSE b[i - n]
  <2>1. Len(a) + Len(b) = Len(q)
    BY <1>2, <1>3, <1>4
  <2>2. /\ a \o b \in Seq(Nat) /\ Len(a \o b) = Len(a) + Len(b)
        /\ \A i \in 1 .. Len(a) + Len(b) :
              (a \o b)[i] = IF i <= Len(a) THEN a[i] ELSE b[i - Len(a)]
    BY <1>3, <1>4, Concatenated, Zenon
  <2>3. PICK k : k = Len(a)
    BY Zenon
  <2>4. k = n
    BY <1>3, <2>3, Zenon
  <2>5. \A i \in 1 .. Len(q) : (a \o b)[i] = IF i <= k THEN a[i] ELSE b[i - k]
    BY <2>1, <2>2, <2>3, Zenon
  <2> QED BY <2>1, <2>2, <2>4, <2>5, Zenon
<1>6. ASSUME NEW i \in 1 .. Len(q) PROVE (a \o b)[i] = q[i]
  <2>1. CASE i <= n
    <3>1. i \in 1 .. n
      BY <1>2, <2>1
    <3> QED BY <1>3, <1>5, <2>1, <3>1, Zenon
  <2>2. CASE ~(i <= n)
    <3>1. i - n \in 1 .. Len(q) - n /\ n + (i - n) = i
      BY <1>2, <2>2
    <3> QED BY <1>4, <1>5, <2>2, <3>1, Zenon
  <2> QED BY <2>1, <2>2, Zenon
<1>7. a \o b = q
  BY <1>5, <1>6, SameSequence, Zenon
<1> QED BY <1>1, <1>3, <1>4, <1>7, Zenon

(* A connection that has received nothing.                                 *)
LEMMA NoneStored ==
    ASSUME NEW e \in Seq(Nat), Len(e) = 0
    PROVE  Stored(e, 0, TCP_WND)
  BY Sizes DEF Stored

(* The same of the empty sequence, which alloc_socket leaves.              *)
LEMMA NothingStored == Stored(<<>>, 0, TCP_WND) /\ <<>> \o <<>> = <<>>
<1>1. <<>> \in Seq(Nat) /\ Len(<<>>) = 0
  OBVIOUS
<1>2. <<>> \o <<>> = <<>>
  BY <1>1
<1> QED BY <1>1, <1>2, NoneStored, Zenon

(* m of the len bytes after the first n are stored; the window shrinks by  *)
(* len and reopens by m.                                                   *)
LEMMA StoredMore ==
    ASSUME NEW b, NEW n \in Nat, NEW w \in Nat, Stored(b, n, w),
           NEW len \in Nat, NEW m \in 0 .. len, len <= w
    PROVE  LET d == [k \in 1 .. m |-> n + k] IN
           /\ d \in Seq(Nat) /\ Len(d) = m
           /\ Lesser(TCP_WND, (w - len) + m) = (w - len) + m
           /\ Stored(b \o d, n + len, (w - len) + m)
<1> DEFINE d == [k \in 1 .. m |-> n + k]
           l == Len(b)
           r == b \o d
<1>1. d \in [1 .. m -> Nat] /\ \A k \in 1 .. m : d[k] = n + k
  OBVIOUS
<1>2. d \in Seq(Nat) /\ Len(d) = m
  <2> HIDE DEF d
  <2>1. d \in Seq(Nat)
    BY <1>1
  <2>2. DOMAIN d = 1 .. m
    BY <1>1
  <2> QED BY <2>1, <2>2
<1> HIDE DEF d
<1>3. /\ b \in Seq(Nat) /\ l \in Nat /\ l <= n /\ TCP_WND - w = n - l
      /\ \A i \in 1 .. l : b[i] <= n /\ b[i] \in Nat
      /\ \A i, j \in 1 .. l : i < j => b[i] < b[j]
  BY DEF Stored
<1>4. /\ r \in Seq(Nat) /\ Len(r) = l + m
      /\ \A i \in 1 .. l + m : r[i] = IF i <= l THEN b[i] ELSE d[i - l]
  <2>1. PICK e \in Seq(Nat) : e = d /\ Len(e) = m
    BY <1>2, Zenon
  <2>2. /\ b \o e \in Seq(Nat) /\ Len(b \o e) = Len(b) + Len(e)
        /\ \A i \in 1 .. Len(b) + Len(e) : (b \o e)[i] = IF i <= Len(b) THEN b[i] ELSE e[i - Len(b)]
    BY <1>3, Concatenated, Zenon
  <2> QED BY <2>1, <2>2, Zenon
<1> HIDE DEF l, r
<1>5. \A i \in 1 .. l + m : r[i] = IF i <= l THEN b[i] ELSE n + (i - l)
  BY <1>1, <1>3, <1>4
<1>6. \A i \in 1 .. l + m : r[i] <= n + len
  BY <1>3, <1>5
<1>7. \A i, j \in 1 .. l + m : i < j => r[i] < r[j]
  <2>1. SUFFICES ASSUME NEW i \in 1 .. l + m, NEW j \in 1 .. l + m, i < j
                 PROVE  r[i] < r[j]
    OBVIOUS
  <2>2. r[i] = IF i <= l THEN b[i] ELSE n + (i - l)
    BY <1>5
  <2>3. r[j] = IF j <= l THEN b[j] ELSE n + (j - l)
    BY <1>5
  <2> QED BY <1>3, <2>1, <2>2, <2>3
<1>8. (w - len) + m <= TCP_WND /\ TCP_WND - ((w - len) + m) = (n + len) - (l + m)
  BY <1>3, Sizes
<1>9. Stored(r, n + len, (w - len) + m)
  BY <1>3, <1>4, <1>6, <1>7, <1>8 DEF Stored
<1> QED BY <1>2, <1>8, <1>9, Sizes DEF d, r, Lesser

(* A step that clears the sockets fds treats pcb c like this: it stays as  *)
(* it is on another socket, or starts afresh.                              *)
DataKept(c, fds) ==
    \/ /\ pcbs'[c].arg = pcbs[c].arg /\ pcbs[c].arg \notin fds
       /\ pcbs'[c].next = pcbs[c].next /\ pcbs'[c].rcv_wnd = pcbs[c].rcv_wnd
       /\ pcbs'[c].state = "syn" => pcbs[c].state = "syn"
    \/ /\ pcbs'[c].arg \in fds \cup {None}
       /\ pcbs'[c].next = 0 /\ pcbs'[c].rcv_wnd = TCP_WND

RingsKept(fds) ==
    /\ got' = [k \in Fd |-> IF k \in fds THEN <<>> ELSE got[k]]
    /\ \A k \in Fd : sockets'[k].ring = IF k \in fds THEN <<>> ELSE sockets[k].ring

(* Such a step keeps every stream.                                         *)
LEMMA StreamsKept ==
    ASSUME SocketInv, StreamInv, NEW fds \in SUBSET Fd, RingsKept(fds),
           \A c \in Pcb : DataKept(c, fds)
    PROVE  StreamInv'
<1>1. <<>> \in Seq(Nat) /\ Len(<<>>) = 0
  OBVIOUS
<1>2. DataTypes'
  <2>1. got' \in [Fd -> Seq(Nat)]
    BY <1>1 DEF StreamInv, DataTypes, RingsKept
  <2>2. \A fd \in Fd : sockets'[fd].ring \in Seq(Nat) /\ Len(sockets'[fd].ring) < SOCK_RX_BUF
    <3>1. PICK e \in Seq(Nat) : e = <<>> /\ Len(e) < SOCK_RX_BUF
      BY <1>1, Sizes, Zenon
    <3>2. \A fd \in Fd : sockets'[fd].ring = e \/ sockets'[fd].ring = sockets[fd].ring
      BY <3>1 DEF RingsKept
    <3> QED BY <3>1, <3>2, Zenon DEF StreamInv, DataTypes
  <2>3. \A c \in Pcb :
          /\ pcbs'[c].rcv_wnd \in Nat /\ pcbs'[c].next \in Nat
          /\ pcbs'[c].state = "syn" => pcbs'[c].next = 0 /\ pcbs'[c].rcv_wnd = TCP_WND
    BY Sizes DEF StreamInv, DataTypes, DataKept
  <2> QED BY <2>1, <2>2, <2>3 DEF DataTypes
<1>3. ASSUME NEW c \in Pcb, pcbs'[c].arg # None
      PROVE  Stored(Bytes(pcbs[c].arg)', pcbs'[c].next, pcbs'[c].rcv_wnd)
  <2>1. CASE /\ pcbs'[c].arg = pcbs[c].arg /\ pcbs[c].arg \notin fds
             /\ pcbs'[c].next = pcbs[c].next /\ pcbs'[c].rcv_wnd = pcbs[c].rcv_wnd
    <3>1. PICK fd \in Fd : fd = pcbs[c].arg
      BY <1>3, <2>1 DEF SocketInv, Handshakes
    <3>2. got'[fd] = got[fd] /\ sockets'[fd].ring = sockets[fd].ring
      BY <2>1, <3>1 DEF RingsKept
    <3>3. Stored(Bytes(fd), pcbs[c].next, pcbs[c].rcv_wnd)
      BY <1>3, <2>1, <3>1 DEF StreamInv, Streams
    <3> QED BY <2>1, <3>1, <3>2, <3>3 DEF Bytes
  <2>2. CASE /\ pcbs'[c].arg \in fds
             /\ pcbs'[c].next = 0 /\ pcbs'[c].rcv_wnd = TCP_WND
    <3>1. PICK fd \in fds : fd = pcbs'[c].arg
      BY <2>2
    <3>2. got'[fd] = <<>> /\ sockets'[fd].ring = <<>>
      BY <3>1 DEF RingsKept
    <3> QED BY <2>2, <3>1, <3>2, NothingStored DEF Bytes
  <2> QED BY <1>3, <2>1, <2>2 DEF DataKept
<1> QED BY <1>2, <1>3 DEF StreamInv, Streams

(* No pcb has a free slot as its argument.                                 *)
LEMMA FreeSlotUnused ==
    ASSUME SocketInv, NEW fd \in Fd, ~sockets[fd].in_use
    PROVE  \A c \in Pcb : pcbs[c].arg \notin {fd}
  BY DEF SocketInv, Used, CallbacksReachTheirSocket

(* A slot is taken, by a listener or by the accept callback.               *)
LEMMA RingTaken ==
    ASSUME NEW fd \in Fd, sockets'[fd].ring = <<>>,
           \A k \in Fd \ {fd} : sockets'[k].ring = sockets[k].ring,
           \A k \in Fd : got'[k] = IF k = fd THEN <<>> ELSE got[k],
           got' = [k \in Fd |-> got'[k]]
    PROVE  RingsKept({fd})
  BY DEF RingsKept

(* A step that touches neither the rings nor what was received.            *)
LEMMA NoRing ==
    ASSUME got \in [Fd -> Seq(Nat)], UNCHANGED got,
           \A k \in Fd : sockets'[k].ring = sockets[k].ring
    PROVE  RingsKept({})
  BY DEF RingsKept

(* The accept callback.                                                    *)
LEMMA AcceptingStream ==
    ASSUME SocketInv, StreamInv, NEW ls \in Fd, sockets[ls].type = "LISTEN", Accepts(ls),
           NEW pcb, sock_accept_cb(ls, pcb),
           \/ UNCHANGED pcbs
           \/ /\ pcb \in Pcb /\ pcbs[pcb].state = "syn"
              /\ pcbs' = [pcbs EXCEPT ![pcb].state = "open", ![pcb].listener = None,
                                      ![pcb].arg = First(FreeFds)]
    PROVE  StreamInv'
<1>1. PICK fd \in Fd : fd = First(FreeFds) /\ ~sockets[fd].in_use
  <2>1. FreeFds \in SUBSET Fd /\ FreeFds # {}
    BY DEF Accepts, FreeFds
  <2>2. First(FreeFds) \in FreeFds
    BY <2>1, FirstIn
  <2> QED BY <2>2, Zenon DEF FreeFds
<1>2. PICK owner : owner = sockets[ls].owner_pid
  OBVIOUS
<1>3. fd # ls
  BY <1>1 DEF SocketInv, Used
<1>4. sockets' = [sockets EXCEPT ![fd] = Taken("STREAM", pcb, owner), ![ls].accepted_fd = fd]
  BY <1>1, <1>2 DEF sock_accept_cb, ChildOwner
<1>5. SocketShape /\ PcbShape /\ got \in [Fd -> Seq(Nat)]
  BY DEF SocketInv, Shape, StreamInv, DataTypes
<1>6. RingsKept({fd})
  <2> DEFINE new == Taken("STREAM", pcb, owner)
  <2>1. sockets' = [sockets EXCEPT ![fd] = new, ![ls].accepted_fd = fd]
    BY <1>4
  <2> HIDE DEF new
  <2>2. /\ sockets'[fd] = new
        /\ \A k \in Fd \ {fd} : sockets'[k].ring = sockets[k].ring
    BY <1>3, <1>5, <2>1 DEF SocketShape, SocketFields
  <2>3. got' = [got EXCEPT ![fd] = <<>>]
    BY <1>1 DEF sock_accept_cb
  <2>4. sockets'[fd].ring = <<>>
    BY <2>2 DEF new, Taken
  <2>5. /\ got' = [k \in Fd |-> got'[k]]
        /\ \A k \in Fd : got'[k] = IF k = fd THEN <<>> ELSE got[k]
    BY <1>5, <2>3, Zenon
  <2> QED BY <2>2, <2>4, <2>5, RingTaken
<1>7. \A c \in Pcb : DataKept(c, {fd})
  <2>1. \A c \in Pcb : pcbs[c].arg \notin {fd}
    BY <1>1, FreeSlotUnused
  <2>2. CASE UNCHANGED pcbs
    BY <2>1, <2>2 DEF DataKept
  <2>3. CASE /\ pcb \in Pcb /\ pcbs[pcb].state = "syn"
             /\ pcbs' = [pcbs EXCEPT ![pcb].state = "open", ![pcb].listener = None,
                                     ![pcb].arg = fd]
    <3>1. /\ pcbs'[pcb].arg = fd /\ pcbs'[pcb].next = pcbs[pcb].next
          /\ pcbs'[pcb].rcv_wnd = pcbs[pcb].rcv_wnd
          /\ \A k \in Pcb \ {pcb} : pcbs'[k] = pcbs[k]
      BY <1>5, <2>3 DEF PcbShape, PcbFields
    <3>2. pcbs[pcb].next = 0 /\ pcbs[pcb].rcv_wnd = TCP_WND
      BY <2>3 DEF StreamInv, DataTypes
    <3> QED BY <2>1, <3>1, <3>2 DEF DataKept
  <2> QED BY <1>1, <2>2, <2>3, Zenon
<1> QED BY <1>6, <1>7, StreamsKept

(* A segment: the ring takes what it has room for and the window follows.  *)
LEMMA ReceivingStream ==
    ASSUME SocketInv, StreamInv, NEW c \in Pcb, NEW len \in Lens, sock_recv_cb(c, len)
    PROVE  StreamInv'
<1>1. PICK fd \in Fd, n \in Nat, w \in Nat :
         fd = pcbs[c].arg /\ n = pcbs[c].next /\ w = pcbs[c].rcv_wnd /\ pcbs[c].state = "open"
  BY Zenon DEF sock_recv_cb, SocketInv, Handshakes, StreamInv, DataTypes
<1>2. PICK g \in Seq(Nat), r \in Seq(Nat) :
         g = got[fd] /\ r = sockets[fd].ring /\ Len(r) < SOCK_RX_BUF /\ Len(r) \in Nat
  BY DEF StreamInv, DataTypes
<1>3. Stored(g \o r, n, w)
  BY <1>1, <1>2, FdIsNat DEF StreamInv, Streams, Bytes
<1>4. PICK m : m = Pushed(len, r)
  OBVIOUS
<1>5. len \in Nat /\ m \in 0 .. len /\ Len(r) + m < SOCK_RX_BUF
  <2>1. PICK l \in Nat : l = Len(r) /\ l < SOCK_RX_BUF
    BY <1>2, Zenon
  <2>2. m = Lesser(len, (SOCK_RX_BUF - 1) - l)
    BY <1>4, <2>1 DEF Pushed
  <2>3. len \in Nat /\ m \in 0 .. len /\ l + m < SOCK_RX_BUF
    BY <2>1, <2>2, Sizes DEF Lesser
  <2> QED BY <2>1, <2>3
<1>6. PICK d : d = [k \in 1 .. m |-> n + k]
  BY ZenonT(30)
<1>7. /\ len <= w /\ UNCHANGED got
      /\ sockets' = [sockets EXCEPT ![fd].ring = r \o d]
      /\ pcbs' = [pcbs EXCEPT ![c].next = n + len,
                              ![c].rcv_wnd = Lesser(TCP_WND, (w - len) + m)]
  <2>1. Pushed(len, sockets[pcbs[c].arg].ring) = m
    BY <1>1, <1>2, <1>4, ZenonT(30)
  <2>2. /\ len <= pcbs[c].rcv_wnd /\ UNCHANGED got
        /\ sockets' = [sockets EXCEPT ![pcbs[c].arg].ring =
              @ \o [k \in 1 .. Pushed(len, sockets[pcbs[c].arg].ring) |-> pcbs[c].next + k]]
        /\ pcbs' = [pcbs EXCEPT ![c].next = @ + len,
              ![c].rcv_wnd = Lesser(TCP_WND, (pcbs[c].rcv_wnd - len)
                                             + Pushed(len, sockets[pcbs[c].arg].ring))]
    BY DEF sock_recv_cb, Recved
  <2>3. SocketShape /\ PcbShape
    BY Zenon DEF SocketInv, Shape
  <2>4. sockets' = [sockets EXCEPT ![fd].ring = sockets[fd].ring \o d]
    BY <1>1, <1>6, <2>1, <2>2
  <2> QED BY <1>1, <1>2, <2>1, <2>2, <2>4, Zenon
<1>8. /\ d \in Seq(Nat) /\ Len(d) = m
      /\ Lesser(TCP_WND, (w - len) + m) = (w - len) + m
      /\ Stored((g \o r) \o d, n + len, (w - len) + m)
  BY <1>3, <1>5, <1>6, <1>7, StoredMore
<1>9. /\ r \o d \in Seq(Nat) /\ Len(r \o d) < SOCK_RX_BUF /\ (g \o r) \o d = g \o (r \o d)
  <2>1. d \in Seq(Nat)
    BY <1>8
  <2>2. r \o d \in Seq(Nat) /\ Len(r \o d) = Len(r) + Len(d)
    BY <2>1
  <2>3. (g \o r) \o d = g \o (r \o d)
    BY <2>1, Joined, ZenonT(30)
  <2> QED BY <1>5, <1>8, <2>2, <2>3
<1>10. PICK x \in Nat : x = (w - len) + m
  BY <1>5, <1>7
<1>11. /\ sockets'[fd].ring = r \o d
       /\ \A k \in Fd \ {fd} : sockets'[k].ring = sockets[k].ring
  BY <1>7 DEF SocketInv, Shape, SocketShape, SocketFields
<1>12. /\ pcbs'[c].next = n + len /\ pcbs'[c].rcv_wnd = x
       /\ pcbs'[c].arg = fd /\ pcbs'[c].state = "open"
       /\ \A k \in Pcb \ {c} : pcbs'[k] = pcbs[k]
  BY <1>1, <1>7, <1>8, <1>10, Zenon DEF SocketInv, Shape, PcbShape, PcbFields
<1>13. DataTypes'
  <2>1. got' \in [Fd -> Seq(Nat)]
    BY <1>7 DEF StreamInv, DataTypes
  <2>2. \A k \in Fd : sockets'[k].ring \in Seq(Nat) /\ Len(sockets'[k].ring) < SOCK_RX_BUF
    BY <1>9, <1>11, Zenon DEF StreamInv, DataTypes
  <2>3. n + len \in Nat /\ x \in Nat
    BY <1>5
  <2>4. \A k \in Pcb :
          /\ pcbs'[k].rcv_wnd \in Nat /\ pcbs'[k].next \in Nat
          /\ pcbs'[k].state = "syn" => pcbs'[k].next = 0 /\ pcbs'[k].rcv_wnd = TCP_WND
    BY <1>12, <2>3, Zenon DEF StreamInv, DataTypes
  <2> QED BY <2>1, <2>2, <2>4 DEF DataTypes
<1>14. ASSUME NEW k \in Pcb, pcbs'[k].arg # None
       PROVE  Stored(Bytes(pcbs[k].arg)', pcbs'[k].next, pcbs'[k].rcv_wnd)
  <2>1. CASE k = c
    <3>1. Bytes(fd)' = (g \o r) \o d
      BY <1>2, <1>7, <1>9, <1>11, Zenon DEF Bytes
    <3> QED BY <1>8, <1>10, <1>12, <2>1, <3>1, Zenon
  <2>2. CASE k # c
    <3>1. PICK f \in Fd : f = pcbs[k].arg /\ f = pcbs'[k].arg
      BY <1>12, <1>14, <2>2 DEF SocketInv, Handshakes
    <3>2. sockets[fd].pcb = c /\ sockets[f].pcb = k
      BY <1>1, <3>1, Zenon DEF SocketInv, CallbacksReachTheirSocket
    <3>5. f # fd
      BY <2>2, <3>2
    <3>3. Stored(Bytes(f), pcbs[k].next, pcbs[k].rcv_wnd)
      BY <3>1, FdIsNat, Zenon DEF StreamInv, Streams
    <3>4. Bytes(f)' = Bytes(f)
      BY <1>7, <1>11, <3>5, Zenon DEF Bytes
    <3> QED BY <1>12, <2>2, <3>1, <3>3, <3>4, Zenon
  <2> QED BY <2>1, <2>2
<1> QED BY <1>13, <1>14, ZenonT(30) DEF StreamInv, Streams

(* A recv moves bytes from the ring to its caller.                         *)
LEMMA RecvStream ==
    ASSUME SocketInv, StreamInv, NEW p, NEW fd \in Fd, NEW len \in Lens,
           net_sock_recv(p, fd, len)
    PROVE  StreamInv'
<1>1. PICK g \in Seq(Nat), r \in Seq(Nat) :
         g = got[fd] /\ r = sockets[fd].ring /\ Len(r) < SOCK_RX_BUF /\ Len(r) \in Nat
  BY DEF StreamInv, DataTypes
<1>2. PICK n : n = Lesser(len, Len(r))
  OBVIOUS
<1>3. n \in 0 .. Len(r)
  BY <1>1, <1>2, Sizes DEF Lesser
<1>4. PICK f, e : f = SubSeq(r, 1, n) /\ e = SubSeq(r, n + 1, Len(r))
  BY ZenonT(30)
<1>5. f \in Seq(Nat) /\ e \in Seq(Nat) /\ f \o e = r /\ Len(e) <= Len(r) /\ (g \o f) \o e = g \o r
         /\ g \o f \in Seq(Nat)
  <2>1. \A i \in 1 .. Len(r) : r[i] \in Nat
    BY <1>1
  <2>2. /\ \A i \in 1 .. n : r[i] \in Nat
        /\ \A i \in n + 1 .. Len(r) : r[i] \in Nat
        /\ n \in Int /\ 1 \in Int /\ Len(r) \in Int /\ n + 1 \in Int
    BY <1>1, <1>3, <2>1
  <2>3. f \in Seq(Nat)
    BY <1>4, <2>2
  <2>4. e \in Seq(Nat) /\ Len(e) = IF n + 1 <= Len(r) THEN (Len(r) - (n + 1)) + 1 ELSE 0
    BY <1>4, <2>2
  <2>5. n \in 0 .. Len(r)
    BY <1>1, <1>3
  <2>6. f \o e = r
    BY <1>4, <2>5, TakeFront, Zenon
  <2>7. (g \o f) \o e = g \o (f \o e)
    <3>1. f \in Seq(Nat) /\ e \in Seq(Nat)
      BY <2>3, <2>4
    <3> QED BY <3>1, Joined, ZenonT(30)
  <2>8. g \o f \in Seq(Nat)
    BY <2>3
  <2>9. Len(e) <= Len(r)
    <3>1. PICK l \in Nat : l = Len(r)
      BY <1>1
    <3> QED BY <1>3, <2>4, <3>1
  <2> QED BY <2>3, <2>4, <2>5, <2>6, <2>7, <2>8, <2>9, Zenon
<1>6. /\ sockets' = [sockets EXCEPT ![fd].ring = e] /\ got' = [got EXCEPT ![fd] = g \o f]
      /\ UNCHANGED pcbs
  BY <1>1, <1>2, <1>4 DEF net_sock_recv
<1>7. /\ sockets'[fd].ring = e
      /\ \A k \in Fd \ {fd} : sockets'[k].ring = sockets[k].ring
  BY <1>6 DEF SocketInv, Shape, SocketShape, SocketFields
<1>8. /\ got'[fd] = g \o f /\ \A k \in Fd \ {fd} : got'[k] = got[k]
      /\ got' \in [Fd -> Seq(Nat)]
  BY <1>5, <1>6 DEF StreamInv, DataTypes
<1>9. \A k \in Fd : Bytes(k)' = Bytes(k)
  BY <1>1, <1>5, <1>7, <1>8, Zenon DEF Bytes
<1>10. DataTypes'
  <2>1. \A k \in Fd : sockets'[k].ring \in Seq(Nat) /\ Len(sockets'[k].ring) < SOCK_RX_BUF
    <3>1. Len(e) < SOCK_RX_BUF
      <4>1. Len(e) \in Nat
        BY <1>5
      <4> QED BY <1>1, <1>5, <4>1, Sizes
    <3> QED BY <1>5, <1>7, <3>1, Zenon DEF StreamInv, DataTypes
  <2> QED BY <1>6, <1>8, <2>1 DEF StreamInv, DataTypes
<1>11. Streams'
  <2> SUFFICES ASSUME NEW c \in Pcb, pcbs[c].arg # None
               PROVE  Stored(Bytes(pcbs[c].arg)', pcbs[c].next, pcbs[c].rcv_wnd)
    BY <1>6 DEF Streams
  <2>1. PICK k \in Fd : k = pcbs[c].arg
    BY DEF SocketInv, Handshakes
  <2>2. Stored(Bytes(k), pcbs[c].next, pcbs[c].rcv_wnd)
    BY <2>1, FdIsNat DEF StreamInv, Streams
  <2> QED BY <1>6, <1>9, <2>1, <2>2
<1> QED BY <1>10, <1>11 DEF StreamInv

(* Closing sockets.                                                        *)
LEMMA ClosingStream ==
    ASSUME SocketInv, StreamInv, NEW fds \in SUBSET Fd, net_sock_close_internal(fds)
    PROVE  StreamInv'
<1>1. PICK ends : pcbs' = [c \in Pcb |-> Detached(c, fds, ends)]
  BY DEF net_sock_close_internal
<1>2. None \notin fds
  BY FdIsNat, Zenon
<1>3. RingsKept(fds)
  <2>1. Unused.ring = <<>>
    BY DEF Unused
  <2> QED BY <2>1 DEF net_sock_close_internal, RingsKept
<1>4. ASSUME NEW c \in Pcb PROVE DataKept(c, fds)
  <2>0. pcbs'[c] = Detached(c, fds, ends) /\ DOMAIN pcbs[c] = PcbFields
    BY <1>1, Zenon DEF SocketInv, Shape, PcbShape
  <2>1. CASE pcbs[c].listener \in fds
    <3>1. pcbs[c].arg = None
      BY <1>2, <2>1 DEF SocketInv, Handshakes
    <3>2. pcbs'[c] = [pcbs[c] EXCEPT !.listener = None]
      BY <2>0, <2>1 DEF Detached
    <3>3. /\ pcbs'[c].arg = pcbs[c].arg /\ pcbs'[c].next = pcbs[c].next
          /\ pcbs'[c].rcv_wnd = pcbs[c].rcv_wnd /\ pcbs'[c].state = pcbs[c].state
      BY <2>0, <3>2 DEF PcbFields
    <3> QED BY <1>2, <3>1, <3>3 DEF DataKept
  <2>2. CASE pcbs[c].listener \notin fds /\ pcbs[c].arg \notin fds
    <3>1. pcbs'[c] = pcbs[c]
      BY <2>0, <2>2 DEF Detached
    <3> QED BY <2>2, <3>1 DEF DataKept
  <2>3. CASE pcbs[c].listener \notin fds /\ pcbs[c].arg \in fds
    <3>1. pcbs'[c] = FreePcb \/ pcbs'[c] = [FreePcb EXCEPT !.state = "closing"]
      BY <2>0, <2>3 DEF Detached
    <3>2. pcbs'[c].arg = None /\ pcbs'[c].next = 0 /\ pcbs'[c].rcv_wnd = TCP_WND
      BY <3>1 DEF FreePcb
    <3> QED BY <3>2 DEF DataKept
  <2> QED BY <2>1, <2>2, <2>3
<1> QED BY <1>3, <1>4, StreamsKept

(* Every call and every callback keeps the streams.                        *)
LEMMA StreamInvNext == SocketInv /\ StreamInv /\ [Next]_vars => StreamInv'
<1> SUFFICES ASSUME SocketInv, StreamInv, [Next]_vars PROVE StreamInv'
  OBVIOUS
<1>0. SocketShape /\ PcbShape /\ got \in [Fd -> Seq(Nat)]
  BY DEF SocketInv, Shape, StreamInv, DataTypes
<1>f. FreePcb.arg = None /\ FreePcb.next = 0 /\ FreePcb.rcv_wnd = TCP_WND
  BY DEF FreePcb
<1>e. {} \in SUBSET Fd
  OBVIOUS
<1>s. ASSUME UNCHANGED <<pcbs, got>>, \A k \in Fd : sockets'[k].ring = sockets[k].ring
      PROVE  StreamInv'
  <2>1. \A c \in Pcb : DataKept(c, {})
    BY <1>s DEF DataKept
  <2>2. RingsKept({})
    BY <1>0, <1>s, NoRing
  <2> QED BY <1>e, <2>1, <2>2, StreamsKept
<1>p. ASSUME UNCHANGED got, \A k \in Fd : sockets'[k].ring = sockets[k].ring,
             NEW c \in Pcb, NEW new, pcbs' = [pcbs EXCEPT ![c] = new],
             new.arg = None, new.next = 0, new.rcv_wnd = TCP_WND
      PROVE  StreamInv'
  <2>1. \A k \in Pcb : DataKept(k, {})
    <3>1. pcbs'[c] = new /\ \A k \in Pcb \ {c} : pcbs'[k] = pcbs[k]
      BY <1>0, <1>p DEF PcbShape
    <3> QED BY <1>p, <3>1 DEF DataKept
  <2>2. RingsKept({})
    BY <1>0, <1>p, NoRing
  <2> QED BY <1>e, <2>1, <2>2, StreamsKept
<1>1. CASE UNCHANGED vars
  BY <1>1, <1>s DEF vars
<1>2. ASSUME NEW ls \in Fd, tcp_listen_input(ls) PROVE StreamInv'
  <2>1. PICK c \in Pcb : pcbs' = [pcbs EXCEPT ![c] = [FreePcb EXCEPT !.state = "syn",
                                                                    !.listener = ls]]
    BY <1>2, Zenon DEF tcp_listen_input
  <2> DEFINE new == [FreePcb EXCEPT !.state = "syn", !.listener = ls]
  <2>2. new.arg = None /\ new.next = 0 /\ new.rcv_wnd = TCP_WND
    BY DEF FreePcb
  <2>3. pcbs' = [pcbs EXCEPT ![c] = new] /\ UNCHANGED <<sockets, got>>
    BY <1>2, <2>1, Zenon DEF tcp_listen_input
  <2> HIDE DEF new
  <2> QED BY <1>p, <2>2, <2>3, Zenon
<1>3. ASSUME NEW ls \in Fd, tcp_listen_input_NoMemory(ls) PROVE StreamInv'
  BY <1>3, AcceptingStream DEF tcp_listen_input_NoMemory
<1>4. ASSUME NEW c \in Pcb, tcp_process_ack(c) PROVE StreamInv'
  <2> DEFINE ls == pcbs[c].listener
  <2>1. pcbs[c].state = "syn"
    BY <1>4 DEF tcp_process_ack
  <2>2. CASE pcbs' = [pcbs EXCEPT ![c] = FreePcb] /\ UNCHANGED <<sockets, got>>
    BY <1>f, <1>p, <2>2, Zenon
  <2>3. CASE /\ Accepts(ls) /\ sock_accept_cb(ls, c)
             /\ pcbs' = [pcbs EXCEPT ![c].state = "open", ![c].listener = None,
                                     ![c].arg = First(FreeFds)]
    <3>1. ls \in Fd /\ sockets[ls].type = "LISTEN"
      BY <2>3 DEF Accepts, SocketInv, Handshakes
    <3> HIDE DEF ls
    <3> QED BY <2>1, <2>3, <3>1, AcceptingStream, Zenon
  <2> QED BY <1>4, <2>2, <2>3 DEF tcp_process_ack
<1>5. ASSUME NEW c \in Pcb, NEW n \in Lens, sock_recv_cb(c, n) PROVE StreamInv'
  BY <1>5, ReceivingStream
<1>6. ASSUME NEW c \in Pcb, sock_recv_cb_Fin(c) PROVE StreamInv'
  <2>1. PICK fd \in Fd : sockets' = [sockets EXCEPT ![fd].closed = TRUE]
    BY <1>6, Zenon DEF sock_recv_cb_Fin, SocketInv, Handshakes
  <2>2. \A k \in Fd : sockets'[k].ring = sockets[k].ring
    BY <1>0, <2>1 DEF SocketShape, SocketFields
  <2> QED BY <1>6, <1>s, <2>2 DEF sock_recv_cb_Fin
<1>7. ASSUME NEW c \in Pcb, sock_err_cb(c) PROVE StreamInv'
  <2>1. pcbs' = [pcbs EXCEPT ![c] = FreePcb] /\ UNCHANGED got
    BY <1>7 DEF sock_err_cb
  <2>2. \A k \in Fd : sockets'[k].ring = sockets[k].ring
    <3>1. CASE pcbs[c].arg = None
      BY <1>7, <3>1 DEF sock_err_cb
    <3>2. CASE pcbs[c].arg # None
      <4>1. PICK fd \in Fd : sockets' = [sockets EXCEPT ![fd].closed = TRUE, ![fd].pcb = None]
        BY <1>7, <3>2, Zenon DEF sock_err_cb, SocketInv, Handshakes
      <4> QED BY <1>0, <4>1 DEF SocketShape, SocketFields
    <3> QED BY <3>1, <3>2
  <2> QED BY <1>f, <1>p, <2>1, <2>2, Zenon
<1>8. ASSUME NEW p \in alive, net_sock_listen(p) PROVE StreamInv'
  <2>1. PICK fd \in Fd : fd = First(FreeFds) /\ ~sockets[fd].in_use
    <3>1. FreeFds \in SUBSET Fd /\ FreeFds # {}
      BY <1>8 DEF net_sock_listen, FreeFds
    <3>2. First(FreeFds) \in FreeFds
      BY <3>1, FirstIn
    <3> QED BY <3>2, Zenon DEF FreeFds
  <2> DEFINE new == Taken("LISTEN", Listening, p)
  <2>2. sockets' = [sockets EXCEPT ![fd] = new] /\ got' = [got EXCEPT ![fd] = <<>>] /\ UNCHANGED pcbs
    BY <1>8, <2>1 DEF net_sock_listen
  <2>3. new.ring = <<>>
    BY DEF Taken
  <2> HIDE DEF new
  <2>4. sockets'[fd].ring = <<>> /\ \A k \in Fd \ {fd} : sockets'[k].ring = sockets[k].ring
    BY <1>0, <2>2, <2>3 DEF SocketShape
  <2>5. /\ got' = [k \in Fd |-> got'[k]]
        /\ \A k \in Fd : got'[k] = IF k = fd THEN <<>> ELSE got[k]
    BY <1>0, <2>2, Zenon
  <2>6. RingsKept({fd})
    BY <2>4, <2>5, RingTaken, Zenon
  <2>7. \A c \in Pcb : DataKept(c, {fd})
    BY <2>1, <2>2, FreeSlotUnused DEF DataKept
  <2> QED BY <2>6, <2>7, StreamsKept
<1>9. ASSUME NEW p \in alive, NEW fd \in Fd, net_sock_accept(p, fd) PROVE StreamInv'
  <2>1. \A k \in Fd : sockets'[k].ring = sockets[k].ring
    BY <1>0, <1>9 DEF net_sock_accept, SocketShape, SocketFields
  <2> QED BY <1>9, <1>s, <2>1 DEF net_sock_accept
<1>10. ASSUME NEW p \in alive, NEW fd \in Fd, NEW len \in Lens, net_sock_recv(p, fd, len)
       PROVE  StreamInv'
  BY <1>10, RecvStream
<1>11. ASSUME NEW p \in alive, NEW fd \in Fd, net_sock_close(p, fd) PROVE StreamInv'
  <2>1. PICK fds \in SUBSET Fd : fds = Chain(fd, p, FALSE)
    BY ChainInTable, Zenon
  <2> QED BY <1>11, <2>1, ClosingStream, Zenon DEF net_sock_close
<1>12. ASSUME NEW p \in alive, net_sock_close_all_for_pid(p) PROVE StreamInv'
  <2> DEFINE mine == {fd \in Fd : sockets[fd].in_use /\ sockets[fd].owner_pid = p}
             fds == UNION {Chain(fd, p, TRUE) : fd \in mine}
  <2>1. fds \in SUBSET Fd
    <3>1. \A fd \in mine : Chain(fd, p, TRUE) \subseteq Fd
      BY ChainInTable, Zenon
    <3> QED BY <3>1, Zenon
  <2>2. net_sock_close_internal(fds)
    BY <1>12 DEF net_sock_close_all_for_pid
  <2> HIDE DEF fds
  <2> QED BY <2>1, <2>2, ClosingStream
<1> QED
  BY <1>1, <1>2, <1>3, <1>4, <1>5, <1>6, <1>7, <1>8, <1>9, <1>10, <1>11, <1>12, Zenon
     DEF Next, Lwip, Step

(* What sock_recv_cb acknowledges is what a reader has got or will find in *)
(* the ring, each byte once and in order, whatever the sizes of ring,      *)
(* window and segments.                                                    *)
THEOREM AcknowledgedIsStored == Spec => []AcknowledgedBytesAreStored
<1>1. Init => StreamInv
  <2> SUFFICES ASSUME Init PROVE StreamInv
    OBVIOUS
  <2>1. PICK e \in Seq(Nat) : e = <<>> /\ Len(e) = 0
    <3>1. <<>> \in Seq(Nat) /\ Len(<<>>) = 0
      OBVIOUS
    <3> QED BY <3>1, Zenon
  <2>2. \A fd \in Fd : sockets[fd].ring = e
    BY <2>1 DEF Init, Unused
  <2>3. \A c \in Pcb : pcbs[c].arg = None /\ pcbs[c].next = 0 /\ pcbs[c].rcv_wnd = TCP_WND
    BY DEF Init, FreePcb
  <2>4. got \in [Fd -> Seq(Nat)]
    BY <2>1 DEF Init
  <2>5. Len(e) < SOCK_RX_BUF
    <3>1. Len(e) = 0
      BY <2>1, Zenon
    <3> QED BY <3>1, Sizes
  <2>6. DataTypes
    BY <2>2, <2>3, <2>4, <2>5, Sizes DEF DataTypes
  <2> QED BY <2>3, <2>6 DEF StreamInv, Streams
<1>2. SocketInv /\ StreamInv => AcknowledgedBytesAreStored
  <2> SUFFICES ASSUME SocketInv, StreamInv, NEW c \in Pcb, pcbs[c].arg # None
               PROVE  LET bytes == got[pcbs[c].arg] \o sockets[pcbs[c].arg].ring
                      IN  /\ TCP_WND - pcbs[c].rcv_wnd = pcbs[c].next - Len(bytes)
                          /\ \A i, j \in DOMAIN bytes : i < j => bytes[i] < bytes[j]
    BY Zenon DEF AcknowledgedBytesAreStored
  <2>1. PICK b : b = Bytes(pcbs[c].arg) /\ Stored(b, pcbs[c].next, pcbs[c].rcv_wnd)
    BY DEF StreamInv, Streams
  <2>2. b \in Seq(Nat) /\ DOMAIN b = 1 .. Len(b)
    BY <2>1 DEF Stored
  <2>3. /\ TCP_WND - pcbs[c].rcv_wnd = pcbs[c].next - Len(b)
        /\ \A i, j \in DOMAIN b : i < j => b[i] < b[j]
    BY <2>1, <2>2 DEF Stored
  <2> QED BY <2>1, <2>3, ZenonT(30) DEF Bytes
<1> QED BY SocketInvInit, SocketInvNext, StreamInvNext, <1>1, <1>2, PTL DEF Spec
-----------------------------------------------------------------------------
(* net_ping: the flag that keeps others out is set before interrupts are   *)
(* enabled, and the one task that got past it is the only one that clears  *)
(* it.                                                                     *)
Places == {"user", "new", "alloc", "send", "wait", "dead"}

Flags ==
    /\ ping_in_progress \in BOOLEAN /\ ping_reply_received \in BOOLEAN
    /\ heard \in BOOLEAN

(* OnePingAtATime needs that the flag is set while a task is inside, or    *)
(* another could enter; ReplyIsAfterRequest is inductive with it, as the   *)
(* flags of a waiting task are changed only by a reply.                    *)
PingInv ==
    /\ Flags
    /\ pc \in [Proc -> Places]
    /\ \A p \in Proc : Inside(p) => ping_in_progress
    /\ OnePingAtATime
    /\ ReplyIsAfterRequest

(* Nobody pings when the kernel starts.                                    *)
LEMMA PingInvInit == PingInit => PingInv
  BY Zenon DEF PingInit, PingInv, Flags, Places, Inside, OnePingAtATime, ReplyIsAfterRequest

(* A task moves on inside net_ping and the reply flag stays as it is.      *)
LEMMA MovesOn ==
    ASSUME PingInv, NEW p \in Proc, NEW place \in Places, Goto(p, place),
           Inside(p), place # "wait",
           Flags',
           UNCHANGED ping_in_progress \/ place \in {"user", "dead"},
           UNCHANGED <<ping_reply_received, heard>> \/ (ping_reply_received' => heard')
    PROVE  PingInv'
<1>1. pc' \in [Proc -> Places]
  BY DEF PingInv, Goto
<1>2. \A q \in Proc : Inside(q)' => Inside(q) /\ (q = p => place \notin {"user", "dead"})
  BY DEF PingInv, Goto, Inside
<1>3. OnePingAtATime'
  BY <1>2 DEF PingInv, OnePingAtATime
<1>4. \A q \in Proc : Inside(q)' => ping_in_progress'
  BY <1>2 DEF PingInv, OnePingAtATime
<1>5. ReplyIsAfterRequest'
  BY Zenon DEF PingInv, Goto, ReplyIsAfterRequest
<1> QED BY <1>1, <1>3, <1>4, <1>5 DEF PingInv, Flags

(* A reply, or none, changes the reply flag and its history together.      *)
LEMMA DeliverKeeps ==
    ASSUME Flags, Deliver
    PROVE  /\ ping_reply_received' \in BOOLEAN /\ heard' \in BOOLEAN
           /\ (ping_reply_received => heard) => (ping_reply_received' => heard')
<1>1. CASE ping_reply_received' = TRUE /\ heard' = TRUE
  BY <1>1
<1>2. CASE UNCHANGED <<ping_reply_received, heard>>
  BY <1>2 DEF Flags
<1> QED BY <1>1, <1>2, Zenon DEF Deliver

(* Every step keeps the invariant.                                         *)
LEMMA PingInvNext == PingInv /\ [PingNext]_pingVars => PingInv'
<1> SUFFICES ASSUME PingInv, [PingNext]_pingVars PROVE PingInv'
  OBVIOUS
<1>1. ASSUME NEW p \in Proc, Enter(p) PROVE PingInv'
  <2>1. \A q \in Proc : ~Inside(q)
    BY <1>1 DEF PingInv, Enter
  <2>2. pc' = [pc EXCEPT ![p] = "new"] /\ ping_in_progress' = TRUE
    BY <1>1 DEF Enter, Goto
  <2>3. \A q \in Proc : Inside(q)' => q = p
    BY <2>1, <2>2 DEF PingInv, Inside
  <2>4. \A q \in Proc : pc'[q] # "wait"
    BY <2>1, <2>2 DEF PingInv, Inside
  <2>5. Flags'
    BY <1>1 DEF Enter, PingInv, Flags
  <2>6. pc' \in [Proc -> Places]
    BY <2>2 DEF PingInv, Places
  <2> QED
    BY <2>2, <2>3, <2>4, <2>5, <2>6 DEF PingInv, OnePingAtATime, ReplyIsAfterRequest
<1>2. ASSUME NEW p \in Proc, RawNew(p) PROVE PingInv'
  BY <1>2, MovesOn DEF RawNew, Inside, Places, PingInv, Flags
<1>3. ASSUME NEW p \in Proc, PbufAlloc(p) PROVE PingInv'
  BY <1>3, MovesOn DEF PbufAlloc, Inside, Places, PingInv, Flags
<1>4. ASSUME NEW p \in Proc, Sendto(p) PROVE PingInv'
  <2>1. pc' = [pc EXCEPT ![p] = "wait"] /\ Inside(p) /\ UNCHANGED ping_in_progress
    BY <1>4 DEF Sendto, Goto, Inside
  <2>2. \A q \in Proc : Inside(q)' => Inside(q)
    BY <2>1 DEF PingInv, Inside
  <2>3. ReplyIsAfterRequest'
    BY <1>4 DEF Sendto, ReplyIsAfterRequest
  <2>4. Flags'
    BY <1>4, Zenon DEF Sendto, PingInv, Flags
  <2>5. pc' \in [Proc -> Places]
    BY <2>1 DEF PingInv, Places
  <2> QED
    BY <2>1, <2>2, <2>3, <2>4, <2>5 DEF PingInv, OnePingAtATime
<1>5. ASSUME NEW p \in Proc, WaitLoop(p) PROVE PingInv'
  <2>1. Inside(p) /\ (ping_reply_received => heard)
    BY <1>5 DEF WaitLoop, Inside, PingInv, ReplyIsAfterRequest
  <2>2. /\ ping_reply_received' \in BOOLEAN /\ heard' \in BOOLEAN
        /\ ping_reply_received' => heard'
    <3>1. CASE Deliver
      BY <2>1, <3>1, DeliverKeeps DEF PingInv
    <3>2. CASE UNCHANGED <<ping_reply_received, heard>>
      BY <2>1, <3>2 DEF PingInv, Flags
    <3> QED BY <1>5, <3>1, <3>2 DEF WaitLoop
  <2>3. CASE Leave(p)
    <3>1. ping_in_progress' = FALSE /\ Goto(p, "user")
      BY <2>3 DEF Leave
    <3>2. Flags'
      BY <2>2, <3>1, Zenon DEF Flags
    <3> QED BY <2>1, <2>2, <3>1, <3>2, MovesOn DEF Places
  <2>4. CASE UNCHANGED <<ping_in_progress, pc, left, raw>>
    <3>1. Flags'
      BY <2>2, <2>4 DEF PingInv, Flags
    <3> QED BY <2>2, <2>4, <3>1 DEF PingInv, Inside, OnePingAtATime, ReplyIsAfterRequest
  <2> QED BY <1>5, <2>3, <2>4 DEF WaitLoop
<1>6. CASE Tick
  <2>1. UNCHANGED <<ping_in_progress, pc>>
    BY <1>6 DEF Tick
  <2>2. /\ ping_reply_received' \in BOOLEAN /\ heard' \in BOOLEAN
        /\ (ping_reply_received => heard) => (ping_reply_received' => heard')
    BY <1>6, DeliverKeeps DEF Tick, PingInv
  <2>3. Flags'
    BY <2>1, <2>2 DEF PingInv, Flags
  <2>4. ReplyIsAfterRequest'
    BY <2>1, <2>2 DEF PingInv, ReplyIsAfterRequest
  <2> QED BY <2>1, <2>3, <2>4 DEF PingInv, Inside, OnePingAtATime
<1>7. ASSUME NEW p \in Proc, Kill(p) PROVE PingInv'
  <2>1. Inside(p)
    BY <1>7 DEF Kill, PingInv, Places, Inside
  <2>2. Flags'
    BY <1>7 DEF Kill, PingInv, Flags
  <2> QED BY <1>7, <2>1, <2>2, MovesOn DEF Kill, Places
<1>8. CASE UNCHANGED pingVars
  BY <1>8 DEF pingVars, PingInv, Flags, Inside, OnePingAtATime, ReplyIsAfterRequest
<1> QED
  BY <1>1, <1>2, <1>3, <1>4, <1>5, <1>6, <1>7, <1>8, Zenon DEF PingNext, net_ping

(* Two tasks are never inside net_ping together, although it runs with     *)
(* interrupts on and may be killed anywhere.                               *)
THEOREM PingsAreApart == PingSpec => []OnePingAtATime
<1>1. PingInv => OnePingAtATime
  BY DEF PingInv
<1> QED BY PingInvInit, PingInvNext, <1>1, PTL DEF PingSpec

(* A reply that net_ping reports came after the request it sent: neither   *)
(* an earlier ping's late reply nor a killed task's leftovers count.       *)
THEOREM RepliesAnswerTheirRequest == PingSpec => []ReplyIsAfterRequest
<1>1. PingInv => ReplyIsAfterRequest
  BY DEF PingInv
<1> QED BY PingInvInit, PingInvNext, <1>1, PTL DEF PingSpec

(* The raw pcb of the one task inside, or the one a killed task left.      *)
PoolInv ==
    /\ raw \in {0, 1}
    /\ ~ping_in_progress => raw = 0
    /\ \A p \in Proc :
          /\ pc[p] = "new" => raw = 0
          /\ pc[p] \in {"alloc", "send", "wait"} => raw = 1

(* raw_new is called by a task alone inside, and every raw_remove follows  *)
(* one raw_new.                                                            *)
LEMMA PoolInvNext == PingInv /\ PoolInv /\ [PingNext]_pingVars => PoolInv'
<1> SUFFICES ASSUME PingInv, PoolInv, [PingNext]_pingVars PROVE PoolInv'
  OBVIOUS
<1>0. pc \in [Proc -> Places]
  BY DEF PingInv
<1>1. ASSUME NEW p \in Proc, Enter(p) PROVE PoolInv'
  BY <1>0, <1>1 DEF Enter, Goto, PoolInv
<1>2. ASSUME NEW p \in Proc, Inside(p), RawNew(p) \/ PbufAlloc(p) \/ Sendto(p) \/ WaitLoop(p)
      PROVE PoolInv'
  <2>1. \A q \in Proc : q # p => ~Inside(q)
    BY <1>2 DEF PingInv, OnePingAtATime
  <2>2. CASE RawNew(p)
    BY <1>0, <2>1, <2>2 DEF RawNew, Goto, PoolInv, PingInv, Inside
  <2>3. CASE PbufAlloc(p)
    BY <1>0, <2>1, <2>3 DEF PbufAlloc, Goto, PoolInv, PingInv, Inside
  <2>4. CASE Sendto(p)
    BY <1>0, <2>1, <2>4 DEF Sendto, Goto, PoolInv, PingInv, Inside
  <2>5. CASE WaitLoop(p)
    BY <1>0, <2>1, <2>5 DEF WaitLoop, Leave, Goto, PoolInv, PingInv, Inside
  <2> QED BY <1>2, <2>2, <2>3, <2>4, <2>5
<1>3. CASE Tick
  BY <1>3 DEF Tick, PoolInv
<1>4. ASSUME NEW p \in Proc, Kill(p) PROVE PoolInv'
  BY <1>0, <1>4 DEF Kill, Goto, PoolInv
<1>5. CASE UNCHANGED pingVars
  BY <1>5 DEF pingVars, PoolInv
<1>6. \A p \in Proc : RawNew(p) \/ PbufAlloc(p) \/ Sendto(p) \/ WaitLoop(p) => Inside(p)
  BY DEF RawNew, PbufAlloc, Sendto, WaitLoop, Inside
<1> QED
  BY <1>1, <1>2, <1>3, <1>4, <1>5, <1>6 DEF PingNext, net_ping

(* However many tasks ping and are killed doing so, one raw pcb is all     *)
(* they ever hold together, so that raw_new of net_ping finds one.         *)
THEOREM OneRawPcbSuffices == PingSpec => [](raw \in {0, 1})
<1>1. PingInit => PoolInv
  BY DEF PingInit, PoolInv
<1>2. PoolInv => raw \in {0, 1}
  BY DEF PoolInv
<1> QED BY PingInvInit, PingInvNext, PoolInvNext, <1>1, <1>2, PTL DEF PingSpec
=============================================================================
