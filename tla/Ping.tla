-------------------------------- MODULE Ping --------------------------------
(***************************************************************************)
(* net_ping of net/net.c: the one system call that runs with interrupts    *)
(* on.  Between any two of its steps the timer may poll the network and    *)
(* run another task, which may ping too or kill the one that is pinging.   *)
(***************************************************************************)
EXTENDS Integers, FiniteSets

CONSTANTS Proc,
          RawPcbs,             \* MEMP_NUM_RAW_PCB
          Timeout              \* timeout_ticks

VARIABLES ping_in_progress, ping_reply_received,
          pc,                  \* where each task is in net_ping
          left,                \* ticks until its timeout
          raw,                 \* raw pcbs allocated
          replies,             \* echo replies on their way
          heard                \* history: a reply came since the last send

pingVars == <<ping_in_progress, ping_reply_received, pc, left, raw, replies, heard>>

PingInit ==
    /\ ping_in_progress = FALSE /\ ping_reply_received = FALSE
    /\ pc = [p \in Proc |-> "user"]
    /\ left = [p \in Proc |-> 0]
    /\ raw = 0 /\ replies = 0 /\ heard = FALSE

Goto(p, place) == pc' = [pc EXCEPT ![p] = place]

(* Mutant: the call does not look whether a ping is in progress.           *)
Enter_Unchecked(p) ==
    /\ pc[p] = "user"
    /\ ping_in_progress' = TRUE
    /\ Goto(p, "new")
    /\ UNCHANGED <<ping_reply_received, left, raw, replies, heard>>

(* Up to cpu_enable_interrupts().                                          *)
Enter(p) ==
    /\ pc[p] = "user" /\ ~ping_in_progress
    /\ ping_in_progress' = TRUE
    /\ Goto(p, "new")
    /\ UNCHANGED <<ping_reply_received, left, raw, replies, heard>>

(* raw_new.  Its pool cannot be empty: one task at a time gets here, and a *)
(* pcb that is never given back leaves the flag set for good.              *)
RawNew(p) ==
    /\ pc[p] = "new"
    /\ raw' = raw + 1
    /\ Goto(p, "alloc")
    /\ UNCHANGED <<ping_in_progress, ping_reply_received, left, replies, heard>>

(* pbuf_alloc, which may fail; the pcb is then given back.                 *)
PbufAlloc(p) ==
    /\ pc[p] = "alloc"
    /\ \/ UNCHANGED raw /\ Goto(p, "send")
       \/ raw' = raw - 1 /\ Goto(p, "user")
    /\ UNCHANGED <<ping_in_progress, ping_reply_received, left, replies, heard>>

(* Mutant: the reply flag of the last ping is not cleared.                 *)
Sendto_KeepsFlag(p) ==
    /\ pc[p] = "send"
    /\ replies' \in {replies, 1}
    /\ heard' = FALSE
    /\ left' = [left EXCEPT ![p] = Timeout]
    /\ Goto(p, "wait")
    /\ UNCHANGED <<ping_in_progress, ping_reply_received, raw>>

(* Clear the flag, send, and note the time; the host may answer or not.    *)
(* At most one answer is kept on its way.                                  *)
Sendto(p) ==
    /\ pc[p] = "send"
    /\ ping_reply_received' = FALSE /\ heard' = FALSE
    /\ replies' \in {replies, 1}
    /\ left' = [left EXCEPT ![p] = Timeout]
    /\ Goto(p, "wait")
    /\ UNCHANGED <<ping_in_progress, raw>>

(* ping_recv_cb, called for any echo reply while any raw pcb is bound.     *)
Deliver ==
    \/ /\ replies = 1 /\ raw > 0
       /\ replies' = 0 /\ ping_reply_received' = TRUE /\ heard' = TRUE
    \/ /\ replies = 1 /\ raw = 0
       /\ replies' = 0 /\ UNCHANGED <<ping_reply_received, heard>>
    \/ UNCHANGED <<replies, ping_reply_received, heard>>

(* The end of net_ping, with or without a reply.                           *)
Leave(p) ==
    /\ raw' = raw - 1 /\ ping_in_progress' = FALSE
    /\ Goto(p, "user")
    /\ UNCHANGED left

(* Mutant: no time out.                                                    *)
WaitLoop_Forever(p) ==
    /\ pc[p] = "wait"
    /\ \/ /\ ping_reply_received /\ Leave(p)
          /\ UNCHANGED <<replies, ping_reply_received, heard>>
       \/ /\ ~ping_reply_received /\ Deliver
          /\ UNCHANGED <<ping_in_progress, pc, left, raw>>

(* One turn of the wait loop: test the flag, poll, test the time, halt.    *)
WaitLoop(p) ==
    /\ pc[p] = "wait"
    /\ \/ /\ ping_reply_received /\ Leave(p)
          /\ UNCHANGED <<replies, ping_reply_received, heard>>
       \/ /\ ~ping_reply_received /\ Deliver
          /\ \/ left[p] = 0 /\ Leave(p)
             \/ left[p] > 0 /\ UNCHANGED <<ping_in_progress, pc, left, raw>>

Tick ==
    /\ Deliver
    /\ left' = [p \in Proc |-> IF left[p] > 0 THEN left[p] - 1 ELSE 0]
    /\ UNCHANGED <<ping_in_progress, pc, raw>>

(* task_kill of a task inside net_ping: nothing net_ping holds is undone.  *)
Kill(p) ==
    /\ pc[p] \notin {"user", "dead"}
    /\ Goto(p, "dead")
    /\ UNCHANGED <<ping_in_progress, ping_reply_received, left, raw, replies, heard>>

net_ping(p) == Enter(p) \/ RawNew(p) \/ PbufAlloc(p) \/ Sendto(p) \/ WaitLoop(p)

PingNext == Tick \/ \E p \in Proc : net_ping(p) \/ Kill(p)

(* The timer ticks on, and a task inside net_ping gets its turns (see      *)
(* ReadyRuns in Task).  Whether a task calls net_ping is its own choice.   *)
PingSpec ==
    /\ PingInit /\ [][PingNext]_pingVars
    /\ WF_pingVars(Tick)
    /\ \A p \in Proc : WF_pingVars(pc[p] # "user" /\ net_ping(p))

-----------------------------------------------------------------------------
Inside(p) == pc[p] \in {"new", "alloc", "send", "wait"}

(* Flags, places and ticks stay in their ranges; the pool of raw pcbs is   *)
(* never overdrawn and no pcb is given back twice.                         *)
PingTypeOK ==
    /\ ping_in_progress \in BOOLEAN /\ ping_reply_received \in BOOLEAN
    /\ pc \in [Proc -> {"user", "new", "alloc", "send", "wait", "dead"}]
    /\ left \in [Proc -> 0 .. Timeout]
    /\ raw \in 0 .. RawPcbs

(* Two tasks are never inside net_ping together, although it runs with     *)
(* interrupts on: the shared reply flag has one user at a time.            *)
OnePingAtATime ==
    \A p, q \in Proc : Inside(p) /\ Inside(q) => p = q

(* net_ping never reports a reply that came before its request was sent:   *)
(* while it waits, the flag is set only if one has come since.             *)
ReplyIsAfterRequest ==
    (\E p \in Proc : pc[p] = "wait") => (ping_reply_received => heard)

(* A task inside net_ping comes out, by a reply, an error or the timeout,  *)
(* or is killed.                                                           *)
PingReturns ==
    \A p \in Proc : Inside(p) ~> ~Inside(p)

-----------------------------------------------------------------------------
(* ISSUES.md, issue 11: "Added `ping_in_progress` flag; reject concurrent  *)
(* pings with -1."  A ping is rejected only while there is another.        *)
OnlyConcurrentPingsRejected ==
    ping_in_progress => \E p \in Proc : Inside(p)
=============================================================================
