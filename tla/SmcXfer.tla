------------------------------ MODULE SmcXfer ------------------------------
(***************************************************************************)
(* Commands to the Trusted OS: call_tee (armtz/tee_tz_drv.c) and, under    *)
(* it, __call_tee and tee_smc_work (armtz/tee_smc_xfer.c), as they run on  *)
(* a platform whose cores are all alike.                                   *)
(*                                                                         *)
(* A driver thread enters the secure world with the SMC instruction while  *)
(* it holds xfer_lock.  The Trusted OS comes back when the command is      *)
(* done, or suspends it for an interrupt, for a request that is handled    *)
(* under the lock, or for one that is handled outside; it refuses a        *)
(* command when it has no thread left, and the driver then waits for       *)
(* another command to end.                                                 *)
(***************************************************************************)
EXTENDS Integers, FiniteSets

CONSTANTS
    Threads,    \* driver threads
    NoThread,
    Kinds,      \* "std": TEESMC32_CALL_WITH_ARG, "fast": the cancellation
    TeeThreads, \* threads of the Trusted OS, one per suspended std command
    MaxRpc      \* bound: times one command is suspended

ASSUME XferAssumption ==
    /\ IsFiniteSet(Threads)
    /\ NoThread \notin Threads
    /\ Kinds \subseteq {"std", "fast"}
    /\ TeeThreads \in Nat /\ MaxRpc \in Nat

VARIABLES
    xfer_lock,          \* the thread that holds the mutex
    nr_unbound_cmds,
    nr_waiting_cmds,
    xfer_wait_queue,    \* count of that semaphore
    pc,                 \* where each thread stands
    a0,                 \* param.a0: function ID on entry, result on return
    kind,               \* the kind of the thread's command
    tee,                \* what the Trusted OS has done of the thread's command
    rpcs                \* how often the command was suspended

limit == <<nr_waiting_cmds, xfer_wait_queue>>
secure == <<kind, tee, rpcs>>
vars == <<xfer_lock, nr_unbound_cmds, limit, pc, a0, secure>>

\* Function IDs.  a0 may hold a result when a command is sent again.
Calls == {"call", "return_from_rpc"}
Inside == {"rpc_irq", "rpc_nonpreempt"}         \* handled under xfer_lock
Requests == Inside \cup {"rpc_cmd"}
\* TEESMC_RETURN_IS_RPC: the prefix 0xFFFF is also that of UNKNOWN_FUNCTION.
IsRpc == Requests \cup {"unknown_function"}
Results == IsRpc \cup {"ok", "ethread_limit", "eresume"}

PC == {"idle", "inc", "lock", "smc", "secure", "ret", "unlock", "decide",
       "wait", "down", "up", "rpc", "out"}

Init ==
    /\ xfer_lock = NoThread
    /\ nr_unbound_cmds = 0
    /\ nr_waiting_cmds = 0 /\ xfer_wait_queue = 0
    /\ pc = [t \in Threads |-> "idle"]
    /\ a0 = [t \in Threads |-> "ok"]
    /\ kind \in [Threads -> Kinds]
    /\ tee = [t \in Threads |-> "none"]
    /\ rpcs = [t \in Threads |-> 0]

Goto(t, from, to) == pc[t] = from /\ pc' = [pc EXCEPT ![t] = to]

-----------------------------------------------------------------------------
(* tee_smc_work *)

\* call_tee: a new command.
CallTee(t) ==
    /\ Goto(t, "idle", "inc")
    /\ a0' = [a0 EXCEPT ![t] = "call"]
    /\ \E k \in Kinds : kind' = [kind EXCEPT ![t] = k]
    /\ tee' = [tee EXCEPT ![t] = "none"]
    /\ rpcs' = [rpcs EXCEPT ![t] = 0]
    /\ UNCHANGED <<xfer_lock, nr_unbound_cmds, limit>>

CountCommand(t) ==
    /\ Goto(t, "inc", "lock")
    /\ nr_unbound_cmds' = nr_unbound_cmds + 1
    /\ UNCHANGED <<xfer_lock, limit, a0, secure>>

LockXfer(t) ==
    /\ xfer_lock = NoThread
    /\ Goto(t, "lock", "smc")
    /\ xfer_lock' = t
    /\ UNCHANGED <<nr_unbound_cmds, limit, a0, secure>>

EnterSecure(t) ==
    /\ Goto(t, "smc", "secure")
    /\ UNCHANGED <<xfer_lock, nr_unbound_cmds, limit, a0, secure>>

(***************************************************************************)
(* The secure world, external to the driver.  A std command holds one of   *)
(* the threads of the Trusted OS until it is done; a fast one is never     *)
(* suspended.  The monitor answers a function ID that is none with         *)
(* UNKNOWN_FUNCTION.                                                       *)
(***************************************************************************)
Suspended == {t \in Threads : tee[t] = "running"}

Finish(t) ==
    /\ a0' = [a0 EXCEPT ![t] = "ok"]
    /\ tee' = [tee EXCEPT ![t] = "done"]
    /\ UNCHANGED rpcs

Suspend(t) ==
    /\ kind[t] = "std" /\ rpcs[t] < MaxRpc
    /\ \E r \in Requests : a0' = [a0 EXCEPT ![t] = r]
    /\ tee' = [tee EXCEPT ![t] = "running"]
    /\ rpcs' = [rpcs EXCEPT ![t] = rpcs[t] + 1]

Refuse(t, r) ==
    /\ a0' = [a0 EXCEPT ![t] = r]
    /\ UNCHANGED <<tee, rpcs>>

NoThreadLeft(t) ==
    kind[t] = "std" /\ Cardinality(Suspended) >= TeeThreads

TrustedOS(t) ==
    \/ /\ a0[t] = "call"
       /\ IF NoThreadLeft(t) THEN Refuse(t, "ethread_limit")
                             ELSE Finish(t) \/ Suspend(t)
    \/ /\ a0[t] = "return_from_rpc"
       /\ IF t \in Suspended THEN Finish(t) \/ Suspend(t)
                             ELSE Refuse(t, "eresume")
    \/ a0[t] \notin Calls /\ Refuse(t, "unknown_function")

LeaveSecure(t) ==
    /\ Goto(t, "secure", "ret")
    /\ TrustedOS(t)
    /\ UNCHANGED <<xfer_lock, nr_unbound_cmds, limit, kind>>

\* An interrupt or a non-preemptible request: the command goes on at once.
ResumeInside(t) ==
    /\ a0[t] \in Inside
    /\ Goto(t, "ret", "smc")
    /\ a0' = [a0 EXCEPT ![t] = "return_from_rpc"]
    /\ UNCHANGED <<xfer_lock, nr_unbound_cmds, limit, secure>>

\* Mutant: the lock is given up in place of the resumption after an interrupt.
SmcReturn_EarlyUnlock(t) ==
    /\ Goto(t, "ret", "unlock")
    /\ xfer_lock' = NoThread
    /\ nr_unbound_cmds' = nr_unbound_cmds - 1
    /\ UNCHANGED <<limit, a0, secure>>

SmcReturn(t) ==
    /\ a0[t] \notin Inside
    /\ Goto(t, "ret", "unlock")
    /\ nr_unbound_cmds' = nr_unbound_cmds - 1
    /\ UNCHANGED <<xfer_lock, limit, a0, secure>>

UnlockXfer(t) ==
    /\ Goto(t, "unlock", "decide")
    /\ xfer_lock' = NoThread
    /\ UNCHANGED <<nr_unbound_cmds, limit, a0, secure>>

-----------------------------------------------------------------------------
(* __call_tee *)

\* xfer_enqueue_waiters, then the loop sends param again as it is.
DecideWait(t) ==
    /\ a0[t] = "ethread_limit"
    /\ Goto(t, "decide", "wait")
    /\ UNCHANGED <<xfer_lock, nr_unbound_cmds, limit, a0, secure>>

CountWaiter(t) ==
    /\ Goto(t, "wait", "down")
    /\ nr_waiting_cmds' = nr_waiting_cmds + 1
    /\ UNCHANGED <<xfer_lock, nr_unbound_cmds, xfer_wait_queue, a0, secure>>

DownWaitQueue(t) ==
    /\ xfer_wait_queue > 0
    /\ Goto(t, "down", "inc")
    /\ xfer_wait_queue' = xfer_wait_queue - 1
    /\ UNCHANGED <<xfer_lock, nr_unbound_cmds, nr_waiting_cmds, a0, secure>>

\* Mutant: the counter of waiters is read and never reduced.
DequeueWaiter_NoDec(t) ==
    /\ a0[t] \notin IsRpc \cup {"ethread_limit"}
    /\ Goto(t, "decide", IF nr_waiting_cmds > 0 THEN "up" ELSE "out")
    /\ UNCHANGED <<xfer_lock, nr_unbound_cmds, limit, a0, secure>>

\* xfer_dequeue_waiters: atomic_dec_if_positive, for a command that is over.
DequeueWaiter(t) ==
    /\ a0[t] \notin IsRpc \cup {"ethread_limit"}
    /\ IF nr_waiting_cmds > 0
       THEN Goto(t, "decide", "up") /\ nr_waiting_cmds' = nr_waiting_cmds - 1
       ELSE Goto(t, "decide", "out") /\ UNCHANGED nr_waiting_cmds
    /\ UNCHANGED <<xfer_lock, nr_unbound_cmds, xfer_wait_queue, a0, secure>>

UpWaitQueue(t) ==
    /\ Goto(t, "up", "out")
    /\ xfer_wait_queue' = xfer_wait_queue + 1
    /\ UNCHANGED <<xfer_lock, nr_unbound_cmds, nr_waiting_cmds, a0, secure>>

-----------------------------------------------------------------------------
(* The loop of call_tee *)


DecideRpc(t) ==
    /\ a0[t] \in IsRpc
    /\ Goto(t, "decide", "rpc")
    /\ UNCHANGED <<xfer_lock, nr_unbound_cmds, limit, a0, secure>>

\* Mutant: the function ID that handle_rpc returned is not stored in param.a0.
ResumeAfterRpc_StaleId(t) ==
    /\ Goto(t, "rpc", "inc")
    /\ UNCHANGED <<xfer_lock, nr_unbound_cmds, limit, a0, secure>>

\* handle_rpc has returned; the command is resumed.
ResumeAfterRpc(t) ==
    /\ Goto(t, "rpc", "inc")
    /\ a0' = [a0 EXCEPT ![t] = "return_from_rpc"]
    /\ UNCHANGED <<xfer_lock, nr_unbound_cmds, limit, secure>>

\* The caller reads the outcome.
Return(t) ==
    /\ Goto(t, "out", "idle")
    /\ UNCHANGED <<xfer_lock, nr_unbound_cmds, limit, a0, secure>>

Command(t) ==
    \/ CountCommand(t) \/ LockXfer(t) \/ EnterSecure(t) \/ LeaveSecure(t)
    \/ ResumeInside(t) \/ SmcReturn(t) \/ UnlockXfer(t)
    \/ DecideWait(t) \/ CountWaiter(t) \/ DownWaitQueue(t)
    \/ DequeueWaiter(t) \/ UpWaitQueue(t)
    \/ DecideRpc(t) \/ ResumeAfterRpc(t) \/ Return(t)

Next == \E t \in Threads : CallTee(t) \/ Command(t)

Spec == Init /\ [][Next]_vars

\* A thread that can run is scheduled, a thread that waits for the mutex or the
\* semaphore gets it when it is available again and again.  The bound MaxRpc
\* makes the Trusted OS finish each command.
FairSpec ==
    /\ Spec
    /\ \A t \in Threads :
          WF_vars(Command(t)) /\ SF_vars(LockXfer(t)) /\ SF_vars(DownWaitQueue(t))

-----------------------------------------------------------------------------
TypeOK ==
    /\ xfer_lock \in Threads \cup {NoThread}
    /\ nr_unbound_cmds \in 0..Cardinality(Threads)
    /\ nr_waiting_cmds \in 0..Cardinality(Threads)
    /\ xfer_wait_queue \in 0..Cardinality(Threads)
    /\ pc \in [Threads -> PC]
    /\ a0 \in [Threads -> Calls \cup Results]
    /\ kind \in [Threads -> Kinds]
    /\ tee \in [Threads -> {"none", "running", "done"}]
    /\ rpcs \in [Threads -> 0..MaxRpc]

\* One processor at a time is in the secure world ("guarantee the
\* mutual-exlusiveness of smc", tee_smc_xfer.c:52).
OneInSecureWorld ==
    Cardinality({t \in Threads : pc[t] = "secure"}) <= 1

\* No thread leaves call_tee while the Trusted OS keeps its command suspended:
\* the thread of the Trusted OS would be lost.
NothingLeftBehind == \A t \in Threads : pc[t] = "idle" => tee[t] # "running"

\* Each wake-up of the thread limit is owed to one waiter: waiters that are
\* counted or about to be woken are the ones that sleep.
WaitersAreCounted ==
    nr_waiting_cmds + xfer_wait_queue + Cardinality({t \in Threads : pc[t] = "up"})
        = Cardinality({t \in Threads : pc[t] = "down"})

\* Nothing is left waiting: neither a command nor a waiter is forgotten.
NobodyIsForgotten == TypeOK /\ NothingLeftBehind /\ WaitersAreCounted

\* While a thread handles a request outside of the secure world it does not
\* keep other commands out: what it waits for may be one of them.
HandlersHoldNothing ==
    \A t \in Threads : pc[t] \in {"rpc", "wait", "down"} => xfer_lock # t

\* A command ends only after the Trusted OS has executed it: one that is refused
\* is sent again ("Trusted OS out of threads, try again later", teesmc.h:441).
CommandIsExecuted == \A t \in Threads : pc[t] = "out" => tee[t] = "done"

\* Every command ends.
CommandReturns ==
    \A t \in Threads : pc[t] # "idle" ~> pc[t] = "idle"

\* Every command ends, or comes to wait for a thread of the Trusted OS.
CommandReturnsOrWaits ==
    \A t \in Threads : pc[t] # "idle" ~> pc[t] \in {"idle", "down"}

-----------------------------------------------------------------------------
\* The secure world as the one-at-a-time service of RpcService: an SMC is asked
\* for, has its turn under the lock, is answered, and the result is taken.
SmcStage ==
    [t \in Threads |->
        IF pc[t] \in {"inc", "lock"} THEN "called"
        ELSE IF pc[t] \in {"smc", "secure", "ret"} THEN "turn"
        ELSE IF pc[t] \in {"unlock"} THEN "answered"
        ELSE "idle"]

Service == INSTANCE RpcService WITH call <- SmcStage

\* tee_smc_work serves one SMC at a time, and each to its end.
ImplementsService == Service!Spec
=============================================================================
