----------------------------- MODULE SmcXferBL -----------------------------
(***************************************************************************)
(* SMC commands on a big.LITTLE platform: __smc_xfer, the tee_smc_daemon   *)
(* threads and the CPU notifier of armtz/tee_smc_xfer.c (TKCORE_BL).       *)
(*                                                                         *)
(* A command is queued for a big core that is locked in the online state;  *)
(* the daemon thread bound to that core works on the queue and gives the   *)
(* core free when it finds the queue empty.  When no big core can be had   *)
(* in time the command runs where the caller is.                           *)
(*                                                                         *)
(* Everything under cmd_lock is one step.  nr_unbound_cmds is not modelled *)
(* here: it is only read by code this build leaves out.                    *)
(***************************************************************************)
EXTENDS Integers, Sequences, FiniteSets, TLC

CONSTANTS
    Threads,    \* driver threads that call __smc_xfer
    Big,        \* the big cores, numbers in the order of cpu masks
    Nobody

ASSUME BLAssumption ==
    /\ IsFiniteSet(Threads) /\ IsFiniteSet(Big)
    /\ Big \subseteq Nat /\ Big # {}
    /\ Nobody \notin Threads \cup Big /\ Threads \cap Big = {}

VARIABLES
    cpu_lock_mask,  \* the cores whose bit is set
    cmd_head,       \* the queue of commands, each named by its caller
    xfer_lock,      \* the caller or the daemon's core that holds it
    pc,             \* where each caller stands
    picked_cpu,     \* the core it picked
    done_sem,       \* count of the semaphore in its command
    daemon,         \* where the daemon of each core stands
    cmd,            \* the command it works on
    thread_wq,      \* the cores whose daemon is in its wait queue
    slept,          \* the cores whose daemon has found the queue empty once
    online,         \* the big cores that are online
    down            \* the core that is going down, and how far it is

callers == <<pc, picked_cpu, done_sem>>
daemons == <<daemon, cmd, thread_wq, slept>>
cpus == <<online, down>>
vars == <<cpu_lock_mask, cmd_head, xfer_lock, callers, daemons, cpus>>

CallerPC == {"idle", "pick", "wake", "wait", "boot", "lock", "smc", "unlock"}
DaemonPC == {"look", "asleep", "lock", "smc", "unlock", "up"}
Staying == [cpu |-> Nobody, at |-> "none"]
First(S) == CHOOSE c \in S : \A d \in S : c <= d

\* platform_bl_init: every big core is locked until its daemon has looked at
\* the queue, also one that is not online.
Init ==
    /\ cpu_lock_mask = Big
    /\ cmd_head = <<>>
    /\ xfer_lock = Nobody
    /\ pc = [t \in Threads |-> "idle"]
    /\ picked_cpu = [t \in Threads |-> Nobody]
    /\ done_sem = [t \in Threads |-> 0]
    /\ daemon = [c \in Big |-> "look"]
    /\ cmd = [c \in Big |-> Nobody]
    /\ thread_wq = {} /\ slept = {}
    /\ online \in SUBSET Big
    /\ down = Staying

Goto(t, from, to) == pc[t] = from /\ pc' = [pc EXCEPT ![t] = to]
Step(c, from, to) == daemon[c] = from /\ daemon' = [daemon EXCEPT ![c] = to]

-----------------------------------------------------------------------------
(* __smc_xfer *)

Xfer(t) ==
    /\ Goto(t, "idle", "pick")
    /\ picked_cpu' = [picked_cpu EXCEPT ![t] = Nobody]
    /\ UNCHANGED <<cpu_lock_mask, cmd_head, xfer_lock, done_sem, daemons, cpus>>

Enqueue(t, c) ==
    /\ picked_cpu' = [picked_cpu EXCEPT ![t] = c]
    /\ cmd_head' = Append(cmd_head, t)
    /\ UNCHANGED <<xfer_lock, done_sem, daemons, cpus>>

\* Some core is locked: its daemon will look at the queue before it sleeps.
PickLocked(t) ==
    /\ down = Staying                       \* get_online_cpus
    /\ cpu_lock_mask # {}
    /\ Goto(t, "pick", "wait")
    /\ Enqueue(t, First(cpu_lock_mask))
    /\ UNCHANGED cpu_lock_mask


\* Mutant: the daemon of the core that was just locked is not woken.
PickOnline_NoWake(t) ==
    /\ down = Staying
    /\ cpu_lock_mask = {} /\ online # {}
    /\ Goto(t, "pick", "wait")
    /\ Enqueue(t, First(online))
    /\ cpu_lock_mask' = {First(online)}

PickOnline(t) ==
    /\ down = Staying
    /\ cpu_lock_mask = {} /\ online # {}
    /\ Goto(t, "pick", "wake")
    /\ Enqueue(t, First(online))
    /\ cpu_lock_mask' = {First(online)}

PickNone(t) ==
    /\ down = Staying
    /\ cpu_lock_mask = {} /\ online = {}
    /\ Goto(t, "pick", "boot")
    /\ UNCHANGED <<cpu_lock_mask, cmd_head, xfer_lock, picked_cpu, done_sem,
                   daemons, cpus>>

WakeDaemon(t) ==
    /\ Goto(t, "wake", "wait")
    /\ thread_wq' = thread_wq \ {picked_cpu[t]}
    /\ UNCHANGED <<cpu_lock_mask, cmd_head, xfer_lock, picked_cpu, done_sem,
                   daemon, cmd, slept, cpus>>

DownDone(t) ==
    /\ done_sem[t] > 0
    /\ Goto(t, "wait", "idle")
    /\ done_sem' = [done_sem EXCEPT ![t] = done_sem[t] - 1]
    /\ UNCHANGED <<cpu_lock_mask, cmd_head, xfer_lock, picked_cpu, daemons, cpus>>

\* cpu_up(candidate_big_cpu) within the 2 ms, and another try in any case.
BootBig(t) ==
    /\ down = Staying
    /\ Goto(t, "boot", "pick")
    /\ online' \in {online, online \cup {First(Big)}}
    /\ UNCHANGED <<cpu_lock_mask, cmd_head, xfer_lock, picked_cpu, done_sem,
                   daemons, down>>

\* The 2 ms are over: tee_smc_work_bl(ctl, false, &cmd) by the caller itself.
GiveUpBig(t) ==
    /\ Goto(t, "boot", "lock")
    /\ UNCHANGED <<cpu_lock_mask, cmd_head, xfer_lock, picked_cpu, done_sem,
                   daemons, cpus>>

LocalLock(t) ==
    /\ xfer_lock = Nobody
    /\ Goto(t, "lock", "smc")
    /\ xfer_lock' = t
    /\ UNCHANGED <<cpu_lock_mask, cmd_head, picked_cpu, done_sem, daemons, cpus>>

LocalSmc(t) ==
    /\ Goto(t, "smc", "unlock")
    /\ UNCHANGED <<cpu_lock_mask, cmd_head, xfer_lock, picked_cpu, done_sem,
                   daemons, cpus>>

LocalUnlock(t) ==
    /\ Goto(t, "unlock", "idle")
    /\ xfer_lock' = Nobody
    /\ UNCHANGED <<cpu_lock_mask, cmd_head, picked_cpu, done_sem, daemons, cpus>>

-----------------------------------------------------------------------------
(* tee_smc_daemon: wait_dequeue_cmd and tee_smc_work_bl(ctl, true, cmd) *)

TakeCommand(c) ==
    /\ cmd_head # <<>>
    /\ Step(c, "look", "lock")
    /\ cmd' = [cmd EXCEPT ![c] = Head(cmd_head)]
    /\ cmd_head' = Tail(cmd_head)
    /\ UNCHANGED <<cpu_lock_mask, xfer_lock, callers, thread_wq, slept, cpus>>

\* Mutant: the core is not unlocked before its daemon sleeps.
NoCommand_StaysLocked(c) ==
    /\ cmd_head = <<>>
    /\ Step(c, "look", "asleep")
    /\ thread_wq' = thread_wq \cup {c}
    /\ slept' = slept \cup {c}
    /\ UNCHANGED <<cpu_lock_mask, cmd_head, xfer_lock, callers, cmd, cpus>>

NoCommand(c) ==
    /\ cmd_head = <<>>
    /\ Step(c, "look", "asleep")
    /\ cpu_lock_mask' = cpu_lock_mask \ {c}
    /\ thread_wq' = thread_wq \cup {c}
    /\ slept' = slept \cup {c}
    /\ UNCHANGED <<cmd_head, xfer_lock, callers, cmd, cpus>>

Woken(c) ==
    /\ c \notin thread_wq
    /\ Step(c, "asleep", "look")
    /\ UNCHANGED <<cpu_lock_mask, cmd_head, xfer_lock, callers, cmd, thread_wq,
                   slept, cpus>>

\* Mutant: the daemon relies on its core's lock and does not take xfer_lock.
DaemonLock_NoWait(c) ==
    /\ Step(c, "lock", "smc")
    /\ xfer_lock' = c
    /\ UNCHANGED <<cpu_lock_mask, cmd_head, callers, cmd, thread_wq, slept, cpus>>

DaemonLock(c) ==
    /\ xfer_lock = Nobody
    /\ Step(c, "lock", "smc")
    /\ xfer_lock' = c
    /\ UNCHANGED <<cpu_lock_mask, cmd_head, callers, cmd, thread_wq, slept, cpus>>

DaemonSmc(c) ==
    /\ Step(c, "smc", "unlock")
    /\ UNCHANGED <<cpu_lock_mask, cmd_head, xfer_lock, callers, cmd, thread_wq,
                   slept, cpus>>

DaemonUnlock(c) ==
    /\ Step(c, "unlock", "up")
    /\ xfer_lock' = Nobody
    /\ UNCHANGED <<cpu_lock_mask, cmd_head, callers, cmd, thread_wq, slept, cpus>>

UpDone(c) ==
    /\ Step(c, "up", "look")
    /\ done_sem' = [done_sem EXCEPT ![cmd[c]] = done_sem[cmd[c]] + 1]
    /\ cmd' = [cmd EXCEPT ![c] = Nobody]
    /\ UNCHANGED <<cpu_lock_mask, cmd_head, xfer_lock, pc, picked_cpu,
                   thread_wq, slept, cpus>>

-----------------------------------------------------------------------------
(* Processor hotplug, and the notifier tee_cpu_callback *)

CpuUp(c) ==
    /\ down = Staying
    /\ c \notin online
    /\ online' = online \cup {c}
    /\ UNCHANGED <<cpu_lock_mask, cmd_head, xfer_lock, callers, daemons, down>>

CpuDown(c) ==
    /\ down = Staying
    /\ c \in online
    /\ down' = [cpu |-> c, at |-> "prepare"]
    /\ UNCHANGED <<cpu_lock_mask, cmd_head, xfer_lock, callers, daemons, online>>

\* CPU_DOWN_PREPARE, without cmd_lock: a locked core stays.
DownPrepare ==
    /\ down.at = "prepare"
    /\ down' = IF down.cpu \in cpu_lock_mask THEN Staying
                                             ELSE [down EXCEPT !.at = "dying"]
    /\ UNCHANGED <<cpu_lock_mask, cmd_head, xfer_lock, callers, daemons, online>>

CpuDead ==
    /\ down.at = "dying"
    /\ online' = online \ {down.cpu}
    /\ down' = Staying
    /\ UNCHANGED <<cpu_lock_mask, cmd_head, xfer_lock, callers, daemons>>

-----------------------------------------------------------------------------
Caller(t) ==
    \/ PickLocked(t) \/ PickOnline(t) \/ PickNone(t) \/ WakeDaemon(t)
    \/ DownDone(t) \/ BootBig(t)
    \/ LocalLock(t) \/ LocalSmc(t) \/ LocalUnlock(t)

Daemon(c) ==
    \/ TakeCommand(c) \/ NoCommand(c) \/ Woken(c)
    \/ DaemonLock(c) \/ DaemonSmc(c) \/ DaemonUnlock(c) \/ UpDone(c)

Hotplug == DownPrepare \/ CpuDead

Next ==
    \/ \E t \in Threads : Xfer(t) \/ Caller(t) \/ GiveUpBig(t)
    \/ \E c \in Big : Daemon(c) \/ CpuUp(c) \/ CpuDown(c)
    \/ Hotplug

Spec == Init /\ [][Next]_vars

Picks(t) == PickLocked(t) \/ PickOnline(t) \/ PickNone(t)

\* Threads that can run are scheduled and a core that goes down comes to an end
\* of it.  A caller that waits for the end of hotplug operations, or for
\* xfer_lock, gets its turn when that is possible again and again, and the 2 ms
\* of a caller that keeps trying do pass.
Fairness ==
    /\ \A t \in Threads :
          /\ WF_vars(Caller(t))
          /\ SF_vars(Picks(t)) /\ SF_vars(GiveUpBig(t)) /\ SF_vars(LocalLock(t))
    /\ \A c \in Big : WF_vars(Daemon(c)) /\ SF_vars(DaemonLock(c))
    /\ WF_vars(Hotplug)

-----------------------------------------------------------------------------
TypeOK ==
    /\ cpu_lock_mask \subseteq Big
    /\ cmd_head \in Seq(Threads)
    /\ xfer_lock \in Threads \cup Big \cup {Nobody}
    /\ pc \in [Threads -> CallerPC]
    /\ picked_cpu \in [Threads -> Big \cup {Nobody}]
    /\ done_sem \in [Threads -> 0..1]
    /\ daemon \in [Big -> DaemonPC]
    /\ cmd \in [Big -> Threads \cup {Nobody}]
    /\ thread_wq \subseteq Big /\ slept \subseteq Big
    /\ online \subseteq Big
    /\ down \in [cpu : Big \cup {Nobody}, at : {"none", "prepare", "dying"}]

\* The daemon of c is running, or will be.
Awake(c) ==
    \/ daemon[c] # "asleep"
    \/ c \notin thread_wq
    \/ \E t \in Threads : pc[t] = "wake" /\ picked_cpu[t] = c

\* No command is left in the queue while every daemon sleeps: a caller that
\* finds a core locked relies on it and wakes nobody (tee_smc_xfer.c:552-560).
QueueHasServer == cmd_head # <<>> => \E c \in cpu_lock_mask : Awake(c)

\* Once its daemon has started, a locked core is online, and the notifier keeps
\* it so ("locked in the online state due to running smc commands", :68-70).
LockedStaysOnline ==
    \A c \in cpu_lock_mask \cap slept :
        c \in online /\ down # [cpu |-> c, at |-> "dying"]

\* A queued command always has a core that serves it, which stays online.
CommandsHaveACore == TypeOK /\ QueueHasServer /\ LockedStaysOnline

\* A daemon works on commands only while its own core is locked, and after the
\* start one core is locked at a time.
WorkersAreLocked ==
    /\ \A c \in Big : daemon[c] \in {"lock", "smc", "unlock", "up"}
                          => c \in cpu_lock_mask
    /\ slept = Big => Cardinality(cpu_lock_mask) <= 1

\* A command is in one place: queued, worked on by one daemon, or answered; it
\* lives on its caller's stack, so nothing may refer to it once that returned.
CommandInOnePlace ==
    \A t \in Threads :
        Cardinality({n \in DOMAIN cmd_head : cmd_head[n] = t})
          + Cardinality({c \in Big : cmd[c] = t}) + done_sem[t]
        = IF pc[t] \in {"wake", "wait"} THEN 1 ELSE 0

\* Every command returns.
CommandReturns == \A t \in Threads : pc[t] # "idle" ~> pc[t] = "idle"

-----------------------------------------------------------------------------
\* Where a command stands, whoever works on it.
Working(t) == {c \in Big : cmd[c] = t}

XferStage ==
    [t \in Threads |->
        IF pc[t] = "idle" THEN "idle"
        ELSE IF pc[t] = "smc" \/ \E c \in Working(t) : daemon[c] = "smc" THEN "turn"
        ELSE IF \/ pc[t] = "unlock" \/ done_sem[t] > 0
                \/ \E c \in Working(t) : daemon[c] \in {"unlock", "up"}
             THEN "answered"
        ELSE "called"]

Service == INSTANCE RpcService WITH call <- XferStage

\* The queue, the daemons and the callers that help themselves serve one SMC at
\* a time, each to its end.
ImplementsService == Service!Spec
=============================================================================
