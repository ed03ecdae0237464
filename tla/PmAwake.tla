------------------------------ MODULE PmAwake ------------------------------
(***************************************************************************)
(* Commands against system suspend: core/pm.c.                             *)
(*                                                                         *)
(* A driver thread runs an RPMB command inside tkcore_stay_awake; the      *)
(* power-management notifier of the kernel closes the door with            *)
(* tee_prepare_suspend and reopens it with tee_post_suspend.  One atomic   *)
(* counter says which side has it, two wait queues put the other to sleep. *)
(*                                                                         *)
(* wait_event is modelled as the kernel's macro works: the waiter enters   *)
(* the queue, tests its condition and only then sleeps; wake_up takes the  *)
(* waiters off the queue, and whoever is off the queue does not sleep.     *)
(***************************************************************************)
EXTENDS Integers, FiniteSets

CONSTANTS
    Threads,            \* driver threads that call tkcore_stay_awake
    MaxStray            \* bound: resumes that no prepared suspend precedes

PmAssumption == IsFiniteSet(Threads) /\ MaxStray \in Nat

VARIABLES
    tee_wakeup_cnt,     \* the counter
    suspend_done,       \* threads in that wait queue
    awake_done,         \* the notifier is in that wait queue
    pc,                 \* where each thread stands in tkcore_stay_awake
    pm,                 \* where the notifier stands
    seen,               \* the value tee_post_suspend read from the counter
    stray,              \* history: the resumes that no prepared suspend preceded
    overwritten         \* history: tee_post_suspend stored over a change of the
                        \* counter that came after its read

queues == <<suspend_done, awake_done>>
history == <<stray, overwritten>>
vars == <<tee_wakeup_cnt, queues, pc, pm, seen, history>>

ThreadPC == {"out", "inc", "queue", "test", "asleep", "fn", "wake"}
PmPC == {"on", "read", "cmpxchg", "queue", "test", "asleep", "suspended",
         "set", "stray", "wake"}

Init ==
    /\ tee_wakeup_cnt = 0
    /\ suspend_done = {} /\ awake_done = FALSE
    /\ pc = [i \in Threads |-> "out"]
    /\ pm = "on"
    /\ seen = 0
    /\ stray = 0 /\ overwritten = FALSE

Goto(i, from, to) == pc[i] = from /\ pc' = [pc EXCEPT ![i] = to]
PmGoto(from, to) == pm = from /\ pm' = to

-----------------------------------------------------------------------------
(* tkcore_stay_awake(fn) *)

Enter(i) ==
    /\ Goto(i, "out", "inc")
    /\ UNCHANGED <<tee_wakeup_cnt, queues, pm, seen, history>>


\* atomic_inc_unless_negative
KeepAwake(i) ==
    /\ IF tee_wakeup_cnt >= 0
       THEN Goto(i, "inc", "fn") /\ tee_wakeup_cnt' = tee_wakeup_cnt + 1
       ELSE Goto(i, "inc", "queue") /\ UNCHANGED tee_wakeup_cnt
    /\ UNCHANGED <<queues, pm, seen, history>>

\* wait_event_freezable(suspend_done, tee_wakeup_cnt >= 0)
QueueForResume(i) ==
    /\ Goto(i, "queue", "test")
    /\ suspend_done' = suspend_done \cup {i}
    /\ UNCHANGED <<tee_wakeup_cnt, awake_done, pm, seen, history>>

TestForResume(i) ==
    /\ IF tee_wakeup_cnt >= 0
       THEN Goto(i, "test", "inc") /\ suspend_done' = suspend_done \ {i}
       ELSE Goto(i, "test", "asleep") /\ UNCHANGED suspend_done
    /\ UNCHANGED <<tee_wakeup_cnt, awake_done, pm, seen, history>>

WokenForResume(i) ==
    /\ i \notin suspend_done
    /\ Goto(i, "asleep", "queue")
    /\ UNCHANGED <<tee_wakeup_cnt, queues, pm, seen, history>>

\* The sleep is interruptible, and the loop starts again.
SignalForResume(i) ==
    /\ Goto(i, "asleep", "inc")
    /\ suspend_done' = suspend_done \ {i}
    /\ UNCHANGED <<tee_wakeup_cnt, awake_done, pm, seen, history>>

\* Mutant: the wake-up is sent while other commands still run.
CancelAwake_NotLast(i) ==
    /\ tee_wakeup_cnt' = tee_wakeup_cnt - 1
    /\ Goto(i, "fn", IF tee_wakeup_cnt = 1 THEN "out" ELSE "wake")
    /\ UNCHANGED <<queues, pm, seen, history>>

\* atomic_dec_and_test, after fn has returned
CancelAwake(i) ==
    /\ tee_wakeup_cnt' = tee_wakeup_cnt - 1
    /\ Goto(i, "fn", IF tee_wakeup_cnt = 1 THEN "wake" ELSE "out")
    /\ UNCHANGED <<queues, pm, seen, history>>

WakeSuspend(i) ==
    /\ Goto(i, "wake", "out")
    /\ awake_done' = FALSE
    /\ UNCHANGED <<tee_wakeup_cnt, suspend_done, pm, seen, history>>

-----------------------------------------------------------------------------
(* tee_pm_suspend_notifier *)

SuspendPrepare ==
    /\ PmGoto("on", "read")
    /\ UNCHANGED <<tee_wakeup_cnt, queues, pc, seen, history>>

\* The loop's atomic_read: a negative value is reported and accepted.
ReadCount ==
    /\ PmGoto("read", IF tee_wakeup_cnt >= 0 THEN "cmpxchg" ELSE "suspended")
    /\ UNCHANGED <<tee_wakeup_cnt, queues, pc, seen, history>>

\* Mutant: a plain store after the read, in place of the atomic exchange.
CloseDoor_Store ==
    /\ PmGoto("cmpxchg", "suspended")
    /\ tee_wakeup_cnt' = -1
    /\ UNCHANGED <<queues, pc, seen, history>>

\* atomic_cmpxchg(&tee_wakeup_cnt, 0, -1)
CloseDoor ==
    /\ IF tee_wakeup_cnt = 0
       THEN PmGoto("cmpxchg", "suspended") /\ tee_wakeup_cnt' = -1
       ELSE PmGoto("cmpxchg", "queue") /\ UNCHANGED tee_wakeup_cnt
    /\ UNCHANGED <<queues, pc, seen, history>>

\* wait_event(awake_done, tee_wakeup_cnt == 0)
QueueForIdle ==
    /\ PmGoto("queue", "test")
    /\ awake_done' = TRUE
    /\ UNCHANGED <<tee_wakeup_cnt, suspend_done, pc, seen, history>>

TestForIdle ==
    /\ IF tee_wakeup_cnt = 0
       THEN PmGoto("test", "read") /\ awake_done' = FALSE
       ELSE PmGoto("test", "asleep") /\ UNCHANGED awake_done
    /\ UNCHANGED <<tee_wakeup_cnt, suspend_done, pc, seen, history>>

WokenForIdle ==
    /\ ~awake_done
    /\ PmGoto("asleep", "queue")
    /\ UNCHANGED <<tee_wakeup_cnt, queues, pc, seen, history>>

\* tee_post_suspend: atomic_set(atomic_read + 1) is a read and a store.
PostSuspend ==
    /\ PmGoto("suspended", "set")
    /\ seen' = tee_wakeup_cnt
    /\ UNCHANGED <<tee_wakeup_cnt, queues, pc, history>>

\* Before Linux 4.10 PM_POST_SUSPEND goes to every notifier when one of them
\* refused PM_SUSPEND_PREPARE, also to those that were not asked.
StrayPostSuspend ==
    /\ stray < MaxStray
    /\ PmGoto("on", "stray")
    /\ seen' = tee_wakeup_cnt
    /\ UNCHANGED <<tee_wakeup_cnt, queues, pc, history>>

OpenDoor ==
    /\ PmGoto("set", "wake") \/ PmGoto("stray", "wake")
    /\ tee_wakeup_cnt' = seen + 1
    /\ stray' = IF pm = "stray" THEN stray + 1 ELSE stray
    /\ overwritten' = (overwritten \/ tee_wakeup_cnt # seen)
    /\ UNCHANGED <<queues, pc, seen>>

\* Mutant: one waiter at a time is woken.
WakeCommands_One ==
    /\ PmGoto("wake", "on")
    /\ \/ suspend_done = {} /\ UNCHANGED suspend_done
       \/ \E i \in suspend_done : suspend_done' = suspend_done \ {i}
    /\ UNCHANGED <<tee_wakeup_cnt, awake_done, pc, seen, history>>

WakeCommands ==
    /\ PmGoto("wake", "on")
    /\ suspend_done' = {}
    /\ UNCHANGED <<tee_wakeup_cnt, awake_done, pc, seen, history>>

-----------------------------------------------------------------------------
Command(i) ==
    \/ KeepAwake(i) \/ QueueForResume(i) \/ TestForResume(i)
    \/ WokenForResume(i) \/ CancelAwake(i) \/ WakeSuspend(i)

Preparing ==
    \/ ReadCount \/ CloseDoor \/ QueueForIdle \/ TestForIdle \/ WokenForIdle

Resuming == OpenDoor \/ WakeCommands

Next ==
    \/ \E i \in Threads : Enter(i) \/ Command(i) \/ SignalForResume(i)
    \/ SuspendPrepare \/ Preparing \/ PostSuspend \/ StrayPostSuspend \/ Resuming

Spec == Init /\ [][Next]_vars

\* Every runnable thread is scheduled, and a command that started ends; that a
\* suspend or a command begins, or a suspended system resumes, is not assumed.
Fairness ==
    /\ \A i \in Threads : WF_vars(Command(i))
    /\ WF_vars(Preparing)
    /\ WF_vars(Resuming)

-----------------------------------------------------------------------------
TypeOK ==
    /\ tee_wakeup_cnt \in Int
    /\ suspend_done \subseteq Threads
    /\ awake_done \in BOOLEAN
    /\ pc \in [Threads -> ThreadPC]
    /\ pm \in PmPC
    /\ seen \in Int
    /\ stray \in Nat /\ overwritten \in BOOLEAN

Running == {i \in Threads : pc[i] = "fn"}

\* pm.c has prepared the suspend and not yet resumed.
Suspended == pm \in {"suspended", "set"}

\* No command runs between the return of tee_prepare_suspend and the resume,
\* although a command may begin at any point of either (pm.c:9-15); also after
\* stray resumes, as long as none stored over the count of a command.
NoCommandInSuspend == ~overwritten => (Suspended => Running = {})

\* The same without its condition.
NeverInSuspend == Suspended => Running = {}

\* The counter means what the comment at pm.c:9-15 says of each of its values,
\* with each stray resume counted as one command that never ends.
CountMeansState ==
    ~overwritten =>
        /\ tee_wakeup_cnt > 0 => Running # {} \/ stray > 0
        /\ tee_wakeup_cnt < 0 => Suspended

\* The comment as it stands: positive only while commands run, negative only
\* while suspended.
CountMeansWhatItSays ==
    /\ tee_wakeup_cnt > 0 => Running # {}
    /\ tee_wakeup_cnt < 0 => Suspended

\* When no new command comes in between, a suspend that waits for the running
\* commands gets through, unless a resume was stray: no wake-up of awake_done
\* is lost.
SuspendGetsThrough ==
    (<>[][\A i \in Threads : ~KeepAwake(i)]_vars)
        => (pm \in {"read", "cmpxchg", "queue", "test", "asleep"}
                ~> Suspended \/ stray > 0)

\* When the system does not go on suspending for ever, a command that waits
\* for the resume runs, unless a resume stored over the end of another one: no
\* wake-up of suspend_done is lost.
CommandGetsThrough ==
    <>[](~Suspended) =>
        \A i \in Threads : pc[i] \in {"inc", "queue", "test", "asleep"}
                               ~> pc[i] = "fn" \/ overwritten

-----------------------------------------------------------------------------
(* The inductive invariant: the counter counts the running commands and    *)
(* the stray resumes, or is -1 when there are none and the door is closed. *)

CountIsExact ==
    ~overwritten =>
        IF Suspended THEN tee_wakeup_cnt = -1 /\ Running = {} /\ stray = 0
                     ELSE tee_wakeup_cnt = Cardinality(Running) + stray

\* Only a stray resume can find a counter that still changes.
OnlyStraysOverwrite == overwritten => stray > 0

IInv == TypeOK /\ CountIsExact /\ OnlyStraysOverwrite
=============================================================================
