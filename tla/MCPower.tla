------------------------------ MODULE MCPower ------------------------------
(***************************************************************************)
(* Commands and power management: the big cores that may go down           *)
(* (SmcXferBL) and the suspend of the whole system (PmAwake), one at a     *)
(* time.  They share nothing, so a behaviour of one with the other at rest *)
(* stands for all of them.                                                 *)
(***************************************************************************)
EXTENDS SmcXferBL

CONSTANTS
    t1, t2, t3,
    CmdThreads,     \* the threads with a command, of PmAwake
    MaxStray

VARIABLES which,                                                \* the part that runs
          tee_wakeup_cnt, suspend_done, awake_done, pm, seen, stray, overwritten, \* of PmAwake
          gate_pc                                               \* its pc

gate == <<tee_wakeup_cnt, suspend_done, awake_done, pm, seen, stray, overwritten,
          gate_pc>>
Gate == INSTANCE PmAwake WITH pc <- gate_pc, Threads <- CmdThreads

ASSUME PowerAssumption == IsFiniteSet(CmdThreads) /\ Gate!PmAssumption

MCInit ==
    /\ which \in {"cores", "gate"}
    /\ Init /\ Gate!Init

MCNext ==
    \/ /\ which = "cores"
       /\ Next
       /\ UNCHANGED <<which, gate>>
    \/ /\ which = "gate"
       /\ Gate!Next
       /\ UNCHANGED <<which, vars>>

\* The fairness of SmcXferBL and of PmAwake.
Transfer(A) == which = "cores" /\ A
MCSpec ==
    /\ MCInit /\ [][MCNext]_<<which, vars, gate>>
    /\ \A t \in Threads :
          /\ WF_vars(Transfer(Caller(t))) /\ SF_vars(Transfer(Picks(t)))
          /\ SF_vars(Transfer(GiveUpBig(t))) /\ SF_vars(Transfer(LocalLock(t)))
    /\ \A c \in Big :
          WF_vars(Transfer(Daemon(c))) /\ SF_vars(Transfer(DaemonLock(c)))
    /\ WF_vars(Transfer(Hotplug))
    /\ Gate!Fairness

\* The suspend gate alone.
GateSpec == MCInit /\ which = "gate" /\ [][MCNext]_<<which, vars, gate>>

\* No command runs between the return of tee_prepare_suspend and the resume
\* (pm.c:9-15), unless tee_post_suspend has stored over the count of one.
NoCommandInSuspend == Gate!NoCommandInSuspend

\* No command ever runs in a suspend: running commands "stop the system from
\* suspending" (pm.c:12-13), and the store at pm.c:58 loses no change of their
\* count (pm.c:55-56).
NeverInSuspend == Gate!NeverInSuspend

\* The counter of commands means what pm.c:9-15 says of its values, as far as
\* every stray resume is taken for a command.
CountMeansState == Gate!CountMeansState

\* The counter of commands means what pm.c:9-15 says of its values.
CountMeansWhatItSays == Gate!CountMeansWhatItSays

\* A suspend that waits for the running commands gets through when no new one
\* comes in between (tee_prepare_suspend), unless a resume was stray.
SuspendGetsThrough == Gate!SuspendGetsThrough

\* A command that waits for the resume runs in the end (tee_post_suspend).
CommandGetsThrough == Gate!CommandGetsThrough
=============================================================================
