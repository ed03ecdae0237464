------------------------------ MODULE MCDriver ------------------------------
(***************************************************************************)
(* Three parts of the driver that its other parts do not use: the trusted  *)
(* user interface (Tui), the way of the log (LogRing) and the load of the  *)
(* driver (TeeLoad), one at a time.  They share nothing, so a behaviour of *)
(* one with the others at rest stands for all of them.                     *)
(***************************************************************************)
EXTENDS Tui, FiniteSets

CONSTANTS
    s1, s2,
    Readers, None, TeeLogLen, LogAreaSize, Chunks, Counts, NoticeLen, MaxSeq,
    Clients, BigCores

VARIABLES
    which,                                              \* the part that runs
    tee_write_seq, tee_read_seq, log_wakeup, logd, tee_log_area, klog_head, klog_tail,
    tee_proc_enable_log, log_mutex, rd, seen, loss,     \* of LogRing
    at, has, threads, refcount, open, happened                    \* of TeeLoad

log == <<tee_write_seq, tee_read_seq, log_wakeup, logd, tee_log_area, klog_head, klog_tail,
         tee_proc_enable_log, log_mutex, rd, seen, loss>>
load == <<at, has, threads, refcount, open, happened>>

Log == INSTANCE LogRing
Loading == INSTANCE TeeLoad

ASSUME DriverAssumption ==
    IsFiniteSet(Clients) /\ BigCores \in Nat /\ Log!LogAssumption

MCInit ==
    /\ which \in {"tui", "log", "load"}
    /\ Init /\ Log!Init /\ Loading!Init

MCNext ==
    \/ /\ which = "tui"
       /\ Next
       /\ UNCHANGED <<which, log, load>>
    \/ /\ which = "log"
       /\ Log!Next
       /\ UNCHANGED <<which, vars, load>>
    \/ /\ which = "load"
       /\ Loading!Next
       /\ UNCHANGED <<which, vars, log>>

\* The fairness of Tui and of LogRing.
Logging(A) == which = "log" /\ A
MCSpec ==
    /\ MCInit /\ [][MCNext]_<<which, vars, log, load>>
    /\ WF_vars(Service) /\ \A s \in Sessions : WF_vars(Runs(s))
    /\ WF_log(Logging(Log!Logd))
    /\ \A r \in Readers : SF_log(Logging(Log!Lock(r)))
    /\ \A r \in Readers :
          WF_log(Logging(Log!LookFinds(r) \/ Log!LookSleeps(r) \/ Log!Copy(r) \/ Log!Swap(r)))

\* A read of /proc/tkcore/tkcore_log returns bytes in the order of the log,
\* newer than all that was delivered before (tee_log_read and do_klog).
ReadsFollowTheLog == Log!ReadsFollowTheLog

\* logd takes everything that was written, and a read returns while there is
\* something to read, whichever of several readers sleeps or holds the lock.
LogGetsThrough == Log!LogdCatchesUp /\ Log!ReadReturns

\* A load of the driver that fails at any of its steps gives back what it has
\* acquired, but for what the failures of the last steps do not undo, and no client
\* that opens the device after the load has one that is not started (tee_core_add,
\* tee_init_procfs, __tee_get).
LoadIsAllOrNothing == Loading!LoadIsAllOrNothing /\ Loading!ClientsHaveAStartedTee
=============================================================================
