--------------------------------- MODULE TeeLoad ---------------------------------
(***************************************************************************)
(* The driver comes up: tee_tz_init with tee_init_smc_xfer, the probe of   *)
(* the platform device, tee_core_add with the files of procfs and sysfs,   *)
(* and __tee_get, which starts the device and keeps a reference for good.  *)
(* What a step acquires, and what each failing step gives back, are members *)
(* of a set.  Every step that can fail may, the driver may be a module that *)
(* is loaded while clients open and close its node, and the device may be  *)
(* unbound: happened remembers which of it did.                            *)
(***************************************************************************)
EXTENDS Integers, FiniteSets

CONSTANTS
    Clients,
    BigCores      \* the cores that get a daemon, 0 on a platform of equal cores

VARIABLES
    at,           \* where the loading thread stands
    has,          \* what was acquired and not given back
    threads,      \* the daemons of SmcXferBL that exist
    refcount,     \* tee->refcount
    open,         \* the clients with a context
    happened      \* history: the steps that failed, an early client, an unbind

vars == <<at, has, threads, refcount, open, happened>>

Init ==
    /\ at = "bl_alloc"
    /\ has = {} /\ threads = 0 /\ refcount = 0 /\ open = {}
    /\ happened = {}

\* A step that acquires something and goes on, or fails.
Acquire(step, what, next) ==
    /\ at = step
    /\ has' = has \cup what /\ at' = next
    /\ UNCHANGED <<threads, refcount, open, happened>>
Fail(step, without, next) ==
    /\ at = step
    /\ has' = has \ without /\ at' = next
    /\ happened' = happened \cup {step}
    /\ UNCHANGED <<threads, refcount, open>>
GiveBack(step, what, next) ==
    /\ at = step
    /\ has' = has \ what /\ at' = next
    /\ UNCHANGED <<threads, refcount, open, happened>>

-----------------------------------------------------------------------------
(* tee_init_smc_xfer: platform_bl_init *)

BlAlloc ==
    \/ Acquire("bl_alloc", IF BigCores > 0 THEN {"xfer_threads"} ELSE {},
               IF BigCores > 0 THEN "bl_create" ELSE "pdev")
    \/ BigCores > 0 /\ Fail("bl_alloc", {}, "failed")
\* One daemon after another is created; an error stops those there are.
BlCreate ==
    /\ at = "bl_create"
    /\ \/ /\ threads < BigCores
          /\ threads' = threads + 1
          /\ UNCHANGED <<at, has, happened>>
       \/ /\ threads < BigCores
          /\ threads' = 0 /\ has' = has \ {"xfer_threads"} /\ at' = "failed"
          /\ happened' = happened \cup {"bl_create"}
       \/ /\ threads = BigCores
          /\ has' = has \cup {"cpu_notifier"} /\ at' = "pdev"
          /\ UNCHANGED <<threads, happened>>
    /\ UNCHANGED <<refcount, open>>
\* tee_exit_smc_xfer
BlDeinit ==
    /\ at = "exit_xfer"
    /\ threads' = 0 /\ has' = has \ {"xfer_threads", "cpu_notifier"} /\ at' = "failed"
    /\ UNCHANGED <<refcount, open, happened>>

-----------------------------------------------------------------------------
(* tee_tz_init and tz_tee_probe *)

RegisterDevice == Acquire("pdev", {"pdev"}, "pdrv") \/ Fail("pdev", {}, "exit_xfer")
\* The driver finds the device and probes it; whether the probe succeeds does
\* not show in the result.
RegisterDriver ==
    Acquire("pdrv", {"pdrv"}, "alloc") \/ Fail("pdrv", {"pdev"}, "exit_xfer")

tee_core_alloc == Acquire("alloc", {"tee"}, "misc") \/ Fail("alloc", {}, "loaded")

\* tee_core_add
MiscRegister == Acquire("misc", {"misc"}, "log_config") \/ Fail("misc", {}, "bail1")
MiscDeregister == GiveBack("misc_undo", {"misc"}, "bail1")
Bail1 == GiveBack("bail1", {"tee"}, "loaded")

-----------------------------------------------------------------------------
(* tee_init_procfs *)

LogConfig ==
    Acquire("log_config", {"ctl_map"}, "log_len") \/ Fail("log_config", {}, "misc_undo")
LogLength == Acquire("log_len", {}, "area") \/ Fail("log_len", {"ctl_map"}, "misc_undo")
LogArea == Acquire("area", {"area"}, "buf") \/ Fail("area", {"ctl_map"}, "misc_undo")
\* err0 returns r, which is 0: the device comes up without a log.
LogBuf == Acquire("buf", {"buf"}, "logd") \/ Fail("buf", {"area", "ctl_map"}, "sysfs")
\* kthread_run never returns NULL: an error goes unnoticed ...
StartLogd == Acquire("logd", {"logd"}, "irq") \/ Fail("logd", {}, "irq")
LogMemory == {"area", "buf", "ctl_map"}
\* ... until kthread_stop is given it.
StopLogd(next) == IF "logd" \in has THEN next ELSE "oops"
WithoutLog == IF "logd" \in has THEN LogMemory \cup {"logd"} ELSE {}
RequestIrq ==
    \/ Acquire("irq", {"irq"}, "entries")
    \/ Fail("irq", WithoutLog, StopLogd("misc_undo"))

\* Mutant: the interrupt is not freed.
CreateEntries_KeepsIrq ==
    \/ Acquire("entries", {"proc"}, "sysfs")
    \/ Fail("entries", WithoutLog, StopLogd("sysfs"))
\* create_entry; err3 returns 0 as well.
CreateEntries ==
    \/ Acquire("entries", {"proc"}, "sysfs")
    \/ Fail("entries", WithoutLog \cup {"irq"}, StopLogd("sysfs"))

tee_init_sysfs == Acquire("sysfs", {"sysfs"}, "get") \/ Fail("sysfs", {}, "misc_undo")

-----------------------------------------------------------------------------
(* __tee_get, tz_start and configure_shm *)

\* Only the first reference starts the device; another one fails and stays.
TeeGetFirst ==
    /\ at = "get"
    /\ refcount' = refcount + 1
    /\ IF refcount = 0 THEN has' = has \cup {"module"} /\ at' = "shm_map"
       ELSE at' = "del" /\ UNCHANGED has
    /\ UNCHANGED <<threads, open, happened>>
ShmMap == Acquire("shm_map", {"shm_map"}, "pool") \/ Fail("shm_map", {}, "get_undo")
ShmPoolCreate == Acquire("pool", {"pool"}, "loaded") \/ Fail("pool", {}, "get_undo")
TeeGetUndo ==
    /\ at = "get_undo"
    /\ refcount' = refcount - 1
    /\ has' = has \ {"module"} /\ at' = "del"
    /\ UNCHANGED <<threads, open, happened>>
\* tz_tee_deinit and tee_core_del
tee_core_del == GiveBack("del", {"sysfs", "misc", "tee"}, "loaded")

\* tz_tee_remove
tz_tee_remove ==
    /\ at = "loaded" /\ "tee" \in has
    /\ at' = "del"
    /\ happened' = happened \cup {"unbind"}
    /\ UNCHANGED <<has, threads, refcount, open>>

-----------------------------------------------------------------------------
(* The device node *)

Early == IF at = "loaded" THEN {} ELSE {"early"}

\* tee_ctx_open: tee_context_create takes a reference with tee_get.
UserOpens(c) ==
    /\ "misc" \in has /\ c \notin open
    /\ open' = open \cup {c}
    /\ refcount' = refcount + 1
    /\ happened' = happened \cup Early
    /\ UNCHANGED <<at, has, threads>>

\* tee_ctx_release and tee_put: the device is never stopped.
UserCloses(c) ==
    /\ c \in open
    /\ open' = open \ {c}
    /\ refcount' = refcount - 1
    /\ UNCHANGED <<at, has, threads, happened>>

Load ==
    \/ BlAlloc \/ BlCreate \/ BlDeinit \/ RegisterDevice \/ RegisterDriver
    \/ tee_core_alloc \/ MiscRegister \/ MiscDeregister \/ Bail1
    \/ LogConfig \/ LogLength \/ LogArea \/ LogBuf \/ StartLogd \/ RequestIrq \/ CreateEntries
    \/ tee_init_sysfs \/ TeeGetFirst \/ ShmMap \/ ShmPoolCreate \/ TeeGetUndo \/ tee_core_del
Next == Load \/ tz_tee_remove \/ \E c \in Clients : UserOpens(c) \/ UserCloses(c)

Spec == Init /\ [][Next]_vars

-----------------------------------------------------------------------------
(* Properties *)

LogParts == LogMemory \cup {"logd", "irq", "proc"}
Base == {"pdev", "pdrv"} \cup (IF BigCores > 0 THEN {"xfer_threads", "cpu_notifier"} ELSE {})

TypeOK ==
    /\ has \subseteq Base \cup LogParts \cup {"tee", "misc", "sysfs", "module", "shm_map", "pool"}
    /\ threads \in 0..BigCores /\ refcount \in 0..(Cardinality(Clients) + 1)
    /\ open \subseteq Clients

\* All of the log, with or without its daemon: see StartLogd.
FullLog == IF "logd" \in happened THEN LogParts \ {"logd"} ELSE LogParts

\* What the driver does not give back when the probe fails there: the log, and
\* what configure_shm mapped when its pool cannot be created; and when the device
\* is unbound all that __tee_get acquired.
NotUndone == {"sysfs", "shm_map", "pool", "early", "unbind"}
LeftBehind ==
    IF "unbind" \in happened THEN {"module", "shm_map", "pool"}
    ELSE IF "pool" \in happened THEN {"shm_map"} ELSE {}

\* Whichever step fails: a load that failed has given back everything, one whose
\* probe failed has everything of the probe given back but what NotUndone says, and
\* one that succeeded has a started device, with all of its log or without any
\* part of it.  It ends thus, unless a daemon that could not be started is stopped.
LoadIsAllOrNothing ==
    /\ TypeOK
    /\ at = "oops" => "logd" \in happened
    /\ at = "failed" => has = {} /\ threads = 0
    /\ at = "loaded" =>
          \E parts \in {{}, FullLog} :
              IF "tee" \in has
              THEN has = Base \cup {"tee", "misc", "sysfs", "module", "shm_map", "pool"} \cup parts
              ELSE /\ has = Base \cup LeftBehind \cup parts
                   /\ happened \cap NotUndone = {} => parts = {}

\* Whoever has the node open has a device that is started and stays, unless it was
\* opened before the end of the load or the device was unbound; and the references
\* are those of the clients and the one of the load.
ClientsHaveAStartedTee ==
    /\ happened \cap {"early", "unbind"} = {} /\ open # {} => {"tee", "pool"} \subseteq has
    /\ at = "loaded" /\ "tee" \in has => refcount = 1 + Cardinality(open)

\* A file of procfs is there only while its tee is: tee_trace_write calls it.
FilesHaveATee == at = "loaded" /\ "proc" \in has => "tee" \in has

\* A probe that failed has left nothing behind.
ProbeIsUndone == at = "loaded" /\ "tee" \notin has => has = Base

\* Whoever has the node open has a device that is started.
OpenHasATee == open # {} => {"tee", "pool"} \subseteq has
=============================================================================
