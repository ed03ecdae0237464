----------------------------- MODULE DriverProofs -----------------------------
(***************************************************************************)
(* Proofs about the parts of MCDriver: about Tui for any number of         *)
(* sessions; about TeeLoad for any number of clients and of big cores;     *)
(* about LogRing for rings of any size and any readers.                    *)
(***************************************************************************)
EXTENDS MCDriver, Sequences, FiniteSetTheorems, TLAPS

-----------------------------------------------------------------------------
(* The trusted user interface: who has it, wherever its ioctls stand. *)


\* Where a thread can stand.
Places == {"idle", "flag", "init", "lock", "copy", "START", "complete_START", "hal", "secure",
           "STOP", "complete_STOP", "activate", "mode_off"}
Ioctls == {"none", "open", "close"}

\* The interface is taken by a session that stands in its open, under the lock
\* and after a test that still holds; it is freed by one that has it, as long as
\* no other session robs it.
SessionInv(s) ==
    /\ thread[s].pc = "idle" <=> thread[s].ioc = "none"
    /\ thread[s].pc # "idle" => s \in alive
    /\ thread[s].pc \in {"copy", "START", "complete_START", "hal", "secure"} =>
          thread[s].ioc = "open"
    /\ "mutex_init" \notin misused => (thread[s].pc = "copy" <=> lock = s)
    /\ misused = {} =>
          /\ thread[s].pc \in {"copy", "START", "complete_START", "hal", "secure"} =>
                s \notin opened
          /\ thread[s].pc = "copy" => status = 0
          /\ Opening(s) => status = 1 /\ sess = s

Typed ==
    /\ lock \in Sessions \cup {Nobody} /\ status \in 0..1 /\ sess \in Sessions \cup {Nobody}
    /\ cmd_id \in {"none", "START", "STOP"} /\ took \in {"none", "START", "STOP"}
    /\ mode \subseteq Secured \cup {"TUI_SESSION"}
    /\ opened \subseteq alive /\ alive \subseteq Sessions
    /\ misused \subseteq {"mutex_init", "close"}
    /\ thread \in [Sessions -> [pc : Places, ioc : Ioctls]]

Inv == Typed /\ \A s \in Sessions : SessionInv(s)

LEMMA Beginning == Init => Inv
<1> SUFFICES ASSUME Init PROVE Inv
  OBVIOUS
<1>1. Typed
  BY DEF Init, Typed, Places, Ioctls, Secured
<1>2. \A s \in Sessions : SessionInv(s)
  BY TuiAssumption DEF Init, TuiAssumption, SessionInv, Opening
<1> QED
  BY <1>1, <1>2 DEF Inv

-----------------------------------------------------------------------------
(* One lemma for each step of an ioctl *)

LEMMA IoctlKeeps ==
    ASSUME Inv, NEW s \in Sessions, NEW ioc \in {"open", "close"}, Ioctl(s, ioc) PROVE Inv'
<1> USE TuiAssumption DEF TuiAssumption, tui, cmds, users, service, Places, Ioctls
<1>1. Typed /\ SessionInv(s)
  BY DEF Inv
<1>2. Typed'
  BY <1>1 DEF Ioctl, At, Typed, SessionInv
<1>3. SessionInv(s)'
  BY <1>1 DEF Ioctl, At, Typed, SessionInv, Opening
<1>4. ASSUME NEW u \in Sessions, u # s PROVE SessionInv(u)'
  <2>1. SessionInv(u)
    BY DEF Inv
  <2> QED
    BY <1>1, <1>4, <2>1 DEF Ioctl, At, Typed, SessionInv, Opening
<1> QED
  BY <1>2, <1>3, <1>4 DEF Inv

LEMMA TestFlagKeeps == ASSUME Inv, NEW s \in Sessions, TestFlag(s) PROVE Inv'
<1> USE TuiAssumption DEF TuiAssumption, tui, cmds, users, service, Places, Ioctls
<1>1. Typed /\ SessionInv(s)
  BY DEF Inv
<1>2. Typed'
  BY <1>1 DEF TestFlag, At, Goto, Return, Typed, SessionInv
<1>3. SessionInv(s)'
  BY <1>1 DEF TestFlag, At, Goto, Return, Typed, SessionInv, Opening
<1>4. ASSUME NEW u \in Sessions, u # s PROVE SessionInv(u)'
  <2>1. SessionInv(u)
    BY DEF Inv
  <2> QED
    BY <1>1, <1>4, <2>1 DEF TestFlag, At, Goto, Return, Typed, SessionInv, Opening
<1> QED
  BY <1>2, <1>3, <1>4 DEF Inv

LEMMA InitLockKeeps == ASSUME Inv, NEW s \in Sessions, InitLock(s) PROVE Inv'
<1> USE TuiAssumption DEF TuiAssumption, tui, cmds, users, service, Places, Ioctls
<1>1. Typed /\ SessionInv(s)
  BY DEF Inv
<1>2. Typed'
  BY <1>1 DEF InitLock, At, Goto, Return, Typed, SessionInv
<1>3. SessionInv(s)'
  BY <1>1 DEF InitLock, At, Goto, Return, Typed, SessionInv, Opening
<1>4. ASSUME NEW u \in Sessions, u # s PROVE SessionInv(u)'
  <2>1. SessionInv(u)
    BY DEF Inv
  <2> QED
    BY <1>1, <1>4, <2>1 DEF InitLock, At, Goto, Return, Typed, SessionInv, Opening
<1> QED
  BY <1>2, <1>3, <1>4 DEF Inv

LEMMA OpenTestKeeps == ASSUME Inv, NEW s \in Sessions, OpenTest(s) PROVE Inv'
<1> USE TuiAssumption DEF TuiAssumption, tui, cmds, users, service, Places, Ioctls
<1>1. Typed /\ SessionInv(s)
  BY DEF Inv
<1>2. Typed'
  BY <1>1 DEF OpenTest, At, Goto, Return, Typed, SessionInv
<1>3. SessionInv(s)'
  BY <1>1 DEF OpenTest, At, Goto, Return, Typed, SessionInv, Opening
<1>4. ASSUME NEW u \in Sessions, u # s PROVE SessionInv(u)'
  <2>1. SessionInv(u)
    BY DEF Inv
  <2> QED
    BY <1>1, <1>4, <2>1 DEF OpenTest, At, Goto, Return, Typed, SessionInv, Opening
<1> QED
  BY <1>2, <1>3, <1>4 DEF Inv

LEMMA OpenTakeKeeps == ASSUME Inv, NEW s \in Sessions, OpenTake(s) PROVE Inv'
<1> USE TuiAssumption DEF TuiAssumption, tui, cmds, users, service, Places, Ioctls
<1>1. Typed /\ SessionInv(s)
  BY DEF Inv
<1>2. Typed'
  BY <1>1 DEF OpenTake, At, Goto, Return, Typed, SessionInv
<1>3. SessionInv(s)'
  BY <1>1 DEF OpenTake, At, Goto, Return, Typed, SessionInv, Opening
<1>4. ASSUME NEW u \in Sessions, u # s PROVE SessionInv(u)'
  <2>1. SessionInv(u)
    BY DEF Inv
  <2> QED
    BY <1>1, <1>4, <2>1 DEF OpenTake, At, Goto, Return, Typed, SessionInv, Opening
<1> QED
  BY <1>2, <1>3, <1>4 DEF Inv

LEMMA CompleteStartKeeps == ASSUME Inv, NEW s \in Sessions, CompleteStart(s) PROVE Inv'
<1> USE TuiAssumption DEF TuiAssumption, tui, cmds, users, service, Places, Ioctls
<1>1. Typed /\ SessionInv(s)
  BY DEF Inv
<1>2. Typed'
  BY <1>1 DEF CompleteStart, At, Goto, Return, Typed, SessionInv
<1>3. SessionInv(s)'
  BY <1>1 DEF CompleteStart, At, Goto, Return, Typed, SessionInv, Opening
<1>4. ASSUME NEW u \in Sessions, u # s PROVE SessionInv(u)'
  <2>1. SessionInv(u)
    BY DEF Inv
  <2> QED
    BY <1>1, <1>4, <2>1 DEF CompleteStart, At, Goto, Return, Typed, SessionInv, Opening
<1> QED
  BY <1>2, <1>3, <1>4 DEF Inv

LEMMA CompleteStopKeeps == ASSUME Inv, NEW s \in Sessions, CompleteStop(s) PROVE Inv'
<1> USE TuiAssumption DEF TuiAssumption, tui, cmds, users, service, Places, Ioctls
<1>1. Typed /\ SessionInv(s)
  BY DEF Inv
<1>2. Typed'
  BY <1>1 DEF CompleteStop, At, Goto, Return, Typed, SessionInv
<1>3. SessionInv(s)'
  BY <1>1 DEF CompleteStop, At, Goto, Return, Typed, SessionInv, Opening
<1>4. ASSUME NEW u \in Sessions, u # s PROVE SessionInv(u)'
  <2>1. SessionInv(u)
    BY DEF Inv
  <2> QED
    BY <1>1, <1>4, <2>1 DEF CompleteStop, At, Goto, Return, Typed, SessionInv, Opening
<1> QED
  BY <1>2, <1>3, <1>4 DEF Inv

LEMMA HalDeactivateKeeps == ASSUME Inv, NEW s \in Sessions, HalDeactivate(s) PROVE Inv'
<1> USE TuiAssumption DEF TuiAssumption, tui, cmds, users, service, Places, Ioctls, Secured
<1>1. Typed /\ SessionInv(s)
  BY DEF Inv
<1>2. thread[s].pc = "hal" \/ thread[s].pc = "secure"
  BY DEF HalDeactivate, At
<1>3. Typed'
  <2>1. CASE thread[s].pc = "hal"
    BY <1>1, <2>1 DEF HalDeactivate, At, Goto, Return, Typed, SessionInv
  <2>2. CASE thread[s].pc = "secure"
    BY <1>1, <2>2 DEF HalDeactivate, At, Goto, Return, Typed, SessionInv
  <2> QED
    BY <1>2, <2>1, <2>2
<1>4. SessionInv(s)'
  <2>1. CASE thread[s].pc = "hal"
    BY <1>1, <2>1 DEF HalDeactivate, At, Goto, Return, Typed, SessionInv, Opening
  <2>2. CASE thread[s].pc = "secure"
    BY <1>1, <2>2 DEF HalDeactivate, At, Goto, Return, Typed, SessionInv, Opening
  <2> QED
    BY <1>2, <2>1, <2>2
<1>5. ASSUME NEW u \in Sessions, u # s PROVE SessionInv(u)'
  <2>1. SessionInv(u)
    BY DEF Inv
  <2> QED
    BY <1>1, <1>5, <2>1 DEF HalDeactivate, At, Goto, Return, Typed, SessionInv, Opening
<1> QED
  BY <1>3, <1>4, <1>5 DEF Inv

LEMMA HalFailsKeeps == ASSUME Inv, NEW s \in Sessions, HalFails(s) PROVE Inv'
<1> USE TuiAssumption DEF TuiAssumption, tui, cmds, users, service, Places, Ioctls
<1>1. Typed /\ SessionInv(s)
  BY DEF Inv
<1>2. Typed'
  BY <1>1 DEF HalFails, At, Goto, Return, Typed, SessionInv
<1>3. SessionInv(s)'
  BY <1>1 DEF HalFails, At, Goto, Return, Typed, SessionInv, Opening
<1>4. ASSUME NEW u \in Sessions, u # s PROVE SessionInv(u)'
  <2>1. SessionInv(u)
    BY DEF Inv
  <2> QED
    BY <1>1, <1>4, <2>1 DEF HalFails, At, Goto, Return, Typed, SessionInv, Opening
<1> QED
  BY <1>2, <1>3, <1>4 DEF Inv

LEMMA CloseFreeKeeps == ASSUME Inv, NEW s \in Sessions, CloseFree(s) PROVE Inv'
<1> USE TuiAssumption DEF TuiAssumption, tui, cmds, users, service, Places, Ioctls
<1>1. Typed /\ SessionInv(s)
  BY DEF Inv
<1>2. Typed'
  BY <1>1 DEF CloseFree, At, Goto, Return, Typed, SessionInv
<1>3. SessionInv(s)'
  BY <1>1 DEF CloseFree, At, Goto, Return, Typed, SessionInv, Opening
<1>4. ASSUME NEW u \in Sessions, u # s PROVE SessionInv(u)'
  <2>1. SessionInv(u)
    BY DEF Inv
  <2> QED
    BY <1>1, <1>4, <2>1 DEF CloseFree, At, Goto, Return, Typed, SessionInv, Opening
<1> QED
  BY <1>2, <1>3, <1>4 DEF Inv

LEMMA HalActivateKeeps == ASSUME Inv, NEW s \in Sessions, HalActivate(s) PROVE Inv'
<1> USE TuiAssumption DEF TuiAssumption, tui, cmds, users, service, Places, Ioctls, Secured
<1>1. Typed /\ SessionInv(s)
  BY DEF Inv
<1>2. thread[s].pc = "activate" \/ thread[s].pc = "mode_off"
  BY DEF HalActivate, At
<1>3. Typed'
  <2>1. CASE thread[s].pc = "activate"
    BY <1>1, <2>1 DEF HalActivate, At, Goto, Return, Typed, SessionInv
  <2>2. CASE thread[s].pc = "mode_off"
    BY <1>1, <2>2 DEF HalActivate, At, Goto, Return, Typed, SessionInv
  <2> QED
    BY <1>2, <2>1, <2>2
<1>4. SessionInv(s)'
  <2>1. CASE thread[s].pc = "activate"
    BY <1>1, <2>1 DEF HalActivate, At, Goto, Return, Typed, SessionInv, Opening
  <2>2. CASE thread[s].pc = "mode_off"
    BY <1>1, <2>2 DEF HalActivate, At, Goto, Return, Typed, SessionInv, Opening
  <2> QED
    BY <1>2, <2>1, <2>2
<1>5. ASSUME NEW u \in Sessions, u # s PROVE SessionInv(u)'
  <2>1. SessionInv(u)
    BY DEF Inv
  <2> QED
    BY <1>1, <1>5, <2>1 DEF HalActivate, At, Goto, Return, Typed, SessionInv, Opening
<1> QED
  BY <1>3, <1>4, <1>5 DEF Inv

LEMMA DieKeeps == ASSUME Inv, NEW s \in Sessions, Die(s) PROVE Inv'
<1> USE TuiAssumption DEF TuiAssumption, tui, cmds, users, service, Places, Ioctls
<1>1. Typed /\ SessionInv(s)
  BY DEF Inv
<1>2. Typed'
  BY <1>1 DEF Die, At, Typed, SessionInv
<1>3. SessionInv(s)'
  BY <1>1 DEF Die, At, Typed, SessionInv, Opening
<1>4. ASSUME NEW u \in Sessions, u # s PROVE SessionInv(u)'
  <2>1. SessionInv(u)
    BY DEF Inv
  <2> QED
    BY <1>1, <1>4, <2>1 DEF Die, At, Typed, SessionInv, Opening
<1> QED
  BY <1>2, <1>3, <1>4 DEF Inv

LEMMA SendCmdKeeps ==
    ASSUME Inv, NEW s \in Sessions, NEW c \in {"START", "STOP"}, SendCmd(s, c) PROVE Inv'
<1> USE TuiAssumption DEF TuiAssumption, tui, cmds, users, service, Places, Ioctls
<1>1. Typed /\ SessionInv(s)
  BY DEF Inv
<1>2. Typed'
  BY <1>1 DEF SendCmd, At, Goto, Typed, SessionInv
<1>3. SessionInv(s)'
  BY <1>1 DEF SendCmd, At, Goto, Typed, SessionInv, Opening
<1>4. ASSUME NEW u \in Sessions, u # s PROVE SessionInv(u)'
  <2>1. SessionInv(u)
    BY DEF Inv
  <2> QED
    BY <1>1, <1>4, <2>1 DEF SendCmd, At, Goto, Typed, SessionInv, Opening
<1> QED
  BY <1>2, <1>3, <1>4 DEF Inv

-----------------------------------------------------------------------------
(* The service's steps, and all of them together *)

LEMMA ServiceKeeps == ASSUME Inv, Service \/ UNCHANGED vars PROVE Inv'
<1>1. /\ UNCHANGED <<tui, mode, thread, users>>
      /\ cmd_id' = cmd_id /\ (took' = took \/ took' = cmd_id)
  BY DEF Service, WaitCompletion, Reset, ReadCmd, vars, cmds, service
<1>2. Typed'
  BY <1>1 DEF Inv, Typed, tui, users
<1>3. ASSUME NEW s \in Sessions PROVE SessionInv(s)'
  <2>1. SessionInv(s)
    BY DEF Inv
  <2> QED
    BY <1>1, <2>1 DEF SessionInv, Opening, tui, users
<1> QED
  BY <1>2, <1>3 DEF Inv

LEMMA Preserved == Inv /\ [Next]_vars => Inv'
<1> SUFFICES ASSUME Inv, [Next]_vars PROVE Inv'
  OBVIOUS
<1>1. ASSUME NEW s \in Sessions, TuiOpen(s) \/ TuiClose(s) \/ Die(s) PROVE Inv'
  BY <1>1, IoctlKeeps, DieKeeps DEF TuiOpen, TuiClose
<1>2. ASSUME NEW s \in Sessions, Runs(s) PROVE Inv'
  <2>1. CASE TestFlag(s) \/ InitLock(s) \/ OpenTest(s) \/ OpenTake(s)
    BY <2>1, TestFlagKeeps, InitLockKeeps, OpenTestKeeps, OpenTakeKeeps
  <2>2. CASE SendCmd(s, "START") \/ SendCmd(s, "STOP")
    BY <2>2, SendCmdKeeps
  <2>3. CASE CompleteStart(s) \/ CompleteStop(s)
    BY <2>3, CompleteStartKeeps, CompleteStopKeeps
  <2>4. CASE HalDeactivate(s) \/ HalFails(s)
    BY <2>4, HalDeactivateKeeps, HalFailsKeeps
  <2>5. CASE CloseFree(s) \/ HalActivate(s)
    BY <2>5, CloseFreeKeeps, HalActivateKeeps
  <2> QED
    BY <1>2, <2>1, <2>2, <2>3, <2>4, <2>5 DEF Runs
<1>3. CASE Service \/ UNCHANGED vars
  BY <1>3, ServiceKeeps
<1> QED
  BY <1>1, <1>2, <1>3 DEF Next

TuiInv == Inv /\ flag_tui_obj \in BOOLEAN

LEMMA FlagIsBoolean == flag_tui_obj \in BOOLEAN /\ [Next]_vars => flag_tui_obj' \in BOOLEAN
<1> SUFFICES ASSUME flag_tui_obj \in BOOLEAN, [Next]_vars PROVE flag_tui_obj' \in BOOLEAN
  OBVIOUS
<1>1. flag_tui_obj' = TRUE \/ flag_tui_obj' = flag_tui_obj
  <2>1. ASSUME NEW s \in Sessions, TuiOpen(s) \/ TuiClose(s) \/ Die(s)
        PROVE  flag_tui_obj' = flag_tui_obj
    BY <2>1 DEF TuiOpen, TuiClose, Ioctl, Die, tui
  <2>2. ASSUME NEW s \in Sessions, Runs(s)
        PROVE  flag_tui_obj' = TRUE \/ flag_tui_obj' = flag_tui_obj
    BY <2>2 DEF Runs, TestFlag, InitLock, OpenTest, OpenTake, SendCmd, CompleteStart,
                CompleteStop, HalDeactivate, HalFails, CloseFree, HalActivate, tui
  <2>3. ASSUME Service \/ UNCHANGED vars
        PROVE  flag_tui_obj' = flag_tui_obj
    BY <2>3 DEF Service, WaitCompletion, Reset, ReadCmd, vars, tui
  <2> QED
    BY <2>1, <2>2, <2>3 DEF Next
<1> QED
  BY <1>1, Zenon

\* The trusted user interface has one owner at a time, who is the session that
\* g_tui_obj names, between the open that returned 0 and its close, until another
\* session closes it or initialises the mutex under a holder.
THEOREM OwnerIsAlone == Spec => []OneOwner
<1>1. Init => TuiInv
  <2>1. Init => flag_tui_obj \in BOOLEAN
    BY ZenonT(10) DEF Init
  <2> QED
    BY <2>1, Beginning DEF TuiInv
<1>2. TuiInv /\ [Next]_vars => TuiInv'
  BY Preserved, FlagIsBoolean DEF TuiInv
<1>3. TuiInv => OneOwner
  <2> SUFFICES ASSUME Inv, flag_tui_obj \in BOOLEAN PROVE OneOwner
    BY DEF TuiInv
  <2>1. TypeOK
    BY DEF Inv, Typed, TypeOK
  <2>2. misused = {} => OwnerIsNamed
    BY DEF Inv, SessionInv, OwnerIsNamed
  <2>3. "mutex_init" \notin misused =>
            \A s, t \in Sessions : At(s, "copy") /\ At(t, "copy") => s = t
    BY DEF Inv, SessionInv, At
  <2> QED
    BY <2>1, <2>2, <2>3 DEF OneOwner
<1> QED
  BY <1>1, <1>2, <1>3, PTL DEF Spec

-----------------------------------------------------------------------------
(* The load of the driver: what it holds wherever it stands. *)

LogMemory == {"area", "buf", "ctl_map"}
LogParts == LogMemory \cup {"logd", "irq", "proc"}
Base == {"pdev", "pdrv"} \cup (IF BigCores > 0 THEN {"xfer_threads", "cpu_notifier"} ELSE {})
Node == Base \cup {"tee", "misc"}
Started == {"sysfs", "module", "shm_map", "pool"}
Logd == IF "logd" \in happened THEN {} ELSE {"logd"}
FullLog == LogMemory \cup {"irq", "proc"} \cup Logd
WithLog(more) == \E parts \in {{}, FullLog} : has = more \cup parts

\* What is left at the end of a probe that failed, or of a device unbound.
Ended ==
    /\ WithLog(Base \cup Loading!LeftBehind)
    /\ happened \cap Loading!NotUndone = {} => has = Base

Early ==
    {"bl_alloc", "bl_create", "pdev", "pdrv", "exit_xfer", "failed", "alloc", "misc",
     "log_config", "log_len", "area", "buf", "logd"}
Late == {"irq", "entries", "sysfs", "get", "shm_map", "pool"}
Undoing == {"misc_undo", "bail1", "get_undo", "del", "oops"}
Stages == Early \cup Late \cup Undoing \cup {"loaded"}

\* On the way up nothing has happened that is not undone, and before the log's
\* daemon is started its start has not failed.
Happened ==
    /\ at \in Early => "logd" \notin happened
    /\ at \in Early \cup Late => happened \cap {"sysfs", "shm_map", "pool", "unbind"} = {}
    /\ at = "get_undo" => happened \cap {"shm_map", "pool"} # {} /\ "unbind" \notin happened
    /\ at = "del" => happened \cap Loading!NotUndone # {}
    /\ at \in {"misc_undo", "bail1"} => happened \cap {"shm_map", "pool", "unbind"} = {}
    /\ at = "oops" => "logd" \in happened
    /\ "unbind" \in happened => "pool" \notin happened

Holds ==
    /\ at \in {"bl_alloc", "failed"} => has = {}
    /\ at = "bl_create" => has = {"xfer_threads"} /\ BigCores > 0
    /\ at \in {"pdev", "exit_xfer"} => has = Base \ {"pdev", "pdrv"}
    /\ at = "pdrv" => has = Base \ {"pdrv"}
    /\ at = "alloc" => has = Base
    /\ at = "misc" => has = Base \cup {"tee"}
    /\ at = "log_config" => has = Node
    /\ at \in {"log_len", "area"} => has = Node \cup {"ctl_map"}
    /\ at = "buf" => has = Node \cup {"ctl_map", "area"}
    /\ at = "logd" => has = Node \cup LogMemory
    /\ at = "irq" => has = Node \cup LogMemory \cup Logd
    /\ at = "entries" => has = Node \cup LogMemory \cup Logd \cup {"irq"}
    /\ at = "sysfs" => WithLog(Node)
    /\ at = "get" => WithLog(Node \cup {"sysfs"})
    /\ at = "shm_map" => WithLog(Node \cup {"sysfs", "module"})
    /\ at = "pool" => WithLog(Node \cup {"sysfs", "module", "shm_map"})

HoldsUndoing ==
    /\ at = "misc_undo" => WithLog(Node) /\ ("sysfs" \notin happened => has = Node)
    /\ at = "bail1" =>
          /\ WithLog(Base \cup {"tee"})
          /\ "sysfs" \notin happened => has = Base \cup {"tee"}
    /\ at = "get_undo" => WithLog(Node \cup {"sysfs", "module"} \cup Loading!LeftBehind)
    /\ at = "del" => WithLog(Node \cup {"sysfs"} \cup Loading!LeftBehind)
    /\ at = "oops" => has \subseteq Node \cup LogMemory \cup {"irq"}
    /\ at = "loaded" /\ "tee" \in has =>
          /\ WithLog(Node \cup Started)
          /\ happened \cap {"shm_map", "pool", "unbind"} = {}
    /\ at = "loaded" /\ "tee" \notin has => Ended

\* The references are those of the clients and the one of the load, where it has one.
LoadRefs == refcount - Cardinality(open)
References ==
    /\ open \subseteq Clients
    /\ refcount \in Int /\ LoadRefs \in {0, 1}
    /\ at \in {"shm_map", "pool", "get_undo"} => LoadRefs = 1
    /\ at \notin {"shm_map", "pool", "get_undo", "del", "loaded"} => LoadRefs = 0
    /\ at = "loaded" /\ "tee" \in has => LoadRefs = 1
    /\ happened \cap {"early", "unbind"} = {} /\ open # {} => at = "loaded" /\ "tee" \in has

LoadInv ==
    /\ at \in Stages /\ Happened /\ Holds /\ HoldsUndoing /\ References
    /\ threads \in 0..BigCores
    /\ at \in {"bl_alloc", "failed"} => threads = 0

LEMMA LoadCardinality == \A S : Loading!Cardinality(S) = Cardinality(S)
  BY DEF Loading!Cardinality, Cardinality

LEMMA OpenFinite ==
    ASSUME open \subseteq Clients
    PROVE  /\ IsFiniteSet(open) /\ Cardinality(open) \in Nat
           /\ Cardinality(open) = 0 <=> open = {}
           /\ Cardinality(Clients) \in Nat /\ Cardinality(open) <= Cardinality(Clients)
  BY DriverAssumption, FS_Subset, FS_CardinalityType, FS_EmptySet DEF DriverAssumption

LEMMA LoadBegins == Loading!Init => LoadInv
<1> SUFFICES ASSUME Loading!Init PROVE LoadInv
  OBVIOUS
<1>1. at = "bl_alloc" /\ has = {} /\ threads = 0 /\ refcount = 0 /\ open = {} /\ happened = {}
  BY DEF Loading!Init
<1>2. LoadRefs = 0
  BY <1>1, FS_EmptySet DEF LoadRefs
<1> QED
  BY <1>1, <1>2, DriverAssumption
     DEF DriverAssumption, LoadInv, Stages, Early, Happened, Holds, HoldsUndoing, References

\* Steps that acquire something, fail or give back.
LEMMA LoadSteps ==
    ASSUME LoadInv, Loading!Load PROVE LoadInv'
<1> USE DEF Loading!Acquire, Loading!Fail, Loading!GiveBack
<1>0. /\ at \in Stages /\ Happened /\ Holds /\ HoldsUndoing /\ References
      /\ threads \in 0..BigCores /\ BigCores \in Nat
  BY DriverAssumption DEF LoadInv, DriverAssumption
<1>1. CASE Loading!BlAlloc
  BY <1>0, <1>1
     DEF Loading!BlAlloc,
         Stages, Early, Late, Undoing, Happened, Holds, HoldsUndoing, References, LoadRefs, LoadInv, Base
<1>2. CASE Loading!BlCreate
  BY <1>0, <1>2
     DEF Loading!BlCreate,
         Stages, Early, Late, Undoing, Happened, Holds, HoldsUndoing, References, LoadRefs, LoadInv, Base
<1>3. CASE Loading!BlDeinit
  BY <1>0, <1>3
     DEF Loading!BlDeinit,
         Stages, Early, Late, Undoing, Happened, Holds, HoldsUndoing, References, LoadRefs, LoadInv, Base
<1>4. CASE Loading!RegisterDevice \/ Loading!RegisterDriver
  BY <1>0, <1>4
     DEF Loading!RegisterDevice, Loading!RegisterDriver,
         Stages, Early, Late, Undoing, Happened, Holds, HoldsUndoing, References, LoadRefs, LoadInv, Base
<1>5. CASE Loading!tee_core_alloc
  BY <1>0, <1>5
     DEF Loading!tee_core_alloc,
         Stages, Early, Late, Undoing, Happened, Holds, HoldsUndoing, References, LoadRefs, LoadInv, Base, Node, Ended, WithLog, Loading!LeftBehind
<1>6. CASE Loading!MiscRegister
  BY <1>0, <1>6
     DEF Loading!MiscRegister,
         Stages, Early, Late, Undoing, Happened, Holds, HoldsUndoing, References, LoadRefs, LoadInv, Base, Node, WithLog
<1>7. CASE Loading!MiscDeregister
  BY <1>0, <1>7
     DEF Loading!MiscDeregister,
         Stages, Early, Late, Undoing, Happened, Holds, HoldsUndoing, References, LoadRefs, LoadInv, Base, Node, WithLog, FullLog, Logd, LogMemory
<1>8. CASE Loading!Bail1
  BY <1>0, <1>8
     DEF Loading!Bail1,
         Stages, Early, Late, Undoing, Happened, Holds, HoldsUndoing, References, LoadRefs, LoadInv, Base, Node, WithLog, FullLog, Logd, LogMemory, Ended, Loading!LeftBehind, Loading!NotUndone
<1>9. CASE Loading!LogConfig \/ Loading!LogLength \/ Loading!LogArea
  BY <1>0, <1>9
     DEF Loading!LogConfig, Loading!LogLength, Loading!LogArea,
         Stages, Early, Late, Undoing, Happened, Holds, HoldsUndoing, References, LoadRefs, LoadInv, Base, Node, WithLog
<1>10. CASE Loading!LogBuf
  BY <1>0, <1>10
     DEF Loading!LogBuf,
         Stages, Early, Late, Undoing, Happened, Holds, HoldsUndoing, References, LoadRefs, LoadInv, Base, Node, LogMemory, WithLog
<1>11. CASE Loading!StartLogd
  BY <1>0, <1>11
     DEF Loading!StartLogd,
         Stages, Early, Late, Undoing, Happened, Holds, HoldsUndoing, References, LoadRefs, LoadInv, Base, Node, LogMemory, Logd
<1>12. CASE Loading!RequestIrq
  BY <1>0, <1>12
     DEF Loading!RequestIrq,
         Stages, Early, Late, Undoing, Happened, Holds, HoldsUndoing, References, LoadRefs, LoadInv, Base, Node, LogMemory, Logd, WithLog, Loading!WithoutLog, Loading!StopLogd, Loading!LogMemory
<1>13. CASE Loading!CreateEntries
  BY <1>0, <1>13
     DEF Loading!CreateEntries,
         Stages, Early, Late, Undoing, Happened, Holds, HoldsUndoing, References, LoadRefs, LoadInv, Base, Node, LogMemory, Logd, WithLog, FullLog, Loading!WithoutLog, Loading!StopLogd, Loading!LogMemory
<1>14. CASE Loading!tee_init_sysfs
  BY <1>0, <1>14
     DEF Loading!tee_init_sysfs,
         Stages, Early, Late, Undoing, Happened, Holds, HoldsUndoing, References, LoadRefs, LoadInv, Base, Node, WithLog, FullLog, Logd, LogMemory
<1>15. CASE Loading!TeeGetFirst
  <2> USE <1>15 DEF Loading!TeeGetFirst
  <2>1. /\ at = "get" /\ refcount = Cardinality(open) /\ Cardinality(open) \in Nat
        /\ Cardinality(open) = 0 <=> open = {}
        /\ WithLog(Node \cup {"sysfs"}) /\ happened' = happened /\ UNCHANGED <<threads, open>>
    BY <1>0, OpenFinite DEF References, LoadRefs, Holds
  <2>2. LoadRefs' = 1 /\ refcount' \in Int
    BY <2>1 DEF LoadRefs
  <2>3. Loading!LeftBehind = {} /\ happened \cap {"sysfs", "shm_map", "pool", "unbind"} = {}
    BY <1>0, <2>1 DEF Happened, Late, Loading!LeftBehind
  <2>4. CASE refcount = 0
    <3>1. at' = "shm_map" /\ has' = has \cup {"module"}
      BY <2>4
    <3>2. WithLog(Node \cup {"sysfs", "module"})'
      BY <2>1, <3>1 DEF WithLog, FullLog, Logd
    <3>3. Happened' /\ Holds' /\ HoldsUndoing'
      BY <1>0, <2>1, <2>3, <3>1, <3>2 DEF Happened, Holds, HoldsUndoing, Early, Late
    <3>4. References'
      BY <1>0, <2>1, <2>2, <2>4, <3>1 DEF References
    <3> QED
      BY <1>0, <2>1, <3>1, <3>3, <3>4 DEF LoadInv, Stages, Late
  <2>5. CASE refcount # 0
    <3>1. at' = "del" /\ has' = has /\ open # {}
      BY <2>1, <2>5
    <3>2. "early" \in happened
      BY <1>0, <2>1, <2>3, <3>1 DEF References
    <3>3. WithLog(Node \cup {"sysfs"} \cup Loading!LeftBehind)'
      BY <2>1, <2>3, <3>1 DEF WithLog, FullLog, Logd, Loading!LeftBehind
    <3>4. Happened' /\ Holds' /\ HoldsUndoing'
      BY <1>0, <2>1, <2>3, <3>1, <3>2, <3>3
         DEF Happened, Holds, HoldsUndoing, Early, Late, Loading!NotUndone
    <3>5. References'
      BY <1>0, <2>1, <2>2, <3>1, <3>2 DEF References
    <3> QED
      BY <1>0, <2>1, <3>1, <3>4, <3>5 DEF LoadInv, Stages, Undoing
  <2> QED
    BY <2>4, <2>5
<1>16. CASE Loading!ShmMap
  BY <1>0, <1>16
     DEF Loading!ShmMap,
         Stages, Early, Late, Undoing, Happened, Holds, HoldsUndoing, References, LoadRefs, LoadInv, Base, Node, WithLog, FullLog, Logd, Loading!LeftBehind
<1>17. CASE Loading!ShmPoolCreate
  BY <1>0, <1>17
     DEF Loading!ShmPoolCreate,
         Stages, Early, Late, Undoing, Happened, Holds, HoldsUndoing, References, LoadRefs, LoadInv, Base, Node, Started, WithLog, FullLog, Logd, Loading!LeftBehind
<1>18. CASE Loading!TeeGetUndo
  <2>1. /\ at = "get_undo" /\ at' = "del" /\ has' = has \ {"module"} /\ refcount' = refcount - 1
        /\ UNCHANGED <<threads, open, happened>>
    BY <1>18 DEF Loading!TeeGetUndo
  <2>2. /\ WithLog(Node \cup {"sysfs", "module"} \cup Loading!LeftBehind)
        /\ happened \cap {"shm_map", "pool"} # {} /\ "unbind" \notin happened
    BY <1>0, <2>1 DEF HoldsUndoing, Happened
  <2>3. LoadRefs = 1 /\ LoadRefs' = 0 /\ refcount' \in Int
    BY <1>0, <2>1, OpenFinite DEF References, LoadRefs
  <2>4. "module" \notin Node \cup FullLog \cup Loading!LeftBehind
    BY <2>2 DEF Node, Base, FullLog, Logd, LogMemory, Loading!LeftBehind
  <2>5. WithLog(Node \cup {"sysfs"} \cup Loading!LeftBehind)'
    <3>1. PICK parts \in {{}, FullLog} :
              has = Node \cup {"sysfs", "module"} \cup Loading!LeftBehind \cup parts
      BY <2>2 DEF WithLog
    <3>2. has' = Node \cup {"sysfs"} \cup Loading!LeftBehind \cup parts
      BY <2>1, <2>4, <3>1
    <3> QED
      BY <2>1, <3>1, <3>2 DEF WithLog, FullLog, Logd, Loading!LeftBehind
  <2>6. Happened' /\ Holds' /\ HoldsUndoing'
    BY <1>0, <2>1, <2>2, <2>5
       DEF Happened, Holds, HoldsUndoing, Early, Late, Loading!NotUndone
  <2>7. References'
    BY <1>0, <2>1, <2>3 DEF References
  <2> QED
    BY <1>0, <2>1, <2>6, <2>7 DEF LoadInv, Stages, Undoing
<1>19. CASE Loading!tee_core_del
  BY <1>0, <1>19
     DEF Loading!tee_core_del,
         Stages, Early, Late, Undoing, Happened, Holds, HoldsUndoing, References, LoadRefs, LoadInv, Base, Node, WithLog, FullLog, Logd, LogMemory, Ended, Loading!LeftBehind, Loading!NotUndone
<1> QED
  BY <1>1, <1>2, <1>3, <1>4, <1>5, <1>6, <1>7, <1>8, <1>9, <1>10, <1>11, <1>12, <1>13, <1>14, <1>15, <1>16, <1>17, <1>18, <1>19 DEF Loading!Load

\* The device is unbound.
LEMMA Unbinding == ASSUME LoadInv, Loading!tz_tee_remove PROVE LoadInv'
<1>0. /\ at = "loaded" /\ "tee" \in has /\ at' = "del" /\ happened' = happened \cup {"unbind"}
      /\ UNCHANGED <<has, threads, refcount, open>>
  BY DEF Loading!tz_tee_remove
<1>1. WithLog(Node \cup Started) /\ happened \cap {"shm_map", "pool", "unbind"} = {}
  BY <1>0 DEF LoadInv, HoldsUndoing
<1>2. Logd' = Logd /\ Loading!LeftBehind' = {"module", "shm_map", "pool"}
  BY <1>0 DEF Logd, Loading!LeftBehind
<1>3. WithLog(Node \cup {"sysfs"} \cup Loading!LeftBehind)'
  BY <1>0, <1>1, <1>2 DEF WithLog, FullLog, Node, Started, Base
<1>4. Happened' /\ Holds' /\ HoldsUndoing'
  BY <1>0, <1>1, <1>3
     DEF LoadInv, Happened, Holds, HoldsUndoing, Early, Late, Loading!NotUndone
<1>5. References'
  BY <1>0 DEF LoadInv, References, LoadRefs
<1> QED
  BY <1>0, <1>4, <1>5 DEF LoadInv, Stages, Undoing

\* A client opens or closes the node.
LEMMA UserSteps ==
    ASSUME LoadInv, NEW c \in Clients, Loading!UserOpens(c) \/ Loading!UserCloses(c)
    PROVE  LoadInv'
<1>0. /\ UNCHANGED <<at, has, threads>> /\ open' \subseteq Clients
      /\ at \in Stages /\ Happened /\ Holds /\ HoldsUndoing /\ References
  BY DEF LoadInv, References, Loading!UserOpens, Loading!UserCloses
<1>1. happened' = happened \/ happened' = happened \cup {"early"}
  BY DEF Loading!UserOpens, Loading!UserCloses, Loading!Early
<1>2. LoadRefs' = LoadRefs /\ refcount' \in Int
  <2>1. IsFiniteSet(open) /\ Cardinality(open) \in Nat /\ refcount \in Int
    BY <1>0, OpenFinite DEF References
  <2>2. CASE Loading!UserOpens(c)
    <3>1. Cardinality(open \cup {c}) = Cardinality(open) + 1
      BY <2>1, <2>2, FS_AddElement DEF Loading!UserOpens
    <3> QED
      BY <2>1, <2>2, <3>1 DEF Loading!UserOpens, LoadRefs
  <2>3. CASE Loading!UserCloses(c)
    <3>1. Cardinality(open \ {c}) = Cardinality(open) - 1
      BY <2>1, <2>3, FS_RemoveElement DEF Loading!UserCloses
    <3> QED
      BY <2>1, <2>3, <3>1 DEF Loading!UserCloses, LoadRefs
  <2> QED
    BY <2>2, <2>3
<1>3. ~ (at = "loaded" /\ "tee" \in has) /\ Loading!UserOpens(c) => happened' = happened \cup {"early"}
  <2>1. at = "loaded" /\ "tee" \notin has => "misc" \notin has
    BY <1>0 DEF HoldsUndoing, Ended, WithLog, Base, FullLog, Logd, LogMemory, Loading!LeftBehind
  <2> QED
    BY <2>1 DEF Loading!UserOpens, Loading!Early
<1>4. References'
  BY <1>0, <1>1, <1>2, <1>3 DEF References, Loading!UserOpens, Loading!UserCloses
<1>5. Logd' = Logd /\ Loading!LeftBehind' = Loading!LeftBehind
  BY <1>1 DEF Logd, Loading!LeftBehind
<1>6. Happened' /\ Holds' /\ HoldsUndoing'
  BY <1>0, <1>1, <1>5
     DEF Happened, Holds, HoldsUndoing, WithLog, FullLog, Ended, Loading!NotUndone
<1> QED
  BY <1>0, <1>4, <1>6 DEF LoadInv

LEMMA LoadKept == LoadInv /\ [Loading!Next]_load => LoadInv'
<1> SUFFICES ASSUME LoadInv, [Loading!Next]_load PROVE LoadInv'
  OBVIOUS
<1>1. CASE UNCHANGED load
  BY <1>1
     DEF load, LoadInv, Happened, Holds, HoldsUndoing, References, LoadRefs, WithLog, FullLog,
         Logd, Ended, Loading!LeftBehind
<1> QED
  BY <1>1, LoadSteps, Unbinding, UserSteps DEF Loading!Next

Known == Base \cup LogParts \cup {"tee", "misc", "sysfs", "module", "shm_map", "pool"}

LEMMA LoadInvImplies == LoadInv => LoadIsAllOrNothing
<1> SUFFICES ASSUME LoadInv PROVE LoadIsAllOrNothing
  OBVIOUS
<1>0. /\ Holds /\ HoldsUndoing /\ Happened /\ References /\ at \in Stages
      /\ threads \in 0..BigCores
      /\ at \in {"bl_alloc", "failed"} => threads = 0
  BY DEF LoadInv
<1>1. /\ Loading!Base = Base /\ Loading!LogParts = LogParts /\ Loading!FullLog = FullLog
      /\ Node \cup Started = Base \cup {"tee", "misc", "sysfs", "module", "shm_map", "pool"}
  BY DEF Loading!Base, Base, Loading!LogParts, LogParts, Loading!LogMemory, LogMemory,
         Loading!FullLog, FullLog, Logd, Node, Started
<1>2. has \subseteq Base \cup LogParts \cup {"tee", "misc", "sysfs", "module", "shm_map", "pool"}
  <2> SUFFICES has \subseteq Known
    BY DEF Known
  <2>1. FullLog \subseteq LogParts /\ Logd \subseteq LogParts /\ LogMemory \subseteq LogParts
    BY DEF FullLog, Logd, LogParts, LogMemory
  <2>2. Loading!LeftBehind \subseteq {"module", "shm_map", "pool"}
    BY DEF Loading!LeftBehind
  <2>3. CASE at \in Early \cup Late
    BY <1>0, <2>1, <2>3
       DEF Holds, Early, Late, WithLog, Node, Base, LogParts, LogMemory, Known
  <2>4. \A S : S \subseteq Known /\ WithLog(S) => has \subseteq Known
    BY <2>1 DEF WithLog, Known
  <2>5. /\ Node \subseteq Known /\ Base \subseteq Known /\ Started \subseteq Known
        /\ LogParts \subseteq Known /\ Loading!LeftBehind \subseteq Known
        /\ {"tee", "misc", "sysfs", "module", "shm_map", "pool"} \subseteq Known
    BY <2>2 DEF Node, Started, Known
  <2>6. CASE at \in {"misc_undo", "bail1", "get_undo", "del"}
    <3>1. \/ WithLog(Node) \/ WithLog(Base \cup {"tee"})
          \/ WithLog(Node \cup {"sysfs", "module"} \cup Loading!LeftBehind)
          \/ WithLog(Node \cup {"sysfs"} \cup Loading!LeftBehind)
      BY <1>0, <2>6 DEF HoldsUndoing
    <3>2. /\ Base \cup {"tee"} \subseteq Known
          /\ Node \cup {"sysfs", "module"} \cup Loading!LeftBehind \subseteq Known
          /\ Node \cup {"sysfs"} \cup Loading!LeftBehind \subseteq Known
      BY <2>5
    <3> QED
      BY <2>4, <2>5, <3>1, <3>2
  <2>7. CASE at = "oops"
    <3>1. has \subseteq Node \cup LogMemory \cup {"irq"}
      BY <1>0, <2>7 DEF HoldsUndoing
    <3>2. LogMemory \cup {"irq"} \subseteq LogParts
      BY DEF LogParts
    <3> QED
      BY <2>5, <3>1, <3>2
  <2>8. CASE at = "loaded"
    <3>1. WithLog(Node \cup Started) \/ WithLog(Base \cup Loading!LeftBehind)
      BY <1>0, <2>8 DEF HoldsUndoing, Ended
    <3>2. Node \cup Started \subseteq Known /\ Base \cup Loading!LeftBehind \subseteq Known
      BY <2>5
    <3> QED
      BY <2>4, <3>1, <3>2
  <2> QED
    BY <1>0, <2>3, <2>6, <2>7, <2>8 DEF Stages, Undoing
<1>3. refcount \in 0..(Cardinality(Clients) + 1)
  BY <1>0, OpenFinite DEF References, LoadRefs
<1>4. Loading!TypeOK
  <2>1. open \subseteq Clients
    BY <1>0 DEF References
  <2>2. refcount \in 0..(Loading!Cardinality(Clients) + 1)
    BY <1>3, LoadCardinality
  <2> QED
    BY <1>0, <1>1, <1>2, <2>1, <2>2 DEF Loading!TypeOK
<1>5. ASSUME at = "loaded"
      PROVE  \E parts \in {{}, FullLog} :
                 IF "tee" \in has
                 THEN has = Base \cup {"tee", "misc", "sysfs", "module", "shm_map", "pool"} \cup parts
                 ELSE /\ has = Base \cup Loading!LeftBehind \cup parts
                      /\ happened \cap Loading!NotUndone = {} => parts = {}
  <2>1. CASE "tee" \in has
    BY <1>0, <1>1, <1>5, <2>1 DEF HoldsUndoing, WithLog
  <2>2. CASE "tee" \notin has /\ happened \cap Loading!NotUndone # {}
    BY <1>0, <1>5, <2>2 DEF HoldsUndoing, WithLog, Ended
  <2>3. CASE "tee" \notin has /\ happened \cap Loading!NotUndone = {}
    <3>1. has = Base /\ Loading!LeftBehind = {}
      BY <1>0, <1>5, <2>3 DEF HoldsUndoing, Ended, Loading!NotUndone, Loading!LeftBehind
    <3> QED
      BY <2>3, <3>1
  <2> QED
    BY <2>1, <2>2, <2>3
<1>6. Loading!LoadIsAllOrNothing
  <2>1. /\ at = "oops" => "logd" \in happened
        /\ at = "failed" => has = {} /\ threads = 0
    BY <1>0 DEF Holds, Happened
  <2> QED
    BY <1>1, <1>4, <1>5, <2>1 DEF Loading!LoadIsAllOrNothing
<1>7. happened \cap {"early", "unbind"} = {} /\ open # {} => {"tee", "pool"} \subseteq has
  <2>1. at = "loaded" /\ "tee" \in has => "pool" \in has
    BY <1>0 DEF HoldsUndoing, WithLog, Started
  <2> QED
    BY <1>0, <2>1 DEF References
<1>8. Loading!ClientsHaveAStartedTee
  BY <1>0, <1>7, OpenFinite, LoadCardinality
     DEF Loading!ClientsHaveAStartedTee, References, LoadRefs
<1> QED
  BY <1>6, <1>8 DEF LoadIsAllOrNothing

\* A load that fails gives back what it has acquired, whichever step fails, but for
\* what the last steps leave undone (NotUndone, LeftBehind); a client that opens the
\* node after the load, before the device is unbound, has a started device; and the
\* count of references is exact.
THEOREM LoadIsAtomic == MCSpec => []LoadIsAllOrNothing
<1>1. MCInit => LoadInv
  BY LoadBegins DEF MCInit
<1>2. LoadInv /\ [MCNext]_<<which, vars, log, load>> => LoadInv'
  <2>1. [MCNext]_<<which, vars, log, load>> => [Loading!Next]_load
    BY DEF MCNext
  <2> QED
    BY <2>1, LoadKept
<1> QED
  BY <1>1, <1>2, LoadInvImplies, PTL DEF MCSpec

-----------------------------------------------------------------------------
(* The way of the log: what the readers' ring holds. *)

\* As long as the trusted OS did not write over what was being copied, and no
\* reader was at work while logd overran the ring.
Good == "lapped" \notin loss /\ "overlap" \notin loss

\* The steps from one place of the ring forward to another.
From(a, b) == IF b >= a THEN b - a ELSE b + LogAreaSize - a

Place == 0..(LogAreaSize - 1)
Taken == Len(logd.buf)
FirstTaken == logd.wseq - Taken
Over == From(logd.tail, logd.head) + Taken >= LogAreaSize

\* The bytes that can be read are those before this one ...
Limit ==
    IF logd.pc = "ack" \/ (logd.pc \in {"tail", "head"} /\ Taken = LogAreaSize)
    THEN logd.wseq ELSE logd.rseq
\* ... and begin at the tail, or where logd is about to put it.
RingTail == IF logd.pc = "tail" /\ Over THEN logd.new_tail ELSE klog_tail

LogTypes ==
    /\ logd \in [pc : {"test", "wait", "take", "store", "tail", "head", "ack"},
                 rseq : Nat, wseq : Nat, head : Place, tail : Place, new_tail : Place,
                 buf : Seq(Int)]
    /\ tee_write_seq \in Nat /\ tee_read_seq = logd.rseq
    /\ logd.rseq <= logd.wseq /\ logd.wseq <= tee_write_seq
    /\ klog_head \in Place /\ klog_tail \in Place
    /\ tee_log_area \in [Place -> Int]
    /\ rd \in [Readers -> [pc : {"idle", "lock", "look", "copy", "swap"}, count : Nat,
                           head : Place, tail : Place, kbuf : Seq(Int)]]
    /\ \A r \in Readers : rd[r].pc \in {"look", "copy", "swap"} => log_mutex = r
    /\ seen \in Nat

\* From the tail to the head the bytes are in the order of the log, newer than
\* those delivered, and without an overrun there is none missing.
InOrder(tail, limit) ==
    /\ seen <= limit
    /\ \A i, j \in Place :
          From(tail, i) < From(tail, j) /\ From(tail, j) < From(tail, klog_head) =>
              tee_log_area[i] < tee_log_area[j]
    /\ \A i \in Place : From(tail, i) < From(tail, klog_head) =>
          seen <= tee_log_area[i] /\ tee_log_area[i] < limit
    /\ loss = {} =>
          /\ seen + From(tail, klog_head) = limit
          /\ \A i \in Place : From(tail, i) < From(tail, klog_head) =>
                tee_log_area[i] = seen + From(tail, i)

\* What logd has taken and not yet given to the readers.
Pending ==
    /\ logd.head = klog_head
    /\ Taken <= LogAreaSize /\ logd.rseq <= FirstTaken
    /\ loss = {} => FirstTaken = logd.rseq /\ ~Over
    /\ \A k \in 1..Taken : logd.buf[k] = FirstTaken + k - 1
Fits(tail) == Taken = LogAreaSize \/ From(tail, klog_head) + Taken < LogAreaSize
Stored ==
    \A i \in Place : From(klog_head, i) < Taken =>
        tee_log_area[i] = FirstTaken + From(klog_head, i)
Room ==
    IF Over
    THEN /\ klog_tail = logd.tail /\ Fits(logd.new_tail)
         /\ From(logd.new_tail, klog_head) <= From(klog_tail, klog_head) \/ Taken = LogAreaSize
    ELSE logd.new_tail = logd.tail /\ Fits(klog_tail)
LogdInv ==
    /\ logd.pc \in {"store", "tail", "head"} => Pending
    /\ logd.pc \in {"store", "tail"} => Room
    /\ logd.pc = "head" => Fits(klog_tail)
    /\ logd.pc \in {"tail", "head"} => Stored

\* What a reader has seen of the pointers is still so, or the head went on.
ReaderInv(r) ==
    /\ rd[r].tail = klog_tail
    /\ From(klog_tail, rd[r].head) <= From(klog_tail, klog_head)
    /\ logd.pc \in {"store", "tail"} => ~Over
    /\ rd[r].pc = "swap" =>
          /\ Len(rd[r].kbuf) <= From(klog_tail, rd[r].head)
          /\ \A i \in Place : From(klog_tail, i) < Len(rd[r].kbuf) =>
                rd[r].kbuf[From(klog_tail, i) + 1] = tee_log_area[i]

ReadersInv == \A r \in Readers : rd[r].pc \in {"copy", "swap"} => ReaderInv(r)

RingParts == LogTypes /\ InOrder(RingTail, Limit) /\ LogdInv /\ ReadersInv
RingInv == Good => RingParts

LEMMA Sizes ==
    /\ LogAreaSize \in Nat \ {0} /\ TeeLogLen \in Nat \ {0}
    /\ Chunks \subseteq Nat /\ Counts \subseteq Nat /\ None \notin Readers
  BY DriverAssumption DEF DriverAssumption, Log!LogAssumption

\* What the rest is, once around at most.
LEMMA Once == ASSUME NEW x \in 0..(LogAreaSize - 1) PROVE x % LogAreaSize = x
  BY Sizes

LEMMA Round ==
    ASSUME NEW x \in LogAreaSize..(2 * LogAreaSize - 1)
    PROVE  x % LogAreaSize = x - LogAreaSize
  BY Sizes

\* Two numbers with the same rest are that far apart.
LEMMA SameRest ==
    ASSUME NEW b \in Nat, NEW c \in Nat, NEW m \in Nat \ {0}, b % m = c % m, b < c
    PROVE  c >= b + m
<1>1. /\ b = m * (b \div m) + (b % m) /\ c = m * (c \div m) + (c % m)
      /\ b \div m \in Int /\ c \div m \in Int
  OBVIOUS
<1>2. c - b = m * (c \div m) - m * (b \div m)
  BY <1>1
<1> DEFINE p == b \div m   q == c \div m
<1>3. p \in Int /\ q \in Int /\ c - b = m * q - m * p
  BY <1>1, <1>2
<1> HIDE DEF p, q
<1>4. c - b = m * (q - p)
  BY <1>3
<1>5. q - p >= 1
  <2>1. CASE q - p <= 0
    <3>1. m * (q - p) <= 0
      BY <2>1, <1>3
    <3> QED
      BY <3>1, <1>4
  <2> QED
    BY <2>1, <1>3
<1>6. m * (q - p) >= m
  BY <1>3, <1>5
<1> QED
  BY <1>4, <1>6

\* Used of LogRing is the way from the tail to the head.
LEMMA UsedIs ==
    ASSUME NEW h \in Place, NEW t \in Place
    PROVE  Log!Used(h, t) = From(t, h)
<1> DEFINE x == h + LogAreaSize - t
<1>1. CASE h >= t
  <2>1. x \in LogAreaSize..(2 * LogAreaSize - 1) /\ From(t, h) = x - LogAreaSize
    BY <1>1, Sizes DEF Place, From
  <2> HIDE DEF x
  <2>2. x % LogAreaSize = From(t, h)
    BY <2>1, Round
  <2> QED
    BY <2>2 DEF Log!Used, x
<1>2. CASE ~(h >= t)
  <2>1. x \in 0..(LogAreaSize - 1) /\ From(t, h) = x
    BY <1>2, Sizes DEF Place, From
  <2> HIDE DEF x
  <2>2. x % LogAreaSize = From(t, h)
    BY <2>1, Once
  <2> QED
    BY <2>2 DEF Log!Used, x
<1> QED
  BY <1>1, <1>2

LEMMA OverIs ==
    ASSUME LogTypes PROVE Log!Overruns(logd) <=> Over
  BY UsedIs, Sizes DEF Log!Overruns, Over, LogTypes, Taken, From

LEMMA RingStarts == Log!Init => RingInv
<1> SUFFICES ASSUME Log!Init PROVE RingParts
  BY DEF RingInv
<1> USE DEF Log!Init, Log!Pos, Log!NoByte, Place
<1>1. LogTypes
  <2>1. 0 \in Place /\ <<>> \in Seq(Int) /\ 0 \in Nat
    BY Sizes
  <2>2. logd \in [pc : {"test", "wait", "take", "store", "tail", "head", "ack"},
                 rseq : Nat, wseq : Nat, head : Place, tail : Place, new_tail : Place,
                 buf : Seq(Int)]
    BY <2>1
  <2>3. rd \in [Readers -> [pc : {"idle", "lock", "look", "copy", "swap"}, count : Nat,
                           head : Place, tail : Place, kbuf : Seq(Int)]]
    BY <2>1
  <2> QED
    BY <2>1, <2>2, <2>3 DEF LogTypes
<1>2. InOrder(RingTail, Limit)
  BY Sizes DEF InOrder, RingTail, Limit, From
<1> QED
  BY <1>1, <1>2 DEF RingParts, LogdInv, ReadersInv

\* Steps of a reader that holds nothing and of the outside leave logd and the
\* ring alone.
Untouched == UNCHANGED <<tee_read_seq, logd, tee_log_area, klog_head, klog_tail, seen, loss>>

LEMMA RingUntouched ==
    ASSUME RingParts, Untouched
    PROVE  InOrder(RingTail, Limit)' /\ LogdInv' /\ (Over' <=> Over)
<1> USE DEF Untouched
<1>1. Over' = Over /\ Taken' = Taken /\ FirstTaken' = FirstTaken /\ Limit' = Limit
  BY DEF Over, Taken, FirstTaken, Limit
<1>2. RingTail' = RingTail
  BY <1>1 DEF RingTail
<1>3. InOrder(RingTail, Limit)'
  BY <1>1, <1>2 DEF InOrder, RingParts
<1>4. LogdInv'
  <2>1. (Pending' <=> Pending) /\ (Stored' <=> Stored)
    BY <1>1 DEF Pending, Stored
  <2>2. (Room' <=> Room) /\ (Fits(klog_tail)' <=> Fits(klog_tail))
    BY <1>1 DEF Room, Fits
  <2> QED
    BY <2>1, <2>2 DEF LogdInv, RingParts
<1> QED
  BY <1>1, <1>3, <1>4

LEMMA OutsideKeeps ==
    ASSUME RingParts, Log!TeeWrites \/ Log!LogIrq \/ Log!WriteFlag
    PROVE  RingParts'
<1>1. Untouched /\ rd' = rd /\ log_mutex' = log_mutex
  BY DEF Log!TeeWrites, Log!LogIrq, Log!WriteFlag, Log!shared, Log!klog, Untouched
<1>2. tee_write_seq' \in Nat /\ tee_write_seq' >= tee_write_seq
  BY Sizes DEF Log!TeeWrites, Log!LogIrq, Log!WriteFlag, Log!shared, RingParts, LogTypes
<1>3. LogTypes'
  BY <1>1, <1>2 DEF LogTypes, RingParts, Untouched
<1>4. ReadersInv'
  BY <1>1, RingUntouched DEF ReadersInv, ReaderInv, RingParts, Untouched
<1> QED
  BY <1>1, <1>3, <1>4, RingUntouched DEF RingParts

\* A reader is in one place at a time; the others stay where they are.
RdTypes(s) ==
    s \in [pc : {"idle", "lock", "look", "copy", "swap"}, count : Nat,
           head : Place, tail : Place, kbuf : Seq(Int)]

LEMMA QuietReader ==
    ASSUME RingParts, NEW r \in Readers,
           \/ Log!ReadStart(r) \/ Log!Lock(r) \/ Log!GiveUp(r) \/ Log!LookSleeps(r)
    PROVE  RingParts'
<1> USE DEF RingParts, LogTypes
<1>1. Untouched /\ tee_write_seq' = tee_write_seq
  BY DEF Log!ReadStart, Log!Lock, Log!GiveUp, Log!LookSleeps, Log!shared, Log!klog, Untouched
<1>2. PICK s : /\ rd' = [rd EXCEPT ![r] = s] /\ RdTypes(s) /\ s.pc \notin {"copy", "swap"}
               /\ s.pc = "look" => log_mutex' = r
  <2>1. RdTypes(rd[r])
    BY DEF RdTypes
  <2>2. CASE Log!ReadStart(r)
    <3>1. PICK n \in Counts : rd' = [rd EXCEPT ![r].pc = "lock", ![r].count = n]
      BY <2>2 DEF Log!ReadStart
    <3> DEFINE s == [rd[r] EXCEPT !.pc = "lock", !.count = n]
    <3>2. rd' = [rd EXCEPT ![r] = s]
      BY <3>1
    <3>3. RdTypes(s) /\ s.pc = "lock"
      BY <2>1, Sizes DEF RdTypes
    <3> QED
      BY <3>2, <3>3
  <2>3. CASE Log!Lock(r)
    <3> DEFINE s == [rd[r] EXCEPT !.pc = "look"]
    <3>1. rd' = [rd EXCEPT ![r] = s] /\ log_mutex' = r
      BY <2>3 DEF Log!Lock
    <3>2. RdTypes(s) /\ s.pc = "look"
      BY <2>1 DEF RdTypes
    <3> QED
      BY <3>1, <3>2
  <2>4. CASE Log!GiveUp(r)
    <3>1. rd' = [rd EXCEPT ![r] = Log!Idle]
      BY <2>4 DEF Log!GiveUp
    <3>2. RdTypes(Log!Idle) /\ Log!Idle.pc = "idle"
      BY Sizes DEF Log!Idle, RdTypes, Place
    <3> QED
      BY <3>1, <3>2
  <2>5. CASE Log!LookSleeps(r)
    <3> DEFINE s == [rd[r] EXCEPT !.pc = "lock"]
    <3>1. rd' = [rd EXCEPT ![r] = s]
      BY <2>5 DEF Log!LookSleeps
    <3>2. RdTypes(s) /\ s.pc = "lock"
      BY <2>1 DEF RdTypes
    <3> QED
      BY <3>1, <3>2
  <2> QED
    BY <2>2, <2>3, <2>4, <2>5
<1>3. rd' \in [Readers -> [pc : {"idle", "lock", "look", "copy", "swap"}, count : Nat,
                           head : Place, tail : Place, kbuf : Seq(Int)]]
  BY <1>2 DEF RdTypes
<1>4. \A q \in Readers : q # r => rd'[q] = rd[q]
  BY <1>2
<1>5. ASSUME NEW q \in Readers, rd'[q].pc \in {"look", "copy", "swap"} PROVE log_mutex' = q
  <2>1. CASE q = r
    BY <1>2, <1>5, <2>1
  <2>2. CASE q # r
    <3>1. rd[q].pc \in {"look", "copy", "swap"} /\ log_mutex = q
      BY <1>4, <1>5, <2>2
    <3>2. ~Log!Lock(r) /\ rd[r].pc # "look"
      BY <3>1, <2>2, Sizes DEF Log!Lock
    <3>3. log_mutex' = log_mutex
      BY <3>2 DEF Log!ReadStart, Log!GiveUp, Log!LookSleeps
    <3> QED
      BY <3>1, <3>3
  <2> QED
    BY <2>1, <2>2
<1>6. LogTypes'
  BY <1>1, <1>3, <1>5 DEF Untouched
<1>7. ReadersInv'
  <2> SUFFICES ASSUME NEW q \in Readers, rd'[q].pc \in {"copy", "swap"} PROVE ReaderInv(q)'
    BY DEF ReadersInv
  <2>1. q # r /\ rd'[q] = rd[q]
    BY <1>2, <1>4
  <2>2. ReaderInv(q)
    BY <2>1 DEF ReadersInv
  <2> QED
    BY <1>1, <2>1, <2>2, RingUntouched DEF ReaderInv, Untouched
<1> QED
  BY <1>1, <1>6, <1>7, RingUntouched

LEMMA LookFindsKeeps ==
    ASSUME RingParts, NEW r \in Readers, Log!LookFinds(r), Good'
    PROVE  RingParts'
<1> USE DEF RingParts, LogTypes
<1>1. /\ UNCHANGED <<tee_read_seq, tee_write_seq, logd, tee_log_area, klog_head, klog_tail, seen,
                     log_mutex>>
      /\ rd[r].pc = "look" /\ log_mutex = r
  BY DEF Log!LookFinds, Log!shared, Log!klog
<1>2. /\ loss' = loss
      /\ logd.pc \in {"store", "tail"} => ~Over
  <2>1. loss' = loss \cup (IF logd.pc \in {"store", "tail"} /\ Over THEN {"overlap"} ELSE {})
    BY OverIs DEF Log!LookFinds
  <2>2. ~(logd.pc \in {"store", "tail"} /\ Over)
    BY <2>1 DEF Good
  <2> QED
    BY <2>1, <2>2
<1>3. Untouched
  BY <1>1, <1>2 DEF Untouched
<1> DEFINE s == [rd[r] EXCEPT !.pc = "copy", !.head = klog_head, !.tail = klog_tail]
<1>4. rd' = [rd EXCEPT ![r] = s]
  BY DEF Log!LookFinds
<1>5. RdTypes(s) /\ s.pc = "copy" /\ s.head = klog_head /\ s.tail = klog_tail
  <2>1. RdTypes(rd[r])
    BY DEF RdTypes
  <2> QED
    BY <2>1 DEF RdTypes
<1> HIDE DEF s
<1>6. /\ rd' \in [Readers -> [pc : {"idle", "lock", "look", "copy", "swap"}, count : Nat,
                              head : Place, tail : Place, kbuf : Seq(Int)]]
      /\ rd'[r] = s /\ \A q \in Readers : q # r => rd'[q] = rd[q]
  BY <1>4, <1>5 DEF RdTypes
<1>7. \A q \in Readers : rd'[q].pc \in {"look", "copy", "swap"} => q = r
  BY <1>1, <1>6
<1>8. LogTypes'
  BY <1>1, <1>6, <1>7
<1>9. ReaderInv(r)'
  <2>1. Over' <=> Over
    BY <1>3, RingUntouched
  <2>2. From(klog_tail, klog_head) \in Int
    BY Sizes DEF From, Place
  <2>3. /\ rd'[r].pc = "copy" /\ rd'[r].tail = klog_tail' /\ rd'[r].head = klog_head'
        /\ klog_tail' = klog_tail /\ klog_head' = klog_head
    BY <1>1, <1>5, <1>6
  <2>4. logd'.pc \in {"store", "tail"} => ~Over'
    BY <1>1, <1>2, <2>1
  <2> HIDE DEF LogTypes, RingParts
  <2> QED
    BY <2>2, <2>3, <2>4 DEF ReaderInv
<1>10. ReadersInv'
  BY <1>7, <1>9 DEF ReadersInv
<1> QED
  BY <1>3, <1>8, <1>10, RingUntouched

Ahead(t, n) == IF t + n < LogAreaSize THEN t + n ELSE t + n - LogAreaSize

LEMMA AheadIs ==
    ASSUME NEW t \in Place, NEW n \in 0..(LogAreaSize - 1)
    PROVE  /\ (t + n) % LogAreaSize = Ahead(t, n)
           /\ Ahead(t, n) \in Place /\ From(t, Ahead(t, n)) = n
<1>1. Ahead(t, n) \in Place /\ From(t, Ahead(t, n)) = n
  BY Sizes DEF Ahead, From, Place
<1> DEFINE x == t + n
<1>2. CASE x < LogAreaSize
  <2>1. x \in 0..(LogAreaSize - 1) /\ Ahead(t, n) = x
    BY <1>2, Sizes DEF Place, Ahead
  <2> HIDE DEF x
  <2>2. x % LogAreaSize = Ahead(t, n)
    BY <2>1, Once
  <2> QED
    BY <2>2, <1>1 DEF x
<1>3. CASE ~(x < LogAreaSize)
  <2>1. x \in LogAreaSize..(2 * LogAreaSize - 1) /\ Ahead(t, n) = x - LogAreaSize
    BY <1>3, Sizes DEF Place, Ahead
  <2> HIDE DEF x
  <2>2. x % LogAreaSize = Ahead(t, n)
    BY <2>1, Round
  <2> QED
    BY <2>2, <1>1 DEF x
<1> QED
  BY <1>2, <1>3

LEMMA AheadAndBack ==
    ASSUME NEW t \in Place, NEW i \in Place
    PROVE  From(t, i) \in 0..(LogAreaSize - 1) /\ Ahead(t, From(t, i)) = i
  BY Sizes DEF Ahead, From, Place

LEMMA FromAdds ==
    ASSUME NEW t \in Place, NEW h \in Place, NEW i \in Place
    PROVE  /\ From(t, h) \in 0..(LogAreaSize - 1)
           /\ From(h, i) \in 0..(LogAreaSize - 1)
           /\ From(t, i) \in 0..(LogAreaSize - 1)
           /\ \/ From(t, h) + From(h, i) = From(t, i)
              \/ From(t, h) + From(h, i) = From(t, i) + LogAreaSize
  BY Sizes DEF From, Place

\* A place between two others, ...
LEMMA Between ==
    ASSUME NEW t \in Place, NEW u \in Place, NEW h \in Place, From(t, u) <= From(t, h)
    PROVE  /\ From(t, h) = From(t, u) + From(u, h)
           /\ \A i \in Place : From(u, i) < From(u, h) =>
                 From(t, i) = From(t, u) + From(u, i) /\ From(t, i) < From(t, h)
<1>1. From(t, h) = From(t, u) + From(u, h)
  BY FromAdds, Sizes
<1>2. ASSUME NEW i \in Place, From(u, i) < From(u, h)
      PROVE  From(t, i) = From(t, u) + From(u, i) /\ From(t, i) < From(t, h)
  <2>1. /\ From(t, u) \in Int /\ From(u, i) \in Int /\ From(u, h) \in Int /\ From(t, i) \in Int
        /\ From(t, h) < LogAreaSize /\ From(t, i) >= 0
        /\ \/ From(t, u) + From(u, i) = From(t, i)
           \/ From(t, u) + From(u, i) = From(t, i) + LogAreaSize
    BY FromAdds, Sizes
  <2> QED
    BY <1>1, <1>2, <2>1, Sizes
<1> QED
  BY <1>1, <1>2

\* ... one behind them, ...
LEMMA Beyond ==
    ASSUME NEW t \in Place, NEW h \in Place, NEW k \in Place,
           From(t, h) + From(h, k) < LogAreaSize
    PROVE  /\ From(t, k) = From(t, h) + From(h, k)
           /\ \A i \in Place : From(t, h) <= From(t, i) /\ From(t, i) < From(t, k) =>
                 From(h, i) = From(t, i) - From(t, h) /\ From(h, i) < From(h, k)
<1>1. From(t, k) = From(t, h) + From(h, k)
  BY FromAdds, Sizes
<1>2. ASSUME NEW i \in Place, From(t, h) <= From(t, i), From(t, i) < From(t, k)
      PROVE  From(h, i) = From(t, i) - From(t, h) /\ From(h, i) < From(h, k)
  <2>1. /\ From(t, h) \in Int /\ From(h, i) \in Int /\ From(h, k) \in Int /\ From(t, i) \in Int
        /\ From(h, i) < LogAreaSize
        /\ \/ From(t, h) + From(h, i) = From(t, i)
           \/ From(t, h) + From(h, i) = From(t, i) + LogAreaSize
    BY FromAdds, Sizes
  <2> QED
    BY <1>1, <1>2, <2>1, Sizes
<1> QED
  BY <1>1, <1>2

\* ... and one seen from the end.
LEMMA FromTheEnd ==
    ASSUME NEW u \in Place, NEW h \in Place, NEW i \in Place, From(u, i) < From(u, h)
    PROVE  From(h, i) = LogAreaSize - From(u, h) + From(u, i)
  BY Sizes DEF From, Place

LEMMA CopyKeeps ==
    ASSUME RingParts, NEW r \in Readers, Log!Copy(r)
    PROVE  RingParts'
<1> USE DEF RingParts, LogTypes
<1>1. Untouched /\ tee_write_seq' = tee_write_seq /\ log_mutex' = log_mutex
  BY DEF Log!Copy, Log!shared, Log!klog, Untouched
<1>2. rd[r].pc = "copy" /\ ReaderInv(r) /\ RdTypes(rd[r])
  BY DEF Log!Copy, ReadersInv, RdTypes
<1> DEFINE t == rd[r].tail
           used == From(t, rd[r].head)
           len == IF used < rd[r].count THEN used ELSE rd[r].count
           kbuf == [k \in 1..len |-> tee_log_area[(t + k - 1) % LogAreaSize]]
           s == [rd[r] EXCEPT !.pc = "swap", !.kbuf = kbuf]
<1>3. t \in Place /\ used \in 0..(LogAreaSize - 1) /\ t = klog_tail
  BY <1>2, AheadAndBack DEF RdTypes, ReaderInv
<1>4. len \in Nat /\ len <= used
  <2> HIDE DEF t, used
  <2> QED
    BY <1>2, <1>3 DEF RdTypes
<1>5. Log!do_ulog(r) = kbuf
  <2>1. Log!Used(rd[r].head, rd[r].tail) = used
    BY <1>2, UsedIs DEF RdTypes
  <2> QED
    BY <2>1 DEF Log!do_ulog
<1>6. \A k \in 1..len : kbuf[k] = tee_log_area[Ahead(t, k - 1)] /\ kbuf[k] \in Int
  <2> SUFFICES ASSUME NEW k \in 1..len
               PROVE  kbuf[k] = tee_log_area[Ahead(t, k - 1)] /\ kbuf[k] \in Int
    OBVIOUS
  <2> HIDE DEF len, used
  <2>1. k - 1 \in 0..(LogAreaSize - 1)
    BY <1>3, <1>4, Sizes
  <2>2. (t + (k - 1)) % LogAreaSize = Ahead(t, k - 1) /\ Ahead(t, k - 1) \in Place
    BY <1>3, <2>1, AheadIs
  <2>3. t + (k - 1) = t + k - 1
    BY <1>3, <1>4 DEF Place
  <2> QED
    BY <2>2, <2>3
<1>7. kbuf \in Seq(Int) /\ Len(kbuf) = len
  <2>1. \A k \in 1..len : kbuf[k] \in Int
    BY <1>6
  <2> HIDE DEF len, t
  <2> QED
    BY <1>4, <2>1
<1>8. rd' = [rd EXCEPT ![r] = s]
  BY <1>5 DEF Log!Copy
<1> HIDE DEF kbuf
<1>9. RdTypes(s) /\ s.pc = "swap" /\ s.head = rd[r].head /\ s.tail = rd[r].tail /\ s.kbuf = kbuf
  BY <1>2, <1>7 DEF RdTypes
<1> HIDE DEF s, len
<1>10. /\ rd' \in [Readers -> [pc : {"idle", "lock", "look", "copy", "swap"}, count : Nat,
                              head : Place, tail : Place, kbuf : Seq(Int)]]
       /\ rd'[r] = s /\ \A q \in Readers : q # r => rd'[q] = rd[q]
  BY <1>8, <1>9 DEF RdTypes
<1>11. LogTypes'
  BY <1>1, <1>2, <1>9, <1>10 DEF Untouched
<1>12. ASSUME NEW i \in Place, From(klog_tail, i) < len
       PROVE  kbuf[From(klog_tail, i) + 1] = tee_log_area[i]
  <2> DEFINE n == From(klog_tail, i)
  <2>1. n \in 0..(LogAreaSize - 1) /\ Ahead(klog_tail, n) = i
    BY AheadAndBack
  <2> HIDE DEF n
  <2>2. n + 1 \in 1..len /\ (n + 1) - 1 = n
    BY <1>4, <1>12, <2>1 DEF n
  <2>3. kbuf[n + 1] = tee_log_area[Ahead(t, n)]
    BY <1>6, <2>2
  <2> QED
    BY <1>3, <2>1, <2>3 DEF n
<1>13. ReaderInv(r)'
  <2>1. Over' <=> Over
    BY <1>1, RingUntouched
  <2> QED
    BY <1>1, <1>2, <1>4, <1>7, <1>9, <1>10, <1>12, <2>1 DEF ReaderInv, Untouched
<1>14. ReadersInv'
  <2> SUFFICES ASSUME NEW q \in Readers, rd'[q].pc \in {"copy", "swap"} PROVE ReaderInv(q)'
    BY DEF ReadersInv
  <2>1. CASE q # r
    <3>1. rd[q].pc \in {"copy", "swap"} /\ log_mutex = q /\ log_mutex = r
      BY <1>2, <1>10, <2>1
    <3> QED
      BY <2>1, <3>1
  <2> QED
    BY <1>13, <2>1
<1> QED
  BY <1>1, <1>11, <1>14, RingUntouched

\* What a reader that is about to return has in hand.
LEMMA InHand ==
    ASSUME RingParts, NEW r \in Readers, rd[r].pc = "swap"
    PROVE  /\ rd[r].tail = klog_tail /\ RingTail = klog_tail
           /\ Log!Delivered(r) = rd[r].kbuf
           /\ Len(rd[r].kbuf) \in Nat
           /\ Len(rd[r].kbuf) <= From(klog_tail, klog_head)
           /\ \A k \in 1..Len(rd[r].kbuf) :
                 /\ Ahead(klog_tail, k - 1) \in Place
                 /\ From(klog_tail, Ahead(klog_tail, k - 1)) = k - 1
                 /\ rd[r].kbuf[k] = tee_log_area[Ahead(klog_tail, k - 1)]
<1> USE DEF RingParts, LogTypes
<1>1. ReaderInv(r) /\ RdTypes(rd[r])
  BY DEF ReadersInv, RdTypes
<1>2. rd[r].tail = klog_tail /\ RingTail = klog_tail
  BY <1>1 DEF ReaderInv, RingTail
<1>3. Log!Delivered(r) = rd[r].kbuf
  BY <1>2 DEF Log!Delivered
<1> DEFINE len == Len(rd[r].kbuf)
<1>4. len \in Nat /\ len <= From(klog_tail, klog_head)
      /\ From(klog_tail, rd[r].head) \in 0..(LogAreaSize - 1)
      /\ From(klog_tail, klog_head) \in 0..(LogAreaSize - 1)
  <2>1. len \in Nat
    BY <1>1 DEF RdTypes
  <2>2. From(klog_tail, rd[r].head) \in 0..(LogAreaSize - 1)
        /\ From(klog_tail, klog_head) \in 0..(LogAreaSize - 1)
    BY <1>1, AheadAndBack DEF RdTypes
  <2> QED
    BY <1>1, <2>1, <2>2, Sizes DEF ReaderInv
<1>5. ASSUME NEW k \in 1..len
      PROVE  /\ Ahead(klog_tail, k - 1) \in Place
             /\ From(klog_tail, Ahead(klog_tail, k - 1)) = k - 1
             /\ rd[r].kbuf[k] = tee_log_area[Ahead(klog_tail, k - 1)]
  <2> HIDE DEF len
  <2>1. k - 1 \in 0..(LogAreaSize - 1) /\ k - 1 < len
    BY <1>4, Sizes
  <2>2. Ahead(klog_tail, k - 1) \in Place /\ From(klog_tail, Ahead(klog_tail, k - 1)) = k - 1
    BY <2>1, AheadIs
  <2>3. rd[r].kbuf[From(klog_tail, Ahead(klog_tail, k - 1)) + 1]
          = tee_log_area[Ahead(klog_tail, k - 1)]
    BY <1>1, <2>1, <2>2 DEF ReaderInv, len
  <2>4. (k - 1) + 1 = k
    OBVIOUS
  <2> QED
    BY <2>2, <2>3, <2>4
<1> QED
  BY <1>2, <1>3, <1>4, <1>5

\* What the reader was given is taken off the ring.
LEMMA SwapKeeps ==
    ASSUME RingParts, NEW r \in Readers, Log!Swap(r)
    PROVE  RingParts'
<1> USE DEF RingParts, LogTypes
<1>0. /\ klog_head \in Place /\ klog_tail \in Place /\ seen \in Nat
      /\ logd.rseq \in Nat /\ logd.wseq \in Nat /\ tee_log_area \in [Place -> Int]
  OBVIOUS
<1>1. /\ UNCHANGED <<tee_read_seq, tee_write_seq, logd, tee_log_area, klog_head, loss>>
      /\ rd[r].pc = "swap"
  BY DEF Log!Swap, Log!shared
<1> DEFINE t == klog_tail
           d == rd[r].kbuf
           n == Len(d)
<1>2. /\ rd[r].tail = t /\ RingTail = t /\ Log!Delivered(r) = d
      /\ n \in Nat /\ n <= From(t, klog_head)
      /\ \A k \in 1..n : /\ Ahead(t, k - 1) \in Place /\ From(t, Ahead(t, k - 1)) = k - 1
                         /\ d[k] = tee_log_area[Ahead(t, k - 1)]
  BY <1>1, InHand
<1>3. ReaderInv(r) /\ RdTypes(rd[r]) /\ log_mutex = r
  BY <1>1 DEF ReadersInv, RdTypes
<1>4. From(t, klog_head) \in 0..(LogAreaSize - 1)
  BY AheadAndBack
<1>5. klog_tail' \in Place /\ From(t, klog_tail') = n
  <2>1. klog_tail' = (t + n) % LogAreaSize
    BY <1>2 DEF Log!Swap, Log!Exchange
  <2>2. n \in 0..(LogAreaSize - 1)
    <3> HIDE DEF n, t
    <3> QED
      BY <1>2, <1>4, Sizes
  <2> HIDE DEF n
  <2> QED
    BY <2>1, <2>2, AheadIs
<1>6. seen' = IF d = <<>> THEN seen ELSE d[n] + 1
  BY <1>2 DEF Log!Swap
<1>7. \A i \in Place : From(klog_tail', i) < From(klog_tail', klog_head) =>
         From(t, i) = n + From(klog_tail', i) /\ From(t, i) < From(t, klog_head)
  BY <1>0, <1>2, <1>5, Between
<1>8. From(t, klog_head) = n + From(klog_tail', klog_head)
  BY <1>0, <1>2, <1>5, Between
<1>9. InOrder(t, Limit) /\ Limit \in Nat
  BY <1>2 DEF Limit
<1> HIDE DEF LogTypes, RingParts
<1>10. n # 0 => /\ Ahead(t, n - 1) \in Place /\ From(t, Ahead(t, n - 1)) = n - 1
                /\ d[n] = tee_log_area[Ahead(t, n - 1)]
                /\ n - 1 < From(t, klog_head)
  <2> HIDE DEF n, t
  <2> QED
    BY <1>2, <1>4
<1>11. n = 0 <=> d = <<>>
  BY <1>3 DEF RdTypes
<1>12. /\ seen' \in Nat /\ seen' <= Limit
       /\ loss = {} => seen' = seen + n
       /\ \A i \in Place : From(t, i) < From(t, klog_head) /\ From(t, i) >= n =>
             seen' <= tee_log_area[i]
  <2>1. CASE n = 0
    <3>1. seen' = seen
      BY <1>6, <1>11, <2>1
    <3> QED
      BY <1>0, <1>9, <2>1, <3>1 DEF InOrder
  <2>2. CASE n # 0
    <3> DEFINE j == Ahead(t, n - 1)
    <3>1. seen' = tee_log_area[j] + 1 /\ j \in Place /\ From(t, j) = n - 1
          /\ From(t, j) < From(t, klog_head)
      BY <1>6, <1>10, <1>11, <2>2
    <3> HIDE DEF j, n
    <3>2. tee_log_area[j] \in Int /\ seen <= tee_log_area[j] /\ tee_log_area[j] < Limit
      BY <1>0, <1>9, <3>1 DEF InOrder
    <3>3. loss = {} => tee_log_area[j] = seen + (n - 1)
      BY <1>9, <3>1 DEF InOrder
    <3>4. ASSUME NEW i \in Place, From(t, i) < From(t, klog_head), From(t, i) >= n
          PROVE  tee_log_area[j] < tee_log_area[i] /\ tee_log_area[i] \in Int
      <4>1. From(t, j) < From(t, i)
        <5>1. From(t, i) \in Int
          BY <1>0, <3>4, FromAdds
        <5> QED
          BY <1>2, <3>1, <3>4, <5>1
      <4> QED
        BY <1>0, <1>9, <3>1, <3>4, <4>1 DEF InOrder
    <3>5. seen' \in Nat /\ seen' <= Limit
      BY <1>0, <1>9, <3>1, <3>2
    <3>6. loss = {} => seen' = seen + n
      BY <1>0, <1>2, <3>1, <3>3
    <3>7. \A i \in Place : From(t, i) < From(t, klog_head) /\ From(t, i) >= n =>
             seen' <= tee_log_area[i]
      BY <3>1, <3>2, <3>4
    <3> QED
      BY <3>5, <3>6, <3>7
  <2> QED
    BY <2>1, <2>2
<1>13. /\ Over' = Over /\ Taken' = Taken /\ FirstTaken' = FirstTaken /\ Limit' = Limit
       /\ logd.pc \in {"store", "tail"} => ~Over
  BY <1>1, <1>3 DEF Over, Taken, FirstTaken, Limit, ReaderInv
<1>14. RingTail' = klog_tail'
  BY <1>1, <1>13 DEF RingTail
<1> HIDE DEF n, t
<1>15. InOrder(RingTail, Limit)'
  <2> DEFINE u == klog_tail'
  <2>0. u \in Place /\ t \in Place
    BY <1>0, <1>5 DEF t
  <2> HIDE DEF u
  <2>1. /\ \A i \in Place : From(u, i) \in Nat /\ From(t, i) \in Nat
        /\ From(u, klog_head) \in Int
    BY <1>0, <2>0, FromAdds
  <2>2. ASSUME NEW i \in Place, NEW j \in Place,
               From(u, i) < From(u, j), From(u, j) < From(u, klog_head)
        PROVE  tee_log_area[i] < tee_log_area[j]
    <3>0. From(u, i) < From(u, klog_head)
      BY <2>1, <2>2
    <3>1. From(t, i) = n + From(u, i) /\ From(t, j) = n + From(u, j)
          /\ From(t, j) < From(t, klog_head)
      BY <1>7, <2>2, <3>0 DEF u
    <3>2. From(t, i) < From(t, j)
      BY <1>2, <2>1, <2>2, <3>1
    <3> QED
      BY <1>9, <3>1, <3>2 DEF InOrder
  <2>3. ASSUME NEW i \in Place, From(u, i) < From(u, klog_head)
        PROVE  seen' <= tee_log_area[i] /\ tee_log_area[i] < Limit
               /\ (loss = {} => tee_log_area[i] = seen' + From(u, i))
    <3>1. From(t, i) = n + From(u, i) /\ From(t, i) < From(t, klog_head)
      BY <1>7, <2>3 DEF u
    <3>2. From(t, i) >= n
      BY <1>2, <2>1, <3>1
    <3>3. loss = {} => tee_log_area[i] = seen + From(t, i)
      BY <1>9, <3>1 DEF InOrder
    <3>4. seen' <= tee_log_area[i]
      BY <1>12, <2>3, <3>1, <3>2
    <3>5. tee_log_area[i] < Limit
      BY <1>9, <3>1 DEF InOrder
    <3>6. loss = {} => tee_log_area[i] = seen' + From(u, i)
      BY <1>0, <1>2, <1>12, <2>1, <3>1, <3>3
    <3> QED
      BY <3>4, <3>5, <3>6
  <2>4. loss = {} => seen' + From(u, klog_head) = Limit
    <3>1. loss = {} => seen + From(t, klog_head) = Limit
      BY <1>9 DEF InOrder
    <3>2. From(t, klog_head) = n + From(u, klog_head)
      BY <1>8 DEF u
    <3> QED
      BY <1>0, <1>2, <1>12, <2>1, <3>1, <3>2
  <2> QED
    BY <1>1, <1>12, <1>13, <1>14, <2>2, <2>3, <2>4 DEF InOrder, u
<1>16. LogdInv'
  <2>1. (Pending' <=> Pending) /\ (Stored' <=> Stored)
    BY <1>1, <1>13 DEF Pending, Stored
  <2>2. Fits(klog_tail) => Fits(klog_tail)'
    <3>1. From(klog_tail', klog_head) <= From(t, klog_head)
      BY <1>0, <1>2, <1>5, <1>8, FromAdds
    <3>2. From(klog_tail', klog_head) \in Int /\ From(t, klog_head) \in Int /\ Taken \in Nat
      <4>1. logd.buf \in Seq(Int)
        BY DEF LogTypes, RingParts
      <4> QED
        BY <1>0, <1>4, <1>5, <4>1, FromAdds DEF Taken
    <3> QED
      BY <1>1, <1>13, <3>1, <3>2, Sizes DEF Fits, t
  <2>3. logd.pc \in {"store", "tail"} /\ Room => Room'
    BY <1>1, <1>13, <2>2 DEF Room
  <2> QED
    BY <1>1, <2>1, <2>2, <2>3 DEF LogdInv, RingParts
<1>17. rd' = [rd EXCEPT ![r] = Log!Idle] /\ RdTypes(Log!Idle) /\ Log!Idle.pc = "idle"
  BY Sizes DEF Log!Swap, Log!Idle, RdTypes, Place
<1>18. /\ rd' \in [Readers -> [pc : {"idle", "lock", "look", "copy", "swap"}, count : Nat,
                              head : Place, tail : Place, kbuf : Seq(Int)]]
       /\ rd'[r].pc = "idle" /\ \A q \in Readers : q # r => rd'[q] = rd[q]
  BY <1>17 DEF RdTypes, LogTypes, RingParts
<1>19. \A q \in Readers : rd'[q].pc \notin {"look", "copy", "swap"}
  BY <1>3, <1>18 DEF LogTypes, RingParts
<1>20. LogTypes'
  BY <1>1, <1>5, <1>12, <1>18, <1>19 DEF LogTypes, RingParts
<1>21. ReadersInv'
  BY <1>19 DEF ReadersInv
<1> QED
  BY <1>15, <1>16, <1>20, <1>21 DEF RingParts

\* logd: its own locals, and what it leaves to the readers.
Readable == UNCHANGED <<tee_log_area, klog_head, klog_tail, seen, loss, rd, log_mutex>>
LogdTypes(l) ==
    l \in [pc : {"test", "wait", "take", "store", "tail", "head", "ack"},
           rseq : Nat, wseq : Nat, head : Place, tail : Place, new_tail : Place,
           buf : Seq(Int)]

LEMMA LogdSleepKeeps ==
    ASSUME RingParts, Log!LogdTest \/ Log!LogdWait
    PROVE  RingParts'
<1> USE DEF RingParts, LogTypes
<1>1. Readable /\ tee_write_seq' = tee_write_seq /\ tee_read_seq' = tee_read_seq
  BY DEF Log!LogdTest, Log!LogdWait, Log!shared, Log!klog, Readable
<1>2. LogdTypes(logd)
  BY DEF LogdTypes
<1>3. PICK l : /\ logd' = l /\ LogdTypes(l) /\ l.pc \in {"test", "wait", "take"}
               /\ l.rseq = logd.rseq /\ l.rseq <= l.wseq /\ l.wseq <= tee_write_seq
  <2>1. CASE Log!LogdTest /\ logd.rseq = logd.wseq
    <3> DEFINE l == [logd EXCEPT !.pc = "wait", !.rseq = tee_read_seq, !.wseq = tee_write_seq]
    <3>1. logd' = l
      BY <2>1 DEF Log!LogdTest
    <3>2. LogdTypes(l) /\ l.pc = "wait" /\ l.rseq = logd.rseq /\ l.wseq = tee_write_seq
      BY <1>2 DEF LogdTypes
    <3>3. logd.rseq <= tee_write_seq /\ tee_write_seq <= tee_write_seq
      BY <1>2 DEF LogdTypes
    <3> HIDE DEF l
    <3> QED
      BY <3>1, <3>2, <3>3
  <2>2. CASE Log!LogdTest /\ logd.rseq # logd.wseq
    <3> DEFINE l == [logd EXCEPT !.pc = "take"]
    <3>1. logd' = l
      BY <2>2 DEF Log!LogdTest
    <3>2. LogdTypes(l) /\ l.pc = "take" /\ l.rseq = logd.rseq /\ l.wseq = logd.wseq
      BY <1>2 DEF LogdTypes
    <3> QED
      BY <3>1, <3>2
  <2>3. CASE Log!LogdWait
    <3> DEFINE l == [logd EXCEPT !.pc = "test"]
    <3>1. logd' = l
      BY <2>3 DEF Log!LogdWait
    <3>2. LogdTypes(l) /\ l.pc = "test" /\ l.rseq = logd.rseq /\ l.wseq = logd.wseq
      BY <1>2 DEF LogdTypes
    <3> QED
      BY <3>1, <3>2
  <2> QED
    BY <2>1, <2>2, <2>3
<1>4. logd.pc \in {"test", "wait"}
  BY DEF Log!LogdTest, Log!LogdWait
<1>5. LogTypes'
  BY <1>1, <1>3 DEF LogdTypes, Readable
<1>6. RingTail' = RingTail /\ Limit' = Limit
  BY <1>1, <1>3, <1>4 DEF RingTail, Limit, Readable
<1>7. InOrder(RingTail, Limit)'
  BY <1>1, <1>6 DEF InOrder, Readable
<1>8. LogdInv'
  BY <1>3 DEF LogdInv
<1>9. ReadersInv'
  BY <1>1, <1>3 DEF ReadersInv, ReaderInv, Readable
<1> QED
  BY <1>5, <1>7, <1>8, <1>9

LEMMA LogdAckKeeps ==
    ASSUME RingParts, Log!LogdAck
    PROVE  RingParts'
<1> USE DEF RingParts, LogTypes
<1>1. Readable /\ tee_write_seq' = tee_write_seq /\ tee_read_seq' = logd.wseq /\ logd.pc = "ack"
  BY DEF Log!LogdAck, Log!klog, Readable
<1> DEFINE l == [logd EXCEPT !.pc = "test", !.rseq = logd.wseq, !.wseq = tee_write_seq,
                            !.buf = <<>>, !.head = 0, !.tail = 0, !.new_tail = 0]
<1>2. logd' = l
  BY DEF Log!LogdAck
<1>3. LogdTypes(l) /\ l.pc = "test" /\ l.rseq = logd.wseq /\ l.wseq = tee_write_seq
  <2>1. 0 \in Place /\ <<>> \in Seq(Int)
    BY Sizes DEF Place
  <2> QED
    BY <2>1 DEF LogdTypes
<1> HIDE DEF l
<1>4. LogTypes'
  BY <1>1, <1>2, <1>3 DEF LogdTypes, Readable
<1>5. RingTail' = RingTail /\ Limit' = Limit
  BY <1>1, <1>2, <1>3 DEF RingTail, Limit, Readable
<1>6. InOrder(RingTail, Limit)'
  BY <1>1, <1>5 DEF InOrder, Readable
<1>7. LogdInv'
  BY <1>2, <1>3 DEF LogdInv
<1>8. ReadersInv'
  BY <1>1, <1>2, <1>3 DEF ReadersInv, ReaderInv, Readable
<1> QED
  BY <1>4, <1>6, <1>7, <1>8

LEMMA LogdTailKeeps ==
    ASSUME RingParts, Log!LogdTail
    PROVE  RingParts'
<1> USE DEF RingParts, LogTypes
<1>1. /\ UNCHANGED <<tee_log_area, klog_head, seen, loss, rd, log_mutex, tee_write_seq,
                     tee_read_seq>>
      /\ logd.pc = "tail"
      /\ klog_tail' = IF logd.new_tail # logd.tail THEN logd.new_tail ELSE klog_tail
  BY DEF Log!LogdTail, Log!shared
<1> DEFINE l == [logd EXCEPT !.pc = "head"]
<1>2. logd' = l /\ l.pc = "head" /\ LogdTypes(l)
      /\ l.rseq = logd.rseq /\ l.wseq = logd.wseq /\ l.head = logd.head /\ l.tail = logd.tail
      /\ l.new_tail = logd.new_tail /\ l.buf = logd.buf
  BY DEF Log!LogdTail, LogdTypes
<1> HIDE DEF l
<1>3. klog_tail' = RingTail /\ RingTail \in Place
  BY <1>1 DEF LogdInv, Room, RingTail
<1>4. /\ Over' = Over /\ Taken' = Taken /\ FirstTaken' = FirstTaken /\ Limit' = Limit
      /\ RingTail' = RingTail
  BY <1>1, <1>2, <1>3 DEF Over, Taken, FirstTaken, Limit, RingTail
<1>5. LogTypes'
  BY <1>1, <1>2, <1>3 DEF LogdTypes
<1>6. InOrder(RingTail, Limit)'
  BY <1>1, <1>4 DEF InOrder
<1>7. LogdInv'
  <2>1. Pending /\ Room /\ Stored
    BY <1>1 DEF LogdInv
  <2>2. Pending' /\ Stored'
    BY <1>1, <1>2, <1>4, <2>1 DEF Pending, Stored
  <2>3. Fits(klog_tail)'
    BY <1>1, <1>3, <1>4, <2>1 DEF Room, Fits, RingTail
  <2> QED
    BY <1>2, <2>2, <2>3 DEF LogdInv
<1>8. ReadersInv'
  <2> SUFFICES ASSUME NEW q \in Readers, rd[q].pc \in {"copy", "swap"} PROVE ReaderInv(q)'
    BY <1>1 DEF ReadersInv
  <2>1. ReaderInv(q) /\ ~Over
    BY <1>1 DEF ReadersInv, ReaderInv
  <2>2. klog_tail' = klog_tail
    BY <1>3, <2>1 DEF RingTail
  <2> QED
    BY <1>1, <1>2, <2>1, <2>2 DEF ReaderInv
<1> QED
  BY <1>5, <1>6, <1>7, <1>8

LEMMA LogdHeadKeeps ==
    ASSUME RingParts, Log!LogdHead
    PROVE  RingParts'
<1> USE DEF RingParts, LogTypes
<1>0. /\ klog_head \in Place /\ klog_tail \in Place /\ seen \in Nat
      /\ logd.rseq \in Nat /\ logd.wseq \in Nat /\ tee_log_area \in [Place -> Int]
  OBVIOUS
<1>1. /\ UNCHANGED <<tee_log_area, klog_tail, seen, loss, rd, log_mutex, tee_write_seq,
                     tee_read_seq>>
      /\ logd.pc = "head"
  BY DEF Log!LogdHead, Log!shared
<1> DEFINE l == [logd EXCEPT !.pc = "ack"]
           t == klog_tail
           h == klog_head
<1>2. logd' = l /\ l.pc = "ack" /\ LogdTypes(l) /\ l.rseq = logd.rseq /\ l.wseq = logd.wseq
  BY DEF Log!LogdHead, LogdTypes
<1> HIDE DEF l
<1>3. Pending /\ Stored /\ Fits(t) /\ Taken \in Nat /\ RingTail = t
  BY <1>1 DEF LogdInv, Taken, RingTail
<1>4. klog_head' = (h + Taken) % LogAreaSize
  BY <1>3 DEF Log!LogdHead, Pending, Taken
<1>5. From(t, h) \in 0..(LogAreaSize - 1)
  BY AheadAndBack
<1>6. Limit' = logd.wseq /\ RingTail' = t /\ logd.rseq \in Nat /\ logd.wseq \in Nat
  BY <1>1, <1>2 DEF Limit, RingTail
<1>7. InOrder(t, Limit)
  BY <1>3
<1> HIDE DEF LogTypes, RingParts
<1>8. klog_head' \in Place /\ From(t, h) <= From(t, klog_head') /\ InOrder(RingTail, Limit)'
  <2>1. CASE Taken = LogAreaSize
    <3> DEFINE x == h + LogAreaSize
    <3>1. x \in LogAreaSize..(2 * LogAreaSize - 1) /\ x - LogAreaSize = h
      BY <1>0, Sizes DEF Place
    <3> HIDE DEF x
    <3>2. x % LogAreaSize = h
      BY <3>1, Round
    <3>3. klog_head' = h
      BY <1>4, <2>1, <3>2 DEF x
    <3>4. Limit = logd.wseq
      BY <1>1, <2>1 DEF Limit
    <3>5. InOrder(RingTail, Limit)'
      BY <1>1, <1>6, <1>7, <3>3, <3>4 DEF InOrder
    <3>6. From(t, h) <= From(t, klog_head')
      BY <1>5, <3>3
    <3> QED
      BY <1>0, <3>3, <3>5, <3>6
  <2>2. CASE Taken # LogAreaSize
    <3>1. From(t, h) + Taken < LogAreaSize /\ Taken \in 0..(LogAreaSize - 1)
      BY <1>3, <1>5, <2>2, Sizes DEF Fits
    <3>2. klog_head' \in Place /\ From(h, klog_head') = Taken
      BY <1>0, <1>4, <3>1, AheadIs
    <3>3. From(t, klog_head') = From(t, h) + Taken
      BY <1>0, <3>1, <3>2, Beyond
    <3>4. Limit = logd.rseq /\ Limit <= FirstTaken /\ FirstTaken \in Int
          /\ FirstTaken + Taken = logd.wseq
      BY <1>1, <1>3, <1>6, <2>2 DEF Limit, Pending, FirstTaken
    <3>5. ASSUME NEW i \in Place, From(t, i) < From(t, klog_head'), From(t, i) >= From(t, h)
          PROVE  /\ tee_log_area[i] = FirstTaken + (From(t, i) - From(t, h))
                 /\ tee_log_area[i] >= FirstTaken /\ tee_log_area[i] < logd.wseq
      <4>1. From(h, i) = From(t, i) - From(t, h) /\ From(h, i) < Taken /\ From(h, i) >= 0
        <5>1. From(h, i) = From(t, i) - From(t, h) /\ From(h, i) < From(h, klog_head')
          BY <1>0, <3>1, <3>2, <3>5, Beyond
        <5>2. From(h, i) \in 0..(LogAreaSize - 1)
          BY <1>0, <3>5, FromAdds
        <5> QED
          BY <3>2, <5>1, <5>2
      <4>2. tee_log_area[i] = FirstTaken + From(h, i)
        BY <1>3, <4>1 DEF Stored
      <4>3. From(h, i) \in Int
        BY <1>0, FromAdds
      <4> QED
        BY <1>3, <3>4, <4>1, <4>2, <4>3
    <3>6. ASSUME NEW i \in Place, From(t, i) < From(t, h)
          PROVE  /\ seen <= tee_log_area[i] /\ tee_log_area[i] < FirstTaken
                 /\ loss = {} => tee_log_area[i] = seen + From(t, i)
      BY <1>0, <1>6, <1>7, <3>4, <3>6 DEF InOrder
    <3>7. seen <= FirstTaken /\ FirstTaken <= logd.wseq
      BY <1>0, <1>3, <1>6, <1>7, <3>4 DEF InOrder
    <3>8. loss = {} => seen + From(t, h) = FirstTaken
      BY <1>3, <1>7, <3>4 DEF InOrder, Pending
    <3>9. ASSUME NEW i \in Place, NEW j \in Place,
                 From(t, i) < From(t, j), From(t, j) < From(t, klog_head')
          PROVE  tee_log_area[i] < tee_log_area[j]
      <4>0. From(t, i) \in Int /\ From(t, j) \in Int /\ tee_log_area[i] \in Int
            /\ tee_log_area[j] \in Int /\ From(t, klog_head') \in Int
        BY <1>0, <3>2, FromAdds
      <4>1. CASE From(t, j) < From(t, h)
        BY <1>7, <3>9, <4>1 DEF InOrder
      <4>2. CASE From(t, i) < From(t, h) /\ From(t, j) >= From(t, h)
        BY <3>4, <3>5, <3>6, <3>9, <4>0, <4>2
      <4>3. CASE From(t, i) >= From(t, h)
        <5>1. From(t, i) < From(t, klog_head') /\ From(t, j) >= From(t, h)
          BY <1>5, <3>9, <4>0, <4>3
        <5> QED
          <6>1. tee_log_area[i] = FirstTaken + (From(t, i) - From(t, h))
            BY <3>5, <4>3, <5>1
          <6>2. tee_log_area[j] = FirstTaken + (From(t, j) - From(t, h))
            BY <3>5, <3>9, <5>1
          <6> QED
            BY <1>5, <3>4, <3>9, <4>0, <6>1, <6>2
      <4> QED
        BY <1>5, <4>0, <4>1, <4>2, <4>3
    <3>10. ASSUME NEW i \in Place, From(t, i) < From(t, klog_head')
           PROVE  /\ seen <= tee_log_area[i] /\ tee_log_area[i] < logd.wseq
                  /\ loss = {} => tee_log_area[i] = seen + From(t, i)
      <4>0. From(t, i) \in Int /\ tee_log_area[i] \in Int
        BY <1>0, FromAdds
      <4>1. CASE From(t, i) < From(t, h)
        BY <1>0, <1>6, <3>4, <3>6, <3>7, <4>0, <4>1
      <4>2. CASE From(t, i) >= From(t, h)
        BY <1>0, <1>5, <3>4, <3>5, <3>7, <3>8, <3>10, <4>0, <4>2
      <4> QED
        BY <1>5, <4>0, <4>1, <4>2
    <3>11. /\ seen <= logd.wseq
           /\ loss = {} => seen + From(t, klog_head') = logd.wseq
      BY <1>0, <1>3, <1>5, <3>1, <3>3, <3>4, <3>7, <3>8
    <3>12. InOrder(RingTail, Limit)'
      BY <1>1, <1>6, <3>9, <3>10, <3>11 DEF InOrder
    <3> QED
      BY <1>3, <1>5, <3>2, <3>3, <3>12
  <2> QED
    BY <2>1, <2>2
<1>9. LogTypes'
  BY <1>1, <1>2, <1>8 DEF LogdTypes, LogTypes, RingParts
<1>10. LogdInv'
  BY <1>2 DEF LogdInv
<1>11. ReadersInv'
  <2> SUFFICES ASSUME NEW q \in Readers, rd[q].pc \in {"copy", "swap"} PROVE ReaderInv(q)'
    BY <1>1 DEF ReadersInv
  <2>1. ReaderInv(q)
    BY DEF ReadersInv, RingParts
  <2>2. From(t, rd[q].head) \in Int /\ From(t, klog_head') \in Int
    <3>1. rd[q].head \in Place
      BY DEF LogTypes, RingParts
    <3> QED
      BY <1>0, <1>8, <3>1, FromAdds
  <2> QED
    BY <1>1, <1>2, <1>5, <1>8, <2>1, <2>2 DEF ReaderInv
<1> QED
  BY <1>8, <1>9, <1>10, <1>11 DEF RingParts

LEMMA LogdStoreKeeps ==
    ASSUME RingParts, Log!LogdStore
    PROVE  RingParts'
<1> USE DEF RingParts, LogTypes
<1>0. /\ klog_head \in Place /\ klog_tail \in Place /\ seen \in Nat
      /\ logd.rseq \in Nat /\ logd.wseq \in Nat /\ tee_log_area \in [Place -> Int]
  OBVIOUS
<1>1. /\ UNCHANGED <<klog_head, klog_tail, seen, loss, rd, log_mutex, tee_write_seq,
                     tee_read_seq>>
      /\ logd.pc = "store"
  BY DEF Log!LogdStore, Log!shared
<1> DEFINE l == [logd EXCEPT !.pc = "tail"]
           t == klog_tail
           h == klog_head
           u == IF Over THEN logd.new_tail ELSE klog_tail
<1>2. logd' = l /\ l.pc = "tail" /\ LogdTypes(l)
      /\ l.rseq = logd.rseq /\ l.wseq = logd.wseq /\ l.head = logd.head /\ l.tail = logd.tail
      /\ l.new_tail = logd.new_tail /\ l.buf = logd.buf
  BY DEF Log!LogdStore, LogdTypes
<1> HIDE DEF l
<1>3. Pending /\ Room /\ Taken \in Nat /\ RingTail = t /\ Limit = logd.rseq
  BY <1>1 DEF LogdInv, Taken, RingTail, Limit
<1>4. /\ Over' = Over /\ Taken' = Taken /\ FirstTaken' = FirstTaken
      /\ RingTail' = u /\ u \in Place
      /\ Limit' = IF Taken = LogAreaSize THEN logd.wseq ELSE logd.rseq
  BY <1>1, <1>2 DEF Over, Taken, FirstTaken, Limit, RingTail
<1>5. /\ tee_log_area' = [i \in Place |-> IF From(h, i) < Taken THEN logd.buf[From(h, i) + 1]
                                          ELSE tee_log_area[i]]
  <2>1. \A i \in Place : (i + LogAreaSize - logd.head) % LogAreaSize = From(h, i)
    BY <1>3, UsedIs DEF Log!Used, Pending
  <2>2. Log!Pos = Place
    BY DEF Log!Pos, Place
  <2>3. tee_log_area' = [i \in Place |->
            LET k == (i + LogAreaSize - logd.head) % LogAreaSize
            IN  IF k < Taken THEN logd.buf[k + 1] ELSE tee_log_area[i]]
    BY <2>2 DEF Log!LogdStore, Taken
  <2> QED
    BY <2>1, <2>3
<1>6. ASSUME NEW i \in Place
      PROVE  /\ From(h, i) \in Nat
             /\ From(h, i) < Taken => tee_log_area'[i] = FirstTaken + From(h, i)
             /\ From(h, i) >= Taken => tee_log_area'[i] = tee_log_area[i]
  <2> DEFINE n == From(h, i)
  <2>1. n \in Nat
    BY <1>0, FromAdds
  <2>2. tee_log_area'[i] = IF n < Taken THEN logd.buf[n + 1] ELSE tee_log_area[i]
    BY <1>5
  <2> HIDE DEF n
  <2>3. n < Taken => logd.buf[n + 1] = FirstTaken + (n + 1) - 1
    BY <1>3, <2>1 DEF Pending
  <2>4. FirstTaken \in Int
    BY <1>3 DEF FirstTaken
  <2> QED
    BY <1>3, <2>1, <2>2, <2>3, <2>4 DEF n
<1>7. tee_log_area' \in [Place -> Int]
  <2>1. FirstTaken \in Int
    BY <1>3 DEF FirstTaken
  <2>2. ASSUME NEW i \in Place PROVE tee_log_area'[i] \in Int
    <3>1. From(h, i) \in Nat
      BY <1>0, FromAdds
    <3>2. CASE From(h, i) < Taken
      <4>1. tee_log_area'[i] = FirstTaken + From(h, i)
        BY <1>6, <3>2
      <4> QED
        BY <2>1, <3>1, <4>1
    <3>3. CASE From(h, i) >= Taken
      BY <1>0, <1>6, <3>3
    <3> QED
      BY <1>3, <3>1, <3>2, <3>3
  <2> QED
    BY <1>5, <2>2
<1>8. FirstTaken \in Int /\ FirstTaken + Taken = logd.wseq /\ logd.rseq <= FirstTaken
  BY <1>3 DEF FirstTaken, Pending
<1>9. InOrder(t, logd.rseq)
  BY <1>3
<1> HIDE DEF LogTypes, RingParts
<1>10. InOrder(RingTail, Limit)' /\ (Taken # LogAreaSize => \A i \in Place :
           From(u, i) < From(u, h) => tee_log_area'[i] = tee_log_area[i])
  <2>1. CASE Taken = LogAreaSize
    <3>1. ASSUME NEW i \in Place
          PROVE  tee_log_area'[i] = FirstTaken + From(h, i) /\ From(h, i) < Taken
                 /\ From(h, i) \in Nat
      <4>1. From(h, i) \in Nat /\ From(h, i) < Taken
        BY <1>0, <2>1, FromAdds, Sizes
      <4> QED
        BY <1>6, <4>1
    <3>2. ASSUME NEW i \in Place, NEW j \in Place,
                 From(u, i) < From(u, j), From(u, j) < From(u, h)
          PROVE  From(h, i) < From(h, j)
      <4> HIDE DEF u
      <4>1. From(u, i) \in Int /\ From(u, j) \in Int /\ From(u, h) \in Int
        BY <1>0, <1>4, FromAdds
      <4>2. From(u, i) < From(u, h)
        BY <3>2, <4>1
      <4>3. /\ From(h, i) = LogAreaSize - From(u, h) + From(u, i)
            /\ From(h, j) = LogAreaSize - From(u, h) + From(u, j)
        BY <1>0, <1>4, <3>2, <4>2, FromTheEnd
      <4> QED
        BY <3>2, <4>1, <4>3, Sizes
    <3>3. loss # {}
      <4>1. From(logd.tail, logd.head) \in Nat
        BY FromAdds DEF LogTypes, RingParts
      <4>2. Over
        BY <2>1, <4>1, Sizes DEF Over
      <4> QED
        BY <1>3, <4>2 DEF Pending
    <3>4. seen <= logd.wseq /\ seen <= FirstTaken
      BY <1>0, <1>3, <1>8, <1>9 DEF InOrder
    <3> HIDE DEF u
    <3>5. ASSUME NEW i \in Place, NEW j \in Place,
                 From(u, i) < From(u, j), From(u, j) < From(u, h)
          PROVE  tee_log_area'[i] < tee_log_area'[j]
      <4>1. From(h, i) < From(h, j)
        BY <3>2, <3>5
      <4> QED
        BY <1>8, <3>1, <4>1
    <3>6. ASSUME NEW i \in Place
          PROVE  seen <= tee_log_area'[i] /\ tee_log_area'[i] < logd.wseq
      BY <1>0, <1>3, <1>8, <3>1, <3>4
    <3>7. Limit' = logd.wseq /\ RingTail' = u
      BY <1>4, <2>1
    <3> QED
      BY <1>1, <2>1, <3>3, <3>4, <3>5, <3>6, <3>7 DEF InOrder
  <2>2. CASE Taken # LogAreaSize
    <3>1. From(u, h) + Taken < LogAreaSize /\ From(u, h) <= From(t, h)
      <4>1. From(t, h) \in Int
        BY <1>0, FromAdds
      <4> QED
        BY <1>3, <2>2, <4>1 DEF Room, Fits
    <3>2. ASSUME NEW i \in Place, From(u, i) < From(u, h)
          PROVE  /\ From(h, i) >= Taken
                 /\ From(t, i) = From(u, i) + (From(t, h) - From(u, h))
                 /\ From(t, i) < From(t, h)
      <4> HIDE DEF u
      <4>1. From(h, i) = LogAreaSize - From(u, h) + From(u, i)
        BY <1>0, <1>4, <3>2, FromTheEnd
      <4>2. /\ From(u, i) \in Nat /\ From(u, h) \in Nat /\ From(u, h) < LogAreaSize
            /\ From(t, h) \in Nat /\ From(t, i) \in Nat /\ From(t, i) < LogAreaSize
            /\ \/ From(t, h) + From(h, i) = From(t, i)
               \/ From(t, h) + From(h, i) = From(t, i) + LogAreaSize
        BY <1>0, <1>4, FromAdds, Sizes
      <4> QED
        BY <1>3, <3>1, <3>2, <4>1, <4>2, Sizes
    <3>3. \A i \in Place : From(u, i) < From(u, h) => tee_log_area'[i] = tee_log_area[i]
      BY <1>6, <3>2
    <3>4. loss = {} => u = t
      BY <1>3 DEF Pending
    <3>5. Limit' = logd.rseq /\ RingTail' = u
      BY <1>4, <2>2
    <3> HIDE DEF u
    <3>6. ASSUME NEW i \in Place, NEW j \in Place,
                 From(u, i) < From(u, j), From(u, j) < From(u, h)
          PROVE  tee_log_area'[i] < tee_log_area'[j]
      <4>0. /\ From(u, i) \in Int /\ From(u, j) \in Int /\ From(u, h) \in Int
            /\ From(t, i) \in Int /\ From(t, j) \in Int /\ From(t, h) \in Int
        BY <1>0, <1>4, FromAdds
      <4>1. From(u, i) < From(u, h)
        BY <3>6, <4>0
      <4>2. From(t, i) < From(t, j) /\ From(t, j) < From(t, h)
        <5>1. From(t, i) = From(u, i) + (From(t, h) - From(u, h))
          BY <3>2, <4>1
        <5>2. From(t, j) = From(u, j) + (From(t, h) - From(u, h)) /\ From(t, j) < From(t, h)
          BY <3>2, <3>6
        <5> QED
          BY <3>6, <4>0, <5>1, <5>2
      <4>3. tee_log_area[i] < tee_log_area[j]
        BY <1>9, <4>2 DEF InOrder
      <4> QED
        BY <3>3, <3>6, <4>1, <4>3
    <3>7. ASSUME NEW i \in Place, From(u, i) < From(u, h)
          PROVE  /\ seen <= tee_log_area'[i] /\ tee_log_area'[i] < logd.rseq
                 /\ loss = {} => tee_log_area'[i] = seen + From(u, i)
      <4>1. From(t, i) < From(t, h) /\ tee_log_area'[i] = tee_log_area[i]
        BY <3>2, <3>3, <3>7
      <4> QED
        BY <1>9, <3>4, <4>1 DEF InOrder
    <3>8. seen <= logd.rseq /\ (loss = {} => seen + From(u, h) = logd.rseq)
      BY <1>9, <3>4 DEF InOrder
    <3> QED
      BY <1>1, <3>3, <3>5, <3>6, <3>7, <3>8 DEF InOrder
  <2> QED
    BY <2>1, <2>2
<1>11. LogTypes'
  BY <1>1, <1>2, <1>7 DEF LogdTypes, LogTypes, RingParts
<1>12. LogdInv'
  <2>1. Pending'
    BY <1>1, <1>2, <1>3, <1>4 DEF Pending
  <2>2. Room'
    BY <1>1, <1>2, <1>3, <1>4 DEF Room, Fits
  <2>3. Stored'
    BY <1>1, <1>4, <1>6 DEF Stored
  <2> QED
    BY <1>2, <2>1, <2>2, <2>3 DEF LogdInv
<1>13. ReadersInv'
  <2> SUFFICES ASSUME NEW q \in Readers, rd[q].pc \in {"copy", "swap"} PROVE ReaderInv(q)'
    BY <1>1 DEF ReadersInv
  <2>1. ReaderInv(q) /\ ~Over /\ u = t
    BY <1>1 DEF ReadersInv, ReaderInv, RingParts
  <2>2. Taken # LogAreaSize
    <3>1. From(logd.tail, logd.head) \in Nat
      BY FromAdds DEF LogTypes, RingParts
    <3> QED
      BY <2>1, <3>1, Sizes DEF Over
  <2>3. ASSUME rd[q].pc = "swap"
        PROVE  /\ Len(rd[q].kbuf) <= From(t, rd[q].head)
               /\ \A i \in Place : From(t, i) < Len(rd[q].kbuf) =>
                     rd[q].kbuf[From(t, i) + 1] = tee_log_area'[i]
    <3>1. Len(rd[q].kbuf) <= From(t, rd[q].head) /\ Len(rd[q].kbuf) <= From(t, h)
      BY <2>1, <2>3, InHand DEF ReaderInv
    <3>2. Len(rd[q].kbuf) \in Int /\ From(t, h) \in Int
      BY <1>0, <2>3, InHand, FromAdds
    <3>3. ASSUME NEW i \in Place, From(t, i) < Len(rd[q].kbuf)
          PROVE  rd[q].kbuf[From(t, i) + 1] = tee_log_area'[i]
      <4>1. From(t, i) < From(t, h)
        <5>1. From(t, i) \in Int
          BY <1>0, <3>3, FromAdds
        <5> QED
          BY <3>1, <3>2, <3>3, <5>1
      <4>2. tee_log_area'[i] = tee_log_area[i]
        BY <1>10, <2>1, <2>2, <4>1
      <4> QED
        BY <2>1, <2>3, <3>3, <4>2 DEF ReaderInv
    <3> QED
      BY <3>1, <3>3
  <2> QED
    BY <1>1, <1>2, <1>4, <2>1, <2>3 DEF ReaderInv
<1> QED
  BY <1>10, <1>11, <1>12, <1>13 DEF RingParts

\* The ring of the trusted OS still holds a byte that was not written over.
LEMMA ByteIsThere ==
    ASSUME tee_write_seq \in Nat, NEW b \in Nat, b < tee_write_seq,
           tee_write_seq <= b + TeeLogLen
    PROVE  Log!TeeByte(Log!log_seq2idx(b)) = b
<1> DEFINE there == {c \in 0..(tee_write_seq - 1) : c % TeeLogLen = b % TeeLogLen}
<1>1. b \in there
  OBVIOUS
<1>2. ASSUME NEW c \in there PROVE c <= b
  <2>1. c \in Nat /\ c < tee_write_seq /\ c % TeeLogLen = b % TeeLogLen
    OBVIOUS
  <2>2. b < c => c >= b + TeeLogLen
    BY <2>1, SameRest, Sizes
  <2> QED
    BY <2>1, <2>2, Sizes
<1>3. there \subseteq Nat
  OBVIOUS
<1>4. Log!TeeByte(Log!log_seq2idx(b)) = CHOOSE x \in there : \A c \in there : c <= x
  BY DEF Log!TeeByte, Log!log_seq2idx
<1> HIDE DEF there
<1>5. \A x \in there : (\A c \in there : c <= x) => x = b
  BY <1>1, <1>2, <1>3
<1> QED
  BY <1>1, <1>2, <1>4, <1>5

\* Where the tail goes: one place behind what will be written, when that would
\* reach it.
LEMMA TailMoves ==
    ASSUME NEW h \in Place, NEW t \in Place, NEW n \in 0..LogAreaSize,
           NEW u, u = Log!adjust_klog_tail(h, t, n)
    PROVE  /\ u \in Place
           /\ From(t, h) + n < LogAreaSize => u = t
           /\ From(t, h) + n >= LogAreaSize /\ n # LogAreaSize =>
                 From(u, h) + n < LogAreaSize /\ From(u, h) <= From(t, h)
<1> DEFINE x == h + n + 1
           on == Log!ring_buffer_on_segment(h, n, t)
<1>1. u = IF on THEN x % LogAreaSize ELSE t
  BY DEF Log!adjust_klog_tail
<1>2. x % LogAreaSize \in Place
  BY Sizes DEF Place
<1>3. u \in Place
  <2> HIDE DEF x, on
  <2> QED
    BY <1>1, <1>2
<1>4. ASSUME n # LogAreaSize
      PROVE  /\ on <=> From(t, h) + n >= LogAreaSize
             /\ From(x % LogAreaSize, h) = LogAreaSize - 1 - n
  <2>1. n \in 0..(LogAreaSize - 1)
    BY <1>4, Sizes
  <2>2. (h + n) % LogAreaSize = Ahead(h, n)
    BY <2>1, AheadIs
  <2>3. on <=> IF t > h THEN t - h <= n ELSE Ahead(h, n) < h /\ Ahead(h, n) >= t
    BY <2>2 DEF Log!ring_buffer_on_segment
  <2>4. on <=> From(t, h) + n >= LogAreaSize
    <3> HIDE DEF on
    <3> QED
      BY <2>1, <2>3, Sizes DEF Ahead, From, Place
  <2>5. From(x % LogAreaSize, h) = LogAreaSize - 1 - n
    <3>1. CASE x < LogAreaSize
      <4>1. x \in 0..(LogAreaSize - 1) /\ From(x, h) = LogAreaSize - 1 - n
        BY <2>1, <3>1, Sizes DEF From, Place
      <4> HIDE DEF x
      <4> QED
        BY <4>1, Once
    <3>2. CASE x >= LogAreaSize /\ x < 2 * LogAreaSize
      <4>1. x \in LogAreaSize..(2 * LogAreaSize - 1)
            /\ From(x - LogAreaSize, h) = LogAreaSize - 1 - n
        BY <2>1, <3>2, Sizes DEF From, Place
      <4> HIDE DEF x
      <4> QED
        BY <4>1, Round
    <3> QED
      BY <2>1, <3>1, <3>2, Sizes DEF Place
  <2> QED
    BY <2>4, <2>5
<1> HIDE DEF on, x
<1>5. From(t, h) \in 0..(LogAreaSize - 1)
  BY AheadAndBack
<1>6. From(t, h) + n < LogAreaSize => u = t
  <2>1. From(t, h) + n < LogAreaSize => n # LogAreaSize /\ ~(From(t, h) + n >= LogAreaSize)
    BY <1>5, Sizes
  <2> QED
    BY <1>1, <1>4, <2>1
<1>7. From(t, h) + n >= LogAreaSize /\ n # LogAreaSize =>
         From(u, h) + n < LogAreaSize /\ From(u, h) <= From(t, h)
  <2> SUFFICES ASSUME From(t, h) + n >= LogAreaSize, n # LogAreaSize
               PROVE  From(u, h) + n < LogAreaSize /\ From(u, h) <= From(t, h)
    OBVIOUS
  <2>1. From(u, h) = LogAreaSize - 1 - n
    BY <1>1, <1>4
  <2> QED
    BY <1>5, <2>1, Sizes
<1> QED
  BY <1>3, <1>6, <1>7

LEMMA LogdTakeKeeps ==
    ASSUME RingParts, Log!LogdTake, Good'
    PROVE  RingParts'
<1> USE DEF RingParts, LogTypes
<1>1. /\ UNCHANGED <<tee_log_area, klog_head, klog_tail, seen, rd, log_mutex, tee_write_seq,
                     tee_read_seq>>
      /\ logd.pc = "take"
  BY DEF Log!LogdTake, Log!shared, Log!klog
<1> DEFINE first == Log!FirstWanted
           count == logd.wseq - first
           buf == [k \in 1..count |-> Log!TeeByte(Log!log_seq2idx(first + k - 1))]
           nt == Log!adjust_klog_tail(klog_head, klog_tail, count)
           l == [logd EXCEPT !.pc = "store", !.buf = buf, !.head = klog_head,
                    !.tail = klog_tail, !.new_tail = nt]
<1>2. logd' = l
      /\ loss' = loss
            \cup (IF first > logd.rseq THEN {"gap"} ELSE {})
            \cup (IF tee_write_seq - first > TeeLogLen THEN {"lapped"} ELSE {})
            \cup (IF Log!Overruns(l) THEN {"overrun"} ELSE {})
            \cup (IF Log!Overruns(l) /\ \E r \in Readers : Log!Reading(r) THEN {"overlap"} ELSE {})
  BY DEF Log!LogdTake
<1>3. /\ first \in Nat /\ logd.rseq <= first /\ first <= logd.wseq
      /\ logd.wseq - first <= LogAreaSize
  <2>1. logd.rseq \in Nat /\ logd.wseq \in Nat /\ logd.rseq <= logd.wseq
    OBVIOUS
  <2> HIDE DEF LogTypes, RingParts
  <2> QED
    BY <2>1, Sizes DEF Log!FirstWanted
<1> HIDE DEF first
<1>4. count \in 0..LogAreaSize
  BY <1>3, Sizes
<1>5. tee_write_seq - first <= TeeLogLen
  <2>1. ~(tee_write_seq - first > TeeLogLen)
    BY <1>2 DEF Good
  <2> QED
    BY <1>3, <2>1, Sizes
<1>6. /\ buf \in Seq(Int) /\ Len(buf) = count
      /\ \A k \in 1..count : buf[k] = first + k - 1
  <2>1. ASSUME NEW k \in 1..count PROVE buf[k] = first + k - 1
    <3>1. /\ first + k - 1 \in Nat /\ first + k - 1 < tee_write_seq
          /\ tee_write_seq <= first + k - 1 + TeeLogLen
      BY <1>3, <1>5, Sizes
    <3> QED
      BY <3>1, ByteIsThere
  <2>2. ASSUME NEW k \in 1..count PROVE buf[k] \in Int
    <3>1. first + k - 1 \in Int
      BY <1>3
    <3> QED
      BY <2>1, <3>1
  <2> HIDE DEF count
  <2> QED
    BY <1>4, <2>1, <2>2
<1> HIDE DEF buf
<1>7. /\ nt \in Place
      /\ From(klog_tail, klog_head) + count < LogAreaSize => nt = klog_tail
      /\ From(klog_tail, klog_head) + count >= LogAreaSize /\ count # LogAreaSize =>
            From(nt, klog_head) + count < LogAreaSize
            /\ From(nt, klog_head) <= From(klog_tail, klog_head)
  <2> HIDE DEF count
  <2> QED
    BY <1>4, TailMoves
<1> HIDE DEF nt, count
<1>8. /\ LogdTypes(l) /\ l.pc = "store" /\ l.buf = buf /\ l.head = klog_head
      /\ l.tail = klog_tail /\ l.new_tail = nt /\ l.rseq = logd.rseq /\ l.wseq = logd.wseq
  BY <1>6, <1>7 DEF LogdTypes
<1> HIDE DEF l
<1>9. Taken' = count /\ FirstTaken' = first
      /\ (Over' <=> From(klog_tail, klog_head) + count >= LogAreaSize)
  BY <1>2, <1>3, <1>6, <1>8 DEF Taken, FirstTaken, Over, count
<1>10. Log!Overruns(l) <=> Over'
  BY <1>6, <1>8, <1>9, UsedIs DEF Log!Overruns
<1>11. \A r \in Readers : rd[r].pc \in {"copy", "swap"} => ~Over'
  BY <1>2, <1>10 DEF Good, Log!Reading
<1>12. loss' = {} => loss = {} /\ first = logd.rseq /\ ~Over'
  <2>1. loss' = {} => loss = {} /\ ~(first > logd.rseq) /\ ~Over'
    BY <1>2, <1>10
  <2> QED
    BY <1>3, <2>1
<1>13. RingTail' = klog_tail /\ RingTail = klog_tail /\ Limit' = logd.rseq /\ Limit = logd.rseq
  BY <1>1, <1>2, <1>8 DEF RingTail, Limit
<1>14. LogTypes'
  BY <1>1, <1>2, <1>8 DEF LogdTypes
<1>15. InOrder(RingTail, Limit)'
  BY <1>1, <1>12, <1>13 DEF InOrder
<1>16. LogdInv'
  <2>1. Pending'
    <3>1. logd'.head = klog_head' /\ logd'.buf = buf /\ logd'.rseq = logd.rseq
      BY <1>1, <1>2, <1>8
    <3>2. Taken' <= LogAreaSize /\ logd'.rseq <= FirstTaken'
      BY <1>3, <1>4, <1>9, <3>1, Sizes
    <3>3. loss' = {} => FirstTaken' = logd'.rseq /\ ~Over'
      BY <1>9, <1>12, <3>1
    <3>4. \A k \in 1..Taken' : logd'.buf[k] = FirstTaken' + k - 1
      BY <1>6, <1>9, <3>1
    <3> QED
      BY <3>1, <3>2, <3>3, <3>4 DEF Pending
  <2>2. Room'
    <3>1. From(klog_tail, klog_head) \in Int /\ count \in Int
      BY <1>4, AheadAndBack
    <3> QED
      BY <1>1, <1>2, <1>7, <1>8, <1>9, <3>1, Sizes DEF Room, Fits
  <2> QED
    BY <1>2, <1>8, <2>1, <2>2 DEF LogdInv
<1>17. ReadersInv'
  <2> SUFFICES ASSUME NEW q \in Readers, rd[q].pc \in {"copy", "swap"} PROVE ReaderInv(q)'
    BY <1>1 DEF ReadersInv
  <2>1. ReaderInv(q)
    BY DEF ReadersInv
  <2> QED
    BY <1>1, <1>2, <1>8, <1>11, <2>1 DEF ReaderInv
<1> QED
  BY <1>14, <1>15, <1>16, <1>17

\* loss only grows, so what held of a good ring did so before every step.
LEMMA RingKept == RingInv /\ [Log!Next]_log => RingInv'
<1> SUFFICES ASSUME RingInv, [Log!Next]_log, Good' PROVE RingParts'
  BY DEF RingInv
<1>1. Good
  <2>1. CASE UNCHANGED log
    BY <2>1 DEF log, Good
  <2>2. CASE Log!Next
    <3>1. loss \subseteq loss'
      BY <2>2
         DEF Log!Next, Log!TeeWrites, Log!LogIrq, Log!WriteFlag, Log!Logd, Log!LogdTest,
             Log!LogdWait, Log!LogdTake, Log!LogdStore, Log!LogdTail, Log!LogdHead, Log!LogdAck,
             Log!ReadStart, Log!Read, Log!Lock, Log!GiveUp, Log!LookFinds, Log!LookSleeps,
             Log!Copy, Log!Swap
    <3> QED
      BY <3>1 DEF Good
  <2> QED
    BY <2>1, <2>2
<1>2. RingParts
  BY <1>1 DEF RingInv
<1>3. CASE UNCHANGED log
  <2>1. Untouched /\ UNCHANGED <<tee_write_seq, rd, log_mutex>>
    BY <1>3 DEF log, Untouched
  <2>2. LogTypes'
    BY <1>2, <2>1 DEF RingParts, LogTypes, Untouched
  <2>3. ReadersInv'
    BY <1>2, <2>1, RingUntouched DEF RingParts, ReadersInv, ReaderInv, Untouched
  <2> QED
    BY <1>2, <2>1, <2>2, <2>3, RingUntouched DEF RingParts
<1>4. CASE Log!TeeWrites \/ Log!LogIrq \/ Log!WriteFlag
  BY <1>2, <1>4, OutsideKeeps
<1>5. CASE Log!Logd
  BY <1>2, <1>5, LogdSleepKeeps, LogdTakeKeeps, LogdStoreKeeps, LogdTailKeeps, LogdHeadKeeps,
     LogdAckKeeps DEF Log!Logd
<1>6. CASE \E r \in Readers : Log!ReadStart(r) \/ Log!Read(r)
  <2>1. PICK r \in Readers : Log!ReadStart(r) \/ Log!Read(r)
    BY <1>6
  <2> QED
    BY <1>2, <2>1, QuietReader, LookFindsKeeps, CopyKeeps, SwapKeeps DEF Log!Read
<1> QED
  BY <1>3, <1>4, <1>5, <1>6 DEF Log!Next

\* What a reader returns is in the order of the log, and new.
LEMMA ReadIsInOrder ==
    ASSUME RingInv, NEW r \in Readers, rd[r].pc = "swap"
    PROVE  LET d == Log!Delivered(r)
           IN  /\ loss \cap {"lapped", "overlap"} = {} =>
                     Log!Increasing(d) /\ (d # <<>> => d[1] >= seen)
               /\ loss = {} => d = [k \in DOMAIN d |-> seen + k - 1]
<1> DEFINE d == Log!Delivered(r)
           n == Len(d)
<1>1. SUFFICES ASSUME Good
               PROVE  /\ Log!Increasing(d) /\ (d # <<>> => d[1] >= seen)
                      /\ loss = {} => d = [k \in DOMAIN d |-> seen + k - 1]
  BY DEF Good
<1>2. RingParts
  BY <1>1 DEF RingInv
<1>3. d = rd[r].kbuf /\ d \in Seq(Int)
  BY <1>2, InHand DEF RingParts, LogTypes
<1>4. /\ n \in Nat /\ n <= From(klog_tail, klog_head) /\ RingTail = klog_tail
      /\ \A k \in 1..n :
            /\ Ahead(klog_tail, k - 1) \in Place
            /\ From(klog_tail, Ahead(klog_tail, k - 1)) = k - 1
            /\ d[k] = tee_log_area[Ahead(klog_tail, k - 1)]
  BY <1>2, <1>3, InHand
<1>5. From(klog_tail, klog_head) \in Int /\ InOrder(klog_tail, Limit)
  BY <1>2, <1>4, AheadAndBack DEF RingParts, LogTypes
<1>6. d \in [1..n -> Int] /\ DOMAIN d = 1..n /\ (d # <<>> => n # 0)
  BY <1>3
<1> HIDE DEF d, n
<1>7. Log!Increasing(d)
  <2> SUFFICES ASSUME NEW j \in 1..n, NEW k \in 1..n, j < k PROVE d[j] < d[k]
    BY <1>6 DEF Log!Increasing
  <2>1. j - 1 < k - 1 /\ k - 1 < From(klog_tail, klog_head)
    BY <1>4, <1>5
  <2> QED
    BY <1>4, <1>5, <2>1 DEF InOrder
<1>8. ASSUME NEW k \in 1..n
      PROVE  /\ d[k] >= seen
             /\ loss = {} => d[k] = seen + (k - 1)
  <2>1. k - 1 < From(klog_tail, klog_head)
    BY <1>4, <1>5
  <2> QED
    BY <1>4, <1>5, <2>1 DEF InOrder
<1>9. d # <<>> => d[1] >= seen
  BY <1>4, <1>6, <1>8
<1>10. loss = {} => d = [k \in DOMAIN d |-> seen + k - 1]
  <2> SUFFICES ASSUME loss = {} PROVE d = [k \in DOMAIN d |-> seen + k - 1]
    OBVIOUS
  <2>1. seen \in Int /\ d = [k \in 1..n |-> d[k]]
    <3>1. seen \in Int
      BY <1>2 DEF RingParts, LogTypes
    <3> QED
      BY <1>6, <3>1
  <2>2. \A k \in 1..n : d[k] = seen + k - 1
    BY <1>4, <1>8, <2>1
  <2> QED
    BY <1>6, <2>1, <2>2
<1> QED
  BY <1>7, <1>9, <1>10

\* A read of the log returns bytes in its order and newer than those delivered
\* before, unless the trusted OS or logd wrote over what was being copied, and
\* none is missing as long as nothing was overrun; for rings, chunks and buffers
\* of any size and any number of readers (tee_log_read, do_klog).
THEOREM ReadsAreInOrder == MCSpec => ReadsFollowTheLog
<1>1. MCInit => RingInv
  BY RingStarts DEF MCInit
<1>2. RingInv /\ [MCNext]_<<which, vars, log, load>> => RingInv'
  <2>1. [MCNext]_<<which, vars, log, load>> => [Log!Next]_log
    BY DEF MCNext
  <2> QED
    BY <2>1, RingKept
<1>3. RingInv => [\A r \in Readers : rd[r].pc = "swap" /\ rd'[r].pc = "idle" =>
          LET d == Log!Delivered(r)
          IN  /\ loss \cap {"lapped", "overlap"} = {} =>
                    Log!Increasing(d) /\ (d # <<>> => d[1] >= seen)
              /\ loss = {} => d = [k \in DOMAIN d |-> seen + k - 1]]_(Log!vars)
  BY ReadIsInOrder
<1> QED
  BY <1>1, <1>2, <1>3, PTL DEF MCSpec, ReadsFollowTheLog, Log!ReadsFollowTheLog
=============================================================================
