---------------------------- MODULE PowerProofs ----------------------------
(***************************************************************************)
(* Proofs about commands and power management, for any number of threads:  *)
(* processors that go down (SmcXferBL), for any set of big cores, and the  *)
(* suspend of the whole system (PmAwake, here Gate).                       *)
(***************************************************************************)
EXTENDS MCPower, FiniteSetTheorems, NaturalsInduction, TLAPS

-----------------------------------------------------------------------------
(* The big cores: the inductive invariant. *)

Serving == {"lock", "smc", "unlock", "up"}
InService(t) == pc[t] \in {"wake", "wait"} /\ done_sem[t] = 0

\* A core that is not locked has been found without a command, and sleeps; a
\* caller that will wake one keeps it where it is.
Cores ==
    /\ \A c \in Big : c \notin cpu_lock_mask =>
          daemon[c] = "asleep" /\ c \in thread_wq /\ c \in slept
    /\ \A t \in Threads : pc[t] = "wake" =>
          /\ picked_cpu[t] \in cpu_lock_mask
          /\ daemon[picked_cpu[t]] = "asleep" /\ picked_cpu[t] \in thread_wq
    /\ \A t, u \in Threads : pc[t] = "wake" /\ pc[u] = "wake" => t = u
    /\ \A c \in cpu_lock_mask : Awake(c)
    /\ cmd_head # <<>> => cpu_lock_mask # {}

\* A command is queued once, or worked on by one daemon, or answered.
Commands ==
    /\ \A n, m \in DOMAIN cmd_head : cmd_head[n] = cmd_head[m] => n = m
    /\ \A n \in DOMAIN cmd_head :
          InService(cmd_head[n]) /\ \A c \in Big : cmd[c] # cmd_head[n]
    /\ \A c \in Big : daemon[c] \in Serving <=> cmd[c] # Nobody
    /\ \A c \in Big : cmd[c] # Nobody => InService(cmd[c])
    /\ \A c, d \in Big : cmd[c] # Nobody /\ cmd[c] = cmd[d] => c = d
    /\ \A t \in Threads : done_sem[t] > 0 => pc[t] \in {"wake", "wait"}

\* xfer_lock is of the one that is in the secure world or just was.
Lock ==
    /\ \A t \in Threads : xfer_lock = t <=> pc[t] \in {"smc", "unlock"}
    /\ \A c \in Big : xfer_lock = c <=> daemon[c] \in {"smc", "unlock"}

BLInv == TypeOK /\ Cores /\ Commands /\ Lock /\ LockedStaysOnline

LEMMA FirstIsInside ==
    ASSUME NEW S \in SUBSET Nat, S # {}
    PROVE  First(S) \in S
<1> DEFINE R == OpToRel(<, Nat)
<1>1. IsWellFoundedOn(R, Nat)
  BY NatLessThanWellFounded
<1>2. \A x, y \in Nat : <<y, x>> \in R <=> y < x
  BY DEF OpToRel
<1> HIDE DEF R
<1>3. \E x \in S : \A y \in S : ~ (<<y, x>> \in R)
  BY <1>1, WFMin
<1>4. PICK x \in S : \A y \in S : ~ (y < x)
  BY <1>2, <1>3
<1>5. \E c \in S : \A d \in S : c <= d
  BY <1>4
<1> QED BY <1>5 DEF First

LEMMA Apart ==
    /\ Nobody \notin Threads /\ Nobody \notin Big
    /\ \A t \in Threads : t \notin Big
    /\ Big # {} /\ \A c \in Big : c \in Nat
  BY BLAssumption DEF BLAssumption

LEMMA FirstOfCores ==
    ASSUME NEW S, S \subseteq Big, S # {}
    PROVE  First(S) \in S
  BY Apart, FirstIsInside

LEMMA Beginning == Init => BLInv
<1> SUFFICES ASSUME Init PROVE BLInv
  OBVIOUS
<1> USE DEF Init
<1>1. TypeOK
  <2>1. done_sem \in [Threads -> 0..1] /\ cmd_head \in Seq(Threads) /\ cmd_head = <<>>
    OBVIOUS
  <2>2. pc \in [Threads -> CallerPC] /\ daemon \in [Big -> DaemonPC]
    BY DEF CallerPC, DaemonPC
  <2>3. down \in [cpu : Big \cup {Nobody}, at : {"none", "prepare", "dying"}]
    BY DEF Staying
  <2> QED
    BY <2>1, <2>2, <2>3 DEF TypeOK
<1>2. Cores /\ Commands
  BY Apart DEF Cores, Commands, Awake, Serving, InService
<1>3. Lock /\ LockedStaysOnline
  BY Apart DEF Lock, LockedStaysOnline
<1> QED
  BY <1>1, <1>2, <1>3 DEF BLInv

LEMMA TypesPreserved == BLInv /\ [Next]_vars => TypeOK'
<1> SUFFICES ASSUME BLInv, [Next]_vars PROVE TypeOK'
  OBVIOUS
<1> USE DEF TypeOK, callers, daemons, cpus
<1>0. TypeOK
  BY DEF BLInv
<1>1. ASSUME NEW t \in Threads, PickLocked(t) PROVE TypeOK'
  <2>1. First(cpu_lock_mask) \in Big
    BY <1>0, <1>1, FirstOfCores DEF PickLocked
  <2> QED
    BY <1>0, <1>1, <2>1 DEF PickLocked, Enqueue, Goto, CallerPC
<1>2. ASSUME NEW t \in Threads, PickOnline(t) PROVE TypeOK'
  <2>1. First(online) \in Big
    BY <1>0, <1>2, FirstOfCores DEF PickOnline
  <2> QED
    BY <1>0, <1>2, <2>1 DEF PickOnline, Enqueue, Goto, CallerPC
<1>3. ASSUME NEW t \in Threads, BootBig(t) PROVE TypeOK'
  <2>1. First(Big) \in Big
    BY Apart, FirstOfCores
  <2> QED
    BY <1>0, <1>3, <2>1 DEF BootBig, Goto, CallerPC
<1>4. ASSUME NEW t \in Threads,
             \/ Xfer(t) \/ PickNone(t) \/ WakeDaemon(t) \/ GiveUpBig(t)
             \/ LocalLock(t) \/ LocalSmc(t) \/ LocalUnlock(t)
      PROVE TypeOK'
  BY <1>0, <1>4 DEF Xfer, PickNone, WakeDaemon, GiveUpBig, LocalLock, LocalSmc, LocalUnlock,
     Goto, CallerPC
<1>5. ASSUME NEW t \in Threads, DownDone(t) PROVE TypeOK'
  <2>1. done_sem' \in [Threads -> 0..1]
    BY <1>0, <1>5 DEF DownDone
  <2> QED
    BY <1>0, <1>5, <2>1 DEF DownDone, Goto, CallerPC
<1>6. ASSUME NEW c \in Big, TakeCommand(c) PROVE TypeOK'
  <2>1. Head(cmd_head) \in Threads /\ Tail(cmd_head) \in Seq(Threads)
    BY <1>0, <1>6 DEF TakeCommand
  <2> QED
    BY <1>0, <1>6, <2>1 DEF TakeCommand, Step, DaemonPC
<1>7. ASSUME NEW c \in Big,
             \/ NoCommand(c) \/ Woken(c) \/ DaemonLock(c) \/ DaemonSmc(c) \/ DaemonUnlock(c)
      PROVE TypeOK'
  BY <1>0, <1>7 DEF NoCommand, Woken, DaemonLock, DaemonSmc, DaemonUnlock, Step, DaemonPC
<1>8. ASSUME NEW c \in Big, UpDone(c) PROVE TypeOK'
  <2>1. cmd[c] \in Threads /\ done_sem[cmd[c]] = 0
    BY <1>0, <1>8 DEF BLInv, Commands, InService, UpDone, Step, Serving
  <2>2. done_sem' \in [Threads -> 0..1]
    BY <1>0, <1>8, <2>1 DEF UpDone
  <2> QED
    BY <1>0, <1>8, <2>2 DEF UpDone, Step, DaemonPC
<1>9. ASSUME NEW c \in Big, CpuUp(c) \/ CpuDown(c) PROVE TypeOK'
  BY <1>0, <1>9 DEF CpuUp, CpuDown
<1>10. CASE Hotplug
  BY <1>0, <1>10 DEF Hotplug, DownPrepare, CpuDead, Staying
<1>11. CASE UNCHANGED vars
  BY <1>0, <1>11 DEF vars
<1> QED
  BY <1>1, <1>2, <1>3, <1>4, <1>5, <1>6, <1>7, <1>8, <1>9, <1>10, <1>11
     DEF Next, Caller, Daemon

LEMMA LockPreserved == BLInv /\ [Next]_vars => Lock'
<1> SUFFICES ASSUME BLInv, [Next]_vars PROVE Lock'
  OBVIOUS
<1> USE DEF Lock, callers, daemons, cpus
<1>0. TypeOK /\ Lock
  BY DEF BLInv
<1>1. ASSUME NEW t \in Threads,
             \/ Xfer(t) \/ PickLocked(t) \/ PickOnline(t) \/ PickNone(t) \/ WakeDaemon(t)
             \/ DownDone(t) \/ BootBig(t) \/ GiveUpBig(t) \/ LocalSmc(t)
      PROVE Lock'
  BY <1>0, <1>1
     DEF TypeOK, Xfer, PickLocked, PickOnline, PickNone, Enqueue, WakeDaemon, DownDone,
     BootBig, GiveUpBig, LocalSmc, Goto
<1>2. ASSUME NEW t \in Threads, LocalLock(t) \/ LocalUnlock(t) PROVE Lock'
  BY <1>0, <1>2, Apart DEF TypeOK, LocalLock, LocalUnlock, Goto
<1>3. ASSUME NEW c \in Big,
             TakeCommand(c) \/ NoCommand(c) \/ Woken(c) \/ DaemonSmc(c) \/ UpDone(c)
      PROVE Lock'
  BY <1>0, <1>3 DEF TypeOK, TakeCommand, NoCommand, Woken, DaemonSmc, UpDone, Step
<1>4. ASSUME NEW c \in Big, DaemonLock(c) \/ DaemonUnlock(c) PROVE Lock'
  BY <1>0, <1>4, Apart DEF TypeOK, DaemonLock, DaemonUnlock, Step
<1>5. ASSUME NEW c \in Big, CpuUp(c) \/ CpuDown(c) PROVE Lock'
  BY <1>0, <1>5 DEF CpuUp, CpuDown
<1>6. CASE Hotplug
  BY <1>0, <1>6 DEF Hotplug, DownPrepare, CpuDead
<1>7. CASE UNCHANGED vars
  BY <1>0, <1>7 DEF vars
<1> QED
  BY <1>1, <1>2, <1>3, <1>4, <1>5, <1>6, <1>7 DEF Next, Caller, Daemon

LEMMA OnlinePreserved == BLInv /\ [Next]_vars => LockedStaysOnline'
<1> SUFFICES ASSUME BLInv, [Next]_vars PROVE LockedStaysOnline'
  OBVIOUS
<1> USE DEF LockedStaysOnline, callers, daemons, cpus
<1>0. TypeOK /\ LockedStaysOnline
  BY DEF BLInv
<1>1. ASSUME NEW t \in Threads,
             \/ Xfer(t) \/ PickLocked(t) \/ PickNone(t) \/ WakeDaemon(t) \/ DownDone(t)
             \/ GiveUpBig(t) \/ LocalLock(t) \/ LocalSmc(t) \/ LocalUnlock(t)
      PROVE LockedStaysOnline'
  BY <1>0, <1>1 DEF Xfer, PickLocked, PickNone, Enqueue, WakeDaemon, DownDone,
     GiveUpBig, LocalLock, LocalSmc, LocalUnlock
<1>2. ASSUME NEW t \in Threads, PickOnline(t) PROVE LockedStaysOnline'
  <2>1. First(online) \in online
    BY <1>0, <1>2, FirstOfCores DEF TypeOK, PickOnline
  <2> QED
    BY <1>0, <1>2, <2>1 DEF PickOnline, Enqueue, Staying
<1>3. ASSUME NEW t \in Threads, BootBig(t) PROVE LockedStaysOnline'
  BY <1>0, <1>3 DEF BootBig
<1>4. ASSUME NEW c \in Big,
             \/ TakeCommand(c) \/ NoCommand(c) \/ Woken(c) \/ DaemonLock(c) \/ DaemonSmc(c)
             \/ DaemonUnlock(c) \/ UpDone(c)
      PROVE LockedStaysOnline'
  BY <1>0, <1>4 DEF TakeCommand, NoCommand, Woken, DaemonLock, DaemonSmc, DaemonUnlock, UpDone
<1>5. ASSUME NEW c \in Big, CpuUp(c) \/ CpuDown(c) PROVE LockedStaysOnline'
  BY <1>0, <1>5 DEF CpuUp, CpuDown
<1>6. CASE DownPrepare
  <2>1. down.cpu \notin cpu_lock_mask => down'.cpu = down.cpu
    BY <1>0, <1>6 DEF TypeOK, DownPrepare
  <2>2. down.cpu \in cpu_lock_mask => down'.at = "none"
    BY <1>6 DEF DownPrepare, Staying
  <2> QED
    BY <1>0, <1>6, <2>1, <2>2 DEF DownPrepare
<1>7. CASE CpuDead
  <2>1. down = [cpu |-> down.cpu, at |-> "dying"]
    BY <1>0, <1>7 DEF TypeOK, CpuDead
  <2> QED
    BY <1>0, <1>7, <2>1 DEF CpuDead, Staying
<1>8. CASE UNCHANGED vars
  BY <1>0, <1>8 DEF vars
<1> QED
  BY <1>1, <1>2, <1>3, <1>4, <1>5, <1>6, <1>7, <1>8 DEF Next, Caller, Daemon, Hotplug

LEMMA CoresPreserved == BLInv /\ [Next]_vars => Cores'
<1> SUFFICES ASSUME BLInv, [Next]_vars PROVE Cores'
  OBVIOUS
<1> USE DEF Cores, Awake, callers, daemons, cpus
<1>0. TypeOK /\ Cores
  BY DEF BLInv
<1>1. ASSUME NEW t \in Threads,
             \/ Xfer(t) \/ PickNone(t) \/ DownDone(t) \/ BootBig(t)
             \/ GiveUpBig(t) \/ LocalLock(t) \/ LocalSmc(t) \/ LocalUnlock(t)
      PROVE Cores'
  <2>1. /\ pc[t] # "wake" /\ pc'[t] # "wake"
        /\ \A u \in Threads : u # t => pc'[u] = pc[u] /\ picked_cpu'[u] = picked_cpu[u]
        /\ UNCHANGED <<cpu_lock_mask, cmd_head, daemon, thread_wq, slept>>
    BY <1>0, <1>1 DEF TypeOK, Xfer, PickNone, DownDone, BootBig, GiveUpBig, LocalLock, LocalSmc,
       LocalUnlock, Goto
  <2>2. \A u \in Threads : pc[u] = "wake" <=> pc'[u] = "wake"
    BY <2>1
  <2>3. \A u \in Threads : pc'[u] = "wake" => picked_cpu'[u] = picked_cpu[u]
    BY <2>1
  <2> QED
    BY <1>0, <2>1, <2>2, <2>3
<1>2. ASSUME NEW t \in Threads, PickLocked(t) PROVE Cores'
  <2>1. /\ pc[t] # "wake" /\ pc'[t] # "wake"
        /\ \A u \in Threads : u # t => pc'[u] = pc[u] /\ picked_cpu'[u] = picked_cpu[u]
        /\ UNCHANGED <<cpu_lock_mask, daemon, thread_wq, slept>> /\ cpu_lock_mask # {}
    BY <1>0, <1>2 DEF TypeOK, PickLocked, Enqueue, Goto
  <2>2. \A u \in Threads : pc[u] = "wake" <=> pc'[u] = "wake"
    BY <2>1
  <2>3. \A u \in Threads : pc'[u] = "wake" => picked_cpu'[u] = picked_cpu[u]
    BY <2>1
  <2> QED
    BY <1>0, <2>1, <2>2, <2>3
<1>3. ASSUME NEW t \in Threads, PickOnline(t) PROVE Cores'
  <2>1. First(online) \in Big /\ cpu_lock_mask = {}
    BY <1>0, <1>3, FirstOfCores DEF TypeOK, PickOnline
  <2>2. pc'[t] = "wake" /\ picked_cpu'[t] = First(online)
    BY <1>0, <1>3 DEF TypeOK, PickOnline, Enqueue, Goto
  <2>3. \A u \in Threads : pc'[u] = "wake" => u = t
    BY <1>0, <1>3, <2>1 DEF TypeOK, PickOnline, Goto
  <2>4. UNCHANGED <<daemon, thread_wq, slept>> /\ cpu_lock_mask' = {First(online)}
    BY <1>3 DEF PickOnline, Enqueue
  <2> QED
    BY <1>0, <2>1, <2>2, <2>3, <2>4
<1>4. ASSUME NEW t \in Threads, WakeDaemon(t) PROVE Cores'
  <2>1. /\ pc[t] = "wake" /\ pc'[t] # "wake" /\ thread_wq' = thread_wq \ {picked_cpu[t]}
        /\ UNCHANGED <<cpu_lock_mask, cmd_head, daemon, slept, picked_cpu>>
    BY <1>0, <1>4 DEF TypeOK, WakeDaemon, Goto
  <2>2. \A u \in Threads : pc'[u] # "wake"
    BY <1>0, <1>4, <2>1 DEF TypeOK, WakeDaemon, Goto
  <2>3. ASSUME NEW c \in cpu_lock_mask PROVE daemon[c] # "asleep" \/ c \notin thread_wq'
    BY <1>0, <2>1
  <2> QED
    BY <1>0, <2>1, <2>2, <2>3
<1>5. ASSUME NEW c \in Big, NoCommand(c) PROVE Cores'
  <2>1. \A t \in Threads : pc[t] = "wake" => picked_cpu[t] # c
    BY <1>0, <1>5 DEF NoCommand, Step
  <2>2. /\ UNCHANGED <<pc, picked_cpu, cmd_head>> /\ cmd_head = <<>>
        /\ cpu_lock_mask' = cpu_lock_mask \ {c}
        /\ thread_wq' = thread_wq \cup {c} /\ slept' = slept \cup {c}
        /\ daemon'[c] = "asleep" /\ \A d \in Big : d # c => daemon'[d] = daemon[d]
    BY <1>0, <1>5 DEF TypeOK, NoCommand, Step
  <2>3. \A d \in cpu_lock_mask' : Awake(d)'
    BY <1>0, <2>2 DEF TypeOK
  <2> QED
    BY <1>0, <2>1, <2>2, <2>3 DEF TypeOK
<1>6. ASSUME NEW c \in Big,
             \/ TakeCommand(c) \/ DaemonLock(c) \/ DaemonSmc(c) \/ DaemonUnlock(c) \/ UpDone(c)
             \/ Woken(c)
      PROVE Cores'
  <2>1. /\ UNCHANGED <<pc, picked_cpu, cpu_lock_mask, thread_wq, slept>>
        /\ daemon[c] # "asleep" \/ c \notin thread_wq
        /\ daemon'[c] # "asleep" /\ \A d \in Big : d # c => daemon'[d] = daemon[d]
    BY <1>0, <1>6
       DEF TypeOK, TakeCommand, DaemonLock, DaemonSmc, DaemonUnlock, UpDone, Woken, Step
  <2>2. c \in cpu_lock_mask
    BY <1>0, <2>1
  <2>3. cmd_head' # <<>> => cpu_lock_mask' # {}
    BY <2>1, <2>2
  <2> QED
    BY <1>0, <2>1, <2>2, <2>3 DEF TypeOK
<1>7. ASSUME NEW c \in Big, CpuUp(c) \/ CpuDown(c) PROVE Cores'
  BY <1>0, <1>7 DEF CpuUp, CpuDown
<1>8. CASE Hotplug
  BY <1>0, <1>8 DEF Hotplug, DownPrepare, CpuDead
<1>9. CASE UNCHANGED vars
  BY <1>0, <1>9 DEF vars
<1> QED
  BY <1>1, <1>2, <1>3, <1>4, <1>5, <1>6, <1>7, <1>8, <1>9 DEF Next, Caller, Daemon

\* A command is queued by a caller that had none under way.
LEMMA EnqueueKeeps ==
    ASSUME BLInv, NEW t \in Threads, NEW to \in {"wake", "wait"},
           Goto(t, "pick", to), cmd_head' = Append(cmd_head, t),
           UNCHANGED <<done_sem, daemon, cmd>>
    PROVE  Commands'
<1>0. TypeOK /\ Commands
  BY DEF BLInv
<1>1. /\ pc[t] = "pick" /\ pc'[t] = to /\ done_sem[t] = 0
      /\ \A u \in Threads : u # t => pc'[u] = pc[u]
  BY <1>0 DEF TypeOK, Goto, Commands
<1>2. (\A n \in DOMAIN cmd_head : cmd_head[n] # t) /\ \A c \in Big : cmd[c] # t
  BY <1>0, <1>1, Apart DEF Commands, InService
<1>3. \A u \in Threads : InService(u) => InService(u)'
  BY <1>1 DEF InService
<1>4. InService(t)'
  BY <1>1 DEF InService
<1>5. /\ DOMAIN cmd_head = 1..Len(cmd_head) /\ Len(cmd_head) \in Nat
      /\ DOMAIN cmd_head' = 1..(Len(cmd_head) + 1)
      /\ \A n \in DOMAIN cmd_head : cmd_head'[n] = cmd_head[n] /\ cmd_head[n] \in Threads
      /\ cmd_head'[Len(cmd_head) + 1] = t
  BY <1>0 DEF TypeOK
<1>6. \A n \in DOMAIN cmd_head' : n \in DOMAIN cmd_head \/ n = Len(cmd_head) + 1
  BY <1>5
<1>7. \A n, m \in DOMAIN cmd_head' : cmd_head'[n] = cmd_head'[m] => n = m
  BY <1>0, <1>2, <1>5, <1>6 DEF Commands
<1>8. \A n \in DOMAIN cmd_head' :
         InService(cmd_head[n])' /\ \A c \in Big : cmd'[c] # cmd_head'[n]
  BY <1>0, <1>2, <1>3, <1>4, <1>5, <1>6 DEF Commands
<1>9. \A c \in Big : cmd'[c] # Nobody => InService(cmd[c])'
  BY <1>0, <1>3 DEF Commands, TypeOK
<1>10. \A u \in Threads : done_sem'[u] > 0 => pc'[u] \in {"wake", "wait"}
  BY <1>0, <1>1 DEF Commands
<1> QED
  BY <1>0, <1>7, <1>8, <1>9, <1>10 DEF Commands

LEMMA CommandsPreserved == BLInv /\ [Next]_vars => Commands'
<1> SUFFICES ASSUME BLInv, [Next]_vars PROVE Commands'
  OBVIOUS
<1> USE DEF callers, daemons, cpus
<1>0. TypeOK /\ Commands
  BY DEF BLInv
<1>1. ASSUME NEW t \in Threads, PickLocked(t) \/ PickOnline(t) PROVE Commands'
  BY <1>1, EnqueueKeeps DEF PickLocked, PickOnline, Enqueue
<1>2. ASSUME NEW t \in Threads,
             \/ Xfer(t) \/ PickNone(t) \/ BootBig(t) \/ WakeDaemon(t)
             \/ GiveUpBig(t) \/ LocalLock(t) \/ LocalSmc(t) \/ LocalUnlock(t)
      PROVE Commands'
  <2>1. /\ pc[t] \in {"wake", "wait"} <=> pc'[t] \in {"wake", "wait"}
        /\ \A u \in Threads : u # t => pc'[u] = pc[u]
        /\ UNCHANGED <<cmd_head, done_sem, daemon, cmd>>
    BY <1>0, <1>2
       DEF TypeOK, Xfer, PickNone, BootBig, WakeDaemon, GiveUpBig, LocalLock, LocalSmc,
       LocalUnlock, Goto
  <2>2. \A u \in Threads : pc[u] \in {"wake", "wait"} <=> pc'[u] \in {"wake", "wait"}
    BY <2>1
  <2>3. \A u \in Threads : InService(u)' = InService(u)
    BY <2>1, <2>2 DEF InService
  <2>4. \A n \in DOMAIN cmd_head : cmd_head[n] \in Threads
    BY <1>0 DEF TypeOK
  <2>5. \A c \in Big : cmd[c] # Nobody => cmd[c] \in Threads
    BY <1>0 DEF TypeOK
  <2> QED
    BY <1>0, <2>1, <2>2, <2>3, <2>4, <2>5 DEF Commands
<1>3. ASSUME NEW t \in Threads, DownDone(t) PROVE Commands'
  <2>1. /\ done_sem[t] = 1 /\ done_sem'[t] = 0
        /\ \A u \in Threads : u # t => pc'[u] = pc[u] /\ done_sem'[u] = done_sem[u]
        /\ UNCHANGED <<cmd_head, daemon, cmd>>
    BY <1>0, <1>3 DEF TypeOK, DownDone, Goto
  <2>2. \A u \in Threads : InService(u) => InService(u)'
    BY <2>1 DEF InService
  <2>3. \A n \in DOMAIN cmd_head : cmd_head[n] \in Threads
    BY <1>0 DEF TypeOK
  <2>4. \A c \in Big : cmd[c] # Nobody => cmd[c] \in Threads
    BY <1>0 DEF TypeOK
  <2>5. \A u \in Threads : done_sem'[u] > 0 => pc'[u] \in {"wake", "wait"}
    BY <1>0, <2>1 DEF Commands
  <2> QED
    BY <1>0, <2>1, <2>2, <2>3, <2>4, <2>5 DEF Commands
<1>4. ASSUME NEW c \in Big, TakeCommand(c) PROVE Commands'
  <2>1. /\ cmd_head # <<>> /\ cmd_head' = Tail(cmd_head)
        /\ cmd' = [cmd EXCEPT ![c] = Head(cmd_head)]
        /\ daemon[c] = "look" /\ daemon' = [daemon EXCEPT ![c] = "lock"]
        /\ UNCHANGED <<pc, done_sem>>
    BY <1>4 DEF TakeCommand, Step
  <2>2. /\ Len(cmd_head) \in Nat \ {0} /\ DOMAIN cmd_head = 1..Len(cmd_head)
        /\ Head(cmd_head) = cmd_head[1] /\ cmd_head[1] \in Threads
        /\ DOMAIN cmd_head' = 1..(Len(cmd_head) - 1)
        /\ \A n \in DOMAIN cmd_head' : cmd_head'[n] = cmd_head[n + 1]
    BY <1>0, <2>1 DEF TypeOK
  <2>3. \A n \in DOMAIN cmd_head' : n \in Nat /\ n + 1 \in DOMAIN cmd_head /\ n + 1 # 1
    BY <2>2
  <2>4. /\ cmd'[c] = cmd_head[1] /\ \A d \in Big : d # c => cmd'[d] = cmd[d]
        /\ daemon'[c] = "lock" /\ \A d \in Big : d # c => daemon'[d] = daemon[d]
    BY <1>0, <2>1, <2>2 DEF TypeOK
  <2>5. InService(cmd_head[1]) /\ \A d \in Big : cmd[d] # cmd_head[1]
    BY <1>0, <2>2 DEF Commands
  <2>6. \A n, m \in DOMAIN cmd_head' : cmd_head'[n] = cmd_head'[m] => n = m
    <3> SUFFICES ASSUME NEW n \in DOMAIN cmd_head', NEW m \in DOMAIN cmd_head',
                        cmd_head'[n] = cmd_head'[m]
                 PROVE  n = m
      OBVIOUS
    <3>1. n + 1 = m + 1
      BY <1>0, <2>2, <2>3 DEF Commands
    <3> QED
      BY <2>3, <3>1
  <2>7. ASSUME NEW n \in DOMAIN cmd_head'
        PROVE  InService(cmd_head'[n]) /\ cmd_head'[n] # cmd_head[1]
               /\ \A d \in Big : cmd'[d] # cmd_head'[n]
    <3>1. /\ InService(cmd_head[n + 1]) /\ \A d \in Big : cmd[d] # cmd_head[n + 1]
      BY <1>0, <2>3 DEF Commands
    <3>2. cmd_head[n + 1] # cmd_head[1]
      BY <1>0, <2>2, <2>3 DEF Commands
    <3> QED
      BY <2>2, <2>4, <3>1, <3>2
  <2>8. \A n \in DOMAIN cmd_head' : InService(cmd_head[n])'
    BY <2>1, <2>7 DEF InService
  <2>9. \A d \in Big : daemon'[d] \in Serving <=> cmd'[d] # Nobody
    BY <1>0, <2>1, <2>2, <2>4, Apart DEF Commands, Serving
  <2>10. \A d \in Big : cmd'[d] # Nobody => InService(cmd[d])'
    <3>1. \A d \in Big : cmd'[d] # Nobody => InService(cmd'[d])
      BY <1>0, <2>4, <2>5 DEF Commands
    <3> QED
      BY <2>1, <3>1 DEF InService
  <2>11. \A d, e \in Big : cmd'[d] # Nobody /\ cmd'[d] = cmd'[e] => d = e
    BY <1>0, <2>4, <2>5 DEF Commands
  <2>12. \A t \in Threads : done_sem'[t] > 0 => pc'[t] \in {"wake", "wait"}
    BY <1>0, <2>1 DEF Commands
  <2>13. \A n \in DOMAIN cmd_head' : \A d \in Big : cmd'[d] # cmd_head'[n]
    BY <2>7
  <2> QED
    BY <2>6, <2>8, <2>9, <2>10, <2>11, <2>12, <2>13 DEF Commands
<1>5. ASSUME NEW c \in Big,
             NoCommand(c) \/ Woken(c) \/ DaemonLock(c) \/ DaemonSmc(c) \/ DaemonUnlock(c)
      PROVE Commands'
  <2>1. /\ UNCHANGED <<pc, done_sem, cmd_head, cmd>>
        /\ daemon[c] \in Serving <=> daemon'[c] \in Serving
        /\ \A d \in Big : d # c => daemon'[d] = daemon[d]
    BY <1>0, <1>5
       DEF TypeOK, NoCommand, Woken, DaemonLock, DaemonSmc, DaemonUnlock, Step, Serving
  <2>2. \A d \in Big : daemon'[d] \in Serving <=> daemon[d] \in Serving
    BY <2>1
  <2> QED
    BY <1>0, <2>1, <2>2 DEF Commands, InService
<1>6. ASSUME NEW c \in Big, UpDone(c) PROVE Commands'
  <2>1. /\ daemon[c] = "up" /\ daemon'[c] = "look" /\ cmd'[c] = Nobody
        /\ \A d \in Big : d # c => daemon'[d] = daemon[d] /\ cmd'[d] = cmd[d]
        /\ UNCHANGED <<pc, cmd_head>>
    BY <1>0, <1>6 DEF TypeOK, UpDone, Step
  <2>2. cmd[c] # Nobody
    BY <1>0, <2>1 DEF Commands, Serving
  <2>3. cmd[c] \in Threads /\ InService(cmd[c])
    BY <1>0, <2>2 DEF TypeOK, Commands
  <2>4. \A t \in Threads : t # cmd[c] => done_sem'[t] = done_sem[t]
    BY <1>0, <1>6, <2>3 DEF TypeOK, UpDone
  <2>5. \A t \in Threads : t # cmd[c] /\ InService(t) => InService(t)'
    BY <2>1, <2>4 DEF InService
  <2>6. \A n \in DOMAIN cmd_head : cmd_head[n] \in Threads /\ cmd_head[n] # cmd[c]
    BY <1>0 DEF TypeOK, Commands
  <2>7. \A d \in Big : d # c /\ cmd[d] # Nobody => cmd[d] \in Threads /\ cmd[d] # cmd[c]
    BY <1>0 DEF TypeOK, Commands
  <2>8. \A t \in Threads : done_sem'[t] > 0 => pc'[t] \in {"wake", "wait"}
    BY <1>0, <2>1, <2>3, <2>4 DEF Commands, InService
  <2>9. \A n \in DOMAIN cmd_head' :
           InService(cmd_head[n])' /\ \A d \in Big : cmd'[d] # cmd_head'[n]
    BY <1>0, <2>1, <2>5, <2>6, Apart DEF Commands
  <2>10. \A d \in Big : cmd'[d] # Nobody => InService(cmd[d])'
    BY <1>0, <2>1, <2>5, <2>7 DEF Commands
  <2>11. \A d \in Big : daemon'[d] \in Serving <=> cmd'[d] # Nobody
    BY <1>0, <2>1 DEF Commands, Serving
  <2> QED
    BY <1>0, <2>1, <2>8, <2>9, <2>10, <2>11 DEF Commands
<1>7. ASSUME NEW c \in Big, CpuUp(c) \/ CpuDown(c) PROVE Commands'
  BY <1>0, <1>7 DEF CpuUp, CpuDown, Commands, InService
<1>8. CASE Hotplug
  BY <1>0, <1>8 DEF Hotplug, DownPrepare, CpuDead, Commands, InService
<1>9. CASE UNCHANGED vars
  BY <1>0, <1>9 DEF vars, Commands, InService
<1> QED
  BY <1>1, <1>2, <1>3, <1>4, <1>5, <1>6, <1>7, <1>8, <1>9 DEF Next, Caller, Daemon

\* The big cores, their daemons and the commands agree: a core that is locked
\* has a daemon that is awake, a core that is not has one that sleeps, and a
\* command is in one place.
THEOREM BLInductive == Spec => []BLInv
<1>1. BLInv /\ [Next]_vars => BLInv'
  BY TypesPreserved, CoresPreserved, CommandsPreserved, LockPreserved, OnlinePreserved DEF BLInv
<1> QED
  BY <1>1, Beginning, PTL DEF Spec

\* A queued command always has a locked core whose daemon is awake, and that
\* core stays online (tee_smc_xfer.c:68-70, :552-560).
THEOREM CommandsAreServed == Spec => []CommandsHaveACore
<1>1. BLInv => CommandsHaveACore
  <2> SUFFICES ASSUME BLInv PROVE CommandsHaveACore
    OBVIOUS
  <2>1. QueueHasServer
    BY DEF BLInv, Cores, QueueHasServer
  <2> QED
    BY <2>1 DEF BLInv, CommandsHaveACore
<1> QED
  BY <1>1, BLInductive, PTL

\* A daemon works only while its own core is locked.
THEOREM WorkersHaveTheirCore ==
    Spec => [](\A c \in Big : daemon[c] \in Serving => c \in cpu_lock_mask)
<1>1. BLInv => \A c \in Big : daemon[c] \in Serving => c \in cpu_lock_mask
  BY DEF BLInv, Cores, Serving
<1> QED
  BY <1>1, BLInductive, PTL

-----------------------------------------------------------------------------
(* The big cores serve one SMC at a time. *)

\* A daemon that holds a command: how far the command is.
Progress(d) == IF d = "lock" THEN "called" ELSE IF d = "smc" THEN "turn" ELSE "answered"

\* A caller that has no daemon: its own progress.
Alone(p) ==
    IF p = "idle" THEN "idle"
    ELSE IF p = "smc" THEN "turn"
    ELSE IF p = "unlock" THEN "answered"
    ELSE "called"

StageFacts(t) ==
    /\ pc[t] \notin {"wake", "wait"} => XferStage[t] = Alone(pc[t])
    /\ pc[t] \in {"wake", "wait"} /\ done_sem[t] > 0 => XferStage[t] = "answered"
    /\ \A c \in Big : cmd[c] = t => XferStage[t] = Progress(daemon[c])
    /\ InService(t) /\ (\A c \in Big : cmd[c] # t) => XferStage[t] = "called"

\* What XferStage is, case by case.
LEMMA StageIs == BLInv => \A t \in Threads : StageFacts(t)
<1> SUFFICES ASSUME BLInv, NEW t \in Threads PROVE StageFacts(t)
  OBVIOUS
<1> USE DEF StageFacts
<1>0. TypeOK /\ Commands
  BY DEF BLInv
<1>1. \A c \in Working(t) : c \in Big /\ cmd[c] = t /\ daemon[c] \in Serving /\ InService(t)
  BY <1>0, Apart DEF Working, Commands
<1>2. CASE pc[t] \notin {"wake", "wait"}
  <2>1. Working(t) = {} /\ done_sem[t] = 0
    BY <1>0, <1>1, <1>2 DEF TypeOK, InService, Commands
  <2>2. XferStage[t] = Alone(pc[t])
    BY <1>0, <1>2, <2>1 DEF XferStage, Alone
  <2>3. \A c \in Big : cmd[c] # t
    BY <2>1 DEF Working
  <2> QED
    BY <1>2, <2>2, <2>3 DEF InService
<1>3. CASE pc[t] \in {"wake", "wait"} /\ done_sem[t] > 0
  <2>1. Working(t) = {}
    BY <1>0, <1>1, <1>3 DEF TypeOK, InService
  <2>2. XferStage[t] = "answered"
    BY <1>3, <2>1 DEF XferStage
  <2>3. \A c \in Big : cmd[c] # t
    BY <2>1 DEF Working
  <2> QED
    BY <1>3, <2>2, <2>3 DEF InService
<1>4. CASE InService(t)
  <2>1. ASSUME NEW c \in Big, cmd[c] = t PROVE XferStage[t] = Progress(daemon[c])
    <3>1. Working(t) = {c}
      BY <1>0, <1>1, <2>1, Apart DEF Working, Commands
    <3>2. daemon[c] \in Serving
      BY <1>1, <3>1
    <3> QED
      BY <1>4, <3>1, <3>2 DEF XferStage, Progress, InService, Serving
  <2>2. (\A c \in Big : cmd[c] # t) => XferStage[t] = "called"
    BY <1>4 DEF XferStage, InService, Working
  <2> QED
    BY <1>4, <2>1, <2>2 DEF InService
<1> QED
  BY <1>0, <1>2, <1>3, <1>4 DEF TypeOK, InService

LEMMA Stages ==
    /\ DOMAIN XferStage = Threads
    /\ XferStage = [t \in Threads |-> XferStage[t]]
    /\ XferStage' = [t \in Threads |-> XferStage'[t]]
  BY DEF XferStage

\* A step that changes one thread's stage moves it.
LEMMA OneMoves ==
    ASSUME NEW t \in Threads, NEW from, NEW to,
           XferStage[t] = from, XferStage'[t] = to,
           \A u \in Threads : u # t => XferStage'[u] = XferStage[u]
    PROVE  Service!Move(t, from, to) /\ (from = to => XferStage' = XferStage)
<1>1. XferStage' = [XferStage EXCEPT ![t] = to]
  BY Stages
<1>2. from = to => XferStage' = XferStage
  BY Stages
<1> QED
  BY <1>1, <1>2 DEF Service!Move

\* The stage of a thread depends only on where it and its command are.
LEMMA OthersStay ==
    ASSUME NEW t \in Threads, pc'[t] = pc[t], done_sem'[t] = done_sem[t],
           \A c \in Big : cmd'[c] = t <=> cmd[c] = t,
           \A c \in Big : cmd[c] = t => daemon'[c] = daemon[c]
    PROVE  XferStage'[t] = XferStage[t]
<1>1. Working(t)' = Working(t)
  BY DEF Working
<1>2. \A c \in Working(t) : daemon'[c] = daemon[c]
  BY DEF Working
<1> QED
  BY <1>1, <1>2 DEF XferStage

LEMMA StageWillBe == BLInv' => (\A t \in Threads : StageFacts(t))'
  BY StageIs, PTL

\* xfer_lock is free: nobody has its turn.
LEMMA LockIsTurn ==
    ASSUME BLInv, xfer_lock = Nobody, NEW u \in Threads
    PROVE  XferStage[u] # "turn"
<1>1. pc[u] # "smc" /\ \A c \in Big : daemon[c] # "smc"
  BY Apart DEF BLInv, Lock
<1> QED
  BY <1>1 DEF XferStage, Working

\* Steps of a caller that concern no command of another one.
LEMMA CallerSteps ==
    ASSUME BLInv, BLInv', NEW t \in Threads, Xfer(t) \/ Caller(t) \/ GiveUpBig(t)
    PROVE  [Service!Next]_XferStage
<1> USE DEF callers, daemons, cpus
<1>0. TypeOK /\ TypeOK' /\ Commands /\ Lock
  BY DEF BLInv
<1>1. StageFacts(t) /\ StageFacts(t)'
  BY StageIs, StageWillBe
<1>2. ASSUME UNCHANGED <<daemon, cmd>>,
             \A u \in Threads : u # t => pc'[u] = pc[u] /\ done_sem'[u] = done_sem[u]
      PROVE  \A u \in Threads : u # t => XferStage'[u] = XferStage[u]
  BY <1>2, OthersStay
<1>3. pc[t] \notin {"wake", "wait"} => \A c \in Big : cmd[c] # t
  BY <1>0, Apart DEF Commands, InService
<1>4. CASE Xfer(t)
  <2>1. XferStage[t] = "idle" /\ XferStage'[t] = "called"
    BY <1>0, <1>1, <1>4 DEF TypeOK, Xfer, Goto, StageFacts, Alone
  <2>2. \A u \in Threads : u # t => XferStage'[u] = XferStage[u]
    BY <1>0, <1>2, <1>4 DEF TypeOK, Xfer, Goto
  <2> QED
    BY <2>1, <2>2, OneMoves DEF Service!Next, Service!Call
<1>5. CASE PickLocked(t) \/ PickOnline(t)
  <2>1. pc[t] = "pick" /\ pc'[t] \in {"wake", "wait"} /\ UNCHANGED <<done_sem, cmd>>
    BY <1>0, <1>5 DEF TypeOK, PickLocked, PickOnline, Enqueue, Goto
  <2>4. done_sem'[t] = 0
    BY <1>0, <2>1 DEF TypeOK, Commands
  <2>2. XferStage[t] = "called" /\ XferStage'[t] = "called"
    BY <1>1, <1>3, <2>1, <2>4 DEF StageFacts, Alone, InService
  <2>3. \A u \in Threads : u # t => XferStage'[u] = XferStage[u]
    BY <1>0, <1>2, <1>5 DEF TypeOK, PickLocked, PickOnline, Enqueue, Goto
  <2> QED
    BY <2>2, <2>3, OneMoves
<1>6. CASE PickNone(t) \/ BootBig(t) \/ GiveUpBig(t)
  <2>1. XferStage[t] = "called" /\ XferStage'[t] = "called"
    BY <1>0, <1>1, <1>6 DEF TypeOK, PickNone, BootBig, GiveUpBig, Goto, StageFacts, Alone
  <2>2. \A u \in Threads : u # t => XferStage'[u] = XferStage[u]
    BY <1>0, <1>2, <1>6 DEF TypeOK, PickNone, BootBig, GiveUpBig, Goto
  <2> QED
    BY <2>1, <2>2, OneMoves
<1>7. CASE WakeDaemon(t)
  <2>1. pc[t] = "wake" /\ pc'[t] = "wait" /\ UNCHANGED <<done_sem, cmd, daemon>>
    BY <1>0, <1>7 DEF TypeOK, WakeDaemon, Goto
  <2>2. XferStage'[t] = XferStage[t]
    BY <2>1 DEF XferStage, Working
  <2>3. \A u \in Threads : u # t => XferStage'[u] = XferStage[u]
    BY <1>0, <1>2, <1>7 DEF TypeOK, WakeDaemon, Goto
  <2> QED
    BY <2>2, <2>3, OneMoves
<1>8. CASE DownDone(t)
  <2>1. pc[t] = "wait" /\ done_sem[t] > 0 /\ pc'[t] = "idle"
    BY <1>0, <1>8 DEF TypeOK, DownDone, Goto
  <2>2. XferStage[t] = "answered" /\ XferStage'[t] = "idle"
    BY <1>1, <2>1 DEF StageFacts, Alone
  <2>3. \A u \in Threads : u # t => XferStage'[u] = XferStage[u]
    BY <1>0, <1>2, <1>8 DEF TypeOK, DownDone, Goto
  <2> QED
    BY <2>2, <2>3, OneMoves DEF Service!Next, Service!Return
<1>9. CASE LocalLock(t)
  <2>1. XferStage[t] = "called" /\ XferStage'[t] = "turn"
    BY <1>0, <1>1, <1>9 DEF TypeOK, LocalLock, Goto, StageFacts, Alone
  <2>2. \A u \in Threads : u # t => XferStage'[u] = XferStage[u]
    BY <1>0, <1>2, <1>9 DEF TypeOK, LocalLock, Goto
  <2>3. \A u \in Threads : XferStage[u] # "turn"
    BY <1>9, LockIsTurn DEF LocalLock
  <2> QED
    BY <2>1, <2>2, <2>3, OneMoves DEF Service!Next, Service!Turn
<1>10. CASE LocalSmc(t)
  <2>1. XferStage[t] = "turn" /\ XferStage'[t] = "answered"
    BY <1>0, <1>1, <1>10 DEF TypeOK, LocalSmc, Goto, StageFacts, Alone
  <2>2. \A u \in Threads : u # t => XferStage'[u] = XferStage[u]
    BY <1>0, <1>2, <1>10 DEF TypeOK, LocalSmc, Goto
  <2> QED
    BY <2>1, <2>2, OneMoves DEF Service!Next, Service!Answer
<1>11. CASE LocalUnlock(t)
  <2>1. XferStage[t] = "answered" /\ XferStage'[t] = "idle"
    BY <1>0, <1>1, <1>11 DEF TypeOK, LocalUnlock, Goto, StageFacts, Alone
  <2>2. \A u \in Threads : u # t => XferStage'[u] = XferStage[u]
    BY <1>0, <1>2, <1>11 DEF TypeOK, LocalUnlock, Goto
  <2> QED
    BY <2>1, <2>2, OneMoves DEF Service!Next, Service!Return
<1> QED
  BY <1>4, <1>5, <1>6, <1>7, <1>8, <1>9, <1>10, <1>11 DEF Caller

LEMMA DaemonSteps ==
    ASSUME BLInv, BLInv', NEW c \in Big, Daemon(c)
    PROVE  [Service!Next]_XferStage
<1> USE DEF callers, daemons, cpus
<1>0. TypeOK /\ TypeOK' /\ Commands /\ Commands'
  BY DEF BLInv
<1>1. \A t \in Threads : StageFacts(t) /\ StageFacts(t)'
  BY StageIs, StageWillBe
<1>2. ASSUME UNCHANGED <<pc, done_sem, cmd>>, NEW t, cmd[c] # Nobody => cmd[c] = t,
             \A d \in Big : d # c => daemon'[d] = daemon[d]
      PROVE  \A u \in Threads : u # t => XferStage'[u] = XferStage[u]
  <2>1. \A u \in Threads : u # t => cmd[c] # u
    BY <1>2, Apart
  <2> QED
    BY <1>2, <2>1, OthersStay
<1>3. CASE TakeCommand(c)
  <2> DEFINE t == Head(cmd_head)
  <2>1. t \in Threads /\ t = cmd_head[1] /\ 1 \in DOMAIN cmd_head
    BY <1>0, <1>3 DEF TypeOK, TakeCommand
  <2> HIDE DEF t
  <2>2. /\ cmd' = [cmd EXCEPT ![c] = t] /\ daemon[c] = "look" /\ daemon'[c] = "lock"
        /\ \A d \in Big : d # c => daemon'[d] = daemon[d]
        /\ UNCHANGED <<pc, done_sem>>
    BY <1>0, <1>3 DEF TypeOK, TakeCommand, Step, t
  <2>3. cmd[c] = Nobody /\ cmd'[c] = t /\ \A d \in Big : d # c => cmd'[d] = cmd[d]
    BY <1>0, <2>2 DEF TypeOK, Commands, Serving
  <2>4. InService(t) /\ \A d \in Big : cmd[d] # t
    BY <1>0, <2>1 DEF Commands
  <2>5. XferStage[t] = "called" /\ XferStage'[t] = "called"
    BY <1>1, <2>1, <2>2, <2>3, <2>4 DEF StageFacts, Progress
  <2>6. \A u \in Threads : u # t => XferStage'[u] = XferStage[u]
    BY <2>2, <2>3, Apart, OthersStay
  <2> QED
    BY <2>1, <2>5, <2>6, OneMoves
<1>4. CASE NoCommand(c) \/ Woken(c)
  <2>1. /\ UNCHANGED <<pc, done_sem, cmd>> /\ daemon[c] \notin Serving
        /\ \A d \in Big : d # c => daemon'[d] = daemon[d]
    BY <1>0, <1>4 DEF TypeOK, NoCommand, Woken, Step, Serving
  <2>2. cmd[c] = Nobody
    BY <1>0, <2>1 DEF Commands
  <2>3. \A u \in Threads : XferStage'[u] = XferStage[u]
    BY <2>1, <2>2, Apart, OthersStay
  <2> QED
    BY <2>3, Stages
<1>5. ASSUME \/ DaemonLock(c) \/ DaemonSmc(c) \/ DaemonUnlock(c)
      PROVE  [Service!Next]_XferStage
  <2>1. /\ UNCHANGED <<pc, done_sem, cmd>> /\ daemon[c] \in Serving
        /\ \A d \in Big : d # c => daemon'[d] = daemon[d]
    BY <1>0, <1>5 DEF TypeOK, DaemonLock, DaemonSmc, DaemonUnlock, Step, Serving
  <2>2. PICK t \in Threads : cmd[c] = t /\ cmd'[c] = t
    BY <1>0, <2>1 DEF TypeOK, Commands
  <2>3. XferStage[t] = Progress(daemon[c]) /\ XferStage'[t] = Progress(daemon'[c])
    BY <1>1, <2>2 DEF StageFacts
  <2>4. \A u \in Threads : u # t => XferStage'[u] = XferStage[u]
    BY <1>2, <2>1, <2>2
  <2>5. CASE DaemonLock(c)
    <3>1. XferStage[t] = "called" /\ XferStage'[t] = "turn"
      BY <1>0, <2>3, <2>5 DEF TypeOK, DaemonLock, Step, Progress
    <3>2. \A u \in Threads : XferStage[u] # "turn"
      BY <2>5, LockIsTurn DEF DaemonLock
    <3> QED
      BY <2>4, <3>1, <3>2, OneMoves DEF Service!Next, Service!Turn
  <2>6. CASE DaemonSmc(c)
    <3>1. XferStage[t] = "turn" /\ XferStage'[t] = "answered"
      BY <1>0, <2>3, <2>6 DEF TypeOK, DaemonSmc, Step, Progress
    <3> QED
      BY <2>4, <3>1, OneMoves DEF Service!Next, Service!Answer
  <2>7. CASE DaemonUnlock(c)
    <3>1. XferStage[t] = "answered" /\ XferStage'[t] = "answered"
      BY <1>0, <2>3, <2>7 DEF TypeOK, DaemonUnlock, Step, Progress
    <3> QED
      BY <2>4, <3>1, OneMoves
  <2> QED
    BY <1>5, <2>5, <2>6, <2>7
<1>6. CASE UpDone(c)
  <2>1. /\ daemon[c] = "up" /\ cmd' = [cmd EXCEPT ![c] = Nobody] /\ UNCHANGED pc
        /\ \A d \in Big : d # c => daemon'[d] = daemon[d]
        /\ done_sem' = [done_sem EXCEPT ![cmd[c]] = done_sem[cmd[c]] + 1]
    BY <1>0, <1>6 DEF TypeOK, UpDone, Step
  <2>2. PICK t \in Threads : cmd[c] = t
    BY <1>0, <2>1 DEF TypeOK, Commands, Serving
  <2>3. /\ InService(t) /\ done_sem'[t] = 1
        /\ \A u \in Threads : u # t => done_sem'[u] = done_sem[u]
    BY <1>0, <2>1, <2>2, Apart DEF TypeOK, Commands, InService
  <2>4. XferStage[t] = "answered" /\ XferStage'[t] = "answered"
    BY <1>1, <2>1, <2>2, <2>3 DEF StageFacts, Progress, InService
  <2>5. cmd'[c] = Nobody /\ \A d \in Big : d # c => cmd'[d] = cmd[d]
    BY <1>0, <2>1 DEF TypeOK
  <2>6. \A u \in Threads : u # t => XferStage'[u] = XferStage[u]
    BY <2>1, <2>2, <2>3, <2>5, Apart, OthersStay
  <2> QED
    BY <2>4, <2>6, OneMoves
<1> QED
  BY <1>3, <1>4, <1>5, <1>6 DEF Daemon

LEMMA BLServiceStep == BLInv /\ BLInv' /\ [Next]_vars => [Service!Next]_XferStage
<1> SUFFICES ASSUME BLInv, BLInv', [Next]_vars PROVE [Service!Next]_XferStage
  OBVIOUS
<1>1. ASSUME NEW c \in Big, CpuUp(c) \/ CpuDown(c) PROVE XferStage' = XferStage
  BY <1>1 DEF CpuUp, CpuDown, callers, daemons, XferStage, Working
<1>2. CASE Hotplug
  <2>1. XferStage' = XferStage
    BY <1>2 DEF Hotplug, DownPrepare, CpuDead, callers, daemons, XferStage, Working
  <2> QED
    BY <2>1
<1>3. CASE UNCHANGED vars
  <2>1. XferStage' = XferStage
    BY <1>3 DEF vars, callers, daemons, XferStage, Working
  <2> QED
    BY <2>1
<1> QED
  BY <1>1, <1>2, <1>3, CallerSteps, DaemonSteps DEF Next

\* The queue, the daemons and the callers that help themselves serve one SMC at
\* a time and each to its end, for any number of threads and of big cores.
THEOREM BLImplements == Spec => ImplementsService
<1>1. Init => Service!Init
  BY DEF Init, Service!Init, XferStage
<1> QED
  BY <1>1, BLServiceStep, BLInductive, PTL DEF Spec, ImplementsService, Service!Spec

-----------------------------------------------------------------------------
(* The suspend gate, for any number of threads and of stray resumes.        *)

\* The type invariant of PmAwake.
GateTyped ==
    /\ tee_wakeup_cnt \in Int
    /\ suspend_done \subseteq CmdThreads
    /\ awake_done \in BOOLEAN
    /\ gate_pc \in [CmdThreads -> Gate!ThreadPC]
    /\ pm \in Gate!PmPC
    /\ seen \in Int
    /\ stray \in Nat /\ overwritten \in BOOLEAN

\* CountIsExact of PmAwake.
GateExact ==
    ~overwritten =>
        IF Gate!Suspended THEN tee_wakeup_cnt = -1 /\ Gate!Running = {} /\ stray = 0
                          ELSE tee_wakeup_cnt = Cardinality(Gate!Running) + stray

\* What the resume that follows a prepared suspend read is still the count.
ReadHolds == ~overwritten /\ pm = "set" => seen = tee_wakeup_cnt

GateInv == GateTyped /\ GateExact /\ ReadHolds /\ Gate!OnlyStraysOverwrite

LEMMA SameCardinality == \A S : Gate!Cardinality(S) = Cardinality(S)
  BY DEF Gate!Cardinality, Cardinality

LEMMA RunningFinite ==
    /\ IsFiniteSet(Gate!Running)
    /\ Cardinality(Gate!Running) \in Nat
    /\ Cardinality(Gate!Running) <= Cardinality(CmdThreads)
    /\ Cardinality(Gate!Running) = 0 <=> Gate!Running = {}
  BY PowerAssumption, FS_Subset, FS_CardinalityType, FS_EmptySet
     DEF PowerAssumption, Gate!Running

\* A thread that starts a command adds one to the commands that run.
LEMMA OneMoreRuns ==
    ASSUME NEW i \in CmdThreads, gate_pc \in [CmdThreads -> Gate!ThreadPC],
           Gate!Goto(i, "inc", "fn")
    PROVE  Cardinality(Gate!Running') = Cardinality(Gate!Running) + 1
  <1>1. Gate!Running' = Gate!Running \cup {i} /\ i \notin Gate!Running
    BY DEF Gate!Running, Gate!Goto
  <1> QED
    BY <1>1, RunningFinite, FS_AddElement

\* A thread whose command returned takes one away, wherever it goes next.
LEMMA OneLessRuns ==
    ASSUME NEW i \in CmdThreads, NEW to, to # "fn",
           gate_pc \in [CmdThreads -> Gate!ThreadPC], Gate!Goto(i, "fn", to)
    PROVE  /\ Cardinality(Gate!Running') = Cardinality(Gate!Running) - 1
           /\ Gate!Running # {}
  <1>1. Gate!Running' = Gate!Running \ {i} /\ i \in Gate!Running
    BY DEF Gate!Running, Gate!Goto
  <1> QED
    BY <1>1, RunningFinite, FS_RemoveElement

\* Every other step of a thread leaves the running commands as they are.
LEMMA SameRun ==
    ASSUME NEW i \in CmdThreads, NEW from, NEW to, from # "fn", to # "fn",
           gate_pc \in [CmdThreads -> Gate!ThreadPC], Gate!Goto(i, from, to)
    PROVE  Gate!Running' = Gate!Running
  BY DEF Gate!Running, Gate!Goto

LEMMA GateInductive == Gate!Spec => []GateInv
<1>1. Gate!Init => GateInv
  <2> SUFFICES ASSUME Gate!Init PROVE GateInv
    OBVIOUS
  <2>1. GateTyped
    <3>1. awake_done \in BOOLEAN /\ overwritten \in BOOLEAN /\ suspend_done \subseteq CmdThreads
      BY ZenonT(10) DEF Gate!Init
    <3> QED
      BY <3>1 DEF Gate!Init, GateTyped, Gate!ThreadPC, Gate!PmPC
  <2>2. Gate!Running = {} /\ ~Gate!Suspended
    BY DEF Gate!Init, Gate!Running, Gate!Suspended
  <2> QED
    BY <2>1, <2>2, FS_EmptySet
       DEF Gate!Init, GateInv, GateExact, ReadHolds, Gate!OnlyStraysOverwrite
<1>2. GateInv /\ [Gate!Next]_(Gate!vars) => GateInv'
  <2> SUFFICES ASSUME GateInv, [Gate!Next]_(Gate!vars) PROVE GateInv'
    OBVIOUS
  <2> USE DEF GateInv, GateTyped, GateExact, ReadHolds, Gate!OnlyStraysOverwrite
  <2>1. ASSUME NEW i \in CmdThreads, Gate!Enter(i) PROVE GateInv'
    <3>1. Gate!Running' = Gate!Running
      BY <2>1, SameRun DEF Gate!Enter
    <3> QED
      BY <2>1, <3>1 DEF Gate!Enter, Gate!Goto, Gate!Suspended, Gate!ThreadPC, Gate!queues, Gate!history
  <2>2. ASSUME NEW i \in CmdThreads, Gate!KeepAwake(i) PROVE GateInv'
    <3>1. CASE tee_wakeup_cnt >= 0
      <4>1. Gate!Goto(i, "inc", "fn") /\ (Gate!Suspended => overwritten)
        BY <2>2, <3>1 DEF Gate!KeepAwake
      <4>2. Cardinality(Gate!Running') = Cardinality(Gate!Running) + 1
        BY <4>1, OneMoreRuns
      <4> QED
        BY <2>2, <3>1, <4>1, <4>2, RunningFinite DEF Gate!KeepAwake, Gate!Goto, Gate!Suspended, Gate!ThreadPC,
                                    Gate!queues, Gate!history
    <3>2. CASE ~(tee_wakeup_cnt >= 0)
      <4>1. Gate!Running' = Gate!Running
        BY <2>2, <3>2, SameRun DEF Gate!KeepAwake
      <4> QED
        BY <2>2, <3>2, <4>1 DEF Gate!KeepAwake, Gate!Goto, Gate!Suspended, Gate!ThreadPC,
                                    Gate!queues, Gate!history
    <3> QED
      BY <3>1, <3>2
  <2>3. ASSUME NEW i \in CmdThreads, Gate!QueueForResume(i) PROVE GateInv'
    <3>1. Gate!Running' = Gate!Running
      BY <2>3, SameRun DEF Gate!QueueForResume
    <3> QED
      BY <2>3, <3>1 DEF Gate!QueueForResume, Gate!Goto, Gate!Suspended, Gate!ThreadPC, Gate!history
  <2>4. ASSUME NEW i \in CmdThreads, Gate!TestForResume(i) PROVE GateInv'
    <3>1. Gate!Running' = Gate!Running
      BY <2>4, SameRun DEF Gate!TestForResume
    <3> QED
      BY <2>4, <3>1 DEF Gate!TestForResume, Gate!Goto, Gate!Suspended, Gate!ThreadPC, Gate!history
  <2>5. ASSUME NEW i \in CmdThreads, Gate!WokenForResume(i) \/ Gate!SignalForResume(i)
        PROVE  GateInv'
    <3>1. Gate!Running' = Gate!Running
      BY <2>5, SameRun DEF Gate!WokenForResume, Gate!SignalForResume
    <3> QED
      BY <2>5, <3>1
         DEF Gate!WokenForResume, Gate!SignalForResume, Gate!Goto, Gate!Suspended,
             Gate!ThreadPC, Gate!queues, Gate!history
  <2>6. ASSUME NEW i \in CmdThreads, Gate!CancelAwake(i) PROVE GateInv'
    <3> DEFINE to == IF tee_wakeup_cnt = 1 THEN "wake" ELSE "out"
    <3>1. to # "fn" /\ to \in Gate!ThreadPC /\ Gate!Goto(i, "fn", to)
      BY <2>6 DEF Gate!CancelAwake, Gate!ThreadPC
    <3> HIDE DEF to
    <3>2. /\ Cardinality(Gate!Running') = Cardinality(Gate!Running) - 1
          /\ Gate!Running # {}
      BY <3>1, OneLessRuns
    <3> QED
      BY <2>6, <3>1, <3>2, RunningFinite DEF Gate!CancelAwake, Gate!Goto, Gate!Suspended, Gate!queues, Gate!history
  <2>7. ASSUME NEW i \in CmdThreads, Gate!WakeSuspend(i) PROVE GateInv'
    <3>1. Gate!Running' = Gate!Running
      BY <2>7, SameRun DEF Gate!WakeSuspend
    <3> QED
      BY <2>7, <3>1 DEF Gate!WakeSuspend, Gate!Goto, Gate!Suspended, Gate!ThreadPC, Gate!history
  <2>8. CASE Gate!CloseDoor
    <3>1. Gate!Running' = Gate!Running
      BY <2>8 DEF Gate!CloseDoor, Gate!Running
    <3>2. CASE tee_wakeup_cnt = 0
      <4>1. ~overwritten => Gate!Running = {} /\ stray = 0
        BY <2>8, <3>2, RunningFinite DEF Gate!CloseDoor, Gate!PmGoto, Gate!Suspended
      <4> QED
        BY <2>8, <3>1, <3>2, <4>1
           DEF Gate!CloseDoor, Gate!PmGoto, Gate!Suspended, Gate!PmPC, Gate!queues, Gate!history
    <3>3. CASE tee_wakeup_cnt # 0
      BY <2>8, <3>1, <3>3
         DEF Gate!CloseDoor, Gate!PmGoto, Gate!Suspended, Gate!PmPC, Gate!queues, Gate!history
    <3> QED
      BY <3>2, <3>3
  <2>9. CASE Gate!ReadCount
    <3>1. Gate!Running' = Gate!Running
      BY <2>9 DEF Gate!ReadCount, Gate!Running
    <3>2. pm = "read" /\ ~Gate!Suspended
      BY <2>9 DEF Gate!ReadCount, Gate!PmGoto, Gate!Suspended
    <3>3. ~overwritten => tee_wakeup_cnt >= 0
      BY <3>2, RunningFinite
    <3> QED
      BY <2>9, <3>1, <3>2, <3>3
         DEF Gate!ReadCount, Gate!PmGoto, Gate!Suspended, Gate!PmPC, Gate!queues, Gate!history
  <2>10. CASE Gate!SuspendPrepare \/ Gate!QueueForIdle \/ Gate!TestForIdle \/ Gate!WokenForIdle
              \/ Gate!WakeCommands
    <3>1. Gate!Running' = Gate!Running
      BY <2>10 DEF Gate!SuspendPrepare, Gate!QueueForIdle, Gate!TestForIdle, Gate!WokenForIdle,
                   Gate!WakeCommands, Gate!Running
    <3>2. UNCHANGED <<tee_wakeup_cnt, seen, stray, overwritten, gate_pc>>
      BY <2>10 DEF Gate!SuspendPrepare, Gate!QueueForIdle, Gate!TestForIdle, Gate!WokenForIdle,
                   Gate!WakeCommands, Gate!queues, Gate!history
    <3>3. pm' \in Gate!PmPC \ {"set"} /\ Gate!Suspended' = Gate!Suspended
      BY <2>10 DEF Gate!SuspendPrepare, Gate!QueueForIdle, Gate!TestForIdle, Gate!WokenForIdle,
                   Gate!WakeCommands, Gate!PmGoto, Gate!Suspended, Gate!PmPC
    <3>4. awake_done' \in BOOLEAN /\ suspend_done' \subseteq CmdThreads
      BY <2>10 DEF Gate!SuspendPrepare, Gate!QueueForIdle, Gate!TestForIdle, Gate!WokenForIdle,
                   Gate!WakeCommands, Gate!queues
    <3> QED
      BY <3>1, <3>2, <3>3, <3>4
  <2>11. CASE Gate!PostSuspend
    <3>1. Gate!Running' = Gate!Running /\ Gate!PmGoto("suspended", "set")
      BY <2>11 DEF Gate!PostSuspend, Gate!Running
    <3> QED
      BY <2>11, <3>1 DEF Gate!PostSuspend, Gate!PmGoto, Gate!Suspended, Gate!PmPC, Gate!queues, Gate!history
  <2>12. CASE Gate!StrayPostSuspend
    <3>1. Gate!Running' = Gate!Running
      BY <2>12 DEF Gate!StrayPostSuspend, Gate!Running
    <3> QED
      BY <2>12, <3>1
         DEF Gate!StrayPostSuspend, Gate!PmGoto, Gate!Suspended, Gate!PmPC, Gate!queues,
             Gate!history
  <2>13. CASE Gate!OpenDoor
    <3> USE <2>13 DEF Gate!OpenDoor, Gate!PmGoto, Gate!Suspended
    <3>1. Gate!Running' = Gate!Running /\ ~Gate!Suspended'
      BY DEF Gate!Running
    <3>2. stray' \in Nat /\ (pm = "set" => stray' = stray)
                        /\ (pm = "stray" => stray' = stray + 1)
      OBVIOUS
    <3>3. GateExact'
      <4> SUFFICES ASSUME ~overwritten, tee_wakeup_cnt = seen
                   PROVE  tee_wakeup_cnt' = Cardinality(Gate!Running') + stray'
        BY <3>1
      <4>1. CASE pm = "set"
        BY <4>1, <3>1, <3>2, RunningFinite
      <4>2. CASE pm = "stray"
        BY <4>2, <3>1, <3>2, RunningFinite
      <4> QED
        BY <4>1, <4>2
    <3>4. Gate!OnlyStraysOverwrite'
      BY <3>2
    <3> QED
      BY <3>1, <3>2, <3>3, <3>4 DEF Gate!PmPC, Gate!queues
  <2>14. CASE UNCHANGED Gate!vars
    <3>1. Gate!Running' = Gate!Running
      BY <2>14 DEF Gate!vars, Gate!Running
    <3> QED
      BY <2>14, <3>1 DEF Gate!vars, Gate!queues, Gate!history, Gate!Suspended
  <2> QED
    BY <2>1, <2>2, <2>3, <2>4, <2>5, <2>6, <2>7, <2>8, <2>9, <2>10, <2>11,
       <2>12, <2>13, <2>14
       DEF Gate!Next, Gate!Command, Gate!Preparing, Gate!Resuming
<1> QED
  BY <1>1, <1>2, PTL DEF Gate!Spec

\* The counter is exact: it counts the running commands and the stray resumes, or
\* is -1 while the system is suspended (pm.c:9-15), until tee_post_suspend stores
\* over a change of it, which only a stray resume can do (pm.c:58); this is the
\* invariant the rest follows from.
THEOREM CounterIsExact == Gate!Spec => []Gate!IInv
<1>1. GateInv => Gate!IInv
  <2> SUFFICES ASSUME GateInv PROVE Gate!IInv
    OBVIOUS
  <2> QED
    BY SameCardinality
       DEF GateInv, GateTyped, GateExact, Gate!IInv, Gate!TypeOK, Gate!CountIsExact
<1> QED
  BY <1>1, GateInductive, PTL

\* Each variable keeps its type.
THEOREM GateTypes == Gate!Spec => []Gate!TypeOK
<1>1. Gate!IInv => Gate!TypeOK
  BY DEF Gate!IInv
<1> QED
  BY <1>1, CounterIsExact, PTL

\* No command runs while the system is suspended (pm.c:36-48), with stray resumes
\* or without, unless one of them stored over the count of a command.
THEOREM SuspendExcludesCommands == Gate!Spec => []NoCommandInSuspend
<1>1. Gate!IInv => NoCommandInSuspend
  BY DEF Gate!IInv, Gate!CountIsExact, Gate!NoCommandInSuspend, NoCommandInSuspend
<1> QED
  BY <1>1, CounterIsExact, PTL

\* A positive counter means that commands run or that a resume was stray, a
\* negative one that the system is suspended (pm.c:9-15), under the same proviso.
THEOREM CounterHasItsMeaning == Gate!Spec => []CountMeansState
<1>1. Gate!IInv => CountMeansState
  <2> SUFFICES ASSUME Gate!IInv, ~overwritten
               PROVE  /\ tee_wakeup_cnt > 0 => Gate!Running # {} \/ stray > 0
                      /\ tee_wakeup_cnt < 0 => Gate!Suspended
    BY DEF Gate!CountMeansState, CountMeansState
  <2>1. stray \in Nat
    BY DEF Gate!IInv, Gate!TypeOK
  <2>2. IF Gate!Suspended THEN tee_wakeup_cnt = -1
                          ELSE tee_wakeup_cnt = Cardinality(Gate!Running) + stray
    BY SameCardinality DEF Gate!IInv, Gate!CountIsExact
  <2> QED
    BY <2>1, <2>2, RunningFinite
<1> QED
  BY <1>1, CounterIsExact, PTL
=============================================================================
