# TrustKernel TEE driver and monitor: TLA+ models, checks and proofs

This directory models the concurrent core of the TrustKernel (tkcore) trusted
execution environment for MediaTek devices: the Linux driver under
`src/trustkernel/source/driver/tkcore`, what it relies on, the dispatcher of the
Trusted OS, the log and the interrupt controller of the monitor (`atf`), and the
factory interface in `src/trustkernel/source/bsp`. Every
definition is a translation of the source, at the lines `PROJECT.json` gives
under `map`. What is not in the repository (the Trusted OS, the monitor's
firmware interface, the Linux scheduler, allocators and hotplug) is modelled by
how the source uses it, and named as external in the map.

Paths below are relative to `src/trustkernel/source/driver/tkcore` unless they
begin with `atf`, `bsp` or `external` (`bsp` is
`src/trustkernel/source/bsp`).

## 1. Inventory

### 1.1 How the parts interact

```
 client process      kernel client         teed (user daemon)        Linux PM, hotplug
      | ioctl             | call             | open/read/write             |
      v                   v                  v                             v
 tee_core / context / session / shm     tee_supp_com                pm.c notifier
      |  ops: open invoke cancel close       ^                             |
      v                                      | RPC                         |
 tee_tz_drv: call_tee ----> handle_rpc ------+--> wait queue, shm pool,    |
      |                        ^                  handle db, clock manager |
      v                        | RPC                                       |
 tee_smc_xfer: xfer_lock, waiters, big-core queue + daemons  <--- stay_awake
      | SMC
      v
 monitor (atf tkcored) ----> Trusted OS
```

A command starts in a client's ioctl, is packed by `tee_session.c` and
`tee_tz_drv.c` into an argument in shared memory, and goes into the secure world
with the SMC instruction under one mutex. The Trusted OS may suspend it with a
request (RPC): memory, a sleep, a wake-up, a call of the user daemon `teed`. The
driver serves the request outside of the mutex and resumes the command. While
one command is suspended others run; whatever they need may come from each
other. That is where the hard behaviour is.

### 1.2 Components

| component | state | operations | what makes it correct |
|---|---|---|---|
| supplicant channel (`core/tee_supp_com.c`, open/release in `core/tee_core.c`) | `used`, `thrd_mutex`, semaphores `datatouser`, `datafromuser`, message buffers, `res` | `tee_supp_cmd`, `tee_supp_read`, `tee_supp_write`, `tee_supp_open`, `tee_supp_release` | one teed; one request at a time; each caller gets its own answer; every caller is woken |
| SMC transfer (`armtz/tee_smc_xfer.c`, `call_tee`) | `xfer_lock`, counters of commands and waiters, semaphore of waiters | `tee_smc_work`, `__call_tee`, `xfer_enqueue_waiters`, `xfer_dequeue_waiters`, `call_tee` | one processor in the secure world; no command abandoned while suspended; each refused command woken once |
| big-core transfer (same file) | `cpu_lock_mask`, `cmd_head`, wait queues, daemons, online set | `__smc_xfer`, `tee_smc_work_bl`, `wait_dequeue_cmd`, `tee_smc_daemon`, hotplug notifier | a queued command has a daemon that will take it; a locked core stays online; the same service as without big cores |
| suspend gate (`core/pm.c`) | `tee_wakeup_cnt`, two completions' wait queues | `tkcore_stay_awake`, `tee_prepare_suspend`, `tee_post_suspend` | no command in a suspend; no lost wake-up |
| shared memory pool (`armtz/tee_mem.c`) | list of chunks, `used`, `lock` | create, alloc, free, incref, destroy | chunks tile the pool; blocks disjoint and aligned; free space coalesced |
| shared memory handles (`armtz/handle.c`) | `ptrs`, `max_ptrs` | `handle_get`, `handle_put` | distinct handles; a handle names its object for as long as it is held, also when the table grows |
| secure wait queue (`core/tee_wait_queue.c`) | list of entries with key and completion | sleep, wakeup | sleep and wake-up of a round meet whatever their order; nothing is left behind or used after free |
| contexts, sessions, shared memory (`core/tee_core.c`, `tee_context.c`, `tee_session.c`, `tee_shm.c`) | lists and reference counts of devices, contexts, sessions, buffers, exported file descriptors; owner of the trusted user interface | open, release, ioctls for sessions and memory, dma-buf release, RPC memory | nothing freed while referenced, nothing leaked, device kept while used |
| trusted OS interface (`armtz/tee_tz_drv.c`) | session identifiers, argument buffers, RPMB buffers | open, invoke, cancel, close, probe | every session opened in the secure world is closed there |
| kernel client API (`core/tee_kernel_api.c`) | context and session handles | `TEEC_*` | as above, for kernel clients |
| secure log (`core/tee_procfs.c`) | ring and counters shared with the Trusted OS, `klog_head`, `klog_tail`, `log_mutex`, `log_wakeup` | interrupt handler, the thread logd, read, write | a read returns bytes in the order of the log and none twice; logd catches up; a reader that sleeps is not forgotten |
| load of the driver (`armtz/tee_tz_drv.c`, `core/tee_core.c`, `core/tee_procfs.c`) | what was acquired so far, the device's count | sixteen steps, each of which may fail, with its way back; unbind; early clients | what a failing load leaves behind is known, and is nothing for the steps the code undoes; no client that opens a loaded device gets one that is not started |
| trusted user interface (`core/tee_session.c`, `core/tee_tui.c`, `tee_tui_hal.c`) | `g_tui_obj`: owner, status, lock, command and completion; the display's mode | two ioctls, the command a service waits for | one owner, until another session takes the interface away; the service gets the last command; the display is secured while the interface is in use |
| clock manager (`core/tee_clkmgr.c`) | list of registered handlers | register, handle, exit | one spinlock, entries are never removed while the driver runs |
| fingerprint, sysfs, TA management (`core/tee_fp.c`, `tee_sysfs.c`, `tee_ta_mgmt.c`) | none that outlives a call | ioctls, attributes | - |
| Trusted OS dispatcher (`atf/v1.3/services/spd/tkcored`, dump request in `plat_tkcore.c`) | per core: secure context, state, waiting C function; entry vectors | SMC handler, secure interrupt handler, synchronous entry and exit, power management hooks | each world keeps its registers; every hook meets the state it asserts; a synchronous call returns to its caller; one core handles the watchdog |
| monitor log (`atf/v1.3/plat/mediatek/common/log.c`) | control block, ring and crash log in memory that survives a reset | `mt_log_setup`, write, read position, crash flag | after a crash the crash log is the tail of the ring, whatever step of a boot, or byte of the copy, was interrupted |
| interrupt controller of the monitor (`plat_mt_gic.c`) | groups, enable and pending bits, the table of cores, the save area | initialisation, SGI, watchdog, save and restore | a software interrupt is not lost; the settings survive a suspend; what must reach the monitor is in group 0 |
| access permissions (`devapc.c`) | hardware registers | configure | not modelled: writes constants to registers |
| factory interface (`bsp/platform/common/meta`) | the caller's buffer, `cmd_resps` on the heap | every command of `handle_trustkernel_meta_command` | the answer fits its buffer; an output stays until it was read; success means done |
| Android services (`external/AndroidServices`: keymaster v1 and v2, gatekeeper, kmsetkey, libteec headers) | one session each | marshal a call into a command | not modelled: the state is in trusted applications present as binaries |
| production tools, Soter/IFAA patches, build scripts, binaries | - | - | not modelled: sequential programs, or files of other projects |

### 1.3 Hard behaviours

* Several kernel threads, the daemon, the hotplug notifier and the suspend
  notifier interleave at every atomic operation, semaphore and mutex.
* The Trusted OS answers in any order and may refuse a command at any time.
* teed is a user process: it can be interrupted, fail to copy, die, and be
  started again.
* Counters that stand for commands are updated outside of the lock that orders
  the commands.
* Cores go offline while they are relied on.
* Reference counts tie contexts, sessions, buffers and file descriptors whose
  releases come in any order.
* Cores enter and leave the Trusted OS by calls, interrupts and power changes,
  each with its own rule for what is saved and restored.
* logd and the readers of the log share two positions, and logd takes no lock.
* The owner of the trusted user interface may close it, or die, while another
  session opens it; and another session may close it, because the ioctl does not
  ask who has it.
* A reset leaves memory as it is at any step, also at a step of the code that
  repairs what the last reset left.

`PROJECT.json` lists each at its line under `hazards`; a hazard without a
property says why.

## 2. Plan

Order, most important first. Steps 1 to 14 are done.

1. `TeeSupp` against `RpcService`, with proofs.
2. `PmAwake`, with proofs.
3. `SmcXfer` against `RpcService`, with proofs.
4. `SmcXferBL` against `RpcService`, with proofs.
5. `ShmPool` against `BlockPool`, with proofs.
6. `WaitQueue`, with proofs.
7. `HandleDb`, with proofs.
8. `TeeObjects`: contexts, sessions and shared memory objects with their
   reference counts, file descriptors and the sections under `tee->lock`, and the
   commands of `tee_tz_drv.c` that open, use and close a session, with proofs.
9. `Tkcored`: the dispatcher's per-core state machine, with proofs.
10. `LogRing`: the way of the log through logd to the readers, with proofs.
11. `Tui`: the owner of the trusted user interface, with proofs.
12. `TeeLoad`: the load of the driver with every failure, with proofs.
13. `MtLog` and `Gic`, with proofs: the monitor's log over resets and its
    interrupt controller over suspends.
14. `Meta`: the factory interface, with proofs.
15. Left: the requests for RPMB in `handle_rpc`.

Bounds: two or three threads, one thread of the Trusted OS, two teeds, two big
cores, a pool of ten bytes (section 4). Compositions: `RpcService` is the interface between
the layers; `TeeSupp`, `SmcXfer` and `SmcXferBL` each implement it, so the
caller of any of them may be analysed against the small specification.

## 3. Modules

| module | models | state and actions |
|---|---|---|
| `RpcService` | abstract | per caller: idle, called, turn, answered; at most one caller has the turn, and a turn ends with the answer |
| `TeeSupp` | the supplicant channel | variables have the names of the fields of `struct tee_rpc`; one action per step between two synchronisation points of `tee_supp_cmd`, `tee_supp_read`, `tee_supp_write`, and of the open and release of the device; a request is a record of its caller and number of buffers, an answer says whose request it answers |
| `PmAwake` | the suspend gate | `tee_wakeup_cnt` and the two wait queues; each atomic operation, each enqueue, each test of the condition and each wake-up is an action; a resume may come without its prepare |
| `SmcXfer` | `call_tee`, `__call_tee`, `tee_smc_work` without big cores | `xfer_lock`, both counters, the semaphore, `param.a0` per thread; the Trusted OS is the external action `TrustedOS` |
| `SmcXferBL` | `__smc_xfer` and the big-core daemons | `cpu_lock_mask`, `cmd_head`, daemons' wait queues, `done_sem` per command, hotplug as the external `CpuUp`, `CpuDown`, `CpuDead` |
| `BlockPool` | abstract | a set of disjoint, aligned blocks with reference counts |
| `ShmPool` | `tee_mem.c` | the chunk list as a set ordered by address; allocation of the best fit with its front and back remainder, free with coalescing, and the free of a chunk that is free already, which keeps the lock; the early space test is a step of its own because it is made without the lock |
| `WaitQueue` | `tee_wait_queue.c` | entries, completions and who points to which entry; sections under `mu` are one action |
| `HandleDb` | `handle.c` as `handle_rpc` uses it | every array ever allocated, so that a pointer to a freed one is visible; each access to the table is an action |
| `TeeObjects` | `tee_core.c`, `tee_context.c`, `tee_session.c`, `tee_shm.c`, sessions of `tee_tz_drv.c`, `tee_kernel_api.c` | per object whether it exists and the stage of its file; `refcount` of device and contexts, users of each memory object; per thread the place in its call; sections under `tee->lock` are one action, cut where a descriptor becomes visible |
| `Tkcored` | `tkcored_main.c`, `tkcored_common.c`, `tkcored_pm.c`, `tkcored_helpers.S`, the dump request of `plat_tkcore.c` | per core: the fields of `tkcored_sp_context[]`, the EL1 registers, and who has the core; one action from one exit of the monitor to the next; PSCI's affinity state, power, the watchdog and the two worlds are external |
| `LogRing` | `tee_procfs.c`: the log's way | both rings byte by byte, a byte being its number in the log; logd's and the readers' locals; one action per copy or per access to a shared word |
| `Tui` | `g_tui_obj` in `tee_session.c`, the display's mode in `tee_tui_hal.c` | per session the place of its thread and its ioctl; the flag that the mutex is initialised, the mutex, the owner, the command and its completion; any session may close |
| `TeeLoad` | `tee_tz_init`, `tee_init_smc_xfer`, `tz_tee_probe`, `tee_core_add`, `tee_init_procfs`, `__tee_get` | the set of what was acquired; one action per step, with its success and its failure; clients that open the device meanwhile, and the unbind |
| `MtLog` | `log.c` of the monitor | memory cell by cell, the control block, the place in `mt_log_setup`; a reset is possible between any two steps, after each byte of the copy, and inside each `memset`, of which it leaves any part done; it keeps memory |
| `Gic` | `plat_mt_gic.c` | per core group, enable and pending bit of the SGI and one private interrupt, the watchdog at the distributor, the save area; one action per function that power management calls |
| `Meta` | `TrustkernelExternal.cpp` | the heap, the entries of `cmd_resps`, the buffer that comes and goes back; one action per command |
| `MCServices`, `MCDriver`, `MCPlatform` | - | each runs three components that share nothing, one at a time |
| `MCPower` | - | runs `SmcXferBL` and `PmAwake`, which share nothing, one at a time |
| `TeeSuppProofs`, `PowerProofs`, `SmcXferProofs`, `ServicesProofs`, `TeeObjectsProofs`, `DriverProofs`, `PlatformProofs`, `TkcoredProofs` | - | theorems and proofs |
| other `MC*` | - | instances for TLC |

A module that runs several components has a variable `which`, chosen once: the
first component's module is extended, the others are instances, and a step of
one leaves the others as they are. The components share no variable and no
constant that ties them, so every behaviour of one alone is a behaviour of the
sum with the others at rest, and the reverse; an invariant of one holds in the
sum exactly if it holds alone. Fairness is asked of a component's actions only
in the behaviours that are its own.

Definitions whose names end in `_Something` directly before a definition are
mutants: the definition as a plausible mistake would have it. They are not part
of any specification; `PROJECT.json` lists which property each one breaks.

### What is abstracted

Arguments, buffers and their addresses are reduced to identities. Logging,
statistics (`max_smc_time`, `max_cmd_time`) and the procfs views are left out.
In `SmcXfer` the content of a command is its kind, and a non-preemptible request
(clock manager) is a return that is resumed under the lock. In `WaitQueue` a
failing `kmalloc` of an entry is left out: it makes the sleep return at once and
drops the wake-up, and none of the properties about rounds would survive it. In
`ShmPool` the address translations and the destruction are left out, and so are
requests of zero bytes: the driver makes none, and the Trusted OS asks for room
for an argument. `tee_shm_pool_free` of a chunk that is free already returns
with `pool->lock` held (`armtz/tee_mem.c:565`); it is an action, and from then on
nobody gets the lock (`stuck`).

In `TeeObjects` an object is never allocated again at the address of a freed
one, so that a stale reference shows. The page count of non-secure memory and
the count of a pool chunk are one count of users. A parameter of a command is a
reference to shared memory or nothing: its content, and the cancellation of a
command, are left out. A memory reference that names no known buffer makes
`tee_shm_get` copy, which holds nothing. Two failures leave an object that no
client can reach: `dma_buf_fd` fails after the buffer was exported, which
nobody checks, and `TEEC_InitializeContext` finds no identifier; both are the
stage "lost", and the object stays. A kernel client does not give a handle back
while a call uses it: nothing in the driver protects it. The shared memory of
kernel clients is left out, because its release (`core/tee_kernel_api.c`) takes
a descriptor that is never set. The `idr` tables are sets: that a removal and a
lookup without the lock of the insertions (`core/tee_core.c:643`) leave the tree
whole is decided in `lib/idr.c` of Linux.

In `Tkcored` the EL1 registers of a core are one value, the world that wrote it
and what it wrote; general registers, which every entry passes explicitly, and
the registers of EL3 are left out. The monitor runs with interrupts masked, so
what a core does there is one action, except where another core's step matters:
between the moment the watchdog interrupt is taken and the moment it is
acknowledged, during the dump, and while PSCI switches a core off. What a dump
writes is left out; that it interrupts the other cores is not. An SGI for a core
in the secure world, or for one that is down, stays pending. PSCI publishes that a core is off after the
hook has returned, and a core that was asked to come on may not get power. Linux
keeps one core on. The watchdog can be told from an unknown interrupt when the
monitor is built with `IMF_READ_INTERRUPT_ID`, and not otherwise: both handlers
are enabled. A pointer to the entry is "none" while the Trusted OS does not run,
because each entry sets it anew.

In `LogRing` the notice of lost bytes is its length, `NoticeLen`, and the 32-bit
counters of the Trusted OS do not wrap: a device would have to log four
gigabytes. In `Tui`
the content of the operation and the notifiers of integrators are left out; a
session that dies is one whose file was closed. In `TeeLoad` what a step does
besides acquiring something is left out. In `MtLog` a byte is its number in its
boot's log, so that a reader can see which byte a cell holds; a write of
one byte, which the lock surrounds, is one step, and another core's writes are
more of the same. The layout of the control block is not in the repository, so a
`memset` of it that a reset interrupts clears any of its fields.
In `Gic` the routing, polarity and sensitivity of shared interrupts are left
out; the power management that calls the module is not in the repository, and is
modelled as calling all three save functions from the last running core, and the
restore functions in any order. In `Meta` sizes are real sizes, and contents are
the number of the run they come from; a program may be killed, an answer may be
lost, and every file may be unreadable.

## 4. Runs

| run | instance | shows |
|---|---|---|
| `supp` | 2 threads, 2 teeds, one call each with 0 or the maximal number of buffers, all faults | `OnlyOneTeed`, `OwnAnswer`, `ImplementsService`; `CallReturnsUnlessLost`: a call returns, or its turn was lost, or no teed is left |
| `supp_crash` | the same with crashes, violation | `RestartedTeedServes` fails: a request read by a teed that dies is never served, and blocks all later calls |
| `power` | cores: 2 callers, 2 big cores, every initial online set; gate: 2 threads with a command, and one resume that no prepare precedes | `CommandsHaveACore` (the queue has a daemon that will look at it, a locked core stays online), `ImplementsService`, `CommandReturns`; `NoCommandInSuspend`, `CountMeansState`, `SuspendGetsThrough`, `CommandGetsThrough`, the two invariants until such a resume has stored over a change of the counter |
| `pm_store` | the gate, 3 threads, violation | `NeverInSuspend` fails: such a resume stores over the count of a command that begins meanwhile, and the system is suspended while a command runs |
| `smc` | 3 threads, 1 thread of the Trusted OS | `NobodyIsForgotten` (no command left suspended, waiters counted exactly), `ImplementsService`, `CommandReturnsOrWaits` |
| `smc_lost` | 2 threads, violation | `CommandReturns` fails: the wake-up of a refused command is missed |
| `services` | wait queue: 3 keys, 2 wakers, 3 entries; pool: 2 threads, 10 bytes from an unaligned base, 3 sizes, 2 alignments, double frees; handles: 1 thread, 3 objects, a table of 1 location that grows to 2 and 4 | `NoUseAfterFree`, `RoundsDoNotMix`, `SleepReturns`; `PoolIsExact`, `ImplementsBlockPool`; `HandlesAreExact` |
| `handle_race` | 2 threads, violation | `HandlesAreDistinct` fails: `handle_rpc` uses the table without a lock |
| `objects` | a user and a kernel context, 1 session, 1 memory object, 3 threads, descriptors closed before they are given | `RefsAreExact`, `NoDanglingReference`, `SecureSessionsHaveOwners`, `ClosedIsReleased` |
| `tkcored` | 2 cores, one of them boots, registers with two values | `RegistersSurvive`, `NormalWorldHasTkcore`, `OneCoreDumps`, `CoreComesUp` |
| `driver` | interface: 2 sessions, 3 ioctls, the first of which initialise the mutex; log: a ring of 4 of the Trusted OS, one of 3 of the readers, 2 readers, 7 bytes, a notice of 1; load: 2 clients, 2 daemons, every step may fail | `OneOwner`, `LastCommandArrives`; `ReadsFollowTheLog`, `LogGetsThrough`; `LoadIsAllOrNothing` |
| `platform` | monitor log: a ring of 4, a crash log of 3, 8 bytes a boot, 3 boots, resets inside copies and `memset`s; controller: 3 cores in 2 clusters; factory interface: 4 blocks of memory, 3 sizes of buffers, 2 programs, 2 sizes of files, all failures | `CrashLogIsTheTail`, `CrashLogIsKept`; `CallsAreNotLost`, `SettingsSurvive`, `CallIsTaken`; `AnswerFits`, `OutputIsKept` |

Why the bounds are enough to be of use: one call per thread and two threads
already give the channel a call that follows a completed, a failed and a lost
one, because all state is shared; three threads and one thread of the Trusted OS
give a running command and two waiters; two cores let one go down while the
other is locked; two threads with a command give the gate one that runs and one
that begins or sleeps (with three the same holds); ten bytes hold at most ten chunks, and the sizes and alignments
chosen produce remainders on both sides; growing twice shows that what was held
before stays; three threads let one open or close a session, another be in the
secure world with a memory reference, and a third allocate or export, while
descriptors are closed and released at any moment. Deadlock is not checked in
`objects`: objects are used up, and clients may stop. (The same invariants hold
with two sessions and two memory objects, in 1.4 million states.)

Four bytes in one ring and three in the next let a chunk of two or five fit, be
cut, and overrun either ring, and seven bytes let that happen after a first
round. Three boots are one that is interrupted, one that repairs and is
interrupted, and one that finds what both left. Three cores in clusters of two
are the smallest number at which the loop over clusters comes back for a core it
has passed. Four blocks of memory hold the caller's buffer, its replacement and
the outputs of both programs.

Constants that say how the parts outside behave: `LastCores` (the system is
suspended from the boot core), `IdleCores` (one core saves its private interrupts
alone: the save area is shared, and with two of them `OwnPrivateInterrupts`
fails), `PpiCores` (whose private interrupt the normal world uses), `NoticeLen`
(the length of the notice of lost bytes), `FileSizes` (what a file of the factory
interface holds: less than a buffer, or more). Counters that would grow for ever
are bounded by `MaxIoctls`, `MaxStray`, `MaxRpc`, `MaxSeq`, `MaxBytes`,
`MaxBoots`, `MaxRuns`, `MaxRefs` and `MaxArrays`.

Where the code lets a client, a kernel or a failure break a promise, the run
contains that behaviour, and a history variable says when the promise has ended:
`misused` in `Tui` (another session's close, an initialisation of a held mutex),
`overwritten` in `PmAwake` (a resume has stored over a change), `happened` in
`TeeLoad` (which step failed), `loss` in `LogRing`, `torn` in `MtLog`, `lost` in
`Meta`, the stage "oops" in `TeeObjects`. The property says what holds until
then, or what else is the case, and a violation run or a configuration below shows
that it does not hold beyond.

The types of each module are part of one of its invariants, named in its
definition. In `tkcored` deadlock
is not checked either: a panic stops a core. Nor is it in
`services`, where a double free leaves the pool's lock held, in `driver` and
`platform`, where a load ends and opens, bytes, boots and programs are bounded,
nor in `smc`, where all commands may come to wait (`smc_lost` is about that), nor
in `supp`, where the last teed may die. Two cores are enough for one to ask
for the other, to leave while it comes, and to interrupt it; two values of the
registers tell a stale save from a fresh one.

Twelve configurations are kept to be run by hand, on the module their name
begins with; those with several properties with `-continue`, to see a
counterexample of each. They ask for claims that the code does not keep:

* `MCTeeSuppFull.cfg`, `CallReturns`: the answer to a request with the maximal
  number of buffers is as long as the buffer, `tee_supp_write` accepts only
  shorter ones (`core/tee_supp_com.c:210`), and the caller sleeps for ever.
* `MCTeeSuppRes.cfg`, `ResultIsOwn`: `rpc->res` is read after `thrd_mutex` was
  released (`:104`); the next call clears it.
* `MCTeeSuppUsed.cfg`, `RefusedForAnother`: `tee_supp_release` gives `used` back
  only when it reads 1 (`core/tee_core.c:274`); a release that coincides with a
  refused open leaves it at 1 for good.
* `MCSmcXferRetry.cfg`, `CommandIsExecuted`: a refused command is sent again
  with the refusal in place of its function ID (`armtz/tee_smc_xfer.c:764`).
* `MCPowerSkip.cfg`, `CountMeansWhatItSays`: a resume that no prepare precedes
  counts a command that does not exist (`core/pm.c:58`), and every later suspend
  waits for it.
* `TeeObjectsEarly.cfg`, `ReleaseFindsContext`: a descriptor is installed
  (`core/tee_shm.c:706`, `:804`) before the buffer is attached to its context;
  a client that closes the number before it was told of it makes the release
  handler read `shm->ctx->tee` of a null context.
* `MCTkcoredSgi.cfg`, `InterruptsEnd`: a core takes the watchdog interrupt, and
  before it acknowledges it another core starts a dump and sends it the SGI. It
  acknowledges the SGI instead (`tkcored_main.c:129`), finds that it is not the
  watchdog and returns: no dump, no end of interrupt, and the core takes no
  other interrupt of that priority.
* `TuiOwner.cfg`: `OwnerDespiteClose`, because a close frees the interface
  whoever has it (`core/tee_session.c:519`); `OwnerDespiteInit`, because two
  sessions may both find the mutex not initialised, and the second initialises it
  while the first holds it (`:467`); `DisplayIsSecured`, because the close frees the
  interface before `hal_tui_activate` gives the display back, so that it may do so
  after the next owner has taken it; `CancelFindsItsSession`, because an owner that
  dies leaves `status` 1 and `sess` dangling.
* `LogRingOverlap.cfg`: `ReadsAlwaysFollowTheLog`, because a reader at work while
  logd overruns the readers' ring is handed bytes out of order and not told;
  `ReadsReturnTheirCount`, because after an overrun the return value adds what was
  copied behind the notice to what had been taken (`core/tee_procfs.c:317`), and
  can be more than the caller's buffer.
* `TeeLoadLeak.cfg`: `ProbeIsUndone` and `FilesHaveATee`, because a failure of
  `tee_init_sysfs` or of `__tee_get` leaves the log with its thread, interrupt and
  files, one of which calls the device that was freed, and that of the pool leaves
  the mapping it was to manage; `OpenHasATee`, because a client that opens the node before `__tee_get`
  meets a device that is not started, and keeps it from starting.
* `MtLogFirst.cfg`: `CrashLogIsAllKept`, because the byte that `mt_log_write` puts
  behind the ring overwrites the first of the crash log; `DumpsAreTails`, because
  a reset inside the `memset` after a copy can leave the count of bytes without
  the write position, and the next boot copies from there.
* `MetaSignal.cfg`: `SuccessMeansDone`, because a program that is killed counts as
  one that succeeded; `SizesAreSizes`, because an unreadable `device.finish` is
  answered with a success of size -1 (`TrustkernelExternal.cpp:342`);
  `ReadsGetTheirOutput`, because an output is erased before its answer has
  arrived, and its address may name another.

## 5. Fairness

* A kernel thread that can take a step takes it (weak fairness per thread):
  Linux schedules it.
* A mutex or semaphore that is free again and again is obtained in the end
  (strong fairness of `LockThrd`, `LockXfer`, `DownWaitQueue`, `DaemonLock`,
  `LocalLock`): Linux mutexes and semaphores queue their waiters.
* teed serves: it is a loop around `read` and `write`. That it is interrupted
  every time it could have had a request is excluded (strong fairness of
  `DownDataToUser`); that it dies is not.
* The Trusted OS finishes a command: `MaxRpc` bounds how often it suspends one.
* Hotplug operations come to an end, and the 2 ms limit of a caller that waits
  for a core passes. That a core ever comes online is not assumed.
* The secure world asks for the wake-up of every sleep it asked for.
* A command of a session returns, and the kernel calls the release handler of a
  closed file before the thread that closed it makes another call (strong
  fairness of `SessionRelease`, which needs a thread that is not in a call).
* In `tkcored` the Trusted OS returns from what it was entered for, PSCI goes on
  with a core that is on its way, and initialisation goes on. That calls,
  interrupts or power changes happen is not assumed.
* logd runs, and its sleep ends after `TEE_LOG_TIMEOUT_MS` at the latest; a reader
  goes on, and gets `log_mutex` when it is free again and again. That a reader
  gives up, and that the flag is switched, is not assumed.
* In `Tui` a thread in an ioctl goes on, and the service asks for its next
  command.
* In `Gic` a core that has begun to initialise its interface goes on, a core takes
  an interrupt that is signalled to it again and again, and the power management
  goes on with a suspend. That a core comes up is not assumed.
* Nothing is assumed about clients: no run forces a command, a suspend, a resume,
  an open or a close to happen.

## 6. Proofs

TLAPS checks, for every value of the constants:

* `TeeSuppProofs`: `TypeCorrect`, `Inductive` (`IInv`), `OneTeed`,
  `TeedIsReady`, `TurnIsOne`, `AnswersMatch`, `Implements`. The argument: the
  right to touch the message buffers moves from the thread that holds
  `thrd_mutex` to `datatouser`, to the one teed at work, to `datafromuser` and
  back, and is never doubled (`TurnInv`); while it is away the caller stays in
  `down`, so the request in the buffer is the caller's (`ContentInv`, which
  needs `TurnInv`); `used` is at least the number of processes that added to it
  (`UsedInv`), so two open teeds would make it 2, and the second open is refused
  there. `OnlyOneTeed` alone is not inductive: `UsedInv` makes it so, and the
  teed's part of `TurnInv` needs `OnlyOneTeed`. The refinement follows step by
  step: each action is a step of `RpcService` under `CallStage` or leaves it
  unchanged.
* `PowerProofs`, for any number of callers and any set of big cores:
  `BLInductive` (`BLInv`), `CommandsAreServed`, `WorkersHaveTheirCore`,
  `BLImplements`. A core that is not locked has a daemon that sleeps and found the
  queue empty, so a queue that is not empty has a locked core, and a locked core
  a daemon that is awake or about to be woken (`Cores`, the part that makes
  `CommandsHaveACore` inductive); a command is in the queue once, or in the hands
  of one daemon, or answered (`Commands`), which is what makes each command's turn
  one turn of `RpcService`; and `xfer_lock` is of whoever stands in the secure
  world (`Lock`). Of the suspend gate it proves `CounterIsExact`, `GateTypes`,
  `SuspendExcludesCommands` and `CounterHasItsMeaning`, for any number of threads
  and of resumes that no prepare precedes, which the kernels with
  `register_cpu_notifier` send: the counter is the number of running commands and
  of such resumes, or -1 during a suspend, until `tee_post_suspend`, which reads
  and then stores, has stored over a change made in between. The proof is about
  cardinalities of finite sets that gain or lose one thread, and shows that a
  resume that was prepared never stores over a change.

* `SmcXferProofs`, for any number of driver threads and threads of the Trusted
  OS: `Inductive`, `NobodyForgotten`, `LockIsOfTheCaller`, `Implements`. The
  invariant has three parts. Who stands between the SMC and the release holds
  `xfer_lock`, and nobody else does (`ThreadInv`); a command that the Trusted OS
  keeps suspended is one whose request the thread has in hand or whose
  resumption it has sent (`ThreadInv`), which is more than that an idle thread
  has none; and the counters are the cardinalities of the sets of threads that
  stand where they were counted (`Counts`). One lemma, `MoveCounts`, says what a
  thread's move from one place to another does to such a cardinality; each
  action then is arithmetic. The mutual exclusion makes the refinement: a turn
  of the service begins only when nobody else has one.
* `ServicesProofs`. Of the wait queue, for any number of keys, wakers and entries:
  `EntriesAreLive`, `RoundsAreSeparate`. Three invariants of one actor each: an
  allocated entry belongs to a key of its own and to the sleep or the wake-up
  that came first (`EntryInv`), a thread that sleeps holds the entry of its key
  (`KeyInv`), and a thread that wakes up is alone to do so and its entry is not
  complete yet (`WakerInv`), which is why the sleeper cannot have freed it. Of
  the pool, for any size, base, granularity and set of threads: `PoolAgrees`, that
  the chunks tile the pool and the count of used bytes is the sum of theirs, and
  `ChunksAreBlocks`, that the list implements `BlockPool`; the invariant is the
  tiling together with what each thread is allowed to hold, and the sums are
  sums over finite sets that lose one chunk and gain up to three. Of the handles,
  for one thread and tables of any size: `HandlesAgree`.
* `TeeObjectsProofs`, for any number of contexts, sessions, memory objects and
  threads, and clients that close descriptors whenever they like: `Inductive`
  (`IInv`), `CountsAreExact`, `ReferencesAreLive`, `SessionsMatch`. A release that
  does not find its context keeps its references for ever, and is counted. That
  counts are exact is not inductive: between two sections under `tee->lock` a
  thread holds a reference that no object shows. The invariant adds what the
  thread holds to what the objects hold, says which step of a call may stand
  with which stage of an object (`ThreadsOK`, `FilesOK`, `SessionsOK`, `ShmsOK`),
  and counts the sum (`Counts`); a step then moves one reference from one holder
  to another, or makes or ends one.
* `DriverProofs`. Of the trusted user interface, for any number of sessions that
  close what they like: `OwnerIsAlone`. Who stands between the test and the
  taking of the interface holds the mutex unless it was initialised meanwhile,
  and until it leaves the test still holds (`SessionInv`); `misused` names the two
  ways an owner is robbed, and until then there is one. Of the load, for any
  number of clients and big cores, with every failure, early clients and unbinds:
  `LoadIsAtomic`. The invariant says at each step what is acquired, given what has
  failed so far, and so what each failure leaves behind. Of the log, for rings,
  chunks and buffers of any size, a notice of any length and any number of readers:
  `ReadsAreInOrder`. `RingInv` says what the readers' ring holds at each of logd's
  steps, with places counted forward from the tail: from the tail to the head the
  bytes are in order and newer than what was delivered (`InOrder`); what logd has
  taken follows them and fits, or logd is about to move the tail behind it
  (`Pending`, `Room`, `Stored`); and what a reader has read of the pointers is
  still so (`ReaderInv`), because logd moves the tail under a reader only in the
  cases the property excludes. The remainders in the code become distances
  (`From`) that add up to one round or to two (`FromAdds`).
* `PlatformProofs`. Of the monitor's log, for rings and crash logs of any size:
  `CrashLogSurvives`, because the write position never goes further than one cell
  behind the ring (`PosInv`), and `CrashLogHoldsTheTail`, with
  `crash_log_size <= atf_buf_size + 1`, because the copy reads at most that many
  cells. `LogInv` says which byte each cell of the ring holds (`Ring`), also after
  a reset at any step and, until the next `memset` is finished, not after one
  inside a `memset` (`torn`), and that what was copied is the end of that ring
  (`Copied`). Of the controller, for any number of cores, any size of clusters and
  any cores that save their own settings: `CallsSurvive`, `SettingsAreRestored`;
  `GicInv` says what the save area holds at each step of a suspend, and that a
  software interrupt is at its core or in the area. The loop that sends an
  interrupt cluster by cluster is a recursive function; that it reaches every
  core of the map is proved from a least core it would not reach. Of the factory
  interface, for any set of addresses and sizes of files, with killed programs,
  lost answers and unreadable files: `AnswersFit` and `OutputsAreKept`; both follow
  from one invariant, `MetaInv`, which says whose each allocated buffer is.
* `TkcoredProofs`, for any set of cores: `Inductive` (`IInv`), and from it
  `RegistersAreKept`, `SmcFindsTkcore`, `SynchronousReturns`,
  `WatchdogOnce`. The properties speak of cores that run one of the worlds; the
  induction needs to know what a core holds while it is in between. `StageInv`
  ties the place of a core to the state the hooks assert and to the affinity
  state of PSCI (a core that PSCI calls off has left the monitor, so a `cpu_on`
  hook never writes the state of a core that runs). `RegInv` says where the
  registers of each world are: in the core, in the context, or nowhere, when
  the world will start anew. With `ReturnsToCaller` the synchronous exit goes to
  the C function that asserted `StageInv`'s state. `DumpInv` adds that whoever
  dumps has the watchdog interrupt acknowledged. Each of the five has a lemma
  with one step per action.

Assumptions on constants are named (`BLAssumption`, `PowerAssumption`,
`ServicesAssumption`, `DriverAssumption`, `PlatformAssumption` and those of the modules they cite):
finite sets of threads, values distinct from the model's "nobody", sizes and
numbers of cores that are positive. TLC evaluates each. One theorem has a
hypothesis of its own, `crash_log_size <= atf_buf_size + 1` of
`CrashLogHoldsTheTail`: both sizes are in headers that are not in the repository,
and with a larger crash log the copy would go round the ring twice. Beyond that
the models themselves leave out some orders of events, and no theorem speaks of
them: two threads in the table of handles (`handle_race` shows what happens), a
failing allocation in the wait queue, requests of zero bytes to the pool, a
monitor built without `IMF_READ_INTERRUPT_ID`, which takes the watchdog for an
unknown interrupt.

Every safety property of every passing run, invariant or action property, and
every refinement, is stated by a theorem. Only model-checked: all liveness, that
is `SuspendGetsThrough`, `CommandGetsThrough`, `CommandReturns`,
`CommandReturnsOrWaits`, `CallReturnsUnlessLost`, `SleepReturns`, `ClosedIsReleased`,
`CoreComesUp`, `LastCommandArrives`, `LogGetsThrough` and `CallIsTaken`: liveness
under fairness is out of the prover's reach and stays so, as is what fairness adds
to a refinement: `RpcService` and `BlockPool` state none.

## 7. Not modelled

See the table in 1.2 and `components` in `PROJECT.json`. In short: code that
only writes constants to registers (`devapc.c`, the routing of shared interrupts)
and whose effect is decided by hardware that is not in the repository; programs
and services that marshal one call into a command and keep no state (keymaster,
gatekeeper, `kmsetkey`, TA management, sysfs, the version files of procfs); the
clock manager, whose one list is guarded by one spinlock; the requests for RPMB,
which hand a buffer to the eMMC driver; headers, tools, patches of other
projects, and everything present only as a binary.
