------------------------------ MODULE Tkcored ------------------------------
(***************************************************************************)
(* The dispatcher of the Trusted OS in the monitor                         *)
(* (atf/v1.3/services/spd/tkcored): the switch between the worlds at an    *)
(* SMC and at a secure interrupt, and the hooks of power management, which *)
(* enter the Trusted OS and come back to the C function that waits.        *)
(*                                                                         *)
(* A core in the monitor is not interrupted and touches its own context,   *)
(* so an action goes from one return to a lower level to the next; only    *)
(* the cpu_on hook writes the state of another core.  EL1 system registers *)
(* are one pair: the world that wrote them last and what it wrote.         *)
(***************************************************************************)
EXTENDS Integers, FiniteSets

CONSTANTS Cores, BootCore

ASSUME TkcoredAssumption == BootCore \in Cores

VARIABLES
    vectors,    \* tkcore_vectors
    pstate,     \* per core: the state in tkcored_sp_context[],
    c_rt_ctx,   \* the C function that waits for a synchronous return,
    elr,        \* where the Trusted OS was entered, while it runs,
    ctx,        \* saved EL1 registers of each world (cpu_context_t),
    el1,        \* the EL1 registers themselves,
    at,         \* who has the core,
    psci,       \* the affinity state PSCI keeps (external),
    held,       \* and what each world wrote last into its registers
    wdt, sgi    \* the watchdog interrupt in the interrupt controller, and the
                \* interrupt by which one core makes another dump its state

core == <<pstate, c_rt_ctx, elr, ctx, el1, at, psci, held>>
gic == <<wdt, sgi>>
vars == <<vectors, core, gic>>

Worlds == {"normal", "secure"}
Fresh(w) == <<w, 0>>
Lost == <<"reset", 0>>              \* after the core was without power

\* tkcored_setup has prepared the secure context of the boot core.
Init ==
    /\ vectors = "NULL"
    /\ pstate = [c \in Cores |-> "OFF"]
    /\ c_rt_ctx = [c \in Cores |-> "0"]
    /\ elr = [c \in Cores |-> IF c = BootCore THEN "boot" ELSE "none"]
    /\ ctx = [c \in Cores |-> [w \in Worlds |-> Fresh(w)]]
    /\ el1 = [c \in Cores |-> IF c = BootCore THEN Fresh("normal") ELSE Lost]
    /\ at = [c \in Cores |-> IF c = BootCore THEN "bl31" ELSE "down"]
    /\ psci = [c \in Cores |-> IF c = BootCore THEN "ON" ELSE "OFF"]
    /\ held = [c \in Cores |-> [w \in Worlds |-> 0]]
    /\ wdt = "quiet" /\ sgi = [c \in Cores |-> "quiet"]

Goto(c, w) == at' = [at EXCEPT ![c] = w]
Assert(c, holds, step) == IF holds THEN step ELSE
    Goto(c, "assert")
    /\ UNCHANGED <<vectors, pstate, c_rt_ctx, elr, ctx, el1, psci, held, gic>>

-----------------------------------------------------------------------------
(* Worlds run and use their registers.  A core preserves them while the     *)
(* Trusted OS handles an interrupt of the normal world.                     *)

Runs(c, w) ==
    /\ at[c] = w
    /\ w = "secure" => elr[c] # "fiq"
    /\ \E v \in 0..1 : /\ held' = [held EXCEPT ![c][w] = v]
                       /\ el1' = [el1 EXCEPT ![c] = <<w, v>>]
    /\ UNCHANGED <<vectors, pstate, c_rt_ctx, elr, ctx, at, psci, gic>>

-----------------------------------------------------------------------------
(* tkcored_smc_handler and tkcored_sel1_interrupt_handler *)

\* From the normal world into the Trusted OS at a given entry
Enter_NoSave(c, entry) ==
    /\ at[c] = "normal"
    /\ elr' = [elr EXCEPT ![c] = entry]
    /\ el1' = [el1 EXCEPT ![c] = ctx[c]["secure"]]
    /\ Goto(c, "secure")
    /\ UNCHANGED <<vectors, pstate, c_rt_ctx, ctx, psci, held>>
Enter(c, entry) ==
    /\ at[c] = "normal"
    /\ ctx' = [ctx EXCEPT ![c]["normal"] = el1[c]]
    /\ elr' = [elr EXCEPT ![c] = entry]
    /\ el1' = [el1 EXCEPT ![c] = ctx[c]["secure"]]
    /\ Goto(c, "secure")
    /\ UNCHANGED <<vectors, pstate, c_rt_ctx, psci, held>>

SmcFromNormal(c) ==
    /\ Enter(c, "fast_smc") \/ Enter(c, "std_smc")
    /\ UNCHANGED gic

\* The Trusted OS is left for w: its entry is set again before it runs again.
Leaves(c, w) == Goto(c, w) /\ elr' = [elr EXCEPT ![c] = "none"]

\* A call is done or preempted.
CallDone(c) ==
    /\ at[c] = "secure" /\ elr[c] \in {"fast_smc", "std_smc"}
    /\ ctx' = [ctx EXCEPT ![c]["secure"] = el1[c]]
    /\ el1' = [el1 EXCEPT ![c] = ctx[c]["normal"]]
    /\ Leaves(c, "normal")
    /\ UNCHANGED <<vectors, pstate, c_rt_ctx, psci, held, gic>>

\* tkcore_platform_dump: this core dumps, and makes the others do so.  The
\* interrupt stays pending for a core that is down; only one that has not come
\* up yet does not get it.
PlatformDump(c) ==
    \E new \in SUBSET {d \in Cores : psci[d] # "ON"} :
        sgi' = [d \in Cores |-> IF d # c /\ d \notin new /\ sgi[d] = "quiet"
                                THEN "pending" ELSE sgi[d]]

SecureServiceRequest(c) ==
    /\ at[c] = "secure"
    /\ PlatformDump(c)
    /\ UNCHANGED <<vectors, core, wdt>>

\* A core is interrupted by what is pending for it, unless it has acknowledged
\* an interrupt of the same priority that has not ended.  In the normal world
\* the monitor takes a secure interrupt; one that is not known it passes on.
UnknownInterrupt(c) ==
    /\ sgi[c] # "active"
    /\ PlatformDump(c)
    /\ Enter(c, "fiq")
    /\ UNCHANGED wdt

FiqDone(c) ==
    /\ at[c] = "secure" /\ elr[c] = "fiq"
    /\ el1' = [el1 EXCEPT ![c] = ctx[c]["normal"]]
    /\ Leaves(c, "normal")
    /\ UNCHANGED <<vectors, pstate, c_rt_ctx, ctx, psci, held, gic>>

SgiInterrupt(c) ==
    /\ at[c] = "normal" /\ sgi[c] = "pending"
    /\ sgi' = [sgi EXCEPT ![c] = "quiet"]
    /\ UNCHANGED <<vectors, core, wdt>>

\* The watchdog interrupt is pending for every core.
WatchdogBites ==
    /\ wdt = "quiet" /\ wdt' = "pending"
    /\ UNCHANGED <<vectors, core, sgi>>

WatchdogInterrupt(c) ==
    /\ at[c] = "normal" /\ wdt = "pending" /\ sgi[c] = "quiet"
    /\ Goto(c, "wdt_irq")
    /\ UNCHANGED <<vectors, pstate, c_rt_ctx, elr, ctx, el1, psci, held, gic>>

\* A core that acknowledges gets the most urgent interrupt that is pending for
\* it then, if there is one.  Only the watchdog is handled and ended.
Acknowledge_Unchecked(c) ==
    /\ at[c] = "wdt_irq"
    /\ wdt' = "active" /\ Goto(c, "dump")
    /\ UNCHANGED <<vectors, pstate, c_rt_ctx, elr, ctx, el1, psci, held, sgi>>
Acknowledge(c) ==
    /\ at[c] = "wdt_irq"
    /\ IF sgi[c] = "pending"
       THEN sgi' = [sgi EXCEPT ![c] = "active"] /\ UNCHANGED wdt /\ Goto(c, "normal")
       ELSE /\ UNCHANGED sgi
            /\ IF wdt = "pending" THEN wdt' = "active" /\ Goto(c, "dump")
                                  ELSE UNCHANGED wdt /\ Goto(c, "normal")
    /\ UNCHANGED <<vectors, pstate, c_rt_ctx, elr, ctx, el1, psci, held>>

EndOfInterrupt(c) ==
    /\ at[c] = "dump"
    /\ PlatformDump(c)
    /\ wdt' = "quiet" /\ Goto(c, "normal")
    /\ UNCHANGED <<vectors, pstate, c_rt_ctx, elr, ctx, el1, psci, held>>

-----------------------------------------------------------------------------
(* Synchronous calls of the Trusted OS *)

\* tkcored_synchronous_sp_entry by function f, with the secure context s
SpEntry(c, f, s) ==
    /\ c_rt_ctx' = [c_rt_ctx EXCEPT ![c] = f]
    /\ el1' = [el1 EXCEPT ![c] = s]
    /\ Goto(c, "secure")

\* The Trusted OS says that it is done with a synchronous call, and
\* tkcored_synchronous_sp_exit goes on in the C function that waits.
Synchronous == {"boot", "cpu_on", "cpu_off", "cpu_suspend", "cpu_resume"}

SpExit(c, f) ==
    /\ at[c] = "secure" /\ elr[c] \in Synchronous /\ c_rt_ctx[c] = f
    /\ ctx' = [ctx EXCEPT ![c]["secure"] = el1[c]]
    /\ c_rt_ctx' = [c_rt_ctx EXCEPT ![c] = "0"]

TkcoredInit(c) ==
    /\ at[c] = "bl31"
    /\ ctx' = [ctx EXCEPT ![c]["normal"] = el1[c]]
    /\ SpEntry(c, "init", ctx[c]["secure"])
    /\ UNCHANGED <<vectors, pstate, elr, psci, held, gic>>

EntryDone(c) ==
    /\ at[c] = "secure" /\ elr[c] = "boot"
    /\ Assert(c, vectors = "NULL",
          /\ SpExit(c, "init")
          /\ vectors' = "table"
          /\ pstate' = [pstate EXCEPT ![c] = "ON"]
          /\ el1' = [el1 EXCEPT ![c] = ctx[c]["normal"]]
          /\ Leaves(c, "normal")
          /\ UNCHANGED <<psci, held, gic>>)

\* tkcored_init_secure_context
InitSecureContext_OldEntry(c, entry) ==
    /\ ctx' = [ctx EXCEPT ![c]["secure"] = Fresh("secure")]
    /\ held' = [held EXCEPT ![c]["secure"] = 0]
    /\ UNCHANGED elr
InitSecureContext(c, entry) ==
    /\ elr' = [elr EXCEPT ![c] = entry]
    /\ ctx' = [ctx EXCEPT ![c]["secure"] = Fresh("secure")]
    /\ held' = [held EXCEPT ![c]["secure"] = 0]

\* The Trusted OS reports an error to a hook: panic
Panics(c) ==
    /\ \E f \in {"off", "suspend", "on_finish", "suspend_finish"} : SpExit(c, f)
    /\ Leaves(c, "panic")
    /\ UNCHANGED <<vectors, pstate, el1, psci, held, gic>>

\* The normal world starts anew on a core that was without power.
NormalWorldStarts(c) ==
    /\ el1' = [el1 EXCEPT ![c] = Fresh("normal")]
    /\ held' = [held EXCEPT ![c]["normal"] = 0]
    /\ Leaves(c, "normal")

-----------------------------------------------------------------------------
(* Hooks of power management: tkcored_pm *)

\* CPU_ON called on core c for core d; power does not always come.
CpuOn(c, d) ==
    /\ at[c] = "normal" /\ psci[d] = "OFF"
    /\ pstate' = [pstate EXCEPT ![d] = "ON_PENDING"]
    /\ psci' \in {psci, [psci EXCEPT ![d] = "ON_PENDING"]}
    /\ UNCHANGED <<vectors, c_rt_ctx, elr, ctx, el1, at, held, gic>>

CpuOnFinish(c) ==
    /\ at[c] = "down" /\ psci[c] = "ON_PENDING"
    /\ Assert(c, vectors # "NULL" /\ pstate[c] = "ON_PENDING",
          /\ InitSecureContext(c, "cpu_on")
          /\ pstate' = [pstate EXCEPT ![c] = "OFF"]
          /\ SpEntry(c, "on_finish", Fresh("secure"))
          /\ UNCHANGED <<vectors, psci, gic>>)

OnDone_StaysOff(c) ==
    /\ SpExit(c, "on_finish")
    /\ NormalWorldStarts(c)
    /\ psci' = [psci EXCEPT ![c] = "ON"]
    /\ UNCHANGED <<vectors, pstate, gic>>
OnDone(c) ==
    /\ SpExit(c, "on_finish")
    /\ pstate' = [pstate EXCEPT ![c] = "ON"]
    /\ NormalWorldStarts(c)
    /\ psci' = [psci EXCEPT ![c] = "ON"]
    /\ UNCHANGED <<vectors, gic>>

\* CPU_OFF and CPU_SUSPEND enter the Trusted OS from the normal world, whose
\* registers are not needed again.
Hook(c, f, entry) ==
    /\ at[c] = "normal"
    /\ Assert(c, vectors # "NULL" /\ pstate[c] = "ON" /\ c_rt_ctx[c] = "0",
          /\ elr' = [elr EXCEPT ![c] = entry]
          /\ SpEntry(c, f, ctx[c]["secure"])
          /\ UNCHANGED <<vectors, pstate, ctx, psci, held, gic>>)

\* Linux keeps one core on.
CpuOff(c) ==
    /\ \E d \in Cores \ {c} : psci[d] = "ON" /\ pstate[d] = "ON"
    /\ Hook(c, "off", "cpu_off")

CpuSuspend(c) == Hook(c, "suspend", "cpu_suspend")

\* What the core has acknowledged is lost with its interface, not what is
\* pending.
PowerDown(c) ==
    /\ el1' = [el1 EXCEPT ![c] = Lost]
    /\ sgi' = [sgi EXCEPT ![c] = IF @ = "active" THEN "quiet" ELSE @]
    /\ Leaves(c, "down")
    /\ UNCHANGED wdt

OffDone(c) ==
    /\ SpExit(c, "off")
    /\ pstate' = [pstate EXCEPT ![c] = "OFF"]
    /\ Leaves(c, "dying")
    /\ UNCHANGED <<vectors, el1, psci, held, gic>>

SuspendDone(c) ==
    /\ SpExit(c, "suspend")
    /\ pstate' = [pstate EXCEPT ![c] = "SUSPEND"]
    /\ PowerDown(c)
    /\ UNCHANGED <<vectors, psci, held>>

\* PSCI publishes that the core is off when the hook has returned.
PsciOff(c) ==
    /\ at[c] = "dying"
    /\ psci' = [psci EXCEPT ![c] = "OFF"]
    /\ PowerDown(c)
    /\ UNCHANGED <<vectors, pstate, c_rt_ctx, ctx, held>>

\* A suspended core wakes up.
CpuSuspendFinish(c) ==
    /\ at[c] = "down" /\ psci[c] = "ON"
    /\ Assert(c, vectors # "NULL" /\ pstate[c] = "SUSPEND" /\ c_rt_ctx[c] = "0",
          /\ elr' = [elr EXCEPT ![c] = "cpu_resume"]
          /\ SpEntry(c, "suspend_finish", ctx[c]["secure"])
          /\ UNCHANGED <<vectors, pstate, ctx, psci, held, gic>>)

ResumeDone(c) ==
    /\ SpExit(c, "suspend_finish")
    /\ pstate' = [pstate EXCEPT ![c] = "ON"]
    /\ NormalWorldStarts(c)
    /\ UNCHANGED <<vectors, psci, gic>>

-----------------------------------------------------------------------------
Returns(c) ==
    \/ CallDone(c) \/ FiqDone(c) \/ EntryDone(c) \/ OnDone(c)
    \/ OffDone(c) \/ SuspendDone(c) \/ ResumeDone(c)

Interrupts(c) ==
    \/ SecureServiceRequest(c) \/ UnknownInterrupt(c) \/ SgiInterrupt(c)
    \/ WatchdogInterrupt(c) \/ Acknowledge(c) \/ EndOfInterrupt(c)

Hooks(c) ==
    \/ \E d \in Cores : CpuOn(c, d)
    \/ CpuOff(c) \/ CpuSuspend(c) \/ CpuOnFinish(c) \/ CpuSuspendFinish(c)

Next ==
    \/ WatchdogBites
    \/ \E c \in Cores :
        \/ \E w \in Worlds : Runs(c, w)
        \/ Returns(c) \/ Panics(c)
        \/ SmcFromNormal(c)
        \/ Interrupts(c)
        \/ Hooks(c) \/ TkcoredInit(c) \/ PsciOff(c)

\* The Trusted OS returns, and a core that is switched on starts.
Fairness == \A c \in Cores :
    WF_vars(Returns(c) \/ CpuOnFinish(c)) /\ WF_vars(TkcoredInit(c)) /\ WF_vars(PsciOff(c))

Spec == Init /\ [][Next]_vars
LiveSpec == Spec /\ Fairness
-----------------------------------------------------------------------------
(* Properties *)

Places == {"bl31", "normal", "secure", "wdt_irq", "dump", "dying", "down",
           "panic", "assert"}
Entries == Synchronous \cup {"fast_smc", "std_smc", "fiq", "none"}
Registers == {Lost} \cup Worlds \X (0..1)

TypeOK ==
    /\ vectors \in {"NULL", "table"}
    /\ pstate \in [Cores -> {"OFF", "ON", "SUSPEND", "ON_PENDING"}]
    /\ c_rt_ctx \in [Cores -> {"0", "init", "off", "suspend", "on_finish", "suspend_finish"}]
    /\ elr \in [Cores -> Entries]
    /\ ctx \in [Cores -> [Worlds -> Registers]]
    /\ el1 \in [Cores -> Registers]
    /\ at \in [Cores -> Places]
    /\ psci \in [Cores -> {"OFF", "ON_PENDING", "ON"}]
    /\ held \in [Cores -> [Worlds -> 0..1]]
    /\ wdt \in {"quiet", "pending", "active"}
    /\ sgi \in [Cores -> {"quiet", "pending", "active"}]

\* A world finds in its registers what it left there, whatever the other world
\* did on the core in between, through calls, interrupts, suspend and resume.
RegistersSurvive ==
    \A c \in Cores : at[c] \in Worlds => el1[c] = <<at[c], held[c][at[c]]>>

\* No assertion fails: the hooks find the Trusted OS in the state they expect.
AssertionsHold == \A c \in Cores : at[c] # "assert"

\* Where the normal world runs, an SMC finds the Trusted OS initialised on this
\* core, which tkcored_smc_handler does not test; and no assertion fails.
NormalWorldHasTkcore ==
    AssertionsHold /\ \A c \in Cores : at[c] = "normal" => vectors # "NULL" /\ pstate[c] = "ON"

\* A synchronous call comes back to the function that made it, and a call of
\* the normal world to nobody else: a part of the inductive invariant.
Caller == [boot |-> "init", cpu_on |-> "on_finish", cpu_off |-> "off",
           cpu_suspend |-> "suspend", cpu_resume |-> "suspend_finish"]
ReturnsToCaller ==
    \A c \in Cores : c_rt_ctx[c] =
        IF at[c] = "secure" /\ elr[c] \in Synchronous THEN Caller[elr[c]] ELSE "0"

\* One core redirects the watchdog to the dump: "others won't able to consume
\* this irq any more".
OneCoreDumps == \A c, d \in Cores : at[c] = "dump" /\ at[d] = "dump" => c = d

\* An interrupt that was acknowledged is ended, or the core is deaf to all others
\* of this priority.
InterruptsEnd == \A c \in Cores : at[c] = "normal" => sgi[c] # "active"

\* A core that was given power enters the normal world, or panics.
CoreComesUp ==
    \A c \in Cores : psci[c] = "ON_PENDING" ~> at[c] \in {"normal", "panic"}

\* What else holds, for the induction.  Where a core stands determines the
\* state of the Trusted OS on it,
Stage(c) ==
    /\ at[c] # "assert"
    /\ at[c] = "bl31" => elr[c] = "boot"
    /\ at[c] = "bl31" \/ (at[c] = "secure" /\ elr[c] = "boot") =>
           c = BootCore /\ vectors = "NULL" /\ psci[c] = "ON"
    /\ (\/ at[c] \in {"normal", "wdt_irq", "dump"}
        \/ at[c] = "secure" /\ elr[c] \notin {"boot", "cpu_on", "cpu_resume"}) =>
           vectors # "NULL" /\ pstate[c] = "ON" /\ psci[c] = "ON"
    /\ at[c] = "secure" => elr[c] # "none"
    /\ at[c] = "secure" /\ elr[c] = "cpu_on" =>
           vectors # "NULL" /\ pstate[c] = "OFF" /\ psci[c] = "ON_PENDING"
    /\ at[c] = "down" /\ psci[c] = "ON_PENDING" => vectors # "NULL" /\ pstate[c] = "ON_PENDING"
    /\ (\/ at[c] = "secure" /\ elr[c] = "cpu_resume"
        \/ at[c] = "down" /\ psci[c] = "ON") =>
           vectors # "NULL" /\ pstate[c] = "SUSPEND" /\ psci[c] = "ON"
    /\ psci[c] = "OFF" => at[c] = "down"
StageInv == \A c \in Cores : Stage(c)

\* and where the registers of each world are.
Left(c, w) == <<w, held[c][w]>>
RegistersOf(c) ==
    /\ at[c] \in {"bl31", "normal", "wdt_irq", "dump"} =>
           el1[c] = Left(c, "normal") /\ ctx[c]["secure"] = Left(c, "secure")
    /\ at[c] = "secure" => el1[c] = Left(c, "secure")
    /\ at[c] = "secure" /\ elr[c] \in {"boot", "fast_smc", "std_smc", "fiq"} =>
           ctx[c]["normal"] = Left(c, "normal")
    /\ (\/ at[c] = "secure" /\ elr[c] = "fiq"
        \/ at[c] = "down" /\ psci[c] = "ON") => ctx[c]["secure"] = Left(c, "secure")
RegInv == \A c \in Cores : RegistersOf(c)

DumpInv == OneCoreDumps /\ \A c \in Cores : at[c] = "dump" => wdt = "active"

IInv == TypeOK /\ StageInv /\ ReturnsToCaller /\ RegInv /\ DumpInv
=============================================================================
