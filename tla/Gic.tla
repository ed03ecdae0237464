---------------------------------- MODULE Gic ----------------------------------
(***************************************************************************)
(* The monitor's interrupt controller, plat/mediatek/mt6739/plat_mt_gic.c: *)
(* how the software interrupt FIQ_SMP_CALL_SGI and the watchdog reach EL3, *)
(* and how they survive cores that go off and on and a suspended system.   *)
(*                                                                         *)
(* Of a core's private registers the model keeps the group, the enable and *)
(* the pending bit of FIQ_SMP_CALL_SGI, and the enable bit of one private  *)
(* interrupt of the normal world; of the distributor, the watchdog's.      *)
(* The power management that calls this code is not in the repository: it  *)
(* suspends with one core running, which calls the three save functions,   *)
(* and later the three restore functions, in any order.                    *)
(***************************************************************************)
EXTENDS Integers, FiniteSets

CONSTANTS
    PLATFORM_CORE_COUNT,
    PpiCores,       \* bound: the cores whose private interrupt the normal world uses
    CoresPerCluster,
    IdleCores,      \* bound: the cores that save and restore their private interrupts alone
    LastCores       \* bound: the cores the system is suspended from

CORES == 0..(PLATFORM_CORE_COUNT - 1)
CPU_LOGIC_MAP_RESET_VAL == [cluster |-> -1, aff0 |-> -1]
\* An mpidr is its two affinities; gic cores are counted through the clusters.
mpidr(c) == [cluster |-> c \div CoresPerCluster, aff0 |-> c % CoresPerCluster]
BootCore == 0

VARIABLES
    cpu_logical_map, \* a core's mpidr once it has initialised its interface
    core,            \* "off", "half" (in gic_cpuif_init), "up", "idle"
    sgi,             \* FIQ_SMP_CALL_SGI at each redistributor
    ppi,             \* the cores whose private interrupt is enabled
    wdt,             \* the watchdog's interrupt at the distributor
    saved,           \* gic_data[0]
    rdist_has_saved,
    sys,             \* where a suspend of the system stands, and what is left to call
    owed,            \* the cores an SGI was raised for and that have not taken it
    before           \* ppi and wdt when the system, or each core, was suspended

gic == <<sgi, ppi, wdt>>
vars == <<cpu_logical_map, core, gic, saved, rdist_has_saved, sys, owed, before>>

ResetSgi == [group |-> 0, on |-> FALSE, pending |-> FALSE]
ResetWdt == [group |-> 0, on |-> FALSE]
Running == {c \in CORES : core[c] = "up"}

NothingSaved == [sgi |-> {}, group |-> 0, on |-> FALSE, ppi |-> FALSE, wdt |-> ResetWdt]
NothingBefore == [wdt |-> ResetWdt, ppi |-> [c \in CORES |-> FALSE]]

Init ==
    /\ cpu_logical_map = [c \in CORES |-> CPU_LOGIC_MAP_RESET_VAL]
    /\ core = [c \in CORES |-> "off"]
    /\ sgi = [c \in CORES |-> ResetSgi]
    /\ ppi = {}
    /\ wdt = ResetWdt
    /\ saved = NothingSaved
    /\ rdist_has_saved = {}
    /\ sys = [at |-> "cold", todo |-> {}]
    /\ owed = {}
    /\ before = NothingBefore

-----------------------------------------------------------------------------
(* Bringing up *)

\* mt_bl31_spi_enable, as request_fiq calls it for the watchdog
mt_bl31_spi_enable == wdt' = [group |-> 0, on |-> TRUE]

\* gic_cpuif_init wakes the redistributor and puts every private interrupt
\* into the non-secure group ...
Regroup(c) ==
    /\ core' = [core EXCEPT ![c] = "half"]
    /\ sgi' = [sgi EXCEPT ![c].group = 1]

\* gic_setup, on the boot core, up to that point
gic_setup ==
    /\ sys.at = "cold"
    /\ Regroup(BootCore)
    /\ cpu_logical_map' = [c \in CORES |-> CPU_LOGIC_MAP_RESET_VAL]
    /\ mt_bl31_spi_enable
    /\ sys' = [sys EXCEPT !.at = "on"]
    /\ UNCHANGED <<ppi, saved, rdist_has_saved, owed, before>>

\* A core that is switched on, or wakes up alone.
CpuOn(c) ==
    /\ sys.at = "on" /\ core[c] \in {"off", "idle"}
    /\ Regroup(c)
    /\ UNCHANGED <<cpu_logical_map, ppi, wdt, saved, rdist_has_saved, sys, owed, before>>

\* Mutant: the groups are cleared after the SGI was made secure.
enable_sgi_fiq_Swapped(c) == sgi' = [sgi EXCEPT ![c].group = 1, ![c].on = TRUE]
\* enable_sgi_fiq: all private interrupts are made non-secure, then this one
\* is put into group 0 and enabled.
enable_sgi_fiq(c) == sgi' = [sgi EXCEPT ![c].group = 0, ![c].on = TRUE]

\* ... then enables group 0, the SGI, and enters the core's mpidr.
CpuifReady(c) ==
    /\ core[c] = "half"
    /\ enable_sgi_fiq(c)
    /\ core' = [core EXCEPT ![c] = "up"]
    /\ cpu_logical_map' = [cpu_logical_map EXCEPT ![c] = mpidr(c)]
    /\ UNCHANGED <<ppi, wdt, saved, rdist_has_saved, sys, owed, before>>

\* gic_cpuif_deactivate
gic_cpuif_deactivate(c) ==
    /\ sys.at = "on" /\ core[c] = "up" /\ Running # {c}
    /\ core' = [core EXCEPT ![c] = "off"]
    /\ UNCHANGED <<cpu_logical_map, gic, saved, rdist_has_saved, sys, owed, before>>

\* The normal world enables or disables its private interrupt.
SetPpi(c) ==
    /\ sys.at = "on" /\ core[c] = "up" /\ c \in PpiCores
    /\ ppi' = IF c \in ppi THEN ppi \ {c} ELSE ppi \cup {c}
    /\ UNCHANGED <<cpu_logical_map, core, sgi, wdt, saved, rdist_has_saved, sys, owed, before>>

mask_wdt_fiq ==
    /\ sys.at = "on" /\ Running # {}
    /\ wdt' = [wdt EXCEPT !.on = FALSE]
    /\ UNCHANGED <<cpu_logical_map, core, sgi, ppi, saved, rdist_has_saved, sys, owed, before>>

-----------------------------------------------------------------------------
(* Software interrupts *)

Known(c) == cpu_logical_map[c] # CPU_LOGIC_MAP_RESET_VAL

\* compute_target_list: from cpu on, the cores of map in the same cluster, up
\* to the first core of map in another one.
TargetsEnd(cpu, map, cluster) ==
    LET others == {c \in map : c >= cpu /\ Known(c) /\ cpu_logical_map[c].cluster # cluster}
    IN  IF others = {} THEN PLATFORM_CORE_COUNT
        ELSE CHOOSE c \in others : \A d \in others : c <= d
compute_target_list(cpu, map, cluster) ==
    {cpu_logical_map[c].aff0 : c \in {d \in map : /\ cpu <= d /\ Known(d)
                                                  /\ d < TargetsEnd(cpu, map, cluster)}}

\* gic_send_sgi: what the controller makes of a cluster and a target list
gic_send_sgi(cluster, tlist) ==
    {c \in CORES : mpidr(c).cluster = cluster /\ mpidr(c).aff0 \in tlist}

\* Mutant: the loop goes on behind the core that ended the list.
Sent_Skips(map) ==
    LET send[cpu \in 0..(PLATFORM_CORE_COUNT + 1)] ==
            IF cpu \notin CORES THEN {}
            ELSE IF cpu \notin map \/ ~Known(cpu) THEN send[cpu + 1]
            ELSE LET cluster == cpu_logical_map[cpu].cluster
                 IN  gic_send_sgi(cluster, compute_target_list(cpu, map, cluster))
                     \cup send[TargetsEnd(cpu, map, cluster) + 1]
    IN  send[0]
\* The loop of irq_raise_softirq: one register write for each cluster.
Sent(map) ==
    LET send[cpu \in 0..PLATFORM_CORE_COUNT] ==
            IF cpu \notin CORES THEN {}
            ELSE IF cpu \notin map \/ ~Known(cpu) THEN send[cpu + 1]
            ELSE LET cluster == cpu_logical_map[cpu].cluster
                 IN  gic_send_sgi(cluster, compute_target_list(cpu, map, cluster))
                     \cup send[TargetsEnd(cpu, map, cluster)]
    IN  send[0]

\* irq_raise_softirq, also from mt_fiq_smp_call_function, whose map is every
\* core but its own
irq_raise_softirq(map) ==
    /\ sys.at = "on" /\ Running # {}
    /\ sgi' = [c \in CORES |-> IF c \in Sent(map) THEN [sgi[c] EXCEPT !.pending = TRUE]
                               ELSE sgi[c]]
    /\ owed' = owed \cup {c \in map : Known(c)}
    /\ UNCHANGED <<cpu_logical_map, core, ppi, wdt, saved, rdist_has_saved, sys, before>>

\* The interrupt is taken at EL3 as a FIQ: plat_ic_get_pending_interrupt_type
\* says INTR_TYPE_EL3 for group 0 only; get_ack_info, then ack_sgi.
TakeFiq(c) ==
    /\ sys.at = "on" /\ core[c] = "up"
    /\ sgi[c].pending /\ sgi[c].on /\ sgi[c].group = 0
    /\ sgi' = [sgi EXCEPT ![c].pending = FALSE]
    /\ owed' = owed \ {c}
    /\ UNCHANGED <<cpu_logical_map, core, ppi, wdt, saved, rdist_has_saved, sys, before>>

-----------------------------------------------------------------------------
(* Suspend and resume of the system *)

Saves == {"sgi", "dist", "rdist"}
LastCore == CHOOSE c \in CORES : core[c] = "up"
Step(op) == /\ op \in sys.todo
            /\ sys' = [sys EXCEPT !.todo = @ \ {op}]
            /\ UNCHANGED <<cpu_logical_map, core, owed>>

SuspendBegin ==
    /\ sys.at = "on" /\ \E c \in LastCores : Running = {c}
    /\ \A c \in CORES : core[c] \in {"up", "off"}
    /\ sys' = [at |-> "saving", todo |-> Saves]
    /\ before' = [before EXCEPT !.wdt = wdt, !.ppi[LastCore] = LastCore \in ppi]
    /\ UNCHANGED <<cpu_logical_map, core, gic, saved, rdist_has_saved, owed>>

gic_sgi_save_all ==
    /\ sys.at = "saving" /\ Step("sgi")
    /\ saved' = [saved EXCEPT !.sgi = {c \in CORES : sgi[c].pending}]
    /\ UNCHANGED <<gic, rdist_has_saved, before>>

gic_dist_save ==
    /\ sys.at = "saving" /\ Step("dist")
    /\ saved' = [saved EXCEPT !.wdt = wdt]
    /\ UNCHANGED <<gic, rdist_has_saved, before>>

\* The private registers of every core are saved in the same place.
SavePrivate(c) ==
    /\ saved' = [saved EXCEPT !.group = sgi[c].group, !.on = sgi[c].on, !.ppi = c \in ppi]
    /\ rdist_has_saved' = rdist_has_saved \cup {c}
gic_rdist_save ==
    /\ sys.at = "saving" /\ Step("rdist")
    /\ SavePrivate(LastCore)
    /\ UNCHANGED <<gic, before>>

\* Power is lost, or the suspend is abandoned before that.
Resume ==
    /\ sys = [at |-> "saving", todo |-> {}]
    /\ sys' = [at |-> "restoring", todo |-> Saves]
    /\ \/ UNCHANGED gic
       \/ /\ sgi' = [c \in CORES |-> ResetSgi]
          /\ ppi' = {} /\ wdt' = ResetWdt
    /\ UNCHANGED <<cpu_logical_map, core, saved, rdist_has_saved, owed, before>>

\* The pending bits are cleared, then the saved ones are set.
gic_sgi_restore_all ==
    /\ sys.at = "restoring" /\ Step("sgi")
    /\ sgi' = [c \in CORES |-> [sgi[c] EXCEPT !.pending = c \in saved.sgi]]
    /\ UNCHANGED <<ppi, wdt, saved, rdist_has_saved, before>>

\* The enable registers only set bits; the groups are written as they were.
RestorePrivate(cs) ==
    /\ sgi' = [c \in CORES |-> IF c \in cs
                   THEN [sgi[c] EXCEPT !.group = saved.group, !.on = @ \/ saved.on]
                   ELSE sgi[c]]
    /\ ppi' = IF saved.ppi THEN ppi \cup cs ELSE ppi

\* Mutant: the enable bits of the shared interrupts are not restored.
gic_dist_restore_NoEnable ==
    /\ sys.at = "restoring" /\ Step("dist")
    /\ RestorePrivate({LastCore})
    /\ wdt' = [wdt EXCEPT !.group = saved.wdt.group]
    /\ UNCHANGED <<saved, rdist_has_saved, before>>
gic_dist_restore ==
    /\ sys.at = "restoring" /\ Step("dist")
    /\ RestorePrivate({LastCore})
    /\ wdt' = [group |-> saved.wdt.group, on |-> wdt.on \/ saved.wdt.on]
    /\ UNCHANGED <<saved, rdist_has_saved, before>>

gic_rdist_restore ==
    /\ sys.at = "restoring" /\ Step("rdist")
    /\ IF LastCore \in rdist_has_saved THEN RestorePrivate({LastCore}) ELSE UNCHANGED <<sgi, ppi>>
    /\ UNCHANGED <<wdt, saved, rdist_has_saved, before>>
gic_rdist_restore_all ==
    /\ sys.at = "restoring" /\ Step("rdist")
    /\ RestorePrivate(CORES)
    /\ UNCHANGED <<wdt, saved, rdist_has_saved, before>>

\* Nothing reads the save area again before it is written: it is forgotten.
ResumeEnd ==
    /\ sys = [at |-> "restoring", todo |-> {}]
    /\ sys' = [sys EXCEPT !.at = "on"]
    /\ saved' = NothingSaved /\ before' = NothingBefore
    /\ UNCHANGED <<cpu_logical_map, core, gic, rdist_has_saved, owed>>

\* The same functions called by a core that goes to sleep alone.
IdleSave(c) ==
    /\ c \in IdleCores /\ sys.at = "on" /\ core[c] = "up" /\ Running # {c}
    /\ SavePrivate(c)
    /\ core' = [core EXCEPT ![c] = "idle"]
    /\ before' = [before EXCEPT !.ppi[c] = c \in ppi]
    /\ ppi' = ppi \ {c}
    /\ UNCHANGED <<cpu_logical_map, sgi, wdt, sys, owed>>
IdleRestore(c) ==
    /\ sys.at = "on" /\ core[c] = "idle"
    /\ RestorePrivate({c})
    /\ core' = [core EXCEPT ![c] = "up"]
    /\ UNCHANGED <<cpu_logical_map, wdt, saved, rdist_has_saved, sys, owed, before>>

-----------------------------------------------------------------------------
Next ==
    \/ gic_setup \/ mask_wdt_fiq
    \/ \E c \in CORES : \/ CpuOn(c) \/ CpuifReady(c) \/ gic_cpuif_deactivate(c) \/ SetPpi(c)
                        \/ TakeFiq(c) \/ IdleSave(c) \/ IdleRestore(c)
    \/ \E map \in SUBSET CORES : irq_raise_softirq(map)
    \/ SuspendBegin \/ gic_sgi_save_all \/ gic_dist_save \/ gic_rdist_save \/ Resume
    \/ gic_sgi_restore_all \/ gic_dist_restore \/ gic_rdist_restore \/ gic_rdist_restore_all
    \/ ResumeEnd

Spec == Init /\ [][Next]_vars

\* A core that has begun to initialise its interface goes on; a running core
\* takes a FIQ that is signalled; the power management goes on.
LiveSpec ==
    /\ Spec
    /\ \A c \in CORES : WF_vars(CpuifReady(c)) /\ SF_vars(TakeFiq(c))
    /\ WF_vars(gic_sgi_save_all) /\ WF_vars(gic_dist_save) /\ WF_vars(gic_rdist_save)
    /\ WF_vars(Resume \/ ResumeEnd)
    /\ WF_vars(gic_sgi_restore_all) /\ WF_vars(gic_dist_restore)
    /\ WF_vars(gic_rdist_restore \/ gic_rdist_restore_all)

-----------------------------------------------------------------------------
(* Properties *)

TypeOK ==
    /\ \A c \in CORES : cpu_logical_map[c] \in {CPU_LOGIC_MAP_RESET_VAL, mpidr(c)}
    /\ core \in [CORES -> {"off", "half", "up", "idle"}]
    /\ sgi \in [CORES -> [group : 0..1, on : BOOLEAN, pending : BOOLEAN]]
    /\ ppi \subseteq CORES /\ owed \subseteq CORES /\ rdist_has_saved \subseteq CORES
    /\ wdt \in [group : 0..1, on : BOOLEAN]
    /\ sys.at \in {"cold", "on", "saving", "restoring"} /\ sys.todo \subseteq Saves

\* A software interrupt raised for a core stays pending until the core takes
\* it: while the core is off, and over a suspend of the system, where it is in
\* the saved word until the register has it back.
CallsAreNotLost ==
    /\ TypeOK
    /\ \A c \in owed :
          \/ sgi[c].pending
          \/ sys.at = "restoring" /\ "sgi" \in sys.todo /\ c \in saved.sgi

\* A core that stays up takes the FIQ it was sent: it is in group 0 and
\* enabled at that core, whatever was saved and restored.
CallIsTaken == \A c \in CORES : c \in owed ~> c \notin owed \/ core[c] # "up"

\* After a suspend the watchdog and the private interrupts are as they were,
\* and check_wdt_sgi_routing finds the watchdog and the SGI in group 0 at all
\* cores but one that is being initialised.
SettingsSurvive ==
    /\ sys = [at |-> "restoring", todo |-> {}] =>
          wdt = before.wdt /\ (LastCore \in ppi <=> before.ppi[LastCore])
    /\ sys.at = "on" => wdt.group = 0 /\ \A c \in CORES : core[c] # "half" => sgi[c].group = 0

\* A core that slept alone finds its own private interrupts as it left them.
OwnPrivateInterrupts ==
    [][\A c \in CORES : IdleRestore(c) => (c \in ppi' <=> before.ppi[c])]_vars
=============================================================================
