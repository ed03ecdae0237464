----------------------------- MODULE MCPlatform -----------------------------
(***************************************************************************)
(* Three parts of the platform, one at a time: the monitor's log (MtLog),  *)
(* its interrupt controller (Gic) and the factory interface (Meta).  They  *)
(* share nothing, so a behaviour of one with the others at rest stands for *)
(* all of them.                                                            *)
(***************************************************************************)
EXTENDS MtLog, FiniteSets

CONSTANTS
    PLATFORM_CORE_COUNT, PpiCores, CoresPerCluster, IdleCores, LastCores,
    a1, a2, a3, a4,
    Addrs, NoAddr, Sizes, OutSizes, Files, FileSizes, MaxRuns

ASSUME PlatformAssumption ==
    /\ PLATFORM_CORE_COUNT \in Nat \ {0} /\ CoresPerCluster \in Nat \ {0}
    /\ IsFiniteSet(Addrs) /\ NoAddr \notin Addrs
    /\ Sizes \subseteq 1..100 /\ OutSizes \subseteq 1..100
    /\ MaxRuns \in Nat /\ FileSizes \subseteq Nat

VARIABLES
    which,                                               \* the part that runs
    cpu_logical_map, core, sgi, ppi, wdt, saved, rdist_has_saved, sys, owed, before, \* Gic
    heap, cmd_resps, pbuf, psize, files, runs, tool, unread, lost                         \* Meta

gic == <<cpu_logical_map, core, sgi, ppi, wdt, saved, rdist_has_saved, sys, owed, before>>
meta == <<heap, cmd_resps, pbuf, psize, files, runs, tool, unread, lost>>

Controller == INSTANCE Gic
Factory == INSTANCE Meta

MCInit ==
    /\ which \in {"log", "gic", "meta"}
    /\ Init /\ Controller!Init /\ Factory!Init

MCNext ==
    \/ /\ which = "log"
       /\ Next
       /\ UNCHANGED <<which, gic, meta>>
    \/ /\ which = "gic"
       /\ Controller!Next
       /\ UNCHANGED <<which, vars, meta>>
    \/ /\ which = "meta"
       /\ Factory!Next
       /\ UNCHANGED <<which, vars, gic>>

\* The fairness of Gic.
Core(A) == which = "gic" /\ A
MCSpec ==
    /\ MCInit /\ [][MCNext]_<<which, vars, gic, meta>>
    /\ \A c \in 0..(PLATFORM_CORE_COUNT - 1) :
          WF_gic(Core(Controller!CpuifReady(c))) /\ SF_gic(Core(Controller!TakeFiq(c)))
    /\ WF_gic(Core(Controller!gic_sgi_save_all))
    /\ WF_gic(Core(Controller!gic_dist_save))
    /\ WF_gic(Core(Controller!gic_rdist_save))
    /\ WF_gic(Core(Controller!Resume \/ Controller!ResumeEnd))
    /\ WF_gic(Core(Controller!gic_sgi_restore_all))
    /\ WF_gic(Core(Controller!gic_dist_restore))
    /\ WF_gic(Core(Controller!gic_rdist_restore \/ Controller!gic_rdist_restore_all))

\* A software interrupt raised for a core (irq_raise_softirq) stays pending
\* until the core takes it: while the core is off, and over a suspend.
CallsAreNotLost == Controller!CallsAreNotLost

\* Over a suspend the watchdog and the private interrupts keep their settings,
\* and check_wdt_sgi_routing finds what must reach the monitor in group 0.
SettingsSurvive == Controller!SettingsSurvive

\* A core that stays up takes the interrupt it was sent.
CallIsTaken == Controller!CallIsTaken

\* The buffer that goes back to the factory tool is allocated and as large as
\* it is said to be, and no output of a program is lost from cmd_resps or
\* stays on the heap without an entry (handle_trustkernel_meta_command).
AnswerFits == Factory!AnswerFits

\* A program's output is there until the tool has read it, and is the output
\* of the command that named it (__runcmd, __readcmdresp).
OutputIsKept == Factory!OutputIsKept
=============================================================================
