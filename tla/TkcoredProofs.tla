--------------------------- MODULE TkcoredProofs ---------------------------
(***************************************************************************)
(* The dispatcher of the Trusted OS, for every set of cores.  The          *)
(* induction is over five invariants: types, the stage of each core        *)
(* (StageInv), the caller of its synchronous call (ReturnsToCaller), the   *)
(* place of each world's registers (RegInv) and the dump (DumpInv).  Each  *)
(* has a lemma with one step per action.                                   *)
(***************************************************************************)
EXTENDS Tkcored, TLAPS

\* Types are kept.
LEMMA TypeStep ==
    TypeOK /\ StageInv /\ ReturnsToCaller /\ [Next]_vars => TypeOK'
<1> SUFFICES ASSUME TypeOK, StageInv, ReturnsToCaller, [Next]_vars PROVE TypeOK'
  OBVIOUS
<1> USE DEF TypeOK, Registers, Worlds, Entries, Places, Synchronous, Lost, Fresh, gic, Goto, Assert
<1>1. ASSUME NEW c \in Cores, NEW w \in Worlds, Runs(c, w) PROVE TypeOK'
  BY <1>1 DEF Runs
<1>2. ASSUME NEW c \in Cores, CallDone(c) PROVE TypeOK'
  BY <1>2 DEF CallDone, Leaves
<1>3. ASSUME NEW c \in Cores, FiqDone(c) PROVE TypeOK'
  BY <1>3 DEF FiqDone, Leaves
<1>4. ASSUME NEW c \in Cores, EntryDone(c) PROVE TypeOK'
  <2>1. vectors = "NULL"
    BY <1>4 DEF EntryDone, SpExit, Leaves, StageInv, Stage, ReturnsToCaller, Caller
  <2>2. /\ SpExit(c, "init")
       /\ vectors' = "table"
       /\ pstate' = [pstate EXCEPT ![c] = "ON"]
       /\ el1' = [el1 EXCEPT ![c] = ctx[c]["normal"]]
       /\ Leaves(c, "normal")
       /\ UNCHANGED <<psci, held, gic>>
    BY <1>4, <2>1 DEF EntryDone
  <2>3. QED
    BY <2>2 DEF SpExit, Leaves
<1>5. ASSUME NEW c \in Cores, OnDone(c) PROVE TypeOK'
  BY <1>5 DEF OnDone, SpExit, NormalWorldStarts, Leaves
<1>6. ASSUME NEW c \in Cores, OffDone(c) PROVE TypeOK'
  BY <1>6 DEF OffDone, SpExit, Leaves
<1>7. ASSUME NEW c \in Cores, SuspendDone(c) PROVE TypeOK'
  BY <1>7 DEF SuspendDone, SpExit, PowerDown, Leaves
<1>8. ASSUME NEW c \in Cores, ResumeDone(c) PROVE TypeOK'
  BY <1>8 DEF ResumeDone, SpExit, NormalWorldStarts, Leaves
<1>9. ASSUME NEW c \in Cores, Panics(c) PROVE TypeOK'
  BY <1>9 DEF Panics, SpExit, Leaves
<1>10. ASSUME NEW c \in Cores, SmcFromNormal(c) PROVE TypeOK'
  <2>1. CASE Enter(c, "fast_smc")
    BY <1>10, <2>1 DEF SmcFromNormal, Enter
  <2>2. CASE Enter(c, "std_smc")
    BY <1>10, <2>2 DEF SmcFromNormal, Enter
  <2>3. QED
    BY <1>10, <2>1, <2>2 DEF SmcFromNormal
<1>11. ASSUME NEW c \in Cores, SecureServiceRequest(c) PROVE TypeOK'
  BY <1>11 DEF SecureServiceRequest, PlatformDump, core
<1>12. ASSUME NEW c \in Cores, UnknownInterrupt(c) PROVE TypeOK'
  BY <1>12 DEF UnknownInterrupt, PlatformDump, Enter
<1>13. ASSUME NEW c \in Cores, SgiInterrupt(c) PROVE TypeOK'
  BY <1>13 DEF SgiInterrupt, core
<1>14. ASSUME NEW c \in Cores, WatchdogInterrupt(c) PROVE TypeOK'
  BY <1>14 DEF WatchdogInterrupt
<1>15. ASSUME NEW c \in Cores, Acknowledge(c) PROVE TypeOK'
  <2>1. CASE sgi[c] = "pending"
    BY <1>15, <2>1 DEF Acknowledge
  <2>2. CASE sgi[c] # "pending"
    BY <1>15, <2>2 DEF Acknowledge
  <2>3. QED
    BY <2>1, <2>2
<1>16. ASSUME NEW c \in Cores, EndOfInterrupt(c) PROVE TypeOK'
  BY <1>16 DEF EndOfInterrupt, PlatformDump
<1>17. ASSUME NEW c \in Cores, NEW d \in Cores, CpuOn(c, d) PROVE TypeOK'
  BY <1>17 DEF CpuOn
<1>18. ASSUME NEW c \in Cores, CpuOff(c) PROVE TypeOK'
  <2>1. vectors # "NULL" /\ pstate[c] = "ON" /\ c_rt_ctx[c] = "0"
    BY <1>18 DEF CpuOff, Hook, SpEntry, StageInv, Stage, ReturnsToCaller, Caller
  <2>2. /\ elr' = [elr EXCEPT ![c] = "cpu_off"]
       /\ SpEntry(c, "off", ctx[c]["secure"])
       /\ UNCHANGED <<vectors, pstate, ctx, psci, held, gic>>
    BY <1>18, <2>1 DEF CpuOff, Hook
  <2>3. QED
    BY <2>2 DEF SpEntry
<1>19. ASSUME NEW c \in Cores, CpuSuspend(c) PROVE TypeOK'
  <2>1. vectors # "NULL" /\ pstate[c] = "ON" /\ c_rt_ctx[c] = "0"
    BY <1>19 DEF CpuSuspend, Hook, SpEntry, StageInv, Stage, ReturnsToCaller, Caller
  <2>2. /\ elr' = [elr EXCEPT ![c] = "cpu_suspend"]
       /\ SpEntry(c, "suspend", ctx[c]["secure"])
       /\ UNCHANGED <<vectors, pstate, ctx, psci, held, gic>>
    BY <1>19, <2>1 DEF CpuSuspend, Hook
  <2>3. QED
    BY <2>2 DEF SpEntry
<1>20. ASSUME NEW c \in Cores, CpuOnFinish(c) PROVE TypeOK'
  <2>1. vectors # "NULL" /\ pstate[c] = "ON_PENDING"
    BY <1>20 DEF CpuOnFinish, InitSecureContext, SpEntry, StageInv, Stage, ReturnsToCaller, Caller
  <2>2. /\ InitSecureContext(c, "cpu_on")
       /\ pstate' = [pstate EXCEPT ![c] = "OFF"]
       /\ SpEntry(c, "on_finish", Fresh("secure"))
       /\ UNCHANGED <<vectors, psci, gic>>
    BY <1>20, <2>1 DEF CpuOnFinish
  <2>3. QED
    BY <2>2 DEF InitSecureContext, SpEntry
<1>21. ASSUME NEW c \in Cores, CpuSuspendFinish(c) PROVE TypeOK'
  <2>1. vectors # "NULL" /\ pstate[c] = "SUSPEND" /\ c_rt_ctx[c] = "0"
    BY <1>21 DEF CpuSuspendFinish, SpEntry, StageInv, Stage, ReturnsToCaller, Caller
  <2>2. /\ elr' = [elr EXCEPT ![c] = "cpu_resume"]
       /\ SpEntry(c, "suspend_finish", ctx[c]["secure"])
       /\ UNCHANGED <<vectors, pstate, ctx, psci, held, gic>>
    BY <1>21, <2>1 DEF CpuSuspendFinish
  <2>3. QED
    BY <2>2 DEF SpEntry
<1>22. ASSUME NEW c \in Cores, TkcoredInit(c) PROVE TypeOK'
  BY <1>22 DEF TkcoredInit, SpEntry
<1>23. ASSUME NEW c \in Cores, PsciOff(c) PROVE TypeOK'
  BY <1>23 DEF PsciOff, PowerDown, Leaves
<1>24. CASE WatchdogBites
  BY <1>24 DEF WatchdogBites, core
<1>25. CASE UNCHANGED vars
  BY <1>25 DEF vars, core
<1>26. QED
  BY <1>1, <1>2, <1>3, <1>4, <1>5, <1>6, <1>7, <1>8, <1>9, <1>10, <1>11, <1>12, <1>13, <1>14, <1>15, <1>16, <1>17, <1>18, <1>19, <1>20, <1>21, <1>22, <1>23, <1>24, <1>25
     DEF Next, Returns, Interrupts, Hooks

\* The place of a core determines the state of the Trusted OS on it.
LEMMA StageStep ==
    TypeOK /\ StageInv /\ ReturnsToCaller /\ [Next]_vars => StageInv'
<1> SUFFICES ASSUME TypeOK, StageInv, ReturnsToCaller, [Next]_vars, NEW e \in Cores PROVE Stage(e)'
  BY DEF StageInv
<1>0. /\ vectors \in {"NULL", "table"}
     /\ at \in [Cores -> Places] /\ elr \in [Cores -> Entries]
     /\ DOMAIN pstate = Cores /\ DOMAIN psci = Cores /\ DOMAIN c_rt_ctx = Cores
  BY DEF TypeOK
<1> USE <1>0
<1> USE DEF StageInv, Stage, ReturnsToCaller, Caller, Synchronous, gic, Goto, Assert
<1>1. ASSUME NEW c \in Cores, NEW w \in Worlds, Runs(c, w) PROVE Stage(e)'
  BY <1>1 DEF Runs
<1>2. ASSUME NEW c \in Cores, CallDone(c) PROVE Stage(e)'
  BY <1>2 DEF CallDone, Leaves
<1>3. ASSUME NEW c \in Cores, FiqDone(c) PROVE Stage(e)'
  BY <1>3 DEF FiqDone, Leaves
<1>4. ASSUME NEW c \in Cores, EntryDone(c) PROVE Stage(e)'
  <2>1. vectors = "NULL"
    BY <1>4 DEF EntryDone, SpExit, Leaves
  <2>2. QED
    BY <1>4, <2>1 DEF EntryDone, SpExit, Leaves
<1>5. ASSUME NEW c \in Cores, OnDone(c) PROVE Stage(e)'
  BY <1>5 DEF OnDone, SpExit, NormalWorldStarts, Fresh, Leaves
<1>6. ASSUME NEW c \in Cores, OffDone(c) PROVE Stage(e)'
  BY <1>6 DEF OffDone, SpExit, Leaves
<1>7. ASSUME NEW c \in Cores, SuspendDone(c) PROVE Stage(e)'
  BY <1>7 DEF SuspendDone, SpExit, PowerDown, Lost, Leaves
<1>8. ASSUME NEW c \in Cores, ResumeDone(c) PROVE Stage(e)'
  BY <1>8 DEF ResumeDone, SpExit, NormalWorldStarts, Fresh, Leaves
<1>9. ASSUME NEW c \in Cores, Panics(c) PROVE Stage(e)'
  BY <1>9 DEF Panics, SpExit, Leaves
<1>10. ASSUME NEW c \in Cores, SmcFromNormal(c) PROVE Stage(e)'
  <2>1. CASE Enter(c, "fast_smc")
    BY <1>10, <2>1 DEF SmcFromNormal, Enter
  <2>2. CASE Enter(c, "std_smc")
    BY <1>10, <2>2 DEF SmcFromNormal, Enter
  <2>3. QED
    BY <1>10, <2>1, <2>2 DEF SmcFromNormal
<1>11. ASSUME NEW c \in Cores, SecureServiceRequest(c) PROVE Stage(e)'
  BY <1>11 DEF SecureServiceRequest, PlatformDump, core
<1>12. ASSUME NEW c \in Cores, UnknownInterrupt(c) PROVE Stage(e)'
  BY <1>12 DEF UnknownInterrupt, PlatformDump, Enter
<1>13. ASSUME NEW c \in Cores, SgiInterrupt(c) PROVE Stage(e)'
  BY <1>13 DEF SgiInterrupt, core
<1>14. ASSUME NEW c \in Cores, WatchdogInterrupt(c) PROVE Stage(e)'
  BY <1>14 DEF WatchdogInterrupt
<1>15. ASSUME NEW c \in Cores, Acknowledge(c) PROVE Stage(e)'
  BY <1>15 DEF Acknowledge
<1>16. ASSUME NEW c \in Cores, EndOfInterrupt(c) PROVE Stage(e)'
  BY <1>16 DEF EndOfInterrupt, PlatformDump
<1>17. ASSUME NEW c \in Cores, NEW d \in Cores, CpuOn(c, d) PROVE Stage(e)'
  BY <1>17 DEF CpuOn
<1>18. ASSUME NEW c \in Cores, CpuOff(c) PROVE Stage(e)'
  <2>1. vectors # "NULL" /\ pstate[c] = "ON" /\ c_rt_ctx[c] = "0"
    BY <1>18 DEF CpuOff, Hook, SpEntry
  <2>2. QED
    BY <1>18, <2>1 DEF CpuOff, Hook, SpEntry
<1>19. ASSUME NEW c \in Cores, CpuSuspend(c) PROVE Stage(e)'
  <2>1. vectors # "NULL" /\ pstate[c] = "ON" /\ c_rt_ctx[c] = "0"
    BY <1>19 DEF CpuSuspend, Hook, SpEntry
  <2>2. QED
    BY <1>19, <2>1 DEF CpuSuspend, Hook, SpEntry
<1>20. ASSUME NEW c \in Cores, CpuOnFinish(c) PROVE Stage(e)'
  <2>1. vectors # "NULL" /\ pstate[c] = "ON_PENDING"
    BY <1>20 DEF CpuOnFinish, InitSecureContext, SpEntry, Fresh
  <2>2. QED
    BY <1>20, <2>1 DEF CpuOnFinish, InitSecureContext, SpEntry, Fresh
<1>21. ASSUME NEW c \in Cores, CpuSuspendFinish(c) PROVE Stage(e)'
  <2>1. vectors # "NULL" /\ pstate[c] = "SUSPEND" /\ c_rt_ctx[c] = "0"
    BY <1>21 DEF CpuSuspendFinish, SpEntry
  <2>2. QED
    BY <1>21, <2>1 DEF CpuSuspendFinish, SpEntry
<1>22. ASSUME NEW c \in Cores, TkcoredInit(c) PROVE Stage(e)'
  BY <1>22 DEF TkcoredInit, SpEntry
<1>23. ASSUME NEW c \in Cores, PsciOff(c) PROVE Stage(e)'
  BY <1>23 DEF PsciOff, PowerDown, Lost, Leaves
<1>24. CASE WatchdogBites
  BY <1>24 DEF WatchdogBites, core
<1>25. CASE UNCHANGED vars
  BY <1>25 DEF vars, core
<1>26. QED
  BY <1>1, <1>2, <1>3, <1>4, <1>5, <1>6, <1>7, <1>8, <1>9, <1>10, <1>11, <1>12, <1>13, <1>14, <1>15, <1>16, <1>17, <1>18, <1>19, <1>20, <1>21, <1>22, <1>23, <1>24, <1>25
     DEF Next, Returns, Interrupts, Hooks

\* A synchronous call keeps its caller.
LEMMA CallerStep ==
    TypeOK /\ StageInv /\ ReturnsToCaller /\ [Next]_vars => ReturnsToCaller'
<1> SUFFICES ASSUME TypeOK, StageInv, ReturnsToCaller, [Next]_vars, NEW e \in Cores PROVE (c_rt_ctx[e] = IF at[e] = "secure" /\ elr[e] \in Synchronous THEN Caller[elr[e]] ELSE "0")'
  BY DEF ReturnsToCaller
<1>0. at \in [Cores -> Places] /\ elr \in [Cores -> Entries] /\ DOMAIN c_rt_ctx = Cores
  BY DEF TypeOK
<1> USE <1>0
<1> USE DEF StageInv, Stage, ReturnsToCaller, Caller, Synchronous, gic, Goto, Assert
<1>1. ASSUME NEW c \in Cores, NEW w \in Worlds, Runs(c, w) PROVE (c_rt_ctx[e] = IF at[e] = "secure" /\ elr[e] \in Synchronous THEN Caller[elr[e]] ELSE "0")'
  BY <1>1 DEF Runs
<1>2. ASSUME NEW c \in Cores, CallDone(c) PROVE (c_rt_ctx[e] = IF at[e] = "secure" /\ elr[e] \in Synchronous THEN Caller[elr[e]] ELSE "0")'
  BY <1>2 DEF CallDone, Leaves
<1>3. ASSUME NEW c \in Cores, FiqDone(c) PROVE (c_rt_ctx[e] = IF at[e] = "secure" /\ elr[e] \in Synchronous THEN Caller[elr[e]] ELSE "0")'
  BY <1>3 DEF FiqDone, Leaves
<1>4. ASSUME NEW c \in Cores, EntryDone(c) PROVE (c_rt_ctx[e] = IF at[e] = "secure" /\ elr[e] \in Synchronous THEN Caller[elr[e]] ELSE "0")'
  <2>1. vectors = "NULL"
    BY <1>4 DEF EntryDone, SpExit, Leaves
  <2>2. QED
    BY <1>4, <2>1 DEF EntryDone, SpExit, Leaves
<1>5. ASSUME NEW c \in Cores, OnDone(c) PROVE (c_rt_ctx[e] = IF at[e] = "secure" /\ elr[e] \in Synchronous THEN Caller[elr[e]] ELSE "0")'
  BY <1>5 DEF OnDone, SpExit, NormalWorldStarts, Fresh, Leaves
<1>6. ASSUME NEW c \in Cores, OffDone(c) PROVE (c_rt_ctx[e] = IF at[e] = "secure" /\ elr[e] \in Synchronous THEN Caller[elr[e]] ELSE "0")'
  BY <1>6 DEF OffDone, SpExit, Leaves
<1>7. ASSUME NEW c \in Cores, SuspendDone(c) PROVE (c_rt_ctx[e] = IF at[e] = "secure" /\ elr[e] \in Synchronous THEN Caller[elr[e]] ELSE "0")'
  BY <1>7 DEF SuspendDone, SpExit, PowerDown, Lost, Leaves
<1>8. ASSUME NEW c \in Cores, ResumeDone(c) PROVE (c_rt_ctx[e] = IF at[e] = "secure" /\ elr[e] \in Synchronous THEN Caller[elr[e]] ELSE "0")'
  BY <1>8 DEF ResumeDone, SpExit, NormalWorldStarts, Fresh, Leaves
<1>9. ASSUME NEW c \in Cores, Panics(c) PROVE (c_rt_ctx[e] = IF at[e] = "secure" /\ elr[e] \in Synchronous THEN Caller[elr[e]] ELSE "0")'
  BY <1>9 DEF Panics, SpExit, Leaves
<1>10. ASSUME NEW c \in Cores, SmcFromNormal(c) PROVE (c_rt_ctx[e] = IF at[e] = "secure" /\ elr[e] \in Synchronous THEN Caller[elr[e]] ELSE "0")'
  <2>1. CASE Enter(c, "fast_smc")
    BY <1>10, <2>1 DEF SmcFromNormal, Enter
  <2>2. CASE Enter(c, "std_smc")
    BY <1>10, <2>2 DEF SmcFromNormal, Enter
  <2>3. QED
    BY <1>10, <2>1, <2>2 DEF SmcFromNormal
<1>11. ASSUME NEW c \in Cores, SecureServiceRequest(c) PROVE (c_rt_ctx[e] = IF at[e] = "secure" /\ elr[e] \in Synchronous THEN Caller[elr[e]] ELSE "0")'
  BY <1>11 DEF SecureServiceRequest, PlatformDump, core
<1>12. ASSUME NEW c \in Cores, UnknownInterrupt(c) PROVE (c_rt_ctx[e] = IF at[e] = "secure" /\ elr[e] \in Synchronous THEN Caller[elr[e]] ELSE "0")'
  BY <1>12 DEF UnknownInterrupt, PlatformDump, Enter
<1>13. ASSUME NEW c \in Cores, SgiInterrupt(c) PROVE (c_rt_ctx[e] = IF at[e] = "secure" /\ elr[e] \in Synchronous THEN Caller[elr[e]] ELSE "0")'
  BY <1>13 DEF SgiInterrupt, core
<1>14. ASSUME NEW c \in Cores, WatchdogInterrupt(c) PROVE (c_rt_ctx[e] = IF at[e] = "secure" /\ elr[e] \in Synchronous THEN Caller[elr[e]] ELSE "0")'
  BY <1>14 DEF WatchdogInterrupt
<1>15. ASSUME NEW c \in Cores, Acknowledge(c) PROVE (c_rt_ctx[e] = IF at[e] = "secure" /\ elr[e] \in Synchronous THEN Caller[elr[e]] ELSE "0")'
  BY <1>15 DEF Acknowledge
<1>16. ASSUME NEW c \in Cores, EndOfInterrupt(c) PROVE (c_rt_ctx[e] = IF at[e] = "secure" /\ elr[e] \in Synchronous THEN Caller[elr[e]] ELSE "0")'
  BY <1>16 DEF EndOfInterrupt, PlatformDump
<1>17. ASSUME NEW c \in Cores, NEW d \in Cores, CpuOn(c, d) PROVE (c_rt_ctx[e] = IF at[e] = "secure" /\ elr[e] \in Synchronous THEN Caller[elr[e]] ELSE "0")'
  BY <1>17 DEF CpuOn
<1>18. ASSUME NEW c \in Cores, CpuOff(c) PROVE (c_rt_ctx[e] = IF at[e] = "secure" /\ elr[e] \in Synchronous THEN Caller[elr[e]] ELSE "0")'
  <2>1. vectors # "NULL" /\ pstate[c] = "ON" /\ c_rt_ctx[c] = "0"
    BY <1>18 DEF CpuOff, Hook, SpEntry
  <2>2. QED
    BY <1>18, <2>1 DEF CpuOff, Hook, SpEntry
<1>19. ASSUME NEW c \in Cores, CpuSuspend(c) PROVE (c_rt_ctx[e] = IF at[e] = "secure" /\ elr[e] \in Synchronous THEN Caller[elr[e]] ELSE "0")'
  <2>1. vectors # "NULL" /\ pstate[c] = "ON" /\ c_rt_ctx[c] = "0"
    BY <1>19 DEF CpuSuspend, Hook, SpEntry
  <2>2. QED
    BY <1>19, <2>1 DEF CpuSuspend, Hook, SpEntry
<1>20. ASSUME NEW c \in Cores, CpuOnFinish(c) PROVE (c_rt_ctx[e] = IF at[e] = "secure" /\ elr[e] \in Synchronous THEN Caller[elr[e]] ELSE "0")'
  <2>1. vectors # "NULL" /\ pstate[c] = "ON_PENDING"
    BY <1>20 DEF CpuOnFinish, InitSecureContext, SpEntry, Fresh
  <2>2. QED
    BY <1>20, <2>1 DEF CpuOnFinish, InitSecureContext, SpEntry, Fresh
<1>21. ASSUME NEW c \in Cores, CpuSuspendFinish(c) PROVE (c_rt_ctx[e] = IF at[e] = "secure" /\ elr[e] \in Synchronous THEN Caller[elr[e]] ELSE "0")'
  <2>1. vectors # "NULL" /\ pstate[c] = "SUSPEND" /\ c_rt_ctx[c] = "0"
    BY <1>21 DEF CpuSuspendFinish, SpEntry
  <2>2. QED
    BY <1>21, <2>1 DEF CpuSuspendFinish, SpEntry
<1>22. ASSUME NEW c \in Cores, TkcoredInit(c) PROVE (c_rt_ctx[e] = IF at[e] = "secure" /\ elr[e] \in Synchronous THEN Caller[elr[e]] ELSE "0")'
  BY <1>22 DEF TkcoredInit, SpEntry
<1>23. ASSUME NEW c \in Cores, PsciOff(c) PROVE (c_rt_ctx[e] = IF at[e] = "secure" /\ elr[e] \in Synchronous THEN Caller[elr[e]] ELSE "0")'
  BY <1>23 DEF PsciOff, PowerDown, Lost, Leaves
<1>24. CASE WatchdogBites
  BY <1>24 DEF WatchdogBites, core
<1>25. CASE UNCHANGED vars
  BY <1>25 DEF vars, core
<1>26. QED
  BY <1>1, <1>2, <1>3, <1>4, <1>5, <1>6, <1>7, <1>8, <1>9, <1>10, <1>11, <1>12, <1>13, <1>14, <1>15, <1>16, <1>17, <1>18, <1>19, <1>20, <1>21, <1>22, <1>23, <1>24, <1>25
     DEF Next, Returns, Interrupts, Hooks

\* Registers are where they belong.
LEMMA RegStep ==
    TypeOK /\ StageInv /\ ReturnsToCaller /\ RegInv /\ [Next]_vars => RegInv'
<1> SUFFICES ASSUME TypeOK, StageInv, ReturnsToCaller, RegInv, [Next]_vars, NEW e \in Cores PROVE RegistersOf(e)'
  BY DEF RegInv
<1> USE DEF TypeOK, StageInv, Stage, ReturnsToCaller, Caller, RegInv, RegistersOf, Left, Worlds, Synchronous, gic, Goto, Assert
<1>1. ASSUME NEW c \in Cores, NEW w \in Worlds, Runs(c, w) PROVE RegistersOf(e)'
  BY <1>1 DEF Runs
<1>2. ASSUME NEW c \in Cores, CallDone(c) PROVE RegistersOf(e)'
  BY <1>2 DEF CallDone, Leaves
<1>3. ASSUME NEW c \in Cores, FiqDone(c) PROVE RegistersOf(e)'
  BY <1>3 DEF FiqDone, Leaves
<1>4. ASSUME NEW c \in Cores, EntryDone(c) PROVE RegistersOf(e)'
  <2>1. vectors = "NULL"
    BY <1>4 DEF EntryDone, SpExit, Leaves
  <2>2. QED
    BY <1>4, <2>1 DEF EntryDone, SpExit, Leaves
<1>5. ASSUME NEW c \in Cores, OnDone(c) PROVE RegistersOf(e)'
  BY <1>5 DEF OnDone, SpExit, NormalWorldStarts, Fresh, Leaves
<1>6. ASSUME NEW c \in Cores, OffDone(c) PROVE RegistersOf(e)'
  BY <1>6 DEF OffDone, SpExit, Leaves
<1>7. ASSUME NEW c \in Cores, SuspendDone(c) PROVE RegistersOf(e)'
  BY <1>7 DEF SuspendDone, SpExit, PowerDown, Lost, Leaves
<1>8. ASSUME NEW c \in Cores, ResumeDone(c) PROVE RegistersOf(e)'
  BY <1>8 DEF ResumeDone, SpExit, NormalWorldStarts, Fresh, Leaves
<1>9. ASSUME NEW c \in Cores, Panics(c) PROVE RegistersOf(e)'
  BY <1>9 DEF Panics, SpExit, Leaves
<1>10. ASSUME NEW c \in Cores, SmcFromNormal(c) PROVE RegistersOf(e)'
  <2>1. CASE Enter(c, "fast_smc")
    BY <1>10, <2>1 DEF SmcFromNormal, Enter
  <2>2. CASE Enter(c, "std_smc")
    BY <1>10, <2>2 DEF SmcFromNormal, Enter
  <2>3. QED
    BY <1>10, <2>1, <2>2 DEF SmcFromNormal
<1>11. ASSUME NEW c \in Cores, SecureServiceRequest(c) PROVE RegistersOf(e)'
  BY <1>11 DEF SecureServiceRequest, PlatformDump, core
<1>12. ASSUME NEW c \in Cores, UnknownInterrupt(c) PROVE RegistersOf(e)'
  BY <1>12 DEF UnknownInterrupt, PlatformDump, Enter
<1>13. ASSUME NEW c \in Cores, SgiInterrupt(c) PROVE RegistersOf(e)'
  BY <1>13 DEF SgiInterrupt, core
<1>14. ASSUME NEW c \in Cores, WatchdogInterrupt(c) PROVE RegistersOf(e)'
  BY <1>14 DEF WatchdogInterrupt
<1>15. ASSUME NEW c \in Cores, Acknowledge(c) PROVE RegistersOf(e)'
  BY <1>15 DEF Acknowledge
<1>16. ASSUME NEW c \in Cores, EndOfInterrupt(c) PROVE RegistersOf(e)'
  BY <1>16 DEF EndOfInterrupt, PlatformDump
<1>17. ASSUME NEW c \in Cores, NEW d \in Cores, CpuOn(c, d) PROVE RegistersOf(e)'
  BY <1>17 DEF CpuOn
<1>18. ASSUME NEW c \in Cores, CpuOff(c) PROVE RegistersOf(e)'
  <2>1. vectors # "NULL" /\ pstate[c] = "ON" /\ c_rt_ctx[c] = "0"
    BY <1>18 DEF CpuOff, Hook, SpEntry
  <2>2. QED
    BY <1>18, <2>1 DEF CpuOff, Hook, SpEntry
<1>19. ASSUME NEW c \in Cores, CpuSuspend(c) PROVE RegistersOf(e)'
  <2>1. vectors # "NULL" /\ pstate[c] = "ON" /\ c_rt_ctx[c] = "0"
    BY <1>19 DEF CpuSuspend, Hook, SpEntry
  <2>2. QED
    BY <1>19, <2>1 DEF CpuSuspend, Hook, SpEntry
<1>20. ASSUME NEW c \in Cores, CpuOnFinish(c) PROVE RegistersOf(e)'
  <2>1. vectors # "NULL" /\ pstate[c] = "ON_PENDING"
    BY <1>20 DEF CpuOnFinish, InitSecureContext, SpEntry, Fresh
  <2>2. QED
    BY <1>20, <2>1 DEF CpuOnFinish, InitSecureContext, SpEntry, Fresh
<1>21. ASSUME NEW c \in Cores, CpuSuspendFinish(c) PROVE RegistersOf(e)'
  <2>1. vectors # "NULL" /\ pstate[c] = "SUSPEND" /\ c_rt_ctx[c] = "0"
    BY <1>21 DEF CpuSuspendFinish, SpEntry
  <2>2. QED
    BY <1>21, <2>1 DEF CpuSuspendFinish, SpEntry
<1>22. ASSUME NEW c \in Cores, TkcoredInit(c) PROVE RegistersOf(e)'
  BY <1>22 DEF TkcoredInit, SpEntry
<1>23. ASSUME NEW c \in Cores, PsciOff(c) PROVE RegistersOf(e)'
  BY <1>23 DEF PsciOff, PowerDown, Lost, Leaves
<1>24. CASE WatchdogBites
  BY <1>24 DEF WatchdogBites, core
<1>25. CASE UNCHANGED vars
  BY <1>25 DEF vars, core
<1>26. QED
  BY <1>1, <1>2, <1>3, <1>4, <1>5, <1>6, <1>7, <1>8, <1>9, <1>10, <1>11, <1>12, <1>13, <1>14, <1>15, <1>16, <1>17, <1>18, <1>19, <1>20, <1>21, <1>22, <1>23, <1>24, <1>25
     DEF Next, Returns, Interrupts, Hooks

\* One core dumps.
LEMMA DumpStep ==
    TypeOK /\ DumpInv /\ [Next]_vars => DumpInv'
<1> SUFFICES ASSUME TypeOK, DumpInv, [Next]_vars PROVE DumpInv'
  OBVIOUS
<1>0. at \in [Cores -> Places]
  BY DEF TypeOK
<1> USE <1>0
<1> USE DEF DumpInv, OneCoreDumps, gic, Goto, Assert
<1>1. ASSUME NEW c \in Cores, NEW w \in Worlds, Runs(c, w) PROVE DumpInv'
  BY <1>1 DEF Runs
<1>2. ASSUME NEW c \in Cores, CallDone(c) PROVE DumpInv'
  BY <1>2 DEF CallDone, Leaves
<1>3. ASSUME NEW c \in Cores, FiqDone(c) PROVE DumpInv'
  BY <1>3 DEF FiqDone, Leaves
<1>4. ASSUME NEW c \in Cores, EntryDone(c) PROVE DumpInv'
  BY <1>4 DEF EntryDone, SpExit, Synchronous, Leaves
<1>5. ASSUME NEW c \in Cores, OnDone(c) PROVE DumpInv'
  BY <1>5 DEF OnDone, SpExit, NormalWorldStarts, Synchronous, Fresh, Leaves
<1>6. ASSUME NEW c \in Cores, OffDone(c) PROVE DumpInv'
  BY <1>6 DEF OffDone, SpExit, Synchronous, Leaves
<1>7. ASSUME NEW c \in Cores, SuspendDone(c) PROVE DumpInv'
  BY <1>7 DEF SuspendDone, SpExit, PowerDown, Synchronous, Lost, Leaves
<1>8. ASSUME NEW c \in Cores, ResumeDone(c) PROVE DumpInv'
  BY <1>8 DEF ResumeDone, SpExit, NormalWorldStarts, Synchronous, Fresh, Leaves
<1>9. ASSUME NEW c \in Cores, Panics(c) PROVE DumpInv'
  BY <1>9 DEF Panics, SpExit, Synchronous, Leaves
<1>10. ASSUME NEW c \in Cores, SmcFromNormal(c) PROVE DumpInv'
  <2>1. CASE Enter(c, "fast_smc")
    BY <1>10, <2>1 DEF SmcFromNormal, Enter
  <2>2. CASE Enter(c, "std_smc")
    BY <1>10, <2>2 DEF SmcFromNormal, Enter
  <2>3. QED
    BY <1>10, <2>1, <2>2 DEF SmcFromNormal
<1>11. ASSUME NEW c \in Cores, SecureServiceRequest(c) PROVE DumpInv'
  BY <1>11 DEF SecureServiceRequest, PlatformDump, core
<1>12. ASSUME NEW c \in Cores, UnknownInterrupt(c) PROVE DumpInv'
  BY <1>12 DEF UnknownInterrupt, PlatformDump, Enter
<1>13. ASSUME NEW c \in Cores, SgiInterrupt(c) PROVE DumpInv'
  BY <1>13 DEF SgiInterrupt, core
<1>14. ASSUME NEW c \in Cores, WatchdogInterrupt(c) PROVE DumpInv'
  BY <1>14 DEF WatchdogInterrupt
<1>15. ASSUME NEW c \in Cores, Acknowledge(c) PROVE DumpInv'
  BY <1>15 DEF Acknowledge
<1>16. ASSUME NEW c \in Cores, EndOfInterrupt(c) PROVE DumpInv'
  BY <1>16 DEF EndOfInterrupt, PlatformDump
<1>17. ASSUME NEW c \in Cores, NEW d \in Cores, CpuOn(c, d) PROVE DumpInv'
  BY <1>17 DEF CpuOn
<1>18. ASSUME NEW c \in Cores, CpuOff(c) PROVE DumpInv'
  BY <1>18 DEF CpuOff, Hook, SpEntry
<1>19. ASSUME NEW c \in Cores, CpuSuspend(c) PROVE DumpInv'
  BY <1>19 DEF CpuSuspend, Hook, SpEntry
<1>20. ASSUME NEW c \in Cores, CpuOnFinish(c) PROVE DumpInv'
  BY <1>20 DEF CpuOnFinish, InitSecureContext, SpEntry, Fresh
<1>21. ASSUME NEW c \in Cores, CpuSuspendFinish(c) PROVE DumpInv'
  BY <1>21 DEF CpuSuspendFinish, SpEntry
<1>22. ASSUME NEW c \in Cores, TkcoredInit(c) PROVE DumpInv'
  BY <1>22 DEF TkcoredInit, SpEntry
<1>23. ASSUME NEW c \in Cores, PsciOff(c) PROVE DumpInv'
  BY <1>23 DEF PsciOff, PowerDown, Lost, Leaves
<1>24. CASE WatchdogBites
  BY <1>24 DEF WatchdogBites, core
<1>25. CASE UNCHANGED vars
  BY <1>25 DEF vars, core
<1>26. QED
  BY <1>1, <1>2, <1>3, <1>4, <1>5, <1>6, <1>7, <1>8, <1>9, <1>10, <1>11, <1>12, <1>13, <1>14, <1>15, <1>16, <1>17, <1>18, <1>19, <1>20, <1>21, <1>22, <1>23, <1>24, <1>25
     DEF Next, Returns, Interrupts, Hooks

\* tkcored_setup leaves the dispatcher in a state of the invariant.
LEMMA InitInv == Init => IInv
<1> SUFFICES ASSUME Init PROVE IInv
  OBVIOUS
<1> USE TkcoredAssumption DEF Init
<1>1. TypeOK
  BY DEF TypeOK, Registers, Worlds, Entries, Places, Synchronous, Lost, Fresh
<1>2. StageInv
  BY DEF StageInv, Stage
<1>3. ReturnsToCaller
  BY DEF ReturnsToCaller, Caller, Synchronous
<1>4. RegInv
  BY DEF RegInv, RegistersOf, Left, Worlds, Fresh
<1>5. DumpInv
  BY DEF DumpInv, OneCoreDumps
<1>6. QED
  BY <1>1, <1>2, <1>3, <1>4, <1>5 DEF IInv

\* The invariant of the dispatcher holds in every reachable state.
THEOREM Inductive == Spec => []IInv
<1>1. IInv /\ [Next]_vars => IInv'
  BY TypeStep, StageStep, CallerStep, RegStep, DumpStep DEF IInv
<1>2. QED
  BY InitInv, <1>1, PTL DEF Spec

\* Where a core stands decides what it finds in its registers: neither world
\* sees what the other wrote, over any number of calls, interrupts and
\* suspensions (tkcored_smc_handler, tkcored_sel1_interrupt_handler).
THEOREM RegistersAreKept == Spec => []RegistersSurvive
<1>1. IInv => RegistersSurvive
  BY DEF IInv, RegInv, RegistersOf, Left, RegistersSurvive, Worlds
<1>2. QED
  BY Inductive, <1>1, PTL

\* An SMC of the normal world never meets a core without the Trusted OS, and no
\* assertion of tkcored_pm.c or of the entry handshake fails.
THEOREM SmcFindsTkcore == Spec => []NormalWorldHasTkcore
<1>1. IInv => AssertionsHold
  BY DEF IInv, StageInv, Stage, AssertionsHold
<1>2. IInv => NormalWorldHasTkcore
  BY <1>1 DEF IInv, StageInv, Stage, NormalWorldHasTkcore
<1>3. QED
  BY Inductive, <1>2, PTL

\* tkcored_synchronous_sp_exit returns to the function that entered.
THEOREM SynchronousReturns == Spec => []ReturnsToCaller
<1>1. IInv => ReturnsToCaller
  BY DEF IInv
<1>2. QED
  BY Inductive, <1>1, PTL

\* At most one core handles the watchdog interrupt.
THEOREM WatchdogOnce == Spec => []OneCoreDumps
<1>1. IInv => OneCoreDumps
  BY DEF IInv, DumpInv
<1>2. QED
  BY Inductive, <1>1, PTL
=============================================================================
