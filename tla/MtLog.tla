--------------------------------- MODULE MtLog ---------------------------------
(***************************************************************************)
(* The monitor's own log and what a reset leaves of it:                    *)
(* plat/mediatek/common/log.c.                                             *)
(*                                                                         *)
(* The log is a region of memory that survives a reset:                    *)
(*   |--- Ctrl ---|--- Ring Buffer ---|--- Crash Log ---| ...              *)
(* mt_log_setup runs at every boot.  After an abnormal reset it first      *)
(* copies the end of the ring into the crash log, so it works on what an   *)
(* interrupted boot has left: a reset can come between two bytes of that   *)
(* copy, and inside a memset.  A byte is its number in its boot's log.     *)
(***************************************************************************)
EXTENDS Integers

CONSTANTS
    atf_buf_size,     \* the size of the ring
    crash_log_size,   \* ATF_CRASH_LAST_LOG_SIZE
    ThresholdSize,    \* ATF_LOG_SIGNAL_THRESHOLD_SIZE
    MaxBytes,         \* bound: bytes a boot writes
    MaxBoots          \* bound: boots

ASSUME MtLogAssumption ==
    /\ atf_buf_size \in Nat \ {0} /\ crash_log_size \in Nat
    /\ MaxBytes \in Nat /\ MaxBoots \in Nat \ {0}

VARIABLES
    mem,              \* ring and crash log, cell by cell
    ctrl,             \* the control block
    setup,            \* where mt_log_setup stands
    boots,            \* the boots so far
    torn              \* history: a reset came inside a memset, and none was
                      \* finished since

vars == <<mem, ctrl, setup, boots, torn>>

Cells == 0..(atf_buf_size + crash_log_size - 1)
CrashCells == atf_buf_size..(atf_buf_size + crash_log_size - 1)
Cleared == 0
Byte(boot, n) == boot * (MaxBytes + 1) + n

\* memset(.., 0, ..); addrs is whether the addresses and sizes are set
ClearCtrl == [flag |-> "none", addrs |-> FALSE, write_pos |-> 0, read_pos |-> 0,
              total |-> 0, unread |-> 0, irqs |-> 0, reader_alive |-> FALSE]

Init ==
    /\ mem = [i \in Cells |-> Cleared]
    /\ ctrl = ClearCtrl
    /\ setup = [at |-> "begin", abnormal |-> FALSE, flag |-> "none", dumped |-> 0]
    /\ boots = 1 /\ torn = FALSE

-----------------------------------------------------------------------------
(* mt_log_setup *)

At(s) == setup.at = s
Goto(s) == setup' = [setup EXCEPT !.at = s]

\* A clean boot, or one after the crash log was collected, clears everything.
SetupClean ==
    /\ At("begin")
    /\ ~setup.abnormal \/ ctrl.flag = "done"
    /\ mem' = [i \in Cells |-> Cleared]
    /\ ctrl' = [ClearCtrl EXCEPT !.flag = "last"]
    /\ Goto("rest") /\ torn' = FALSE
    /\ UNCHANGED boots

\* mt_crash_log_dump_sanity
Sane ==
    /\ ctrl.flag \in {"last", "crash"} /\ ctrl.addrs
    /\ ctrl.write_pos <= atf_buf_size /\ ctrl.read_pos <= atf_buf_size

ReadCount == IF ctrl.total > crash_log_size THEN crash_log_size ELSE ctrl.total

\* The log is left alone for a raw dump, and is not used.
SetupRaw ==
    /\ At("begin") /\ setup.abnormal /\ ctrl.flag # "done"
    /\ ~Sane \/ ReadCount = 0
    /\ Goto("off")
    /\ UNCHANGED <<mem, ctrl, boots, torn>>

\* Or it is copied.
SetupSane ==
    /\ At("begin") /\ setup.abnormal /\ ctrl.flag # "done"
    /\ Sane /\ ReadCount # 0
    /\ Goto("dump")
    /\ UNCHANGED <<mem, ctrl, boots, torn>>

\* Mutant: behind the first cell the copy goes on in the crash log.
RPtr_NoRing(k) ==
    IF ctrl.write_pos >= k THEN ctrl.write_pos - k
    ELSE atf_buf_size + crash_log_size - (k - ctrl.write_pos)
\* Where the copy reads after k steps back: from the cell to be written next,
\* and on from mt_log_buf_end, the last cell of the ring.
RPtr(k) == IF ctrl.write_pos >= k THEN ctrl.write_pos - k
           ELSE atf_buf_size - (k - ctrl.write_pos)

\* mt_crash_log_dump: one byte of the copy, which goes backwards
SetupDump ==
    /\ At("dump")
    /\ LET k == setup.dumped
       IN  /\ mem' = [mem EXCEPT ![atf_buf_size + ReadCount - 1 - k] = mem[RPtr(k)]]
           /\ setup' = [setup EXCEPT !.at = IF k + 1 = ReadCount THEN "clear" ELSE "dump",
                                     !.flag = ctrl.flag, !.dumped = k + 1]
    /\ UNCHANGED <<ctrl, boots, torn>>

\* Mutant: the ring is cleared with a size too large.
Kept_Less == CrashCells \ {atf_buf_size + 1}
Kept == CrashCells
\* The control block and the ring are cleared; the crash log is kept.
SetupClear ==
    /\ At("clear")
    /\ mem' = [i \in Cells |-> IF i \in Kept THEN mem[i] ELSE Cleared]
    /\ ctrl' = ClearCtrl
    /\ Goto("flag") /\ torn' = FALSE
    /\ UNCHANGED boots

SetupFlag ==
    /\ At("flag")
    /\ ctrl' = [ctrl EXCEPT !.flag = setup.flag]
    /\ Goto("rest")
    /\ UNCHANGED <<mem, boots, torn>>

\* The addresses are set and the service is registered.
SetupRest ==
    /\ At("rest")
    /\ ctrl' = [ctrl EXCEPT !.addrs = TRUE, !.write_pos = 0, !.read_pos = 0]
    /\ Goto("on")
    /\ UNCHANGED <<mem, boots, torn>>

-----------------------------------------------------------------------------
(* The registered service *)

\* mt_get_unread_log_size
Unread(w, r) == IF w >= r THEN w - r ELSE w + atf_buf_size - r

\* mt_log_lock_acquire, mt_log_write of one byte, mt_log_lock_release
mt_log_write ==
    /\ At("on") /\ ctrl.total < MaxBytes
    /\ LET w == IF ctrl.write_pos < atf_buf_size THEN ctrl.write_pos + 1 ELSE 0
           unread == Unread(w, ctrl.read_pos)
       IN  /\ mem' = [mem EXCEPT ![ctrl.write_pos] = Byte(boots, ctrl.total + 1)]
           /\ ctrl' = [ctrl EXCEPT !.write_pos = w, !.total = @ + 1, !.unread = unread,
                  !.irqs = IF unread >= ThresholdSize /\ ctrl.reader_alive THEN 1 ELSE @]
    /\ UNCHANGED <<setup, boots, torn>>

\* The driver of the normal world takes what there is.
ReaderTakes ==
    /\ At("on")
    /\ ctrl' = [ctrl EXCEPT !.read_pos = ctrl.write_pos, !.reader_alive = TRUE, !.irqs = 0]
    /\ UNCHANGED <<mem, setup, boots, torn>>

mt_log_set_crash_flag ==
    /\ At("on")
    /\ ctrl' = [ctrl EXCEPT !.flag = "crash"]
    /\ UNCHANGED <<mem, setup, boots, torn>>

\* The crash log was collected, through ptr_atf_crash_flag.
DumpDone ==
    /\ At("on") \/ At("off")
    /\ ctrl' = [ctrl EXCEPT !.flag = "done"]
    /\ UNCHANGED <<mem, setup, boots, torn>>

Boot ==
    /\ boots < MaxBoots
    /\ boots' = boots + 1
    /\ \E a \in BOOLEAN :
          setup' = [at |-> "begin", abnormal |-> a, flag |-> "none", dumped |-> 0]

\* A reset between two steps; memory is kept.
Reset == Boot /\ UNCHANGED <<mem, ctrl, torn>>

\* What a memset that was interrupted leaves: it goes upwards from the control
\* block, whose layout is not in the repository, through the ring to the end.
\* The fields that nobody reads after a reset count as cleared.
Fields == {"flag", "addrs", "write_pos", "read_pos", "total"}
PartOf(cells) ==
    \/ /\ \E S \in SUBSET Fields :
             ctrl' = [f \in DOMAIN ctrl |-> IF f \in S THEN ctrl[f] ELSE ClearCtrl[f]]
       /\ UNCHANGED mem
    \/ /\ ctrl' = ClearCtrl
       /\ \E n \in cells :
             mem' = [i \in Cells |-> IF i \in cells /\ i <= n THEN Cleared ELSE mem[i]]

\* A reset inside the memset of a clean boot, or inside the one after a copy.
ResetInClean ==
    /\ At("begin") /\ (~setup.abnormal \/ ctrl.flag = "done")
    /\ PartOf(Cells) /\ Boot /\ torn' = TRUE
ResetInClear ==
    /\ At("clear")
    /\ PartOf(Cells \ Kept) /\ Boot /\ torn' = TRUE

Setup ==
    \/ SetupClean \/ SetupRaw \/ SetupSane \/ SetupDump \/ SetupClear \/ SetupFlag \/ SetupRest
Next ==
    \/ Setup \/ mt_log_write \/ ReaderTakes \/ mt_log_set_crash_flag \/ DumpDone
    \/ Reset \/ ResetInClean \/ ResetInClear

Spec == Init /\ [][Next]_vars

-----------------------------------------------------------------------------
(* Properties *)

TypeOK ==
    /\ mem \in [Cells -> 0..Byte(MaxBoots + 1, 0)]
    /\ ctrl.flag \in {"none", "last", "crash", "done"}
    /\ ctrl.write_pos \in 0..atf_buf_size /\ ctrl.read_pos \in 0..atf_buf_size
    /\ setup.at \in {"begin", "dump", "clear", "flag", "rest", "on", "off"} /\ torn \in BOOLEAN

\* The crash log holds the end of the log in order, down to the last byte:
\* below its last cell, which is the one that would have been written next,
\* the bytes count down to 1 by one, or by two once, at the byte that
\* mt_log_write had put behind the ring.
TailIsCopied ==
    LET d == [k \in 1..(setup.dumped - 1) |-> mem[atf_buf_size + setup.dumped - 1 - k]]
        gaps == {k \in 1..(setup.dumped - 2) : d[k] # d[k + 1] + 1}
        total == ctrl.total
    IN  /\ \A k \in gaps : d[k] = d[k + 1] + 2
        /\ \A j, k \in gaps : j = k
        /\ setup.dumped > 1 => d[1] % (MaxBytes + 1) \in {total, total - 1}
        /\ setup.dumped > 1 /\ d[1] % (MaxBytes + 1) # total => gaps = {}

\* When mt_crash_log_dump is done, it has copied the end of the log, also when
\* resets have interrupted earlier copies; unless the last reset came inside a
\* memset, which can have cleared the write position and left the rest.
CrashLogIsTheTail == TypeOK /\ (At("clear") /\ ~torn => TailIsCopied)

\* Without the exception; MtLogFirst.cfg refutes it.
DumpsAreTails == At("clear") => TailIsCopied

\* Between two abnormal resets nothing but the copy of a new log changes the
\* crash log, except its first cell; nor does a reset inside a step.
CrashLogIsKept ==
    [][\A i \in CrashCells \ {atf_buf_size} :
          mem'[i] # mem[i] => SetupClean \/ ResetInClean \/ SetupDump]_vars

\* Nor its first cell (the layout in log.c:116-119: "Crash Log ... keep").
CrashLogIsAllKept ==
    [][\A i \in CrashCells :
          mem'[i] # mem[i] => SetupClean \/ ResetInClean \/ SetupDump]_vars
=============================================================================
