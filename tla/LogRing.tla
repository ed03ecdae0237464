------------------------------- MODULE LogRing -------------------------------
(***************************************************************************)
(* The way of the trusted OS's log to user space: core/tee_procfs.c.       *)
(*                                                                         *)
(* The trusted OS writes into a ring shared with the driver and counts its *)
(* bytes in tee_write_seq.  The kernel thread logd copies what is new into *)
(* a second ring, tee_log_area, and counts it in tee_read_seq; readers of  *)
(* /proc/tkcore/tkcore_log take it from there.  logd takes no lock: it     *)
(* reads klog_tail once and writes it back when it overruns the readers,   *)
(* who exchange klog_tail under log_mutex.                                 *)
(*                                                                         *)
(* A byte is its number in the log.  A step is one copy of memory, or one  *)
(* access to a shared word with the local work that follows.               *)
(***************************************************************************)
EXTENDS Integers, Sequences, FiniteSets

CONSTANTS
    Readers,
    None,
    TeeLogLen,      \* tee_log_len, the length of the trusted OS's ring
    LogAreaSize,    \* LOG_AREA_SIZE
    Chunks,         \* the lengths of what the trusted OS writes at once
    Counts,         \* the lengths of the readers' buffers
    NoticeLen,      \* the length of the notice of lost bytes
    MaxSeq          \* bound: the bytes the trusted OS ever writes

LogAssumption ==
    /\ TeeLogLen \in Nat \ {0} /\ LogAreaSize \in Nat \ {0}
    /\ Chunks \subseteq Nat /\ Counts \subseteq Nat /\ NoticeLen \in Nat
    /\ None \notin Readers

VARIABLES
    tee_write_seq, tee_read_seq, \* of the control block shared with the trusted OS
    log_wakeup,
    logd,           \* where logd stands, and its locals
    tee_log_area, klog_head, klog_tail,
    tee_proc_enable_log,
    log_mutex,      \* the reader that holds it
    rd,             \* where each reader stands, and its locals
    seen,           \* every byte before this one was delivered or is lost
    loss            \* what has happened to the stream so far

shared == <<tee_write_seq, tee_read_seq>>
klog == <<tee_log_area, klog_head, klog_tail>>
vars == <<shared, log_wakeup, logd, klog, tee_proc_enable_log, log_mutex, rd, seen, loss>>

Pos == 0..(LogAreaSize - 1)
NoByte == -1

Init ==
    /\ tee_write_seq = 0 /\ tee_read_seq = 0
    /\ log_wakeup = 0
    /\ logd = [pc |-> "test", rseq |-> 0, wseq |-> 0, head |-> 0, tail |-> 0,
               new_tail |-> 0, buf |-> <<>>]
    /\ tee_log_area = [i \in Pos |-> NoByte]
    /\ klog_head = 0 /\ klog_tail = 0
    /\ tee_proc_enable_log = TRUE
    /\ log_mutex = None
    /\ rd = [r \in Readers |-> [pc |-> "idle", count |-> 0, head |-> 0, tail |-> 0,
                                kbuf |-> <<>>]]
    /\ seen = 0
    /\ loss = {}

-----------------------------------------------------------------------------
(* The trusted OS and its interrupt *)

TeeWrites ==
    /\ \E n \in Chunks : /\ tee_write_seq + n <= MaxSeq
                         /\ tee_write_seq' = tee_write_seq + n
    /\ UNCHANGED <<tee_read_seq, log_wakeup, logd, klog, tee_proc_enable_log, log_mutex,
                   rd, seen, loss>>

\* tkcore_log_irq_handler
LogIrq ==
    /\ log_wakeup' = 1
    /\ UNCHANGED <<shared, logd, klog, tee_proc_enable_log, log_mutex, rd, seen, loss>>

\* What the ring holds at an index: the last byte written there.
TeeByte(i) ==
    LET there == {b \in 0..(tee_write_seq - 1) : b % TeeLogLen = i}
    IN  CHOOSE b \in there : \A c \in there : c <= b
log_seq2idx(seq) == seq % TeeLogLen

-----------------------------------------------------------------------------
(* logd *)

\* The numbers are compared; while they are equal they are read again before
\* the thread sleeps.
LogdTest ==
    /\ logd.pc = "test"
    /\ logd' = IF logd.rseq = logd.wseq
               THEN [logd EXCEPT !.pc = "wait", !.rseq = tee_read_seq, !.wseq = tee_write_seq]
               ELSE [logd EXCEPT !.pc = "take"]
    /\ UNCHANGED <<shared, log_wakeup, klog, tee_proc_enable_log, log_mutex, rd, seen, loss>>

\* Mutant: the wait has no timeout.
LogdWait_NoTimeout ==
    /\ logd.pc = "wait" /\ log_wakeup # 0
    /\ logd' = [logd EXCEPT !.pc = "test"]
    /\ log_wakeup' = 0
    /\ UNCHANGED <<shared, klog, tee_proc_enable_log, log_mutex, rd, seen, loss>>
\* The sleep ends with a wake-up or after TEE_LOG_TIMEOUT_MS.
LogdWait ==
    /\ logd.pc = "wait"
    /\ logd' = [logd EXCEPT !.pc = "test"]
    /\ log_wakeup' = 0
    /\ UNCHANGED <<shared, klog, tee_proc_enable_log, log_mutex, rd, seen, loss>>

\* ring_buffer_on_segment: does [start, start + count] reach the point?
ring_buffer_on_segment(start, count, point) ==
    IF point > start THEN point - start <= count
    ELSE LET end == (start + count) % LogAreaSize IN end < start /\ end >= point

adjust_klog_tail(head, tail, count) ==
    IF ring_buffer_on_segment(head, count, tail)
    THEN (head + count + 1) % LogAreaSize ELSE tail

Used(head, tail) == (head + LogAreaSize - tail) % LogAreaSize
\* logd writes over bytes the readers have not taken.
Overruns(l) == Used(l.head, l.tail) + Len(l.buf) >= LogAreaSize
Reading(r) == rd[r].pc \in {"copy", "swap"}

\* The oldest byte to copy: an overflow of the trusted OS's ring is "fixed",
\* and what does not fit into the readers' ring is cut.
FirstWanted ==
    LET rseq == IF logd.wseq - logd.rseq > TeeLogLen THEN logd.wseq - TeeLogLen
                ELSE logd.rseq
    IN  IF logd.wseq - rseq > LogAreaSize THEN logd.wseq - LogAreaSize ELSE rseq

\* head and tail are read, the new bytes are copied to tee_log_buf, and the
\* tail that will be written is computed from them.
LogdTake ==
    /\ logd.pc = "take"
    /\ LET first == FirstWanted
           count == logd.wseq - first
           buf == [k \in 1..count |-> TeeByte(log_seq2idx(first + k - 1))]
           l == [logd EXCEPT !.pc = "store", !.buf = buf,
                    !.head = klog_head, !.tail = klog_tail,
                    !.new_tail = adjust_klog_tail(klog_head, klog_tail, count)]
       IN  /\ logd' = l
           /\ loss' = loss
                \cup (IF first > logd.rseq THEN {"gap"} ELSE {})
                \cup (IF tee_write_seq - first > TeeLogLen THEN {"lapped"} ELSE {})
                \cup (IF Overruns(l) THEN {"overrun"} ELSE {})
                \cup (IF Overruns(l) /\ \E r \in Readers : Reading(r) THEN {"overlap"} ELSE {})
    /\ UNCHANGED <<shared, log_wakeup, klog, tee_proc_enable_log, log_mutex, rd, seen>>

\* tee_log_buf is copied into the readers' ring ...
LogdStore ==
    /\ logd.pc = "store"
    /\ tee_log_area' = [i \in Pos |->
            LET k == (i + LogAreaSize - logd.head) % LogAreaSize
            IN  IF k < Len(logd.buf) THEN logd.buf[k + 1] ELSE tee_log_area[i]]
    /\ logd' = [logd EXCEPT !.pc = "tail"]
    /\ UNCHANGED <<shared, log_wakeup, klog_head, klog_tail, tee_proc_enable_log, log_mutex,
                   rd, seen, loss>>

\* ... then the tail is written if it has to move ...
LogdTail ==
    /\ logd.pc = "tail"
    /\ klog_tail' = IF logd.new_tail # logd.tail THEN logd.new_tail ELSE klog_tail
    /\ logd' = [logd EXCEPT !.pc = "head"]
    /\ UNCHANGED <<shared, log_wakeup, tee_log_area, klog_head, tee_proc_enable_log,
                   log_mutex, rd, seen, loss>>

\* ... and then the head.
LogdHead ==
    /\ logd.pc = "head"
    /\ klog_head' = (logd.head + Len(logd.buf)) % LogAreaSize
    /\ logd' = [logd EXCEPT !.pc = "ack"]
    /\ UNCHANGED <<shared, log_wakeup, tee_log_area, klog_tail, tee_proc_enable_log,
                   log_mutex, rd, seen, loss>>

\* The trusted OS is told, and the numbers are read again.
LogdAck ==
    /\ logd.pc = "ack"
    /\ tee_read_seq' = logd.wseq
    /\ logd' = [logd EXCEPT !.pc = "test", !.rseq = logd.wseq, !.wseq = tee_write_seq,
                            !.buf = <<>>, !.head = 0, !.tail = 0, !.new_tail = 0]
    /\ UNCHANGED <<tee_write_seq, log_wakeup, klog, tee_proc_enable_log, log_mutex, rd, seen,
                   loss>>

Logd == LogdTest \/ LogdWait \/ LogdTake \/ LogdStore \/ LogdTail \/ LogdHead \/ LogdAck

-----------------------------------------------------------------------------
(* tee_log_read and tee_log_write *)

\* A read begins; kmalloc has no memory: the read never begins.
ReadStart(r) ==
    /\ rd[r].pc = "idle"
    /\ \E n \in Counts : rd' = [rd EXCEPT ![r].pc = "lock", ![r].count = n]
    /\ UNCHANGED <<shared, log_wakeup, logd, klog, tee_proc_enable_log, log_mutex, seen, loss>>

\* Mutant: the lock is taken from whoever holds it.
Lock_Shared(r) ==
    /\ rd[r].pc = "lock"
    /\ log_mutex' = r
    /\ rd' = [rd EXCEPT ![r].pc = "look"]
    /\ UNCHANGED <<shared, log_wakeup, logd, klog, tee_proc_enable_log, seen, loss>>
\* tee_log_lock, at the beginning and after a sleep.
Lock(r) ==
    /\ rd[r].pc = "lock" /\ log_mutex = None
    /\ log_mutex' = r
    /\ rd' = [rd EXCEPT ![r].pc = "look"]
    /\ UNCHANGED <<shared, log_wakeup, logd, klog, tee_proc_enable_log, seen, loss>>

Idle == [pc |-> "idle", count |-> 0, head |-> 0, tail |-> 0, kbuf |-> <<>>]

\* O_NONBLOCK returns -EAGAIN whatever there is to read, and a pending signal
\* returns -EINTR.
GiveUp(r) ==
    /\ rd[r].pc = "look"
    /\ rd' = [rd EXCEPT ![r] = Idle]
    /\ log_mutex' = None
    /\ UNCHANGED <<shared, log_wakeup, logd, klog, tee_proc_enable_log, seen, loss>>

\* klog_head and klog_tail are read, and the reader goes on ...
LookFinds(r) ==
    /\ rd[r].pc = "look"
    /\ tee_proc_enable_log /\ klog_head # klog_tail
    /\ rd' = [rd EXCEPT ![r].pc = "copy", ![r].head = klog_head, ![r].tail = klog_tail]
    /\ loss' = loss \cup (IF logd.pc \in {"store", "tail"} /\ Overruns(logd)
                          THEN {"overlap"} ELSE {})
    /\ UNCHANGED <<shared, log_wakeup, logd, klog, tee_proc_enable_log, log_mutex, seen>>

\* ... or sleeps for TEE_LOG_TIMEOUT_USER_MS without the lock.
LookSleeps(r) ==
    /\ rd[r].pc = "look"
    /\ ~tee_proc_enable_log \/ klog_head = klog_tail
    /\ rd' = [rd EXCEPT ![r].pc = "lock"]
    /\ log_mutex' = None
    /\ UNCHANGED <<shared, log_wakeup, logd, klog, tee_proc_enable_log, seen, loss>>

\* do_ulog: at most count bytes between tail and head.
do_ulog(r) ==
    LET used == Used(rd[r].head, rd[r].tail)
        len == IF used < rd[r].count THEN used ELSE rd[r].count
    IN  [k \in 1..len |-> tee_log_area[(rd[r].tail + k - 1) % LogAreaSize]]

Copy(r) ==
    /\ rd[r].pc = "copy"
    /\ rd' = [rd EXCEPT ![r].pc = "swap", ![r].kbuf = do_ulog(r)]
    /\ UNCHANGED <<shared, log_wakeup, logd, klog, tee_proc_enable_log, log_mutex, seen, loss>>

\* What the user gets of kbuf: all of it, or what the overrun and the notice of
\* it, which comes first, have left of it.
Obsolete(r) == Used(klog_tail, rd[r].tail)
BehindNotice(r) ==
    LET room == rd[r].count - NoticeLen
        left == Len(rd[r].kbuf) - Obsolete(r)
    IN  IF room <= 0 \/ left <= 0 THEN 0 ELSE IF room > left THEN left ELSE room

Delivered(r) ==
    IF klog_tail = rd[r].tail THEN rd[r].kbuf
    ELSE SubSeq(rd[r].kbuf, Obsolete(r) + 1, Obsolete(r) + BehindNotice(r))

\* What read(2) returns: with a notice not the sum of what was copied.
Returned(r) ==
    CASE klog_tail = rd[r].tail -> Len(rd[r].kbuf)
      [] klog_tail # rd[r].tail /\ BehindNotice(r) > 0 -> Len(rd[r].kbuf) + BehindNotice(r)
      [] OTHER -> IF NoticeLen < rd[r].count THEN NoticeLen ELSE rd[r].count

\* cmpxchg(&klog_tail, tail, new_tail)
Exchange(r) ==
    klog_tail' = IF klog_tail = rd[r].tail
                 THEN (rd[r].tail + Len(rd[r].kbuf)) % LogAreaSize ELSE klog_tail

Swap(r) ==
    /\ rd[r].pc = "swap"
    /\ Exchange(r)
    /\ LET d == Delivered(r)
       IN seen' = IF d = <<>> THEN seen ELSE d[Len(d)] + 1
    /\ rd' = [rd EXCEPT ![r] = Idle]
    /\ log_mutex' = None
    /\ UNCHANGED <<shared, log_wakeup, logd, tee_log_area, klog_head, tee_proc_enable_log, loss>>

\* '0' and '1' written to the file.
WriteFlag ==
    /\ tee_proc_enable_log' \in BOOLEAN
    /\ UNCHANGED <<shared, log_wakeup, logd, klog, log_mutex, rd, seen, loss>>

Read(r) == Lock(r) \/ GiveUp(r) \/ LookFinds(r) \/ LookSleeps(r) \/ Copy(r) \/ Swap(r)
Next ==
    \/ TeeWrites \/ LogIrq \/ Logd \/ WriteFlag
    \/ \E r \in Readers : ReadStart(r) \/ Read(r)

Spec == Init /\ [][Next]_vars

\* logd is a running kernel thread whose sleep is bounded; a thread in a read
\* runs on, and the mutex hands itself to whoever waits for it.
Fairness ==
    /\ WF_vars(Logd)
    /\ \A r \in Readers : /\ SF_vars(Lock(r))
                          /\ WF_vars(LookFinds(r) \/ LookSleeps(r) \/ Copy(r) \/ Swap(r))
LiveSpec == Spec /\ Fairness

-----------------------------------------------------------------------------
(* Properties *)

\* The variables keep their types, one reader at a time holds the lock, and
\* both pointers stay inside the ring.
TypeOK ==
    /\ tee_write_seq \in 0..MaxSeq /\ tee_read_seq \in 0..tee_write_seq
    /\ log_wakeup \in 0..1
    /\ klog_head \in Pos /\ klog_tail \in Pos
    /\ tee_log_area \in [Pos -> 0..(MaxSeq - 1) \cup {NoByte}]
    /\ \A r \in Readers : rd[r].pc \in {"look", "copy", "swap"} <=> log_mutex = r
    /\ loss \subseteq {"gap", "lapped", "overrun", "overlap"}

Increasing(s) == \A j, k \in DOMAIN s : j < k => s[j] < s[k]

\* While the thread rests, the bytes from the tail to the head are in the
\* order of the log and end with the last byte taken: klog_tail "points to the
\* first place where klog can be read from" (tee_procfs.c:113-116), however
\* often the ring was overrun, provided that no reader was at work during an
\* overrun and that the trusted OS did not write over what was being copied.
RingHoldsTheLog ==
    logd.pc \in {"test", "wait"} /\ loss \cap {"lapped", "overlap"} = {} =>
        LET used == Used(klog_head, klog_tail)
            ring == [k \in 1..used |-> tee_log_area[(klog_tail + k - 1) % LogAreaSize]]
        IN  /\ TypeOK
            /\ Increasing(ring)
            /\ used > 0 => ring[1] >= seen /\ ring[used] = tee_read_seq - 1

\* A read returns bytes in the order of the log and newer than all that was
\* delivered before, under the same condition; and as long as nothing was
\* overrun or left out it returns exactly the bytes that follow them.
ReadsFollowTheLog ==
    [][\A r \in Readers : rd[r].pc = "swap" /\ rd'[r].pc = "idle" =>
          LET d == Delivered(r)
          IN  /\ loss \cap {"lapped", "overlap"} = {} =>
                    Increasing(d) /\ (d # <<>> => d[1] >= seen)
              /\ loss = {} => d = [k \in DOMAIN d |-> seen + k - 1]]_vars

\* The same without its condition: a reader during an overrun is handed bytes
\* out of order, or bytes it was handed before, and is not told.
ReadsAlwaysFollowTheLog ==
    [][\A r \in Readers : rd[r].pc = "swap" /\ rd'[r].pc = "idle" =>
          Increasing(Delivered(r)) /\ (Delivered(r) # <<>> => Delivered(r)[1] >= seen)]_vars

\* A read returns no more than its buffer has room for (tee_procfs.c:317 adds what
\* was copied behind the notice to what was taken, instead of to the notice).
ReadsReturnTheirCount ==
    [][\A r \in Readers : rd[r].pc = "swap" /\ rd'[r].pc = "idle" =>
          Returned(r) <= rd[r].count]_vars

\* logd takes everything that was written, although the wake-up that is
\* cleared after the sleep may belong to bytes it has not seen.
LogdCatchesUp == []<>(tee_read_seq = tee_write_seq)

\* A read returns when there is something to read: bytes left by the sleep of
\* another reader, or a flag switched back on.
ReadReturns ==
    \A r \in Readers :
        rd[r].pc # "idle" /\ klog_head # klog_tail ~>
            \/ rd[r].pc = "idle" \/ klog_head = klog_tail \/ ~tee_proc_enable_log
=============================================================================
