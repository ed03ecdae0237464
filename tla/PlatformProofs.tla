----------------------------- MODULE PlatformProofs -----------------------------
(***************************************************************************)
(* Proofs about the platform, for every size, number of cores and set of   *)
(* addresses:                                                              *)
(*   the monitor's log (MtLog): the crash log holds the end of the log, and*)
(*     is kept from one copy to the next;                                  *)
(*   its interrupt controller (Gic): no software interrupt is lost, and the*)
(*     settings survive a suspend of the system;                           *)
(*   the factory interface (Meta): every answer fits its buffer, every     *)
(*     output is kept until it is read.                                    *)
(***************************************************************************)
EXTENDS MCPlatform, FiniteSetTheorems, NaturalsInduction, TLAPS

-----------------------------------------------------------------------------
(* The monitor's log: the crash log is kept.  *)

\* The write position is in the ring or, once, just behind it: the test of
\* mt_log_write is made on the position before it is advanced.
PosInv ==
    /\ "write_pos" \in DOMAIN ctrl /\ ctrl.write_pos \in 0..atf_buf_size
    /\ mem = [i \in Cells |-> mem[i]]

LEMMA Beginning == Init => PosInv
<1> SUFFICES ASSUME Init PROVE PosInv
  OBVIOUS
<1>1. mem = [i \in Cells |-> Cleared]
  BY DEF Init
<1>2. "write_pos" \in DOMAIN ctrl /\ ctrl.write_pos = 0
  BY DEF Init, ClearCtrl
<1>3. mem = [i \in Cells |-> mem[i]]
  BY <1>1
<1> QED
  BY <1>2, <1>3, MtLogAssumption DEF MtLogAssumption, PosInv

LEMMA Preserved == PosInv /\ [Next]_vars => PosInv'
<1> SUFFICES ASSUME PosInv, [Next]_vars PROVE PosInv'
  OBVIOUS
<1> USE MtLogAssumption DEF MtLogAssumption, At, Goto
<1>1. "write_pos" \in DOMAIN ctrl' /\ ctrl'.write_pos \in 0..atf_buf_size
  <2> USE DEF PosInv
  <2>1. CASE SetupClean
    BY <2>1 DEF SetupClean, ClearCtrl
  <2>2. CASE SetupRaw
    BY <2>2 DEF SetupRaw
  <2>3. CASE SetupDump
    BY <2>3 DEF SetupDump
  <2>4. CASE SetupClear
    BY <2>4 DEF SetupClear, ClearCtrl
  <2>5. CASE SetupFlag
    BY <2>5 DEF SetupFlag
  <2>6. CASE SetupRest
    BY <2>6 DEF SetupRest
  <2>7. CASE mt_log_write
    BY <2>7 DEF mt_log_write
  <2>8. CASE ReaderTakes
    BY <2>8 DEF ReaderTakes
  <2>9. CASE mt_log_set_crash_flag
    BY <2>9 DEF mt_log_set_crash_flag
  <2>10. CASE DumpDone
    BY <2>10 DEF DumpDone
  <2>11. CASE Reset
    BY <2>11 DEF Reset
  <2>12. CASE UNCHANGED vars
    BY <2>12 DEF vars
  <2>13. CASE SetupSane
    BY <2>13 DEF SetupSane
  <2>14. CASE ResetInClean \/ ResetInClear
    <3>1. "write_pos" \in DOMAIN ctrl' /\ ctrl'.write_pos \in {0, ctrl.write_pos}
      BY <2>14 DEF ResetInClean, ResetInClear, PartOf, ClearCtrl
    <3> QED
      BY <3>1
  <2> QED
    BY <2>1, <2>2, <2>3, <2>4, <2>5, <2>6, <2>7, <2>8, <2>9, <2>10, <2>11, <2>12, <2>13, <2>14
       DEF Next, Setup
<1>2. mem' = [i \in Cells |-> mem'[i]]
  <2> USE DEF PosInv
  <2>1. CASE SetupClean \/ SetupDump \/ SetupClear
    BY <2>1 DEF SetupClean, SetupDump, SetupClear
  <2>2. CASE mt_log_write
    BY <2>2 DEF mt_log_write
  <2>3. CASE \/ SetupRaw \/ SetupSane \/ SetupFlag \/ SetupRest \/ ReaderTakes
             \/ mt_log_set_crash_flag \/ DumpDone \/ Reset \/ UNCHANGED vars
    BY <2>3 DEF SetupRaw, SetupSane, SetupFlag, SetupRest, ReaderTakes,
       mt_log_set_crash_flag, DumpDone, Reset, vars
  <2>4. CASE ResetInClean \/ ResetInClear
    BY <2>4 DEF ResetInClean, ResetInClear, PartOf
  <2> QED
    BY <2>1, <2>2, <2>3, <2>4 DEF Next, Setup
<1> QED
  BY <1>1, <1>2 DEF PosInv

\* What one step does to the crash log behind its first cell.
LEMMA CrashCellsKept ==
    ASSUME PosInv, [Next]_vars,
           NEW i \in CrashCells \ {atf_buf_size}, mem'[i] # mem[i]
    PROVE  SetupClean \/ ResetInClean \/ SetupDump
<1> USE MtLogAssumption DEF MtLogAssumption, At, Goto
<1>1. mem = [j \in Cells |-> mem[j]]
  BY DEF PosInv
<1>2. i \in Cells /\ i \in Int /\ i > atf_buf_size
  BY DEF CrashCells, Cells
<1>3. ~mt_log_write
  <2> SUFFICES ASSUME mt_log_write PROVE FALSE
    OBVIOUS
  <2>1. mem' = [mem EXCEPT ![ctrl.write_pos] = Byte(boots, ctrl.total + 1)]
    BY DEF mt_log_write
  <2>2. ctrl.write_pos # i
    BY <1>2 DEF PosInv
  <2> QED
    BY <1>1, <1>2, <2>1, <2>2
<1>4. ~SetupClear /\ ~ResetInClear
  <2>1. i \in Kept /\ i \notin Cells \ Kept
    BY DEF Kept
  <2> QED
    BY <1>2, <2>1 DEF SetupClear, ResetInClear, PartOf
<1>5. ~(\/ SetupRaw \/ SetupSane \/ SetupFlag \/ SetupRest \/ ReaderTakes
        \/ mt_log_set_crash_flag \/ DumpDone \/ Reset \/ UNCHANGED vars)
  BY DEF SetupRaw, SetupSane, SetupFlag, SetupRest, ReaderTakes, mt_log_set_crash_flag, DumpDone,
     Reset, vars
<1> QED
  BY <1>3, <1>4, <1>5 DEF Next, Setup

\* The crash log is kept from one copy to the next, whatever the sizes, the
\* moments of the resets and what mt_log_write does in between.
THEOREM CrashLogSurvives == Spec => CrashLogIsKept
<1>1. PosInv /\ [Next]_vars =>
          [\A i \in CrashCells \ {atf_buf_size} :
              mem'[i] # mem[i] => SetupClean \/ ResetInClean \/ SetupDump]_vars
  BY CrashCellsKept
<1> QED
  BY <1>1, Beginning, Preserved, PTL DEF Spec, CrashLogIsKept

-----------------------------------------------------------------------------
(* The monitor's log: the crash log is the end of the log. *)

Buf == atf_buf_size
W == ctrl.write_pos
T == ctrl.total

Ctrls == [flag : {"none", "last", "crash", "done"}, addrs : BOOLEAN,
          write_pos : 0..Buf, read_pos : 0..Buf, total : 0..MaxBytes,
          unread : Int, irqs : 0..1, reader_alive : BOOLEAN]
Setups == [at : {"begin", "dump", "clear", "flag", "rest", "on", "off"}, abnormal : BOOLEAN,
           flag : {"none", "last", "crash"}, dumped : Nat]
AllBytes == 0..Byte(MaxBoots + 1, 0)

LogTypes ==
    /\ mem \in [Cells -> AllBytes] /\ ctrl \in Ctrls /\ setup \in Setups
    /\ boots \in 1..MaxBoots /\ torn \in BOOLEAN

\* What the ring holds of the log of boot B: before the write position the
\* newest bytes, from it on the bytes of the last round, whose newest one is
\* behind the ring.
Ring(B) ==
    /\ W <= T /\ (T > W => T > W + Buf)
    /\ \A c \in 0..(Buf - 1) :
          /\ c < W => mem[c] = Byte(B, T - W + c + 1)
          /\ c >= W /\ T > W => mem[c] = Byte(B, T - W - Buf + c)

\* What the copy holds of it, k cells below its last one, as far as it goes.
Copied(B) ==
    \A k \in 1..(setup.dumped - 1) :
        mem[Buf + ReadCount - 1 - k] = Byte(B, IF k <= W THEN T - k + 1 ELSE T - k)

LogInv ==
    /\ LogTypes
    /\ At("begin") => setup.dumped = 0
    /\ At("flag") \/ At("rest") => T = 0
    /\ At("on") => Ring(boots)
    /\ T # 0 /\ ~torn => \E B \in 1..MaxBoots : Ring(B)
    /\ At("dump") => setup.dumped < ReadCount /\ ctrl.flag \in {"last", "crash"}
    /\ At("dump") /\ ~torn => \E B \in 1..MaxBoots : Ring(B) /\ Copied(B)
    /\ At("clear") => setup.dumped = ReadCount
    /\ At("clear") /\ ~torn => \E B \in 1..MaxBoots : Copied(B)

\* A byte's number is its remainder: bytes of different boots do not mix.
LEMMA ByteIs ==
    ASSUME NEW B \in 1..MaxBoots, NEW n \in 0..MaxBytes
    PROVE  /\ Byte(B, 0) \in Nat /\ Byte(B, n) = Byte(B, 0) + n
           /\ Byte(B, n) \in 0..Byte(MaxBoots + 1, 0)
           /\ Byte(B, n) % (MaxBytes + 1) = n
<1> DEFINE m == MaxBytes + 1
<1>1. /\ m \in Nat /\ m > 0 /\ B \in Nat /\ n \in Nat /\ n < m
      /\ MaxBoots \in Nat /\ B <= MaxBoots
  BY MtLogAssumption DEF MtLogAssumption
<1>2. Byte(B, n) = B * m + n /\ Byte(B, 0) = B * m /\ Byte(MaxBoots + 1, 0) = (MaxBoots + 1) * m
  <2>1. B * m \in Int /\ (MaxBoots + 1) * m \in Int
    BY <1>1
  <2> QED
    BY <1>1, <2>1 DEF Byte
<1> HIDE DEF m
<1>3. B * m \in Nat
  BY <1>1
<1>4. (MaxBoots + 1) * m = B * m + (MaxBoots + 1 - B) * m /\ (MaxBoots + 1 - B) * m >= m
  BY <1>1
<1>5. B * m + n <= (MaxBoots + 1) * m
  BY <1>1, <1>3, <1>4
<1>6. (B * m + n) % m = n
  BY <1>1
<1> QED
  BY <1>1, <1>2, <1>3, <1>5, <1>6 DEF m

\* The sizes are naturals.
LEMMA Numbers ==
    /\ Buf \in Nat /\ Buf # 0 /\ crash_log_size \in Nat /\ MaxBytes \in Nat
    /\ MaxBoots \in Nat /\ MaxBoots # 0
    /\ Cells = 0..(Buf + crash_log_size - 1) /\ CrashCells = Buf..(Buf + crash_log_size - 1)
    /\ \A B \in 1..MaxBoots : Byte(B, 0) \in Nat
  BY MtLogAssumption, ByteIs DEF MtLogAssumption, Buf, Cells, CrashCells

LEMMA Cleaned == Cleared \in AllBytes
<1>1. MaxBoots + 1 \in Nat /\ MaxBytes + 1 \in Nat
  BY Numbers
<1>2. (MaxBoots + 1) * (MaxBytes + 1) \in Nat
  BY <1>1
<1> QED
  BY <1>2 DEF AllBytes, Byte, Cleared

LEMMA ClearIs == ClearCtrl \in Ctrls /\ ClearCtrl.total = 0 /\ ClearCtrl.write_pos = 0
  BY Numbers DEF ClearCtrl, Ctrls

LEMMA LogStarts == ASSUME Init PROVE LogInv
<1>1. mem \in [Cells -> AllBytes]
  BY Cleaned DEF Init
<1>2. setup \in Setups /\ setup.at = "begin"
  BY DEF Init, Setups
<1>3. boots \in 1..MaxBoots
  BY Numbers DEF Init
<1> QED
  BY <1>1, <1>2, <1>3, ClearIs DEF Init, LogInv, LogTypes, At, T

\* mt_log_setup, where it does not copy
LEMMA LogSetupKeeps ==
    ASSUME LogInv,
           \/ SetupClean \/ SetupRaw \/ SetupSane \/ SetupClear \/ SetupFlag \/ SetupRest
    PROVE  LogInv'
<1>1. LogTypes /\ setup \in Setups /\ ctrl \in Ctrls /\ mem \in [Cells -> AllBytes]
  BY DEF LogInv, LogTypes
<1>2. CASE SetupClean
  <2>1. /\ mem' = [i \in Cells |-> Cleared] /\ ctrl' = [ClearCtrl EXCEPT !.flag = "last"]
        /\ setup' = [setup EXCEPT !.at = "rest"] /\ boots' = boots /\ torn' = FALSE
    BY <1>2 DEF SetupClean, Goto
  <2>2. ctrl' \in Ctrls /\ ctrl'.total = 0
    BY <2>1, ClearIs DEF Ctrls
  <2>3. setup' \in Setups /\ setup'.at = "rest"
    BY <1>1, <2>1 DEF Setups
  <2> QED
    BY <1>1, <2>1, <2>2, <2>3, Cleaned DEF LogInv, LogTypes, At, T
<1>3. CASE SetupRaw
  <2>1. setup' = [setup EXCEPT !.at = "off"] /\ UNCHANGED <<mem, ctrl, boots, torn>>
    BY <1>3 DEF SetupRaw, Goto
  <2>2. setup' \in Setups /\ setup'.at = "off"
    BY <1>1, <2>1 DEF Setups
  <2> QED
    BY <2>1, <2>2 DEF LogInv, LogTypes, At, T, W, Ring
<1>4. CASE SetupClear
  <2>1. /\ mem' = [i \in Cells |-> IF i \in Kept THEN mem[i] ELSE Cleared] /\ ctrl' = ClearCtrl
        /\ setup' = [setup EXCEPT !.at = "flag"] /\ boots' = boots /\ torn' = FALSE
    BY <1>4 DEF SetupClear, Goto
  <2>2. setup' \in Setups /\ setup'.at = "flag"
    BY <1>1, <2>1 DEF Setups
  <2>3. mem' \in [Cells -> AllBytes]
    BY <1>1, <2>1, Cleaned
  <2> QED
    BY <1>1, <2>1, <2>2, <2>3, ClearIs DEF LogInv, LogTypes, At, T
<1>5. CASE SetupFlag
  <2>1. /\ At("flag") /\ ctrl' = [ctrl EXCEPT !.flag = setup.flag]
        /\ setup' = [setup EXCEPT !.at = "rest"] /\ UNCHANGED <<mem, boots, torn>>
    BY <1>5 DEF SetupFlag, Goto
  <2>2. setup' \in Setups /\ setup'.at = "rest"
    BY <1>1, <2>1 DEF Setups
  <2>3. setup.flag \in {"none", "last", "crash"}
    BY <1>1 DEF Setups
  <2>4. ctrl' \in Ctrls /\ ctrl'.total = ctrl.total
    BY <1>1, <2>1, <2>3 DEF Ctrls
  <2>5. ctrl'.total = 0
    BY <2>1, <2>4 DEF LogInv, T
  <2> QED
    BY <1>1, <2>1, <2>2, <2>4, <2>5 DEF LogInv, LogTypes, At, T
<1>6. CASE SetupRest
  <2>1. /\ At("rest") /\ setup' = [setup EXCEPT !.at = "on"] /\ UNCHANGED <<mem, boots, torn>>
        /\ ctrl' = [ctrl EXCEPT !.addrs = TRUE, !.write_pos = 0, !.read_pos = 0]
    BY <1>6 DEF SetupRest, Goto
  <2>2. setup' \in Setups /\ setup'.at = "on"
    BY <1>1, <2>1 DEF Setups
  <2>3. ctrl' \in Ctrls /\ ctrl'.total = ctrl.total /\ ctrl'.write_pos = 0
    <3>1. 0 \in 0..Buf
      BY Numbers
    <3> QED
      BY <1>1, <2>1, <3>1 DEF Ctrls
  <2>4. ctrl'.total = 0
    BY <2>1, <2>3 DEF LogInv, T
  <2>5. Ring(boots)'
    BY <2>1, <2>3, <2>4, Numbers DEF Ring, W, T
  <2> QED
    BY <1>1, <2>1, <2>2, <2>3, <2>4, <2>5 DEF LogInv, LogTypes, At, T
<1>7. CASE SetupSane
  <2>1. /\ ReadCount # 0 /\ ctrl.flag \in {"last", "crash"}
        /\ setup' = [setup EXCEPT !.at = "dump"]
        /\ At("begin") /\ UNCHANGED <<mem, ctrl, boots, torn>>
    BY <1>7 DEF SetupSane, Sane, Goto
  <2>2. setup' \in Setups /\ setup'.at = "dump" /\ setup'.dumped = setup.dumped
    BY <1>1, <2>1 DEF Setups
  <2>3. setup.dumped = 0
    BY <2>1 DEF LogInv
  <2>4. ReadCount \in Nat /\ T \in Nat /\ T # 0
    BY <1>1, <2>1, Numbers DEF ReadCount, T, Ctrls
  <2>5. setup'.dumped < ReadCount' /\ ReadCount' = ReadCount
    BY <2>1, <2>2, <2>3, <2>4 DEF ReadCount
  <2>6. \A B : Ring(B) => Ring(B)' /\ Copied(B)'
    BY <2>1, <2>2, <2>3 DEF Ring, Copied, W, T
  <2> QED
    BY <1>1, <2>1, <2>2, <2>4, <2>5, <2>6 DEF LogInv, LogTypes, At, T
<1> QED
  BY <1>2, <1>3, <1>4, <1>5, <1>6, <1>7

\* The steps that leave ring, write position and count alone.
LEMMA LogOthersKeep ==
    ASSUME LogInv,
           ReaderTakes \/ mt_log_set_crash_flag \/ DumpDone \/ Reset \/ UNCHANGED vars
    PROVE  LogInv'
<1>1. LogTypes /\ setup \in Setups /\ ctrl \in Ctrls
  BY DEF LogInv, LogTypes
<1>2. CASE ReaderTakes \/ mt_log_set_crash_flag \/ DumpDone
  <2>1. /\ At("on") \/ At("off")
        /\ UNCHANGED <<mem, setup, boots, torn>>
    BY <1>2 DEF ReaderTakes, mt_log_set_crash_flag, DumpDone
  <2>2. ctrl' \in Ctrls /\ ctrl'.write_pos = ctrl.write_pos /\ ctrl'.total = ctrl.total
    <3>1. ctrl.write_pos \in 0..Buf
      BY <1>1 DEF Ctrls
    <3>2. \/ ctrl' = [ctrl EXCEPT !.read_pos = ctrl.write_pos, !.reader_alive = TRUE, !.irqs = 0]
          \/ ctrl' = [ctrl EXCEPT !.flag = "crash"] \/ ctrl' = [ctrl EXCEPT !.flag = "done"]
      BY <1>2 DEF ReaderTakes, mt_log_set_crash_flag, DumpDone
    <3>3. CASE ctrl' = [ctrl EXCEPT !.read_pos = ctrl.write_pos, !.reader_alive = TRUE, !.irqs = 0]
      <4>1. PICK r : r = ctrl.write_pos
        OBVIOUS
      <4>2. /\ ctrl' = [ctrl EXCEPT !.read_pos = r, !.reader_alive = TRUE, !.irqs = 0]
            /\ r \in 0..Buf
        BY <3>1, <3>3, <4>1
      <4>3. ctrl' \in Ctrls
        <5>1. 0 \in 0..1 /\ TRUE \in BOOLEAN
          OBVIOUS
        <5> HIDE DEF Buf
        <5> QED
          BY <1>1, <4>2, <5>1 DEF Ctrls
      <4>4. ctrl'.write_pos = ctrl.write_pos /\ ctrl'.total = ctrl.total
        BY <1>1, <4>2 DEF Ctrls
      <4> QED
        BY <4>3, <4>4
    <3>4. CASE ctrl' = [ctrl EXCEPT !.flag = "crash"] \/ ctrl' = [ctrl EXCEPT !.flag = "done"]
      BY <1>1, <3>4 DEF Ctrls
    <3> QED
      BY <3>2, <3>3, <3>4
  <2>3. Ring(boots) => Ring(boots)'
    BY <2>1, <2>2 DEF Ring, W, T
  <2>4. \A B : Ring(B) => Ring(B)'
    BY <2>1, <2>2 DEF Ring, W, T
  <2> QED
    BY <1>1, <2>1, <2>2, <2>3, <2>4 DEF LogInv, LogTypes, At, T, Setups
<1>3. CASE Reset
  <2>1. /\ boots < MaxBoots /\ boots' = boots + 1 /\ UNCHANGED <<mem, ctrl, torn>>
        /\ \E a \in BOOLEAN :
              setup' = [at |-> "begin", abnormal |-> a, flag |-> "none", dumped |-> 0]
    BY <1>3 DEF Reset, Boot
  <2>2. setup' \in Setups /\ setup'.at = "begin" /\ setup'.dumped = 0
    BY <2>1 DEF Setups
  <2>3. boots' \in 1..MaxBoots
    BY <1>1, <2>1, Numbers DEF LogTypes
  <2> QED
    BY <1>1, <2>1, <2>2, <2>3 DEF LogInv, LogTypes, At, T, W, Ring
<1>4. CASE UNCHANGED vars
  BY <1>4 DEF vars, LogInv, LogTypes, At, T, W, Ring, Copied, ReadCount
<1> QED
  BY <1>2, <1>3, <1>4

\* mt_log_write: the byte replaces the oldest one, in the ring or behind it.
LEMMA WriteKeeps == ASSUME LogInv, mt_log_write PROVE LogInv'
<1>1. /\ LogTypes /\ setup \in Setups /\ ctrl \in Ctrls /\ mem \in [Cells -> AllBytes]
      /\ boots \in 1..MaxBoots /\ Ring(boots)
  BY DEF LogInv, LogTypes, mt_log_write
<1> DEFINE w == IF ctrl.write_pos < atf_buf_size THEN ctrl.write_pos + 1 ELSE 0
           u == Unread(w, ctrl.read_pos)
           q == IF u >= ThresholdSize /\ ctrl.reader_alive THEN 1 ELSE ctrl.irqs
<1>2. /\ At("on") /\ ctrl.total < MaxBytes
      /\ mem' = [mem EXCEPT ![ctrl.write_pos] = Byte(boots, ctrl.total + 1)]
      /\ ctrl' = [ctrl EXCEPT !.write_pos = w, !.total = ctrl.total + 1, !.unread = u, !.irqs = q]
      /\ UNCHANGED <<setup, boots, torn>>
  BY DEF mt_log_write
<1>3. /\ ctrl.write_pos \in 0..Buf /\ ctrl.read_pos \in 0..Buf /\ ctrl.total \in 0..MaxBytes
      /\ ctrl.irqs \in 0..1
  BY <1>1 DEF Ctrls
<1>4. /\ w \in 0..Buf /\ u \in Int /\ q \in 0..1 /\ ctrl.total + 1 \in 0..MaxBytes
      /\ ctrl.total + 1 # 0
  <2>1. w \in 0..Buf /\ w \in Int
    BY <1>3, Numbers DEF Buf
  <2>2. q \in 0..1
    BY <1>3
  <2>3. ctrl.total + 1 \in 0..MaxBytes /\ ctrl.total + 1 # 0
    BY <1>2, <1>3, Numbers
  <2>4. ctrl.read_pos \in Int /\ atf_buf_size \in Int
    BY <1>3, Numbers DEF Buf
  <2> HIDE DEF w
  <2>5. u \in Int
    BY <2>1, <2>4 DEF Unread
  <2> QED
    BY <2>1, <2>2, <2>3, <2>5
<1>5. w = IF W < Buf THEN W + 1 ELSE 0
  BY DEF W, Buf
<1> HIDE DEF w, u, q
<1>6. ctrl' \in Ctrls /\ W' = w /\ T' = T + 1
  BY <1>1, <1>2, <1>4 DEF Ctrls, W, T
<1>7. mem' \in [Cells -> AllBytes]
  <2>1. Byte(boots, ctrl.total + 1) \in AllBytes
    BY <1>1, <1>4, ByteIs DEF AllBytes
  <2> QED
    BY <1>1, <1>2, <2>1
<1>8. Ring(boots)'
  <2>1. W \in 0..Buf /\ T \in 0..MaxBytes /\ T + 1 \in 0..MaxBytes
    BY <1>3, <1>4 DEF W, T
  <2>2. W <= T /\ (T > W => T > W + Buf)
    BY <1>1 DEF Ring
  <2>3. W' <= T' /\ (T' > W' => T' > W' + Buf)
    BY <1>5, <1>6, <2>1, <2>2, Numbers
  <2>4. ASSUME NEW c \in 0..(Buf - 1)
        PROVE  /\ c < W' => mem'[c] = Byte(boots, T' - W' + c + 1)
               /\ c >= W' /\ T' > W' => mem'[c] = Byte(boots, T' - W' - Buf + c)
    <3>1. c \in Cells /\ c \in Nat /\ c < Buf
      BY Numbers
    <3>2. mem'[c] = IF c = W THEN Byte(boots, T + 1) ELSE mem[c]
      BY <1>1, <1>2, <3>1 DEF W, T
    <3>3. /\ c < W => mem[c] = Byte(boots, T - W + c + 1)
          /\ c >= W /\ T > W => mem[c] = Byte(boots, T - W - Buf + c)
      BY <1>1 DEF Ring
    <3>4. CASE W < Buf
      <4>1. W' = W + 1 /\ T' = T + 1
        BY <1>5, <1>6, <3>4
      <4>2. CASE c = W
        <5>1. T' - W' + c + 1 = T + 1 /\ ~(c >= W')
          BY <2>1, <3>1, <4>1, <4>2, Numbers
        <5> QED
          BY <3>2, <4>2, <5>1
      <4>3. CASE c < W
        <5>1. T' - W' + c + 1 = T - W + c + 1 /\ ~(c >= W') /\ c # W
          BY <2>1, <3>1, <4>1, <4>3, Numbers
        <5> QED
          BY <3>2, <3>3, <4>3, <5>1
      <4>4. CASE c > W
        <5>1. /\ T' - W' - Buf + c = T - W - Buf + c /\ ~(c < W') /\ c >= W /\ c # W
              /\ T' > W' => T > W
          BY <2>1, <3>1, <4>1, <4>4, Numbers
        <5> QED
          BY <3>2, <3>3, <5>1
      <4> QED
        BY <2>1, <3>1, <4>2, <4>3, <4>4
    <3>5. CASE ~(W < Buf)
      <4>1. /\ W' = 0 /\ T' = T + 1 /\ c < W /\ c # W /\ ~(c < W')
            /\ T' - W' - Buf + c = T - W + c + 1
        BY <1>5, <1>6, <2>1, <3>1, <3>5, Numbers
      <4> QED
        BY <3>2, <3>3, <4>1
    <3> QED
      BY <3>4, <3>5
  <2> QED
    BY <1>2, <2>3, <2>4 DEF Ring, Buf
<1>9. \E B \in 1..MaxBoots : Ring(B)'
  <2>1. PICK B \in 1..MaxBoots : B = boots /\ B = boots'
    BY <1>1, <1>2
  <2>2. Ring(B)'
    BY <1>8, <2>1 DEF Ring
  <2> QED
    BY <2>2
<1> QED
  BY <1>1, <1>2, <1>6, <1>7, <1>8, <1>9 DEF LogInv, LogTypes, At

\* mt_crash_log_dump: the next byte, from the ring even when it begins behind it
LEMMA DumpKeeps == ASSUME LogInv, crash_log_size <= Buf + 1, SetupDump PROVE LogInv'
<1>1. /\ LogTypes /\ setup \in Setups /\ ctrl \in Ctrls /\ mem \in [Cells -> AllBytes]
      /\ boots \in 1..MaxBoots
  BY DEF LogInv, LogTypes
<1> DEFINE n == ReadCount
           k == setup.dumped
           i(j) == Buf + n - 1 - j
<1>2. /\ k < n /\ UNCHANGED <<ctrl, boots, torn>>
      /\ mem' = [mem EXCEPT ![i(k)] = mem[RPtr(k)]]
      /\ setup' = [setup EXCEPT !.at = IF k + 1 = n THEN "clear" ELSE "dump",
                                !.flag = ctrl.flag, !.dumped = k + 1]
  BY DEF SetupDump, LogInv, Buf
<1>3. W \in 0..Buf /\ T \in 0..MaxBytes
  BY <1>1 DEF Ctrls, W, T
<1>4. /\ n \in Nat /\ n <= T /\ n <= crash_log_size /\ n' = n /\ k \in Nat
      /\ \A j \in Nat : j < n => i(j) \in Cells /\ i(j) >= Buf
  <2>1. n \in Nat /\ n <= T /\ n <= crash_log_size
    BY <1>3, Numbers DEF ReadCount, T
  <2>2. n' = n /\ k \in Nat
    BY <1>1, <1>2 DEF ReadCount, Setups
  <2> HIDE DEF n, k
  <2>3. \A j \in Nat : j < n => i(j) \in Cells /\ i(j) >= Buf
    BY <2>1, Numbers DEF n
  <2> QED
    BY <2>1, <2>2, <2>3
<1>5. RPtr(k) \in Cells
  <2>1. k \in Nat /\ k <= Buf /\ Buf \in Nat /\ Buf # 0 /\ crash_log_size \in Nat
        /\ crash_log_size >= 1
    BY <1>2, <1>4, Numbers
  <2>2. W - k \in Cells \/ ~(W >= k)
    BY <1>3, <2>1, Numbers
  <2>3. W >= k \/ Buf - (k - W) \in Cells
    BY <1>3, <2>1, Numbers
  <2> QED
    BY <2>2, <2>3 DEF RPtr, W, Buf
<1>6. mem' \in [Cells -> AllBytes]
  BY <1>1, <1>2, <1>4, <1>5
<1>7. /\ setup' \in Setups /\ setup'.dumped = k + 1
      /\ setup'.at = IF k + 1 = n THEN "clear" ELSE "dump"
  <2>1. ctrl.flag \in {"none", "last", "crash"}
    BY DEF SetupDump, LogInv, At
  <2>2. k + 1 \in Nat
    BY <1>4
  <2> QED
    BY <1>1, <1>2, <2>1, <2>2 DEF Setups
<1>8. ASSUME ~torn PROVE \E B \in 1..MaxBoots : Ring(B)' /\ Copied(B)'
  <2>1. PICK B \in 1..MaxBoots : Ring(B) /\ Copied(B)
    BY <1>8 DEF LogInv, SetupDump
  <2>2. Ring(B)'
    <3>1. ASSUME NEW c \in 0..(Buf - 1) PROVE mem'[c] = mem[c]
      BY <1>1, <1>2, <1>4, Numbers
    <3> QED
      BY <1>2, <2>1, <3>1 DEF Ring, W, T, Buf
  <2>3. ASSUME NEW j \in 1..k
        PROVE  mem'[i(j)] = Byte(B, IF j <= W THEN T - j + 1 ELSE T - j)
    <3>1. j \in Nat /\ j >= 1 /\ j < n /\ j < T /\ j <= Buf /\ k \in Int /\ j <= k
      <4>1. k \in Nat /\ k < n /\ n \in Nat /\ n <= T /\ n <= Buf + 1 /\ Buf \in Nat /\ T \in Nat
        BY <1>2, <1>3, <1>4, Numbers
      <4> HIDE DEF k, n
      <4> QED
        BY <4>1
    <3>2. CASE j = k
      <4>1. mem'[i(j)] = mem[RPtr(j)]
        BY <1>1, <1>2, <1>4, <3>1, <3>2
      <4>2. CASE j <= W
        <5>1. RPtr(j) = W - j /\ W - j \in 0..(Buf - 1) /\ W - j < W
          BY <1>3, <3>1, <4>2, Numbers DEF RPtr, W
        <5>2. /\ mem[W - j] = Byte(B, T - W + (W - j) + 1)
              /\ T - W + (W - j) + 1 = T - j + 1
          BY <1>3, <2>1, <3>1, <5>1 DEF Ring
        <5> QED
          BY <4>1, <4>2, <5>1, <5>2
      <4>3. CASE ~(j <= W)
        <5>1. /\ RPtr(j) = Buf - (j - W) /\ Buf - (j - W) \in 0..(Buf - 1)
              /\ Buf - (j - W) >= W /\ T > W
          BY <1>3, <3>1, <4>3, Numbers DEF RPtr, W, Buf
        <5>2. /\ mem[Buf - (j - W)] = Byte(B, T - W - Buf + (Buf - (j - W)))
              /\ T - W - Buf + (Buf - (j - W)) = T - j
          BY <1>3, <2>1, <3>1, <5>1, Numbers DEF Ring
        <5> QED
          BY <4>1, <4>3, <5>1, <5>2
      <4> QED
        BY <4>2, <4>3
    <3>3. CASE j # k
      <4>1. j \in 1..(k - 1)
        BY <3>1, <3>3
      <4>2. mem[i(j)] = Byte(B, IF j <= W THEN T - j + 1 ELSE T - j)
        BY <2>1, <4>1 DEF Copied
      <4>3. i(j) # i(k) /\ i(j) \in Cells
        BY <1>4, <3>1, <3>3, Numbers
      <4> QED
        BY <1>1, <1>2, <1>4, <4>2, <4>3
    <3> QED
      BY <3>2, <3>3
  <2>4. Copied(B)'
    <3>1. setup'.dumped - 1 = k
      BY <1>4, <1>7
    <3> QED
      BY <1>2, <1>4, <2>3, <3>1 DEF Copied, W, T, Buf
  <2> QED
    BY <2>2, <2>4
<1> QED
  <2>1. (k + 1 # n => k + 1 < n)
    BY <1>2, <1>4
  <2>2. LogTypes'
    BY <1>1, <1>2, <1>6, <1>7 DEF LogTypes
  <2>3. /\ setup'.at \in {"dump", "clear"} /\ ctrl'.flag \in {"last", "crash"} /\ torn' = torn
        /\ setup'.at = "dump" => setup'.dumped < ReadCount'
        /\ setup'.at = "clear" => setup'.dumped = ReadCount'
    <3>1. ctrl.flag \in {"last", "crash"}
      BY DEF SetupDump, LogInv
    <3>2. ctrl' = ctrl /\ torn' = torn
      BY <1>2
    <3> HIDE DEF n, k
    <3> QED
      BY <1>2, <1>4, <1>7, <2>1, <3>1, <3>2 DEF n
  <2> QED
    BY <1>8, <2>2, <2>3 DEF LogInv, At

\* A reset inside a memset
LEMMA TornKeeps == ASSUME LogInv, ResetInClean \/ ResetInClear PROVE LogInv'
<1>1. LogTypes /\ ctrl \in Ctrls /\ mem \in [Cells -> AllBytes] /\ boots \in 1..MaxBoots
  BY DEF LogInv, LogTypes
<1>2. /\ torn' = TRUE /\ boots < MaxBoots /\ boots' = boots + 1
      /\ \E a \in BOOLEAN :
            setup' = [at |-> "begin", abnormal |-> a, flag |-> "none", dumped |-> 0]
      /\ \E cells : PartOf(cells)
  BY DEF ResetInClean, ResetInClear, Boot
<1>3. PICK cells : PartOf(cells)
  BY <1>2
<1>4. setup' \in Setups /\ setup'.at = "begin" /\ setup'.dumped = 0
  BY <1>2 DEF Setups
<1>5. boots' \in 1..MaxBoots
  BY <1>1, <1>2, Numbers
<1>6. ctrl' \in Ctrls
  <2>1. CASE ctrl' = ClearCtrl
    BY <2>1, ClearIs
  <2>2. ASSUME NEW S \in SUBSET Fields,
               ctrl' = [f \in DOMAIN ctrl |-> IF f \in S THEN ctrl[f] ELSE ClearCtrl[f]]
        PROVE  ctrl' \in Ctrls
    <3> DEFINE D == {"flag", "addrs", "write_pos", "read_pos", "total", "unread", "irqs",
                     "reader_alive"}
    <3>1. PICK c \in Ctrls : c = ClearCtrl
      BY ClearIs
    <3>2. DOMAIN ctrl = D
      BY <1>1 DEF Ctrls
    <3>3. ctrl' = [f \in D |-> IF f \in S THEN ctrl[f] ELSE c[f]]
      BY <2>2, <3>1, <3>2
    <3>4. ctrl' = [flag |-> ctrl'.flag, addrs |-> ctrl'.addrs, write_pos |-> ctrl'.write_pos,
                   read_pos |-> ctrl'.read_pos, total |-> ctrl'.total, unread |-> ctrl'.unread,
                   irqs |-> ctrl'.irqs, reader_alive |-> ctrl'.reader_alive]
      BY <3>3
    <3>5. \A f \in D : ctrl'[f] \in {ctrl[f], c[f]}
      BY <3>3
    <3>6. /\ ctrl'.flag \in {"none", "last", "crash", "done"} /\ ctrl'.addrs \in BOOLEAN
          /\ ctrl'.write_pos \in 0..Buf /\ ctrl'.read_pos \in 0..Buf
          /\ ctrl'.total \in 0..MaxBytes /\ ctrl'.unread \in Int /\ ctrl'.irqs \in 0..1
          /\ ctrl'.reader_alive \in BOOLEAN
      BY <1>1, <3>1, <3>5 DEF Ctrls
    <3> QED
      BY <3>4, <3>6 DEF Ctrls
  <2> QED
    BY <1>3, <2>1, <2>2 DEF PartOf
<1>7. mem' \in [Cells -> AllBytes]
  BY <1>1, <1>3, Cleaned DEF PartOf
<1> QED
  BY <1>2, <1>4, <1>5, <1>6, <1>7 DEF LogInv, LogTypes, At

LEMMA LogKeeps == ASSUME LogInv, crash_log_size <= Buf + 1, [Next]_vars PROVE LogInv'
  BY LogSetupKeeps, LogOthersKeep, WriteKeeps, DumpKeeps, TornKeeps DEF Next, Setup

\* The numbers in the copy count down, by two at the write position.
LEMMA LogGives == ASSUME LogInv PROVE CrashLogIsTheTail
<1>1. /\ LogTypes /\ ctrl \in Ctrls /\ setup \in Setups /\ mem \in [Cells -> AllBytes]
  BY DEF LogInv, LogTypes
<1>2. TypeOK
  BY <1>1 DEF TypeOK, LogTypes, Ctrls, Setups, AllBytes, Buf
<1> DEFINE n == setup.dumped
           d == [k \in 1..(n - 1) |-> mem[Buf + n - 1 - k]]
           gaps == {k \in 1..(n - 2) : d[k] # d[k + 1] + 1}
           total == ctrl.total
<1>3. ASSUME At("clear"), ~torn
      PROVE  /\ \A k \in gaps : d[k] = d[k + 1] + 2
             /\ \A j, k \in gaps : j = k
             /\ n > 1 => d[1] % (MaxBytes + 1) \in {total, total - 1}
             /\ n > 1 /\ d[1] % (MaxBytes + 1) # total => gaps = {}
  <2>1. PICK B \in 1..MaxBoots : Copied(B)
    BY <1>3 DEF LogInv
  <2>2. n \in Nat /\ n <= T /\ T \in 0..MaxBytes /\ W \in 0..Buf
    BY <1>1, <1>3, Numbers DEF LogInv, ReadCount, Ctrls, T, W
  <2> DEFINE v(k) == IF k <= W THEN T - k + 1 ELSE T - k
  <2>3. \A k \in 1..(n - 1) : d[k] = Byte(B, v(k))
    BY <1>3, <2>1 DEF Copied, LogInv
  <2> HIDE DEF d
  <2>4. \A k \in 1..(n - 1) : v(k) \in 0..MaxBytes
    BY <2>2, Numbers
  <2>5. \A k \in 1..(n - 1) : d[k] = Byte(B, 0) + v(k) /\ d[k] % (MaxBytes + 1) = v(k)
    BY <2>3, <2>4, ByteIs
  <2>6. Byte(B, 0) \in Nat
    BY Numbers
  <2>7. \A k \in 1..(n - 2) : k \in 1..(n - 1) /\ k + 1 \in 1..(n - 1)
    BY <2>2
  <2>8. \A k \in 1..(n - 2) : d[k] = d[k + 1] + (IF k = W THEN 2 ELSE 1)
    BY <2>2, <2>5, <2>6, <2>7
  <2>9. \A k \in gaps : k = W /\ d[k] = d[k + 1] + 2
    BY <2>8
  <2>10. n > 1 => d[1] % (MaxBytes + 1) = IF 1 <= W THEN T ELSE T - 1
    BY <2>2, <2>5
  <2>11. n > 1 /\ d[1] % (MaxBytes + 1) # T => gaps = {}
    BY <2>2, <2>9, <2>10
  <2> QED
    BY <2>2, <2>9, <2>10, <2>11 DEF T
<1> QED
  BY <1>2, <1>3 DEF CrashLogIsTheTail, TailIsCopied, Buf

\* After an abnormal reset the crash log holds the end of the log, although
\* resets may have interrupted earlier copies; unless the last reset came
\* inside a memset.
THEOREM CrashLogHoldsTheTail ==
    ASSUME crash_log_size <= atf_buf_size + 1
    PROVE  Spec => []CrashLogIsTheTail
<1>1. Init => LogInv
  BY LogStarts
<1>2. LogInv /\ [Next]_vars => LogInv'
  BY LogKeeps DEF Buf
<1>3. LogInv => CrashLogIsTheTail
  BY LogGives
<1> QED
  BY <1>1, <1>2, <1>3, PTL DEF Spec

-----------------------------------------------------------------------------
(* The interrupt controller *)

Cores == 0..(PLATFORM_CORE_COUNT - 1)
AllSgis == [Cores -> [group : 0..1, on : BOOLEAN, pending : BOOLEAN]]
AllWdts == [group : 0..1, on : BOOLEAN]
AllSaved == [sgi : SUBSET Cores, group : 0..1, on : BOOLEAN, ppi : BOOLEAN, wdt : AllWdts]

GicTypes ==
    /\ DOMAIN cpu_logical_map = Cores
    /\ \A c \in Cores : cpu_logical_map[c]
          \in {Controller!CPU_LOGIC_MAP_RESET_VAL, Controller!mpidr(c)}
    /\ core \in [Cores -> {"off", "half", "up", "idle"}]
    /\ sgi \in AllSgis /\ wdt \in AllWdts
    /\ ppi \subseteq Cores /\ owed \subseteq Cores /\ rdist_has_saved \subseteq Cores
    /\ saved \in AllSaved
    /\ before \in [wdt : AllWdts, ppi : [Cores -> BOOLEAN]]
    /\ sys \in [at : {"cold", "on", "saving", "restoring"}, todo : SUBSET Controller!Saves]

\* What the monitor must be interrupted by is in group 0, live and saved.
Groups ==
    /\ \A c \in Cores : core[c] # "half" => sgi[c].group = 0
    /\ wdt.group = 0 /\ saved.group = 0 /\ saved.wdt.group = 0

Last == Controller!LastCore

\* While the system is suspended one core runs.
OneRuns ==
    sys.at \in {"saving", "restoring"} =>
        /\ \A c \in Cores : core[c] \in {"up", "off"}
        /\ Last \in Cores /\ core[Last] = "up"

\* The calls are pending in the controller, or in the saved word.
Calls ==
    /\ ~(sys.at = "restoring" /\ "sgi" \in sys.todo) => \A c \in owed : sgi[c].pending
    /\ sys.at = "saving" /\ "sgi" \notin sys.todo => owed \subseteq saved.sgi
    /\ sys.at = "restoring" /\ "sgi" \in sys.todo => owed \subseteq saved.sgi

\* What is saved is what was, and what is restored adds up to it.
Settings ==
    /\ sys.at = "saving" =>
          /\ wdt = before.wdt /\ (Last \in ppi <=> before.ppi[Last])
          /\ "dist" \notin sys.todo => saved.wdt = before.wdt
          /\ "rdist" \notin sys.todo =>
                saved.ppi = before.ppi[Last] /\ Last \in rdist_has_saved
    /\ sys.at = "restoring" =>
          /\ saved.wdt = before.wdt /\ saved.ppi = before.ppi[Last]
          /\ wdt.on => before.wdt.on
          /\ Last \in ppi => before.ppi[Last]
          /\ "dist" \notin sys.todo => wdt = before.wdt /\ (before.ppi[Last] => Last \in ppi)

GicInv == GicTypes /\ Groups /\ OneRuns /\ Calls /\ Settings

-----------------------------------------------------------------------------
(* irq_raise_softirq reaches every core of its map that is known.  Its loop  *)
(* is a recursive function: that there is one is shown first.                *)

\* One turn of the loop at core cpu, f standing for the turns that follow.
SendStep(map, f, cpu) ==
    IF cpu \notin Cores THEN {}
    ELSE IF cpu \notin map \/ ~Controller!Known(cpu) THEN f[cpu + 1]
    ELSE Controller!gic_send_sgi(cpu_logical_map[cpu].cluster,
             Controller!compute_target_list(cpu, map, cpu_logical_map[cpu].cluster))
         \cup f[Controller!TargetsEnd(cpu, map, cpu_logical_map[cpu].cluster)]

Send(map) == CHOOSE f : f = [cpu \in 0..PLATFORM_CORE_COUNT |-> SendStep(map, f, cpu)]

LEMMA CoresAre == Controller!CORES = Cores /\ PLATFORM_CORE_COUNT \in Nat \ {0}
  BY PlatformAssumption DEF Controller!CORES, Cores, PlatformAssumption

LEMMA SentIsSend == ASSUME NEW map PROVE Controller!Sent(map) = Send(map)[0]
  BY DEF Controller!Sent, Send, SendStep, Controller!CORES, Cores

\* A set of naturals has a least element.
LEMMA LeastNat ==
    ASSUME NEW S \in SUBSET Nat, S # {}
    PROVE  \E c \in S : \A d \in S : c <= d
<1> DEFINE R == OpToRel(<, Nat)
<1>1. IsWellFoundedOn(R, Nat)
  BY NatLessThanWellFounded
<1>2. \A x, y \in Nat : <<y, x>> \in R <=> y < x
  BY DEF OpToRel
<1> HIDE DEF R
<1>3. \E x \in S : \A y \in S : ~ (<<y, x>> \in R)
  BY <1>1, WFMin
<1>4. PICK x \in S : \A y \in S : ~ (y < x)
  BY <1>2, <1>3
<1> QED
  BY <1>4

Same(cpu, d) == cpu_logical_map[d].cluster = cpu_logical_map[cpu].cluster
End(map, cpu) == Controller!TargetsEnd(cpu, map, cpu_logical_map[cpu].cluster)

\* The list ends behind the core it begins with, at a core of another cluster.
LEMMA EndIs ==
    ASSUME NEW map \in SUBSET Cores, NEW cpu \in map
    PROVE  /\ End(map, cpu) \in Nat /\ cpu < End(map, cpu) /\ End(map, cpu) <= PLATFORM_CORE_COUNT
           /\ \A d \in map : cpu <= d /\ d < End(map, cpu) /\ Controller!Known(d) => Same(cpu, d)
<1> DEFINE others == {c \in map : c >= cpu /\ Controller!Known(c) /\ ~Same(cpu, c)}
<1>1. End(map, cpu) = IF others = {} THEN PLATFORM_CORE_COUNT
                      ELSE CHOOSE c \in others : \A d \in others : c <= d
  BY DEF End, Controller!TargetsEnd, Same
<1>0. /\ PLATFORM_CORE_COUNT \in Nat
      /\ \A c \in map : c \in Nat /\ c < PLATFORM_CORE_COUNT
  BY CoresAre DEF Cores
<1>5. ASSUME NEW c \in others PROVE c \in Nat /\ c <= PLATFORM_CORE_COUNT /\ cpu < c
  <2>1. c # cpu
    BY DEF Same
  <2> QED
    BY <1>0, <2>1
<1>2. /\ PLATFORM_CORE_COUNT \in Nat /\ cpu \in Nat /\ cpu < PLATFORM_CORE_COUNT
      /\ others \in SUBSET Nat /\ \A c \in others : c <= PLATFORM_CORE_COUNT /\ cpu < c
  BY <1>0, <1>5
<1>3. CASE others = {}
  BY <1>1, <1>2, <1>3, CoresAre
<1>4. CASE others # {}
  <2>1. \E c \in others : \A d \in others : c <= d
    BY <1>2, <1>4, LeastNat
  <2>2. End(map, cpu) \in others /\ \A d \in others : End(map, cpu) <= d
    BY <1>1, <1>4, <2>1
  <2>3. \A d \in map : d \in Int
    BY DEF Cores
  <2> QED
    BY <1>2, <2>2, <2>3
<1> QED
  BY <1>3, <1>4

\* A function that satisfies the equation of the loop from core k on.
Solves(map, k, f) ==
    /\ f = [cpu \in k..PLATFORM_CORE_COUNT |-> f[cpu]]
    /\ \A cpu \in k..PLATFORM_CORE_COUNT : f[cpu] = SendStep(map, f, cpu)

\* A solution from core k + 1 on extends to core k.
LEMMA SolvesFurther ==
    ASSUME NEW map \in SUBSET Cores, NEW k \in Cores, NEW g, Solves(map, k + 1, g)
    PROVE  \E f : Solves(map, k, f)
<1> DEFINE N == PLATFORM_CORE_COUNT
           f == [cpu \in k..N |-> IF cpu = k THEN SendStep(map, g, k) ELSE g[cpu]]
<1>0. N \in Nat /\ k \in Nat /\ k < N /\ \A c \in map : c \in Cores
  BY CoresAre DEF Cores
<1>1. f = [cpu \in k..N |-> f[cpu]]
  OBVIOUS
<1>2. \A cpu \in (k + 1)..N : f[cpu] = g[cpu] /\ cpu \in k..N /\ cpu # k
  BY <1>0
<1>3. ASSUME NEW cpu \in k..N PROVE SendStep(map, f, cpu) = SendStep(map, g, cpu)
  <2>1. CASE cpu \notin Cores
    BY <2>1 DEF SendStep
  <2>2. CASE cpu \in Cores /\ (cpu \notin map \/ ~Controller!Known(cpu))
    <3>1. cpu + 1 \in (k + 1)..N
      BY <1>0, <2>2 DEF Cores
    <3>2. f[cpu + 1] = g[cpu + 1]
      BY <1>2, <3>1
    <3> HIDE DEF f
    <3> QED
      BY <2>2, <3>2 DEF SendStep
  <2>3. CASE cpu \in Cores /\ cpu \in map /\ Controller!Known(cpu)
    <3>1. End(map, cpu) \in (k + 1)..N
      BY <1>0, <2>3, EndIs
    <3>2. f[End(map, cpu)] = g[End(map, cpu)]
      BY <1>2, <3>1
    <3> HIDE DEF f
    <3> QED
      BY <2>3, <3>2 DEF SendStep, End
  <2> QED
    BY <2>1, <2>2, <2>3
<1>4. ASSUME NEW cpu \in k..N PROVE f[cpu] = SendStep(map, f, cpu)
  <2>1. CASE cpu = k
    BY <1>3, <2>1
  <2>2. CASE cpu # k
    <3>1. cpu \in (k + 1)..N
      BY <1>0, <2>2
    <3>2. f[cpu] = g[cpu] /\ g[cpu] = SendStep(map, g, cpu)
      BY <1>2, <3>1 DEF Solves
    <3> QED
      BY <1>3, <3>2
  <2> QED
    BY <2>1, <2>2
<1> HIDE DEF f
<1>5. Solves(map, k, f)
  BY <1>1, <1>4 DEF Solves
<1> QED
  BY <1>5

\* So the loop's function satisfies its equation: there is no least number of
\* turns for which it has no solution.
LEMMA SendSolves ==
    ASSUME NEW map \in SUBSET Cores
    PROVE  Solves(map, 0, Send(map))
<1> DEFINE N == PLATFORM_CORE_COUNT
           Unsolved == {j \in 0..N : ~\E f : Solves(map, N - j, f)}
<1>0. N \in Nat /\ N # 0
  BY CoresAre
<1>1. Unsolved = {}
  <2> SUFFICES ASSUME Unsolved # {} PROVE FALSE
    OBVIOUS
  <2>0. Unsolved \in SUBSET Nat
    OBVIOUS
  <2>1. PICK j \in Unsolved : \A i \in Unsolved : j <= i
    BY <2>0, LeastNat
  <2>2. j \in 0..N /\ j \in Nat /\ ~\E f : Solves(map, N - j, f)
    BY <2>1
  <2>3. CASE j = 0
    <3> DEFINE e == [cpu \in N..N |-> {}]
    <3>1. \A cpu \in N..N : cpu \notin Cores
      BY <1>0 DEF Cores
    <3>2. \A cpu \in N..N : e[cpu] = SendStep(map, e, cpu)
      BY <3>1 DEF SendStep
    <3>3. e = [cpu \in N..N |-> e[cpu]]
      OBVIOUS
    <3> HIDE DEF e
    <3>4. Solves(map, N, e)
      BY <3>2, <3>3 DEF Solves
    <3>5. N - j = N
      BY <1>0, <2>3
    <3> QED
      BY <2>2, <3>4, <3>5
  <2>4. CASE j # 0
    <3>1. j - 1 \in 0..N /\ ~(j <= j - 1)
      BY <1>0, <2>2, <2>4
    <3>2. j - 1 \notin Unsolved
      BY <2>1, <3>1
    <3>3. \E g : Solves(map, N - (j - 1), g)
      BY <3>1, <3>2
    <3>4. N - (j - 1) = (N - j) + 1 /\ N - j \in Cores
      BY <1>0, <2>2, <2>4 DEF Cores
    <3>5. PICK g : Solves(map, (N - j) + 1, g)
      BY <3>3, <3>4
    <3>6. \E f : Solves(map, N - j, f)
      BY <3>4, <3>5, SolvesFurther
    <3> QED
      BY <2>2, <3>6
  <2> QED
    BY <2>3, <2>4
<1>2. N \in 0..N /\ N - N = 0
  BY <1>0
<1>3. PICK f : Solves(map, 0, f)
  BY <1>1, <1>2
<1>4. f = [cpu \in 0..N |-> SendStep(map, f, cpu)]
  BY <1>3 DEF Solves
<1>5. Send(map) = [cpu \in 0..N |-> SendStep(map, Send(map), cpu)]
  BY <1>4 DEF Send
<1> HIDE DEF Send
<1> QED
  BY <1>5 DEF Solves

\* From core k on, the loop reaches every core of the map.
Reached(map, k) == \A c \in map : k <= c /\ Controller!Known(c) => c \in Send(map)[k]

\* One turn of the loop reaches the cores up to the end of its list.
LEMMA ReachedFurther ==
    ASSUME GicTypes, NEW map \in SUBSET Cores, NEW k \in Cores,
           \A m \in (k + 1)..PLATFORM_CORE_COUNT : Reached(map, m)
    PROVE  Reached(map, k)
<1> DEFINE N == PLATFORM_CORE_COUNT
<1>0. /\ N \in Nat /\ k \in Nat /\ k < N
      /\ \A c \in map : c \in Cores /\ c \in Nat /\ c < N
  BY CoresAre DEF Cores
<1>1. Send(map)[k] = SendStep(map, Send(map), k)
  BY <1>0, SendSolves DEF Solves
<1> SUFFICES ASSUME NEW c \in map, k <= c, Controller!Known(c)
             PROVE  c \in Send(map)[k]
  BY DEF Reached
<1>2. c \in Nat /\ c < N
  BY <1>0
<1>3. CASE k \notin map \/ ~Controller!Known(k)
  <2>1. k + 1 <= c /\ k + 1 \in (k + 1)..N
    BY <1>0, <1>2, <1>3
  <2>2. c \in Send(map)[k + 1]
    BY <2>1 DEF Reached
  <2> QED
    BY <1>1, <1>3, <2>2 DEF SendStep
<1>4. CASE k \in map /\ Controller!Known(k)
  <2> DEFINE e == End(map, k)
             cluster == cpu_logical_map[k].cluster
  <2>1. /\ e \in Nat /\ k < e /\ e <= N
        /\ \A d \in map : k <= d /\ d < e /\ Controller!Known(d) => Same(k, d)
    BY <1>4, EndIs
  <2> HIDE DEF e
  <2>2. Send(map)[k] =
            Controller!gic_send_sgi(cluster, Controller!compute_target_list(k, map, cluster))
                \cup Send(map)[e]
    BY <1>1, <1>4 DEF SendStep, End, e
  <2>3. CASE e <= c
    <3>1. e \in (k + 1)..N
      BY <1>0, <2>1
    <3>2. c \in Send(map)[e]
      BY <2>3, <3>1 DEF Reached
    <3> QED
      BY <2>2, <3>2
  <2>4. CASE c < e
    <3>1. cpu_logical_map[c].cluster = cluster
      BY <2>1, <2>4 DEF Same
    <3>2. cpu_logical_map[c] = Controller!mpidr(c)
      BY DEF GicTypes, Controller!Known
    <3>3. cpu_logical_map[c].aff0 \in Controller!compute_target_list(k, map, cluster)
      BY <2>4 DEF Controller!compute_target_list, e, End
    <3>4. c \in Controller!gic_send_sgi(cluster, Controller!compute_target_list(k, map, cluster))
      <4>1. Controller!mpidr(c).cluster = cluster /\ c \in Controller!CORES
        BY <3>1, <3>2, CoresAre
      <4>2. Controller!mpidr(c).aff0 \in Controller!compute_target_list(k, map, cluster)
        BY <3>2, <3>3
      <4> QED
        BY <4>1, <4>2 DEF Controller!gic_send_sgi
    <3> QED
      BY <2>2, <3>4
  <2> QED
    BY <1>2, <2>1, <2>3, <2>4
<1> QED
  BY <1>3, <1>4

\* A call reaches every core of the map that has entered its mpidr, whatever
\* the clusters of the cores in between (irq_raise_softirq, compute_target_list).
LEMMA SentReachesTheMap ==
    ASSUME GicTypes, NEW map \in SUBSET Cores
    PROVE  \A c \in map : Controller!Known(c) => c \in Controller!Sent(map)
<1> DEFINE N == PLATFORM_CORE_COUNT
           Missed == {j \in 0..N : ~Reached(map, N - j)}
<1>0. N \in Nat /\ N # 0
  BY CoresAre
<1>1. Missed = {}
  <2> SUFFICES ASSUME Missed # {} PROVE FALSE
    OBVIOUS
  <2>0. Missed \in SUBSET Nat
    OBVIOUS
  <2>1. PICK j \in Missed : \A i \in Missed : j <= i
    BY <2>0, LeastNat
  <2>2. j \in 0..N /\ j \in Nat /\ ~Reached(map, N - j)
    BY <2>1
  <2>3. CASE j = 0
    <3>1. N - j = N /\ \A c \in map : ~(N <= c)
      BY <1>0, <2>3, CoresAre DEF Cores
    <3>2. Reached(map, N)
      BY <3>1 DEF Reached
    <3> QED
      BY <2>2, <3>1, <3>2
  <2>4. CASE j # 0
    <3>1. N - j \in Cores
      BY <1>0, <2>2, <2>4 DEF Cores
    <3>2. ASSUME NEW m \in ((N - j) + 1)..N PROVE Reached(map, m)
      <4>1. m \in Int /\ N - m \in 0..N /\ ~(j <= N - m) /\ N - (N - m) = m
        BY <1>0, <2>2
      <4>2. N - m \notin Missed
        BY <2>1, <4>1
      <4>3. Reached(map, N - (N - m))
        BY <4>1, <4>2
      <4> QED
        BY <4>1, <4>3
    <3> QED
      BY <2>2, <3>1, <3>2, ReachedFurther
  <2> QED
    BY <2>3, <2>4
<1>2. N \in 0..N /\ N - N = 0
  BY <1>0
<1>3. Reached(map, 0)
  BY <1>1, <1>2
<1>4. \A c \in map : 0 <= c
  BY DEF Cores
<1> QED
  BY <1>3, <1>4, SentIsSend DEF Reached

-----------------------------------------------------------------------------
(* What the parts of the actions do to the registers. *)

LEMMA QuietIs ==
    ASSUME UNCHANGED Controller!gic
    PROVE  sgi' = sgi /\ ppi' = ppi /\ wdt' = wdt
  BY DEF Controller!gic

\* gic_cpuif_init changes the group, and nothing that is pending.
LEMMA RegroupDoes ==
    ASSUME GicTypes, NEW c \in Cores, Controller!Regroup(c)
    PROVE  /\ core' \in [Cores -> {"off", "half", "up", "idle"}] /\ sgi' \in AllSgis
           /\ core'[c] = "half"
           /\ \A d \in Cores : sgi'[d].pending = sgi[d].pending
           /\ \A d \in Cores : d # c => core'[d] = core[d] /\ sgi'[d].group = sgi[d].group
<1>1. /\ core' = [core EXCEPT ![c] = "half"]
      /\ sgi' = [sgi EXCEPT ![c].group = 1]
  BY DEF Controller!Regroup
<1>2. core \in [Cores -> {"off", "half", "up", "idle"}] /\ sgi \in AllSgis
  BY DEF GicTypes
<1> QED
  BY <1>1, <1>2 DEF AllSgis

\* So do the restore functions, at the cores they are called for.
LEMMA RestoreDoes ==
    ASSUME GicTypes, NEW cs \in SUBSET Cores, Controller!RestorePrivate(cs)
    PROVE  /\ sgi' \in AllSgis /\ ppi' \subseteq Cores
           /\ \A c \in Cores : sgi'[c].pending = sgi[c].pending
           /\ \A c \in Cores : sgi'[c].group = IF c \in cs THEN saved.group ELSE sgi[c].group
           /\ ppi' = IF saved.ppi THEN ppi \cup cs ELSE ppi
<1>1. /\ sgi' = [c \in Cores |-> IF c \in cs
                    THEN [sgi[c] EXCEPT !.group = saved.group, !.on = sgi[c].on \/ saved.on]
                    ELSE sgi[c]]
      /\ ppi' = IF saved.ppi THEN ppi \cup cs ELSE ppi
  BY CoresAre DEF Controller!RestorePrivate
<1>2. /\ sgi \in [Cores -> [group : 0..1, on : BOOLEAN, pending : BOOLEAN]] /\ ppi \subseteq Cores
      /\ saved.group \in 0..1 /\ saved.on \in BOOLEAN
  BY DEF GicTypes, AllSgis, AllSaved
<1>3. ASSUME NEW c \in Cores
      PROVE  /\ sgi'[c] \in [group : 0..1, on : BOOLEAN, pending : BOOLEAN]
             /\ sgi'[c].pending = sgi[c].pending
             /\ sgi'[c].group = IF c \in cs THEN saved.group ELSE sgi[c].group
  <2>1. sgi[c] \in [group : 0..1, on : BOOLEAN, pending : BOOLEAN]
    BY <1>2
  <2>2. CASE c \in cs
    <3>1. sgi'[c] = [sgi[c] EXCEPT !.group = saved.group, !.on = sgi[c].on \/ saved.on]
      BY <1>1, <2>2
    <3>2. (sgi[c].on \/ saved.on) \in BOOLEAN
      OBVIOUS
    <3> QED
      BY <1>2, <2>1, <2>2, <3>1, <3>2
  <2>3. CASE c \notin cs
    BY <1>1, <2>1, <2>3
  <2> QED
    BY <2>2, <2>3
<1>4. sgi' \in AllSgis
  BY <1>1, <1>3 DEF AllSgis
<1> QED
  BY <1>1, <1>2, <1>3, <1>4

\* gic_rdist_save leaves the saved pending bits and the watchdog alone.
LEMMA SaveDoes ==
    ASSUME GicTypes, NEW c \in Cores, Controller!SavePrivate(c)
    PROVE  /\ saved' \in AllSaved
           /\ saved'.sgi = saved.sgi /\ saved'.wdt = saved.wdt
           /\ saved'.group = sgi[c].group /\ saved'.ppi = (c \in ppi)
           /\ rdist_has_saved' = rdist_has_saved \cup {c}
<1>1. /\ saved' = [saved EXCEPT !.group = sgi[c].group, !.on = sgi[c].on, !.ppi = c \in ppi]
      /\ rdist_has_saved' = rdist_has_saved \cup {c}
  BY DEF Controller!SavePrivate
<1>2. /\ saved \in AllSaved
      /\ sgi[c].group \in 0..1 /\ sgi[c].on \in BOOLEAN /\ (c \in ppi) \in BOOLEAN
  BY DEF GicTypes, AllSgis
<1> QED
  BY <1>1, <1>2 DEF AllSaved

LEMMA StepDoes ==
    ASSUME GicTypes, NEW op, Controller!Step(op)
    PROVE  /\ op \in sys.todo
           /\ sys' \in [at : {"cold", "on", "saving", "restoring"}, todo : SUBSET Controller!Saves]
           /\ sys'.at = sys.at /\ sys'.todo = sys.todo \ {op}
           /\ cpu_logical_map' = cpu_logical_map /\ core' = core /\ owed' = owed
  BY DEF Controller!Step, GicTypes

LEMMA LastStays == ASSUME core' = core PROVE Last' = Last
  BY DEF Last, Controller!LastCore, Controller!CORES

\* While the system is on the invariant asks for no more than this.
LEMMA AwakeKept ==
    ASSUME GicTypes', Groups', sys'.at \in {"cold", "on"}, \A c \in owed' : sgi'[c].pending
    PROVE  GicInv'
  BY DEF GicInv, OneRuns, Calls, Settings

-----------------------------------------------------------------------------
(* The actions of a system that is on *)

LEMMA GicSetupKeeps == ASSUME GicInv, Controller!gic_setup PROVE GicInv'
<1>1. GicTypes /\ Groups /\ Calls
  BY DEF GicInv
<1>2. /\ Controller!Regroup(0) /\ sys.at = "cold" /\ sys' = [sys EXCEPT !.at = "on"]
      /\ cpu_logical_map' = [c \in Cores |-> Controller!CPU_LOGIC_MAP_RESET_VAL]
      /\ wdt' = [group |-> 0, on |-> TRUE]
      /\ UNCHANGED <<ppi, saved, rdist_has_saved, owed, before>>
  BY CoresAre DEF Controller!gic_setup, Controller!BootCore, Controller!mt_bl31_spi_enable
<1>3. 0 \in Cores
  BY CoresAre DEF Cores
<1>4. GicTypes'
  BY <1>1, <1>2, <1>3, RegroupDoes DEF GicTypes, AllWdts
<1>5. Groups'
  BY <1>1, <1>2, <1>3, RegroupDoes DEF Groups
<1>6. \A c \in owed' : sgi'[c].pending
  BY <1>1, <1>2, <1>3, RegroupDoes DEF Calls, GicTypes
<1>7. sys'.at = "on"
  BY <1>1, <1>2 DEF GicTypes
<1> QED
  BY <1>4, <1>5, <1>6, <1>7, AwakeKept

LEMMA CpuOnKeeps == ASSUME GicInv, NEW c \in Cores, Controller!CpuOn(c) PROVE GicInv'
<1>1. GicTypes /\ Groups /\ Calls
  BY DEF GicInv
<1>2. /\ Controller!Regroup(c) /\ sys.at = "on"
      /\ UNCHANGED <<cpu_logical_map, ppi, wdt, saved, rdist_has_saved, sys, owed, before>>
  BY DEF Controller!CpuOn
<1>3. GicTypes'
  BY <1>1, <1>2, RegroupDoes DEF GicTypes
<1>4. Groups'
  BY <1>1, <1>2, RegroupDoes DEF Groups
<1>5. \A d \in owed' : sgi'[d].pending
  BY <1>1, <1>2, RegroupDoes DEF Calls, GicTypes
<1> QED
  BY <1>2, <1>3, <1>4, <1>5, AwakeKept

LEMMA CpuifReadyKeeps == ASSUME GicInv, NEW c \in Cores, Controller!CpuifReady(c) PROVE GicInv'
<1>1. GicTypes /\ Groups /\ OneRuns /\ Calls
  BY DEF GicInv
<1>2. /\ core[c] = "half" /\ core' = [core EXCEPT ![c] = "up"]
      /\ sgi' = [sgi EXCEPT ![c].group = 0, ![c].on = TRUE]
      /\ cpu_logical_map' = [cpu_logical_map EXCEPT ![c] = Controller!mpidr(c)]
      /\ UNCHANGED <<ppi, wdt, saved, rdist_has_saved, sys, owed, before>>
  BY DEF Controller!CpuifReady, Controller!enable_sgi_fiq
<1>3. /\ sgi \in AllSgis /\ core \in [Cores -> {"off", "half", "up", "idle"}]
  BY <1>1 DEF GicTypes
<1>4. sys.at \in {"cold", "on"}
  BY <1>1, <1>2 DEF OneRuns, GicTypes
<1>5. /\ core' \in [Cores -> {"off", "half", "up", "idle"}] /\ sgi' \in AllSgis
      /\ \A d \in Cores : /\ sgi'[d].pending = sgi[d].pending
                          /\ sgi'[d].group = IF d = c THEN 0 ELSE sgi[d].group
                          /\ core'[d] = IF d = c THEN "up" ELSE core[d]
  <2>1. PICK r : r = [sgi[c] EXCEPT !.group = 0, !.on = TRUE] /\ sgi' = [sgi EXCEPT ![c] = r]
    BY <1>2, <1>3 DEF AllSgis
  <2>2. sgi[c] \in [group : 0..1, on : BOOLEAN, pending : BOOLEAN]
    BY <1>3 DEF AllSgis
  <2>3. r = [group |-> 0, on |-> TRUE, pending |-> sgi[c].pending] /\ sgi[c].pending \in BOOLEAN
    BY <2>1, <2>2
  <2>4. /\ r \in [group : 0..1, on : BOOLEAN, pending : BOOLEAN]
        /\ r.group = 0 /\ r.pending = sgi[c].pending
    BY <2>3
  <2>5. sgi' \in AllSgis
    BY <1>3, <2>1, <2>4 DEF AllSgis
  <2> QED
    BY <1>2, <1>3, <2>1, <2>4, <2>5 DEF AllSgis
<1>6. GicTypes'
  <2>1. \A d \in Cores : cpu_logical_map'[d]
            \in {Controller!CPU_LOGIC_MAP_RESET_VAL, Controller!mpidr(d)}
    BY <1>1, <1>2 DEF GicTypes
  <2> QED
    BY <1>1, <1>2, <1>5, <2>1 DEF GicTypes
<1>7. Groups'
  BY <1>1, <1>2, <1>5 DEF Groups
<1>8. \A d \in owed' : sgi'[d].pending
  <2>1. ~(sys.at = "restoring" /\ "sgi" \in sys.todo)
    BY <1>4
  <2>2. \A d \in owed : sgi[d].pending /\ d \in Cores
    BY <1>1, <2>1 DEF Calls, GicTypes
  <2> QED
    BY <1>2, <1>5, <2>2
<1> QED
  BY <1>2, <1>4, <1>6, <1>7, <1>8, AwakeKept

LEMMA DeactivateKeeps ==
    ASSUME GicInv, NEW c \in Cores, Controller!gic_cpuif_deactivate(c)
    PROVE  GicInv'
<1>1. GicTypes /\ Groups /\ Calls
  BY DEF GicInv
<1>2. /\ sys.at = "on" /\ core[c] = "up" /\ core' = [core EXCEPT ![c] = "off"]
      /\ UNCHANGED Controller!gic
      /\ UNCHANGED <<cpu_logical_map, saved, rdist_has_saved, sys, owed, before>>
  BY DEF Controller!gic_cpuif_deactivate
<1>3. sgi' = sgi /\ ppi' = ppi /\ wdt' = wdt
  BY <1>2, QuietIs
<1>4. GicTypes'
  BY <1>1, <1>2, <1>3 DEF GicTypes
<1>5. Groups'
  BY <1>1, <1>2, <1>3 DEF Groups, GicTypes
<1>6. \A d \in owed' : sgi'[d].pending
  BY <1>1, <1>2, <1>3 DEF Calls
<1> QED
  BY <1>2, <1>4, <1>5, <1>6, AwakeKept

LEMMA SetPpiKeeps == ASSUME GicInv, NEW c \in Cores, Controller!SetPpi(c) PROVE GicInv'
<1>1. GicTypes /\ Groups /\ Calls
  BY DEF GicInv
<1>2. /\ sys.at = "on" /\ ppi' = IF c \in ppi THEN ppi \ {c} ELSE ppi \cup {c}
      /\ UNCHANGED <<cpu_logical_map, core, sgi, wdt, saved, rdist_has_saved, sys, owed, before>>
  BY DEF Controller!SetPpi
<1>3. ppi' \subseteq Cores
  BY <1>1, <1>2 DEF GicTypes
<1>4. GicTypes' /\ Groups'
  BY <1>1, <1>2, <1>3 DEF GicTypes, Groups
<1>5. \A d \in owed' : sgi'[d].pending
  BY <1>1, <1>2 DEF Calls
<1> QED
  BY <1>2, <1>4, <1>5, AwakeKept

LEMMA MaskKeeps == ASSUME GicInv, Controller!mask_wdt_fiq PROVE GicInv'
<1>1. GicTypes /\ Groups /\ Calls
  BY DEF GicInv
<1>2. /\ sys.at = "on" /\ wdt' = [wdt EXCEPT !.on = FALSE]
      /\ UNCHANGED <<cpu_logical_map, core, sgi, ppi, saved, rdist_has_saved, sys, owed, before>>
  BY DEF Controller!mask_wdt_fiq
<1>3. wdt' \in AllWdts /\ wdt'.group = wdt.group
  BY <1>1, <1>2 DEF GicTypes, AllWdts
<1>4. GicTypes' /\ Groups'
  BY <1>1, <1>2, <1>3 DEF GicTypes, Groups
<1>5. \A d \in owed' : sgi'[d].pending
  BY <1>1, <1>2 DEF Calls
<1> QED
  BY <1>2, <1>4, <1>5, AwakeKept

\* irq_raise_softirq: the cores of the map owe an answer, and are reached.
LEMMA RaiseKeeps ==
    ASSUME GicInv, NEW map \in SUBSET Cores, Controller!irq_raise_softirq(map)
    PROVE  GicInv'
<1>1. GicTypes /\ Groups /\ Calls
  BY DEF GicInv
<1> DEFINE sent == Controller!Sent(map)
<1>2. \A c \in map : Controller!Known(c) => c \in sent
  BY <1>1, SentReachesTheMap
<1>3. /\ sys.at = "on"
      /\ sgi' = [c \in Cores |-> IF c \in sent THEN [sgi[c] EXCEPT !.pending = TRUE] ELSE sgi[c]]
      /\ owed' = owed \cup {c \in map : Controller!Known(c)}
      /\ UNCHANGED <<cpu_logical_map, core, ppi, wdt, saved, rdist_has_saved, sys, before>>
  BY CoresAre DEF Controller!irq_raise_softirq
<1> HIDE DEF sent
<1>4. sgi \in AllSgis
  BY <1>1 DEF GicTypes
<1>5. /\ sgi' \in AllSgis
      /\ \A c \in Cores : /\ sgi'[c].group = sgi[c].group
                          /\ sgi[c].pending \/ c \in sent => sgi'[c].pending
  BY <1>3, <1>4 DEF AllSgis
<1>6. owed' \subseteq Cores
  BY <1>1, <1>3 DEF GicTypes
<1>7. GicTypes' /\ Groups'
  BY <1>1, <1>3, <1>5, <1>6 DEF GicTypes, Groups
<1>8. \A c \in owed' : sgi'[c].pending
  <2>1. \A c \in owed : sgi[c].pending /\ c \in Cores
    BY <1>1, <1>3 DEF Calls, GicTypes
  <2> QED
    BY <1>2, <1>3, <1>5, <2>1
<1> QED
  BY <1>3, <1>7, <1>8, AwakeKept

LEMMA TakeFiqKeeps == ASSUME GicInv, NEW c \in Cores, Controller!TakeFiq(c) PROVE GicInv'
<1>1. GicTypes /\ Groups /\ Calls
  BY DEF GicInv
<1>2. /\ sys.at = "on" /\ sgi' = [sgi EXCEPT ![c].pending = FALSE] /\ owed' = owed \ {c}
      /\ UNCHANGED <<cpu_logical_map, core, ppi, wdt, saved, rdist_has_saved, sys, before>>
  BY DEF Controller!TakeFiq
<1>3. sgi \in AllSgis
  BY <1>1 DEF GicTypes
<1>4. /\ sgi' \in AllSgis
      /\ \A d \in Cores : /\ sgi'[d].group = sgi[d].group
                          /\ d # c => sgi'[d].pending = sgi[d].pending
  BY <1>2, <1>3 DEF AllSgis
<1>5. GicTypes' /\ Groups'
  BY <1>1, <1>2, <1>4 DEF GicTypes, Groups
<1>6. \A d \in owed' : sgi'[d].pending
  BY <1>1, <1>2, <1>4 DEF Calls, GicTypes
<1> QED
  BY <1>2, <1>5, <1>6, AwakeKept

LEMMA IdleSaveKeeps == ASSUME GicInv, NEW c \in Cores, Controller!IdleSave(c) PROVE GicInv'
<1>1. GicTypes /\ Groups /\ Calls
  BY DEF GicInv
<1>2. /\ sys.at = "on" /\ core[c] = "up" /\ Controller!SavePrivate(c)
      /\ core' = [core EXCEPT ![c] = "idle"]
      /\ before' = [before EXCEPT !.ppi[c] = c \in ppi]
      /\ ppi' = ppi \ {c}
      /\ UNCHANGED <<cpu_logical_map, sgi, wdt, sys, owed>>
  BY DEF Controller!IdleSave
<1>3. before \in [wdt : AllWdts, ppi : [Cores -> BOOLEAN]] /\ (c \in ppi) \in BOOLEAN
  BY <1>1 DEF GicTypes
<1>4. before' \in [wdt : AllWdts, ppi : [Cores -> BOOLEAN]]
  BY <1>2, <1>3
<1>5. /\ core' \in [Cores -> {"off", "half", "up", "idle"}]
      /\ \A d \in Cores : core'[d] # "half" => core[d] # "half"
  BY <1>1, <1>2 DEF GicTypes
<1>6. GicTypes'
  BY <1>1, <1>2, <1>4, <1>5, SaveDoes DEF GicTypes
<1>7. sgi[c].group = 0
  BY <1>1, <1>2 DEF Groups
<1>8. Groups'
  BY <1>1, <1>2, <1>5, <1>7, SaveDoes DEF Groups
<1>9. \A d \in owed' : sgi'[d].pending
  BY <1>1, <1>2 DEF Calls
<1> QED
  BY <1>2, <1>6, <1>8, <1>9, AwakeKept

LEMMA IdleRestoreKeeps == ASSUME GicInv, NEW c \in Cores, Controller!IdleRestore(c) PROVE GicInv'
<1>1. GicTypes /\ Groups /\ Calls
  BY DEF GicInv
<1>2. /\ sys.at = "on" /\ core[c] = "idle" /\ Controller!RestorePrivate({c})
      /\ core' = [core EXCEPT ![c] = "up"]
      /\ UNCHANGED <<cpu_logical_map, wdt, saved, rdist_has_saved, sys, owed, before>>
  BY DEF Controller!IdleRestore
<1>3. /\ core' \in [Cores -> {"off", "half", "up", "idle"}]
      /\ \A d \in Cores : core'[d] # "half" => core[d] # "half"
  BY <1>1, <1>2 DEF GicTypes
<1>4. GicTypes'
  BY <1>1, <1>2, <1>3, RestoreDoes DEF GicTypes
<1>5. Groups'
  BY <1>1, <1>2, <1>3, RestoreDoes DEF Groups
<1>6. \A d \in owed' : sgi'[d].pending
  BY <1>1, <1>2, RestoreDoes DEF Calls, GicTypes
<1> QED
  BY <1>2, <1>4, <1>5, <1>6, AwakeKept

-----------------------------------------------------------------------------
(* Suspend and resume: the one core that runs stays the same. *)

\* The parts of the invariant that only speak of what Step leaves alone.
LEMMA SuspendedStep ==
    ASSUME GicInv, NEW op, Controller!Step(op)
    PROVE  OneRuns' /\ Last' = Last
<1>1. GicTypes /\ OneRuns
  BY DEF GicInv
<1>2. core' = core /\ sys'.at = sys.at /\ Last' = Last
  BY <1>1, StepDoes, LastStays
<1> QED
  BY <1>1, <1>2 DEF OneRuns

LEMMA SuspendKeeps == ASSUME GicInv, Controller!SuspendBegin PROVE GicInv'
<1>1. GicTypes /\ Groups /\ Calls
  BY DEF GicInv
<1>2. /\ sys.at = "on" /\ sys' = [at |-> "saving", todo |-> Controller!Saves]
      /\ \A c \in Cores : core[c] \in {"up", "off"}
      /\ before' = [before EXCEPT !.wdt = wdt, !.ppi[Last] = Last \in ppi]
      /\ UNCHANGED <<cpu_logical_map, core, saved, rdist_has_saved, owed>>
  BY CoresAre DEF Controller!SuspendBegin, Last
<1>3. sgi' = sgi /\ ppi' = ppi /\ wdt' = wdt
  BY QuietIs DEF Controller!SuspendBegin
<1>4. Last \in Cores /\ core[Last] = "up" /\ Last' = Last
  <2>1. \E c \in Cores : core[c] = "up"
    BY CoresAre DEF Controller!SuspendBegin, Controller!Running
  <2>2. Last = CHOOSE c \in Cores : core[c] = "up"
    BY CoresAre DEF Last, Controller!LastCore
  <2> QED
    BY <1>2, <2>1, <2>2, LastStays
<1>5. /\ before' \in [wdt : AllWdts, ppi : [Cores -> BOOLEAN]]
      /\ before'.wdt = wdt /\ before'.ppi[Last] = (Last \in ppi)
  <2>1. PICK q : q = [before.ppi EXCEPT ![Last] = Last \in ppi]
    OBVIOUS
  <2>2. before \in [wdt : AllWdts, ppi : [Cores -> BOOLEAN]] /\ wdt \in AllWdts
    BY <1>1 DEF GicTypes
  <2>3. (Last \in ppi) \in BOOLEAN
    OBVIOUS
  <2>4. q \in [Cores -> BOOLEAN] /\ q[Last] = (Last \in ppi)
    BY <1>4, <2>1, <2>2, <2>3
  <2>5. before' = [wdt |-> wdt, ppi |-> q]
    BY <1>2, <2>1, <2>2
  <2> QED
    BY <2>2, <2>4, <2>5
<1>6. GicTypes'
  BY <1>1, <1>2, <1>3, <1>5 DEF GicTypes
<1>7. Groups'
  BY <1>1, <1>2, <1>3 DEF Groups
<1>8. OneRuns'
  BY <1>2, <1>4 DEF OneRuns
<1>9. Calls'
  BY <1>1, <1>2, <1>3 DEF Calls, Controller!Saves
<1>10. Settings'
  BY <1>2, <1>3, <1>4, <1>5 DEF Settings, Controller!Saves
<1> QED
  BY <1>6, <1>7, <1>8, <1>9, <1>10 DEF GicInv

\* gic_sgi_save_all: what is owed is pending, and saved.
LEMMA SaveAllKeeps == ASSUME GicInv, Controller!gic_sgi_save_all PROVE GicInv'
<1>1. GicTypes /\ Groups /\ Calls /\ Settings
  BY DEF GicInv
<1>2. /\ sys.at = "saving" /\ Controller!Step("sgi")
      /\ saved' = [saved EXCEPT !.sgi = {c \in Cores : sgi[c].pending}]
      /\ UNCHANGED <<rdist_has_saved, before>>
  BY CoresAre DEF Controller!gic_sgi_save_all
<1>3. sgi' = sgi /\ ppi' = ppi /\ wdt' = wdt
  BY QuietIs DEF Controller!gic_sgi_save_all
<1>4. /\ saved' \in AllSaved
      /\ saved'.sgi = {c \in Cores : sgi[c].pending}
      /\ saved'.group = saved.group /\ saved'.wdt = saved.wdt /\ saved'.ppi = saved.ppi
  BY <1>1, <1>2 DEF GicTypes, AllSaved
<1>5. GicTypes'
  BY <1>1, <1>2, <1>3, <1>4, StepDoes DEF GicTypes
<1>6. Groups'
  BY <1>1, <1>2, <1>3, <1>4, StepDoes DEF Groups
<1>7. Calls'
  <2>1. \A c \in owed : sgi[c].pending /\ c \in Cores
    BY <1>1, <1>2 DEF Calls, GicTypes
  <2> QED
    BY <1>1, <1>2, <1>3, <1>4, <2>1, StepDoes DEF Calls
<1>8. Settings'
  BY <1>1, <1>2, <1>3, <1>4, StepDoes, SuspendedStep DEF Settings
<1> QED
  BY <1>2, <1>5, <1>6, <1>7, <1>8, SuspendedStep DEF GicInv

LEMMA DistSaveKeeps == ASSUME GicInv, Controller!gic_dist_save PROVE GicInv'
<1>1. GicTypes /\ Groups /\ Calls /\ Settings
  BY DEF GicInv
<1>2. /\ sys.at = "saving" /\ Controller!Step("dist")
      /\ saved' = [saved EXCEPT !.wdt = wdt]
      /\ UNCHANGED <<rdist_has_saved, before>>
  BY DEF Controller!gic_dist_save
<1>3. sgi' = sgi /\ ppi' = ppi /\ wdt' = wdt
  BY QuietIs DEF Controller!gic_dist_save
<1>4. /\ saved' \in AllSaved
      /\ saved'.wdt = wdt
      /\ saved'.group = saved.group /\ saved'.sgi = saved.sgi /\ saved'.ppi = saved.ppi
  BY <1>1, <1>2 DEF GicTypes, AllSaved
<1>5. GicTypes'
  BY <1>1, <1>2, <1>3, <1>4, StepDoes DEF GicTypes
<1>6. Groups'
  BY <1>1, <1>2, <1>3, <1>4, StepDoes DEF Groups
<1>7. Calls'
  BY <1>1, <1>2, <1>3, <1>4, StepDoes DEF Calls
<1>8. Settings'
  BY <1>1, <1>2, <1>3, <1>4, StepDoes, SuspendedStep DEF Settings
<1> QED
  BY <1>2, <1>5, <1>6, <1>7, <1>8, SuspendedStep DEF GicInv

LEMMA RdistSaveKeeps == ASSUME GicInv, Controller!gic_rdist_save PROVE GicInv'
<1>1. GicTypes /\ Groups /\ OneRuns /\ Calls /\ Settings
  BY DEF GicInv
<1>2. /\ sys.at = "saving" /\ Controller!Step("rdist") /\ Controller!SavePrivate(Last)
      /\ UNCHANGED before
  BY DEF Controller!gic_rdist_save, Last
<1>3. sgi' = sgi /\ ppi' = ppi /\ wdt' = wdt
  BY QuietIs DEF Controller!gic_rdist_save
<1>4. Last \in Cores /\ core[Last] = "up"
  BY <1>1, <1>2 DEF OneRuns
<1>5. /\ saved' \in AllSaved
      /\ saved'.sgi = saved.sgi /\ saved'.wdt = saved.wdt
      /\ saved'.group = sgi[Last].group /\ saved'.ppi = (Last \in ppi)
      /\ rdist_has_saved' = rdist_has_saved \cup {Last}
  BY <1>1, <1>2, <1>4, SaveDoes
<1>6. GicTypes'
  BY <1>1, <1>2, <1>3, <1>4, <1>5, StepDoes DEF GicTypes
<1>7. Groups'
  BY <1>1, <1>2, <1>3, <1>4, <1>5, StepDoes DEF Groups
<1>8. Calls'
  BY <1>1, <1>2, <1>3, <1>5, StepDoes DEF Calls
<1>9. Settings'
  <2>1. before.ppi[Last] \in BOOLEAN
    BY <1>1, <1>4 DEF GicTypes
  <2>2. (Last \in ppi) = before.ppi[Last] /\ wdt = before.wdt
    BY <1>1, <1>2, <2>1 DEF Settings
  <2>3. sys'.at = "saving" /\ ("dist" \notin sys'.todo => "dist" \notin sys.todo)
    BY <1>1, <1>2, StepDoes
  <2>4. saved'.ppi = before.ppi[Last] /\ Last \in rdist_has_saved'
    BY <1>5, <2>2
  <2>5. Last' = Last /\ before' = before
    BY <1>2, SuspendedStep
  <2>6. "dist" \notin sys'.todo => saved'.wdt = before.wdt
    BY <1>1, <1>2, <1>5, <2>3 DEF Settings
  <2> QED
    BY <1>3, <2>2, <2>3, <2>4, <2>5, <2>6 DEF Settings
<1> QED
  BY <1>2, <1>6, <1>7, <1>8, <1>9, SuspendedStep DEF GicInv

LEMMA ResumeKeeps == ASSUME GicInv, Controller!Resume PROVE GicInv'
<1>1. GicTypes /\ Groups /\ OneRuns /\ Calls /\ Settings
  BY DEF GicInv
<1>2. /\ sys = [at |-> "saving", todo |-> {}]
      /\ sys' = [at |-> "restoring", todo |-> Controller!Saves]
      /\ UNCHANGED <<cpu_logical_map, core, saved, rdist_has_saved, owed, before>>
  BY DEF Controller!Resume
<1>3. \/ sgi' = sgi /\ ppi' = ppi /\ wdt' = wdt
      \/ /\ sgi' = [c \in Cores |-> Controller!ResetSgi]
         /\ ppi' = {} /\ wdt' = Controller!ResetWdt
  BY CoresAre, QuietIs DEF Controller!Resume
<1>4. /\ sgi' \in AllSgis /\ ppi' \subseteq Cores /\ wdt' \in AllWdts
      /\ \A c \in Cores : core[c] # "half" => sgi'[c].group = 0
      /\ wdt'.group = 0 /\ (wdt'.on => wdt.on) /\ ppi' \subseteq ppi
  <2>1. CASE sgi' = sgi /\ ppi' = ppi /\ wdt' = wdt
    BY <1>1, <2>1 DEF GicTypes, Groups
  <2>2. CASE /\ sgi' = [c \in Cores |-> Controller!ResetSgi]
             /\ ppi' = {} /\ wdt' = Controller!ResetWdt
    BY <2>2 DEF AllSgis, AllWdts, Controller!ResetSgi, Controller!ResetWdt
  <2> QED
    BY <1>3, <2>1, <2>2
<1>5. Last' = Last
  BY <1>2, LastStays
<1>6. GicTypes'
  BY <1>1, <1>2, <1>4 DEF GicTypes
<1>7. Groups'
  BY <1>1, <1>2, <1>4 DEF Groups
<1>8. OneRuns'
  BY <1>1, <1>2, <1>5 DEF OneRuns
<1>9. Calls'
  BY <1>1, <1>2 DEF Calls, Controller!Saves
<1>10. Settings'
  BY <1>1, <1>2, <1>4, <1>5 DEF Settings, Controller!Saves
<1> QED
  BY <1>6, <1>7, <1>8, <1>9, <1>10 DEF GicInv

\* gic_sgi_restore_all: what is owed is in the saved word.
LEMMA RestoreAllKeeps == ASSUME GicInv, Controller!gic_sgi_restore_all PROVE GicInv'
<1>1. GicTypes /\ Groups /\ Calls /\ Settings
  BY DEF GicInv
<1>2. /\ sys.at = "restoring" /\ Controller!Step("sgi")
      /\ sgi' = [c \in Cores |-> [sgi[c] EXCEPT !.pending = c \in saved.sgi]]
      /\ UNCHANGED <<ppi, wdt, saved, rdist_has_saved, before>>
  BY CoresAre DEF Controller!gic_sgi_restore_all
<1>3. /\ sgi' \in AllSgis
      /\ \A c \in Cores : sgi'[c].group = sgi[c].group /\ sgi'[c].pending = (c \in saved.sgi)
  <2>1. sgi \in AllSgis /\ \A c \in Cores : (c \in saved.sgi) \in BOOLEAN
    BY <1>1 DEF GicTypes
  <2> QED
    BY <1>2, <2>1 DEF AllSgis
<1>4. GicTypes'
  BY <1>1, <1>2, <1>3, StepDoes DEF GicTypes
<1>5. Groups'
  BY <1>1, <1>2, <1>3, StepDoes DEF Groups
<1>6. Calls'
  <2>1. \A c \in owed : c \in saved.sgi /\ c \in Cores
    BY <1>1, <1>2, StepDoes DEF Calls, GicTypes
  <2> QED
    BY <1>1, <1>2, <1>3, <2>1, StepDoes DEF Calls
<1>7. Settings'
  BY <1>1, <1>2, StepDoes, SuspendedStep DEF Settings
<1> QED
  BY <1>2, <1>4, <1>5, <1>6, <1>7, SuspendedStep DEF GicInv

\* The private registers come back to cores cs, the running one among them.
LEMMA RestoredPrivate ==
    ASSUME GicInv, sys.at = "restoring", NEW op, op # "sgi", Controller!Step(op),
           NEW cs \in SUBSET Cores, Last \in cs, Controller!RestorePrivate(cs),
           UNCHANGED <<saved, rdist_has_saved, before>>
    PROVE  /\ sgi' \in AllSgis /\ ppi' \subseteq Cores
           /\ \A c \in Cores : core[c] # "half" => sgi'[c].group = 0
           /\ Calls'
           /\ Last \in ppi' => before.ppi[Last]
           /\ before.ppi[Last] => Last \in ppi'
<1>1. GicTypes /\ Groups /\ OneRuns /\ Calls /\ Settings
  BY DEF GicInv
<1>2. \A c \in Cores : core[c] # "half" => sgi'[c].group = 0
  BY <1>1, RestoreDoes DEF Groups
<1>3. saved.ppi = before.ppi[Last] /\ (Last \in ppi => before.ppi[Last])
  BY <1>1 DEF Settings
<1>4. (Last \in ppi' => before.ppi[Last]) /\ (before.ppi[Last] => Last \in ppi')
  BY <1>1, <1>3, RestoreDoes
<1>5. Calls'
  <2>1. \A c \in owed : c \in Cores
    BY <1>1 DEF GicTypes
  <2>2. \A c \in Cores : sgi'[c].pending = sgi[c].pending
    BY <1>1, RestoreDoes
  <2>3. ("sgi" \in sys'.todo <=> "sgi" \in sys.todo) /\ sys'.at = sys.at /\ owed' = owed
    BY <1>1, StepDoes
  <2> QED
    BY <1>1, <2>1, <2>2, <2>3 DEF Calls
<1> QED
  BY <1>1, <1>2, <1>4, <1>5, RestoreDoes

LEMMA DistRestoreKeeps == ASSUME GicInv, Controller!gic_dist_restore PROVE GicInv'
<1>1. GicTypes /\ Groups /\ OneRuns /\ Calls /\ Settings
  BY DEF GicInv
<1>2. /\ sys.at = "restoring" /\ Controller!Step("dist") /\ Controller!RestorePrivate({Last})
      /\ wdt' = [group |-> saved.wdt.group, on |-> wdt.on \/ saved.wdt.on]
      /\ UNCHANGED <<saved, rdist_has_saved, before>>
  BY DEF Controller!gic_dist_restore, Last
<1>3. Last \in Cores
  BY <1>1, <1>2 DEF OneRuns
<1>4. /\ sgi' \in AllSgis /\ ppi' \subseteq Cores /\ Calls'
      /\ \A c \in Cores : core[c] # "half" => sgi'[c].group = 0
      /\ Last \in ppi' => before.ppi[Last]
      /\ before.ppi[Last] => Last \in ppi'
  BY <1>2, <1>3, RestoredPrivate
<1>5. wdt' = before.wdt
  <2>1. saved.wdt = before.wdt /\ (wdt.on => before.wdt.on)
    BY <1>1, <1>2 DEF Settings
  <2>2. before.wdt \in AllWdts /\ wdt.on \in BOOLEAN
    BY <1>1 DEF GicTypes, AllWdts
  <2>3. (wdt.on \/ saved.wdt.on) = before.wdt.on
    BY <2>1, <2>2 DEF AllWdts
  <2> QED
    BY <1>2, <2>1, <2>2, <2>3 DEF AllWdts
<1>6. before.wdt \in AllWdts /\ before.wdt = saved.wdt
  BY <1>1, <1>2 DEF GicTypes, Settings
<1>7. GicTypes'
  BY <1>1, <1>2, <1>4, <1>5, <1>6, StepDoes DEF GicTypes
<1>8. Groups'
  BY <1>1, <1>2, <1>4, <1>5, <1>6, StepDoes DEF Groups
<1>9. Settings'
  BY <1>1, <1>2, <1>4, <1>5, <1>6, StepDoes, SuspendedStep DEF Settings
<1> QED
  BY <1>2, <1>4, <1>7, <1>8, <1>9, SuspendedStep DEF GicInv

\* gic_rdist_restore and gic_rdist_restore_all: the core's own registers, or
\* the saved ones at all cores.
LEMMA RdistRestoreKeeps ==
    ASSUME GicInv, NEW cs \in {{Last}, Cores},
           sys.at = "restoring", Controller!Step("rdist"), Controller!RestorePrivate(cs),
           UNCHANGED <<wdt, saved, rdist_has_saved, before>>
    PROVE  GicInv'
<1>1. GicTypes /\ Groups /\ OneRuns /\ Calls /\ Settings
  BY DEF GicInv
<1>2. cs \in SUBSET Cores /\ Last \in cs
  BY <1>1 DEF OneRuns
<1>3. /\ sgi' \in AllSgis /\ ppi' \subseteq Cores /\ Calls'
      /\ \A c \in Cores : core[c] # "half" => sgi'[c].group = 0
      /\ Last \in ppi' => before.ppi[Last]
      /\ before.ppi[Last] => Last \in ppi'
  BY <1>2, RestoredPrivate
<1>4. GicTypes'
  BY <1>1, <1>3, StepDoes DEF GicTypes
<1>5. Groups'
  BY <1>1, <1>3, StepDoes DEF Groups
<1>6. Settings'
  BY <1>1, <1>3, StepDoes, SuspendedStep DEF Settings
<1> QED
  BY <1>3, <1>4, <1>5, <1>6, SuspendedStep DEF GicInv

LEMMA ResumeEndKeeps == ASSUME GicInv, Controller!ResumeEnd PROVE GicInv'
<1>1. GicTypes /\ Groups /\ OneRuns /\ Calls
  BY DEF GicInv
<1>2. /\ sys = [at |-> "restoring", todo |-> {}] /\ sys' = [sys EXCEPT !.at = "on"]
      /\ saved' = Controller!NothingSaved /\ before' = Controller!NothingBefore
      /\ UNCHANGED <<cpu_logical_map, core, rdist_has_saved, owed>>
  BY DEF Controller!ResumeEnd
<1>3. sgi' = sgi /\ ppi' = ppi /\ wdt' = wdt
  BY QuietIs DEF Controller!ResumeEnd
<1>4. /\ saved' \in AllSaved
      /\ saved'.group = 0 /\ saved'.wdt.group = 0
      /\ before' \in [wdt : AllWdts, ppi : [Cores -> BOOLEAN]]
  BY <1>2, CoresAre DEF Controller!NothingSaved, Controller!NothingBefore, Controller!ResetWdt,
     AllWdts, AllSaved
<1>5. GicTypes'
  BY <1>1, <1>2, <1>3, <1>4 DEF GicTypes
<1>6. Groups'
  BY <1>1, <1>2, <1>3, <1>4 DEF Groups
<1>7. \A c \in owed' : sgi'[c].pending
  BY <1>1, <1>2, <1>3 DEF Calls
<1> QED
  BY <1>2, <1>5, <1>6, <1>7, AwakeKept

-----------------------------------------------------------------------------
LEMMA GicStarts == ASSUME Controller!Init PROVE GicInv
<1>0. 0 \in Cores
  BY CoresAre DEF Cores
<1>1. /\ cpu_logical_map = [c \in Cores |-> Controller!CPU_LOGIC_MAP_RESET_VAL]
      /\ core = [c \in Cores |-> "off"]
      /\ sgi = [c \in Cores |-> [group |-> 0, on |-> FALSE, pending |-> FALSE]]
      /\ ppi = {} /\ wdt = [group |-> 0, on |-> FALSE]
      /\ rdist_has_saved = {} /\ owed = {} /\ sys = [at |-> "cold", todo |-> {}]
      /\ saved = [sgi |-> {}, group |-> 0, on |-> FALSE, ppi |-> FALSE,
                  wdt |-> [group |-> 0, on |-> FALSE]]
      /\ before = [wdt |-> [group |-> 0, on |-> FALSE], ppi |-> [c \in Cores |-> FALSE]]
  BY CoresAre DEF Controller!Init, Controller!ResetSgi, Controller!ResetWdt,
                  Controller!NothingSaved, Controller!NothingBefore
<1>2. GicTypes
  BY <1>1 DEF GicTypes, AllSgis, AllWdts, AllSaved
<1>3. Groups
  BY <1>1 DEF Groups
<1> QED
  BY <1>1, <1>2, <1>3 DEF GicInv, OneRuns, Calls, Settings

\* Every step of the controller keeps the invariant.
LEMMA GicKeeps == ASSUME GicInv, [Controller!Next]_gic PROVE GicInv'
<1>1. ASSUME Controller!Next PROVE GicInv'
  <2>1. CASE \/ Controller!gic_setup \/ Controller!mask_wdt_fiq
             \/ Controller!SuspendBegin \/ Controller!Resume \/ Controller!ResumeEnd
    BY <2>1, GicSetupKeeps, MaskKeeps, SuspendKeeps, ResumeKeeps, ResumeEndKeeps
  <2>2. CASE \/ Controller!gic_sgi_save_all \/ Controller!gic_dist_save \/ Controller!gic_rdist_save
             \/ Controller!gic_sgi_restore_all \/ Controller!gic_dist_restore
    BY <2>2, SaveAllKeeps, DistSaveKeeps, RdistSaveKeeps, RestoreAllKeeps, DistRestoreKeeps
  <2>3. CASE Controller!gic_rdist_restore
    <3>1. /\ sys.at = "restoring" /\ Controller!Step("rdist")
          /\ IF Last \in rdist_has_saved THEN Controller!RestorePrivate({Last})
             ELSE UNCHANGED <<sgi, ppi>>
          /\ UNCHANGED <<wdt, saved, rdist_has_saved, before>>
      BY <2>3 DEF Controller!gic_rdist_restore, Last
    <3>2. CASE Controller!RestorePrivate({Last})
      BY <3>1, <3>2, RdistRestoreKeeps
    <3>3. CASE UNCHANGED <<sgi, ppi>>
      <4>1. GicTypes /\ Groups /\ Calls /\ Settings
        BY DEF GicInv
      <4>2. GicTypes'
        BY <3>1, <3>3, <4>1, StepDoes DEF GicTypes
      <4>3. Groups' /\ Calls'
        BY <3>1, <3>3, <4>1, StepDoes DEF Groups, Calls
      <4>4. Settings'
        BY <3>1, <3>3, <4>1, StepDoes, SuspendedStep DEF Settings
      <4> QED
        BY <3>1, <4>2, <4>3, <4>4, SuspendedStep DEF GicInv
    <3> QED
      BY <3>1, <3>2, <3>3
  <2>4. CASE Controller!gic_rdist_restore_all
    <3>1. /\ sys.at = "restoring" /\ Controller!Step("rdist") /\ Controller!RestorePrivate(Cores)
          /\ UNCHANGED <<wdt, saved, rdist_has_saved, before>>
      BY <2>4, CoresAre DEF Controller!gic_rdist_restore_all
    <3> QED
      BY <3>1, RdistRestoreKeeps
  <2>5. ASSUME NEW c \in Cores,
               \/ Controller!CpuOn(c) \/ Controller!CpuifReady(c)
               \/ Controller!gic_cpuif_deactivate(c) \/ Controller!SetPpi(c)
               \/ Controller!TakeFiq(c) \/ Controller!IdleSave(c) \/ Controller!IdleRestore(c)
        PROVE  GicInv'
    BY <2>5, CpuOnKeeps, CpuifReadyKeeps, DeactivateKeeps, SetPpiKeeps, TakeFiqKeeps,
       IdleSaveKeeps, IdleRestoreKeeps
  <2>6. ASSUME NEW map \in SUBSET Cores, Controller!irq_raise_softirq(map) PROVE GicInv'
    BY <2>6, RaiseKeeps
  <2> QED
    BY <1>1, <2>1, <2>2, <2>3, <2>4, <2>5, <2>6, CoresAre DEF Controller!Next
<1>2. ASSUME UNCHANGED gic PROVE GicInv'
  <2>1. UNCHANGED <<cpu_logical_map, core, sgi, ppi, wdt, saved, rdist_has_saved,
                    sys, owed, before>>
    BY <1>2 DEF gic
  <2>2. Last' = Last
    BY <2>1, LastStays
  <2>3. GicTypes' /\ Groups' /\ Calls'
    BY <2>1 DEF GicInv, GicTypes, Groups, Calls
  <2>4. OneRuns' /\ Settings'
    BY <2>1, <2>2 DEF GicInv, OneRuns, Settings
  <2> QED
    BY <2>3, <2>4 DEF GicInv
<1> QED
  BY <1>1, <1>2

LEMMA GicGives == GicInv => CallsAreNotLost /\ SettingsSurvive
<1> SUFFICES ASSUME GicInv PROVE CallsAreNotLost /\ SettingsSurvive
  OBVIOUS
<1>1. GicTypes /\ Groups /\ Calls /\ Settings
  BY DEF GicInv
<1>2. Controller!TypeOK
  BY <1>1, CoresAre DEF Controller!TypeOK, GicTypes, AllSgis, AllWdts
<1>3. CallsAreNotLost
  BY <1>1, <1>2 DEF CallsAreNotLost, Controller!CallsAreNotLost, Calls
<1>4. SettingsSurvive
  BY <1>1, CoresAre DEF SettingsSurvive, Controller!SettingsSurvive, Groups, Settings, Last
<1> QED
  BY <1>3, <1>4

\* What the composition does to one part.
LEMMA GicSteps == [MCNext]_<<which, vars, gic, meta>> => [Controller!Next]_gic
  BY DEF MCNext

\* A software interrupt that irq_raise_softirq raised for a core is pending
\* until the core takes it, while it is off and over a suspend, whatever the
\* number of cores and their clusters.
THEOREM CallsSurvive == MCSpec => []CallsAreNotLost
<1>1. MCInit => GicInv
  BY GicStarts DEF MCInit
<1>2. GicInv /\ [MCNext]_<<which, vars, gic, meta>> => GicInv'
  BY GicKeeps, GicSteps
<1>3. GicInv => CallsAreNotLost
  BY GicGives
<1> QED
  BY <1>1, <1>2, <1>3, PTL DEF MCSpec

\* The watchdog and the private interrupts of the core that suspends the
\* system are after it what they were, in whatever order they are saved and
\* restored, and all that must reach the monitor is in group 0.
THEOREM SettingsAreRestored == MCSpec => []SettingsSurvive
<1>1. MCInit => GicInv
  BY GicStarts DEF MCInit
<1>2. GicInv /\ [MCNext]_<<which, vars, gic, meta>> => GicInv'
  BY GicKeeps, GicSteps
<1>3. GicInv => SettingsSurvive
  BY GicGives
<1> QED
  BY <1>1, <1>2, <1>3, PTL DEF MCSpec

-----------------------------------------------------------------------------
(* The factory interface *)

Resps == [ptr : Addrs, size : OutSizes, id : 1..MaxRuns]
Tools == [at : {"idle", "sent", "answer"},
          cmd : Factory!Cmds \cup {"none", "RECV_FILE", "SEND_FILE", "READ_CMD_RESPONSE"},
          file : Files \cup {"none"}, ptr : Addrs \cup {NoAddr}, size : 0..100,
          id : 0..MaxRuns, r : {"none", "success", "failed"}, did : BOOLEAN, got : 0..MaxRuns]

MetaTypes ==
    /\ heap \in [Addrs -> 0..100] /\ psize \in -1..100 /\ runs \in 0..MaxRuns
    /\ cmd_resps \subseteq Resps /\ unread \subseteq Resps
    /\ files \in [Files -> {"none", "part", "whole"}]
    /\ tool \in Tools /\ lost \subseteq 1..MaxRuns

\* The blocks in use of heap h are buffer a and the outputs kept.
InUse(h, a, rs) ==
    /\ \A x \in rs : h[x.ptr] = x.size /\ x.ptr # a
    /\ \A c \in Addrs : h[c] # 0 => c = a \/ \E x \in rs : x.ptr = c
Distinct(rs) == \A x, y \in rs : x.ptr = y.ptr \/ x.id = y.id => x = y

\* The only command whose answer can be said to have the size -1
MayBeUnread == tool.cmd = "SEND_FILE" /\ tool.file = "device.finish"

Buffer ==
    /\ InUse(heap, pbuf, cmd_resps)
    /\ IF tool.at = "idle" THEN pbuf = NoAddr
       ELSE pbuf \in Addrs /\ heap[pbuf] # 0 /\ psize <= heap[pbuf]
    /\ psize = -1 => tool.at = "answer" /\ tool.r = "success" /\ MayBeUnread

\* The outputs have an address and a number each.
Outputs == Distinct(cmd_resps) /\ \A x \in cmd_resps : x.id <= runs

\* A read is of the output that is entered under its address, unless that one
\* was read before and its answer lost.
Reads ==
    /\ tool.at = "sent" /\ tool.cmd = "READ_CMD_RESPONSE" =>
          /\ tool.size \in OutSizes
          /\ tool.id \notin lost => \E x \in cmd_resps : x.ptr = tool.ptr /\ x.id = tool.id
    /\ tool.got # 0 => tool.at = "answer" /\ (tool.id \notin lost => tool.got = tool.id)

Told == \A u \in unread : u \in cmd_resps \/ tool.got = u.id \/ u.id \in lost

MetaInv == MetaTypes /\ Buffer /\ Outputs /\ Reads /\ Told

-----------------------------------------------------------------------------
LEMMA Ranges ==
    /\ Sizes \subseteq 1..100 /\ OutSizes \subseteq 1..100 /\ MaxRuns \in Nat
    /\ NoAddr \notin Addrs
    /\ \A x \in Resps : /\ x.ptr \in Addrs /\ x.size \in OutSizes /\ x.id \in 1..MaxRuns
                        /\ x.size \in 1..100 /\ x.id # 0
<1>1. /\ Sizes \subseteq 1..100 /\ OutSizes \subseteq 1..100 /\ MaxRuns \in Nat
      /\ NoAddr \notin Addrs
  BY PlatformAssumption DEF PlatformAssumption
<1>2. \A x \in Resps : x.ptr \in Addrs /\ x.size \in OutSizes /\ x.id \in 1..MaxRuns
  BY DEF Resps
<1>3. \A i \in 1..MaxRuns : i # 0
  BY <1>1
<1>4. \A x \in Resps : x.size \in 1..100 /\ x.id # 0
  BY <1>1, <1>2, <1>3
<1> QED
  BY <1>1, <1>2, <1>4

\* The buffer a handler works in has room for the header.
LEMMA BufferIs ==
    ASSUME MetaInv, tool.at = "sent", NEW b \in Factory!Buffers
    PROVE  /\ Factory!Capacity \in 16..100
           /\ b.addr \in Addrs /\ b.heap \in [Addrs -> 0..100]
           /\ Factory!Capacity <= b.heap[b.addr]
           /\ InUse(b.heap, b.addr, cmd_resps)
<1>1. MetaTypes /\ Buffer
  BY DEF MetaInv
<1>2. /\ heap \in [Addrs -> 0..100] /\ psize \in 0..100 /\ cmd_resps \subseteq Resps
      /\ pbuf \in Addrs /\ heap[pbuf] # 0 /\ psize <= heap[pbuf]
      /\ InUse(heap, pbuf, cmd_resps)
  <2>1. \A n \in -1..100 : n # -1 => n \in 0..100
    OBVIOUS
  <2> QED
    BY <1>1, <2>1 DEF MetaTypes, Buffer
<1>3. Factory!Capacity = IF psize < 16 THEN 16 ELSE psize
  BY DEF Factory!Capacity, Factory!HeaderSize
<1> DEFINE cap == Factory!Capacity
<1>4. cap \in 16..100 /\ (psize < cap \/ cap = psize)
  BY <1>2, <1>3
<1> HIDE DEF cap
<1>5. CASE psize < cap
  <2>1. PICK g \in Addrs : /\ heap[g] = 0
                           /\ b = [addr |-> g, heap |-> [heap EXCEPT ![g] = cap, ![pbuf] = 0]]
    BY <1>5 DEF Factory!Buffers, Factory!Free, cap
  <2>2. g # pbuf
    BY <1>2, <2>1
  <2>3. /\ b.heap \in [Addrs -> 0..100] /\ b.addr = g
        /\ \A a \in Addrs : b.heap[a] = IF a = g THEN cap ELSE IF a = pbuf THEN 0 ELSE heap[a]
    BY <1>2, <1>4, <2>1, <2>2
  <2>4. \A x \in cmd_resps : x.ptr \in Addrs /\ x.size # 0
    BY <1>2, Ranges
  <2>5. \A x \in cmd_resps : b.heap[x.ptr] = x.size /\ x.ptr # b.addr
    BY <1>2, <2>1, <2>3, <2>4 DEF InUse
  <2>6. \A c \in Addrs : b.heap[c] # 0 => c = b.addr \/ \E x \in cmd_resps : x.ptr = c
    BY <1>2, <2>3 DEF InUse
  <2> QED
    BY <1>4, <2>3, <2>5, <2>6 DEF InUse, cap
<1>6. CASE cap = psize
  <2>1. b = [addr |-> pbuf, heap |-> heap]
    BY <1>2, <1>6 DEF Factory!Buffers, cap
  <2> QED
    BY <1>2, <1>4, <1>6, <2>1 DEF cap
<1> QED
  BY <1>4, <1>5, <1>6

\* What a handler makes of the heap and the entries.
HeapTo(b) ==
    /\ heap' \in [Addrs -> 0..100] /\ heap'[b.addr] = b.heap[b.addr]
    /\ InUse(heap', b.addr, cmd_resps')
    /\ cmd_resps' \subseteq Resps /\ cmd_resps \subseteq cmd_resps'
    /\ unread' \subseteq Resps /\ unread' \subseteq unread \cup cmd_resps'
    /\ Distinct(cmd_resps') /\ \A x \in cmd_resps' : x.id <= runs'

\* A handler may leave them alone, ...
LEMMA KeepDoes ==
    ASSUME MetaInv, tool.at = "sent", NEW b \in Factory!Buffers, heap' = b.heap,
           UNCHANGED <<cmd_resps, unread>>, runs' \in {runs, runs + 1}
    PROVE  HeapTo(b)
<1>1. MetaTypes /\ Outputs
  BY DEF MetaInv
<1>2. \A x \in cmd_resps : x.id <= runs'
  BY <1>1, Ranges DEF MetaTypes, Outputs
<1> QED
  BY <1>1, <1>2, BufferIs DEF HeapTo, MetaTypes, Outputs

\* ... or store an output, in a block and under a number of its own.
LEMMA StoreDoes ==
    ASSUME MetaInv, tool.at = "sent", NEW b \in Factory!Buffers, NEW out \in OutSizes,
           runs < MaxRuns, runs' = runs + 1, Factory!Store(b, out)
    PROVE  HeapTo(b)
<1>1. MetaTypes /\ Outputs
  BY DEF MetaInv
<1>2. CASE heap' = b.heap /\ UNCHANGED <<cmd_resps, unread>>
  BY <1>2, KeepDoes
<1>3. ASSUME NEW a \in Addrs, b.heap[a] = 0, heap' = [b.heap EXCEPT ![a] = out],
             NEW n, n = [ptr |-> a, size |-> out, id |-> runs'],
             cmd_resps' = cmd_resps \cup {n}, unread' = unread \cup {n}
      PROVE  HeapTo(b)
  <2>1. /\ b.addr \in Addrs /\ b.heap \in [Addrs -> 0..100] /\ b.heap[b.addr] # 0
        /\ InUse(b.heap, b.addr, cmd_resps)
    BY BufferIs
  <2>2. /\ cmd_resps \subseteq Resps /\ unread \subseteq Resps /\ runs \in 0..MaxRuns
        /\ out \in 1..100 /\ runs' \in 1..MaxRuns
    BY <1>1, Ranges DEF MetaTypes
  <2>3. n \in Resps /\ n.ptr = a /\ n.size = out /\ n.id = runs'
    BY <1>3, <2>2 DEF Resps
  <2>4. \A x \in cmd_resps : x.ptr \in Addrs /\ x.size # 0 /\ x.id \in Nat
    BY <2>2, Ranges
  <2>5. \A x \in cmd_resps : x.ptr # a /\ x.id < runs'
    BY <1>1, <1>3, <2>1, <2>2, <2>4 DEF InUse, Outputs
  <2>6. /\ heap' \in [Addrs -> 0..100] /\ a # b.addr
        /\ \A c \in Addrs : heap'[c] = IF c = a THEN out ELSE b.heap[c]
    BY <1>3, <2>1, <2>2
  <2>7. InUse(heap', b.addr, cmd_resps')
    <3>1. \A x \in cmd_resps' : heap'[x.ptr] = x.size /\ x.ptr # b.addr
      BY <1>3, <2>1, <2>3, <2>4, <2>5, <2>6 DEF InUse
    <3>2. \A c \in Addrs : heap'[c] # 0 => c = b.addr \/ \E x \in cmd_resps' : x.ptr = c
      BY <1>3, <2>1, <2>3, <2>6 DEF InUse
    <3> QED
      BY <3>1, <3>2 DEF InUse
  <2>8. Distinct(cmd_resps') /\ \A x \in cmd_resps' : x.id <= runs'
    BY <1>1, <1>3, <2>2, <2>3, <2>4, <2>5 DEF Outputs, Distinct
  <2>9. /\ cmd_resps' \subseteq Resps /\ unread' \subseteq Resps
        /\ cmd_resps \subseteq cmd_resps' /\ unread' \subseteq unread \cup cmd_resps'
    BY <1>3, <2>2, <2>3
  <2> QED
    BY <2>1, <2>6, <2>7, <2>8, <2>9 DEF HeapTo
<1> QED
  BY <1>2, <1>3 DEF Factory!Store

\* The sizes of an answer: -1 where device.finish cannot be read.
AnswerSizes == 0..Factory!Capacity \cup {n \in {-1} : MayBeUnread}

\* A handler that answers with one of them keeps the invariant.
LEMMA AnswerKeeps ==
    ASSUME MetaInv, tool.at = "sent", NEW b \in Factory!Buffers, HeapTo(b),
           runs' \in 0..MaxRuns, files' \in [Files -> {"none", "part", "whole"}], lost' = lost,
           \/ Factory!Fail(b)
           \/ \E n \in AnswerSizes, did \in BOOLEAN : Factory!Succeed(b, n, did)
    PROVE  MetaInv'
<1>1. MetaTypes /\ Reads /\ Told
  BY DEF MetaInv
<1>2. /\ Factory!Capacity \in 16..100 /\ b.addr \in Addrs
      /\ b.heap[b.addr] \in 0..100 /\ Factory!Capacity <= b.heap[b.addr]
  BY BufferIs
<1>3. /\ pbuf' = b.addr /\ psize' \in AnswerSizes
      /\ tool' \in Tools /\ tool'.at = "answer" /\ tool'.got = tool.got
      /\ tool'.id = tool.id /\ tool'.cmd = tool.cmd /\ tool'.file = tool.file
      /\ psize' = -1 => tool'.r = "success"
  <2>1. tool \in Tools
    BY <1>1 DEF MetaTypes
  <2>2. CASE Factory!Fail(b)
    <3>1. /\ pbuf' = b.addr /\ psize' = 16
          /\ tool' = [tool EXCEPT !.at = "answer", !.r = "failed"]
      BY <2>2 DEF Factory!Fail, Factory!HeaderSize
    <3>2. psize' \in AnswerSizes
      BY <1>2, <3>1 DEF AnswerSizes
    <3>3. /\ tool' \in Tools /\ tool'.at = "answer" /\ tool'.got = tool.got
          /\ tool'.id = tool.id /\ tool'.cmd = tool.cmd /\ tool'.file = tool.file
      BY <2>1, <3>1 DEF Tools
    <3> QED
      BY <3>1, <3>2, <3>3
  <2>3. ASSUME NEW n \in AnswerSizes, NEW did \in BOOLEAN, Factory!Succeed(b, n, did)
        PROVE  /\ pbuf' = b.addr /\ psize' \in AnswerSizes
               /\ tool' \in Tools /\ tool'.at = "answer" /\ tool'.got = tool.got
               /\ tool'.id = tool.id /\ tool'.cmd = tool.cmd /\ tool'.file = tool.file
               /\ tool'.r = "success"
    BY <2>1, <2>3 DEF Factory!Succeed, Tools
  <2> QED
    BY <2>2, <2>3
<1>4. tool.got = 0
  BY <1>1 DEF Reads
<1>5. MetaTypes'
  <2>1. psize' \in -1..100
    BY <1>2, <1>3 DEF AnswerSizes
  <2> QED
    BY <1>1, <1>3, <2>1 DEF MetaTypes, HeapTo
<1>6. Buffer'
  <2>1. /\ psize' <= b.heap[b.addr] /\ b.heap[b.addr] # 0
        /\ psize' = -1 => MayBeUnread
    <3>1. psize' \in 0..Factory!Capacity \/ (psize' = -1 /\ MayBeUnread)
      BY <1>3 DEF AnswerSizes
    <3>2. 0 <= b.heap[b.addr] /\ b.heap[b.addr] \in Int /\ b.heap[b.addr] # 0
      BY <1>2
    <3>3. CASE psize' \in 0..Factory!Capacity
      BY <1>2, <3>2, <3>3
    <3>4. CASE psize' = -1 /\ MayBeUnread
      BY <3>2, <3>4
    <3> QED
      BY <3>1, <3>3, <3>4
  <2> QED
    BY <1>2, <1>3, <2>1 DEF Buffer, HeapTo, MayBeUnread
<1>7. Outputs' /\ Reads'
  BY <1>3, <1>4 DEF Outputs, Reads, HeapTo
<1>8. Told'
  <2>1. \A u \in unread : u \in cmd_resps \/ u.id \in lost
    BY <1>1, <1>4, Ranges DEF Told, MetaTypes
  <2> QED
    BY <2>1 DEF Told, HeapTo
<1> QED
  BY <1>5, <1>6, <1>7, <1>8 DEF MetaInv

-----------------------------------------------------------------------------
(* The handlers *)

\* A command that runs kph or, as generic_execute, keeps the output whatever
\* the status.
LEMMA RunKeeps ==
    ASSUME MetaInv, NEW c, NEW fields, NEW needsFile, Factory!RunKph(c, fields, needsFile)
    PROVE  MetaInv'
<1>1. MetaTypes
  BY DEF MetaInv
<1>2. tool.at = "sent" /\ files' = files /\ lost' = lost
  BY DEF Factory!RunKph, Factory!Sent
<1>3. PICK b \in Factory!Buffers :
          \/ /\ heap' = b.heap /\ Factory!Fail(b)
             /\ UNCHANGED <<cmd_resps, runs, unread>>
          \/ \E e \in Factory!Ends, out \in OutSizes :
                /\ runs < MaxRuns /\ runs' = runs + 1
                /\ IF e = "ok" THEN heap' = b.heap /\ UNCHANGED <<cmd_resps, unread>>
                   ELSE Factory!Store(b, out)
                /\ Factory!Ran(b, e = "ok", e)
  BY DEF Factory!RunKph
<1>4. files' \in [Files -> {"none", "part", "whole"}]
  BY <1>1, <1>2 DEF MetaTypes
<1>5. CASE heap' = b.heap /\ Factory!Fail(b) /\ UNCHANGED <<cmd_resps, runs, unread>>
  <2>1. HeapTo(b) /\ runs' \in 0..MaxRuns
    BY <1>1, <1>2, <1>5, KeepDoes DEF MetaTypes
  <2> QED
    BY <1>2, <1>4, <1>5, <2>1, AnswerKeeps
<1>6. ASSUME NEW e \in Factory!Ends, NEW out \in OutSizes,
             runs < MaxRuns, runs' = runs + 1,
             IF e = "ok" THEN heap' = b.heap /\ UNCHANGED <<cmd_resps, unread>>
                ELSE Factory!Store(b, out),
             Factory!Ran(b, e = "ok", e)
      PROVE  MetaInv'
  <2>1. HeapTo(b)
    BY <1>2, <1>6, KeepDoes, StoreDoes
  <2>2. runs' \in 0..MaxRuns
    BY <1>1, <1>6, Ranges DEF MetaTypes
  <2>3. Factory!Fail(b) \/ Factory!Succeed(b, Factory!Capacity, e = "ok")
    BY <1>6 DEF Factory!Ran
  <2>4. Factory!Capacity \in AnswerSizes /\ (e = "ok") \in BOOLEAN
    BY <1>2, BufferIs DEF AnswerSizes
  <2> QED
    BY <1>2, <1>4, <2>1, <2>2, <2>3, <2>4, AnswerKeeps
<1> QED
  BY <1>3, <1>5, <1>6

LEMMA GenericKeeps == ASSUME MetaInv, Factory!HandleGeneric PROVE MetaInv'
<1>1. MetaTypes
  BY DEF MetaInv
<1>2. tool.at = "sent" /\ files' = files /\ lost' = lost
  BY DEF Factory!HandleGeneric, Factory!Sent
<1>3. PICK b \in Factory!Buffers :
          \/ heap' = b.heap /\ Factory!Fail(b) /\ UNCHANGED <<cmd_resps, runs, unread>>
          \/ \E out \in OutSizes :
                /\ runs < MaxRuns /\ runs' = runs + 1
                /\ Factory!Store(b, out) /\ Factory!Succeed(b, Factory!HeaderSize, TRUE)
  BY DEF Factory!HandleGeneric
<1>4. files' \in [Files -> {"none", "part", "whole"}]
  BY <1>1, <1>2 DEF MetaTypes
<1>5. CASE heap' = b.heap /\ Factory!Fail(b) /\ UNCHANGED <<cmd_resps, runs, unread>>
  <2>1. HeapTo(b) /\ runs' \in 0..MaxRuns
    BY <1>1, <1>2, <1>5, KeepDoes DEF MetaTypes
  <2> QED
    BY <1>2, <1>4, <1>5, <2>1, AnswerKeeps
<1>6. ASSUME NEW out \in OutSizes, runs < MaxRuns, runs' = runs + 1,
             Factory!Store(b, out), Factory!Succeed(b, Factory!HeaderSize, TRUE)
      PROVE  MetaInv'
  <2>1. HeapTo(b)
    BY <1>2, <1>6, StoreDoes
  <2>2. runs' \in 0..MaxRuns
    BY <1>1, <1>6, Ranges DEF MetaTypes
  <2>3. Factory!HeaderSize \in AnswerSizes
    BY <1>2, BufferIs DEF Factory!HeaderSize, AnswerSizes
  <2> QED
    BY <1>2, <1>4, <1>6, <2>1, <2>2, <2>3, AnswerKeeps
<1> QED
  BY <1>3, <1>5, <1>6

\* A command that leaves heap and entries alone, and answers with a size the
\* buffer has.
LEMMA PlainKeeps ==
    ASSUME MetaInv, tool.at = "sent", NEW b \in Factory!Buffers, heap' = b.heap,
           UNCHANGED <<cmd_resps, runs, unread, lost>>,
           files' \in [Files -> {"none", "part", "whole"}],
           \/ Factory!Fail(b)
           \/ \E n \in AnswerSizes : Factory!Succeed(b, n, TRUE)
    PROVE  MetaInv'
<1>1. HeapTo(b) /\ runs' \in 0..MaxRuns
  BY KeepDoes DEF MetaInv, MetaTypes
<1> QED
  BY <1>1, AnswerKeeps

LEMMA QueryKeeps ==
    ASSUME MetaInv, NEW c, NEW need, NEW sizes, Factory!Query(c, need, sizes),
           tool.at = "sent" /\ Factory!Capacity >= need => sizes \subseteq AnswerSizes
    PROVE  MetaInv'
<1>1. tool.at = "sent" /\ UNCHANGED <<cmd_resps, files, runs, unread, lost>>
  BY DEF Factory!Query, Factory!Sent
<1>2. files' \in [Files -> {"none", "part", "whole"}]
  BY <1>1 DEF MetaInv, MetaTypes
<1>3. PICK b \in Factory!Buffers :
          /\ heap' = b.heap
          /\ \/ Factory!Fail(b)
             \/ Factory!Capacity >= need /\ \E n \in sizes : Factory!Succeed(b, n, TRUE)
  BY DEF Factory!Query
<1> QED
  BY <1>1, <1>2, <1>3, PlainKeeps

LEMMA CapacityIs == MetaInv /\ tool.at = "sent" => Factory!Capacity \in 16..100
  BY DEF MetaInv, MetaTypes, Buffer, Factory!Capacity, Factory!HeaderSize

\* Every command that answers in the buffer keeps to its size.
LEMMA QueriesKeep ==
    ASSUME MetaInv,
           \/ Factory!get_version \/ Factory!get_device_pl_status
           \/ Factory!get_device_truststore \/ Factory!get_sn_chipid
           \/ Factory!program_cert \/ Factory!revoke_cert
    PROVE  MetaInv'
<1> DEFINE cap == Factory!Capacity
<1>1. CASE Factory!get_version
  <2>1. tool.at = "sent" => {3} \subseteq AnswerSizes
    BY CapacityIs DEF AnswerSizes
  <2> QED
    BY <1>1, <2>1, QueryKeeps DEF Factory!get_version
<1>2. CASE Factory!get_device_pl_status
  <2>1. tool.at = "sent" /\ cap >= 6 * Factory!IntSize + 32 =>
            {6 * Factory!IntSize, 6 * Factory!IntSize + 32} \subseteq AnswerSizes
    BY CapacityIs DEF Factory!IntSize, AnswerSizes
  <2> QED
    BY <1>2, <2>1, QueryKeeps DEF Factory!get_device_pl_status
<1>3. CASE Factory!get_device_truststore
  <2>1. tool.at = "sent" => {3 * Factory!IntSize} \subseteq AnswerSizes
    BY CapacityIs DEF Factory!IntSize, AnswerSizes
  <2> QED
    BY <1>3, <2>1, QueryKeeps DEF Factory!get_device_truststore
<1>4. CASE Factory!get_sn_chipid
  <2> DEFINE answers == {n + m + 2 * Factory!IntSize :
                           n \in Factory!get_serialno, m \in Factory!get_rid}
             fit == {n \in answers : n <= cap}
  <2>1. answers \subseteq Nat
    BY DEF Factory!get_serialno, Factory!get_rid, Factory!SerialLens, Factory!RidLen,
       Factory!IntSize
  <2>2. Factory!Query("GET_SN_CHIPID", 0, fit)
    BY <1>4 DEF Factory!get_sn_chipid
  <2>3. tool.at = "sent" => fit \subseteq AnswerSizes
    BY <2>1, CapacityIs DEF AnswerSizes
  <2> QED
    BY <2>2, <2>3, QueryKeeps
<1>5. CASE Factory!program_cert
  <2>1. tool.at = "sent" => {Factory!IntSize} \subseteq AnswerSizes
    BY CapacityIs DEF Factory!IntSize, AnswerSizes
  <2> QED
    BY <1>5, <2>1, QueryKeeps DEF Factory!program_cert
<1>6. CASE Factory!revoke_cert
  <2>1. tool.at = "sent" => {cap} \subseteq AnswerSizes
    BY CapacityIs DEF AnswerSizes
  <2> QED
    BY <1>6, <2>1, QueryKeeps DEF Factory!revoke_cert
<1> QED
  BY <1>1, <1>2, <1>3, <1>4, <1>5, <1>6

LEMMA AlwaysKeeps == ASSUME MetaInv, NEW c, Factory!Always(c) PROVE MetaInv'
<1>1. tool.at = "sent" /\ UNCHANGED <<cmd_resps, files, runs, unread, lost>>
  BY DEF Factory!Always, Factory!Sent
<1>2. files' \in [Files -> {"none", "part", "whole"}]
  BY <1>1 DEF MetaInv, MetaTypes
<1>3. Factory!Capacity \in AnswerSizes
  BY <1>1, CapacityIs DEF AnswerSizes
<1>4. \E b \in Factory!Buffers : heap' = b.heap /\ Factory!Succeed(b, Factory!Capacity, TRUE)
  BY DEF Factory!Always
<1> QED
  BY <1>1, <1>2, <1>3, <1>4, PlainKeeps

LEMMA FilesKeep ==
    ASSUME MetaInv, Factory!HandleRecvFile \/ Factory!HandleSendFile
    PROVE  MetaInv'
<1>1. tool.at = "sent" /\ UNCHANGED <<cmd_resps, runs, unread, lost>>
  BY DEF Factory!HandleRecvFile, Factory!HandleSendFile, Factory!Sent
<1>2. Factory!Capacity \in AnswerSizes
  BY <1>1, CapacityIs DEF AnswerSizes
<1>3. files \in [Files -> {"none", "part", "whole"}]
  BY DEF MetaInv, MetaTypes
<1>4. files' \in [Files -> {"none", "part", "whole"}]
  <2>1. \/ files' = files \/ files' = [files EXCEPT ![tool.file] = "whole"]
        \/ files' = [files EXCEPT ![tool.file] = "part"]
    BY DEF Factory!HandleRecvFile, Factory!HandleSendFile
  <2> QED
    BY <1>3, <2>1
<1>5. \E b \in Factory!Buffers :
          /\ heap' = b.heap
          /\ Factory!Fail(b) \/ \E n \in AnswerSizes : Factory!Succeed(b, n, TRUE)
  <2>1. ASSUME NEW n \in FileSizes
        PROVE  (IF n < Factory!Capacity THEN n ELSE Factory!Capacity) \in AnswerSizes
    <3>1. n \in Nat /\ Factory!Capacity \in 16..100
      BY <1>1, CapacityIs, PlatformAssumption DEF PlatformAssumption
    <3> QED
      BY <3>1 DEF AnswerSizes
  <2>2. ASSUME Factory!Sent("SEND_FILE"), tool.file = "device.finish" PROVE -1 \in AnswerSizes
    BY <2>2 DEF Factory!Sent, AnswerSizes, MayBeUnread
  <2>3. CASE Factory!HandleRecvFile
    BY <1>2, <2>3 DEF Factory!HandleRecvFile
  <2>4. CASE Factory!HandleSendFile
    <3>1. Factory!read_file(tool.file) \subseteq AnswerSizes
      BY <2>1, <2>2, <2>4 DEF Factory!read_file, Factory!HandleSendFile
    <3> QED
      BY <2>4, <3>1 DEF Factory!HandleSendFile
  <2> QED
    BY <2>3, <2>4
<1> QED
  BY <1>1, <1>4, <1>5, PlainKeeps

-----------------------------------------------------------------------------
(* The tool, and its reads *)

\* The tool's command, in a new buffer.
LEMMA SendKeeps ==
    ASSUME MetaInv, NEW c \in Factory!Cmds \cup {"RECV_FILE", "SEND_FILE", "READ_CMD_RESPONSE"},
           NEW t \in Tools, Factory!Sends(c, t), t.got = 0,
           c = "READ_CMD_RESPONSE" =>
               t.size \in OutSizes /\ \E x \in unread : x.ptr = t.ptr /\ x.id = t.id
    PROVE  MetaInv'
<1>1. MetaTypes /\ Buffer /\ Outputs /\ Reads /\ Told
  BY DEF MetaInv
<1>2. PICK a \in Addrs, s \in Sizes :
          /\ heap[a] = 0 /\ heap' = [heap EXCEPT ![a] = s]
          /\ pbuf' = a /\ psize' = s
  BY DEF Factory!Sends, Factory!Free
<1>3. /\ tool.at = "idle" /\ tool' = [t EXCEPT !.at = "sent", !.cmd = c]
      /\ UNCHANGED <<cmd_resps, files, runs, unread, lost>>
  BY DEF Factory!Sends
<1>4. /\ heap \in [Addrs -> 0..100] /\ cmd_resps \subseteq Resps /\ unread \subseteq Resps
      /\ s \in 1..100 /\ pbuf = NoAddr /\ InUse(heap, pbuf, cmd_resps)
  BY <1>1, <1>3, Ranges DEF MetaTypes, Buffer
<1>5. tool.got = 0
  BY <1>1, <1>3 DEF Reads
<1>6. /\ tool' \in Tools /\ tool'.at = "sent" /\ tool'.cmd = c /\ tool'.got = 0
      /\ tool'.ptr = t.ptr /\ tool'.size = t.size /\ tool'.id = t.id
  BY <1>3 DEF Tools
<1>7. /\ heap' \in [Addrs -> 0..100]
      /\ \A d \in Addrs : heap'[d] = IF d = a THEN s ELSE heap[d]
  BY <1>2, <1>4
<1>8. MetaTypes'
  <2>1. psize' \in -1..100
    BY <1>2, <1>4
  <2> QED
    BY <1>1, <1>3, <1>6, <1>7, <2>1 DEF MetaTypes
<1>9. Buffer'
  <2>1. \A x \in cmd_resps : x.ptr \in Addrs /\ x.size # 0
    BY <1>4, Ranges
  <2>2. \A x \in cmd_resps : heap'[x.ptr] = x.size /\ x.ptr # a
    BY <1>2, <1>4, <1>7, <2>1 DEF InUse
  <2>3. \A d \in Addrs : heap'[d] # 0 => d = a \/ \E x \in cmd_resps : x.ptr = d
    BY <1>4, <1>7, Ranges DEF InUse
  <2>4. a \in Addrs /\ heap'[a] # 0 /\ s <= heap'[a] /\ s # -1
    BY <1>4, <1>7
  <2> QED
    BY <1>2, <1>3, <1>6, <2>2, <2>3, <2>4 DEF Buffer, InUse
<1>10. Outputs' /\ Told'
  BY <1>1, <1>3, <1>5, <1>6 DEF Outputs, Told
<1>11. Reads'
  <2>1. \A x \in unread : x \in cmd_resps \/ x.id \in lost
    BY <1>1, <1>4, <1>5, Ranges DEF Told
  <2> QED
    BY <1>3, <1>6, <2>1 DEF Reads
<1> QED
  BY <1>8, <1>9, <1>10, <1>11 DEF MetaInv

LEMMA SendCommandKeeps == ASSUME MetaInv, Factory!SendCommand PROVE MetaInv'
<1>1. MetaTypes
  BY DEF MetaInv
<1>2. Factory!NoTool \in Tools /\ Factory!NoTool.got = 0
  BY Ranges DEF Factory!NoTool, Tools
<1>3. ASSUME NEW c \in Factory!Cmds, Factory!Sends(c, Factory!NoTool) PROVE MetaInv'
  <2>1. c # "READ_CMD_RESPONSE"
    BY DEF Factory!Cmds, Factory!KphCmds
  <2> QED
    BY <1>2, <1>3, <2>1, SendKeeps
<1>4. ASSUME NEW c \in {"RECV_FILE", "SEND_FILE"}, NEW f \in Files,
             Factory!Sends(c, [Factory!NoTool EXCEPT !.file = f])
      PROVE  MetaInv'
  <2>1. /\ [Factory!NoTool EXCEPT !.file = f] \in Tools
        /\ [Factory!NoTool EXCEPT !.file = f].got = 0
    BY <1>2 DEF Tools
  <2> QED
    BY <1>4, <2>1, SendKeeps
<1>5. ASSUME NEW u \in unread, NEW s \in OutSizes, s <= u.size,
             Factory!Sends("READ_CMD_RESPONSE",
                           [Factory!NoTool EXCEPT !.ptr = u.ptr, !.size = s, !.id = u.id])
      PROVE  MetaInv'
  <2> DEFINE t == [Factory!NoTool EXCEPT !.ptr = u.ptr, !.size = s, !.id = u.id]
  <2>1. u.ptr \in Addrs /\ u.id \in 0..MaxRuns /\ s \in 0..100
    BY <1>1, Ranges DEF MetaTypes
  <2>2. t \in Tools /\ t.got = 0 /\ t.size = s /\ t.ptr = u.ptr /\ t.id = u.id
    BY <1>2, <2>1 DEF Tools
  <2> HIDE DEF t
  <2>3. Factory!Sends("READ_CMD_RESPONSE", t)
    BY <1>5 DEF t
  <2> QED
    BY <2>2, <2>3, SendKeeps
<1> QED
  BY <1>3, <1>4, <1>5 DEF Factory!SendCommand

\* readcmdresp: what is read is the output the tool asked for, and its block
\* is the answer's.
LEMMA ReadKeeps == ASSUME MetaInv, Factory!HandleRead PROVE MetaInv'
<1>1. MetaTypes /\ Buffer /\ Outputs /\ Reads /\ Told
  BY DEF MetaInv
<1>2. /\ tool.at = "sent" /\ tool.cmd = "READ_CMD_RESPONSE"
      /\ UNCHANGED <<files, runs, unread, lost>>
  BY DEF Factory!HandleRead, Factory!Sent
<1>3. PICK b \in Factory!Buffers :
          \/ heap' = b.heap /\ Factory!Fail(b) /\ UNCHANGED cmd_resps
          \/ \E x \in Factory!Entry, p \in {a \in Addrs : b.heap[a] = 0} :
                /\ x.size <= tool.size
                /\ cmd_resps' = Factory!Erased(x)
                /\ heap' = [b.heap EXCEPT ![p] = tool.size, ![x.ptr] = 0, ![b.addr] = 0]
                /\ pbuf' = p /\ psize' = x.size
                /\ tool' = [tool EXCEPT !.at = "answer", !.r = "success", !.did = TRUE,
                                        !.got = x.id]
  BY DEF Factory!HandleRead, Factory!Refused
<1>4. CASE heap' = b.heap /\ Factory!Fail(b) /\ UNCHANGED cmd_resps
  <2>1. files' \in [Files -> {"none", "part", "whole"}]
    BY <1>1, <1>2 DEF MetaTypes
  <2> QED
    BY <1>2, <1>4, <2>1, PlainKeeps
<1>5. ASSUME NEW x \in cmd_resps, x.ptr = tool.ptr, NEW p \in Addrs, b.heap[p] = 0,
             x.size <= tool.size, cmd_resps' = cmd_resps \ {x},
             heap' = [b.heap EXCEPT ![p] = tool.size, ![x.ptr] = 0, ![b.addr] = 0],
             pbuf' = p, psize' = x.size,
             tool' = [tool EXCEPT !.at = "answer", !.r = "success", !.did = TRUE, !.got = x.id]
      PROVE  MetaInv'
  <2>1. /\ b.addr \in Addrs /\ b.heap \in [Addrs -> 0..100] /\ b.heap[b.addr] # 0
        /\ InUse(b.heap, b.addr, cmd_resps)
    BY <1>2, BufferIs
  <2>2. /\ cmd_resps \subseteq Resps /\ unread \subseteq Resps /\ tool \in Tools
        /\ tool.size \in OutSizes /\ tool.size \in 1..100
    BY <1>1, <1>2, Ranges DEF MetaTypes, Reads
  <2>3. \A y \in cmd_resps : /\ y.ptr \in Addrs /\ y.size \in 1..100 /\ y.id \in 1..MaxRuns
                             /\ y.id # 0
    BY <2>2, Ranges
  <2>4. (tool.id \notin lost => x.id = tool.id) /\ x.ptr # b.addr /\ x.ptr # p /\ b.addr # p
    BY <1>1, <1>2, <1>5, <2>1, <2>3 DEF Reads, Outputs, Distinct, InUse
  <2>5. /\ heap' \in [Addrs -> 0..100]
        /\ \A a \in Addrs : heap'[a] = IF a = p THEN tool.size
                                       ELSE IF a = x.ptr \/ a = b.addr THEN 0 ELSE b.heap[a]
    BY <1>5, <2>1, <2>2, <2>3, <2>4
  <2>6. /\ tool' \in Tools /\ tool'.at = "answer" /\ tool'.got = x.id /\ tool'.id = tool.id
    <3>1. x.id \in 0..MaxRuns
      BY <2>3
    <3> QED
      BY <1>5, <2>2, <3>1 DEF Tools
  <2>7. MetaTypes'
    <3>1. psize' \in -1..100 /\ cmd_resps' \subseteq Resps
      BY <1>5, <2>2, <2>3
    <3> QED
      BY <1>1, <1>2, <2>5, <2>6, <3>1 DEF MetaTypes
  <2>8. Buffer'
    <3>1. \A y \in cmd_resps' : heap'[y.ptr] = y.size /\ y.ptr # p
      <4>1. ASSUME NEW y \in cmd_resps' PROVE heap'[y.ptr] = y.size /\ y.ptr # p
        <5>1. y \in cmd_resps /\ y # x
          BY <1>5
        <5>2. y.ptr # x.ptr /\ y.ptr # b.addr /\ b.heap[y.ptr] = y.size /\ y.ptr \in Addrs
          BY <1>1, <2>1, <2>3, <5>1 DEF Outputs, Distinct, InUse
        <5>3. y.ptr # p
          BY <1>5, <2>3, <5>1, <5>2
        <5> QED
          BY <2>5, <5>2, <5>3
      <4> QED
        BY <4>1
    <3>2. \A a \in Addrs : heap'[a] # 0 => a = p \/ \E y \in cmd_resps' : y.ptr = a
      BY <1>5, <2>1, <2>5 DEF InUse
    <3>3. p \in Addrs /\ heap'[p] # 0 /\ x.size <= heap'[p] /\ x.size # -1
      BY <1>5, <2>2, <2>3, <2>5
    <3> QED
      BY <1>5, <2>6, <3>1, <3>2, <3>3 DEF Buffer, InUse
  <2>9. Outputs'
    BY <1>1, <1>2, <1>5 DEF Outputs, Distinct
  <2>10. Reads'
    BY <1>2, <2>4, <2>6 DEF Reads
  <2>11. Told'
    <3>1. tool.got = 0
      BY <1>1, <1>2 DEF Reads
    <3>2. \A u \in unread : u \in cmd_resps \/ u.id \in lost
      BY <1>1, <2>2, <3>1, Ranges DEF Told
    <3> QED
      BY <1>2, <1>5, <2>6, <3>2 DEF Told
  <2> QED
    BY <2>7, <2>8, <2>9, <2>10, <2>11 DEF MetaInv
<1> QED
  BY <1>3, <1>4, <1>5 DEF Factory!Entry, Factory!Erased

LEMMA NoAnswerKeeps == ASSUME MetaInv, Factory!NoAnswer PROVE MetaInv'
<1>1. MetaTypes /\ Buffer /\ Outputs /\ Reads /\ Told
  BY DEF MetaInv
<1>2. /\ tool.at = "sent" /\ tool' = [tool EXCEPT !.at = "answer", !.r = "none"]
      /\ UNCHANGED <<heap, cmd_resps, pbuf, psize, files, runs, unread, lost>>
  BY DEF Factory!NoAnswer
<1>3. tool' \in Tools /\ tool'.at = "answer" /\ tool'.got = tool.got
  BY <1>1, <1>2 DEF MetaTypes, Tools
<1>4. tool.got = 0
  BY <1>1, <1>2 DEF Reads
<1>5. MetaTypes'
  BY <1>1, <1>2, <1>3 DEF MetaTypes
<1>6. Buffer'
  BY <1>1, <1>2, <1>3 DEF Buffer
<1>7. Outputs' /\ Reads' /\ Told'
  BY <1>1, <1>2, <1>3, <1>4 DEF Outputs, Reads, Told
<1> QED
  BY <1>5, <1>6, <1>7 DEF MetaInv

LEMMA TakeKeeps == ASSUME MetaInv, Factory!TakeAnswer PROVE MetaInv'
<1>1. MetaTypes /\ Buffer /\ Outputs /\ Reads /\ Told
  BY DEF MetaInv
<1>2. /\ tool.at = "answer" /\ heap' = [heap EXCEPT ![pbuf] = 0]
      /\ pbuf' = NoAddr /\ psize' = 0 /\ tool' = Factory!NoTool
      /\ \/ /\ unread' = {u \in unread : tool.got = 0 \/ u.id # tool.id}
            /\ lost' = lost \cup ({tool.got} \ {0, tool.id})
         \/ unread' = unread /\ lost' = lost \cup ({tool.got} \ {0})
      /\ UNCHANGED <<cmd_resps, files, runs>>
  BY DEF Factory!TakeAnswer
<1>3. /\ tool' \in Tools /\ tool'.at = "idle" /\ tool'.got = 0
  BY <1>2, Ranges DEF Factory!NoTool, Tools
<1>4. /\ heap \in [Addrs -> 0..100] /\ cmd_resps \subseteq Resps /\ unread \subseteq Resps
      /\ pbuf \in Addrs /\ InUse(heap, pbuf, cmd_resps)
  BY <1>1, <1>2 DEF MetaTypes, Buffer
<1>5. /\ heap' \in [Addrs -> 0..100]
      /\ \A a \in Addrs : heap'[a] = IF a = pbuf THEN 0 ELSE heap[a]
  BY <1>2, <1>4
<1>6. MetaTypes'
  <2>1. tool.got \in 0..MaxRuns
    BY <1>1 DEF MetaTypes, Tools
  <2>2. lost' \subseteq 1..MaxRuns
    <3>1. \A i \in 0..MaxRuns : i # 0 => i \in 1..MaxRuns
      BY Ranges
    <3>2. lost \subseteq 1..MaxRuns
      BY <1>1 DEF MetaTypes
    <3>3. \A i \in lost' : i \in lost \/ (i = tool.got /\ i # 0)
      BY <1>2
    <3> QED
      BY <2>1, <3>1, <3>2, <3>3
  <2>3. unread' \subseteq unread /\ psize' \in -1..100
    BY <1>2
  <2> QED
    BY <1>1, <1>2, <1>3, <1>5, <2>2, <2>3 DEF MetaTypes
<1>7. Buffer'
  <2>1. \A x \in cmd_resps : x.ptr \in Addrs
    BY <1>4, Ranges
  <2>2. \A x \in cmd_resps : heap'[x.ptr] = x.size /\ x.ptr # NoAddr
    BY <1>4, <1>5, <2>1, Ranges DEF InUse
  <2>3. \A a \in Addrs : heap'[a] # 0 => \E x \in cmd_resps : x.ptr = a
    BY <1>4, <1>5 DEF InUse
  <2> QED
    BY <1>2, <1>3, <2>2, <2>3 DEF Buffer, InUse
<1>8. Outputs' /\ Reads'
  BY <1>1, <1>2, <1>3 DEF Outputs, Reads
<1>9. Told'
  <2>1. ASSUME NEW u \in unread' PROVE u \in cmd_resps \/ u.id \in lost'
    <3>1. u \in unread /\ u.id # 0
      BY <1>2, <1>4, <2>1, Ranges
    <3>2. u \in cmd_resps \/ tool.got = u.id \/ u.id \in lost
      BY <1>1, <3>1 DEF Told
    <3>3. tool.got = u.id => u.id \in lost'
      BY <1>2, <2>1, <3>1
    <3> QED
      BY <1>2, <3>2, <3>3
  <2> QED
    BY <1>2, <2>1 DEF Told
<1> QED
  BY <1>6, <1>7, <1>8, <1>9 DEF MetaInv

-----------------------------------------------------------------------------
LEMMA MetaStarts == ASSUME Factory!Init PROVE MetaInv
<1>1. /\ heap = [a \in Addrs |-> 0] /\ cmd_resps = {} /\ pbuf = NoAddr /\ psize = 0
      /\ files = [f \in Files |-> "none"] /\ runs = 0 /\ tool = Factory!NoTool /\ unread = {}
      /\ lost = {}
  BY DEF Factory!Init
<1>2. tool \in Tools /\ tool.at = "idle" /\ tool.got = 0
  BY <1>1, Ranges DEF Factory!NoTool, Tools
<1>3. MetaTypes
  BY <1>1, <1>2, Ranges DEF MetaTypes
<1> QED
  BY <1>1, <1>2, <1>3 DEF MetaInv, Buffer, InUse, Outputs, Distinct, Reads, Told

\* Every step of the factory interface keeps the invariant.
LEMMA MetaKeeps ==
    ASSUME MetaInv, [Factory!Next]_meta
    PROVE  MetaInv'
<1>1. CASE \/ Factory!kph_import_config \/ Factory!kph_import_ta_data \/ Factory!kph_import_ta_key
           \/ Factory!kph_gen_key \/ Factory!kph_export_key \/ Factory!kph_export_device_inf
  BY <1>1, RunKeeps DEF Factory!kph_import_config, Factory!kph_import_ta_data,
     Factory!kph_import_ta_key, Factory!kph_gen_key, Factory!kph_export_key,
     Factory!kph_export_device_inf
<1>2. CASE \/ Factory!get_version \/ Factory!get_device_pl_status
           \/ Factory!get_device_truststore \/ Factory!get_sn_chipid
           \/ Factory!program_cert \/ Factory!revoke_cert
  BY <1>2, QueriesKeep
<1>3. CASE Factory!wait_for_device \/ Factory!shutdown_device
  BY <1>3, AlwaysKeeps DEF Factory!wait_for_device, Factory!shutdown_device
<1>4. CASE \/ Factory!HandleGeneric \/ Factory!HandleRecvFile \/ Factory!HandleSendFile
           \/ Factory!HandleRead
  BY <1>4, GenericKeeps, FilesKeep, ReadKeeps
<1>5. CASE Factory!SendCommand \/ Factory!NoAnswer \/ Factory!TakeAnswer
  BY <1>5, SendCommandKeeps, NoAnswerKeeps, TakeKeeps
<1>6. CASE UNCHANGED meta
  BY <1>6 DEF meta, MetaInv, MetaTypes, Buffer, MayBeUnread, Outputs, Reads, Told
<1> QED
  BY <1>1, <1>2, <1>3, <1>4, <1>5, <1>6 DEF Factory!Next

-----------------------------------------------------------------------------
\* The cardinality of Meta's FiniteSets is that of this module's.
LEMMA CardinalityIs == ASSUME NEW S PROVE Factory!Cardinality(S) = Cardinality(S)
  BY DEF Factory!Cardinality, Cardinality

\* Distinct entries are as many as their addresses.
LEMMA EntriesCount ==
    ASSUME MetaInv
    PROVE  LET ptrs == {x.ptr : x \in cmd_resps}
           IN  IsFiniteSet(ptrs) /\ Cardinality(cmd_resps) = Cardinality(ptrs)
<1> DEFINE ptrs == {x.ptr : x \in cmd_resps}
           f == [q \in ptrs |-> CHOOSE x \in cmd_resps : x.ptr = q]
<1>1. cmd_resps \subseteq Resps /\ Distinct(cmd_resps)
  BY DEF MetaInv, MetaTypes, Outputs
<1>2. ptrs \in SUBSET Addrs
  BY <1>1, Ranges
<1>3. IsFiniteSet(ptrs)
  BY <1>2, FS_Subset, PlatformAssumption DEF PlatformAssumption
<1>4. \A x \in cmd_resps : x.ptr \in ptrs /\ f[x.ptr] = x
  BY <1>1 DEF Distinct
<1>5. \A q \in ptrs : f[q] \in cmd_resps /\ f[q].ptr = q
  BY <1>4
<1>6. f \in Bijection(ptrs, cmd_resps)
  <2>1. f \in [ptrs -> cmd_resps]
    BY <1>5
  <2> HIDE DEF f
  <2> QED
    BY <1>4, <1>5, <2>1 DEF Bijection, Injection, IsInjective, Surjection
<1>7. ExistsBijection(ptrs, cmd_resps)
  BY <1>6 DEF ExistsBijection
<1> QED
  BY <1>3, <1>7, FS_Bijection

\* The invariant is stronger than the two properties.
LEMMA MetaGives ==
    ASSUME MetaInv
    PROVE  AnswerFits /\ OutputIsKept
<1>1. MetaTypes /\ Buffer /\ Outputs /\ Reads /\ Told
  BY DEF MetaInv
<1> DEFINE ptrs == {x.ptr : x \in cmd_resps}
           used == {a \in Addrs : heap[a] # 0}
<1>2. /\ cmd_resps \subseteq Resps /\ InUse(heap, pbuf, cmd_resps)
      /\ \A x \in cmd_resps : x.ptr \in Addrs /\ x.size # 0
  BY <1>1, Ranges DEF MetaTypes, Buffer
<1>3. IsFiniteSet(ptrs) /\ Cardinality(cmd_resps) = Cardinality(ptrs)
  BY EntriesCount
<1>4. Cardinality(used) = Cardinality(cmd_resps) + (IF pbuf = NoAddr THEN 0 ELSE 1)
  <2>1. CASE pbuf = NoAddr
    <3>1. used = ptrs
      BY <1>2, <2>1, Ranges DEF InUse
    <3>2. Cardinality(ptrs) \in Nat
      BY <1>3, FS_CardinalityType
    <3> HIDE DEF used, ptrs
    <3> QED
      BY <1>3, <2>1, <3>1, <3>2
  <2>2. CASE pbuf # NoAddr
    <3>1. pbuf \in Addrs /\ heap[pbuf] # 0 /\ pbuf \notin ptrs
      BY <1>1, <1>2, <2>2 DEF Buffer, InUse
    <3>2. used = ptrs \cup {pbuf}
      BY <1>2, <3>1 DEF InUse
    <3> HIDE DEF used, ptrs
    <3>3. Cardinality(used) = Cardinality(ptrs) + 1
      BY <1>3, <3>1, <3>2, FS_AddElement
    <3> QED
      BY <1>3, <2>2, <3>3
  <2> QED
    BY <2>1, <2>2
<1>5. Factory!TypeOK
  <2>1. pbuf \in Addrs \cup {NoAddr}
    BY <1>1 DEF Buffer
  <2>2. /\ tool.at \in {"idle", "sent", "answer"} /\ tool.r \in {"none", "success", "failed"}
    BY <1>1 DEF MetaTypes, Tools
  <2> QED
    BY <1>1, <2>1, <2>2 DEF Factory!TypeOK, MetaTypes, Resps
<1>6. pbuf # NoAddr => psize \in 0..heap[pbuf] \/ Factory!FinishUnread
  <2>1. \A n \in -1..100 : n # -1 => n \in 0..100
    OBVIOUS
  <2>2. psize # -1 => psize \in 0..100
    BY <1>1, <2>1 DEF MetaTypes
  <2>3. psize = -1 => Factory!FinishUnread
    BY <1>1 DEF Buffer, MayBeUnread, Factory!FinishUnread
  <2>4. ASSUME pbuf # NoAddr, psize # -1 PROVE psize \in 0..heap[pbuf]
    <3>1. pbuf \in Addrs /\ psize <= heap[pbuf] /\ heap[pbuf] \in 0..100
      BY <1>1, <2>4 DEF Buffer, MetaTypes
    <3> QED
      BY <2>2, <2>4, <3>1
  <2> QED
    BY <2>3, <2>4
<1>7. \A x, y \in cmd_resps : x.ptr = y.ptr => x = y
  BY <1>1 DEF Outputs, Distinct
<1>8. /\ Factory!Cardinality(used) = Cardinality(used)
      /\ Factory!Cardinality(cmd_resps) = Cardinality(cmd_resps)
  BY CardinalityIs
<1>9. AnswerFits
  <2> HIDE DEF ptrs
  <2> QED
    BY <1>2, <1>4, <1>5, <1>6, <1>7, <1>8 DEF AnswerFits, Factory!AnswerFits, InUse
<1>10. OutputIsKept
  BY <1>1 DEF OutputIsKept, Factory!OutputIsKept, Reads, Told
<1> QED
  BY <1>9, <1>10

LEMMA MetaSteps == [MCNext]_<<which, vars, gic, meta>> => [Factory!Next]_meta
  BY DEF MCNext

\* Every answer of handle_trustkernel_meta_command is in an allocated buffer
\* that is as large as it is said to be, but for a device.finish that could not
\* be read, and every block of the heap is that buffer or an output with an
\* entry.
THEOREM AnswersFit == MCSpec => []AnswerFits
<1>1. MCInit => MetaInv
  BY MetaStarts DEF MCInit
<1>2. MetaInv /\ [MCNext]_<<which, vars, gic, meta>> => MetaInv'
  BY MetaKeeps, MetaSteps
<1>3. MetaInv => AnswerFits
  BY MetaGives
<1> QED
  BY <1>1, <1>2, <1>3, PTL DEF MCSpec

\* An output the tool was told of is entered until the tool has read it, and
\* what a read returns is the output of the command that named it; answers may
\* be lost on the way, and only the outputs of reads that were are excepted.
THEOREM OutputsAreKept == MCSpec => []OutputIsKept
<1>1. MCInit => MetaInv
  BY MetaStarts DEF MCInit
<1>2. MetaInv /\ [MCNext]_<<which, vars, gic, meta>> => MetaInv'
  BY MetaKeeps, MetaSteps
<1>3. MetaInv => OutputIsKept
  BY MetaGives
<1> QED
  BY <1>1, <1>2, <1>3, PTL DEF MCSpec
=============================================================================
