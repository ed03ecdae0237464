----------------------------- MODULE SmcXferProofs -----------------------------
(***************************************************************************)
(* Proofs about SmcXfer for any number of driver threads and of threads of *)
(* the Trusted OS: the mutex serves one SMC at a time, no command is left  *)
(* suspended, and every waiter is counted or about to be woken.            *)
(***************************************************************************)
EXTENDS SmcXfer, FiniteSetTheorems, TLAPS

\* The threads that stand in one of the places S.
In(S) == {t \in Threads : pc[t] \in S}

Locked == {"smc", "secure", "ret", "unlock"}
Sent == {"lock", "smc", "secure", "ret"}
Nat3 == {nr_unbound_cmds, nr_waiting_cmds, xfer_wait_queue} \subseteq Nat

Typed ==
    /\ xfer_lock \in Threads \cup {NoThread}
    /\ pc \in [Threads -> PC] /\ a0 \in [Threads -> Calls \cup Results]
    /\ kind \in [Threads -> Kinds] /\ rpcs \in [Threads -> 0..MaxRpc]
    /\ tee \in [Threads -> {"none", "running", "done"}]

\* The lock is held between the SMC and its return; a command the Trusted OS
\* keeps suspended is one whose request is handled or whose resumption is sent.
ThreadInv(t) ==
    /\ pc[t] \in Locked <=> xfer_lock = t
    /\ tee[t] = "running" =>
          \/ pc[t] \in {"inc", "lock", "smc", "secure"} /\ a0[t] = "return_from_rpc"
          \/ pc[t] \in {"ret", "unlock", "decide", "rpc"} /\ a0[t] \in Requests

\* nr_unbound_cmds counts the SMCs that are sent and not returned; a waiter
\* that sleeps is counted, or its wake-up is on the way.
Counts ==
    /\ Nat3
    /\ nr_unbound_cmds = Cardinality(In(Sent))
    /\ nr_waiting_cmds + xfer_wait_queue + Cardinality(In({"up"})) = Cardinality(In({"down"}))

Inv == Typed /\ Counts /\ \A t \in Threads : ThreadInv(t)

-----------------------------------------------------------------------------
(* Counting *)

Sign(S, p) == IF p \in S THEN 1 ELSE 0

LEMMA InFinite ==
    ASSUME NEW S
    PROVE  /\ IsFiniteSet(In(S)) /\ Cardinality(In(S)) \in Nat
           /\ Cardinality(In(S)) <= Cardinality(Threads)
<1>1. In(S) \in SUBSET Threads
  BY DEF In
<1> QED
  BY <1>1, XferAssumption, FS_Subset, FS_CardinalityType DEF XferAssumption

\* A thread that moves from one place to another is counted where it comes to
\* and not where it was.
LEMMA MoveCounts ==
    ASSUME pc \in [Threads -> PC], NEW t \in Threads, NEW to,
           pc' = [pc EXCEPT ![t] = to], NEW S
    PROVE  Cardinality(In(S)') = Cardinality(In(S)) + Sign(S, to) - Sign(S, pc[t])
<1>0. IsFiniteSet(In(S)) /\ Cardinality(In(S)) \in Nat
  BY InFinite
<1>1. CASE to \in S
  <2>1. In(S)' = In(S) \cup {t}
    BY <1>1 DEF In
  <2>2. t \in In(S) <=> pc[t] \in S
    BY DEF In
  <2>3. Cardinality(In(S) \cup {t}) =
            IF t \in In(S) THEN Cardinality(In(S)) ELSE Cardinality(In(S)) + 1
    BY <1>0, FS_AddElement
  <2>4. Sign(S, to) = 1 /\ Sign(S, pc[t]) = IF t \in In(S) THEN 1 ELSE 0
    BY <1>1, <2>2 DEF Sign
  <2> QED
    BY <1>0, <2>1, <2>3, <2>4
<1>2. CASE to \notin S
  <2>1. In(S)' = In(S) \ {t}
    BY <1>2 DEF In
  <2>2. t \in In(S) <=> pc[t] \in S
    BY DEF In
  <2>3. Cardinality(In(S) \ {t}) =
            IF t \in In(S) THEN Cardinality(In(S)) - 1 ELSE Cardinality(In(S))
    BY <1>0, FS_RemoveElement
  <2>4. Sign(S, to) = 0 /\ Sign(S, pc[t]) = IF t \in In(S) THEN 1 ELSE 0
    BY <1>2, <2>2 DEF Sign
  <2> QED
    BY <1>0, <2>1, <2>3, <2>4
<1> QED
  BY <1>1, <1>2

LEMMA Moves ==
    ASSUME Inv, NEW t \in Threads, NEW from \in PC, NEW to \in PC, Goto(t, from, to)
    PROVE  /\ pc[t] = from /\ pc' = [pc EXCEPT ![t] = to] /\ pc' \in [Threads -> PC]
           /\ Cardinality(In(Sent)') = Cardinality(In(Sent)) + Sign(Sent, to) - Sign(Sent, from)
           /\ Cardinality(In({"up"})') =
                  Cardinality(In({"up"})) + Sign({"up"}, to) - Sign({"up"}, from)
           /\ Cardinality(In({"down"})') =
                  Cardinality(In({"down"})) + Sign({"down"}, to) - Sign({"down"}, from)
           /\ Cardinality(In(Sent)) \in Nat /\ Cardinality(In({"up"})) \in Nat
           /\ Cardinality(In({"down"})) \in Nat
<1>1. pc \in [Threads -> PC] /\ pc[t] = from /\ pc' = [pc EXCEPT ![t] = to]
  BY DEF Goto, Inv, Typed
<1>2. pc' \in [Threads -> PC]
  BY <1>1
<1> QED
  BY <1>1, <1>2, MoveCounts, InFinite

\* What a step of one thread leaves of the others.
LEMMA OthersKeep ==
    ASSUME Inv, NEW t \in Threads, NEW u \in Threads, u # t,
           pc'[u] = pc[u], a0'[u] = a0[u], tee'[u] = tee[u],
           xfer_lock' = xfer_lock \/ {xfer_lock, xfer_lock'} \subseteq {t, NoThread}
    PROVE  ThreadInv(u)'
<1>1. ThreadInv(u) /\ NoThread \notin Threads
  BY XferAssumption DEF Inv, XferAssumption
<1> QED
  BY <1>1 DEF ThreadInv

LEMMA Beginning == Init => Inv
<1> SUFFICES ASSUME Init PROVE Inv
  OBVIOUS
<1>1. Typed
  BY XferAssumption DEF Init, Typed, PC, Calls, Results, IsRpc, Requests, Inside, XferAssumption
<1>2. In(Sent) = {} /\ In({"up"}) = {} /\ In({"down"}) = {}
  BY DEF Init, In, Sent
<1>3. Counts
  BY <1>2, FS_EmptySet DEF Init, Counts, Nat3
<1>4. \A t \in Threads : ThreadInv(t)
  BY XferAssumption DEF Init, ThreadInv, Locked, XferAssumption
<1> QED
  BY <1>1, <1>3, <1>4 DEF Inv

-----------------------------------------------------------------------------
(* One lemma for each step of a thread *)

LEMMA CallTeeKeeps == ASSUME Inv, NEW t \in Threads, CallTee(t) PROVE Inv'
<1> USE XferAssumption DEF XferAssumption, limit, secure, PC, Calls, Results, IsRpc, Requests, Inside
<1>1. Typed /\ Counts /\ ThreadInv(t) /\ Goto(t, "idle", "inc")
  BY DEF Inv, CallTee
<1>2. /\ pc[t] = "idle" /\ pc' = [pc EXCEPT ![t] = "inc"] /\ pc' \in [Threads -> PC]
      /\ Cardinality(In(Sent)') = Cardinality(In(Sent)) + 0 - 0
      /\ Cardinality(In({"up"})') = Cardinality(In({"up"})) + 0 - 0
      /\ Cardinality(In({"down"})') = Cardinality(In({"down"})) + 0 - 0
      /\ Cardinality(In(Sent)) \in Nat /\ Cardinality(In({"up"})) \in Nat
      /\ Cardinality(In({"down"})) \in Nat
  <2>1. /\ "idle" \in PC /\ "inc" \in PC
        /\ Sign(Sent, "idle") = 0 /\ Sign(Sent, "inc") = 0
        /\ Sign({"up"}, "idle") = 0 /\ Sign({"up"}, "inc") = 0
        /\ Sign({"down"}, "idle") = 0 /\ Sign({"down"}, "inc") = 0
    BY DEF Sign, Sent
  <2> HIDE DEF PC, Calls, Results, IsRpc, Requests, Inside
  <2> QED
    BY <1>1, <2>1, Moves
<1>3. Typed'
  BY <1>1, <1>2 DEF CallTee, Typed
<1>4. Counts'
  BY <1>1, <1>2 DEF CallTee, Counts, Nat3
<1>5. ThreadInv(t)'
  BY <1>1, <1>2 DEF CallTee, Typed, ThreadInv, Locked
<1>6. ASSUME NEW u \in Threads, u # t PROVE ThreadInv(u)'
  <2>1. pc'[u] = pc[u] /\ a0'[u] = a0[u] /\ tee'[u] = tee[u]
    BY <1>1, <1>2, <1>6 DEF CallTee, Typed
  <2>2. xfer_lock' = xfer_lock \/ {xfer_lock, xfer_lock'} \subseteq {t, NoThread}
    BY <1>1, <1>2 DEF CallTee, ThreadInv, Locked
  <2> QED
    BY <1>6, <2>1, <2>2, OthersKeep
<1> QED
  BY <1>3, <1>4, <1>5, <1>6 DEF Inv

LEMMA CountCommandKeeps == ASSUME Inv, NEW t \in Threads, CountCommand(t) PROVE Inv'
<1> USE XferAssumption DEF XferAssumption, limit, secure, PC, Calls, Results, IsRpc, Requests, Inside
<1>1. Typed /\ Counts /\ ThreadInv(t) /\ Goto(t, "inc", "lock")
  BY DEF Inv, CountCommand
<1>2. /\ pc[t] = "inc" /\ pc' = [pc EXCEPT ![t] = "lock"] /\ pc' \in [Threads -> PC]
      /\ Cardinality(In(Sent)') = Cardinality(In(Sent)) + 1 - 0
      /\ Cardinality(In({"up"})') = Cardinality(In({"up"})) + 0 - 0
      /\ Cardinality(In({"down"})') = Cardinality(In({"down"})) + 0 - 0
      /\ Cardinality(In(Sent)) \in Nat /\ Cardinality(In({"up"})) \in Nat
      /\ Cardinality(In({"down"})) \in Nat
  <2>1. /\ "inc" \in PC /\ "lock" \in PC
        /\ Sign(Sent, "inc") = 0 /\ Sign(Sent, "lock") = 1
        /\ Sign({"up"}, "inc") = 0 /\ Sign({"up"}, "lock") = 0
        /\ Sign({"down"}, "inc") = 0 /\ Sign({"down"}, "lock") = 0
    BY DEF Sign, Sent
  <2> HIDE DEF PC, Calls, Results, IsRpc, Requests, Inside
  <2> QED
    BY <1>1, <2>1, Moves
<1>3. Typed'
  BY <1>1, <1>2 DEF CountCommand, Typed
<1>4. Counts'
  BY <1>1, <1>2 DEF CountCommand, Counts, Nat3
<1>5. ThreadInv(t)'
  BY <1>1, <1>2 DEF CountCommand, Typed, ThreadInv, Locked
<1>6. ASSUME NEW u \in Threads, u # t PROVE ThreadInv(u)'
  <2>1. pc'[u] = pc[u] /\ a0'[u] = a0[u] /\ tee'[u] = tee[u]
    BY <1>1, <1>2, <1>6 DEF CountCommand, Typed
  <2>2. xfer_lock' = xfer_lock \/ {xfer_lock, xfer_lock'} \subseteq {t, NoThread}
    BY <1>1, <1>2 DEF CountCommand, ThreadInv, Locked
  <2> QED
    BY <1>6, <2>1, <2>2, OthersKeep
<1> QED
  BY <1>3, <1>4, <1>5, <1>6 DEF Inv

LEMMA LockXferKeeps == ASSUME Inv, NEW t \in Threads, LockXfer(t) PROVE Inv'
<1> USE XferAssumption DEF XferAssumption, limit, secure, PC, Calls, Results, IsRpc, Requests, Inside
<1>1. Typed /\ Counts /\ ThreadInv(t) /\ Goto(t, "lock", "smc")
  BY DEF Inv, LockXfer
<1>2. /\ pc[t] = "lock" /\ pc' = [pc EXCEPT ![t] = "smc"] /\ pc' \in [Threads -> PC]
      /\ Cardinality(In(Sent)') = Cardinality(In(Sent)) + 1 - 1
      /\ Cardinality(In({"up"})') = Cardinality(In({"up"})) + 0 - 0
      /\ Cardinality(In({"down"})') = Cardinality(In({"down"})) + 0 - 0
      /\ Cardinality(In(Sent)) \in Nat /\ Cardinality(In({"up"})) \in Nat
      /\ Cardinality(In({"down"})) \in Nat
  <2>1. /\ "lock" \in PC /\ "smc" \in PC
        /\ Sign(Sent, "lock") = 1 /\ Sign(Sent, "smc") = 1
        /\ Sign({"up"}, "lock") = 0 /\ Sign({"up"}, "smc") = 0
        /\ Sign({"down"}, "lock") = 0 /\ Sign({"down"}, "smc") = 0
    BY DEF Sign, Sent
  <2> HIDE DEF PC, Calls, Results, IsRpc, Requests, Inside
  <2> QED
    BY <1>1, <2>1, Moves
<1>3. Typed'
  BY <1>1, <1>2 DEF LockXfer, Typed
<1>4. Counts'
  BY <1>1, <1>2 DEF LockXfer, Counts, Nat3
<1>5. ThreadInv(t)'
  BY <1>1, <1>2 DEF LockXfer, Typed, ThreadInv, Locked
<1>6. ASSUME NEW u \in Threads, u # t PROVE ThreadInv(u)'
  <2>1. pc'[u] = pc[u] /\ a0'[u] = a0[u] /\ tee'[u] = tee[u]
    BY <1>1, <1>2, <1>6 DEF LockXfer, Typed
  <2>2. xfer_lock' = xfer_lock \/ {xfer_lock, xfer_lock'} \subseteq {t, NoThread}
    BY <1>1, <1>2 DEF LockXfer, ThreadInv, Locked
  <2> QED
    BY <1>6, <2>1, <2>2, OthersKeep
<1> QED
  BY <1>3, <1>4, <1>5, <1>6 DEF Inv

LEMMA EnterSecureKeeps == ASSUME Inv, NEW t \in Threads, EnterSecure(t) PROVE Inv'
<1> USE XferAssumption DEF XferAssumption, limit, secure, PC, Calls, Results, IsRpc, Requests, Inside
<1>1. Typed /\ Counts /\ ThreadInv(t) /\ Goto(t, "smc", "secure")
  BY DEF Inv, EnterSecure
<1>2. /\ pc[t] = "smc" /\ pc' = [pc EXCEPT ![t] = "secure"] /\ pc' \in [Threads -> PC]
      /\ Cardinality(In(Sent)') = Cardinality(In(Sent)) + 1 - 1
      /\ Cardinality(In({"up"})') = Cardinality(In({"up"})) + 0 - 0
      /\ Cardinality(In({"down"})') = Cardinality(In({"down"})) + 0 - 0
      /\ Cardinality(In(Sent)) \in Nat /\ Cardinality(In({"up"})) \in Nat
      /\ Cardinality(In({"down"})) \in Nat
  <2>1. /\ "smc" \in PC /\ "secure" \in PC
        /\ Sign(Sent, "smc") = 1 /\ Sign(Sent, "secure") = 1
        /\ Sign({"up"}, "smc") = 0 /\ Sign({"up"}, "secure") = 0
        /\ Sign({"down"}, "smc") = 0 /\ Sign({"down"}, "secure") = 0
    BY DEF Sign, Sent
  <2> HIDE DEF PC, Calls, Results, IsRpc, Requests, Inside
  <2> QED
    BY <1>1, <2>1, Moves
<1>3. Typed'
  BY <1>1, <1>2 DEF EnterSecure, Typed
<1>4. Counts'
  BY <1>1, <1>2 DEF EnterSecure, Counts, Nat3
<1>5. ThreadInv(t)'
  BY <1>1, <1>2 DEF EnterSecure, Typed, ThreadInv, Locked
<1>6. ASSUME NEW u \in Threads, u # t PROVE ThreadInv(u)'
  <2>1. pc'[u] = pc[u] /\ a0'[u] = a0[u] /\ tee'[u] = tee[u]
    BY <1>1, <1>2, <1>6 DEF EnterSecure, Typed
  <2>2. xfer_lock' = xfer_lock \/ {xfer_lock, xfer_lock'} \subseteq {t, NoThread}
    BY <1>1, <1>2 DEF EnterSecure, ThreadInv, Locked
  <2> QED
    BY <1>6, <2>1, <2>2, OthersKeep
<1> QED
  BY <1>3, <1>4, <1>5, <1>6 DEF Inv

LEMMA LeaveSecureKeeps == ASSUME Inv, NEW t \in Threads, LeaveSecure(t) PROVE Inv'
<1> USE XferAssumption DEF XferAssumption, limit, secure, PC, Calls, Results, IsRpc, Requests, Inside
<1>1. Typed /\ Counts /\ ThreadInv(t) /\ Goto(t, "secure", "ret")
  BY DEF Inv, LeaveSecure
<1>2. /\ pc[t] = "secure" /\ pc' = [pc EXCEPT ![t] = "ret"] /\ pc' \in [Threads -> PC]
      /\ Cardinality(In(Sent)') = Cardinality(In(Sent)) + 1 - 1
      /\ Cardinality(In({"up"})') = Cardinality(In({"up"})) + 0 - 0
      /\ Cardinality(In({"down"})') = Cardinality(In({"down"})) + 0 - 0
      /\ Cardinality(In(Sent)) \in Nat /\ Cardinality(In({"up"})) \in Nat
      /\ Cardinality(In({"down"})) \in Nat
  <2>1. /\ "secure" \in PC /\ "ret" \in PC
        /\ Sign(Sent, "secure") = 1 /\ Sign(Sent, "ret") = 1
        /\ Sign({"up"}, "secure") = 0 /\ Sign({"up"}, "ret") = 0
        /\ Sign({"down"}, "secure") = 0 /\ Sign({"down"}, "ret") = 0
    BY DEF Sign, Sent
  <2> HIDE DEF PC, Calls, Results, IsRpc, Requests, Inside
  <2> QED
    BY <1>1, <2>1, Moves
<1>7. \/ Finish(t)
      \/ Suspend(t)
      \/ tee[t] # "running" /\ \E r \in {"ethread_limit", "eresume", "unknown_function"} : Refuse(t, r)
  BY <1>1, <1>2 DEF LeaveSecure, TrustedOS, ThreadInv, Suspended
<1>8. /\ a0' = [a0 EXCEPT ![t] = a0'[t]] /\ tee' = [tee EXCEPT ![t] = tee'[t]]
      /\ rpcs' = [rpcs EXCEPT ![t] = rpcs'[t]]
      /\ a0'[t] \in Results /\ tee'[t] \in {"none", "running", "done"} /\ rpcs'[t] \in 0..MaxRpc
      /\ tee'[t] = "running" => a0'[t] \in Requests
  <2>1. CASE Finish(t)
    BY <1>1, <2>1 DEF Finish, Typed
  <2>2. CASE Suspend(t)
    BY <1>1, <2>2 DEF Suspend, Typed
  <2>3. CASE tee[t] # "running" /\ \E r \in {"ethread_limit", "eresume", "unknown_function"} : Refuse(t, r)
    BY <1>1, <2>3 DEF Refuse, Typed
  <2> QED
    BY <1>7, <2>1, <2>2, <2>3
<1>9. xfer_lock' = xfer_lock /\ nr_unbound_cmds' = nr_unbound_cmds /\ kind' = kind
      /\ nr_waiting_cmds' = nr_waiting_cmds /\ xfer_wait_queue' = xfer_wait_queue
  BY DEF LeaveSecure
<1>3. Typed'
  BY <1>1, <1>2, <1>8, <1>9 DEF Typed
<1>4. Counts'
  BY <1>1, <1>2 DEF LeaveSecure, Counts, Nat3
<1>5. ThreadInv(t)'
  BY <1>1, <1>2, <1>8, <1>9 DEF Typed, ThreadInv, Locked
<1>6. ASSUME NEW u \in Threads, u # t PROVE ThreadInv(u)'
  <2>1. pc'[u] = pc[u] /\ a0'[u] = a0[u] /\ tee'[u] = tee[u]
    BY <1>1, <1>2, <1>6, <1>8 DEF Typed
  <2>2. xfer_lock' = xfer_lock \/ {xfer_lock, xfer_lock'} \subseteq {t, NoThread}
    BY <1>1, <1>2 DEF LeaveSecure, ThreadInv, Locked
  <2> QED
    BY <1>6, <2>1, <2>2, OthersKeep
<1> QED
  BY <1>3, <1>4, <1>5, <1>6 DEF Inv

LEMMA ResumeInsideKeeps == ASSUME Inv, NEW t \in Threads, ResumeInside(t) PROVE Inv'
<1> USE XferAssumption DEF XferAssumption, limit, secure, PC, Calls, Results, IsRpc, Requests, Inside
<1>1. Typed /\ Counts /\ ThreadInv(t) /\ Goto(t, "ret", "smc")
  BY DEF Inv, ResumeInside
<1>2. /\ pc[t] = "ret" /\ pc' = [pc EXCEPT ![t] = "smc"] /\ pc' \in [Threads -> PC]
      /\ Cardinality(In(Sent)') = Cardinality(In(Sent)) + 1 - 1
      /\ Cardinality(In({"up"})') = Cardinality(In({"up"})) + 0 - 0
      /\ Cardinality(In({"down"})') = Cardinality(In({"down"})) + 0 - 0
      /\ Cardinality(In(Sent)) \in Nat /\ Cardinality(In({"up"})) \in Nat
      /\ Cardinality(In({"down"})) \in Nat
  <2>1. /\ "ret" \in PC /\ "smc" \in PC
        /\ Sign(Sent, "ret") = 1 /\ Sign(Sent, "smc") = 1
        /\ Sign({"up"}, "ret") = 0 /\ Sign({"up"}, "smc") = 0
        /\ Sign({"down"}, "ret") = 0 /\ Sign({"down"}, "smc") = 0
    BY DEF Sign, Sent
  <2> HIDE DEF PC, Calls, Results, IsRpc, Requests, Inside
  <2> QED
    BY <1>1, <2>1, Moves
<1>3. Typed'
  BY <1>1, <1>2 DEF ResumeInside, Typed
<1>4. Counts'
  BY <1>1, <1>2 DEF ResumeInside, Counts, Nat3
<1>5. ThreadInv(t)'
  BY <1>1, <1>2 DEF ResumeInside, Typed, ThreadInv, Locked
<1>6. ASSUME NEW u \in Threads, u # t PROVE ThreadInv(u)'
  <2>1. pc'[u] = pc[u] /\ a0'[u] = a0[u] /\ tee'[u] = tee[u]
    BY <1>1, <1>2, <1>6 DEF ResumeInside, Typed
  <2>2. xfer_lock' = xfer_lock \/ {xfer_lock, xfer_lock'} \subseteq {t, NoThread}
    BY <1>1, <1>2 DEF ResumeInside, ThreadInv, Locked
  <2> QED
    BY <1>6, <2>1, <2>2, OthersKeep
<1> QED
  BY <1>3, <1>4, <1>5, <1>6 DEF Inv

LEMMA SmcReturnKeeps == ASSUME Inv, NEW t \in Threads, SmcReturn(t) PROVE Inv'
<1> USE XferAssumption DEF XferAssumption, limit, secure, PC, Calls, Results, IsRpc, Requests, Inside
<1>1. Typed /\ Counts /\ ThreadInv(t) /\ Goto(t, "ret", "unlock")
  BY DEF Inv, SmcReturn
<1>2. /\ pc[t] = "ret" /\ pc' = [pc EXCEPT ![t] = "unlock"] /\ pc' \in [Threads -> PC]
      /\ Cardinality(In(Sent)') = Cardinality(In(Sent)) + 0 - 1
      /\ Cardinality(In({"up"})') = Cardinality(In({"up"})) + 0 - 0
      /\ Cardinality(In({"down"})') = Cardinality(In({"down"})) + 0 - 0
      /\ Cardinality(In(Sent)) \in Nat /\ Cardinality(In({"up"})) \in Nat
      /\ Cardinality(In({"down"})) \in Nat
  <2>1. /\ "ret" \in PC /\ "unlock" \in PC
        /\ Sign(Sent, "ret") = 1 /\ Sign(Sent, "unlock") = 0
        /\ Sign({"up"}, "ret") = 0 /\ Sign({"up"}, "unlock") = 0
        /\ Sign({"down"}, "ret") = 0 /\ Sign({"down"}, "unlock") = 0
    BY DEF Sign, Sent
  <2> HIDE DEF PC, Calls, Results, IsRpc, Requests, Inside
  <2> QED
    BY <1>1, <2>1, Moves
<1>3. Typed'
  BY <1>1, <1>2 DEF SmcReturn, Typed
<1>4. Counts'
  <2>1. In(Sent) # {}
    BY <1>2 DEF In, Sent
  <2>2. Cardinality(In(Sent)) # 0
    BY <2>1, InFinite, FS_EmptySet
  <2> QED
    BY <1>1, <1>2, <2>2 DEF SmcReturn, Counts, Nat3
<1>5. ThreadInv(t)'
  BY <1>1, <1>2 DEF SmcReturn, Typed, ThreadInv, Locked
<1>6. ASSUME NEW u \in Threads, u # t PROVE ThreadInv(u)'
  <2>1. pc'[u] = pc[u] /\ a0'[u] = a0[u] /\ tee'[u] = tee[u]
    BY <1>1, <1>2, <1>6 DEF SmcReturn, Typed
  <2>2. xfer_lock' = xfer_lock \/ {xfer_lock, xfer_lock'} \subseteq {t, NoThread}
    BY <1>1, <1>2 DEF SmcReturn, ThreadInv, Locked
  <2> QED
    BY <1>6, <2>1, <2>2, OthersKeep
<1> QED
  BY <1>3, <1>4, <1>5, <1>6 DEF Inv

LEMMA UnlockXferKeeps == ASSUME Inv, NEW t \in Threads, UnlockXfer(t) PROVE Inv'
<1> USE XferAssumption DEF XferAssumption, limit, secure, PC, Calls, Results, IsRpc, Requests, Inside
<1>1. Typed /\ Counts /\ ThreadInv(t) /\ Goto(t, "unlock", "decide")
  BY DEF Inv, UnlockXfer
<1>2. /\ pc[t] = "unlock" /\ pc' = [pc EXCEPT ![t] = "decide"] /\ pc' \in [Threads -> PC]
      /\ Cardinality(In(Sent)') = Cardinality(In(Sent)) + 0 - 0
      /\ Cardinality(In({"up"})') = Cardinality(In({"up"})) + 0 - 0
      /\ Cardinality(In({"down"})') = Cardinality(In({"down"})) + 0 - 0
      /\ Cardinality(In(Sent)) \in Nat /\ Cardinality(In({"up"})) \in Nat
      /\ Cardinality(In({"down"})) \in Nat
  <2>1. /\ "unlock" \in PC /\ "decide" \in PC
        /\ Sign(Sent, "unlock") = 0 /\ Sign(Sent, "decide") = 0
        /\ Sign({"up"}, "unlock") = 0 /\ Sign({"up"}, "decide") = 0
        /\ Sign({"down"}, "unlock") = 0 /\ Sign({"down"}, "decide") = 0
    BY DEF Sign, Sent
  <2> HIDE DEF PC, Calls, Results, IsRpc, Requests, Inside
  <2> QED
    BY <1>1, <2>1, Moves
<1>3. Typed'
  BY <1>1, <1>2 DEF UnlockXfer, Typed
<1>4. Counts'
  BY <1>1, <1>2 DEF UnlockXfer, Counts, Nat3
<1>5. ThreadInv(t)'
  BY <1>1, <1>2 DEF UnlockXfer, Typed, ThreadInv, Locked
<1>6. ASSUME NEW u \in Threads, u # t PROVE ThreadInv(u)'
  <2>1. pc'[u] = pc[u] /\ a0'[u] = a0[u] /\ tee'[u] = tee[u]
    BY <1>1, <1>2, <1>6 DEF UnlockXfer, Typed
  <2>2. xfer_lock' = xfer_lock \/ {xfer_lock, xfer_lock'} \subseteq {t, NoThread}
    BY <1>1, <1>2 DEF UnlockXfer, ThreadInv, Locked
  <2> QED
    BY <1>6, <2>1, <2>2, OthersKeep
<1> QED
  BY <1>3, <1>4, <1>5, <1>6 DEF Inv

LEMMA DecideWaitKeeps == ASSUME Inv, NEW t \in Threads, DecideWait(t) PROVE Inv'
<1> USE XferAssumption DEF XferAssumption, limit, secure, PC, Calls, Results, IsRpc, Requests, Inside
<1>1. Typed /\ Counts /\ ThreadInv(t) /\ Goto(t, "decide", "wait")
  BY DEF Inv, DecideWait
<1>2. /\ pc[t] = "decide" /\ pc' = [pc EXCEPT ![t] = "wait"] /\ pc' \in [Threads -> PC]
      /\ Cardinality(In(Sent)') = Cardinality(In(Sent)) + 0 - 0
      /\ Cardinality(In({"up"})') = Cardinality(In({"up"})) + 0 - 0
      /\ Cardinality(In({"down"})') = Cardinality(In({"down"})) + 0 - 0
      /\ Cardinality(In(Sent)) \in Nat /\ Cardinality(In({"up"})) \in Nat
      /\ Cardinality(In({"down"})) \in Nat
  <2>1. /\ "decide" \in PC /\ "wait" \in PC
        /\ Sign(Sent, "decide") = 0 /\ Sign(Sent, "wait") = 0
        /\ Sign({"up"}, "decide") = 0 /\ Sign({"up"}, "wait") = 0
        /\ Sign({"down"}, "decide") = 0 /\ Sign({"down"}, "wait") = 0
    BY DEF Sign, Sent
  <2> HIDE DEF PC, Calls, Results, IsRpc, Requests, Inside
  <2> QED
    BY <1>1, <2>1, Moves
<1>3. Typed'
  BY <1>1, <1>2 DEF DecideWait, Typed
<1>4. Counts'
  BY <1>1, <1>2 DEF DecideWait, Counts, Nat3
<1>5. ThreadInv(t)'
  BY <1>1, <1>2 DEF DecideWait, Typed, ThreadInv, Locked
<1>6. ASSUME NEW u \in Threads, u # t PROVE ThreadInv(u)'
  <2>1. pc'[u] = pc[u] /\ a0'[u] = a0[u] /\ tee'[u] = tee[u]
    BY <1>1, <1>2, <1>6 DEF DecideWait, Typed
  <2>2. xfer_lock' = xfer_lock \/ {xfer_lock, xfer_lock'} \subseteq {t, NoThread}
    BY <1>1, <1>2 DEF DecideWait, ThreadInv, Locked
  <2> QED
    BY <1>6, <2>1, <2>2, OthersKeep
<1> QED
  BY <1>3, <1>4, <1>5, <1>6 DEF Inv

LEMMA CountWaiterKeeps == ASSUME Inv, NEW t \in Threads, CountWaiter(t) PROVE Inv'
<1> USE XferAssumption DEF XferAssumption, limit, secure, PC, Calls, Results, IsRpc, Requests, Inside
<1>1. Typed /\ Counts /\ ThreadInv(t) /\ Goto(t, "wait", "down")
  BY DEF Inv, CountWaiter
<1>2. /\ pc[t] = "wait" /\ pc' = [pc EXCEPT ![t] = "down"] /\ pc' \in [Threads -> PC]
      /\ Cardinality(In(Sent)') = Cardinality(In(Sent)) + 0 - 0
      /\ Cardinality(In({"up"})') = Cardinality(In({"up"})) + 0 - 0
      /\ Cardinality(In({"down"})') = Cardinality(In({"down"})) + 1 - 0
      /\ Cardinality(In(Sent)) \in Nat /\ Cardinality(In({"up"})) \in Nat
      /\ Cardinality(In({"down"})) \in Nat
  <2>1. /\ "wait" \in PC /\ "down" \in PC
        /\ Sign(Sent, "wait") = 0 /\ Sign(Sent, "down") = 0
        /\ Sign({"up"}, "wait") = 0 /\ Sign({"up"}, "down") = 0
        /\ Sign({"down"}, "wait") = 0 /\ Sign({"down"}, "down") = 1
    BY DEF Sign, Sent
  <2> HIDE DEF PC, Calls, Results, IsRpc, Requests, Inside
  <2> QED
    BY <1>1, <2>1, Moves
<1>3. Typed'
  BY <1>1, <1>2 DEF CountWaiter, Typed
<1>4. Counts'
  BY <1>1, <1>2 DEF CountWaiter, Counts, Nat3
<1>5. ThreadInv(t)'
  BY <1>1, <1>2 DEF CountWaiter, Typed, ThreadInv, Locked
<1>6. ASSUME NEW u \in Threads, u # t PROVE ThreadInv(u)'
  <2>1. pc'[u] = pc[u] /\ a0'[u] = a0[u] /\ tee'[u] = tee[u]
    BY <1>1, <1>2, <1>6 DEF CountWaiter, Typed
  <2>2. xfer_lock' = xfer_lock \/ {xfer_lock, xfer_lock'} \subseteq {t, NoThread}
    BY <1>1, <1>2 DEF CountWaiter, ThreadInv, Locked
  <2> QED
    BY <1>6, <2>1, <2>2, OthersKeep
<1> QED
  BY <1>3, <1>4, <1>5, <1>6 DEF Inv

LEMMA DownWaitQueueKeeps == ASSUME Inv, NEW t \in Threads, DownWaitQueue(t) PROVE Inv'
<1> USE XferAssumption DEF XferAssumption, limit, secure, PC, Calls, Results, IsRpc, Requests, Inside
<1>1. Typed /\ Counts /\ ThreadInv(t) /\ Goto(t, "down", "inc")
  BY DEF Inv, DownWaitQueue
<1>2. /\ pc[t] = "down" /\ pc' = [pc EXCEPT ![t] = "inc"] /\ pc' \in [Threads -> PC]
      /\ Cardinality(In(Sent)') = Cardinality(In(Sent)) + 0 - 0
      /\ Cardinality(In({"up"})') = Cardinality(In({"up"})) + 0 - 0
      /\ Cardinality(In({"down"})') = Cardinality(In({"down"})) + 0 - 1
      /\ Cardinality(In(Sent)) \in Nat /\ Cardinality(In({"up"})) \in Nat
      /\ Cardinality(In({"down"})) \in Nat
  <2>1. /\ "down" \in PC /\ "inc" \in PC
        /\ Sign(Sent, "down") = 0 /\ Sign(Sent, "inc") = 0
        /\ Sign({"up"}, "down") = 0 /\ Sign({"up"}, "inc") = 0
        /\ Sign({"down"}, "down") = 1 /\ Sign({"down"}, "inc") = 0
    BY DEF Sign, Sent
  <2> HIDE DEF PC, Calls, Results, IsRpc, Requests, Inside
  <2> QED
    BY <1>1, <2>1, Moves
<1>3. Typed'
  BY <1>1, <1>2 DEF DownWaitQueue, Typed
<1>4. Counts'
  BY <1>1, <1>2 DEF DownWaitQueue, Counts, Nat3
<1>5. ThreadInv(t)'
  BY <1>1, <1>2 DEF DownWaitQueue, Typed, ThreadInv, Locked
<1>6. ASSUME NEW u \in Threads, u # t PROVE ThreadInv(u)'
  <2>1. pc'[u] = pc[u] /\ a0'[u] = a0[u] /\ tee'[u] = tee[u]
    BY <1>1, <1>2, <1>6 DEF DownWaitQueue, Typed
  <2>2. xfer_lock' = xfer_lock \/ {xfer_lock, xfer_lock'} \subseteq {t, NoThread}
    BY <1>1, <1>2 DEF DownWaitQueue, ThreadInv, Locked
  <2> QED
    BY <1>6, <2>1, <2>2, OthersKeep
<1> QED
  BY <1>3, <1>4, <1>5, <1>6 DEF Inv

LEMMA UpWaitQueueKeeps == ASSUME Inv, NEW t \in Threads, UpWaitQueue(t) PROVE Inv'
<1> USE XferAssumption DEF XferAssumption, limit, secure, PC, Calls, Results, IsRpc, Requests, Inside
<1>1. Typed /\ Counts /\ ThreadInv(t) /\ Goto(t, "up", "out")
  BY DEF Inv, UpWaitQueue
<1>2. /\ pc[t] = "up" /\ pc' = [pc EXCEPT ![t] = "out"] /\ pc' \in [Threads -> PC]
      /\ Cardinality(In(Sent)') = Cardinality(In(Sent)) + 0 - 0
      /\ Cardinality(In({"up"})') = Cardinality(In({"up"})) + 0 - 1
      /\ Cardinality(In({"down"})') = Cardinality(In({"down"})) + 0 - 0
      /\ Cardinality(In(Sent)) \in Nat /\ Cardinality(In({"up"})) \in Nat
      /\ Cardinality(In({"down"})) \in Nat
  <2>1. /\ "up" \in PC /\ "out" \in PC
        /\ Sign(Sent, "up") = 0 /\ Sign(Sent, "out") = 0
        /\ Sign({"up"}, "up") = 1 /\ Sign({"up"}, "out") = 0
        /\ Sign({"down"}, "up") = 0 /\ Sign({"down"}, "out") = 0
    BY DEF Sign, Sent
  <2> HIDE DEF PC, Calls, Results, IsRpc, Requests, Inside
  <2> QED
    BY <1>1, <2>1, Moves
<1>3. Typed'
  BY <1>1, <1>2 DEF UpWaitQueue, Typed
<1>4. Counts'
  BY <1>1, <1>2 DEF UpWaitQueue, Counts, Nat3
<1>5. ThreadInv(t)'
  BY <1>1, <1>2 DEF UpWaitQueue, Typed, ThreadInv, Locked
<1>6. ASSUME NEW u \in Threads, u # t PROVE ThreadInv(u)'
  <2>1. pc'[u] = pc[u] /\ a0'[u] = a0[u] /\ tee'[u] = tee[u]
    BY <1>1, <1>2, <1>6 DEF UpWaitQueue, Typed
  <2>2. xfer_lock' = xfer_lock \/ {xfer_lock, xfer_lock'} \subseteq {t, NoThread}
    BY <1>1, <1>2 DEF UpWaitQueue, ThreadInv, Locked
  <2> QED
    BY <1>6, <2>1, <2>2, OthersKeep
<1> QED
  BY <1>3, <1>4, <1>5, <1>6 DEF Inv

LEMMA DecideRpcKeeps == ASSUME Inv, NEW t \in Threads, DecideRpc(t) PROVE Inv'
<1> USE XferAssumption DEF XferAssumption, limit, secure, PC, Calls, Results, IsRpc, Requests, Inside
<1>1. Typed /\ Counts /\ ThreadInv(t) /\ Goto(t, "decide", "rpc")
  BY DEF Inv, DecideRpc
<1>2. /\ pc[t] = "decide" /\ pc' = [pc EXCEPT ![t] = "rpc"] /\ pc' \in [Threads -> PC]
      /\ Cardinality(In(Sent)') = Cardinality(In(Sent)) + 0 - 0
      /\ Cardinality(In({"up"})') = Cardinality(In({"up"})) + 0 - 0
      /\ Cardinality(In({"down"})') = Cardinality(In({"down"})) + 0 - 0
      /\ Cardinality(In(Sent)) \in Nat /\ Cardinality(In({"up"})) \in Nat
      /\ Cardinality(In({"down"})) \in Nat
  <2>1. /\ "decide" \in PC /\ "rpc" \in PC
        /\ Sign(Sent, "decide") = 0 /\ Sign(Sent, "rpc") = 0
        /\ Sign({"up"}, "decide") = 0 /\ Sign({"up"}, "rpc") = 0
        /\ Sign({"down"}, "decide") = 0 /\ Sign({"down"}, "rpc") = 0
    BY DEF Sign, Sent
  <2> HIDE DEF PC, Calls, Results, IsRpc, Requests, Inside
  <2> QED
    BY <1>1, <2>1, Moves
<1>3. Typed'
  BY <1>1, <1>2 DEF DecideRpc, Typed
<1>4. Counts'
  BY <1>1, <1>2 DEF DecideRpc, Counts, Nat3
<1>5. ThreadInv(t)'
  BY <1>1, <1>2 DEF DecideRpc, Typed, ThreadInv, Locked
<1>6. ASSUME NEW u \in Threads, u # t PROVE ThreadInv(u)'
  <2>1. pc'[u] = pc[u] /\ a0'[u] = a0[u] /\ tee'[u] = tee[u]
    BY <1>1, <1>2, <1>6 DEF DecideRpc, Typed
  <2>2. xfer_lock' = xfer_lock \/ {xfer_lock, xfer_lock'} \subseteq {t, NoThread}
    BY <1>1, <1>2 DEF DecideRpc, ThreadInv, Locked
  <2> QED
    BY <1>6, <2>1, <2>2, OthersKeep
<1> QED
  BY <1>3, <1>4, <1>5, <1>6 DEF Inv

LEMMA ResumeAfterRpcKeeps == ASSUME Inv, NEW t \in Threads, ResumeAfterRpc(t) PROVE Inv'
<1> USE XferAssumption DEF XferAssumption, limit, secure, PC, Calls, Results, IsRpc, Requests, Inside
<1>1. Typed /\ Counts /\ ThreadInv(t) /\ Goto(t, "rpc", "inc")
  BY DEF Inv, ResumeAfterRpc
<1>2. /\ pc[t] = "rpc" /\ pc' = [pc EXCEPT ![t] = "inc"] /\ pc' \in [Threads -> PC]
      /\ Cardinality(In(Sent)') = Cardinality(In(Sent)) + 0 - 0
      /\ Cardinality(In({"up"})') = Cardinality(In({"up"})) + 0 - 0
      /\ Cardinality(In({"down"})') = Cardinality(In({"down"})) + 0 - 0
      /\ Cardinality(In(Sent)) \in Nat /\ Cardinality(In({"up"})) \in Nat
      /\ Cardinality(In({"down"})) \in Nat
  <2>1. /\ "rpc" \in PC /\ "inc" \in PC
        /\ Sign(Sent, "rpc") = 0 /\ Sign(Sent, "inc") = 0
        /\ Sign({"up"}, "rpc") = 0 /\ Sign({"up"}, "inc") = 0
        /\ Sign({"down"}, "rpc") = 0 /\ Sign({"down"}, "inc") = 0
    BY DEF Sign, Sent
  <2> HIDE DEF PC, Calls, Results, IsRpc, Requests, Inside
  <2> QED
    BY <1>1, <2>1, Moves
<1>3. Typed'
  BY <1>1, <1>2 DEF ResumeAfterRpc, Typed
<1>4. Counts'
  BY <1>1, <1>2 DEF ResumeAfterRpc, Counts, Nat3
<1>5. ThreadInv(t)'
  BY <1>1, <1>2 DEF ResumeAfterRpc, Typed, ThreadInv, Locked
<1>6. ASSUME NEW u \in Threads, u # t PROVE ThreadInv(u)'
  <2>1. pc'[u] = pc[u] /\ a0'[u] = a0[u] /\ tee'[u] = tee[u]
    BY <1>1, <1>2, <1>6 DEF ResumeAfterRpc, Typed
  <2>2. xfer_lock' = xfer_lock \/ {xfer_lock, xfer_lock'} \subseteq {t, NoThread}
    BY <1>1, <1>2 DEF ResumeAfterRpc, ThreadInv, Locked
  <2> QED
    BY <1>6, <2>1, <2>2, OthersKeep
<1> QED
  BY <1>3, <1>4, <1>5, <1>6 DEF Inv

LEMMA ReturnKeeps == ASSUME Inv, NEW t \in Threads, Return(t) PROVE Inv'
<1> USE XferAssumption DEF XferAssumption, limit, secure, PC, Calls, Results, IsRpc, Requests, Inside
<1>1. Typed /\ Counts /\ ThreadInv(t) /\ Goto(t, "out", "idle")
  BY DEF Inv, Return
<1>2. /\ pc[t] = "out" /\ pc' = [pc EXCEPT ![t] = "idle"] /\ pc' \in [Threads -> PC]
      /\ Cardinality(In(Sent)') = Cardinality(In(Sent)) + 0 - 0
      /\ Cardinality(In({"up"})') = Cardinality(In({"up"})) + 0 - 0
      /\ Cardinality(In({"down"})') = Cardinality(In({"down"})) + 0 - 0
      /\ Cardinality(In(Sent)) \in Nat /\ Cardinality(In({"up"})) \in Nat
      /\ Cardinality(In({"down"})) \in Nat
  <2>1. /\ "out" \in PC /\ "idle" \in PC
        /\ Sign(Sent, "out") = 0 /\ Sign(Sent, "idle") = 0
        /\ Sign({"up"}, "out") = 0 /\ Sign({"up"}, "idle") = 0
        /\ Sign({"down"}, "out") = 0 /\ Sign({"down"}, "idle") = 0
    BY DEF Sign, Sent
  <2> HIDE DEF PC, Calls, Results, IsRpc, Requests, Inside
  <2> QED
    BY <1>1, <2>1, Moves
<1>3. Typed'
  BY <1>1, <1>2 DEF Return, Typed
<1>4. Counts'
  BY <1>1, <1>2 DEF Return, Counts, Nat3
<1>5. ThreadInv(t)'
  BY <1>1, <1>2 DEF Return, Typed, ThreadInv, Locked
<1>6. ASSUME NEW u \in Threads, u # t PROVE ThreadInv(u)'
  <2>1. pc'[u] = pc[u] /\ a0'[u] = a0[u] /\ tee'[u] = tee[u]
    BY <1>1, <1>2, <1>6 DEF Return, Typed
  <2>2. xfer_lock' = xfer_lock \/ {xfer_lock, xfer_lock'} \subseteq {t, NoThread}
    BY <1>1, <1>2 DEF Return, ThreadInv, Locked
  <2> QED
    BY <1>6, <2>1, <2>2, OthersKeep
<1> QED
  BY <1>3, <1>4, <1>5, <1>6 DEF Inv

LEMMA DequeueWaiterKeeps == ASSUME Inv, NEW t \in Threads, DequeueWaiter(t) PROVE Inv'
<1> USE XferAssumption DEF XferAssumption, limit, secure, PC, Calls, Results, IsRpc, Requests, Inside
<1>1. Typed /\ Counts /\ ThreadInv(t)
  BY DEF Inv
<1>2. PICK to \in {"up", "out"} :
          /\ Goto(t, "decide", to)
          /\ nr_waiting_cmds' = IF to = "up" THEN nr_waiting_cmds - 1 ELSE nr_waiting_cmds
          /\ to = "up" => nr_waiting_cmds > 0
  <2>1. CASE nr_waiting_cmds > 0
    <3>1. Goto(t, "decide", "up") /\ nr_waiting_cmds' = nr_waiting_cmds - 1
      BY Zenon, <2>1 DEF DequeueWaiter
    <3> WITNESS "up" \in {"up", "out"}
    <3> QED
      BY <2>1, <3>1
  <2>2. CASE ~(nr_waiting_cmds > 0)
    <3>1. Goto(t, "decide", "out") /\ nr_waiting_cmds' = nr_waiting_cmds
      BY Zenon, <2>2 DEF DequeueWaiter
    <3> WITNESS "out" \in {"up", "out"}
    <3> QED
      BY <3>1
  <2> QED
    BY <2>1, <2>2
<1>3. /\ pc[t] = "decide" /\ pc' = [pc EXCEPT ![t] = to] /\ pc' \in [Threads -> PC]
      /\ Cardinality(In(Sent)') = Cardinality(In(Sent))
      /\ Cardinality(In({"up"})') = Cardinality(In({"up"})) + (IF to = "up" THEN 1 ELSE 0)
      /\ Cardinality(In({"down"})') = Cardinality(In({"down"}))
      /\ Cardinality(In(Sent)) \in Nat /\ Cardinality(In({"up"})) \in Nat
      /\ Cardinality(In({"down"})) \in Nat
  <2>1. CASE to = "up"
    <3>1. Goto(t, "decide", "up") /\ "decide" \in PC /\ "up" \in PC
      BY <1>2, <2>1
    <3>2. /\ pc[t] = "decide" /\ pc' = [pc EXCEPT ![t] = "up"] /\ pc' \in [Threads -> PC]
          /\ Cardinality(In(Sent)') = Cardinality(In(Sent)) + 0 - 0
          /\ Cardinality(In({"up"})') = Cardinality(In({"up"})) + 1 - 0
          /\ Cardinality(In({"down"})') = Cardinality(In({"down"})) + 0 - 0
          /\ Cardinality(In(Sent)) \in Nat /\ Cardinality(In({"up"})) \in Nat
          /\ Cardinality(In({"down"})) \in Nat
      <4>1. /\ Sign(Sent, "decide") = 0 /\ Sign(Sent, "up") = 0
            /\ Sign({"up"}, "decide") = 0 /\ Sign({"up"}, "up") = 1
            /\ Sign({"down"}, "decide") = 0 /\ Sign({"down"}, "up") = 0
        BY DEF Sign, Sent
      <4> HIDE DEF PC
      <4> QED
        BY <3>1, <4>1, Moves
    <3> QED
      BY <2>1, <3>2
  <2>2. CASE to = "out"
    <3>1. Goto(t, "decide", "out") /\ "decide" \in PC /\ "out" \in PC
      BY <1>2, <2>2
    <3>2. /\ pc[t] = "decide" /\ pc' = [pc EXCEPT ![t] = "out"] /\ pc' \in [Threads -> PC]
          /\ Cardinality(In(Sent)') = Cardinality(In(Sent)) + 0 - 0
          /\ Cardinality(In({"up"})') = Cardinality(In({"up"})) + 0 - 0
          /\ Cardinality(In({"down"})') = Cardinality(In({"down"})) + 0 - 0
          /\ Cardinality(In(Sent)) \in Nat /\ Cardinality(In({"up"})) \in Nat
          /\ Cardinality(In({"down"})) \in Nat
      <4>1. /\ Sign(Sent, "decide") = 0 /\ Sign(Sent, "out") = 0
            /\ Sign({"up"}, "decide") = 0 /\ Sign({"up"}, "out") = 0
            /\ Sign({"down"}, "decide") = 0 /\ Sign({"down"}, "out") = 0
        BY DEF Sign, Sent
      <4> HIDE DEF PC
      <4> QED
        BY <3>1, <4>1, Moves
    <3> QED
      BY <2>2, <3>2
  <2> QED
    BY <2>1, <2>2
<1>4. a0[t] \notin Requests /\ UNCHANGED <<xfer_lock, nr_unbound_cmds, xfer_wait_queue, a0, kind, tee, rpcs>>
  <2>1. a0[t] \notin IsRpc /\ UNCHANGED <<xfer_lock, nr_unbound_cmds, xfer_wait_queue, a0, secure>>
    BY Zenon DEF DequeueWaiter
  <2> QED
    BY <2>1
<1>5. Typed'
  BY <1>1, <1>3, <1>4 DEF Typed
<1>6. Counts'
  BY <1>1, <1>2, <1>3, <1>4 DEF Counts, Nat3
<1>7. ThreadInv(t)'
  BY <1>1, <1>2, <1>3, <1>4 DEF Typed, ThreadInv, Locked
<1>8. ASSUME NEW u \in Threads, u # t PROVE ThreadInv(u)'
  <2>1. pc'[u] = pc[u]
    BY <1>1, <1>3, <1>8 DEF Typed
  <2> QED
    BY <1>4, <1>8, <2>1, OthersKeep
<1> QED
  BY <1>5, <1>6, <1>7, <1>8 DEF Inv

LEMMA Preserved == Inv /\ [Next]_vars => Inv'
<1> SUFFICES ASSUME Inv, [Next]_vars PROVE Inv'
  OBVIOUS
<1>1. ASSUME NEW t \in Threads, CallTee(t) PROVE Inv'
  BY <1>1, CallTeeKeeps
<1>2. ASSUME NEW t \in Threads, Command(t) PROVE Inv'
  <2>1. CASE CountCommand(t) \/ LockXfer(t) \/ EnterSecure(t) \/ LeaveSecure(t)
    BY <2>1, CountCommandKeeps, LockXferKeeps, EnterSecureKeeps, LeaveSecureKeeps
  <2>2. CASE ResumeInside(t) \/ SmcReturn(t) \/ UnlockXfer(t)
    BY <2>2, ResumeInsideKeeps, SmcReturnKeeps, UnlockXferKeeps
  <2>3. CASE DecideWait(t) \/ CountWaiter(t) \/ DownWaitQueue(t)
    BY <2>3, DecideWaitKeeps, CountWaiterKeeps, DownWaitQueueKeeps
  <2>4. CASE DequeueWaiter(t) \/ UpWaitQueue(t)
    BY <2>4, DequeueWaiterKeeps, UpWaitQueueKeeps
  <2>5. CASE DecideRpc(t) \/ ResumeAfterRpc(t) \/ Return(t)
    BY <2>5, DecideRpcKeeps, ResumeAfterRpcKeeps, ReturnKeeps
  <2> QED
    BY <1>2, <2>1, <2>2, <2>3, <2>4, <2>5 DEF Command
<1>3. CASE UNCHANGED vars
  <2> USE DEF vars, limit, secure
  <2>1. Typed'
    BY <1>3 DEF Inv, Typed
  <2>2. In(Sent)' = In(Sent) /\ In({"up"})' = In({"up"}) /\ In({"down"})' = In({"down"})
    BY <1>3 DEF In
  <2>3. Counts'
    BY <1>3, <2>2 DEF Inv, Counts, Nat3
  <2>4. ASSUME NEW t \in Threads PROVE ThreadInv(t)'
    BY <1>3 DEF Inv, ThreadInv
  <2> QED
    BY <2>1, <2>3, <2>4 DEF Inv
<1> QED
  BY <1>1, <1>2, <1>3 DEF Next

\* The invariant of the transfer holds for any number of threads on either side.
THEOREM Inductive == Spec => []Inv
  BY Beginning, Preserved, PTL DEF Spec

-----------------------------------------------------------------------------
(* What follows *)

\* No command is left suspended by a thread that went away, and waiters are
\* exactly the threads that a later command will wake or has woken.
THEOREM NobodyForgotten == Spec => []NobodyIsForgotten
<1>1. Inv => NobodyIsForgotten
  <2> SUFFICES ASSUME Inv PROVE NobodyIsForgotten
    OBVIOUS
  <2>1. NothingLeftBehind
    BY DEF Inv, ThreadInv, NothingLeftBehind
  <2>2. In({"up"}) = {t \in Threads : pc[t] = "up"} /\ In({"down"}) = {t \in Threads : pc[t] = "down"}
    BY DEF In
  <2>3. WaitersAreCounted
    BY <2>2 DEF Inv, Counts, WaitersAreCounted
  <2>4. /\ Cardinality(In(Sent)) \in Nat /\ Cardinality(In(Sent)) <= Cardinality(Threads)
        /\ Cardinality(In({"up"})) \in Nat /\ Cardinality(In({"down"})) <= Cardinality(Threads)
        /\ Cardinality(In({"down"})) \in Nat /\ Cardinality(Threads) \in Nat
    BY InFinite, XferAssumption, FS_CardinalityType DEF XferAssumption
  <2>5. /\ nr_unbound_cmds \in 0..Cardinality(Threads) /\ nr_waiting_cmds \in 0..Cardinality(Threads)
        /\ xfer_wait_queue \in 0..Cardinality(Threads)
    BY <2>4 DEF Inv, Counts, Nat3
  <2>6. TypeOK
    BY <2>5 DEF Inv, Typed, TypeOK
  <2> QED
    BY <2>1, <2>3, <2>6 DEF NobodyIsForgotten
<1> QED
  BY <1>1, Inductive, PTL

\* One processor at a time is in the secure world, and it is the one whose
\* thread holds the mutex: nobody who handles a request outside, or waits for
\* a thread of the Trusted OS, keeps the others out.
THEOREM LockIsOfTheCaller == Spec => [](OneInSecureWorld /\ HandlersHoldNothing)
<1>1. Inv => OneInSecureWorld /\ HandlersHoldNothing
  <2> SUFFICES ASSUME Inv PROVE OneInSecureWorld /\ HandlersHoldNothing
    OBVIOUS
  <2>1. HandlersHoldNothing
    BY DEF Inv, ThreadInv, Locked, HandlersHoldNothing
  <2>2. {t \in Threads : pc[t] = "secure"} \in SUBSET {xfer_lock}
    BY DEF Inv, ThreadInv, Locked
  <2>3. IsFiniteSet({xfer_lock}) /\ Cardinality({xfer_lock}) = 1
    BY FS_Singleton
  <2>4. Cardinality({t \in Threads : pc[t] = "secure"}) <= 1
    BY <2>2, <2>3, FS_Subset
  <2> QED
    BY <2>1, <2>4 DEF OneInSecureWorld
<1> QED
  BY <1>1, Inductive, PTL

-----------------------------------------------------------------------------
(* The transfer implements the one-at-a-time service.                        *)

LEMMA ServiceInit == Init => Service!Init
  BY DEF Init, Service!Init, SmcStage

Stage(p) ==
    IF p \in {"inc", "lock"} THEN "called"
    ELSE IF p \in {"smc", "secure", "ret"} THEN "turn"
    ELSE IF p = "unlock" THEN "answered"
    ELSE "idle"

LEMMA StageMoves ==
    ASSUME Typed, NEW t \in Threads, NEW from \in PC, NEW to \in PC, Goto(t, from, to)
    PROVE  /\ SmcStage[t] = Stage(from) /\ SmcStage' = [SmcStage EXCEPT ![t] = Stage(to)]
           /\ Stage(from) = Stage(to) => SmcStage' = SmcStage
  BY DEF Typed, Goto, SmcStage, Stage

LEMMA ServiceStep == Inv /\ [Next]_vars => [Service!Next]_SmcStage
<1> SUFFICES ASSUME Inv, [Next]_vars PROVE [Service!Next]_SmcStage
  OBVIOUS
<1>0. Typed /\ NoThread \notin Threads
  BY XferAssumption DEF Inv, XferAssumption
\* Steps that the service does not see.
<1>1. ASSUME NEW t \in Threads,
             \/ CountCommand(t) \/ EnterSecure(t) \/ LeaveSecure(t) \/ ResumeInside(t)
             \/ DecideWait(t) \/ CountWaiter(t) \/ DequeueWaiter(t) \/ UpWaitQueue(t)
             \/ DecideRpc(t) \/ Return(t)
      PROVE  SmcStage' = SmcStage
  <2>1. \/ Goto(t, "inc", "lock") \/ Goto(t, "smc", "secure") \/ Goto(t, "secure", "ret")
        \/ Goto(t, "ret", "smc") \/ Goto(t, "decide", "wait") \/ Goto(t, "wait", "down")
        \/ Goto(t, "decide", "up") \/ Goto(t, "decide", "out") \/ Goto(t, "up", "out")
        \/ Goto(t, "decide", "rpc") \/ Goto(t, "out", "idle")
    BY <1>1, Zenon DEF CountCommand, EnterSecure, LeaveSecure, ResumeInside, DecideWait,
       CountWaiter, DequeueWaiter, UpWaitQueue, DecideRpc, Return
  <2>2. \A from, to \in PC : Goto(t, from, to) /\ Stage(from) = Stage(to) => SmcStage' = SmcStage
    BY <1>0, StageMoves
  <2>3. CASE Goto(t, "inc", "lock")
    BY <2>2, <2>3 DEF PC, Stage
  <2>4. CASE Goto(t, "smc", "secure") \/ Goto(t, "secure", "ret") \/ Goto(t, "ret", "smc")
    BY <2>2, <2>4 DEF PC, Stage
  <2>5. CASE Goto(t, "decide", "wait") \/ Goto(t, "wait", "down") \/ Goto(t, "decide", "up")
    BY <2>2, <2>5 DEF PC, Stage
  <2>6. CASE Goto(t, "decide", "out") \/ Goto(t, "up", "out")
    BY <2>2, <2>6 DEF PC, Stage
  <2>7. CASE Goto(t, "decide", "rpc") \/ Goto(t, "out", "idle")
    BY <2>2, <2>7 DEF PC, Stage
  <2> QED
    BY <2>1, <2>3, <2>4, <2>5, <2>6, <2>7
\* A command is sent: the first time, after a request, after a refusal.
<1>2. ASSUME NEW t \in Threads, CallTee(t) \/ DownWaitQueue(t) \/ ResumeAfterRpc(t)
      PROVE  Service!Call(t)
  <2>1. PICK from \in {"idle", "down", "rpc"} : Goto(t, from, "inc")
    BY <1>2 DEF CallTee, DownWaitQueue, ResumeAfterRpc
  <2>2. from \in PC /\ "inc" \in PC /\ Stage(from) = "idle" /\ Stage("inc") = "called"
    BY DEF PC, Stage
  <2> QED
    BY <1>0, <2>1, <2>2, StageMoves DEF Service!Call, Service!Move
<1>3. ASSUME NEW t \in Threads, LockXfer(t) PROVE Service!Turn(t)
  <2>1. Goto(t, "lock", "smc") /\ xfer_lock = NoThread
    BY <1>3 DEF LockXfer
  <2>2. "lock" \in PC /\ "smc" \in PC /\ Stage("lock") = "called" /\ Stage("smc") = "turn"
    BY DEF PC, Stage
  <2>3. \A u \in Threads : SmcStage[u] # "turn"
    BY <1>0, <2>1 DEF Inv, ThreadInv, Locked, SmcStage
  <2> QED
    BY <1>0, <2>1, <2>2, <2>3, StageMoves DEF Service!Turn, Service!Move
<1>4. ASSUME NEW t \in Threads, SmcReturn(t) PROVE Service!Answer(t)
  <2>1. Goto(t, "ret", "unlock")
    BY <1>4 DEF SmcReturn
  <2>2. "ret" \in PC /\ "unlock" \in PC /\ Stage("ret") = "turn" /\ Stage("unlock") = "answered"
    BY DEF PC, Stage
  <2> QED
    BY <1>0, <2>1, <2>2, StageMoves DEF Service!Answer, Service!Move
<1>5. ASSUME NEW t \in Threads, UnlockXfer(t) PROVE Service!Return(t)
  <2>1. Goto(t, "unlock", "decide")
    BY <1>5 DEF UnlockXfer
  <2>2. "unlock" \in PC /\ "decide" \in PC /\ Stage("unlock") = "answered" /\ Stage("decide") = "idle"
    BY DEF PC, Stage
  <2> QED
    BY <1>0, <2>1, <2>2, StageMoves DEF Service!Return, Service!Move
<1>6. CASE UNCHANGED vars
  BY <1>6 DEF vars, SmcStage
<1>7. ASSUME NEW t \in Threads, CallTee(t) \/ Command(t) PROVE [Service!Next]_SmcStage
  <2>1. \/ SmcStage' = SmcStage \/ Service!Call(t) \/ Service!Turn(t)
        \/ Service!Answer(t) \/ Service!Return(t)
    BY Zenon, <1>1, <1>2, <1>3, <1>4, <1>5, <1>7 DEF Command
  <2> QED
    BY <2>1 DEF Service!Next
<1> QED
  BY <1>6, <1>7 DEF Next

\* tee_smc_work serves one SMC at a time and each to its end, for any number of
\* threads.
THEOREM Implements == Spec => ImplementsService
<1> QED
  BY ServiceInit, ServiceStep, Inductive, PTL DEF Spec, ImplementsService, Service!Spec
=============================================================================
