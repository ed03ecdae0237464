--------------------------- MODULE TeeSuppProofs ---------------------------
(***************************************************************************)
(* Proofs about the supplicant channel, for any number of driver threads,  *)
(* daemons and calls, and whatever faults the environment is allowed.      *)
(***************************************************************************)
EXTENDS TeeSupp, FiniteSetTheorems, TLAPS

ThreadActions(i) == Call(i) \/ ThreadStep(i)
TeedActions(p) == TeedServes(p) \/ TeedFault(p)

\* The variables keep their types (core/tee_supp_com.c, whole file).
LEMMA TypeStep == TypeOK /\ [Next]_vars => TypeOK'
<1> SUFFICES ASSUME TypeOK, [Next]_vars PROVE TypeOK'
  OBVIOUS
<1> USE SuppAssumption
<1> USE DEF TypeOK, vars, chan, msgs, caller, args, daemon, Goto, Step,
        Request, NoRequest, Answer, NoAnswer, ThreadPC, TeedPC
<1>1. ASSUME NEW i \in Threads, Call(i) PROVE TypeOK'
  <2>1. PICK b \in NbrBf :
           req' = [req EXCEPT ![i] = [from |-> i, n |-> req[i].n + 1,
                                      nbr_bf |-> b]]
    BY <1>1 DEF Call
  <2>2. req[i].n \in 0..MaxCalls /\ req[i].n + 1 \in 0..MaxCalls
    <3>1. req[i] \in Request
      OBVIOUS
    <3>2. req[i].n \in 0..MaxCalls
      BY <3>1
    <3> QED
      BY <3>2, <1>1 DEF Call
  <2>3. [from |-> i, n |-> req[i].n + 1, nbr_bf |-> b] \in Request
    BY <2>2
  <2>4. req' \in [Threads -> Request]
    BY <2>1, <2>3
  <2>5. /\ pc' \in [Threads -> ThreadPC]
        /\ ret' \in [Threads -> {"none", "fail", "ok", "einval"}]
    BY <1>1 DEF Call
  <2> QED
    BY <2>4, <2>5, <1>1 DEF Call
<1>2. ASSUME NEW i \in Threads, ThreadStep(i) PROVE TypeOK'
  <2>1. CASE LockThrd(i)
    BY <2>1 DEF LockThrd
  <2>2. CASE Send(i)
    BY <2>2 DEF Send
  <2>3. CASE UpDataToUser(i)
    BY <2>3 DEF UpDataToUser
  <2>4. CASE DownDataFromUser(i)
    BY <2>4 DEF DownDataFromUser
  <2>5. CASE CopyAnswer(i)
    BY <2>5 DEF CopyAnswer
  <2>6. CASE UnlockThrd(i)
    BY <2>6 DEF UnlockThrd
  <2>7. CASE ReadRes(i)
    BY <2>7 DEF ReadRes
  <2> QED
    BY <1>2, <2>1, <2>2, <2>3, <2>4, <2>5, <2>6, <2>7 DEF ThreadStep
<1>3. ASSUME NEW p \in Teeds, TeedServes(p) PROVE TypeOK'
  <2>1. CASE TeedOpen(p) \/ TeedRefused(p) \/ ContextCreated(p) \/ ReadEnter(p)
    BY <2>1 DEF TeedOpen, TeedRefused, ContextCreated, ReadEnter
  <2>2. CASE DownDataToUser(p)
    BY <2>2 DEF DownDataToUser
  <2>3. CASE ReadCopy(p)
    BY <2>3 DEF ReadCopy
  <2>4. CASE WriteIgnored(p) \/ UpDataFromUser(p)
    BY <2>4 DEF WriteIgnored, UpDataFromUser
  <2>5. CASE WriteBody(p)
    <3>1. PICK c \in BOOLEAN :
             /\ commFromUser' = [to |-> held[p], complete |-> c]
             /\ res' = IF c THEN "ok" ELSE "einval"
      BY <2>5 DEF WriteBody
    <3>2. commFromUser' \in Answer /\ res' \in {"ok", "einval"}
      BY <3>1
    <3> QED
      BY <2>5, <3>2 DEF WriteBody
  <2>6. CASE ReleaseTest(p) \/ ReleaseSub(p)
    BY <2>6 DEF ReleaseTest, ReleaseSub
  <2> QED
    BY <1>3, <2>1, <2>2, <2>3, <2>4, <2>5, <2>6 DEF TeedServes
<1>4. ASSUME NEW p \in Teeds, TeedFault(p) PROVE TypeOK'
  BY <1>4 DEF TeedFault, ContextFailed, ReadInterrupted, ReadCopyFails, TeedDies
<1>5. CASE UNCHANGED vars
  BY <1>5
<1> QED
  BY <1>1, <1>2, <1>3, <1>4, <1>5 DEF Next

THEOREM TypeCorrect == Spec => []TypeOK
<1>1. Init => TypeOK
  BY SuppAssumption DEF Init, TypeOK, Request, NoRequest, Answer, NoAnswer,
     ThreadPC, TeedPC
<1> QED
  BY <1>1, TypeStep, PTL DEF Spec

-----------------------------------------------------------------------------
(* The counting of `used` (core/tee_core.c, tee_supp_open and _release).   *)

LEMMA CountedFinite ==
    /\ IsFiniteSet(Counted) /\ Cardinality(Counted) \in Nat
    /\ IsFiniteSet(Counted') /\ Cardinality(Counted') \in Nat
<1>1. Counted \in SUBSET Teeds /\ Counted' \in SUBSET Teeds
  BY DEF Counted
<1> QED
  BY <1>1, SuppAssumption, FS_Subset, FS_CardinalityType

\* A daemon that starts to count adds one, one that stops takes one away.
LEMMA CountedStep ==
    ASSUME NEW p \in Teeds, NEW to, TypeOK, teed' = [teed EXCEPT ![p] = to]
    PROVE  /\ teed[p] \notin Open \cup {"ebusy"} /\ to \in Open \cup {"ebusy"}
                => Cardinality(Counted') = Cardinality(Counted) + 1
           /\ teed[p] \in Open \cup {"ebusy"} /\ to \notin Open \cup {"ebusy"}
                => Cardinality(Counted') = Cardinality(Counted) - 1
           /\ teed[p] \in Open \cup {"ebusy"} /\ to \in Open \cup {"ebusy"}
                => Cardinality(Counted') = Cardinality(Counted)
<1> DEFINE C == Open \cup {"ebusy"}
<1>1. ASSUME teed[p] \notin C, to \in C
      PROVE  Cardinality(Counted') = Cardinality(Counted) + 1
  <2>1. Counted' = Counted \cup {p} /\ p \notin Counted
    BY <1>1 DEF Counted, TypeOK
  <2> QED
    BY <2>1, CountedFinite, FS_AddElement
<1>2. ASSUME teed[p] \in C, to \notin C
      PROVE  Cardinality(Counted') = Cardinality(Counted) - 1
  <2>1. Counted' = Counted \ {p} /\ p \in Counted
    BY <1>2 DEF Counted, TypeOK
  <2> QED
    BY <2>1, CountedFinite, FS_RemoveElement
<1>3. ASSUME teed[p] \in C, to \in C
      PROVE  Counted' = Counted
  BY <1>3 DEF Counted, TypeOK
<1> QED
  BY <1>1, <1>2, <1>3

LEMMA UsedStep == TypeOK /\ UsedInv /\ [Next]_vars => UsedInv'
<1> SUFFICES ASSUME TypeOK, UsedInv, [Next]_vars PROVE UsedInv'
  OBVIOUS
<1> USE CountedFinite DEF UsedInv
<1>1. ASSUME NEW i \in Threads, Call(i) \/ ThreadStep(i) PROVE UsedInv'
  <2>1. used' = used /\ teed' = teed
    BY <1>1 DEF Call, ThreadStep, LockThrd, Send, UpDataToUser,
       DownDataFromUser, CopyAnswer, UnlockThrd, ReadRes, daemon
  <2> QED
    BY <2>1 DEF Counted
<1>2. ASSUME NEW p \in Teeds, TeedOpen(p) PROVE UsedInv'
  <2>1. PICK to \in {"ebusy", "create"} : teed' = [teed EXCEPT ![p] = to]
    BY <1>2 DEF TeedOpen, Step
  <2>2. Cardinality(Counted') = Cardinality(Counted) + 1
    BY <2>1, <1>2, CountedStep DEF TeedOpen, Step, Open
  <2> QED
    BY <2>2, <1>2 DEF TeedOpen, TypeOK
<1>3. ASSUME NEW p \in Teeds, TeedRefused(p) \/ ReleaseSub(p) PROVE UsedInv'
  <2>1. /\ teed' = [teed EXCEPT ![p] = "out"]
        /\ teed[p] \in Open \cup {"ebusy"} /\ "out" \notin Open \cup {"ebusy"}
        /\ used' = used - 1
    BY <1>3 DEF TeedRefused, ReleaseSub, Step, Open
  <2>2. Cardinality(Counted') = Cardinality(Counted) - 1
    BY <2>1, CountedStep
  <2> QED
    BY <2>1, <2>2 DEF TypeOK
<1>4. ASSUME NEW p \in Teeds, ContextFailed(p) \/ ReleaseTest(p) PROVE UsedInv'
  <2>1. PICK to \in {"out", "sub"} : teed' = [teed EXCEPT ![p] = to]
    BY <1>4 DEF ContextFailed, ReleaseTest, Step
  <2>2. teed[p] \in Open /\ "out" \notin Open \cup {"ebusy"} /\ used' = used
    BY <1>4 DEF ContextFailed, ReleaseTest, Step, Open
  <2>3. Cardinality(Counted') <= Cardinality(Counted)
    <3>1. to \in Open \cup {"ebusy"} \/ to \notin Open \cup {"ebusy"}
      OBVIOUS
    <3>2. \/ Cardinality(Counted') = Cardinality(Counted)
          \/ Cardinality(Counted') = Cardinality(Counted) - 1
      BY <2>1, <2>2, <3>1, CountedStep
    <3> QED
      BY <3>2
  <2> QED
    BY <2>2, <2>3 DEF TypeOK
<1>5. ASSUME NEW p \in Teeds,
             \/ ContextCreated(p) \/ ReadEnter(p) \/ DownDataToUser(p)
             \/ ReadCopy(p) \/ WriteIgnored(p) \/ WriteBody(p)
             \/ UpDataFromUser(p) \/ ReadInterrupted(p) \/ ReadCopyFails(p)
             \/ TeedDies(p)
      PROVE  UsedInv'
  <2>1. PICK to \in Open : /\ teed' = [teed EXCEPT ![p] = to]
                           /\ teed[p] \in Open /\ used' = used
    BY <1>5 DEF ContextCreated, ReadEnter, DownDataToUser, ReadCopy,
       WriteIgnored, WriteBody, UpDataFromUser, ReadInterrupted,
       ReadCopyFails, TeedDies, Step, Open
  <2>2. Cardinality(Counted') = Cardinality(Counted)
    BY <2>1, CountedStep
  <2> QED
    BY <2>1, <2>2
<1>6. CASE UNCHANGED vars
  BY <1>6 DEF vars, daemon, Counted
<1> QED
  BY <1>1, <1>2, <1>3, <1>4, <1>5, <1>6 DEF Next, TeedServes, TeedFault

\* A step that opens the device finds used = 0, hence nobody in it.
LEMMA OneTeedStep ==
    TypeOK /\ UsedInv /\ OnlyOneTeed /\ [Next]_vars => OnlyOneTeed'
<1> SUFFICES ASSUME TypeOK, UsedInv, OnlyOneTeed, [Next]_vars PROVE OnlyOneTeed'
  OBVIOUS
<1>1. ASSUME NEW p \in Teeds, TeedOpen(p), teed'[p] \in Open
      PROVE  \A q \in Teeds : teed[q] \notin Open
  <2>1. used = 0
    <3>1. teed'[p] = IF used + 1 > 1 THEN "ebusy" ELSE "create"
      BY <1>1 DEF TeedOpen, Step, TypeOK
    <3>2. ~(used + 1 > 1)
      BY <3>1, <1>1 DEF Open
    <3>3. used >= 0 /\ used \in Int
      BY CountedFinite DEF UsedInv, TypeOK
    <3> QED
      BY <3>2, <3>3
  <2>2. Counted = {}
    BY <2>1, UsedInv, CountedFinite, FS_EmptySet DEF UsedInv
  <2> QED
    BY <2>2 DEF Counted
<1>2. ASSUME NEW p \in Teeds, TeedOpen(p) PROVE OnlyOneTeed'
  BY <1>1, <1>2 DEF OnlyOneTeed, TeedOpen, Step, TypeOK
<1>3. ASSUME NEW p \in Teeds, TeedServes(p) \/ TeedFault(p), ~TeedOpen(p)
      PROVE  OnlyOneTeed'
  <2>1. PICK to : /\ teed' = [teed EXCEPT ![p] = to]
                  /\ to \in Open => teed[p] \in Open
    BY <1>3 DEF TeedServes, TeedFault, TeedRefused, ContextCreated,
       ContextFailed, ReadEnter, ReadInterrupted, DownDataToUser, ReadCopy,
       ReadCopyFails, WriteIgnored, WriteBody, UpDataFromUser, TeedDies,
       ReleaseTest, ReleaseSub, Step, Open
  <2> QED
    BY <2>1 DEF OnlyOneTeed, TypeOK
<1>4. ASSUME teed' = teed PROVE OnlyOneTeed'
  BY <1>4 DEF OnlyOneTeed
<1>5. ASSUME NEW i \in Threads, Call(i) \/ ThreadStep(i) PROVE teed' = teed
  BY <1>5 DEF Call, ThreadStep, LockThrd, Send, UpDataToUser,
     DownDataFromUser, CopyAnswer, UnlockThrd, ReadRes, daemon
<1> QED
  BY <1>2, <1>3, <1>4, <1>5 DEF Next, vars, daemon

-----------------------------------------------------------------------------
(* The turn and the contents of the buffers (core/tee_supp_com.c).         *)

LEMMA MutexStep == TypeOK /\ MutexInv /\ [Next]_vars => MutexInv'
<1> SUFFICES ASSUME TypeOK, MutexInv, [Next]_vars PROVE MutexInv'
  OBVIOUS
<1> USE SuppAssumption DEF TypeOK, MutexInv, Critical
<1>1. ASSUME NEW i \in Threads, Call(i) \/ ThreadStep(i) PROVE MutexInv'
  BY <1>1 DEF Call, ThreadStep, LockThrd, Send, UpDataToUser,
     DownDataFromUser, CopyAnswer, UnlockThrd, ReadRes, Goto, chan
<1>2. ASSUME NEW p \in Teeds, TeedServes(p) \/ TeedFault(p)
      PROVE  pc' = pc /\ thrd_mutex' = thrd_mutex
  BY <1>2 DEF TeedServes, TeedFault, TeedOpen, TeedRefused, ContextCreated,
     ContextFailed, ReadEnter, ReadInterrupted, DownDataToUser, ReadCopy,
     ReadCopyFails, WriteIgnored, WriteBody, UpDataFromUser, TeedDies,
     ReleaseTest, ReleaseSub, chan, caller
<1> QED
  BY <1>1, <1>2 DEF Next, vars, chan, caller

\* Only the thread inside the mutex can be "down", so the turn has one owner.
LEMMA OneInside ==
    ASSUME MutexInv, NEW i \in Threads, NEW j \in Threads,
           pc[i] \in Critical, pc[j] \in Critical
    PROVE  i = j
  BY DEF MutexInv

LEMMA TurnStep ==
    TypeOK /\ MutexInv /\ OnlyOneTeed /\ TurnInv /\ [Next]_vars => TurnInv'
<1> SUFFICES ASSUME TypeOK, MutexInv, OnlyOneTeed, TurnInv, [Next]_vars
             PROVE  TurnInv'
  OBVIOUS
<1> USE DEF TypeOK, TurnInv, Working
<1>1. ASSUME NEW i \in Threads,
             \/ Call(i) \/ LockThrd(i) \/ Send(i) \/ CopyAnswer(i)
             \/ UnlockThrd(i) \/ ReadRes(i)
      PROVE  TurnInv'
  BY <1>1 DEF Call, LockThrd, Send, CopyAnswer, UnlockThrd, ReadRes, Goto,
     chan, daemon
<1>2. ASSUME NEW i \in Threads, UpDataToUser(i) PROVE TurnInv'
  <2>1. \A j \in Threads : pc[j] # "down"
    BY <1>2, OneInside DEF UpDataToUser, Goto, Critical
  <2> QED
    BY <2>1, <1>2 DEF UpDataToUser, Goto, daemon
<1>3. ASSUME NEW i \in Threads, DownDataFromUser(i) PROVE TurnInv'
  BY <1>3 DEF DownDataFromUser, Goto, daemon
<1>4. ASSUME NEW p \in Teeds, DownDataToUser(p) PROVE TurnInv'
  BY <1>4 DEF DownDataToUser, Step, caller
<1>5. ASSUME NEW p \in Teeds, UpDataFromUser(p) PROVE TurnInv'
  <2>1. \A q \in Teeds : q # p => teed[q] \notin Working
    BY <1>5 DEF UpDataFromUser, Step, OnlyOneTeed, Open
  <2> QED
    BY <2>1, <1>5 DEF UpDataFromUser, Step, caller
<1>6. ASSUME NEW p \in Teeds,
             TeedServes(p) \/ TeedFault(p), ~DownDataToUser(p), ~UpDataFromUser(p)
      PROVE  TurnInv'
  <2>1. PICK to : /\ teed' = [teed EXCEPT ![p] = to]
                  /\ to \in Working => teed[p] \in Working
    BY <1>6 DEF TeedServes, TeedFault, TeedOpen, TeedRefused, ContextCreated,
       ContextFailed, ReadEnter, ReadInterrupted, ReadCopy, ReadCopyFails,
       WriteIgnored, WriteBody, TeedDies, ReleaseTest, ReleaseSub, Step
  <2>2. /\ datatouser' = datatouser /\ datafromuser' = datafromuser
        /\ pc' = pc
    BY <1>6 DEF TeedServes, TeedFault, TeedOpen, TeedRefused, ContextCreated,
       ContextFailed, ReadEnter, ReadInterrupted, ReadCopy, ReadCopyFails,
       WriteIgnored, WriteBody, TeedDies, ReleaseTest, ReleaseSub, chan, caller
  <2> QED
    BY <2>1, <2>2
<1>7. CASE UNCHANGED vars
  BY <1>7 DEF vars, chan, caller, daemon
<1> QED
  BY <1>1, <1>2, <1>3, <1>4, <1>5, <1>6, <1>7 DEF Next, ThreadStep

\* What a thread at "up" put in the buffer stays there until it has copied the
\* answer, and only a daemon with this request can store one.
LEMMA ContentStep ==
    TypeOK /\ MutexInv /\ OnlyOneTeed /\ TurnInv /\ ContentInv /\ [Next]_vars
        => ContentInv'
<1> SUFFICES ASSUME TypeOK, MutexInv, OnlyOneTeed, TurnInv, ContentInv,
                    [Next]_vars
             PROVE  ContentInv'
  OBVIOUS
<1> USE DEF TypeOK, ContentInv
<1>1. ASSUME NEW i \in Threads, Call(i) PROVE ContentInv'
  BY <1>1 DEF Call, Goto, chan, msgs, daemon
<1>2. ASSUME NEW i \in Threads,
             LockThrd(i) \/ CopyAnswer(i) \/ UnlockThrd(i) \/ ReadRes(i)
      PROVE  ContentInv'
  BY <1>2 DEF LockThrd, CopyAnswer, UnlockThrd, ReadRes, Goto, chan, msgs,
     args, daemon
<1>3. ASSUME NEW i \in Threads, Send(i) PROVE ContentInv'
  <2>1. \A j \in Threads : j # i => pc[j] \notin Critical
    BY <1>3, OneInside DEF Send, Goto, Critical
  <2> QED
    BY <2>1, <1>3 DEF Send, Goto, Critical, args, daemon
<1>4. ASSUME NEW i \in Threads, UpDataToUser(i) PROVE ContentInv'
  <2>1. \A j \in Threads : pc[j] # "down"
    BY <1>4, OneInside DEF UpDataToUser, Goto, Critical
  <2>2. datafromuser = 0 /\ \A p \in Teeds : teed[p] \notin Working
    BY <2>1 DEF TurnInv
  <2> QED
    BY <2>2, <1>4 DEF UpDataToUser, Goto, Working, msgs, args, daemon
<1>5. ASSUME NEW i \in Threads, DownDataFromUser(i) PROVE ContentInv'
  <2>1. datafromuser = 1
    BY <1>5 DEF DownDataFromUser, TurnInv
  <2> QED
    BY <2>1, <1>5 DEF DownDataFromUser, Goto, msgs, args, daemon
<1>6. ASSUME NEW p \in Teeds, ReadCopy(p) PROVE ContentInv'
  BY <1>6 DEF ReadCopy, Step, chan, msgs, caller, args
<1>7. ASSUME NEW p \in Teeds, WriteBody(p) PROVE ContentInv'
  <2>1. PICK j \in Threads : pc[j] = "down"
    BY <1>7 DEF WriteBody, Step, TurnInv, Working
  <2>2. \A i \in Threads : pc[i] \in Critical => i = j
    BY <2>1, OneInside DEF Critical
  <2>3. held[p] = req[j] /\ commFromUser'.to = held[p]
    BY <2>1, <1>7 DEF WriteBody, Step
  <2>4. datafromuser = 0
    BY <1>7 DEF WriteBody, Step, TurnInv, Working
  <2> QED
    BY <2>1, <2>2, <2>3, <2>4, <1>7 DEF WriteBody, Step, Critical, caller, args
<1>8. ASSUME NEW p \in Teeds, UpDataFromUser(p) PROVE ContentInv'
  BY <1>8 DEF UpDataFromUser, Step, msgs, caller, args
<1>9. ASSUME NEW p \in Teeds,
             TeedServes(p) \/ TeedFault(p),
             ~ReadCopy(p), ~WriteBody(p), ~UpDataFromUser(p)
      PROVE  ContentInv'
  <2>1. PICK to : teed' = [teed EXCEPT ![p] = to] /\ to \notin {"got", "up"}
    BY <1>9 DEF TeedServes, TeedFault, TeedOpen, TeedRefused, ContextCreated,
       ContextFailed, ReadEnter, ReadInterrupted, DownDataToUser,
       ReadCopyFails, WriteIgnored, TeedDies, ReleaseTest, ReleaseSub, Step
  <2>2. UNCHANGED <<datafromuser, commToUser, commFromUser, pc, req, data, held>>
    BY <1>9 DEF TeedServes, TeedFault, TeedOpen, TeedRefused, ContextCreated,
       ContextFailed, ReadEnter, ReadInterrupted, DownDataToUser,
       ReadCopyFails, WriteIgnored, TeedDies, ReleaseTest, ReleaseSub, chan,
       msgs, caller, args
  <2> QED
    BY <2>1, <2>2
<1>10. CASE UNCHANGED vars
  BY <1>10 DEF vars, chan, msgs, caller, args, daemon
<1> QED
  BY <1>1, <1>2, <1>3, <1>4, <1>5, <1>6, <1>7, <1>8, <1>9, <1>10
     DEF Next, ThreadStep

-----------------------------------------------------------------------------
LEMMA InitInductive == Init => IInv
<1> SUFFICES ASSUME Init PROVE IInv
  OBVIOUS
<1>1. TypeOK
  BY SuppAssumption DEF Init, TypeOK, Request, NoRequest, Answer, NoAnswer,
     ThreadPC, TeedPC
<1>2. Counted = {}
  BY DEF Init, Counted, Open
<1>3. UsedInv
  BY <1>2, FS_EmptySet DEF UsedInv, Init
<1>4. MutexInv /\ OnlyOneTeed /\ TurnInv /\ ContentInv
  BY SuppAssumption DEF Init, MutexInv, OnlyOneTeed, TurnInv, ContentInv,
     Critical, Open, Working
<1> QED
  BY <1>1, <1>3, <1>4 DEF IInv

THEOREM Inductive == Spec => []IInv
<1>1. IInv /\ [Next]_vars => IInv'
  BY TypeStep, MutexStep, UsedStep, OneTeedStep, TurnStep, ContentStep DEF IInv
<1> QED
  BY <1>1, InitInductive, PTL DEF Spec

\* At most one process has the device open as a teed (tee_supp_open).
THEOREM OneTeed == Spec => []OnlyOneTeed
<1>1. IInv => OnlyOneTeed
  BY DEF IInv
<1> QED
  BY <1>1, Inductive, PTL

\* While a teed has the device open, used is not 0.
THEOREM TeedIsReady == Spec => []RegisteredTeedIsReady
<1>1. IInv => RegisteredTeedIsReady
  <2> SUFFICES ASSUME IInv, NEW p \in Teeds, teed[p] \in Open PROVE used > 0
    BY DEF RegisteredTeedIsReady
  <2>1. Counted # {}
    BY DEF Counted
  <2>2. Cardinality(Counted) # 0
    BY <2>1, CountedFinite, FS_EmptySet
  <2> QED
    BY <2>2, CountedFinite DEF IInv, UsedInv, TypeOK
<1> QED
  BY <1>1, Inductive, PTL

\* The turn exists once, in a semaphore or in a daemon's hands.
THEOREM TurnIsOne == Spec => []OneTurn
<1>1. IInv => OneTurn
  <2> SUFFICES ASSUME IInv PROVE OneTurn
    OBVIOUS
  <2> USE DEF IInv, TurnInv
  <2>1. datatouser <= 1 /\ datafromuser <= 1
    OBVIOUS
  <2>2. ASSUME NEW x \in TurnHolders, NEW y \in TurnHolders PROVE x = y
    BY <2>2 DEF TurnHolders, OnlyOneTeed, Working, Open
  <2>3. ASSUME TurnHolders # {} PROVE \E i \in Threads : pc[i] = "down"
    BY <2>3 DEF TurnHolders, Working
  <2> QED
    BY <2>1, <2>2, <2>3 DEF OneTurn
<1> QED
  BY <1>1, Inductive, PTL

\* A thread copies the answer to its own request, and the daemon works on the
\* request of the thread that waits (tee_supp_cmd, tee_supp_read).
THEOREM AnswersMatch == Spec => [](OwnAnswer /\ ServesTheWaiter)
<1>1. IInv => OwnAnswer
  BY DEF IInv, ContentInv, OwnAnswer
<1>2. IInv => ServesTheWaiter
  BY DEF IInv, ContentInv, TurnInv, ServesTheWaiter, Working
<1> QED
  BY <1>1, <1>2, Inductive, PTL

-----------------------------------------------------------------------------
(* The channel implements the one-at-a-time service.                       *)

LEMMA ServiceInit == Init => Service!Init
  BY DEF Init, Service!Init, CallStage

LEMMA ServiceStep ==
    IInv /\ [Next]_vars => [Service!Next]_([i \in Threads |-> CallStage(i)])
<1> SUFFICES ASSUME IInv, [Next]_vars
             PROVE  [Service!Next]_([i \in Threads |-> CallStage(i)])
  OBVIOUS
<1> DEFINE stage == [i \in Threads |-> CallStage(i)]
<1> USE DEF IInv, TypeOK, ThreadPC
\* A step that leaves pc, req and data alone changes no stage.
<1>1. ASSUME pc' = pc, req' = req, data' = data PROVE stage' = stage
  BY <1>1 DEF CallStage
<1>2. ASSUME NEW p \in Teeds, TeedServes(p) \/ TeedFault(p)
      PROVE  pc' = pc /\ req' = req /\ data' = data
  BY <1>2 DEF TeedServes, TeedFault, TeedOpen, TeedRefused, ContextCreated,
     ContextFailed, ReadEnter, ReadInterrupted, DownDataToUser, ReadCopy,
     ReadCopyFails, WriteIgnored, WriteBody, UpDataFromUser, TeedDies,
     ReleaseTest, ReleaseSub, caller, args
<1>3. ASSUME NEW i \in Threads, Call(i)
      PROVE  stage' = stage \/ Service!Call(i)
  <2>1. CASE used = 0
    BY <2>1, <1>3 DEF Call, Goto, CallStage
  <2>2. CASE used # 0
    <3>1. /\ pc[i] = "idle" /\ pc' = [pc EXCEPT ![i] = "lock"]
          /\ \A j \in Threads : j # i => req'[j] = req[j]
          /\ data' = data
      BY <2>2, <1>3 DEF Call, Goto
    <3>2. \A j \in Threads : j # i => CallStage(j)' = CallStage(j)
      BY <3>1 DEF CallStage
    <3>3. CallStage(i) = "idle" /\ CallStage(i)' = "called"
      BY <3>1 DEF CallStage
    <3> QED
      BY <3>2, <3>3 DEF Service!Call, Service!Move
  <2> QED
    BY <2>1, <2>2
<1>4. ASSUME NEW i \in Threads, LockThrd(i) PROVE Service!Turn(i)
  <2>1. \A j \in Threads : stage[j] # "turn"
    BY <1>4, SuppAssumption DEF LockThrd, MutexInv, Critical, CallStage
  <2>2. stage[i] = "called" /\ stage' = [stage EXCEPT ![i] = "turn"]
    BY <1>4 DEF LockThrd, Goto, CallStage, args
  <2> QED
    BY <2>1, <2>2 DEF Service!Turn, Service!Move
<1>5. ASSUME NEW i \in Threads, Send(i) \/ UpDataToUser(i) \/ DownDataFromUser(i)
      PROVE  stage' = stage
  BY <1>5 DEF Send, UpDataToUser, DownDataFromUser, Goto, CallStage, args
<1>6. ASSUME NEW i \in Threads, CopyAnswer(i) PROVE Service!Answer(i)
  BY <1>6 DEF CopyAnswer, Goto, CallStage, ContentInv, Service!Answer,
     Service!Move
<1>7. ASSUME NEW i \in Threads, UnlockThrd(i) PROVE stage' = stage
  BY <1>7 DEF UnlockThrd, Goto, CallStage, args
<1>8. ASSUME NEW i \in Threads, ReadRes(i) PROVE Service!Return(i)
  BY <1>8 DEF ReadRes, Goto, CallStage, ContentInv, Service!Return,
     Service!Move
<1>9. CASE UNCHANGED vars
  BY <1>9, <1>1 DEF vars, caller, args
<1> QED
  BY <1>1, <1>2, <1>3, <1>4, <1>5, <1>6, <1>7, <1>8, <1>9
     DEF Next, ThreadStep, Service!Next

\* Every behaviour of the channel is a behaviour of the service.
THEOREM Implements == Spec => ImplementsService
<1> QED
  BY ServiceInit, ServiceStep, Inductive, PTL
     DEF Spec, ImplementsService, Service!Spec
=============================================================================
