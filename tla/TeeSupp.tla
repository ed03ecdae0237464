------------------------------ MODULE TeeSupp ------------------------------
(***************************************************************************)
(* The supplicant channel of the Linux driver (core/tee_supp_com.c and the *)
(* tee_supp_open/tee_supp_release pair of core/tee_core.c).                *)
(*                                                                         *)
(* Driver threads that serve an RPC of the secure world hand a request to  *)
(* the user-space daemon "teed" with tee_supp_cmd(INVOKE) and sleep until  *)
(* it is answered; teed opens the device, and loops on read() and write(). *)
(* Two counting semaphores pass the turn, thrd_mutex lets one request at a *)
(* time use the two message buffers, and `used` counts the teeds.          *)
(*                                                                         *)
(* A step is a stretch of code between two points where the thread may     *)
(* block or where another thread may see a difference.  outsync and insync *)
(* are held only inside one step, so they need no variable.                *)
(***************************************************************************)
EXTENDS Integers, FiniteSets

CONSTANTS
    Threads,                \* driver threads that call tee_supp_cmd
    Teeds,                  \* processes whose name starts with "teed"
    NoThread,
    NbrBf,                  \* numbers of buffers a request may carry
    TEE_RPC_BUFFER_NUMBER,  \* the capacity of a message, 5 in the driver
    MaxCalls,               \* bound: calls made by one thread
    Faults                  \* what may go wrong in the environment

FaultKinds == {"crash", "signal", "enomem", "efault_read", "efault_write"}

ASSUME SuppAssumption ==
    /\ NoThread \notin Threads
    /\ IsFiniteSet(Teeds)
    /\ TEE_RPC_BUFFER_NUMBER \in Nat
    /\ NbrBf \subseteq 0..TEE_RPC_BUFFER_NUMBER
    /\ MaxCalls \in Nat
    /\ Faults \subseteq FaultKinds

VARIABLES
    used,           \* rpc->used
    datatouser,     \* count of the semaphore rpc->datatouser
    datafromuser,   \* count of the semaphore rpc->datafromuser
    thrd_mutex,     \* the thread that holds rpc->thrd_mutex
    commToUser,     \* the request in the buffer to the daemon
    commFromUser,   \* the request whose answer is in the buffer from it,
                    \* and whether that answer was stored completely
    res,            \* rpc->res
    pc,             \* where each driver thread stands in tee_supp_cmd
    req,            \* the request of the thread's current or last call
    data,           \* what the thread copied from commFromUser
    ret,            \* what tee_supp_cmd returned
    teed,           \* where each daemon stands
    held            \* the request the daemon read last

msgs == <<commToUser, commFromUser, res>>
chan == <<datatouser, datafromuser, thrd_mutex, msgs>>
args == <<req, data, ret>>
caller == <<pc, args>>
daemon == <<teed, held>>
vars == <<used, chan, caller, daemon>>

(***************************************************************************)
(* A request is told from every other by the thread that made it and the   *)
(* number of that thread's call; nbr_bf decides its length.                *)
(***************************************************************************)
Request == [from : Threads, n : 0..MaxCalls, nbr_bf : NbrBf \cup {0}]
NoRequest == [from |-> NoThread, n |-> 0, nbr_bf |-> 0]
Answer == [to : Request \cup {NoRequest}, complete : BOOLEAN]
NoAnswer == [to |-> NoRequest, complete |-> FALSE]

ThreadPC == {"idle", "lock", "send", "up", "down", "copy", "unlock", "res"}
TeedPC == {"out", "ebusy", "create", "ready", "wait", "copying", "got", "up",
           "close", "sub"}

\* The daemons that have the device open, or are opening or closing it.
Open == {"create", "ready", "wait", "copying", "got", "up", "close", "sub"}
\* The thread is between mutex_lock and mutex_unlock of thrd_mutex.
Critical == {"send", "up", "down", "copy", "unlock"}

Init ==
    /\ used = 0 /\ datatouser = 0 /\ datafromuser = 0
    /\ thrd_mutex = NoThread
    /\ commToUser = NoRequest
    /\ commFromUser = NoAnswer
    /\ res = "ok"
    /\ pc = [i \in Threads |-> "idle"]
    /\ req = [i \in Threads |-> [from |-> i, n |-> 0, nbr_bf |-> 0]]
    /\ data = [i \in Threads |-> NoAnswer]
    /\ ret = [i \in Threads |-> "none"]
    /\ teed = [p \in Teeds |-> "out"]
    /\ held = [p \in Teeds |-> NoRequest]

Goto(i, from, to) ==
    /\ pc[i] = from
    /\ pc' = [pc EXCEPT ![i] = to]

Step(p, from, to) ==
    /\ teed[p] = from
    /\ teed' = [teed EXCEPT ![p] = to]

-----------------------------------------------------------------------------
(* tee_supp_cmd(tee, TEE_RPC_ICMD_INVOKE, data, datalen) by a driver thread *)

\* Entry: the call fails at once when no teed is registered.
Call(i) ==
    /\ req[i].n < MaxCalls
    /\ \E b \in NbrBf :
          req' = [req EXCEPT ![i] = [from |-> i, n |-> req[i].n + 1,
                                     nbr_bf |-> b]]
    /\ IF used = 0
       THEN Goto(i, "idle", "idle") /\ ret' = [ret EXCEPT ![i] = "fail"]
       ELSE Goto(i, "idle", "lock") /\ ret' = [ret EXCEPT ![i] = "none"]
    /\ UNCHANGED <<used, chan, data, daemon>>

\* Mutant: the thread does not wait for the holder of thrd_mutex.
LockThrd_NoWait(i) ==
    /\ Goto(i, "lock", "send")
    /\ thrd_mutex' = i
    /\ UNCHANGED <<used, datatouser, datafromuser, msgs, args, daemon>>

LockThrd(i) ==
    /\ thrd_mutex = NoThread
    /\ Goto(i, "lock", "send")
    /\ thrd_mutex' = i
    /\ UNCHANGED <<used, datatouser, datafromuser, msgs, args, daemon>>

\* Under outsync: the previous result is cleared, the request copied out.
Send(i) ==
    /\ Goto(i, "send", "up")
    /\ res' = "ok"
    /\ commToUser' = req[i]
    /\ UNCHANGED <<used, datatouser, datafromuser, thrd_mutex, commFromUser,
                   args, daemon>>

UpDataToUser(i) ==
    /\ Goto(i, "up", "down")
    /\ datatouser' = datatouser + 1
    /\ UNCHANGED <<used, datafromuser, thrd_mutex, msgs, args, daemon>>

\* Mutant: a signal takes the thread out of the wait, and it gives up the mutex.
DownDataFromUser_Interruptible(i) ==
    /\ pc[i] = "down"
    /\ \/ /\ datafromuser > 0
          /\ datafromuser' = datafromuser - 1
          /\ pc' = [pc EXCEPT ![i] = "copy"]
          /\ UNCHANGED <<thrd_mutex, ret>>
       \/ /\ thrd_mutex' = NoThread
          /\ pc' = [pc EXCEPT ![i] = "idle"]
          /\ ret' = [ret EXCEPT ![i] = "fail"]
          /\ UNCHANGED datafromuser
    /\ UNCHANGED <<used, datatouser, msgs, req, data, daemon>>

\* down(), not down_interruptible(): only an answer wakes the thread.
DownDataFromUser(i) ==
    /\ datafromuser > 0
    /\ Goto(i, "down", "copy")
    /\ datafromuser' = datafromuser - 1
    /\ UNCHANGED <<used, datatouser, thrd_mutex, msgs, args, daemon>>

CopyAnswer(i) ==
    /\ Goto(i, "copy", "unlock")
    /\ data' = [data EXCEPT ![i] = commFromUser]
    /\ UNCHANGED <<used, chan, req, ret, daemon>>

\* Mutant: the mutex is kept.
UnlockThrd_Not(i) ==
    /\ Goto(i, "unlock", "res")
    /\ UNCHANGED <<used, chan, args, daemon>>

UnlockThrd(i) ==
    /\ Goto(i, "unlock", "res")
    /\ thrd_mutex' = NoThread
    /\ UNCHANGED <<used, datatouser, datafromuser, msgs, args, daemon>>

\* rpc->res is read after thrd_mutex was released.
ReadRes(i) ==
    /\ Goto(i, "res", "idle")
    /\ ret' = [ret EXCEPT ![i] = res]
    /\ UNCHANGED <<used, chan, req, data, daemon>>

-----------------------------------------------------------------------------
(* open(), read(), write() and close() by a teed process                   *)

\* Mutant: off by one in the test of the registered teeds.
TeedOpen_OffByOne(p) ==
    /\ Step(p, "out", IF used > 1 THEN "ebusy" ELSE "create")
    /\ used' = used + 1
    /\ UNCHANGED <<chan, caller, held>>

\* tee_supp_open: the increment and the test of its result are one step,
\* the decrement that a refused teed owes is another.
TeedOpen(p) ==
    /\ Step(p, "out", IF used + 1 > 1 THEN "ebusy" ELSE "create")
    /\ used' = used + 1
    /\ UNCHANGED <<chan, caller, held>>

TeedRefused(p) ==
    /\ Step(p, "ebusy", "out")
    /\ used' = used - 1
    /\ UNCHANGED <<chan, caller, held>>

ContextCreated(p) ==
    /\ Step(p, "create", "ready")
    /\ UNCHANGED <<used, chan, caller, held>>

\* tee_context_create fails: open() returns and nobody takes `used` back.
ContextFailed(p) ==
    /\ "enomem" \in Faults
    /\ Step(p, "create", "out")
    /\ UNCHANGED <<used, chan, caller, held>>

\* read() fails with EPERM when used is 0, and then changes nothing.
ReadEnter(p) ==
    /\ used # 0
    /\ Step(p, "ready", "wait")
    /\ UNCHANGED <<used, chan, caller, held>>

ReadInterrupted(p) ==
    /\ "signal" \in Faults
    /\ Step(p, "wait", "ready")
    /\ UNCHANGED <<used, chan, caller, held>>


DownDataToUser(p) ==
    /\ datatouser > 0
    /\ Step(p, "wait", "copying")
    /\ datatouser' = datatouser - 1
    /\ UNCHANGED <<used, datafromuser, thrd_mutex, msgs, caller, held>>

ReadCopy(p) ==
    /\ Step(p, "copying", "got")
    /\ held' = [held EXCEPT ![p] = commToUser]
    /\ UNCHANGED <<used, chan, caller>>

\* A short user buffer or a failing copy_to_user: EINVAL, and the request
\* that datatouser announced is not announced again.
ReadCopyFails(p) ==
    /\ "efault_read" \in Faults
    /\ Step(p, "copying", "ready")
    /\ UNCHANGED <<used, chan, caller, held>>

(***************************************************************************)
(* teed answers a request with the number of buffers it carried, so the    *)
(* write() of a full message has length sizeof(commFromUser), which is not *)
(* less than the limit: write() returns 0 and leaves everything alone, as  *)
(* it does when used is 0.                                                 *)
(***************************************************************************)
AnswerFits(p) == held[p].nbr_bf < TEE_RPC_BUFFER_NUMBER

WriteIgnored(p) ==
    /\ used = 0 \/ ~AnswerFits(p)
    /\ Step(p, "got", "ready")
    /\ UNCHANGED <<used, chan, caller, held>>

\* The part of tee_supp_write under insync: the copy and the translation of
\* the buffers' addresses, one of which may fail.
WriteBody(p) ==
    /\ used # 0
    /\ AnswerFits(p)
    /\ Step(p, "got", "up")
    /\ \E complete \in BOOLEAN :
          /\ complete \/ "efault_write" \in Faults
          /\ commFromUser' = [to |-> held[p], complete |-> complete]
          /\ res' = IF complete THEN "ok" ELSE "einval"
    /\ UNCHANGED <<used, datatouser, datafromuser, thrd_mutex, commToUser,
                   caller, held>>

\* up(&rpc->datafromuser), on the error paths too.
UpDataFromUser(p) ==
    /\ Step(p, "up", "ready")
    /\ datafromuser' = datafromuser + 1
    /\ UNCHANGED <<used, datatouser, thrd_mutex, msgs, caller, held>>

\* The process ends wherever it can be killed; the kernel closes its file,
\* and tee_ctx_release destroys the context before tee_supp_release.
TeedDies(p) ==
    /\ "crash" \in Faults
    /\ teed[p] \in {"ready", "wait", "got"}
    /\ teed' = [teed EXCEPT ![p] = "close"]
    /\ UNCHANGED <<used, chan, caller, held>>

\* tee_supp_release tests used == 1 and decrements in two steps.
ReleaseTest(p) ==
    /\ Step(p, "close", IF used = 1 THEN "sub" ELSE "out")
    /\ UNCHANGED <<used, chan, caller, held>>

ReleaseSub(p) ==
    /\ Step(p, "sub", "out")
    /\ used' = used - 1
    /\ UNCHANGED <<chan, caller, held>>

-----------------------------------------------------------------------------
ThreadStep(i) ==
    \/ LockThrd(i) \/ Send(i) \/ UpDataToUser(i) \/ DownDataFromUser(i)
    \/ CopyAnswer(i) \/ UnlockThrd(i) \/ ReadRes(i)

TeedServes(p) ==
    \/ TeedOpen(p) \/ TeedRefused(p) \/ ContextCreated(p)
    \/ ReadEnter(p) \/ DownDataToUser(p) \/ ReadCopy(p)
    \/ WriteIgnored(p) \/ WriteBody(p) \/ UpDataFromUser(p)
    \/ ReleaseTest(p) \/ ReleaseSub(p)

TeedFault(p) ==
    \/ ContextFailed(p) \/ ReadInterrupted(p) \/ ReadCopyFails(p)
    \/ TeedDies(p)

Next ==
    \/ \E i \in Threads : Call(i) \/ ThreadStep(i)
    \/ \E p \in Teeds : TeedServes(p) \/ TeedFault(p)

Spec == Init /\ [][Next]_vars

(***************************************************************************)
(* A thread inside tee_supp_cmd runs when it can; a mutex is handed to a   *)
(* waiter in the end, hence strong fairness on LockThrd.  A daemon that    *)
(* is started keeps serving, and keeps trying to open the device; signals  *)
(* do not interrupt every read() that could have had a request.            *)
(***************************************************************************)
Fairness ==
    /\ \A i \in Threads : WF_vars(ThreadStep(i)) /\ SF_vars(LockThrd(i))
    /\ \A p \in Teeds : WF_vars(TeedServes(p)) /\ SF_vars(DownDataToUser(p))

FairSpec == Spec /\ Fairness

-----------------------------------------------------------------------------
TypeOK ==
    /\ used \in Int /\ datatouser \in Nat /\ datafromuser \in Nat
    /\ thrd_mutex \in Threads \cup {NoThread}
    /\ commToUser \in Request \cup {NoRequest}
    /\ commFromUser \in Answer
    /\ res \in {"ok", "einval"}
    /\ pc \in [Threads -> ThreadPC]
    /\ req \in [Threads -> Request]
    /\ data \in [Threads -> Answer]
    /\ ret \in [Threads -> {"none", "fail", "ok", "einval"}]
    /\ teed \in [Teeds -> TeedPC]
    /\ held \in [Teeds -> Request \cup {NoRequest}]

\* `used` keeps a second teed out: the device is open in at most one, however
\* the opens, the refusals and the two-step releases of several interleave.
OnlyOneTeed ==
    \A p, q \in Teeds : teed[p] \in Open /\ teed[q] \in Open => p = q

\* A registered teed never sees used = 0, so neither its read() nor its write()
\* takes the "not ready" exit, on which write() would drop an answer.
RegisteredTeedIsReady ==
    \A p \in Teeds : teed[p] \in Open => used > 0

\* The turn to act on the message buffers exists at most once, whatever
\* crashes, signals and failing copies lose: as a count of one semaphore or
\* as the step a daemon is in, and then some thread waits for the answer.
TurnHolders ==
    {<<"sem", s>> : s \in {x \in {"to", "from"} :
        (IF x = "to" THEN datatouser ELSE datafromuser) > 0}}
    \cup {<<"teed", p>> : p \in {q \in Teeds : teed[q] \in {"copying", "got", "up"}}}

OneTurn ==
    /\ datatouser <= 1 /\ datafromuser <= 1
    /\ \A x, y \in TurnHolders : x = y
    /\ TurnHolders # {} => \E i \in Threads : pc[i] = "down"

\* The daemon always works on the request of the thread that waits now, never
\* on one that is gone: no stale request survives a crash of the daemon.
ServesTheWaiter ==
    \A p \in Teeds : teed[p] = "got" =>
        \E i \in Threads : pc[i] = "down" /\ held[p] = req[i]

\* "Other threads blocks here until we've copied our answer": what a thread
\* copies is the answer to its own request.
OwnAnswer ==
    \A i \in Threads : pc[i] \in {"unlock", "res"} => data[i].to = req[i]

(***************************************************************************)
(* The channel implements the one-at-a-time service.  A thread's turn      *)
(* starts with thrd_mutex and it is answered once its copy of the answer   *)
(* is its own; a copy of another answer has no counterpart.                *)
(***************************************************************************)
CallStage(i) ==
    CASE pc[i] = "idle" -> "idle"
      [] pc[i] = "lock" -> "called"
      [] pc[i] \in {"send", "up", "down", "copy"} -> "turn"
      [] OTHER -> IF data[i].to = req[i] THEN "answered" ELSE "wrong"

Service == INSTANCE RpcService WITH call <- [i \in Threads |-> CallStage(i)]
ImplementsService == Service!Spec

\* A call that got past the readiness check returns.
CallReturns == \A i \in Threads : pc[i] = "lock" ~> pc[i] = "idle"

\* And whatever fails meanwhile: it returns, unless the turn was lost, with a
\* teed that died or an answer that was not accepted, or no teed is left.
TurnIsLost == TurnHolders = {} /\ \E i \in Threads : pc[i] = "down"
CallReturnsUnlessLost ==
    \A i \in Threads :
        pc[i] = "lock" ~> \/ pc[i] = "idle"
                          \/ TurnIsLost
                          \/ \A p \in Teeds : teed[p] \notin Open

\* The same once a teed is there to stay: a call made of a teed that died is
\* served by the teed that is started after it.
TeedStays == \E p \in Teeds : <>[](teed[p] \in Open \ {"close", "sub"})
RestartedTeedServes == TeedStays => CallReturns

\* The result a call returns is the one that was stored with its answer.
ResultIsOwn ==
    \A i \in Threads :
        pc[i] = "idle" /\ ret[i] \in {"ok", "einval"} =>
            (ret[i] = "ok" <=> data[i].complete)

\* "Only one teed is allowed": a teed is refused only because of another one.
RefusedForAnother ==
    \A p \in Teeds : teed[p] = "ebusy" =>
        \E q \in Teeds \ {p} : teed[q] # "out"
-----------------------------------------------------------------------------
(***************************************************************************)
(* The inductive invariant behind the safety properties.                   *)
(***************************************************************************)
Working == {"copying", "got", "up"}
Counted == {p \in Teeds : teed[p] \in Open \cup {"ebusy"}}

MutexInv == \A i \in Threads : pc[i] \in Critical <=> thrd_mutex = i

UsedInv == used >= Cardinality(Counted)

TurnInv ==
    /\ datatouser \in {0, 1} /\ datafromuser \in {0, 1}
    /\ datatouser = 1 => datafromuser = 0
    /\ datatouser = 1 \/ datafromuser = 1 =>
          \A p \in Teeds : teed[p] \notin Working
    /\ (\/ datatouser = 1 \/ datafromuser = 1
        \/ \E p \in Teeds : teed[p] \in Working) =>
          \E i \in Threads : pc[i] = "down"

ContentInv ==
    \A i \in Threads :
        /\ pc[i] \in {"up", "down"} => commToUser = req[i]
        /\ pc[i] = "down" =>
              \A p \in Teeds :
                  /\ teed[p] = "got" => held[p] = req[i]
                  /\ teed[p] = "up" => commFromUser.to = req[i]
        /\ pc[i] = "down" /\ datafromuser = 1 => commFromUser.to = req[i]
        /\ pc[i] = "copy" => commFromUser.to = req[i]
        /\ pc[i] \in {"unlock", "res"} => data[i].to = req[i]

IInv == TypeOK /\ MutexInv /\ UsedInv /\ OnlyOneTeed /\ TurnInv /\ ContentInv
=============================================================================
