----------------------------- MODULE WaitQueue -----------------------------
(***************************************************************************)
(* Sleeping on behalf of the secure world: core/tee_wait_queue.c, called by *)
(* handle_rpc_func_cmd_wait_queue for TEE_RPC_WAIT_QUEUE_SLEEP and _WAKEUP. *)
(*                                                                         *)
(* The secure world names a sleep by a key.  It asks for one wake-up per    *)
(* sleep, from another thread and in either order, and uses the key again   *)
(* only when both were asked for and the sleep has returned: that much is   *)
(* external.  A step is one section under priv->mu, or one operation on a   *)
(* completion.                                                              *)
(***************************************************************************)
EXTENDS Naturals, FiniteSets

CONSTANTS
    Keys,
    Wakers,             \* the threads that wake up
    Entries,            \* the blocks kmalloc can return
    None,               \* no entry, NULL
    NoKey

ASSUME WaitQueueAssumption ==
    /\ None \notin Entries /\ NoKey \notin Keys
    /\ IsFiniteSet(Entries)

VARIABLES
    db,         \* priv->db
    key,        \* the key of every entry
    done,       \* the counter of its completion
    allocated,  \* the blocks that are not free
    misused,    \* a block was used while it was free
    asked,      \* per key: what the secure world has asked for since it slept last
    sleeper,    \* per key: where the thread that sleeps stands
    ws,         \* and its entry
    waker,      \* the key each waking thread works for
    ww          \* and its entry, None before it has one

queue == <<db, key, done, allocated, misused>>
vars == <<queue, asked, sleeper, ws, waker, ww>>

Init ==
    /\ db = {} /\ allocated = {} /\ misused = FALSE
    /\ key = [e \in Entries |-> NoKey]
    /\ done = [e \in Entries |-> 0]
    /\ asked = [k \in Keys |-> {}]
    /\ sleeper = [k \in Keys |-> "idle"]
    /\ ws = [k \in Keys |-> None]
    /\ waker = [t \in Wakers |-> NoKey]
    /\ ww = [t \in Wakers |-> None]

\* A block is read or written through a pointer that may be stale.
Uses(e) == misused' = (misused \/ e \notin allocated)

\* tee_wait_queue_get: under the mutex, the entry of the key, or a new one.
Found(k, e) == e \in db /\ key[e] = k
TeeWaitQueueGet(k, e) ==
    \/ Found(k, e) /\ UNCHANGED <<db, key, done, allocated>>
    \/ /\ ~\E f \in Entries : Found(k, f)
       /\ e \notin allocated
       /\ allocated' = allocated \cup {e}
       /\ key' = [key EXCEPT ![e] = k]
       /\ done' = [done EXCEPT ![e] = 0]
       /\ db' = db \cup {e}

-----------------------------------------------------------------------------
(* tee_wait_queue_sleep *)

\* The secure world starts another round with a key it is done with.
AskAgain(k) ==
    /\ asked[k] = {"sleep", "wakeup"} /\ sleeper[k] = "idle"
    /\ asked' = [asked EXCEPT ![k] = {}]
    /\ UNCHANGED <<queue, sleeper, ws, waker, ww>>

Sleep(k) ==
    /\ "sleep" \notin asked[k]
    /\ asked' = [asked EXCEPT ![k] = @ \cup {"sleep"}]
    /\ \E e \in Entries : TeeWaitQueueGet(k, e) /\ ws' = [ws EXCEPT ![k] = e]
    /\ sleeper' = [sleeper EXCEPT ![k] = "wait"]
    /\ UNCHANGED <<misused, waker, ww>>

WaitForCompletion_NoWait(k) ==
    /\ sleeper[k] = "wait"
    /\ Uses(ws[k])
    /\ sleeper' = [sleeper EXCEPT ![k] = "del"]
    /\ UNCHANGED <<db, key, done, allocated, asked, ws, waker, ww>>
\* wait_for_completion returns and takes one from the counter.
WaitForCompletion(k) ==
    /\ sleeper[k] = "wait" /\ done[ws[k]] > 0
    /\ Uses(ws[k])
    /\ done' = [done EXCEPT ![ws[k]] = @ - 1]
    /\ sleeper' = [sleeper EXCEPT ![k] = "del"]
    /\ UNCHANGED <<db, key, allocated, asked, ws, waker, ww>>

ListDel(k) ==
    /\ sleeper[k] = "del"
    /\ Uses(ws[k])
    /\ db' = db \ {ws[k]}
    /\ sleeper' = [sleeper EXCEPT ![k] = "free"]
    /\ UNCHANGED <<key, done, allocated, asked, ws, waker, ww>>

FreeEntry_Leak(k) ==
    /\ sleeper[k] = "free"
    /\ sleeper' = [sleeper EXCEPT ![k] = "idle"]
    /\ ws' = [ws EXCEPT ![k] = None]
    /\ UNCHANGED <<queue, asked, waker, ww>>
\* What the block contains after kfree is undefined: no one may look at it.
FreeEntry(k) ==
    /\ sleeper[k] = "free"
    /\ Uses(ws[k])
    /\ allocated' = allocated \ {ws[k]}
    /\ key' = [key EXCEPT ![ws[k]] = NoKey]
    /\ done' = [done EXCEPT ![ws[k]] = 0]
    /\ sleeper' = [sleeper EXCEPT ![k] = "idle"]
    /\ ws' = [ws EXCEPT ![k] = None]
    /\ UNCHANGED <<db, asked, waker, ww>>

-----------------------------------------------------------------------------
(* tee_wait_queue_wakeup *)

Wakeup(t, k) ==
    /\ waker[t] = NoKey /\ "wakeup" \notin asked[k]
    /\ asked' = [asked EXCEPT ![k] = @ \cup {"wakeup"}]
    /\ waker' = [waker EXCEPT ![t] = k]
    /\ \E e \in Entries : TeeWaitQueueGet(k, e) /\ ww' = [ww EXCEPT ![t] = e]
    /\ UNCHANGED <<misused, sleeper, ws>>

Complete_Nobody(t) ==
    /\ waker[t] # NoKey
    /\ Uses(ww[t])
    \* complete() as if it counted only with somebody waiting
    /\ done' = [done EXCEPT ![ww[t]] =
                  IF \E k \in Keys : ws[k] = ww[t] THEN @ + 1 ELSE @]
    /\ waker' = [waker EXCEPT ![t] = NoKey]
    /\ ww' = [ww EXCEPT ![t] = None]
    /\ UNCHANGED <<db, key, allocated, asked, sleeper, ws>>
Complete(t) ==
    /\ waker[t] # NoKey
    /\ Uses(ww[t])
    /\ done' = [done EXCEPT ![ww[t]] = @ + 1]
    /\ waker' = [waker EXCEPT ![t] = NoKey]
    /\ ww' = [ww EXCEPT ![t] = None]
    /\ UNCHANGED <<db, key, allocated, asked, sleeper, ws>>

Work(k) == WaitForCompletion(k) \/ ListDel(k) \/ FreeEntry(k)
Next ==
    \/ \E k \in Keys : AskAgain(k) \/ Sleep(k) \/ Work(k)
    \/ \E t \in Wakers : Complete(t) \/ \E k \in Keys : Wakeup(t, k)

\* A thread that runs goes on, and the secure world owes every sleep its
\* wake-up: whatever the wakers do for other keys, they get to this one.
Fairness ==
    /\ \A k \in Keys : WF_vars(Work(k))
    /\ \A k \in Keys : SF_vars(\E t \in Wakers : Wakeup(t, k))
    /\ \A t \in Wakers : WF_vars(Complete(t))

Spec == Init /\ [][Next]_vars
LiveSpec == Spec /\ Fairness

-----------------------------------------------------------------------------
(* Properties *)

\* The variables keep their types, and no completion is counted twice.
TypeOK ==
    /\ db \subseteq Entries /\ allocated \subseteq Entries /\ misused \in BOOLEAN
    /\ key \in [Entries -> Keys \cup {NoKey}]
    /\ done \in [Entries -> 0..1]
    /\ asked \in [Keys -> SUBSET {"sleep", "wakeup"}]
    /\ sleeper \in [Keys -> {"idle", "wait", "del", "free"}]
    /\ ws \in [Keys -> Entries \cup {None}]
    /\ waker \in [Wakers -> Keys \cup {NoKey}]
    /\ ww \in [Wakers -> Entries \cup {None}]

\* Sleeper and waker of a key meet in one entry although either may come
\* first: the entry is freed by the sleeper and not used by the waker after.
NoUseAfterFree ==
    /\ TypeOK
    /\ ~misused /\ db \subseteq allocated
    /\ \A k \in Keys : ws[k] # None => ws[k] \in allocated
    /\ \A t \in Wakers : ww[t] # None => ww[t] \in allocated /\ key[ww[t]] = waker[t]

\* No sleep returns before its own wake-up was asked for.
NoEarlyReturn ==
    \A k \in Keys : sleeper[k] \in {"del", "free"} => "wakeup" \in asked[k]

\* When both halves of a round are over nothing is left of it: no entry, and
\* so no completion that would wake up the next sleep with that key.
NothingLeft ==
    \A k \in Keys :
        sleeper[k] = "idle" /\ (asked[k] = {} \/ "sleep" \in asked[k])
            => \A e \in allocated : key[e] # k

\* Rounds with the same key do not mix, whichever half comes first.
RoundsDoNotMix == NoEarlyReturn /\ NothingLeft

\* A sleep returns.
SleepReturns ==
    \A k \in Keys : sleeper[k] = "wait" ~> sleeper[k] = "idle"
=============================================================================
