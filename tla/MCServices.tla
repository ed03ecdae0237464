----------------------------- MODULE MCServices -----------------------------
(***************************************************************************)
(* The three tables of the driver that serve the secure world, one at a    *)
(* time: the wait queue (WaitQueue), the pool of shared memory (ShmPool)   *)
(* and the table of handles (HandleDb).  They share nothing, so a          *)
(* behaviour of one with the others at rest stands for all of them.        *)
(***************************************************************************)
EXTENDS WaitQueue

CONSTANTS
    k1, k2, k3, t1, t2, e1, e2, e3,
    Threads, Base, Size, Grain, Sizes, Alignments, MaxRefs,
    Caller, Pointers, Null, Undefined, InitialMaxPtrs, MaxArrays

VARIABLES
    which,                              \* the table that is used
    chunks, used, poolPc, want, refs, stuck,    \* of ShmPool
    arrays, ptrs, max_ptrs, freed, touched, handlePc, ptr, n, p, handle \* of HandleDb

pool == <<chunks, used, poolPc, want, refs, stuck>>
handles == <<arrays, ptrs, max_ptrs, freed, touched, handlePc, ptr, n, p, handle>>

Pool == INSTANCE ShmPool WITH pc <- poolPc
Handles == INSTANCE HandleDb WITH pc <- handlePc, Threads <- {Caller}

ASSUME ServicesAssumption ==
    Pool!PoolAssumption /\ Handles!HandleAssumption

MCInit ==
    /\ which \in {"wait queue", "pool", "handles"}
    /\ Init /\ Pool!Init /\ Handles!Init

MCNext ==
    \/ /\ which = "wait queue"
       /\ Next
       /\ UNCHANGED <<which, pool, handles>>
    \/ /\ which = "pool"
       /\ Pool!Next
       /\ UNCHANGED <<which, vars, handles>>
    \/ /\ which = "handles"
       /\ Handles!Next
       /\ UNCHANGED <<which, vars, pool>>

\* The fairness of WaitQueue.
Waiting(A) == which = "wait queue" /\ A
MCSpec ==
    /\ MCInit /\ [][MCNext]_<<which, vars, pool, handles>>
    /\ \A k \in Keys : WF_vars(Waiting(Work(k)))
    /\ \A k \in Keys : SF_vars(Waiting(\E t \in Wakers : Wakeup(t, k)))
    /\ \A t \in Wakers : WF_vars(Waiting(Complete(t)))

\* However chunks were split and merged, the list of chunks, its free part and
\* the count of used bytes agree, also after the free that keeps the lock
\* (tee_shm_pool_alloc, tee_shm_pool_free).
PoolIsExact == Pool!PoolIsExact

\* The list of chunks implements the pool of disjoint, aligned, counted blocks
\* that the callers of tee_shm_pool_alloc rely on.
ImplementsBlockPool == Pool!ImplementsBlockPool

\* Used by one thread at a time, handle_get and handle_put keep the table and
\* the handles of the secure world in agreement, through growth and reuse.
HandlesAreExact == Handles!HandlesAreExact
=============================================================================
