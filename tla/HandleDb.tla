------------------------------ MODULE HandleDb ------------------------------
(***************************************************************************)
(* The table that names shared memory to the secure world: armtz/handle.c, *)
(* as handle_rpc uses it for the one shm_handle_db of the driver.          *)
(*                                                                         *)
(* A thread that serves an allocation stores a pointer and hands out its   *)
(* index; the release gives the index back.  Nothing in handle.c takes a   *)
(* lock.  A step is one read or write of the table, one krealloc, or the   *)
(* run of assignments that publishes what krealloc returned.  krealloc     *)
(* moves the table: it always doubles, and a power of two fills its slab.  *)
(***************************************************************************)
EXTENDS Integers, Sequences, FiniteSets

CONSTANTS
    Threads,
    Pointers,           \* the pointers stored, each at most once at a time
    Null,               \* an empty slot
    Undefined,          \* what fresh memory contains
    None,               \* no handle
    InitialMaxPtrs,     \* HANDLE_DB_INITIAL_MAX_PTRS
    MaxArrays           \* bound: the times krealloc has memory to give

HandleAssumption ==
    /\ Null \notin Pointers /\ Undefined \notin Pointers /\ Null # Undefined
    /\ None \notin Nat
    /\ InitialMaxPtrs \in Nat \ {0}
    /\ MaxArrays \in Nat

VARIABLES
    arrays,     \* the contents of every array ever allocated
    ptrs,       \* db->ptrs, 0 for NULL
    max_ptrs,   \* db->max_ptrs
    freed,      \* the arrays krealloc gave back
    touched,    \* memory that is not the table's was read or written
    pc,         \* where each thread stands
    ptr,        \* the pointer it stores or releases
    n,          \* its index into the table
    p,          \* the array or the pointer it got
    handle      \* the handle the secure world holds for each pointer

db == <<arrays, ptrs, max_ptrs, freed, touched>>
vars == <<db, pc, ptr, n, p, handle>>

Cells == Pointers \cup {Null, Undefined}
Goto(t, from, to) == pc[t] = from /\ pc' = [pc EXCEPT ![t] = to]
Set(f, t, v) == [f EXCEPT ![t] = v]
\* The locals of a thread that returns are gone.
Return(t, from) ==
    /\ Goto(t, from, "idle")
    /\ ptr' = Set(ptr, t, Null) /\ n' = Set(n, t, 0) /\ p' = Set(p, t, Null)

Inside(i) == ptrs # 0 /\ ptrs \notin freed /\ i \in DOMAIN arrays[ptrs]
\* What a read of slot i finds, and the arrays after a write to it.
Read(i) == IF ptrs # 0 /\ i \in DOMAIN arrays[ptrs] THEN arrays[ptrs][i] ELSE Undefined
Write(i, v) == IF ptrs # 0 /\ i \in DOMAIN arrays[ptrs]
               THEN [arrays EXCEPT ![ptrs][i] = v] ELSE arrays
Touch(i) == touched' = (touched \/ ~Inside(i))

Busy(x) == \E t \in Threads : pc[t] # "idle" /\ ptr[t] = x

Init ==
    /\ arrays = <<>>
    /\ ptrs = 0 /\ max_ptrs = 0
    /\ freed = {} /\ touched = FALSE
    /\ pc = [t \in Threads |-> "idle"]
    /\ ptr = [t \in Threads |-> Null]
    /\ n = [t \in Threads |-> 0]
    /\ p = [t \in Threads |-> Null]
    /\ handle = [x \in Pointers |-> None]

-----------------------------------------------------------------------------
(* handle_get *)

\* TEESMC_ST_RPC_FUNC_ALLOC_PAYLOAD with a new shared memory object.
Get(t, x) ==
    /\ handle[x] = None /\ ~Busy(x)
    /\ Goto(t, "idle", "scan")
    /\ ptr' = Set(ptr, t, x)
    /\ n' = Set(n, t, 0)
    /\ UNCHANGED <<db, p, handle>>

\* One turn of the search for an empty location.
Scan(t) ==
    /\ n[t] < max_ptrs
    /\ Touch(n[t])
    /\ IF Read(n[t]) = Null
       THEN Goto(t, "scan", "store") /\ UNCHANGED n
       ELSE Goto(t, "scan", "scan") /\ n' = Set(n, t, n[t] + 1)
    /\ UNCHANGED <<arrays, ptrs, max_ptrs, freed, ptr, p, handle>>

\* The location is taken and its index is the handle.
Take(t) ==
    /\ Return(t, "store")
    /\ Touch(n[t])
    /\ arrays' = Write(n[t], ptr[t])
    /\ handle' = Set(handle, ptr[t], n[t])
    /\ UNCHANGED <<ptrs, max_ptrs, freed>>

NewMax == IF max_ptrs = 0 THEN InitialMaxPtrs ELSE 2 * max_ptrs

\* No location is free: krealloc copies the table into a larger array
\* and gives the old one back, whose contents are undefined then.
Grow(t) ==
    /\ n[t] >= max_ptrs
    /\ Len(arrays) < MaxArrays
    /\ Goto(t, "scan", "publish")
    /\ arrays' = Append([a \in DOMAIN arrays |->
                            IF a = ptrs THEN [i \in DOMAIN arrays[a] |-> Undefined]
                            ELSE arrays[a]],
                        [i \in 0..(NewMax - 1) |-> Read(i)])
    /\ p' = Set(p, t, Len(arrays'))
    /\ touched' = (touched \/ ptrs \in freed)
    /\ freed' = freed \cup ({ptrs} \ {0})
    /\ UNCHANGED <<ptrs, max_ptrs, ptr, n, handle>>

\* krealloc has no memory: -1, and handle_rpc gives the object back.
GrowFails(t) ==
    /\ n[t] >= max_ptrs
    /\ Return(t, "scan")
    /\ UNCHANGED <<db, handle>>

\* The new array becomes the table, its new part is cleared, the first
\* location of it is taken.
Published(a) == [i \in DOMAIN arrays[a] |-> IF i >= max_ptrs THEN Null ELSE arrays[a][i]]
Publish_NotCleared(t) ==
    /\ Return(t, "publish")
    /\ ptrs' = p[t]
    /\ max_ptrs' = Cardinality(DOMAIN arrays[p[t]])
    /\ arrays' = [arrays EXCEPT ![p[t]][n[t]] = ptr[t]]
    /\ handle' = Set(handle, ptr[t], n[t])
    /\ UNCHANGED <<freed, touched>>
Publish(t) ==
    /\ Return(t, "publish")
    /\ ptrs' = p[t]
    /\ max_ptrs' = Cardinality(DOMAIN arrays[p[t]])
    /\ arrays' = [arrays EXCEPT ![p[t]] = [Published(p[t]) EXCEPT ![n[t]] = ptr[t]]]
    /\ handle' = Set(handle, ptr[t], n[t])
    \* memset with a length below zero
    /\ touched' = (touched \/ Cardinality(DOMAIN arrays[p[t]]) < max_ptrs)
    /\ UNCHANGED freed

-----------------------------------------------------------------------------
(* handle_put *)

\* TEESMC_ST_RPC_FUNC_FREE_PAYLOAD for a handle the secure world was given:
\* the pointer is read, unless the handle is beyond the table.
Put(t, x) ==
    /\ handle[x] # None /\ ~Busy(x)
    /\ ptr' = Set(ptr, t, x)
    /\ n' = Set(n, t, handle[x])
    /\ handle' = Set(handle, x, None)
    /\ IF handle[x] >= max_ptrs
       THEN /\ Goto(t, "idle", "free") /\ p' = Set(p, t, Null)
            /\ UNCHANGED touched
       ELSE /\ Goto(t, "idle", "clear") /\ p' = Set(p, t, Read(handle[x]))
            /\ Touch(handle[x])
    /\ UNCHANGED <<arrays, ptrs, max_ptrs, freed>>

\* The location is empty again.
Clear(t) ==
    /\ Goto(t, "clear", "free")
    /\ Touch(n[t])
    /\ arrays' = Write(n[t], Null)
    /\ UNCHANGED <<ptrs, max_ptrs, freed, ptr, n, p, handle>>

\* handle_rpc_free: the object found under the handle is released.
Free(t) ==
    /\ Return(t, "free")
    /\ UNCHANGED <<db, handle>>

Step(t) == Scan(t) \/ Take(t) \/ Grow(t) \/ GrowFails(t) \/ Publish(t) \/ Clear(t) \/ Free(t)
Next == \E t \in Threads : Step(t) \/ \E x \in Pointers : Get(t, x) \/ Put(t, x)
Spec == Init /\ [][Next]_vars

-----------------------------------------------------------------------------
(* Properties *)

\* The variables keep their types.
TypeOK ==
    /\ \A a \in 1..Len(arrays) : \A i \in DOMAIN arrays[a] : arrays[a][i] \in Cells
    /\ ptrs \in 0..Len(arrays) /\ max_ptrs \in Nat
    /\ freed \subseteq 1..Len(arrays) /\ touched \in BOOLEAN
    /\ pc \in [Threads -> {"idle", "scan", "store", "publish", "clear", "free"}]
    /\ ptr \in [Threads -> Pointers \cup {Null}]
    /\ n \in [Threads -> Nat]
    /\ p \in [Threads -> Cells \cup 1..Len(arrays)]
    /\ handle \in [Pointers -> Nat \cup {None}]

\* No two objects the secure world holds have the same handle: "Allocates a
\* new handle and assigns the supplied pointer to it" (handle.h:18).
HandlesAreDistinct ==
    \A x, y \in Pointers : x # y /\ handle[x] # None => handle[x] # handle[y]

\* Through searching, growing and reuse, the table holds exactly the objects
\* that have a handle, each at its handle, and those a release is taking out:
\* growing neither loses an object nor leaves a location that is not free, and
\* no memory beyond the table or given back is used.
TableIsExact ==
    /\ TypeOK
    /\ ~touched
    /\ \A i \in 0..(max_ptrs - 1) :
           LET held == {x \in Pointers : handle[x] = i}
               leaving == {ptr[t] : t \in {u \in Threads : pc[u] = "clear" /\ n[u] = i}}
           IN IF ptrs \in freed THEN \E t \in Threads : pc[t] = "publish"
              ELSE \/ Read(i) \in held \cup leaving
                   \/ Read(i) = Null /\ held \cup leaving = {}

\* A release frees the object its handle was given for, and no other
\* (handle.h:27-30).
ReleaseFindsItsObject ==
    \A t \in Threads : pc[t] \in {"clear", "free"} => p[t] = ptr[t]

\* What a thread alone may rely on, over any series of calls.
HandlesAreExact == HandlesAreDistinct /\ TableIsExact /\ ReleaseFindsItsObject
=============================================================================
