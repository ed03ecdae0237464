------------------------------ MODULE ShmPool ------------------------------
(***************************************************************************)
(* The allocator of the memory shared with the secure world:               *)
(* armtz/tee_mem.c.                                                        *)
(*                                                                         *)
(* The pool is a list of chunks in the order of their addresses, one after *)
(* the other without gaps; a chunk with counter 0 is free.  Since every    *)
(* chunk has a length of at least one byte the list is represented by the  *)
(* set of its chunks: the neighbours of a chunk are those that end where   *)
(* it begins and begin where it ends.                                      *)
(*                                                                         *)
(* Everything from mutex_lock to mutex_unlock of pool->lock is one step;   *)
(* tee_shm_pool_alloc compares the size with pool->used before it locks.   *)
(* One path returns without mutex_unlock: stuck says that it was taken,    *)
(* and from then on every thread that wants the lock sleeps for ever.      *)
(*                                                                         *)
(* Requests of zero bytes are left out.  The driver makes none: memory for *)
(* clients and for its own arguments has a length (tz_alloc rounds up to a *)
(* page, alloc_tee_arg refuses 0), and the Trusted OS, whose request is    *)
(* passed on unseen (tee_tz_drv.c:410), asks for room for an argument.     *)
(***************************************************************************)
EXTENDS Integers, FiniteSets

CONSTANTS
    Threads,        \* threads that allocate
    Base, Size,     \* pool->paddr and pool->size
    Grain,          \* 0x20, the cache line every request is rounded up to
    Sizes,          \* the sizes asked for
    Alignments,     \* the alignments asked for, powers of two
    MaxRefs         \* bound: references to one block

PoolAssumption ==
    /\ Base \in Nat \ {0} /\ Size \in Nat \ {0} /\ Grain \in Nat \ {0}
    /\ Sizes \subseteq Nat \ {0}
    /\ Alignments \subseteq Nat
    /\ MaxRefs \in Nat \ {0}

VARIABLES
    chunks,     \* pool->mchunks
    used,       \* pool->used
    pc,         \* where each thread stands in tee_shm_pool_alloc
    want,       \* the size and alignment it allocates
    refs,       \* the references the callers hold to the block at an address
    stuck       \* whether pool->lock is never given back

vars == <<chunks, used, pc, want, refs, stuck>>

Addr == Base..(Base + Size - 1)
Chunk == [paddr : Addr, size : 1..Size, counter : 0..MaxRefs]
Whole == [paddr |-> Base, size |-> Size, counter |-> 0]
End(c) == c.paddr + c.size

\* The kernel's ALIGN(x, a), for a power of two a.
ALIGN(x, a) == ((x + a - 1) \div a) * a

Wanted(s, a) ==
    [size |-> ALIGN(s, Grain), alignment |-> ALIGN(IF a = 0 THEN 1 ELSE a, Grain)]

\* tee_shm_pool_create
Init ==
    /\ chunks = {Whole}
    /\ used = 0
    /\ pc = [t \in Threads |-> "idle"]
    /\ want = [t \in Threads |-> [size |-> 0, alignment |-> 0]]
    /\ refs = [a \in Addr |-> 0]
    /\ stuck = FALSE

-----------------------------------------------------------------------------
(* tee_shm_pool_alloc *)

\* The entry, without the lock: a request larger than what is free fails.
CheckAlloc(t) ==
    /\ pc[t] = "idle"
    /\ \E s \in Sizes, a \in Alignments :
          LET w == Wanted(s, a)
          IN  /\ want' = [want EXCEPT ![t] = w]
              /\ pc' = [pc EXCEPT ![t] =
                            IF w.size > Size - used THEN "idle" ELSE "lock"]
    /\ UNCHANGED <<chunks, used, refs, stuck>>

\* The free chunks that hold the request, and the smallest of them; the list
\* is searched from the lowest address and the first of equal length is kept.
Fits(w) ==
    {c \in chunks : /\ c.counter = 0
                    /\ ALIGN(c.paddr, w.alignment) >= c.paddr
                    /\ ALIGN(c.paddr, w.alignment) + w.size <= End(c)}

IsBest(c, w) ==
    /\ c \in Fits(w)
    /\ \A d \in Fits(w) : \/ c.size < d.size
                          \/ c.size = d.size /\ c.paddr <= d.paddr

\* What remains of the chosen chunk before and after the block.
Remainders(c, begAddr, endAddr) ==
    {r \in {[paddr |-> c.paddr, size |-> begAddr - c.paddr, counter |-> 0],
            [paddr |-> endAddr, size |-> End(c) - endAddr, counter |-> 0]} :
        r.size > 0}

\* Under the lock: the best chunk is cut to the block, which the caller owns.
AllocChunk(t) ==
    /\ pc[t] = "lock" /\ ~stuck
    /\ \E c \in chunks :
          LET w == want[t]
              begAddr == ALIGN(c.paddr, w.alignment)
              endAddr == begAddr + w.size
          IN  /\ IsBest(c, w)
              /\ chunks' = (chunks \ {c})
                    \cup Remainders(c, begAddr, endAddr)
                    \cup {[paddr |-> begAddr, size |-> w.size, counter |-> 1]}
              /\ used' = used + w.size
              /\ refs' = [refs EXCEPT ![begAddr] = 1]
    /\ pc' = [pc EXCEPT ![t] = "idle"]
    /\ UNCHANGED <<want, stuck>>

\* No chunk is large enough, or there is no memory for the two new list nodes.
AllocFails(t) ==
    /\ pc[t] = "lock" /\ ~stuck
    /\ pc' = [pc EXCEPT ![t] = "idle"]
    /\ UNCHANGED <<chunks, used, want, refs, stuck>>

-----------------------------------------------------------------------------
(* tee_shm_pool_incref and tee_shm_pool_free, by the holder of a reference *)

Incref(a) ==
    /\ ~stuck
    /\ refs[a] \in 1..(MaxRefs - 1)
    /\ refs' = [refs EXCEPT ![a] = refs[a] + 1]
    /\ \E c \in chunks :
          /\ c.paddr = a
          /\ chunks' = (chunks \ {c})
                           \cup {[c EXCEPT !.counter = c.counter + 1]}
    /\ UNCHANGED <<used, pc, want, stuck>>

\* The chunk and its free neighbours become one free chunk.
Coalesce(c) ==
    LET gone == {c} \cup {d \in chunks : /\ d.counter = 0
                                         /\ End(d) = c.paddr \/ d.paddr = End(c)}
    IN  \E first \in gone, last \in gone :
            /\ \A d \in gone : first.paddr <= d.paddr /\ End(d) <= End(last)
            /\ chunks' = (chunks \ gone)
                  \cup {[paddr |-> first.paddr, size |-> End(last) - first.paddr,
                         counter |-> 0]}

\* Mutant: used is reduced by the length of the merged chunk.
FreeLast_MergedSize(a) ==
    /\ ~stuck
    /\ refs[a] = 1
    /\ refs' = [refs EXCEPT ![a] = 0]
    /\ \E c \in chunks :
          /\ c.paddr = a
          /\ Coalesce(c)
          /\ \E m \in chunks' :
                m.paddr <= a /\ a < End(m) /\ used' = used - m.size
    /\ UNCHANGED <<pc, want, stuck>>

\* The last reference is given back.
FreeLast(a) ==
    /\ ~stuck
    /\ refs[a] = 1
    /\ refs' = [refs EXCEPT ![a] = 0]
    /\ \E c \in chunks :
          /\ c.paddr = a
          /\ used' = used - c.size
          /\ Coalesce(c)
    /\ UNCHANGED <<pc, want, stuck>>

\* Mutant: the chunk is freed although other references remain.
FreeOne_Early(a) ==
    /\ ~stuck
    /\ refs[a] > 1
    /\ refs' = [refs EXCEPT ![a] = refs[a] - 1]
    /\ \E c \in chunks :
          /\ c.paddr = a
          /\ used' = used - c.size
          /\ Coalesce(c)
    /\ UNCHANGED <<pc, want, stuck>>

\* One of several references is given back.
FreeOne(a) ==
    /\ ~stuck
    /\ refs[a] > 1
    /\ refs' = [refs EXCEPT ![a] = refs[a] - 1]
    /\ \E c \in chunks :
          /\ c.paddr = a
          /\ chunks' = (chunks \ {c})
                           \cup {[c EXCEPT !.counter = c.counter - 1]}
    /\ UNCHANGED <<used, pc, want, stuck>>

\* What is free already is given back once more, as the Trusted OS may ask
\* (TEESMC_RPC_FUNC_FREE_ARG, tee_tz_drv.c:425): if a free chunk begins at the
\* address the call returns with the lock held, else nothing changes.
FreeReleased(a) ==
    /\ ~stuck /\ refs[a] = 0
    /\ \E c \in chunks : c.paddr = a
    /\ stuck' = TRUE
    /\ UNCHANGED <<chunks, used, pc, want, refs>>

-----------------------------------------------------------------------------
Next ==
    \/ \E t \in Threads : CheckAlloc(t) \/ AllocChunk(t) \/ AllocFails(t)
    \/ \E a \in Addr : Incref(a) \/ FreeOne(a) \/ FreeLast(a) \/ FreeReleased(a)

Spec == Init /\ [][Next]_vars

-----------------------------------------------------------------------------
TypeOK ==
    /\ chunks \subseteq Chunk
    /\ used \in 0..Size
    /\ pc \in [Threads -> {"idle", "lock"}]
    /\ want \in [Threads -> [size : Nat, alignment : Nat]]
    /\ refs \in [Addr -> 0..MaxRefs]
    /\ stuck \in BOOLEAN

\* The chunks are what the list is taken for: they follow one another from the
\* first to the last byte of the pool, so that no byte is lost or in two chunks.
Tiled ==
    \A a \in Addr :
        \E c \in chunks :
            /\ a \in c.paddr..(End(c) - 1)
            /\ End(c) <= Base + Size
            /\ \A d \in chunks : a \in d.paddr..(End(d) - 1) => d = c

\* Two free chunks are never neighbours: what was given back can be handed out
\* again in one piece (tee_mem.c:573-607).
Coalesced ==
    \A c, d \in chunks :
        c.counter = 0 /\ d.counter = 0 => End(c) # d.paddr

\* pool->used is the number of bytes in allocated chunks: the test in front of
\* the lock (tee_mem.c:400) rests on it.
UsedIsExact ==
    used = Cardinality({a \in Addr : \E c \in chunks :
                            c.counter > 0 /\ a \in c.paddr..(End(c) - 1)})

\* However chunks were split and merged, the list, its free part and the count
\* of used bytes agree; when all is given back it is one free chunk again, so
\* that tee_shm_pool_reset finds no lost one (tee_mem.c:266-274).
PoolIsExact ==
    /\ TypeOK /\ Tiled /\ Coalesced /\ UsedIsExact
    /\ (\A a \in Addr : refs[a] = 0) => chunks = {Whole} /\ used = 0

\* The blocks that are out, as the abstract pool sees them.
Blocks == {[paddr |-> c.paddr, size |-> c.size, refs |-> c.counter] :
               c \in {d \in chunks : d.counter > 0}}

Abstract == INSTANCE BlockPool WITH blocks <- Blocks

\* The list of chunks implements the pool of disjoint, aligned, counted blocks.
ImplementsBlockPool == Abstract!Spec
=============================================================================
