----------------------------- MODULE BlockPool -----------------------------
(***************************************************************************)
(* What the shared memory pool promises to its users: blocks that are out  *)
(* at the same time share no byte, lie in the pool, are aligned, and stay  *)
(* as long as somebody holds a reference.  An allocation may be refused.   *)
(***************************************************************************)
EXTENDS Integers

CONSTANTS Base, Size, Grain    \* the pool's first address, its length and
                               \* the unit every address and size is rounded to

VARIABLE blocks    \* the blocks that are out

Apart(b, c) == b.paddr + b.size <= c.paddr \/ c.paddr + c.size <= b.paddr

Init == blocks = {}

Allocate ==
    \E a \in Base..(Base + Size - 1), s \in 1..Size :
        LET b == [paddr |-> a, size |-> s, refs |-> 1]
        IN  /\ a % Grain = 0 /\ s % Grain = 0
            /\ a + s <= Base + Size
            /\ \A c \in blocks : Apart(b, c)
            /\ blocks' = blocks \cup {b}

Retain ==
    \E b \in blocks :
        blocks' = (blocks \ {b}) \cup {[b EXCEPT !.refs = b.refs + 1]}

Release ==
    \E b \in blocks :
        blocks' = (blocks \ {b})
                     \cup (IF b.refs = 1 THEN {}
                           ELSE {[b EXCEPT !.refs = b.refs - 1]})

Next == Allocate \/ Retain \/ Release

Spec == Init /\ [][Next]_blocks
=============================================================================
