--------------------------- MODULE ServicesProofs ---------------------------
(***************************************************************************)
(* Proofs about the three tables that serve the secure world, for all      *)
(* values of the constants.                                                *)
(*                                                                         *)
(* WaitQueue: sleeper and waker of a round meet in one entry, the sleeper  *)
(* frees it when nobody else uses it, and nothing of a round is left for   *)
(* the next one.  ShmPool: the chunks partition the pool and the counts    *)
(* are exact, and the list of chunks implements BlockPool.  HandleDb: used *)
(* by one thread, the table holds exactly what has a handle.               *)
(***************************************************************************)
EXTENDS MCServices, Sequences, FiniteSetTheorems, TLAPS

-----------------------------------------------------------------------------
(* The wait queue *)

\* An allocated entry belongs to a key of its own, and to the sleep that
\* waits in it or to a wake-up that came first; when it is complete the
\* wake-up is over and the sleep is not.
EntryInv(e) ==
    /\ e \in allocated <=> key[e] # NoKey
    /\ \A f \in allocated : e \in allocated /\ key[e] = key[f] => e = f
    /\ e \in allocated =>
          \/ sleeper[key[e]] # "idle" /\ ws[key[e]] = e
          \/ /\ sleeper[key[e]] = "idle" /\ e \in db
             /\ "sleep" \notin asked[key[e]] /\ "wakeup" \in asked[key[e]]
    /\ e \in allocated /\ done[e] = 1 =>
          /\ "wakeup" \in asked[key[e]]
          /\ sleeper[key[e]] \in {"idle", "wait"}
          /\ \A t \in Wakers : waker[t] # key[e]

\* A thread that sleeps holds the entry of its key.
KeyInv(k) ==
    /\ sleeper[k] = "idle" <=> ws[k] = None
    /\ sleeper[k] # "idle" =>
          /\ "sleep" \in asked[k]
          /\ ws[k] \in allocated /\ key[ws[k]] = k
          /\ ws[k] \in db <=> sleeper[k] # "free"
    /\ sleeper[k] \in {"del", "free"} => "wakeup" \in asked[k] /\ done[ws[k]] = 0
    /\ sleeper[k] = "idle" /\ "sleep" \in asked[k] => "wakeup" \in asked[k]

\* A thread that wakes up is alone to do so for its key, and its entry is not
\* complete.
WakerInv(t) ==
    /\ waker[t] = NoKey <=> ww[t] = None
    /\ waker[t] # NoKey =>
          /\ ww[t] \in allocated /\ key[ww[t]] = waker[t] /\ done[ww[t]] = 0
          /\ "wakeup" \in asked[waker[t]]
          /\ \/ sleeper[waker[t]] = "wait"
             \/ sleeper[waker[t]] = "idle" /\ "sleep" \notin asked[waker[t]]
          /\ \A u \in Wakers : waker[u] = waker[t] => u = t

Inv ==
    /\ TypeOK
    /\ misused = FALSE /\ db \subseteq allocated
    /\ \A e \in Entries : EntryInv(e)
    /\ \A k \in Keys : KeyInv(k)
    /\ \A t \in Wakers : WakerInv(t)

-----------------------------------------------------------------------------

\* Whoever looks for the entry of a key it has not asked for yet finds the one
\* that exists, or there is none and the new one is the only one.
LEMMA GetMeets ==
    ASSUME Inv, NEW k \in Keys, NEW e \in Entries, TeeWaitQueueGet(k, e),
           "sleep" \notin asked[k] \/ "wakeup" \notin asked[k],
           sleeper[k] = "idle" => "sleep" \notin asked[k]
    PROVE  /\ e \in allocated' /\ e \in db' /\ key'[e] = k
           /\ \A f \in allocated : key[f] = k => f = e
           /\ \A f \in Entries : f # e => /\ key'[f] = key[f] /\ done'[f] = done[f]
                                          /\ f \in allocated' <=> f \in allocated
                                          /\ f \in db' <=> f \in db
           /\ e \in allocated => key[e] = k /\ done'[e] = done[e] /\ e \in db
           /\ e \notin allocated => done'[e] = 0 /\ sleeper[k] = "idle"
           /\ key' \in [Entries -> Keys \cup {NoKey}] /\ done' \in [Entries -> 0..1]
           /\ allocated' \subseteq Entries /\ db' \subseteq allocated'
<1>1. \A f \in allocated : key[f] = k => f \in db
  <2> SUFFICES ASSUME NEW f \in allocated, key[f] = k PROVE f \in db
    OBVIOUS
  <2>1. EntryInv(f) /\ KeyInv(k)
    BY DEF Inv, TypeOK
  <2> QED
    BY <2>1 DEF EntryInv, KeyInv, Inv, TypeOK
<1>2. sleeper[k] # "idle" => ws[k] \in allocated /\ key[ws[k]] = k /\ ws[k] \in Entries
  BY DEF Inv, KeyInv, TypeOK
<1>3. \A f \in allocated : key[f] # NoKey /\ f \in Entries
  BY DEF Inv, EntryInv, TypeOK
<1>4. \A f, g \in allocated : key[f] = key[g] => f = g
  BY DEF Inv, EntryInv, TypeOK
<1>5. db \subseteq allocated /\ allocated \subseteq Entries
      /\ key \in [Entries -> Keys \cup {NoKey}] /\ done \in [Entries -> 0..1]
  BY DEF Inv, TypeOK
<1>6. CASE Found(k, e) /\ UNCHANGED <<db, key, done, allocated>>
  BY <1>4, <1>5, <1>6 DEF Found
<1>7. CASE /\ ~\E f \in Entries : Found(k, f)
           /\ e \notin allocated
           /\ allocated' = allocated \cup {e}
           /\ key' = [key EXCEPT ![e] = k]
           /\ done' = [done EXCEPT ![e] = 0]
           /\ db' = db \cup {e}
  <2>1. \A f \in allocated : key[f] # k
    BY <1>1, <1>3, <1>7 DEF Found
  <2> QED
    BY <2>1, <1>2, <1>5, <1>7
<1> QED
  BY <1>6, <1>7 DEF TeeWaitQueueGet

\* A pointer to an allocated block is used: nothing happens.
LEMMA GoodUse ==
    ASSUME misused = FALSE, NEW e \in allocated, Uses(e)
    PROVE  misused' = FALSE
  BY Zenon DEF Uses
-----------------------------------------------------------------------------

LEMMA Beginning == Init => Inv
<1> SUFFICES ASSUME Init PROVE Inv
  OBVIOUS
<1>1. misused = FALSE /\ misused \in BOOLEAN
  BY Zenon DEF Init
<1>2. TypeOK
  BY <1>1 DEF Init, TypeOK
<1>3. /\ \A e \in Entries : EntryInv(e)
      /\ \A k \in Keys : KeyInv(k)
      /\ \A t \in Wakers : WakerInv(t)
  BY DEF Init, EntryInv, KeyInv, WakerInv
<1> QED
  BY <1>1, <1>2, <1>3 DEF Init, Inv

LEMMA AskAgainKeeps == ASSUME Inv, NEW k \in Keys, AskAgain(k) PROVE Inv'
<1> USE DEF AskAgain, queue
<1>1. TypeOK' /\ misused' = FALSE /\ (db \subseteq allocated)'
  BY DEF Inv, TypeOK
<1>2. ASSUME NEW e \in Entries PROVE EntryInv(e)'
  BY DEF Inv, TypeOK, EntryInv
<1>3. ASSUME NEW j \in Keys PROVE KeyInv(j)'
  BY DEF Inv, TypeOK, KeyInv
<1>4. ASSUME NEW t \in Wakers PROVE WakerInv(t)'
  <2>1. WakerInv(t) /\ asked \in [Keys -> SUBSET {"sleep", "wakeup"}]
        /\ waker[t] \in Keys \cup {NoKey}
    BY DEF Inv, TypeOK
  <2> QED
    BY <2>1 DEF WakerInv
<1> QED
  BY <1>1, <1>2, <1>3, <1>4 DEF Inv

LEMMA SleepKeeps == ASSUME Inv, NEW k \in Keys, Sleep(k) PROVE Inv'
<1> PICK e \in Entries : TeeWaitQueueGet(k, e) /\ ws' = [ws EXCEPT ![k] = e]
  BY DEF Sleep
<1>1. sleeper[k] = "idle" /\ "sleep" \notin asked[k]
  BY DEF Sleep, Inv, KeyInv
<1>2. /\ e \in allocated' /\ e \in db' /\ key'[e] = k
      /\ \A f \in allocated : key[f] = k => f = e
      /\ \A f \in Entries : f # e => /\ key'[f] = key[f] /\ done'[f] = done[f]
                                     /\ f \in allocated' <=> f \in allocated
                                     /\ f \in db' <=> f \in db
      /\ e \in allocated => key[e] = k /\ done'[e] = done[e] /\ e \in db
      /\ e \notin allocated => done'[e] = 0 /\ sleeper[k] = "idle"
      /\ key' \in [Entries -> Keys \cup {NoKey}] /\ done' \in [Entries -> 0..1]
      /\ allocated' \subseteq Entries /\ db' \subseteq allocated'
  BY <1>1, GetMeets
<1>3. /\ asked' = [asked EXCEPT ![k] = @ \cup {"sleep"}]
      /\ sleeper' = [sleeper EXCEPT ![k] = "wait"]
      /\ UNCHANGED <<misused, waker, ww>>
  BY DEF Sleep
<1>4. TypeOK' /\ misused' = FALSE
  BY <1>2, <1>3 DEF Inv, TypeOK
<1>5. allocated \subseteq Entries
      /\ asked \in [Keys -> SUBSET {"sleep", "wakeup"}] /\ ws \in [Keys -> Entries \cup {None}]
      /\ sleeper \in [Keys -> {"idle", "wait", "del", "free"}]
      /\ waker \in [Wakers -> Keys \cup {NoKey}]
      /\ key \in [Entries -> Keys \cup {NoKey}] /\ done \in [Entries -> 0..1]
      /\ NoKey \notin Keys /\ None \notin Entries
  BY WaitQueueAssumption DEF Inv, TypeOK, WaitQueueAssumption
<1>6. /\ \A f \in Entries : EntryInv(f)
      /\ \A j \in Keys : KeyInv(j)
      /\ \A t \in Wakers : WakerInv(t)
  BY DEF Inv
<1>7. ASSUME NEW f \in Entries PROVE EntryInv(f)'
  <2>1. CASE f = e
    BY <1>1, <1>2, <1>3, <1>5, <1>6, <2>1 DEF EntryInv
  <2>2. CASE f # e
    BY <1>1, <1>2, <1>3, <1>5, <1>6, <2>2 DEF EntryInv
  <2> QED
    BY <2>1, <2>2
<1>8. ASSUME NEW j \in Keys PROVE KeyInv(j)'
  <2>1. CASE j = k
    BY <1>1, <1>2, <1>3, <1>5, <2>1 DEF KeyInv
  <2>2. CASE j # k
    BY <1>1, <1>2, <1>3, <1>5, <1>6, <2>2 DEF KeyInv
  <2> QED
    BY <2>1, <2>2
<1>9. ASSUME NEW t \in Wakers PROVE WakerInv(t)'
  BY <1>1, <1>2, <1>3, <1>5, <1>6 DEF WakerInv
<1> QED
  BY <1>2, <1>4, <1>7, <1>8, <1>9 DEF Inv

LEMMA WaitForCompletionKeeps == ASSUME Inv, NEW k \in Keys, WaitForCompletion(k) PROVE Inv'
<1>0. /\ asked \in [Keys -> SUBSET {"sleep", "wakeup"}] /\ ws \in [Keys -> Entries \cup {None}]
      /\ sleeper \in [Keys -> {"idle", "wait", "del", "free"}]
      /\ waker \in [Wakers -> Keys \cup {NoKey}] /\ ww \in [Wakers -> Entries \cup {None}]
      /\ key \in [Entries -> Keys \cup {NoKey}] /\ done \in [Entries -> 0..1]
      /\ NoKey \notin Keys /\ None \notin Entries
      /\ allocated \subseteq Entries /\ db \subseteq allocated /\ misused = FALSE
  BY WaitQueueAssumption DEF Inv, TypeOK, WaitQueueAssumption
<1>1. /\ \A f \in Entries : EntryInv(f)
      /\ \A j \in Keys : KeyInv(j)
      /\ \A u \in Wakers : WakerInv(u)
  BY DEF Inv
<1>2. KeyInv(k) /\ sleeper[k] # "idle" /\ ws[k] \in allocated /\ key[ws[k]] = k
  BY <1>0, <1>1 DEF WaitForCompletion, KeyInv
<1>3. misused' = FALSE
  BY <1>0, <1>2, GoodUse DEF WaitForCompletion
<1>4. TypeOK' /\ db' \subseteq allocated'
  <2>1. ws[k] \in Entries /\ done[ws[k]] = 1
    BY <1>0, <1>2 DEF WaitForCompletion, KeyInv
  <2>2. misused' \in BOOLEAN
    BY <1>3
  <2> QED
    BY <1>0, <2>1, <2>2 DEF WaitForCompletion, TypeOK
<1>5. ASSUME NEW f \in Entries PROVE EntryInv(f)'
  <2>1. CASE f = ws[k]
    BY <1>0, <1>1, <1>2, <2>1 DEF WaitForCompletion, EntryInv, KeyInv, WakerInv
  <2>2. CASE f # ws[k]
    <3>1. EntryInv(f)
      BY <1>1
    <3>2. f \in allocated => key[f] \in Keys /\ key[f] # k
      BY <1>0, <1>1, <1>2, <2>2 DEF EntryInv
    <3> QED
      BY <1>0, <1>1, <1>2, <2>2, <3>1, <3>2 DEF WaitForCompletion, EntryInv
  <2> QED
    BY <2>1, <2>2
<1>6. ASSUME NEW j \in Keys PROVE KeyInv(j)'
  BY <1>0, <1>1, <1>2 DEF WaitForCompletion, KeyInv, EntryInv
<1>7. ASSUME NEW t \in Wakers PROVE WakerInv(t)'
  <2>1. WakerInv(t) /\ EntryInv(ws[k])
    BY <1>0, <1>1, <1>2
  <2> QED
    BY <1>0, <1>2, <2>1 DEF WaitForCompletion, KeyInv, WakerInv, EntryInv
<1> QED
  BY <1>3, <1>4, <1>5, <1>6, <1>7 DEF Inv

LEMMA ListDelKeeps == ASSUME Inv, NEW k \in Keys, ListDel(k) PROVE Inv'
<1>0. /\ asked \in [Keys -> SUBSET {"sleep", "wakeup"}] /\ ws \in [Keys -> Entries \cup {None}]
      /\ sleeper \in [Keys -> {"idle", "wait", "del", "free"}]
      /\ waker \in [Wakers -> Keys \cup {NoKey}] /\ ww \in [Wakers -> Entries \cup {None}]
      /\ key \in [Entries -> Keys \cup {NoKey}] /\ done \in [Entries -> 0..1]
      /\ NoKey \notin Keys /\ None \notin Entries
      /\ allocated \subseteq Entries /\ db \subseteq allocated /\ misused = FALSE
  BY WaitQueueAssumption DEF Inv, TypeOK, WaitQueueAssumption
<1>1. /\ \A f \in Entries : EntryInv(f)
      /\ \A j \in Keys : KeyInv(j)
      /\ \A u \in Wakers : WakerInv(u)
  BY DEF Inv
<1>2. KeyInv(k) /\ sleeper[k] # "idle" /\ ws[k] \in allocated /\ key[ws[k]] = k
  BY <1>0, <1>1 DEF ListDel, KeyInv
<1>3. misused' = FALSE
  BY <1>0, <1>2, GoodUse DEF ListDel
<1>4. TypeOK' /\ db' \subseteq allocated'
  BY <1>0, <1>2, <1>3 DEF ListDel, TypeOK
<1>5. ASSUME NEW f \in Entries PROVE EntryInv(f)'
  <2>1. CASE f = ws[k]
    BY <1>0, <1>1, <1>2, <2>1 DEF ListDel, EntryInv, KeyInv, WakerInv
  <2>2. CASE f # ws[k]
    <3>1. EntryInv(f)
      BY <1>1
    <3>2. f \in allocated => key[f] \in Keys /\ key[f] # k
      BY <1>0, <1>1, <1>2, <2>2 DEF EntryInv
    <3> QED
      BY <1>0, <1>1, <1>2, <2>2, <3>1, <3>2 DEF ListDel, EntryInv
  <2> QED
    BY <2>1, <2>2
<1>6. ASSUME NEW j \in Keys PROVE KeyInv(j)'
  BY <1>0, <1>1, <1>2 DEF ListDel, KeyInv, EntryInv
<1>7. ASSUME NEW t \in Wakers PROVE WakerInv(t)'
  <2>1. WakerInv(t) /\ EntryInv(ws[k])
    BY <1>0, <1>1, <1>2
  <2> QED
    BY <1>0, <1>2, <2>1 DEF ListDel, KeyInv, WakerInv, EntryInv
<1> QED
  BY <1>3, <1>4, <1>5, <1>6, <1>7 DEF Inv

LEMMA FreeEntryKeeps == ASSUME Inv, NEW k \in Keys, FreeEntry(k) PROVE Inv'
<1>0. /\ asked \in [Keys -> SUBSET {"sleep", "wakeup"}] /\ ws \in [Keys -> Entries \cup {None}]
      /\ sleeper \in [Keys -> {"idle", "wait", "del", "free"}]
      /\ waker \in [Wakers -> Keys \cup {NoKey}] /\ ww \in [Wakers -> Entries \cup {None}]
      /\ key \in [Entries -> Keys \cup {NoKey}] /\ done \in [Entries -> 0..1]
      /\ NoKey \notin Keys /\ None \notin Entries
      /\ allocated \subseteq Entries /\ db \subseteq allocated /\ misused = FALSE
  BY WaitQueueAssumption DEF Inv, TypeOK, WaitQueueAssumption
<1>1. /\ \A f \in Entries : EntryInv(f)
      /\ \A j \in Keys : KeyInv(j)
      /\ \A u \in Wakers : WakerInv(u)
  BY DEF Inv
<1>2. KeyInv(k) /\ sleeper[k] # "idle" /\ ws[k] \in allocated /\ key[ws[k]] = k
  BY <1>0, <1>1 DEF FreeEntry, KeyInv
<1>3. misused' = FALSE
  BY <1>0, <1>2, GoodUse DEF FreeEntry
<1>4. TypeOK' /\ db' \subseteq allocated'
  <2>1. ws[k] \in Entries /\ ws[k] \notin db
    BY <1>0, <1>2 DEF FreeEntry, KeyInv
  <2>2. misused' \in BOOLEAN
    BY <1>3
  <2> QED
    BY <1>0, <2>1, <2>2 DEF FreeEntry, TypeOK
<1>5. ASSUME NEW f \in Entries PROVE EntryInv(f)'
  <2>1. CASE f = ws[k]
    BY <1>0, <1>1, <1>2, <2>1 DEF FreeEntry, EntryInv, KeyInv, WakerInv
  <2>2. CASE f # ws[k]
    <3>1. EntryInv(f)
      BY <1>1
    <3>2. f \in allocated => key[f] \in Keys /\ key[f] # k
      BY <1>0, <1>1, <1>2, <2>2 DEF EntryInv
    <3> QED
      BY <1>0, <1>1, <1>2, <2>2, <3>1, <3>2 DEF FreeEntry, EntryInv
  <2> QED
    BY <2>1, <2>2
<1>6. ASSUME NEW j \in Keys PROVE KeyInv(j)'
  BY <1>0, <1>1, <1>2 DEF FreeEntry, KeyInv, EntryInv
<1>7. ASSUME NEW t \in Wakers PROVE WakerInv(t)'
  <2>1. WakerInv(t) /\ EntryInv(ws[k])
    BY <1>0, <1>1, <1>2
  <2> QED
    BY <1>0, <1>2, <2>1 DEF FreeEntry, KeyInv, WakerInv, EntryInv
<1> QED
  BY <1>3, <1>4, <1>5, <1>6, <1>7 DEF Inv

LEMMA WakeupKeeps == ASSUME Inv, NEW t \in Wakers, NEW k \in Keys, Wakeup(t, k) PROVE Inv'
<1>0. /\ asked \in [Keys -> SUBSET {"sleep", "wakeup"}] /\ ws \in [Keys -> Entries \cup {None}]
      /\ sleeper \in [Keys -> {"idle", "wait", "del", "free"}]
      /\ waker \in [Wakers -> Keys \cup {NoKey}] /\ ww \in [Wakers -> Entries \cup {None}]
      /\ key \in [Entries -> Keys \cup {NoKey}] /\ done \in [Entries -> 0..1]
      /\ NoKey \notin Keys /\ None \notin Entries
      /\ allocated \subseteq Entries /\ db \subseteq allocated /\ misused = FALSE
  BY WaitQueueAssumption DEF Inv, TypeOK, WaitQueueAssumption
<1>1. /\ \A f \in Entries : EntryInv(f)
      /\ \A j \in Keys : KeyInv(j)
      /\ \A u \in Wakers : WakerInv(u)
  BY DEF Inv
<1> PICK e \in Entries : TeeWaitQueueGet(k, e) /\ ww' = [ww EXCEPT ![t] = e]
  BY DEF Wakeup
<1>2. /\ "wakeup" \notin asked[k] /\ sleeper[k] \in {"idle", "wait"}
      /\ sleeper[k] = "idle" => "sleep" \notin asked[k]
      /\ sleeper[k] = "wait" => ws[k] \in allocated /\ key[ws[k]] = k
      /\ \A u \in Wakers : waker[u] # k
      /\ waker[t] = NoKey
  <2>1. KeyInv(k) /\ "wakeup" \notin asked[k] /\ waker[t] = NoKey
    BY <1>1 DEF Wakeup
  <2>2. \A u \in Wakers : waker[u] # k
    BY <1>0, <1>1, <2>1 DEF WakerInv
  <2>3. sleeper[k] = "idle" => "sleep" \notin asked[k]
    BY <2>1 DEF KeyInv
  <2> QED
    BY <1>0, <2>1, <2>2, <2>3 DEF KeyInv
<1>3. /\ e \in allocated' /\ e \in db' /\ key'[e] = k
      /\ \A f \in allocated : key[f] = k => f = e
      /\ \A f \in Entries : f # e => /\ key'[f] = key[f] /\ done'[f] = done[f]
                                     /\ f \in allocated' <=> f \in allocated
                                     /\ f \in db' <=> f \in db
      /\ e \in allocated => key[e] = k /\ done'[e] = done[e] /\ e \in db
      /\ e \notin allocated => done'[e] = 0 /\ sleeper[k] = "idle"
      /\ key' \in [Entries -> Keys \cup {NoKey}] /\ done' \in [Entries -> 0..1]
      /\ allocated' \subseteq Entries /\ db' \subseteq allocated'
  BY <1>2, GetMeets
<1>4. /\ asked' = [asked EXCEPT ![k] = @ \cup {"wakeup"}]
      /\ waker' = [waker EXCEPT ![t] = k] /\ ww' = [ww EXCEPT ![t] = e]
      /\ UNCHANGED <<misused, sleeper, ws>>
  BY DEF Wakeup
<1>5. done'[e] = 0
  <2>1. e \in allocated => done[e] # 1
    BY <1>1, <1>2, <1>3 DEF EntryInv
  <2> QED
    BY <1>0, <1>3, <2>1
<1>6. TypeOK' /\ misused' = FALSE
  BY <1>0, <1>3, <1>4 DEF Inv, TypeOK
<1>7. ASSUME NEW f \in Entries PROVE EntryInv(f)'
  <2>1. CASE f = e
    BY <1>0, <1>1, <1>2, <1>3, <1>4, <1>5, <2>1 DEF EntryInv
  <2>2. CASE f # e
    BY <1>0, <1>1, <1>2, <1>3, <1>4, <2>2 DEF EntryInv
  <2> QED
    BY <2>1, <2>2
<1>8. ASSUME NEW j \in Keys PROVE KeyInv(j)'
  BY <1>0, <1>1, <1>2, <1>3, <1>4, <1>5 DEF KeyInv
<1>9. ASSUME NEW u \in Wakers PROVE WakerInv(u)'
  <2>1. CASE u = t
    BY <1>0, <1>2, <1>3, <1>4, <1>5, <2>1 DEF WakerInv
  <2>2. CASE u # t
    BY <1>0, <1>1, <1>2, <1>3, <1>4, <2>2 DEF WakerInv
  <2> QED
    BY <2>1, <2>2
<1> QED
  BY <1>3, <1>6, <1>7, <1>8, <1>9 DEF Inv

LEMMA CompleteKeeps == ASSUME Inv, NEW t \in Wakers, Complete(t) PROVE Inv'
<1>0. /\ asked \in [Keys -> SUBSET {"sleep", "wakeup"}] /\ ws \in [Keys -> Entries \cup {None}]
      /\ sleeper \in [Keys -> {"idle", "wait", "del", "free"}]
      /\ waker \in [Wakers -> Keys \cup {NoKey}] /\ ww \in [Wakers -> Entries \cup {None}]
      /\ key \in [Entries -> Keys \cup {NoKey}] /\ done \in [Entries -> 0..1]
      /\ NoKey \notin Keys /\ None \notin Entries
      /\ allocated \subseteq Entries /\ db \subseteq allocated /\ misused = FALSE
  BY WaitQueueAssumption DEF Inv, TypeOK, WaitQueueAssumption
<1>1. /\ \A f \in Entries : EntryInv(f)
      /\ \A j \in Keys : KeyInv(j)
      /\ \A u \in Wakers : WakerInv(u)
  BY DEF Inv
<1>2. /\ waker[t] \in Keys /\ ww[t] \in allocated /\ ww[t] \in Entries
      /\ key[ww[t]] = waker[t] /\ done[ww[t]] = 0 /\ "wakeup" \in asked[waker[t]]
      /\ sleeper[waker[t]] \in {"idle", "wait"}
      /\ \A u \in Wakers : waker[u] = waker[t] => u = t
  BY <1>0, <1>1 DEF Complete, WakerInv
<1>3. misused' = FALSE
  BY <1>0, <1>2, GoodUse DEF Complete
<1>4. TypeOK'
  <2>1. misused' \in BOOLEAN
    BY <1>3
  <2> QED
    BY <1>0, <1>2, <2>1 DEF Complete, TypeOK
<1>5. ASSUME NEW f \in Entries PROVE EntryInv(f)'
  <2>1. CASE f = ww[t]
    BY <1>0, <1>1, <1>2, <2>1 DEF Complete, EntryInv
  <2>2. CASE f # ww[t]
    BY <1>0, <1>1, <1>2, <2>2 DEF Complete, EntryInv
  <2> QED
    BY <2>1, <2>2
<1>6. ASSUME NEW j \in Keys PROVE KeyInv(j)'
  BY <1>0, <1>1, <1>2 DEF Complete, KeyInv
<1>7. ASSUME NEW u \in Wakers PROVE WakerInv(u)'
  <2>1. CASE u = t
    BY <1>0, <1>2, <2>1 DEF Complete, WakerInv
  <2>2. CASE u # t
    <3>1. WakerInv(u) /\ (waker[u] # NoKey => ww[u] # ww[t])
      BY <1>0, <1>1, <1>2, <2>2 DEF WakerInv
    <3> QED
      BY <1>0, <1>2, <2>2, <3>1 DEF Complete, WakerInv
  <2> QED
    BY <2>1, <2>2
<1> QED
  BY <1>0, <1>3, <1>4, <1>5, <1>6, <1>7 DEF Inv, Complete

-----------------------------------------------------------------------------

LEMMA Preserved == Inv /\ [Next]_vars => Inv'
<1> SUFFICES ASSUME Inv, [Next]_vars PROVE Inv'
  OBVIOUS
<1>1. ASSUME NEW k \in Keys, Work(k) PROVE Inv'
  BY <1>1, WaitForCompletionKeeps, ListDelKeeps, FreeEntryKeeps DEF Work
<1>2. CASE Next
  BY <1>1, <1>2, AskAgainKeeps, SleepKeeps, WakeupKeeps, CompleteKeeps DEF Next
<1>3. CASE UNCHANGED vars
  <2>1. TypeOK' /\ misused' = FALSE /\ (db \subseteq allocated)'
    BY <1>3 DEF vars, queue, Inv, TypeOK
  <2>2. /\ (\A e \in Entries : EntryInv(e))'
        /\ (\A k \in Keys : KeyInv(k))'
        /\ (\A t \in Wakers : WakerInv(t))'
    BY <1>3 DEF vars, queue, Inv, EntryInv, KeyInv, WakerInv
  <2> QED
    BY <2>1, <2>2 DEF Inv
<1> QED
  BY <1>2, <1>3

LEMMA InvariantHolds == Spec => []Inv
BY Beginning, Preserved, PTL DEF Spec

\* For any number of keys and threads no block is used after it was freed: the
\* entry a sleeper or a waker holds (tee_wait_queue_sleep and _wakeup work on
\* it outside the mutex) is allocated, and is the waker's own key's.
THEOREM EntriesAreLive == Spec => []NoUseAfterFree
<1>1. Inv => NoUseAfterFree
  <2> SUFFICES ASSUME Inv PROVE NoUseAfterFree
    OBVIOUS
  <2>1. TypeOK /\ ~misused /\ db \subseteq allocated
    BY DEF Inv
  <2>2. ASSUME NEW k \in Keys, ws[k] # None PROVE ws[k] \in allocated
    BY <2>2 DEF Inv, KeyInv
  <2>3. ASSUME NEW t \in Wakers, ww[t] # None
        PROVE ww[t] \in allocated /\ key[ww[t]] = waker[t]
    BY <2>3 DEF Inv, WakerInv
  <2> QED
    BY <2>1, <2>2, <2>3 DEF NoUseAfterFree
<1> QED
  BY <1>1, InvariantHolds, PTL

\* For any number of keys and threads a sleep returns only after its own
\* wake-up was asked for, and a round that is over leaves no entry behind.
THEOREM RoundsAreSeparate == Spec => []RoundsDoNotMix
<1>1. Inv => RoundsDoNotMix
  <2> SUFFICES ASSUME Inv PROVE RoundsDoNotMix
    OBVIOUS
  <2>1. NoEarlyReturn
    BY DEF Inv, KeyInv, NoEarlyReturn
  <2>2. ASSUME NEW k \in Keys, sleeper[k] = "idle", asked[k] = {} \/ "sleep" \in asked[k],
               NEW e \in allocated, key[e] = k
        PROVE FALSE
    <3>1. e \in Entries
      BY DEF Inv, TypeOK
    <3>2. EntryInv(e)
      BY <3>1 DEF Inv
    <3> QED
      BY <2>2, <3>2 DEF EntryInv
  <2> QED
    BY <2>1, <2>2 DEF RoundsDoNotMix, NothingLeft
<1> QED
  BY <1>1, InvariantHolds, PTL

-----------------------------------------------------------------------------
(* ALIGN *)

\* Division with remainder.
LEMMA DivMod ==
    ASSUME NEW x \in Nat, NEW a \in Nat \ {0}
    PROVE  /\ x \div a \in Nat
           /\ a * (x \div a) <= x /\ x < a * (x \div a) + a
<1>1. x = a * (x \div a) + (x % a) /\ 0 <= x % a /\ x % a < a
  OBVIOUS
<1>2. x \div a \in Int
  OBVIOUS
<1>3. x \div a >= 0
  BY <1>1, <1>2
<1> QED BY <1>1, <1>2, <1>3

LEMMA MultipleHasNoRest == ASSUME NEW x \in Nat, NEW a \in Nat \ {0} PROVE (x * a) % a = 0
OBVIOUS

\* ALIGN(x, a) is the multiple of a from x up.
LEMMA AlignsUp ==
    ASSUME NEW x \in Nat, NEW a \in Nat \ {0}
    PROVE  /\ Pool!ALIGN(x, a) \in Nat /\ Pool!ALIGN(x, a) >= x
           /\ \E q \in Nat : Pool!ALIGN(x, a) = q * a
<1> DEFINE q == (x + a - 1) \div a
<1>1. x + a - 1 \in Nat
  OBVIOUS
<1>2. q \in Nat /\ x + a - 1 < a * q + a
  BY <1>1, DivMod
<1>3. Pool!ALIGN(x, a) = q * a /\ q * a = a * q
  BY <1>2 DEF Pool!ALIGN
<1>4. a * q \in Nat
  BY <1>2
<1> HIDE DEF q
<1> QED BY <1>2, <1>3, <1>4

-----------------------------------------------------------------------------
(* The pool *)

\* The bytes of a chunk, and the bytes in use.
Bytes(c) == c.paddr..(Pool!End(c) - 1)
InUse == {a \in Pool!Addr : \E c \in chunks : c.counter > 0 /\ a \in Bytes(c)}

PoolTypes ==
    /\ chunks \subseteq Pool!Chunk
    /\ poolPc \in [Threads -> {"idle", "lock"}]
    /\ want \in [Threads -> [size : Nat, alignment : Nat]]
    /\ refs \in [Pool!Addr -> 0..MaxRefs]

\* What a thread asks for under the lock is rounded up to whole grains.
WantsOK ==
    \A t \in Threads : poolPc[t] = "lock" =>
        /\ want[t].size > 0 /\ want[t].alignment > 0
        /\ want[t].size % Grain = 0
        /\ \E q \in Nat : want[t].alignment = q * Grain

\* The chunks lie in the pool, share no byte and leave none out.
Partition ==
    /\ \A c \in chunks : Pool!End(c) <= Base + Size
    /\ \A c, d \in chunks :
           c = d \/ Pool!End(c) <= d.paddr \/ Pool!End(d) <= c.paddr
    /\ \A a \in Pool!Addr : \E c \in chunks : c.paddr <= a /\ a < Pool!End(c)

\* The counter of a chunk is the number of references its users hold, and they
\* hold none at other addresses.
Counted ==
    /\ \A c \in chunks : refs[c.paddr] = c.counter
    /\ \A a \in Pool!Addr : refs[a] > 0 => \E c \in chunks : c.paddr = a

PoolInv ==
    /\ PoolTypes /\ WantsOK /\ Partition /\ Counted
    /\ Pool!Coalesced /\ used = Cardinality(InUse)

\* The operator of FiniteSets as ShmPool extends it.
LEMMA SameCardinality == \A S : Pool!Cardinality(S) = Cardinality(S)
BY DEF Pool!Cardinality, Cardinality

LEMMA InUseIsFinite == ASSUME Pool!PoolAssumption PROVE IsFiniteSet(InUse)
<1>1. Base \in Int /\ Base + Size - 1 \in Int
  BY DEF Pool!PoolAssumption
<1>2. IsFiniteSet(Pool!Addr)
  BY <1>1, FS_Interval DEF Pool!Addr
<1>3. InUse \in SUBSET Pool!Addr
  BY DEF InUse
<1> QED BY <1>2, <1>3, FS_Subset

LEMMA BytesOfChunk ==
    ASSUME NEW c, c.paddr \in Nat, c.size \in Nat \ {0}, Pool!End(c) = c.paddr + c.size
    PROVE  IsFiniteSet(Bytes(c)) /\ Cardinality(Bytes(c)) = c.size
<1> DEFINE b == c.paddr  e == Pool!End(c) - 1
<1>1. b \in Int /\ e \in Int /\ ~(b > e) /\ e - b + 1 = c.size
  OBVIOUS
<1>2. Bytes(c) = b..e
  BY DEF Bytes
<1> HIDE DEF b, e
<1>3. IsFiniteSet(b..e) /\ Cardinality(b..e) = IF b > e THEN 0 ELSE e - b + 1
  BY <1>1, FS_Interval
<1>4. Cardinality(b..e) = c.size
  BY <1>1, <1>3
<1> QED BY <1>2, <1>3, <1>4, Zenon

LEMMA PoolBeginning == ASSUME Pool!PoolAssumption, Pool!Init PROVE PoolInv
<1> USE DEF Pool!PoolAssumption, Pool!Init, Pool!Whole, Pool!End, Pool!Chunk, Pool!Addr
<1>1. PoolTypes
  BY DEF PoolTypes
<1>2. WantsOK /\ Partition /\ Counted /\ Pool!Coalesced
  BY DEF WantsOK, Partition, Counted, Pool!Coalesced
<1>3. InUse = {}
  BY DEF InUse, Bytes
<1> QED BY <1>1, <1>2, <1>3, FS_EmptySet DEF PoolInv

LEMMA CheckAllocKeeps ==
    ASSUME Pool!PoolAssumption, PoolInv, NEW t \in Threads, Pool!CheckAlloc(t)
    PROVE  PoolInv'
<1>1. PICK s \in Sizes, a \in Alignments :
          /\ want' = [want EXCEPT ![t] = Pool!Wanted(s, a)]
          /\ poolPc' \in {[poolPc EXCEPT ![t] = "idle"], [poolPc EXCEPT ![t] = "lock"]}
  BY DEF Pool!CheckAlloc
<1> DEFINE b == IF a = 0 THEN 1 ELSE a
<1>2. s \in Nat \ {0} /\ b \in Nat \ {0} /\ Grain \in Nat \ {0}
  BY DEF Pool!PoolAssumption
<1> HIDE DEF b
<1>3. /\ Pool!ALIGN(s, Grain) \in Nat \ {0}
      /\ Pool!ALIGN(b, Grain) \in Nat \ {0}
      /\ Pool!ALIGN(s, Grain) % Grain = 0
      /\ \E q \in Nat : Pool!ALIGN(b, Grain) = q * Grain
  <2>1. Pool!ALIGN(s, Grain) \in Nat /\ Pool!ALIGN(s, Grain) >= s
    BY <1>2, AlignsUp
  <2>2. Pool!ALIGN(b, Grain) \in Nat /\ Pool!ALIGN(b, Grain) >= b
    BY <1>2, AlignsUp
  <2>3. \E q \in Nat : Pool!ALIGN(b, Grain) = q * Grain
    BY <1>2, AlignsUp
  <2>4. PICK q \in Nat : Pool!ALIGN(s, Grain) = q * Grain
    BY <1>2, AlignsUp
  <2>5. (q * Grain) % Grain = 0
    BY <1>2, MultipleHasNoRest
  <2> QED BY <1>2, <2>1, <2>2, <2>3, <2>4, <2>5
<1>4. Pool!Wanted(s, a) = [size |-> Pool!ALIGN(s, Grain), alignment |-> Pool!ALIGN(b, Grain)]
  BY DEF Pool!Wanted, b
<1>5. PoolTypes' /\ WantsOK'
  BY <1>1, <1>3, <1>4 DEF PoolInv, PoolTypes, WantsOK, Pool!CheckAlloc
<1>6. Partition' /\ Counted' /\ Pool!Coalesced' /\ InUse' = InUse /\ used' = used
  BY DEF PoolInv, Pool!CheckAlloc, Partition, Counted, Pool!Coalesced, InUse, Bytes, Pool!End
<1> QED BY <1>5, <1>6 DEF PoolInv

\* The block is cut out of the best chunk: what it is made of.
LEMMA AllocChunkKeeps ==
    ASSUME Pool!PoolAssumption, PoolInv, NEW t \in Threads, Pool!AllocChunk(t)
    PROVE  PoolInv'
<1> USE DEF Pool!PoolAssumption
<1>1. PICK c \in chunks :
          LET w == want[t]
              begAddr == Pool!ALIGN(c.paddr, w.alignment)
              endAddr == begAddr + w.size
          IN  /\ Pool!IsBest(c, w)
              /\ chunks' = (chunks \ {c})
                    \cup Pool!Remainders(c, begAddr, endAddr)
                    \cup {[paddr |-> begAddr, size |-> w.size, counter |-> 1]}
              /\ used' = used + w.size
              /\ refs' = [refs EXCEPT ![begAddr] = 1]
  BY DEF Pool!AllocChunk
<1> DEFINE w == want[t]
           begAddr == Pool!ALIGN(c.paddr, w.alignment)
           endAddr == begAddr + w.size
           block == [paddr |-> begAddr, size |-> w.size, counter |-> 1]
           left == [paddr |-> c.paddr, size |-> begAddr - c.paddr, counter |-> 0]
           right == [paddr |-> endAddr, size |-> Pool!End(c) - endAddr, counter |-> 0]
<1>2. /\ chunks \subseteq Pool!Chunk
      /\ c.paddr \in Pool!Addr /\ c.size \in 1..Size /\ c.counter = 0
      /\ Pool!End(c) \in Nat /\ Pool!End(c) <= Base + Size
      /\ c.paddr < Pool!End(c)
  <2>1. c \in chunks /\ c.counter = 0 /\ chunks \subseteq Pool!Chunk /\ Pool!End(c) <= Base + Size
    BY <1>1 DEF PoolInv, PoolTypes, Partition, Pool!IsBest, Pool!Fits
  <2>2. c.paddr \in Pool!Addr /\ c.size \in 1..Size
    BY <2>1 DEF Pool!Chunk
  <2> QED BY <2>1, <2>2 DEF Pool!End, Pool!Addr
<1>3. w.size \in Nat \ {0} /\ w.alignment \in Nat \ {0}
  BY DEF PoolInv, PoolTypes, WantsOK, Pool!AllocChunk
<1>4. /\ begAddr \in Nat /\ c.paddr <= begAddr
      /\ endAddr \in Nat /\ begAddr < endAddr /\ endAddr <= Pool!End(c)
      /\ begAddr \in Pool!Addr
  <2>1. c.paddr \in Nat
    BY <1>2 DEF Pool!Addr
  <2>2. begAddr \in Nat /\ c.paddr <= begAddr
    BY <1>3, <2>1, AlignsUp
  <2>3. endAddr <= Pool!End(c)
    BY <1>1 DEF Pool!IsBest, Pool!Fits
  <2> HIDE DEF begAddr
  <2> QED BY <1>2, <1>3, <2>1, <2>2, <2>3 DEF Pool!Addr
<1>5. /\ chunks' = {d \in chunks : d # c} \cup {r \in {left, right} : r.size > 0} \cup {block}
      /\ used' = used + w.size
      /\ refs' = [refs EXCEPT ![begAddr] = 1]
      /\ poolPc' = [poolPc EXCEPT ![t] = "idle"] /\ want' = want
  BY <1>1 DEF Pool!AllocChunk, Pool!Remainders
<1>6. /\ \A d \in chunks : /\ d.paddr \in Pool!Addr /\ d.size \in 1..Size
                           /\ d.counter \in 0..MaxRefs
                           /\ Pool!End(d) = d.paddr + d.size
      /\ left.paddr = c.paddr /\ Pool!End(left) = begAddr /\ left.counter = 0
      /\ right.paddr = endAddr /\ Pool!End(right) = Pool!End(c) /\ right.counter = 0
      /\ block.paddr = begAddr /\ Pool!End(block) = endAddr /\ block.counter = 1
      /\ left.size = begAddr - c.paddr /\ right.size = Pool!End(c) - endAddr
      /\ block.size = w.size
  <2>1. \A d \in chunks : /\ d.paddr \in Pool!Addr /\ d.size \in 1..Size
                          /\ d.counter \in 0..MaxRefs
                          /\ Pool!End(d) = d.paddr + d.size
    BY <1>2 DEF Pool!Chunk, Pool!End
  <2>2. c.paddr \in Nat
    BY <1>2 DEF Pool!Addr
  <2> HIDE DEF begAddr, w
  <2>3. left.paddr = c.paddr /\ Pool!End(left) = begAddr /\ left.counter = 0
    BY <1>4, <2>2 DEF Pool!End
  <2> HIDE DEF left
  <2>4. /\ block.paddr = begAddr /\ Pool!End(block) = endAddr
        /\ block.counter = 1 /\ block.size = w.size
    BY <1>3, <1>4 DEF Pool!End
  <2> HIDE DEF block, endAddr
  <2>5. Pool!End(c) - endAddr \in Nat /\ endAddr + (Pool!End(c) - endAddr) = Pool!End(c)
    BY <1>2, <1>4
  <2>6. /\ right.paddr = endAddr /\ right.counter = 0
        /\ Pool!End(right) = endAddr + (Pool!End(c) - endAddr)
        /\ right.size = Pool!End(c) - endAddr
    BY DEF Pool!End
  <2>7. left.size = begAddr - c.paddr
    BY DEF left
  <2> HIDE DEF right
  <2> QED BY <2>1, <2>3, <2>4, <2>5, <2>6, <2>7
<1>7. PoolTypes'
  <2>1. left.size > 0 => left \in Pool!Chunk
    BY <1>2, <1>4, <1>6 DEF Pool!Chunk, Pool!Addr
  <2>2. right.size > 0 => right \in Pool!Chunk
    BY <1>2, <1>4, <1>6 DEF Pool!Chunk, Pool!Addr
  <2>3. block \in Pool!Chunk
    BY <1>2, <1>3, <1>4, <1>6 DEF Pool!Chunk, Pool!Addr
  <2> HIDE DEF left, right, block, begAddr
  <2>4. chunks' \subseteq Pool!Chunk
    BY <1>2, <1>5, <2>1, <2>2, <2>3
  <2>5. refs' \in [Pool!Addr -> 0..MaxRefs]
    BY <1>4, <1>5 DEF PoolInv, PoolTypes
  <2> QED BY <1>5, <2>4, <2>5 DEF PoolInv, PoolTypes
<1>8. WantsOK'
  BY <1>5 DEF PoolInv, PoolTypes, WantsOK
<1> HIDE DEF left, right, block, begAddr, endAddr
<1>9. Partition'
  BY <1>2, <1>4, <1>5, <1>6 DEF PoolInv, Partition, Pool!Addr
<1>10. Counted'
  <2>1. \A d \in chunks : d # c => d.paddr # begAddr
    BY <1>2, <1>4, <1>6 DEF PoolInv, Partition, Pool!Addr
  <2>2. \A a \in Pool!Addr : refs'[a] = IF a = begAddr THEN 1 ELSE refs[a]
    BY <1>5 DEF PoolInv, PoolTypes
  <2>3. refs[c.paddr] = 0
    BY <1>2 DEF PoolInv, Counted
  <2>4. \A d \in chunks' : refs'[d.paddr] = d.counter
    <3> TAKE d \in chunks'
    <3>1. CASE d \in chunks /\ d # c
      BY <1>6, <2>1, <2>2, <3>1 DEF PoolInv, Counted
    <3>2. CASE d = left /\ left.size > 0
      BY <1>2, <1>4, <1>6, <2>2, <2>3, <3>2 DEF Pool!Addr
    <3>3. CASE d = right /\ right.size > 0
      <4>1. endAddr \in Pool!Addr /\ endAddr # begAddr
        BY <1>2, <1>4, <1>6, <3>3 DEF Pool!Addr
      <4>2. refs[endAddr] = 0
        <5>1. \A e \in chunks : e.paddr # endAddr
          BY <1>2, <1>4, <1>6, <3>3 DEF PoolInv, Partition, Pool!Addr
        <5> QED BY <4>1, <5>1 DEF PoolInv, PoolTypes, Counted
      <4> QED BY <1>6, <2>2, <3>3, <4>1, <4>2
    <3>4. CASE d = block
      BY <1>4, <1>6, <2>2, <3>4
    <3> QED BY <1>5, <3>1, <3>2, <3>3, <3>4
  <2>5. \A a \in Pool!Addr : refs'[a] > 0 => \E d \in chunks' : d.paddr = a
    BY <1>2, <1>5, <1>6, <2>2, <2>3 DEF PoolInv, Counted
  <2> QED BY <2>4, <2>5 DEF Counted
<1>11. Pool!Coalesced'
  <2>1. \A d \in chunks : d # c /\ d.counter = 0 => Pool!End(d) # c.paddr /\ Pool!End(c) # d.paddr
    BY <1>2 DEF PoolInv, Pool!Coalesced
  <2>2. \A d \in chunks : d # c => Pool!End(d) <= c.paddr \/ Pool!End(c) <= d.paddr
    BY DEF PoolInv, Partition
  <2> SUFFICES ASSUME NEW d \in chunks', NEW e \in chunks', d.counter = 0, e.counter = 0
               PROVE  Pool!End(d) # e.paddr
    BY DEF Pool!Coalesced, Pool!End
  <2>3. CASE d \in chunks /\ d # c /\ e \in chunks /\ e # c
    BY <2>3 DEF PoolInv, Pool!Coalesced
  <2>4. CASE e \in {left, right} /\ e.size > 0 /\ d \in chunks /\ d # c
    BY <1>2, <1>4, <1>6, <2>1, <2>2, <2>4 DEF Pool!Addr
  <2>5. CASE d \in {left, right} /\ d.size > 0 /\ e \in chunks /\ e # c
    BY <1>2, <1>4, <1>6, <2>1, <2>2, <2>5 DEF Pool!Addr
  <2>6. CASE d \in {left, right} /\ d.size > 0 /\ e \in {left, right} /\ e.size > 0
    BY <1>2, <1>4, <1>6, <2>6 DEF Pool!Addr
  <2> QED BY <1>5, <1>6, <2>3, <2>4, <2>5, <2>6
<1>12. InUse' = InUse \cup Bytes(block) /\ InUse \cap Bytes(block) = {}
  BY <1>2, <1>4, <1>5, <1>6 DEF PoolInv, Partition, InUse, Bytes, Pool!Addr
<1>13. Cardinality(InUse') = Cardinality(InUse) + w.size
  <2>1. IsFiniteSet(InUse)
    BY InUseIsFinite
  <2>2. IsFiniteSet(Bytes(block)) /\ Cardinality(Bytes(block)) = w.size
    <3>1. /\ block.paddr \in Nat /\ block.size = w.size /\ block.size \in Nat \ {0}
          /\ Pool!End(block) = block.paddr + block.size
      BY <1>3, <1>4, <1>6 DEF endAddr
    <3> QED BY <3>1, BytesOfChunk
  <2>3. Cardinality(InUse) \in Nat
    BY <2>1, FS_CardinalityType
  <2>4. Cardinality(InUse') = Cardinality(InUse \cup Bytes(block))
    BY <1>12, Zenon
  <2>5. Cardinality(InUse \cup Bytes(block)) =
            Cardinality(InUse) + Cardinality(Bytes(block)) - Cardinality(InUse \cap Bytes(block))
    BY <2>1, <2>2, FS_Union
  <2>6. Cardinality(InUse \cap Bytes(block)) = 0
    BY <1>12, FS_EmptySet, Zenon
  <2> QED BY <1>3, <2>2, <2>3, <2>4, <2>5, <2>6
<1> QED BY <1>5, <1>7, <1>8, <1>9, <1>10, <1>11, <1>13 DEF PoolInv

LEMMA AllocFailsKeeps ==
    ASSUME PoolInv, NEW t \in Threads, Pool!AllocFails(t)
    PROVE  PoolInv'
BY DEF PoolInv, Pool!AllocFails, PoolTypes, WantsOK, Partition, Counted, Pool!Coalesced,
       InUse, Bytes, Pool!End

\* The chunk of a block that is out.
LEMMA ChunkOfBlock ==
    ASSUME Pool!PoolAssumption, PoolInv, NEW a \in Pool!Addr, NEW c \in chunks, c.paddr = a
    PROVE  /\ c.paddr \in Pool!Addr /\ c.size \in 1..Size /\ c.counter = refs[a]
           /\ Pool!End(c) = a + c.size /\ Pool!End(c) <= Base + Size
           /\ \A d \in chunks : d # c => d.paddr # a
<1>1. c \in Pool!Chunk
  BY DEF PoolInv, PoolTypes
<1>2. c.paddr \in Pool!Addr /\ c.size \in 1..Size /\ c.counter = refs[a]
  BY <1>1 DEF Pool!Chunk, PoolInv, Counted
<1>3. \A d \in chunks : d.size > 0 /\ d.size \in Int /\ d.paddr \in Int
  BY DEF PoolInv, PoolTypes, Pool!Chunk, Pool!Addr, Pool!PoolAssumption
<1> QED BY <1>2, <1>3 DEF PoolInv, Partition, Pool!End, Pool!Addr

\* A change of the counter alone, from one that is not 0 to one that is not 0.
LEMMA RecountKeeps ==
    ASSUME Pool!PoolAssumption, PoolInv, NEW a \in Pool!Addr, NEW r \in 1..MaxRefs, refs[a] > 0,
           refs' = [refs EXCEPT ![a] = r],
           NEW c \in chunks, c.paddr = a,
           chunks' = (chunks \ {c}) \cup {[c EXCEPT !.counter = r]},
           UNCHANGED <<used, poolPc, want>>
    PROVE  PoolInv'
<1> DEFINE e == [c EXCEPT !.counter = r]
<1>1. /\ c \in Pool!Chunk /\ c.paddr = a /\ c.counter > 0
      /\ \A d \in chunks : d # c => d.paddr # a
  BY ChunkOfBlock DEF PoolInv, PoolTypes
<1>2. /\ e \in Pool!Chunk /\ e.paddr = a /\ e.size = c.size /\ e.counter = r
      /\ Pool!End(e) = Pool!End(c)
  BY <1>1 DEF Pool!Chunk, Pool!End
<1>3. chunks' = (chunks \ {c}) \cup {e}
  OBVIOUS
<1> HIDE DEF e
<1>4. PoolTypes' /\ WantsOK'
  BY <1>2, <1>3 DEF PoolInv, PoolTypes, WantsOK
<1>5. Partition'
  BY <1>1, <1>2, <1>3 DEF PoolInv, Partition
<1>6. Counted'
  BY <1>1, <1>2, <1>3 DEF PoolInv, PoolTypes, Counted
<1>7. Pool!Coalesced'
  BY <1>1, <1>2, <1>3 DEF PoolInv, Pool!Coalesced
<1>8. InUse' = InUse
  BY <1>1, <1>2, <1>3 DEF InUse, Bytes
<1> QED BY <1>4, <1>5, <1>6, <1>7, <1>8 DEF PoolInv

LEMMA IncrefKeeps ==
    ASSUME Pool!PoolAssumption, PoolInv, NEW a \in Pool!Addr, Pool!Incref(a)
    PROVE  PoolInv'
<1>1. refs[a] \in 1..(MaxRefs - 1) /\ refs[a] + 1 \in 1..MaxRefs
  BY DEF Pool!Incref, Pool!PoolAssumption
<1>2. PICK c \in chunks :
          c.paddr = a /\ chunks' = (chunks \ {c}) \cup {[c EXCEPT !.counter = c.counter + 1]}
  BY DEF Pool!Incref
<1>3. c.counter = refs[a]
  BY <1>2, ChunkOfBlock
<1>4. /\ refs' = [refs EXCEPT ![a] = refs[a] + 1] /\ UNCHANGED <<used, poolPc, want>>
      /\ refs[a] > 0 /\ chunks' = (chunks \ {c}) \cup {[c EXCEPT !.counter = refs[a] + 1]}
  BY <1>1, <1>2, <1>3 DEF Pool!Incref
<1> QED BY <1>1, <1>2, <1>4, RecountKeeps

LEMMA FreeOneKeeps ==
    ASSUME Pool!PoolAssumption, PoolInv, NEW a \in Pool!Addr, Pool!FreeOne(a)
    PROVE  PoolInv'
<1>1. refs[a] > 0 /\ refs[a] - 1 \in 1..MaxRefs
  BY DEF Pool!FreeOne, Pool!PoolAssumption, PoolInv, PoolTypes
<1>2. PICK c \in chunks :
          c.paddr = a /\ chunks' = (chunks \ {c}) \cup {[c EXCEPT !.counter = c.counter - 1]}
  BY DEF Pool!FreeOne
<1>3. c.counter = refs[a]
  BY <1>2, ChunkOfBlock
<1> QED BY <1>1, <1>2, <1>3, RecountKeeps DEF Pool!FreeOne

\* The block becomes one free chunk with its free neighbours.
LEMMA FreeLastKeeps ==
    ASSUME Pool!PoolAssumption, PoolInv, NEW a \in Pool!Addr, Pool!FreeLast(a)
    PROVE  PoolInv'
<1> USE DEF Pool!PoolAssumption
<1>1. PICK c \in chunks : c.paddr = a /\ used' = used - c.size /\ Pool!Coalesce(c)
  BY DEF Pool!FreeLast
<1>0. c \in chunks /\ c.paddr = a
  BY <1>1
<1> DEFINE gone == {c} \cup {d \in chunks : /\ d.counter = 0
                                            /\ Pool!End(d) = c.paddr \/ d.paddr = Pool!End(c)}
<1>2. PICK first \in gone, last \in gone :
          /\ \A d \in gone : first.paddr <= d.paddr /\ Pool!End(d) <= Pool!End(last)
          /\ chunks' = (chunks \ gone)
                \cup {[paddr |-> first.paddr, size |-> Pool!End(last) - first.paddr, counter |-> 0]}
  BY <1>1 DEF Pool!Coalesce
<1> DEFINE merged == [paddr |-> first.paddr, size |-> Pool!End(last) - first.paddr, counter |-> 0]
<1>3. /\ chunks \subseteq Pool!Chunk
      /\ \A d \in chunks : /\ d.paddr \in Pool!Addr /\ d.size \in 1..Size
                           /\ d.counter \in 0..MaxRefs
                           /\ Pool!End(d) = d.paddr + d.size /\ Pool!End(d) <= Base + Size
  BY DEF PoolInv, PoolTypes, Partition, Pool!Chunk, Pool!End
<1>4. c.counter = 1 /\ \A d \in chunks : d # c => d.paddr # a
  BY <1>0, ChunkOfBlock DEF Pool!FreeLast
<1>5. /\ first \in chunks /\ last \in chunks
      /\ first = c \/ (first.counter = 0 /\ Pool!End(first) = c.paddr)
      /\ last = c \/ (last.counter = 0 /\ last.paddr = Pool!End(c))
      /\ first.paddr <= c.paddr /\ Pool!End(c) <= Pool!End(last)
  <2>1. gone \subseteq chunks
    OBVIOUS
  <2>2. first.paddr <= c.paddr /\ Pool!End(c) <= Pool!End(last)
    BY <1>0, <1>2
  <2>3. \A d \in gone : \/ d = c
                        \/ d.counter = 0 /\ Pool!End(d) = c.paddr
                        \/ d.counter = 0 /\ d.paddr = Pool!End(c)
    OBVIOUS
  <2> HIDE DEF gone
  <2>4. first \in chunks /\ last \in chunks
    BY <1>2, <2>1
  <2>5. /\ first.paddr \in Int /\ last.paddr \in Int /\ c.paddr \in Int
        /\ Pool!End(first) \in Int /\ Pool!End(last) \in Int /\ Pool!End(c) \in Int
        /\ first.paddr < Pool!End(first) /\ last.paddr < Pool!End(last) /\ c.paddr < Pool!End(c)
    BY <1>0, <1>3, <2>4 DEF Pool!Addr
  <2>6. first = c \/ (first.counter = 0 /\ Pool!End(first) = c.paddr)
    BY <2>2, <2>3, <2>5
  <2>7. last = c \/ (last.counter = 0 /\ last.paddr = Pool!End(c))
    BY <2>2, <2>3, <2>5
  <2> QED BY <2>2, <2>4, <2>6, <2>7
<1>6. /\ merged.paddr = first.paddr /\ Pool!End(merged) = Pool!End(last)
      /\ merged.counter = 0 /\ merged \in Pool!Chunk
  BY <1>0, <1>3, <1>5 DEF Pool!End, Pool!Chunk, Pool!Addr
<1>7. /\ refs' = [refs EXCEPT ![a] = 0] /\ used' = used - c.size
      /\ UNCHANGED <<poolPc, want>>
      /\ chunks' = (chunks \ gone) \cup {merged}
  BY <1>1, <1>2 DEF Pool!FreeLast
<1>8. \A d \in chunks \ gone : /\ d # c /\ d # first /\ d # last
                               /\ d.counter > 0 \/ (Pool!End(d) # c.paddr /\ d.paddr # Pool!End(c))
                               BY <1>0, <1>2, <1>3
<1>9. /\ c \in gone /\ gone \subseteq chunks
      /\ \A d \in gone : /\ d = c \/ d.counter = 0
                         /\ first.paddr <= d.paddr /\ Pool!End(d) <= Pool!End(last)
  BY <1>0, <1>2
<1> HIDE DEF gone, merged
<1>10. PoolTypes' /\ WantsOK'
  BY <1>3, <1>6, <1>7 DEF PoolInv, PoolTypes, WantsOK
<1>11. Partition'
  <2>1. \A d \in chunks' : Pool!End(d) <= Base + Size
    BY <1>3, <1>5, <1>6, <1>7
  <2>2. \A d \in chunks \ gone : Pool!End(d) <= first.paddr \/ Pool!End(last) <= d.paddr
    <3> TAKE d \in chunks \ gone
    <3>1. Pool!End(d) <= c.paddr \/ Pool!End(c) <= d.paddr
      <4>1. d # c
        BY <1>8
      <4>2. c \in chunks /\ d \in chunks
        BY <1>0
      <4> QED BY <4>1, <4>2 DEF PoolInv, Partition
    <3>2. Pool!End(d) <= first.paddr \/ Pool!End(first) <= d.paddr
      BY <1>5, <1>8 DEF PoolInv, Partition
    <3>3. Pool!End(d) <= last.paddr \/ Pool!End(last) <= d.paddr
      BY <1>5, <1>8 DEF PoolInv, Partition
    <3> QED BY <1>0, <1>3, <1>5, <3>1, <3>2, <3>3 DEF Pool!Addr
  <2>3. \A d, e \in chunks' : d = e \/ Pool!End(d) <= e.paddr \/ Pool!End(e) <= d.paddr
    BY <1>6, <1>7, <2>2 DEF PoolInv, Partition
  <2>4. \A b \in Pool!Addr : \E d \in chunks' : d.paddr <= b /\ b < Pool!End(d)
    <3> TAKE b \in Pool!Addr
    <3>1. PICK d \in chunks : d.paddr <= b /\ b < Pool!End(d)
      BY DEF PoolInv, Partition
    <3>2. CASE d \in gone
      BY <1>3, <1>5, <1>6, <1>7, <1>9, <3>1, <3>2 DEF Pool!Addr
    <3> QED BY <1>7, <3>1, <3>2
  <2> QED BY <2>1, <2>3, <2>4 DEF Partition, Pool!End
<1>12. Counted'
  <2>1. \A b \in Pool!Addr : refs'[b] = IF b = a THEN 0 ELSE refs[b]
    BY <1>7 DEF PoolInv, PoolTypes
  <2>2. refs'[first.paddr] = 0
    BY <1>0, <1>3, <1>5, <2>1 DEF PoolInv, Counted
  <2>3. \A d \in chunks' : refs'[d.paddr] = d.counter
    <3> TAKE d \in chunks'
    <3>1. CASE d \in chunks \ gone
      <4>1. d # c /\ d.paddr # a /\ d.paddr \in Pool!Addr
        <5>1. d # c
          BY <1>8, <3>1
        <5>2. d \in chunks
          BY <3>1
        <5> QED BY <1>3, <1>4, <5>1, <5>2
      <4> QED BY <2>1, <3>1, <4>1 DEF PoolInv, Counted
    <3>2. CASE d = merged
      BY <1>6, <2>2, <3>2
    <3> QED BY <1>7, <3>1, <3>2
  <2>4. \A b \in Pool!Addr : refs'[b] > 0 => \E d \in chunks' : d.paddr = b
    <3> TAKE b \in Pool!Addr
    <3> HAVE refs'[b] > 0
    <3>1. b # a /\ refs[b] > 0
      BY <2>1
    <3>2. PICK d \in chunks : d.paddr = b
      BY <3>1 DEF PoolInv, Counted
    <3>3. d.counter = refs[b]
      BY <3>2 DEF PoolInv, Counted
    <3> QED BY <1>0, <1>7, <1>9, <3>1, <3>2, <3>3
  <2> QED BY <2>3, <2>4 DEF Counted
<1>13. Pool!Coalesced'
  BY <1>0, <1>3, <1>5, <1>6, <1>7, <1>8, <1>9 DEF PoolInv, Partition, Pool!Coalesced, Pool!Addr
<1>14. InUse' = InUse \ Bytes(c) /\ Bytes(c) \subseteq InUse
  BY <1>0, <1>3, <1>4, <1>5, <1>6, <1>7, <1>8, <1>9 DEF PoolInv, Partition, InUse, Bytes, Pool!Addr
<1>15. Cardinality(InUse') = Cardinality(InUse) - c.size
  <2>1. IsFiniteSet(InUse)
    BY InUseIsFinite
  <2>2. IsFiniteSet(Bytes(c)) /\ Cardinality(Bytes(c)) = c.size
    <3>1. c.paddr \in Nat /\ c.size \in Nat \ {0} /\ Pool!End(c) = c.paddr + c.size
      BY <1>0, <1>3 DEF Pool!Addr
    <3> QED BY <3>1, BytesOfChunk
  <2>3. /\ IsFiniteSet(InUse \ Bytes(c))
        /\ Cardinality(InUse \ Bytes(c)) = Cardinality(InUse) - Cardinality(InUse \cap Bytes(c))
    BY <2>1, FS_Difference
  <2>4. InUse \cap Bytes(c) = Bytes(c)
    BY <1>14
  <2>5. Cardinality(InUse') = Cardinality(InUse \ Bytes(c))
    BY <1>14, Zenon
  <2>6. Cardinality(InUse \cap Bytes(c)) = Cardinality(Bytes(c))
    BY <2>4, Zenon
  <2> QED BY <2>2, <2>3, <2>5, <2>6
<1> QED BY <1>7, <1>10, <1>11, <1>12, <1>13, <1>15 DEF PoolInv

\* A free that keeps the lock changes nothing else.
LEMMA FreeReleasedKeeps ==
    ASSUME PoolInv, NEW a \in Pool!Addr, Pool!FreeReleased(a)
    PROVE  PoolInv' /\ Pool!Blocks' = Pool!Blocks
BY DEF PoolInv, Pool!FreeReleased, PoolTypes, WantsOK, Partition, Counted, Pool!Coalesced,
       InUse, Bytes, Pool!End, Pool!Blocks

LEMMA PoolPreserved ==
    ASSUME Pool!PoolAssumption, PoolInv, Pool!Next
    PROVE  PoolInv'
BY CheckAllocKeeps, AllocChunkKeeps, AllocFailsKeeps, IncrefKeeps, FreeOneKeeps, FreeLastKeeps,
   FreeReleasedKeeps
   DEF Pool!Next

LEMMA StuckIsBoolean ==
    ASSUME stuck \in BOOLEAN, Pool!Next
    PROVE  stuck' \in BOOLEAN
BY Zenon DEF Pool!Next, Pool!CheckAlloc, Pool!AllocChunk, Pool!AllocFails, Pool!Incref, Pool!FreeOne,
       Pool!FreeLast, Pool!FreeReleased

\* What the invariant says of a pool all of whose blocks were given back.
LEMMA AllFreeIsWhole ==
    ASSUME Pool!PoolAssumption, PoolInv, \A a \in Pool!Addr : refs[a] = 0
    PROVE  chunks = {Pool!Whole} /\ used = 0
<1> USE DEF Pool!PoolAssumption
<1>1. \A c \in chunks : /\ c.counter = 0 /\ c.paddr \in Pool!Addr /\ c.size \in 1..Size
                        /\ Pool!End(c) = c.paddr + c.size /\ Pool!End(c) <= Base + Size
                        /\ c = [paddr |-> c.paddr, size |-> c.size, counter |-> c.counter]
  BY DEF PoolInv, PoolTypes, Counted, Partition, Pool!Chunk, Pool!End
<1>2. PICK c \in chunks : c.paddr <= Base /\ Base < Pool!End(c)
  BY DEF PoolInv, Partition, Pool!Addr
<1>3. c.paddr = Base
  BY <1>1, <1>2 DEF Pool!Addr
<1>4. Pool!End(c) = Base + Size
  <2> SUFFICES ASSUME Pool!End(c) < Base + Size PROVE FALSE
    BY <1>1, <1>2, <1>3 DEF Pool!Addr
  <2>1. Pool!End(c) \in Pool!Addr
    BY <1>1, <1>2, <1>3 DEF Pool!Addr
  <2>2. PICK d \in chunks : d.paddr <= Pool!End(c) /\ Pool!End(c) < Pool!End(d)
    BY <2>1 DEF PoolInv, Partition
  <2>3. d.paddr = Pool!End(c)
    BY <1>1, <1>2, <2>1, <2>2 DEF PoolInv, Partition, Pool!Addr
  <2> QED BY <1>1, <1>2, <2>2, <2>3 DEF PoolInv, Pool!Coalesced
<1>5. c = Pool!Whole
  BY <1>1, <1>2, <1>3, <1>4 DEF Pool!Whole
<1>6. \A d \in chunks : d = c
  BY <1>1, <1>2, <1>3, <1>4 DEF PoolInv, Partition, Pool!Addr
<1>7. InUse = {}
  BY <1>1 DEF InUse
<1> QED BY <1>2, <1>5, <1>6, <1>7, FS_EmptySet DEF PoolInv

LEMMA PoolInvIsEnough ==
    ASSUME Pool!PoolAssumption, PoolInv, stuck \in BOOLEAN
    PROVE  PoolIsExact
<1>1. IsFiniteSet(InUse) /\ Cardinality(InUse) \in 0..Size
  <2> DEFINE l == Base + Size - 1
  <2>1. Base \in Int /\ l \in Int /\ ~(Base > l) /\ l - Base + 1 = Size /\ Size \in Nat
    BY DEF Pool!PoolAssumption
  <2>2. InUse \in SUBSET (Base..l)
    BY DEF InUse, Pool!Addr
  <2> HIDE DEF l
  <2>3. IsFiniteSet(Base..l) /\ Cardinality(Base..l) = IF Base > l THEN 0 ELSE l - Base + 1
    BY <2>1, FS_Interval
  <2>4. IsFiniteSet(InUse) /\ Cardinality(InUse) <= Cardinality(Base..l)
    BY <2>2, <2>3, FS_Subset
  <2>5. Cardinality(InUse) \in Nat
    BY <2>4, FS_CardinalityType
  <2> QED BY <2>1, <2>3, <2>4, <2>5
<1>2. Pool!TypeOK
  BY <1>1 DEF PoolInv, PoolTypes, Pool!TypeOK
<1>3. Pool!Tiled
  <2> SUFFICES ASSUME NEW a \in Pool!Addr
               PROVE  \E c \in chunks :
                          /\ a \in c.paddr..(Pool!End(c) - 1)
                          /\ Pool!End(c) <= Base + Size
                          /\ \A d \in chunks : a \in d.paddr..(Pool!End(d) - 1) => d = c
    BY DEF Pool!Tiled
  <2>1. \A c \in chunks : c.paddr \in Int /\ Pool!End(c) \in Int /\ c.paddr < Pool!End(c)
    BY DEF PoolInv, PoolTypes, Pool!Chunk, Pool!Addr, Pool!End, Pool!PoolAssumption
  <2>2. a \in Int
    BY DEF Pool!Addr, Pool!PoolAssumption
  <2>3. PICK c \in chunks : c.paddr <= a /\ a < Pool!End(c)
    BY DEF PoolInv, Partition
  <2>4. a \in c.paddr..(Pool!End(c) - 1)
    BY <2>1, <2>2, <2>3
  <2>5. \A d \in chunks : a \in d.paddr..(Pool!End(d) - 1) => d = c
    <3> SUFFICES ASSUME NEW d \in chunks, a \in d.paddr..(Pool!End(d) - 1) PROVE d = c
      OBVIOUS
    <3>1. d.paddr <= a /\ a < Pool!End(d)
      BY <2>1, <2>2
    <3>2. c = d \/ Pool!End(c) <= d.paddr \/ Pool!End(d) <= c.paddr
      BY DEF PoolInv, Partition
    <3> QED BY <2>1, <2>2, <2>3, <3>1, <3>2
  <2> QED BY <2>3, <2>4, <2>5 DEF PoolInv, Partition
<1>4. Pool!UsedIsExact
  BY SameCardinality, Zenon DEF PoolInv, Pool!UsedIsExact, InUse, Bytes
<1>5. (\A a \in Pool!Addr : refs[a] = 0) => chunks = {Pool!Whole} /\ used = 0
  BY AllFreeIsWhole
<1> QED BY <1>2, <1>3, <1>4, <1>5 DEF PoolInv, PoolIsExact, Pool!PoolIsExact

\* However chunks are split and merged, the list of chunks tiles the pool, free
\* chunks are not neighbours, and the count of used bytes is exact: for every
\* size of the pool, of the requests and of the alignments.
THEOREM PoolAgrees == MCSpec => []PoolIsExact
<1> USE ServicesAssumption
<1> DEFINE Strong == PoolInv /\ stuck \in BOOLEAN
<1>1. MCInit => Strong
  BY PoolBeginning DEF MCInit, Pool!Init
<1>2. PoolInv /\ [MCNext]_<<which, vars, pool, handles>> => PoolInv'
  <2> SUFFICES ASSUME PoolInv, [MCNext]_<<which, vars, pool, handles>> PROVE PoolInv'
    OBVIOUS
  <2>1. CASE Pool!Next
    BY <2>1, PoolPreserved
  <2>2. CASE UNCHANGED pool
    BY <2>2 DEF pool, PoolInv, PoolTypes, WantsOK, Partition, Counted, Pool!Coalesced, InUse,
                Bytes, Pool!End
  <2> QED BY <2>1, <2>2 DEF MCNext
<1>3. stuck \in BOOLEAN /\ [MCNext]_<<which, vars, pool, handles>> => stuck' \in BOOLEAN
  BY StuckIsBoolean DEF MCNext, pool
<1>4. Strong /\ [MCNext]_<<which, vars, pool, handles>> => Strong'
  BY <1>2, <1>3
<1>5. Strong => PoolIsExact
  BY PoolInvIsEnough
<1> QED BY <1>1, <1>4, <1>5, PTL DEF MCSpec

\* The block of a chunk, and the blocks under the changes of the list.
Block(c) == [paddr |-> c.paddr, size |-> c.size, refs |-> c.counter]

LEMMA BlocksAre ==
    /\ Pool!Blocks = {Block(c) : c \in {d \in chunks : d.counter > 0}}
    /\ Pool!Blocks' = {Block(c) : c \in {d \in chunks' : d.counter > 0}}
BY DEF Pool!Blocks, Block

\* A block is handed out.
LEMMA AllocChunkAllocates ==
    ASSUME Pool!PoolAssumption, PoolInv, NEW t \in Threads, Pool!AllocChunk(t)
    PROVE  Pool!Abstract!Allocate
<1> USE DEF Pool!PoolAssumption
<1>1. PICK c \in chunks :
          LET w == want[t]
              begAddr == Pool!ALIGN(c.paddr, w.alignment)
              endAddr == begAddr + w.size
          IN  /\ Pool!IsBest(c, w)
              /\ chunks' = (chunks \ {c})
                    \cup Pool!Remainders(c, begAddr, endAddr)
                    \cup {[paddr |-> begAddr, size |-> w.size, counter |-> 1]}
  BY DEF Pool!AllocChunk
<1> DEFINE w == want[t]
           begAddr == Pool!ALIGN(c.paddr, w.alignment)
           endAddr == begAddr + w.size
           block == [paddr |-> begAddr, size |-> w.size, counter |-> 1]
           rest == Pool!Remainders(c, begAddr, endAddr)
<1>2. /\ w.size \in Nat \ {0} /\ w.alignment \in Nat \ {0} /\ w.size % Grain = 0
      /\ \E q \in Nat : w.alignment = q * Grain
  <2>1. poolPc[t] = "lock"
    BY DEF Pool!AllocChunk
  <2>2. want[t].size \in Nat /\ want[t].alignment \in Nat
    BY DEF PoolInv, PoolTypes
  <2>3. /\ want[t].size > 0 /\ want[t].alignment > 0
        /\ want[t].size % Grain = 0
        /\ \E q \in Nat : want[t].alignment = q * Grain
    BY <2>1, Zenon DEF PoolInv, WantsOK
  <2>4. want[t].size # 0 /\ want[t].alignment # 0
    BY <2>2, <2>3
  <2> QED BY <2>2, <2>3, <2>4, Zenon
<1>3. /\ c.counter = 0 /\ c.paddr \in Nat /\ Base <= c.paddr
      /\ Pool!End(c) \in Nat /\ Pool!End(c) <= Base + Size
  <2>1. c \in Pool!Chunk /\ Pool!End(c) <= Base + Size /\ c.counter = 0
    BY <1>1 DEF PoolInv, PoolTypes, Partition, Pool!IsBest, Pool!Fits
  <2> QED BY <2>1 DEF Pool!Chunk, Pool!End, Pool!Addr
<1>4. begAddr \in Nat /\ begAddr >= c.paddr /\ begAddr % Grain = 0
  <2>1. begAddr \in Nat /\ begAddr >= c.paddr
    BY <1>2, <1>3, AlignsUp
  <2>2. PICK q \in Nat : w.alignment = q * Grain
    BY <1>2
  <2>3. PICK m \in Nat : begAddr = m * w.alignment
    BY <1>2, <1>3, AlignsUp
  <2> HIDE DEF begAddr, w
  <2>4. begAddr = (m * q) * Grain /\ m * q \in Nat
    BY <2>2, <2>3
  <2>5. ((m * q) * Grain) % Grain = 0
    BY <2>4, MultipleHasNoRest
  <2> QED BY <2>1, <2>4, <2>5
<1>5. endAddr <= Pool!End(c)
  BY <1>1 DEF Pool!IsBest, Pool!Fits
<1> HIDE DEF begAddr, w
<1>6. /\ \A r \in rest : r.counter = 0
      /\ block.counter = 1
  BY DEF Pool!Remainders
<1>7. chunks' = (chunks \ {c}) \cup rest \cup {block}
  BY <1>1 DEF begAddr, w
<1>8. Block(block) = [paddr |-> begAddr, size |-> w.size, refs |-> 1]
  BY DEF Block
<1> HIDE DEF block, rest
<1>9. Pool!Blocks' = Pool!Blocks \cup {Block(block)}
  BY <1>3, <1>6, <1>7, BlocksAre
<1>10. \A d \in Pool!Blocks : begAddr + w.size <= d.paddr \/ d.paddr + d.size <= begAddr
  <2> TAKE d \in Pool!Blocks
  <2>1. PICK e \in chunks : e.counter > 0 /\ d.paddr = e.paddr /\ d.size = e.size
    BY DEF Pool!Blocks
  <2>2. e.paddr \in Nat /\ e.size \in Nat /\ Pool!End(e) = e.paddr + e.size
    BY DEF PoolInv, PoolTypes, Pool!Chunk, Pool!Addr, Pool!End
  <2>3. e # c
    BY <1>3, <2>1
  <2>4. Pool!End(e) <= c.paddr \/ Pool!End(c) <= e.paddr
    BY <2>3 DEF PoolInv, Partition
  <2> QED BY <1>2, <1>3, <1>4, <1>5, <2>1, <2>2, <2>4
<1>11. begAddr \in Base..(Base + Size - 1) /\ w.size \in 1..Size /\ begAddr + w.size <= Base + Size
  BY <1>2, <1>3, <1>4, <1>5
<1>12. \A d \in Pool!Blocks :
           Pool!Abstract!Apart([paddr |-> begAddr, size |-> w.size, refs |-> 1], d)
  BY <1>10 DEF Pool!Abstract!Apart
<1> QED BY <1>2, <1>4, <1>8, <1>9, <1>11, <1>12 DEF Pool!Abstract!Allocate

\* Only the counter of a block changes.
LEMMA RecountIsSeen ==
    ASSUME Pool!PoolAssumption, PoolInv, NEW a \in Pool!Addr, NEW r \in 1..MaxRefs, refs[a] > 0,
           NEW c \in chunks, c.paddr = a,
           chunks' = (chunks \ {c}) \cup {[c EXCEPT !.counter = r]}
    PROVE  /\ Block(c) \in Pool!Blocks
           /\ Block(c).refs = refs[a]
           /\ Pool!Blocks' = (Pool!Blocks \ {Block(c)}) \cup {[Block(c) EXCEPT !.refs = r]}
<1> DEFINE e == [c EXCEPT !.counter = r]
<1>1. /\ c \in Pool!Chunk /\ c.paddr = a /\ c.counter = refs[a] /\ c.counter > 0
      /\ \A d \in chunks : d # c => d.paddr # a
  BY ChunkOfBlock DEF PoolInv, PoolTypes
<1>2. e.counter = r /\ r > 0 /\ Block(e) = [Block(c) EXCEPT !.refs = r]
  BY <1>1 DEF Pool!Chunk, Block
<1>3. \A d \in chunks : d # c => Block(d) # Block(c)
  BY <1>1 DEF Block
<1>4. chunks' = (chunks \ {c}) \cup {e}
  OBVIOUS
<1> HIDE DEF e
<1>5. Block(c) \in Pool!Blocks /\ Block(c).refs = refs[a]
  BY <1>1, BlocksAre DEF Block
<1>6. Pool!Blocks' = (Pool!Blocks \ {Block(c)}) \cup {Block(e)}
  BY <1>1, <1>2, <1>3, <1>4, BlocksAre
<1> QED BY <1>2, <1>5, <1>6

LEMMA IncrefRetains ==
    ASSUME Pool!PoolAssumption, PoolInv, NEW a \in Pool!Addr, Pool!Incref(a)
    PROVE  Pool!Abstract!Retain
<1>1. refs[a] \in 1..(MaxRefs - 1) /\ refs[a] + 1 \in 1..MaxRefs /\ refs[a] > 0
  BY DEF Pool!Incref, Pool!PoolAssumption
<1>2. PICK c \in chunks :
          c.paddr = a /\ chunks' = (chunks \ {c}) \cup {[c EXCEPT !.counter = c.counter + 1]}
  BY DEF Pool!Incref
<1>3. c.counter = refs[a]
  BY <1>2, ChunkOfBlock
<1>4. chunks' = (chunks \ {c}) \cup {[c EXCEPT !.counter = refs[a] + 1]}
  BY <1>2, <1>3
<1>5. /\ Block(c) \in Pool!Blocks
      /\ Pool!Blocks' = (Pool!Blocks \ {Block(c)})
             \cup {[Block(c) EXCEPT !.refs = Block(c).refs + 1]}
  BY <1>1, <1>2, <1>4, RecountIsSeen
<1> QED BY <1>5 DEF Pool!Abstract!Retain

LEMMA FreeOneReleases ==
    ASSUME Pool!PoolAssumption, PoolInv, NEW a \in Pool!Addr, Pool!FreeOne(a)
    PROVE  Pool!Abstract!Release
<1>1. refs[a] > 1 /\ refs[a] - 1 \in 1..MaxRefs /\ refs[a] > 0
  BY DEF Pool!FreeOne, Pool!PoolAssumption, PoolInv, PoolTypes
<1>2. PICK c \in chunks :
          c.paddr = a /\ chunks' = (chunks \ {c}) \cup {[c EXCEPT !.counter = c.counter - 1]}
  BY DEF Pool!FreeOne
<1>3. c.counter = refs[a]
  BY <1>2, ChunkOfBlock
<1>4. chunks' = (chunks \ {c}) \cup {[c EXCEPT !.counter = refs[a] - 1]}
  BY <1>2, <1>3
<1>5. /\ Block(c) \in Pool!Blocks /\ Block(c).refs # 1
      /\ Pool!Blocks' = (Pool!Blocks \ {Block(c)})
             \cup {[Block(c) EXCEPT !.refs = Block(c).refs - 1]}
  BY <1>1, <1>2, <1>4, RecountIsSeen
<1> QED BY <1>5 DEF Pool!Abstract!Release

LEMMA FreeLastReleases ==
    ASSUME Pool!PoolAssumption, PoolInv, NEW a \in Pool!Addr, Pool!FreeLast(a)
    PROVE  Pool!Abstract!Release
<1>1. PICK c \in chunks : c.paddr = a /\ Pool!Coalesce(c)
  BY DEF Pool!FreeLast
<1>2. /\ c.counter = 1 /\ Block(c).refs = 1
      /\ \A d \in chunks : d # c => d.paddr # a
  BY <1>1, ChunkOfBlock DEF Pool!FreeLast, Block
<1>3. c \in chunks /\ c.paddr = a
  BY <1>1
<1> DEFINE gone == {c} \cup {d \in chunks : /\ d.counter = 0
                                            /\ Pool!End(d) = c.paddr \/ d.paddr = Pool!End(c)}
<1>4. PICK m : m.counter = 0 /\ chunks' = (chunks \ gone) \cup {m}
  <2>1. PICK first \in gone, last \in gone :
            chunks' = (chunks \ gone)
                \cup {[paddr |-> first.paddr, size |-> Pool!End(last) - first.paddr, counter |-> 0]}
    BY <1>1 DEF Pool!Coalesce
  <2> WITNESS [paddr |-> first.paddr, size |-> Pool!End(last) - first.paddr, counter |-> 0]
  <2> QED BY <2>1
<1>5. \A d \in chunks : d \in gone => d = c \/ d.counter = 0
  OBVIOUS
<1>6. c \in gone
  OBVIOUS
<1> HIDE DEF gone
<1>7. \A d \in chunks : d # c => Block(d) # Block(c)
  BY <1>2, <1>3 DEF Block
<1>8. Pool!Blocks' = Pool!Blocks \ {Block(c)}
  BY <1>2, <1>3, <1>4, <1>5, <1>6, <1>7, BlocksAre
<1>9. Block(c) \in Pool!Blocks
  BY <1>2, <1>3, BlocksAre
<1>10. Pool!Blocks' = (Pool!Blocks \ {Block(c)}) \cup {}
  BY <1>8
<1> QED BY <1>2, <1>9, <1>10 DEF Pool!Abstract!Release

\* The list of chunks implements the pool of disjoint, aligned, counted blocks:
\* every step of tee_mem.c hands out, retains or releases a block, or changes
\* none, for every size of the pool and of the requests.
THEOREM ChunksAreBlocks == MCSpec => ImplementsBlockPool
<1> USE ServicesAssumption
<1>1. MCInit => PoolInv /\ Pool!Abstract!Init
  <2>1. Pool!Init => Pool!Abstract!Init
    BY DEF Pool!Init, Pool!Abstract!Init, Pool!Blocks, Pool!Whole
  <2> QED BY <2>1, PoolBeginning DEF MCInit
<1>2. PoolInv /\ [MCNext]_<<which, vars, pool, handles>>
        => PoolInv' /\ [Pool!Abstract!Next]_(Pool!Blocks)
  <2> SUFFICES ASSUME PoolInv, [MCNext]_<<which, vars, pool, handles>>
               PROVE  PoolInv' /\ [Pool!Abstract!Next]_(Pool!Blocks)
    OBVIOUS
  <2>1. CASE Pool!Next
    <3>1. ASSUME NEW t \in Threads, Pool!CheckAlloc(t) \/ Pool!AllocFails(t)
          PROVE  Pool!Blocks' = Pool!Blocks
      BY <3>1 DEF Pool!CheckAlloc, Pool!AllocFails, Pool!Blocks
    <3> QED BY <2>1, <3>1, PoolPreserved, AllocChunkAllocates, IncrefRetains, FreeOneReleases,
               FreeLastReleases, FreeReleasedKeeps DEF Pool!Next, Pool!Abstract!Next
  <2>2. CASE UNCHANGED pool
    <3>1. PoolInv'
      BY <2>2 DEF pool, PoolInv, PoolTypes, WantsOK, Partition, Counted, Pool!Coalesced, InUse,
                  Bytes, Pool!End
    <3> QED BY <2>2, <3>1 DEF pool, Pool!Blocks
  <2> QED BY <2>1, <2>2 DEF MCNext
<1> QED BY <1>1, <1>2, PTL
       DEF MCSpec, ImplementsBlockPool, Pool!ImplementsBlockPool, Pool!Abstract!Spec

-----------------------------------------------------------------------------
(* The table of handles, used by one thread *)

Tables == UNION {[0..(m - 1) -> Handles!Cells] : m \in Nat}

HandleTypes ==
    /\ arrays \in Seq(Tables)
    /\ ptrs \in 0..Len(arrays) /\ max_ptrs \in Nat
    /\ freed \subseteq 1..Len(arrays) /\ touched = FALSE
    /\ handlePc \in [{Caller} -> {"idle", "scan", "store", "publish", "clear", "free"}]
    /\ ptr \in [{Caller} -> Pointers \cup {Null}]
    /\ n \in [{Caller} -> Nat]
    /\ p \in [{Caller} -> Handles!Cells \cup 1..Len(arrays)]
    /\ handle \in [Pointers -> Nat \cup {None}]

LEMMA HandlesCardinality == \A S : Handles!Cardinality(S) = Cardinality(S)
BY DEF Handles!Cardinality, Cardinality

\* The array that holds the objects: the table, or between krealloc and the
\* publication the copy of it.
Newest == IF handlePc[Caller] = "publish" THEN p[Caller] ELSE ptrs

\* The length of the table is the length of its array.
TableShape ==
    /\ ptrs = 0 <=> max_ptrs = 0
    /\ ptrs # 0 => DOMAIN arrays[ptrs] = 0..(max_ptrs - 1)
    /\ ptrs \in freed => handlePc[Caller] = "publish"

\* A location holds the object whose handle it is, or the one whose release is
\* about to clear it, and is empty otherwise.
Holds(x, i) ==
    \/ handle[x] = i
    \/ handlePc[Caller] = "clear" /\ n[Caller] = i /\ ptr[Caller] = x
TableContents ==
    /\ \A x \in Pointers : handle[x] # None => handle[x] \in 0..(max_ptrs - 1)
    /\ \A i \in 0..(max_ptrs - 1) :
           /\ arrays[Newest][i] \in Pointers \cup {Null}
           /\ \A x \in Pointers : arrays[Newest][i] = x <=> Holds(x, i)

\* What the thread knows where it stands.
CallerOK ==
    /\ handlePc[Caller] # "idle" => ptr[Caller] \in Pointers /\ handle[ptr[Caller]] = None
    /\ handlePc[Caller] = "scan" => n[Caller] <= max_ptrs
    /\ handlePc[Caller] \in {"store", "clear"} => n[Caller] < max_ptrs
    /\ handlePc[Caller] = "store" => arrays[ptrs][n[Caller]] = Null
    /\ handlePc[Caller] = "publish" =>
          /\ p[Caller] \in 1..Len(arrays) /\ p[Caller] \notin freed
          /\ n[Caller] = max_ptrs /\ ptrs \in freed \cup {0}
          /\ DOMAIN arrays[p[Caller]] = 0..(Handles!NewMax - 1)
    /\ handlePc[Caller] \in {"clear", "free"} => p[Caller] = ptr[Caller]

HandleInv == HandleTypes /\ TableShape /\ TableContents /\ CallerOK

LEMMA HandleBeginning == ASSUME Handles!HandleAssumption, Handles!Init PROVE HandleInv
<1> USE DEF Handles!HandleAssumption, Handles!Init
<1>1. HandleTypes
  BY DEF HandleTypes, Handles!Cells
<1>2. TableShape /\ TableContents /\ CallerOK
  BY DEF TableShape, TableContents, CallerOK
<1> QED BY <1>1, <1>2 DEF HandleInv

\* An access to a location of the table is one to the table's memory.
LEMMA InsideTable ==
    ASSUME Handles!HandleAssumption, HandleInv, handlePc[Caller] # "publish",
           NEW i \in 0..(max_ptrs - 1)
    PROVE  /\ Handles!Inside(i) /\ Handles!Read(i) = arrays[ptrs][i]
           /\ ptrs \in 1..Len(arrays) /\ Newest = ptrs
           /\ arrays[ptrs] \in [0..(max_ptrs - 1) -> Handles!Cells]
<1>1. max_ptrs # 0
  BY DEF HandleInv, HandleTypes
<1>2. ptrs \in 1..Len(arrays) /\ ptrs \notin freed /\ DOMAIN arrays[ptrs] = 0..(max_ptrs - 1)
  BY <1>1 DEF HandleInv, HandleTypes, TableShape
<1>3. arrays[ptrs] \in Tables
  BY <1>2 DEF HandleInv, HandleTypes
<1>4. arrays[ptrs] \in [0..(max_ptrs - 1) -> Handles!Cells]
  BY <1>2, <1>3 DEF Tables
<1> QED BY <1>2, <1>4 DEF Handles!Inside, Handles!Read, Newest

LEMMA GetKeeps ==
    ASSUME Handles!HandleAssumption, HandleInv, NEW x \in Pointers, Handles!Get(Caller, x)
    PROVE  HandleInv'
<1> USE DEF HandleInv, Handles!Get, Handles!Goto, Handles!Set, Handles!db
<1>1. HandleTypes'
  BY DEF HandleTypes
<1>2. TableShape' /\ CallerOK'
  BY DEF HandleTypes, TableShape, CallerOK
<1>3. TableContents'
  BY DEF HandleTypes, TableContents, Newest, Holds
<1> QED BY <1>1, <1>2, <1>3

LEMMA ScanKeeps ==
    ASSUME Handles!HandleAssumption, HandleInv, Handles!Scan(Caller)
    PROVE  HandleInv'
<1> USE DEF HandleInv, Handles!Scan, Handles!Goto, Handles!Set
<1>1. n[Caller] \in 0..(max_ptrs - 1) /\ handlePc[Caller] = "scan"
  BY DEF HandleTypes
<1>2. Handles!Inside(n[Caller]) /\ Handles!Read(n[Caller]) = arrays[ptrs][n[Caller]]
  BY <1>1, InsideTable
<1>3. HandleTypes'
  <2>1. touched' = FALSE
    BY <1>2 DEF HandleTypes, Handles!Touch
  <2>2. n' \in [{Caller} -> Nat]
    BY <1>1 DEF HandleTypes
  <2> QED BY <2>1, <2>2 DEF HandleTypes
<1>4. TableShape' /\ CallerOK'
  BY <1>1, <1>2 DEF HandleTypes, TableShape, CallerOK
<1>5. TableContents'
  BY <1>1 DEF HandleTypes, TableContents, Newest, Holds
<1> QED BY <1>3, <1>4, <1>5

\* A location of the table is written.
LEMMA WriteInTable ==
    ASSUME Handles!HandleAssumption, HandleInv, handlePc[Caller] # "publish",
           NEW i \in 0..(max_ptrs - 1), NEW v \in Handles!Cells
    PROVE  /\ Handles!Write(i, v) \in Seq(Tables)
           /\ Len(Handles!Write(i, v)) = Len(arrays)
           /\ DOMAIN Handles!Write(i, v)[ptrs] = 0..(max_ptrs - 1)
           /\ \A j \in 0..(max_ptrs - 1) :
                  Handles!Write(i, v)[ptrs][j] = IF j = i THEN v ELSE arrays[ptrs][j]
<1> DEFINE t == [arrays[ptrs] EXCEPT ![i] = v]
<1>1. /\ ptrs \in 1..Len(arrays)
      /\ arrays[ptrs] \in [0..(max_ptrs - 1) -> Handles!Cells]
      /\ arrays \in Seq(Tables) /\ max_ptrs \in Nat
  BY InsideTable DEF HandleInv, HandleTypes
<1>2. t \in [0..(max_ptrs - 1) -> Handles!Cells]
  BY <1>1
<1>3. t \in Tables
  BY <1>1, <1>2 DEF Tables
<1>4. Handles!Write(i, v) = [arrays EXCEPT ![ptrs] = t]
  BY <1>1 DEF Handles!Write
<1>5. \A j \in 0..(max_ptrs - 1) : t[j] = IF j = i THEN v ELSE arrays[ptrs][j]
  BY <1>1
<1> HIDE DEF t
<1>6. /\ [arrays EXCEPT ![ptrs] = t] \in Seq(Tables)
      /\ Len([arrays EXCEPT ![ptrs] = t]) = Len(arrays)
      /\ [arrays EXCEPT ![ptrs] = t][ptrs] = t
  BY <1>1, <1>3
<1> QED BY <1>2, <1>4, <1>5, <1>6

LEMMA TakeKeeps ==
    ASSUME Handles!HandleAssumption, HandleInv, Handles!Take(Caller)
    PROVE  HandleInv'
<1> DEFINE x == ptr[Caller]  i == n[Caller]
<1>1. /\ handlePc[Caller] = "store" /\ i \in 0..(max_ptrs - 1)
      /\ x \in Pointers /\ handle[x] = None /\ arrays[ptrs][i] = Null
  BY DEF HandleInv, HandleTypes, CallerOK, Handles!Take, Handles!Return, Handles!Goto
<1>2. /\ handlePc' = [handlePc EXCEPT ![Caller] = "idle"]
      /\ ptr' = [ptr EXCEPT ![Caller] = Null] /\ n' = [n EXCEPT ![Caller] = 0]
      /\ p' = [p EXCEPT ![Caller] = Null]
      /\ arrays' = Handles!Write(i, x) /\ handle' = [handle EXCEPT ![x] = i]
      /\ UNCHANGED <<ptrs, max_ptrs, freed>>
      /\ touched' = (touched \/ ~Handles!Inside(i))
  BY DEF Handles!Take, Handles!Return, Handles!Goto, Handles!Set, Handles!Touch
<1>3. Handles!Inside(i) /\ Newest = ptrs /\ ptrs \in 1..Len(arrays)
  BY <1>1, InsideTable
<1>4. /\ arrays' \in Seq(Tables) /\ Len(arrays') = Len(arrays)
      /\ DOMAIN arrays'[ptrs] = 0..(max_ptrs - 1)
      /\ \A j \in 0..(max_ptrs - 1) : arrays'[ptrs][j] = IF j = i THEN x ELSE arrays[ptrs][j]
  BY <1>1, <1>2, WriteInTable DEF Handles!Cells
<1> HIDE DEF x, i
<1>5. HandleTypes'
  <2>1. touched' = FALSE
    BY <1>2, <1>3 DEF HandleInv, HandleTypes
  <2>2. p' \in [{Caller} -> Handles!Cells \cup 1..Len(arrays)]
    BY <1>2 DEF HandleInv, HandleTypes, Handles!Cells
  <2>3. handle' \in [Pointers -> Nat \cup {None}]
    BY <1>1, <1>2 DEF HandleInv, HandleTypes
  <2> QED BY <1>2, <1>4, <2>1, <2>2, <2>3 DEF HandleInv, HandleTypes
<1>6. TableShape' /\ CallerOK'
  BY <1>1, <1>2, <1>4 DEF HandleInv, HandleTypes, TableShape, CallerOK
<1>7. Newest' = ptrs
  BY <1>2 DEF HandleInv, HandleTypes, Newest
<1>8. \A y \in Pointers : handle'[y] = IF y = x THEN i ELSE handle[y]
  BY <1>1, <1>2 DEF HandleInv, HandleTypes
<1>9. handlePc'[Caller] = "idle"
  BY <1>2 DEF HandleInv, HandleTypes
<1>10. TableContents'
  <2>1. \A y \in Pointers : handle'[y] # None => handle'[y] \in 0..(max_ptrs - 1)
    BY <1>1, <1>8 DEF HandleInv, TableContents
  <2>2. ASSUME NEW j \in 0..(max_ptrs - 1)
        PROVE  /\ arrays'[ptrs][j] \in Pointers \cup {Null}
               /\ \A y \in Pointers : arrays'[ptrs][j] = y <=> handle'[y] = j
    <3>1. /\ arrays[ptrs][j] \in Pointers \cup {Null}
          /\ \A y \in Pointers : arrays[ptrs][j] = y <=> handle[y] = j
      BY <1>1, <1>3 DEF HandleInv, TableContents, Holds
    <3>2. CASE j = i
      BY <1>1, <1>4, <1>8, <3>1, <3>2 DEF Handles!HandleAssumption
    <3>3. CASE j # i
      <4>1. handle[x] # j
        BY <1>1 DEF Handles!HandleAssumption
      <4> QED BY <1>1, <1>4, <1>8, <3>1, <3>3, <4>1
    <3> QED BY <3>2, <3>3
  <2> QED BY <1>2, <1>7, <1>9, <2>1, <2>2 DEF TableContents, Holds
<1> QED BY <1>5, <1>6, <1>10 DEF HandleInv

LEMMA GrowKeeps ==
    ASSUME Handles!HandleAssumption, HandleInv, Handles!Grow(Caller)
    PROVE  HandleInv'
<1> DEFINE old == [a \in DOMAIN arrays |->
                      IF a = ptrs THEN [i \in DOMAIN arrays[a] |-> Undefined] ELSE arrays[a]]
           new == [i \in 0..(Handles!NewMax - 1) |-> Handles!Read(i)]
<1>1. /\ handlePc[Caller] = "scan" /\ n[Caller] = max_ptrs
      /\ ptr[Caller] \in Pointers /\ handle[ptr[Caller]] = None
      /\ ptrs \notin freed
  BY DEF HandleInv, HandleTypes, TableShape, CallerOK, Handles!Grow, Handles!Goto
<1>2. /\ arrays' = Append(old, new)
      /\ p' = [p EXCEPT ![Caller] = Len(arrays')]
      /\ handlePc' = [handlePc EXCEPT ![Caller] = "publish"]
      /\ touched' = (touched \/ ptrs \in freed)
      /\ freed' = freed \cup ({ptrs} \ {0})
      /\ UNCHANGED <<ptrs, max_ptrs, ptr, n, handle>>
  BY DEF Handles!Grow, Handles!Goto, Handles!Set
<1>3. arrays \in Seq(Tables) /\ ptrs \in 0..Len(arrays) /\ max_ptrs \in Nat
  BY DEF HandleInv, HandleTypes
<1>4. /\ old \in Seq(Tables) /\ Len(old) = Len(arrays)
      /\ ptrs # 0 => DOMAIN old[ptrs] = DOMAIN arrays[ptrs]
  <2>1. \A a \in 1..Len(arrays) : old[a] \in Tables /\ DOMAIN old[a] = DOMAIN arrays[a]
    <3> TAKE a \in 1..Len(arrays)
    <3>1. PICK m \in Nat : arrays[a] \in [0..(m - 1) -> Handles!Cells]
      BY <1>3 DEF Tables
    <3>2. DOMAIN arrays[a] = 0..(m - 1)
      BY <3>1
    <3>3. [i \in 0..(m - 1) |-> Undefined] \in [0..(m - 1) -> Handles!Cells]
      BY DEF Handles!Cells
    <3>4. old[a] \in [0..(m - 1) -> Handles!Cells]
      BY <1>3, <3>1, <3>2, <3>3
    <3> QED BY <3>2, <3>4 DEF Tables
  <2>2. old \in [1..Len(arrays) -> Tables] /\ Len(arrays) \in Nat
    <3>1. DOMAIN arrays = 1..Len(arrays) /\ Len(arrays) \in Nat
      BY <1>3
    <3>2. DOMAIN old = 1..Len(arrays) /\ old = [a \in 1..Len(arrays) |-> old[a]]
      BY <3>1
    <3> HIDE DEF old
    <3> QED BY <2>1, <3>1, <3>2
  <2> HIDE DEF old
  <2>3. old \in Seq(Tables) /\ Len(old) = Len(arrays)
    BY <2>2
  <2> QED BY <1>3, <2>1, <2>3
<1>5. Handles!NewMax \in Nat /\ Handles!NewMax >= max_ptrs
  BY <1>3 DEF Handles!NewMax, Handles!HandleAssumption
<1>6. \A i \in 0..(max_ptrs - 1) : Handles!Read(i) = arrays[ptrs][i]
  BY <1>1, InsideTable
<1>7. \A i \in Nat : Handles!Read(i) \in Handles!Cells
  <2> TAKE i \in Nat
  <2>1. CASE ptrs # 0 /\ i \in DOMAIN arrays[ptrs]
    <3>1. arrays[ptrs] \in Tables
      BY <1>3, <2>1
    <3> QED BY <2>1, <3>1 DEF Tables, Handles!Read
  <2>2. CASE ~(ptrs # 0 /\ i \in DOMAIN arrays[ptrs])
    BY <2>2 DEF Handles!Read, Handles!Cells
  <2> QED BY <2>1, <2>2
<1>8. new \in Tables /\ DOMAIN new = 0..(Handles!NewMax - 1)
  BY <1>5, <1>7 DEF Tables
<1>9. \A i \in 0..(max_ptrs - 1) : new[i] = arrays[ptrs][i]
  BY <1>3, <1>5, <1>6
<1> HIDE DEF old, new
<1>10. /\ arrays' \in Seq(Tables) /\ Len(arrays') = Len(arrays) + 1
       /\ arrays'[Len(arrays) + 1] = new
       /\ ptrs # 0 => arrays'[ptrs] = old[ptrs]
  BY <1>2, <1>3, <1>4, <1>8
<1>11. p'[Caller] = Len(arrays) + 1 /\ handlePc'[Caller] = "publish"
  BY <1>2, <1>10 DEF HandleInv, HandleTypes
<1>12. HandleTypes'
  <2>1. touched' = FALSE
    BY <1>1, <1>2 DEF HandleInv, HandleTypes
  <2>2. p' \in [{Caller} -> Handles!Cells \cup 1..Len(arrays')]
    BY <1>2, <1>10 DEF HandleInv, HandleTypes
  <2>3. Len(arrays) \in Nat /\ freed' \subseteq 1..Len(arrays')
    BY <1>2, <1>3, <1>10 DEF HandleInv, HandleTypes
  <2>4. ptrs' \in 0..Len(arrays')
    BY <1>2, <1>3, <1>10, <2>3
  <2> QED BY <1>2, <1>10, <2>1, <2>2, <2>3, <2>4 DEF HandleInv, HandleTypes
<1>13. TableShape'
  BY <1>2, <1>3, <1>4, <1>10, <1>11 DEF HandleInv, HandleTypes, TableShape
<1>14. CallerOK'
  BY <1>1, <1>2, <1>3, <1>8, <1>10, <1>11 DEF HandleInv, HandleTypes, CallerOK, Handles!NewMax
<1>15. TableContents'
  <2>1. Newest = ptrs /\ Newest' = Len(arrays) + 1
    BY <1>1, <1>11 DEF Newest
  <2>2. \A i \in 0..(max_ptrs - 1) : arrays'[Newest'][i] = arrays[Newest][i]
    BY <1>9, <1>10, <2>1
  <2>3. \A x \in Pointers, i \in Nat : Holds(x, i)' <=> Holds(x, i)
    BY <1>1, <1>2, <1>11 DEF Holds
  <2>4. \A x \in Pointers : handle'[x] # None => handle'[x] \in 0..(max_ptrs' - 1)
    BY <1>2 DEF HandleInv, TableContents
  <2>5. ASSUME NEW i \in 0..(max_ptrs' - 1)
        PROVE  /\ arrays'[Newest'][i] \in Pointers \cup {Null}
               /\ \A x \in Pointers : arrays'[Newest'][i] = x <=> Holds(x, i)'
    <3>1. i \in 0..(max_ptrs - 1) /\ i \in Nat
      BY <1>2, <1>3
    <3>2. /\ arrays[Newest][i] \in Pointers \cup {Null}
          /\ \A x \in Pointers : arrays[Newest][i] = x <=> Holds(x, i)
      BY <3>1 DEF HandleInv, TableContents
    <3> QED BY <2>2, <2>3, <3>1, <3>2
  <2> QED BY <2>4, <2>5 DEF TableContents
<1> QED BY <1>12, <1>13, <1>14, <1>15 DEF HandleInv

\* A thread that returns without having changed the table.
LEMMA ReturnKeeps ==
    ASSUME Handles!HandleAssumption, HandleInv, Handles!GrowFails(Caller) \/ Handles!Free(Caller)
    PROVE  HandleInv'
<1>1. /\ handlePc[Caller] \in {"scan", "free"}
      /\ handlePc' = [handlePc EXCEPT ![Caller] = "idle"]
      /\ ptr' = [ptr EXCEPT ![Caller] = Null] /\ n' = [n EXCEPT ![Caller] = 0]
      /\ p' = [p EXCEPT ![Caller] = Null]
      /\ UNCHANGED <<arrays, ptrs, max_ptrs, freed, touched, handle>>
  BY DEF Handles!GrowFails, Handles!Free, Handles!Return, Handles!Goto, Handles!Set, Handles!db
<1>2. HandleTypes'
  <2>1. Null \in Handles!Cells
    BY DEF Handles!Cells
  <2> QED BY <1>1, <2>1 DEF HandleInv, HandleTypes
<1>3. TableShape' /\ CallerOK'
  BY <1>1 DEF HandleInv, HandleTypes, TableShape, CallerOK
<1>4. TableContents'
  BY <1>1 DEF HandleInv, HandleTypes, TableContents, Newest, Holds
<1> QED BY <1>2, <1>3, <1>4 DEF HandleInv

LEMMA PublishKeeps ==
    ASSUME Handles!HandleAssumption, HandleInv, Handles!Publish(Caller)
    PROVE  HandleInv'
<1> DEFINE x == ptr[Caller]  a == p[Caller]  m == Handles!NewMax
           t == [Handles!Published(a) EXCEPT ![max_ptrs] = x]
<1>1. /\ handlePc[Caller] = "publish" /\ x \in Pointers /\ handle[x] = None
      /\ a \in 1..Len(arrays) /\ a \notin freed /\ n[Caller] = max_ptrs
      /\ DOMAIN arrays[a] = 0..(m - 1)
      /\ arrays \in Seq(Tables) /\ max_ptrs \in Nat /\ handle \in [Pointers -> Nat \cup {None}]
  BY DEF HandleInv, HandleTypes, CallerOK, Handles!Publish, Handles!Return, Handles!Goto
<1>2. m \in Nat /\ m > max_ptrs
  BY <1>1 DEF Handles!NewMax, Handles!HandleAssumption
<1>3. Handles!Cardinality(DOMAIN arrays[a]) = m
  <2> HIDE DEF m, a
  <2>1. 0 \in Int /\ m - 1 \in Int /\ ~(0 > m - 1) /\ m - 1 - 0 + 1 = m
    BY <1>1, <1>2
  <2>2. Cardinality(0..(m - 1)) = IF 0 > m - 1 THEN 0 ELSE m - 1 - 0 + 1
    BY <2>1, FS_Interval
  <2>3. Cardinality(0..(m - 1)) = m
    BY <2>1, <2>2
  <2> QED BY <1>1, <2>3, HandlesCardinality, Zenon
<1>4. /\ handlePc' = [handlePc EXCEPT ![Caller] = "idle"]
      /\ ptr' = [ptr EXCEPT ![Caller] = Null] /\ n' = [n EXCEPT ![Caller] = 0]
      /\ p' = [p EXCEPT ![Caller] = Null]
      /\ ptrs' = a /\ max_ptrs' = m /\ freed' = freed
      /\ arrays' = [arrays EXCEPT ![a] = t]
      /\ handle' = [handle EXCEPT ![x] = max_ptrs]
      /\ touched' = (touched \/ m < max_ptrs)
  BY <1>1, <1>3 DEF Handles!Publish, Handles!Return, Handles!Goto, Handles!Set
<1>5. arrays[a] \in [0..(m - 1) -> Handles!Cells]
  <2>1. arrays[a] \in Tables
    BY <1>1
  <2>2. PICK k \in Nat : arrays[a] \in [0..(k - 1) -> Handles!Cells]
    BY <2>1 DEF Tables
  <2>3. DOMAIN arrays[a] = 0..(k - 1)
    BY <2>2
  <2> HIDE DEF a, m
  <2> QED BY <1>1, <2>2, <2>3, Zenon
<1>6. /\ t \in [0..(m - 1) -> Handles!Cells]
      /\ \A i \in 0..(m - 1) : t[i] = IF i = max_ptrs THEN x
                                      ELSE IF i > max_ptrs THEN Null ELSE arrays[a][i]
  <2> DEFINE g == Handles!Published(a)
  <2> HIDE DEF m, a, x
  <2>1. DOMAIN g = 0..(m - 1) /\ \A i \in 0..(m - 1) :
            g[i] = IF i >= max_ptrs THEN Null ELSE arrays[a][i]
    BY <1>1 DEF Handles!Published
  <2>2. g \in [0..(m - 1) -> Handles!Cells]
    <3>1. \A i \in 0..(m - 1) : g[i] \in Handles!Cells
      BY <1>5, <2>1 DEF Handles!Cells
    <3>2. g = [i \in DOMAIN arrays[a] |-> g[i]]
      BY DEF Handles!Published
    <3> HIDE DEF g
    <3> QED BY <2>1, <3>1, <3>2
  <2>3. max_ptrs \in 0..(m - 1) /\ x \in Handles!Cells
    BY <1>1, <1>2 DEF Handles!Cells
  <2> HIDE DEF g
  <2>4. [g EXCEPT ![max_ptrs] = x] \in [0..(m - 1) -> Handles!Cells]
    BY <2>2, <2>3
  <2>5. \A i \in 0..(m - 1) : [g EXCEPT ![max_ptrs] = x][i] = IF i = max_ptrs THEN x ELSE g[i]
    BY <2>2, <2>3
  <2>6. \A i \in 0..(m - 1) : i # max_ptrs => (i >= max_ptrs <=> i > max_ptrs)
    BY <1>1, <1>2
  <2>7. t = [g EXCEPT ![max_ptrs] = x]
    BY Zenon DEF g
  <2> HIDE DEF t
  <2> QED BY <2>1, <2>4, <2>5, <2>6, <2>7
<1>7. t \in Tables
  BY <1>2, <1>6 DEF Tables
<1> HIDE DEF t, m, a, x
<1>8. /\ arrays' \in Seq(Tables) /\ Len(arrays') = Len(arrays) /\ arrays'[a] = t
  BY <1>1, <1>4, <1>7
<1>9. HandleTypes'
  <2>1. touched' = FALSE
    <3>1. ~(m < max_ptrs) /\ touched = FALSE
      BY <1>1, <1>2 DEF HandleInv, HandleTypes
    <3> QED BY <1>4, <3>1, Zenon
  <2>2. p' \in [{Caller} -> Handles!Cells \cup 1..Len(arrays)]
    BY <1>4 DEF HandleInv, HandleTypes, Handles!Cells
  <2>3. handle' \in [Pointers -> Nat \cup {None}]
    BY <1>1, <1>4
  <2>4. ptrs' \in 0..Len(arrays') /\ max_ptrs' \in Nat /\ freed' \subseteq 1..Len(arrays')
    BY <1>1, <1>2, <1>4, <1>8 DEF HandleInv, HandleTypes
  <2> QED BY <1>4, <1>8, <2>1, <2>2, <2>3, <2>4 DEF HandleInv, HandleTypes
<1>10. handlePc'[Caller] = "idle" /\ Newest' = a
  BY <1>4 DEF HandleInv, HandleTypes, Newest
<1>11. TableShape' /\ CallerOK'
  BY <1>1, <1>2, <1>4, <1>6, <1>8, <1>10 DEF TableShape, CallerOK
<1>12. TableContents'
  <2>1. \A y \in Pointers : handle'[y] = IF y = x THEN max_ptrs ELSE handle[y]
    BY <1>1, <1>4
  <2>2. \A y \in Pointers : handle[y] # None => handle[y] \in 0..(max_ptrs - 1)
    BY DEF HandleInv, TableContents
  <2>3. \A y \in Pointers : handle'[y] # None => handle'[y] \in 0..(m - 1)
    BY <1>1, <1>2, <2>1, <2>2
  <2>4. ASSUME NEW i \in 0..(m - 1)
        PROVE  /\ t[i] \in Pointers \cup {Null}
               /\ \A y \in Pointers : t[i] = y <=> handle'[y] = i
    <3>1. CASE i < max_ptrs
      <4>1. i \in 0..(max_ptrs - 1) /\ t[i] = arrays[a][i] /\ Newest = a
        BY <1>1, <1>6, <3>1 DEF Newest, a
      <4>2. /\ arrays[a][i] \in Pointers \cup {Null}
            /\ \A y \in Pointers : arrays[a][i] = y <=> handle[y] = i
        BY <1>1, <4>1 DEF HandleInv, TableContents, Holds
      <4>3. handle[x] # i
        BY <1>1 DEF Handles!HandleAssumption
      <4> QED BY <1>1, <2>1, <3>1, <4>1, <4>2, <4>3
    <3>2. CASE i = max_ptrs
      <4>1. \A y \in Pointers : handle[y] # i
        BY <1>1, <2>2, <3>2 DEF Handles!HandleAssumption
      <4> QED BY <1>1, <1>2, <1>6, <2>1, <3>2, <4>1
    <3>3. CASE i > max_ptrs
      <4>1. \A y \in Pointers : handle'[y] # i
        BY <1>1, <2>1, <2>2, <3>3 DEF Handles!HandleAssumption
      <4>2. t[i] = Null
        BY <1>1, <1>6, <3>3
      <4> QED BY <4>1, <4>2 DEF Handles!HandleAssumption
    <3> QED BY <1>1, <3>1, <3>2, <3>3
  <2> QED BY <1>4, <1>8, <1>10, <2>3, <2>4 DEF TableContents, Holds
<1> QED BY <1>9, <1>11, <1>12 DEF HandleInv

LEMMA PutKeeps ==
    ASSUME Handles!HandleAssumption, HandleInv, NEW x \in Pointers, Handles!Put(Caller, x)
    PROVE  HandleInv'
<1> DEFINE i == handle[x]
<1>1. /\ handlePc[Caller] = "idle" /\ i # None /\ i \in 0..(max_ptrs - 1) /\ max_ptrs \in Nat
  BY DEF HandleInv, HandleTypes, TableContents, Handles!Put, Handles!Goto
<1>2. /\ Handles!Inside(i) /\ Handles!Read(i) = arrays[ptrs][i] /\ Newest = ptrs
      /\ ptrs \in 1..Len(arrays)
  BY <1>1, InsideTable
<1>3. Handles!Read(i) = x
  BY <1>1, <1>2 DEF HandleInv, TableContents, Holds
<1>4. /\ handlePc' = [handlePc EXCEPT ![Caller] = "clear"]
      /\ ptr' = [ptr EXCEPT ![Caller] = x] /\ n' = [n EXCEPT ![Caller] = i]
      /\ p' = [p EXCEPT ![Caller] = x] /\ handle' = [handle EXCEPT ![x] = None]
      /\ touched' = (touched \/ ~Handles!Inside(i))
      /\ UNCHANGED <<arrays, ptrs, max_ptrs, freed>>
  BY <1>1, <1>3 DEF Handles!Put, Handles!Goto, Handles!Set, Handles!Touch
<1> HIDE DEF i
<1>5. HandleTypes'
  <2>1. touched' = FALSE
    BY <1>2, <1>4 DEF HandleInv, HandleTypes
  <2>2. p' \in [{Caller} -> Handles!Cells \cup 1..Len(arrays)]
    BY <1>4 DEF HandleInv, HandleTypes, Handles!Cells
  <2>3. handle' \in [Pointers -> Nat \cup {None}]
    BY <1>4 DEF HandleInv, HandleTypes
  <2> QED BY <1>1, <1>4, <2>1, <2>2, <2>3 DEF HandleInv, HandleTypes
<1>6. /\ handlePc'[Caller] = "clear" /\ Newest' = ptrs /\ n'[Caller] = i /\ ptr'[Caller] = x
      /\ p'[Caller] = x
  BY <1>4 DEF HandleInv, HandleTypes, Newest
<1>7. \A y \in Pointers : handle'[y] = IF y = x THEN None ELSE handle[y]
  BY <1>4 DEF HandleInv, HandleTypes
<1>8. TableShape' /\ CallerOK'
  BY <1>1, <1>4, <1>6, <1>7 DEF HandleInv, TableShape, CallerOK
<1>9. TableContents'
  <2>1. \A y \in Pointers : handle'[y] # None => handle'[y] \in 0..(max_ptrs - 1)
    BY <1>7 DEF HandleInv, TableContents
  <2>2. ASSUME NEW j \in 0..(max_ptrs - 1)
        PROVE  /\ arrays[ptrs][j] \in Pointers \cup {Null}
               /\ \A y \in Pointers : arrays[ptrs][j] = y <=> Holds(y, j)'
    <3>1. /\ arrays[ptrs][j] \in Pointers \cup {Null}
          /\ \A y \in Pointers : arrays[ptrs][j] = y <=> handle[y] = j
      BY <1>1, <1>2 DEF HandleInv, TableContents, Holds
    <3>2. \A y \in Pointers : Holds(y, j)' <=> handle[y] = j
      BY <1>1, <1>6, <1>7 DEF Holds, i, Handles!HandleAssumption
    <3> QED BY <3>1, <3>2
  <2> QED BY <1>4, <1>6, <2>1, <2>2 DEF TableContents
<1> QED BY <1>5, <1>8, <1>9 DEF HandleInv

LEMMA ClearKeeps ==
    ASSUME Handles!HandleAssumption, HandleInv, Handles!Clear(Caller)
    PROVE  HandleInv'
<1> DEFINE x == ptr[Caller]  i == n[Caller]
<1>1. /\ handlePc[Caller] = "clear" /\ i \in 0..(max_ptrs - 1) /\ max_ptrs \in Nat
      /\ x \in Pointers /\ handle[x] = None /\ p[Caller] = x
  BY DEF HandleInv, HandleTypes, CallerOK, Handles!Clear, Handles!Goto
<1>2. /\ handlePc' = [handlePc EXCEPT ![Caller] = "free"]
      /\ arrays' = Handles!Write(i, Null)
      /\ UNCHANGED <<ptrs, max_ptrs, freed, ptr, n, p, handle>>
      /\ touched' = (touched \/ ~Handles!Inside(i))
  BY DEF Handles!Clear, Handles!Goto, Handles!Touch
<1>3. Handles!Inside(i) /\ Newest = ptrs /\ ptrs \in 1..Len(arrays)
  BY <1>1, InsideTable
<1>4. /\ arrays' \in Seq(Tables) /\ Len(arrays') = Len(arrays)
      /\ DOMAIN arrays'[ptrs] = 0..(max_ptrs - 1)
      /\ \A j \in 0..(max_ptrs - 1) : arrays'[ptrs][j] = IF j = i THEN Null ELSE arrays[ptrs][j]
  BY <1>1, <1>2, WriteInTable DEF Handles!Cells
<1> HIDE DEF i
<1>5. HandleTypes'
  <2>1. touched' = FALSE
    BY <1>2, <1>3 DEF HandleInv, HandleTypes
  <2> QED BY <1>2, <1>4, <2>1 DEF HandleInv, HandleTypes
<1>6. handlePc'[Caller] = "free" /\ Newest' = ptrs
  BY <1>2 DEF HandleInv, HandleTypes, Newest
<1>7. TableShape' /\ CallerOK'
  BY <1>1, <1>2, <1>4, <1>6 DEF HandleInv, HandleTypes, TableShape, CallerOK
<1>8. TableContents'
  <2>1. ASSUME NEW j \in 0..(max_ptrs - 1)
        PROVE  /\ arrays'[ptrs][j] \in Pointers \cup {Null}
               /\ \A y \in Pointers : arrays'[ptrs][j] = y <=> handle[y] = j
    <3>1. /\ arrays[ptrs][j] \in Pointers \cup {Null}
          /\ \A y \in Pointers : arrays[ptrs][j] = y <=> (handle[y] = j \/ (i = j /\ x = y))
      BY <1>1, <1>3 DEF HandleInv, TableContents, Holds, i
    <3>2. CASE j = i
      <4>1. arrays[ptrs][j] = x
        BY <1>1, <3>1, <3>2
      <4>2. \A y \in Pointers : handle[y] # j
        <5> SUFFICES ASSUME NEW y \in Pointers, handle[y] = j PROVE FALSE
          OBVIOUS
        <5>1. y = x
          BY <3>1, <4>1
        <5> QED BY <1>1, <5>1 DEF Handles!HandleAssumption
      <4> QED BY <1>4, <3>2, <4>2 DEF Handles!HandleAssumption
    <3>3. CASE j # i
      BY <1>4, <3>1, <3>3
    <3> QED BY <3>2, <3>3
  <2> QED BY <1>2, <1>6, <2>1 DEF HandleInv, TableContents, Holds
<1> QED BY <1>5, <1>7, <1>8 DEF HandleInv

LEMMA HandlePreserved ==
    ASSUME Handles!HandleAssumption, HandleInv, Handles!Next
    PROVE  HandleInv'
BY GetKeeps, ScanKeeps, TakeKeeps, GrowKeeps, ReturnKeeps, PublishKeeps, PutKeeps, ClearKeeps
   DEF Handles!Next, Handles!Step

LEMMA HandleInvIsEnough ==
    ASSUME Handles!HandleAssumption, HandleInv
    PROVE  HandlesAreExact
<1>1. Handles!HandlesAreDistinct
  <2> SUFFICES ASSUME NEW x \in Pointers, NEW y \in Pointers, x # y, handle[x] # None,
                      handle[x] = handle[y]
               PROVE  FALSE
    BY DEF Handles!HandlesAreDistinct
  <2>1. handle[x] \in 0..(max_ptrs - 1)
    BY DEF HandleInv, TableContents
  <2>2. arrays[Newest][handle[x]] = x /\ arrays[Newest][handle[x]] = y
    BY <2>1 DEF HandleInv, TableContents, Holds
  <2> QED BY <2>2
<1>2. Handles!TypeOK
  <2>1. ASSUME NEW a \in 1..Len(arrays), NEW i \in DOMAIN arrays[a]
        PROVE  arrays[a][i] \in Handles!Cells
    <3>1. arrays[a] \in Tables
      BY DEF HandleInv, HandleTypes
    <3> QED BY <3>1 DEF Tables
  <2> QED BY <2>1 DEF HandleInv, HandleTypes, Handles!TypeOK
<1>3. ASSUME NEW i \in 0..(max_ptrs - 1), ptrs \notin freed,
             NEW held, held = {x \in Pointers : handle[x] = i},
             NEW leaving,
             leaving = {ptr[t] : t \in {u \in {Caller} : handlePc[u] = "clear" /\ n[u] = i}}
      PROVE  \/ Handles!Read(i) \in held \cup leaving
             \/ Handles!Read(i) = Null /\ held \cup leaving = {}
  <2>1. max_ptrs \in Nat /\ ptrs \in 1..Len(arrays) /\ DOMAIN arrays[ptrs] = 0..(max_ptrs - 1)
    BY <1>3 DEF HandleInv, HandleTypes, TableShape
  <2>2. handlePc[Caller] # "publish" /\ Newest = ptrs
    BY <1>3, <2>1 DEF HandleInv, CallerOK, Newest
  <2>3. /\ Handles!Read(i) = arrays[ptrs][i]
        /\ arrays[ptrs][i] \in Pointers \cup {Null}
        /\ \A x \in Pointers : arrays[ptrs][i] = x <=> Holds(x, i)
    BY <2>1, <2>2 DEF HandleInv, TableContents, Handles!Read
  <2>4. \A x \in Pointers : x \in held \cup leaving <=> Holds(x, i)
    BY <1>3 DEF Holds
  <2>5. held \cup leaving \subseteq Pointers
    BY <1>3 DEF HandleInv, CallerOK
  <2>6. CASE arrays[ptrs][i] \in Pointers
    BY <2>3, <2>4, <2>6
  <2>7. CASE arrays[ptrs][i] = Null
    BY <2>3, <2>4, <2>5, <2>7 DEF Handles!HandleAssumption
  <2> QED BY <2>3, <2>6, <2>7
<1>4. Handles!TableIsExact
  <2>1. ~touched
    BY DEF HandleInv, HandleTypes
  <2>2. ptrs \in freed => \E t \in {Caller} : handlePc[t] = "publish"
    BY DEF HandleInv, TableShape
  <2> QED BY <1>2, <1>3, <2>1, <2>2 DEF Handles!TableIsExact
<1>5. Handles!ReleaseFindsItsObject
  BY DEF HandleInv, CallerOK, Handles!ReleaseFindsItsObject
<1> QED BY <1>1, <1>4, <1>5 DEF HandlesAreExact, Handles!HandlesAreExact

\* Through searching, growing and reuse by one thread at a time, every handle is
\* of one object, the table holds exactly the objects that have a handle, no
\* memory beyond the table is used, and a release frees the object its handle
\* was given for: for any number of objects and any initial length.
THEOREM HandlesAgree == MCSpec => []HandlesAreExact
<1> USE ServicesAssumption
<1>1. MCInit => HandleInv
  BY HandleBeginning DEF MCInit
<1>2. HandleInv /\ [MCNext]_<<which, vars, pool, handles>> => HandleInv'
  <2> SUFFICES ASSUME HandleInv, [MCNext]_<<which, vars, pool, handles>> PROVE HandleInv'
    OBVIOUS
  <2>1. CASE Handles!Next
    BY <2>1, HandlePreserved
  <2>2. CASE UNCHANGED handles
    BY <2>2 DEF handles, HandleInv, HandleTypes, TableShape, TableContents, CallerOK, Newest,
                Holds, Handles!NewMax
  <2> QED BY <2>1, <2>2 DEF MCNext
<1>3. HandleInv => HandlesAreExact
  BY HandleInvIsEnough
<1> QED BY <1>1, <1>2, <1>3, PTL DEF MCSpec
=============================================================================
