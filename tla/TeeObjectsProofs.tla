--------------------------- MODULE TeeObjectsProofs ---------------------------
(***************************************************************************)
(* Proofs about TeeObjects, for any number of contexts, sessions, memory   *)
(* objects and threads: every count of references is exact, nobody refers  *)
(* to an object that was freed, and the sessions of the secure world are   *)
(* those of the driver.                                                    *)
(***************************************************************************)
EXTENDS TeeObjects, FiniteSetTheorems, TLAPS

-----------------------------------------------------------------------------
(* The inductive invariant *)

\* What a thread works on at each of its steps: it makes a session for a
\* context, invokes a command of a session, closes a session that no file
\* leads to any more, or attaches memory to a context, under tee->lock.
Idle(t) == on[t] = None /\ obj[t] = None /\ pc[t] = "idle" /\ memref[t] = None
Opening(t) ==
    /\ on[t] \in Ctxs /\ obj[t] \in Sessions
    /\ pc[t] \in {"init", "call", "secure", "release", "finish", "getfd"}
Invoking(t) ==
    /\ on[t] \in Sessions /\ obj[t] = on[t]
    /\ pc[t] \in {"init", "call", "secure", "release"}
Closing(t) ==
    /\ on[t] = None /\ obj[t] \in Sessions
    /\ pc[t] \in {"call", "secure", "free"}
Attaches(t) ==
    /\ on[t] \in Ctxs /\ obj[t] \in Shms
    /\ pc[t] \in {"attach", "attach_rpc"}

ThreadsOK ==
    /\ \A t \in Threads :
          /\ Idle(t) \/ Opening(t) \/ Invoking(t) \/ Closing(t) \/ Attaches(t)
          /\ Attaches(t) <=> lock = t
          /\ memref[t] # None =>
                pc[t] \in {"call", "secure", "release"} /\ ~Closing(t)
    /\ \A t, u \in Threads :
          t # u /\ obj[t] \in Sessions /\ obj[u] = obj[t] => Invoking(t)

\* A file that a thread uses is open, or closed and not released yet.
FilesOK ==
    /\ \A c \in Ctxs : /\ file[c] \in {"none", "open", "lost", "closed", "released"}
                       /\ file[c] = "closed" => c \notin KernelCtxs
                       /\ state[c] = "none" => file[c] = "none"
    /\ \A t \in Threads : /\ on[t] # None => file[on[t]] \in {"open", "closed"}
                          /\ memref[t] # None => file[memref[t]] \in {"open", "closed"}

SessionsOK ==
    /\ \A s \in Sessions :
          /\ file[s] \in {"none", "open", "closed", "released"}
          /\ file[s] \in {"open", "closed"} => Live(s) /\ s \in secure
          /\ s \in secure => Live(s) \/ s \in failed
          /\ state[s] = "none" => file[s] = "none" /\ s \notin secure
          /\ Live(s) => owner[s] \in Ctxs
    /\ \A t \in Threads :
          obj[t] \in Sessions =>
             /\ Live(obj[t])
             /\ Opening(t) => file[obj[t]] = "none"
             /\ Closing(t) => file[obj[t]] = "released"
             /\ pc[t] = "getfd" => obj[t] \in secure
             /\ pc[t] = "free" => obj[t] \notin secure \/ obj[t] \in failed

\* The two users memory can have.
GivenCount(m) == IF m \in given THEN 1 ELSE 0
FileCount(m) == IF HasFile(m) /\ ~Attaching(m) THEN 1 ELSE 0

ShmsOK ==
    /\ \A m \in Shms :
          /\ file[m] = "none" => owner[m] = None
          /\ file[m] \in {"releasing", "released"} => owner[m] \in Ctxs
          /\ HasFile(m) /\ owner[m] = None => lock # None /\ obj[lock] = m
          /\ shmref[m] = GivenCount(m) + FileCount(m)
          /\ Live(m) <=> shmref[m] > 0
          /\ state[m] = "none" => file[m] = "none"
    /\ \A t \in Threads :
          Attaches(t) =>
             /\ owner[obj[t]] = None
             /\ file[obj[t]] \in {"open", "lost", "closed", "oops"}
             /\ pc[t] = "attach_rpc" <=> obj[t] \in given

\* Sessions and memory that hold a reference to their context, and the context
\* they hold it to.
Counted(o) == (o \in Sessions /\ Live(o)) \/ (o \in Shms /\ HasFile(o))
Holds == [o \in Sessions \cup Shms |-> IF Counted(o) THEN owner[o] ELSE None]
Owned(c) == {o \in Sessions \cup Shms : Holds[o] = c}
Held == {o \in Sessions \cup Shms : Holds[o] # None}
LiveCtxs == {c \in Ctxs : Live(c)}
CtxFile(c) == IF HasFile(c) THEN 1 ELSE 0

Counts ==
    /\ \A c \in Ctxs : ctxref[c] = Cardinality(Owned(c)) + CtxFile(c)
    /\ \A c \in Ctxs : Live(c) <=> ctxref[c] > 0
    /\ teeref = 1 + Cardinality(LiveCtxs) + Cardinality(Held)
    /\ ctxref = [c \in Ctxs |-> ctxref[c]]

IInv == TypeOK /\ ThreadsOK /\ FilesOK /\ SessionsOK /\ ShmsOK /\ Counts

-----------------------------------------------------------------------------
(* References to contexts *)

\* What a step may do to the references to contexts: nothing, make a context,
\* close the file of one, or give a reference to an object and take it back.
FilesSame == \A c \in Ctxs : (HasFile(c) <=> HasFile(c)') /\ (Live(c) <=> Live(c)')
Same == Holds' = Holds /\ FilesSame /\ UNCHANGED <<ctxref, teeref>>
Makes(c) ==
    /\ Holds' = Holds /\ state[c] = "none" /\ Live(c)' /\ HasFile(c)'
    /\ \A d \in Ctxs \ {c} : (HasFile(d) <=> HasFile(d)') /\ (Live(d) <=> Live(d)')
    /\ ctxref' = [ctxref EXCEPT ![c] = 1] /\ teeref' = teeref + 1
Ends(c) ==
    /\ Holds' = Holds /\ HasFile(c) /\ ~HasFile(c)'
    /\ \A d \in Ctxs \ {c} : (HasFile(d) <=> HasFile(d)') /\ (Live(d) <=> Live(d)')
    /\ ctxref' = [ctxref EXCEPT ![c] = @ - 1]
    /\ teeref' = IF ctxref[c] = 1 THEN teeref - 1 ELSE teeref
    /\ Live(c)' <=> Live(c) /\ ctxref[c] # 1
Joins(o, c) ==
    /\ Holds[o] = None /\ Holds' = [Holds EXCEPT ![o] = c]
    /\ FilesSame /\ HasFile(c)
    /\ ctxref' = [ctxref EXCEPT ![c] = @ + 1] /\ teeref' = teeref + 1
Leaves(o, c) ==
    /\ Holds[o] = c /\ Holds' = [Holds EXCEPT ![o] = None]
    /\ \A d \in Ctxs : HasFile(d) <=> HasFile(d)'
    /\ \A d \in Ctxs \ {c} : Live(d) <=> Live(d)'
    /\ ctxref' = [ctxref EXCEPT ![c] = @ - 1]
    /\ teeref' = IF ctxref[c] = 1 THEN teeref - 2 ELSE teeref - 1
    /\ Live(c)' <=> Live(c) /\ ctxref[c] # 1

LEMMA OwnedIsFinite ==
    ASSUME NEW c
    PROVE  /\ IsFiniteSet(Owned(c)) /\ IsFiniteSet(Held)
           /\ Cardinality(Owned(c)) \in Nat /\ Cardinality(Held) \in Nat
<1>1. IsFiniteSet(Sessions \cup Shms)
  BY FS_Union, TeeObjectsAssumption DEF TeeObjectsAssumption
<1>2. IsFiniteSet(Owned(c)) /\ IsFiniteSet(Held)
  BY <1>1, FS_Subset DEF Owned, Held
<1> QED
  BY <1>2, FS_CardinalityType

\* An object that gets a context is one more that has it.
LEMMA OneMore ==
    ASSUME NEW o \in Sessions \cup Shms, NEW c \in Ctxs,
           Holds[o] = None, Holds' = [Holds EXCEPT ![o] = c]
    PROVE  /\ Cardinality(Owned(c))' = Cardinality(Owned(c)) + 1
           /\ Cardinality(Held)' = Cardinality(Held) + 1
           /\ \A d \in Ctxs \ {c} : Owned(d)' = Owned(d)
<1>0. DOMAIN Holds = Sessions \cup Shms
  BY DEF Holds
<1> HIDE DEF Holds
<1> USE TeeObjectsAssumption DEF TeeObjectsAssumption, Owned, Held
<1>1. Owned(c)' = Owned(c) \cup {o} /\ o \notin Owned(c)
  BY <1>0
<1>2. Held' = Held \cup {o} /\ o \notin Held
  BY <1>0
<1>3. \A d \in Ctxs \ {c} : Owned(d)' = Owned(d)
  BY <1>0
<1> HIDE TeeObjectsAssumption DEF TeeObjectsAssumption, Owned, Held
<1>4. IsFiniteSet(Owned(c)) /\ IsFiniteSet(Held)
  BY OwnedIsFinite
<1>5. Cardinality(Owned(c) \cup {o}) = Cardinality(Owned(c)) + 1
  BY <1>1, <1>4, FS_AddElement
<1>6. Cardinality(Held \cup {o}) = Cardinality(Held) + 1
  BY <1>2, <1>4, FS_AddElement
<1> QED
  BY <1>1, <1>2, <1>3, <1>5, <1>6

\* One that gives its reference back is one less.
LEMMA OneLess ==
    ASSUME NEW o \in Sessions \cup Shms, NEW c \in Ctxs,
           Holds[o] = c, Holds' = [Holds EXCEPT ![o] = None]
    PROVE  /\ Cardinality(Owned(c))' = Cardinality(Owned(c)) - 1
           /\ Cardinality(Owned(c)) > 0
           /\ Cardinality(Held)' = Cardinality(Held) - 1
           /\ \A d \in Ctxs \ {c} : Owned(d)' = Owned(d)
<1>0. DOMAIN Holds = Sessions \cup Shms
  BY DEF Holds
<1> USE TeeObjectsAssumption DEF TeeObjectsAssumption, Owned, Held
<1>1. Owned(c)' = Owned(c) \ {o} /\ o \in Owned(c)
  BY <1>0
<1>2. Held' = Held \ {o} /\ o \in Held
  BY <1>0
<1>3. \A d \in Ctxs \ {c} : Owned(d)' = Owned(d)
  BY <1>0
<1> HIDE TeeObjectsAssumption DEF TeeObjectsAssumption, Owned, Held
<1>4. /\ IsFiniteSet(Owned(c)) /\ IsFiniteSet(Held)
      /\ Cardinality(Owned(c)) \in Nat
  BY OwnedIsFinite
<1>5. Cardinality(Owned(c) \ {o}) = Cardinality(Owned(c)) - 1
  BY <1>1, <1>4, FS_RemoveElement
<1>6. Cardinality(Held \ {o}) = Cardinality(Held) - 1
  BY <1>2, <1>4, FS_RemoveElement
<1>7. Cardinality(Owned(c)) > 0
  BY <1>1, <1>4, FS_EmptySet
<1> QED
  BY <1>1, <1>2, <1>3, <1>5, <1>6, <1>7

\* The same for the contexts that exist.
LEMMA LiveCtxsCount ==
    ASSUME NEW S \in SUBSET Ctxs, NEW c \in Ctxs
    PROVE  /\ Cardinality(S) \in Nat
           /\ c \notin S => Cardinality(S \cup {c}) = Cardinality(S) + 1
           /\ c \in S => Cardinality(S \ {c}) = Cardinality(S) - 1 /\ Cardinality(S) > 0
<1>1. IsFiniteSet(S)
  BY FS_Subset, TeeObjectsAssumption DEF TeeObjectsAssumption
<1>2. Cardinality(S) \in Nat /\ Cardinality(S \ {c}) \in Nat
  BY <1>1, FS_CardinalityType, FS_RemoveElement
<1>3. c \notin S => Cardinality(S \cup {c}) = Cardinality(S) + 1
  BY <1>1, FS_AddElement
<1>4. c \in S => Cardinality(S \ {c}) = Cardinality(S) - 1
  BY <1>1, FS_RemoveElement
<1> QED
  BY <1>2, <1>3, <1>4

LEMMA CountsFollow ==
    ASSUME Counts,
           \/ Same
           \/ \E c \in Ctxs : Makes(c) \/ Ends(c)
           \/ \E o \in Sessions \cup Shms, c \in Ctxs : Joins(o, c) \/ Leaves(o, c)
    PROVE  Counts'
<1> USE DEF Counts, CtxFile
<1>0. /\ DOMAIN Holds = Sessions \cup Shms
      /\ \A c : Cardinality(Owned(c)) \in Nat
      /\ Cardinality(Held) \in Nat
      /\ LiveCtxs \in SUBSET Ctxs
      /\ Cardinality(LiveCtxs) \in Nat
  BY OwnedIsFinite, FS_CardinalityType, FS_Subset, TeeObjectsAssumption
     DEF Holds, LiveCtxs, TeeObjectsAssumption
<1>1. CASE Same
  <2>1. LiveCtxs' = LiveCtxs
    BY <1>1 DEF Same, FilesSame, LiveCtxs
  <2>2. Held' = Held /\ \A c : Owned(c)' = Owned(c)
    BY <1>1 DEF Same, Held, Owned
  <2> QED
    BY <1>1, <2>1, <2>2 DEF Same, FilesSame
<1>2. ASSUME NEW c \in Ctxs, Makes(c) PROVE Counts'
  <2>1. ~Live(c)
    BY <1>2 DEF Makes, Live
  <2>2. LiveCtxs' = LiveCtxs \cup {c} /\ c \notin LiveCtxs
    BY <1>2, <2>1 DEF Makes, LiveCtxs
  <2>3. ctxref[c] = 0 /\ Cardinality(Owned(c)) = 0
    BY <1>0, <2>1
  <2>4. Held' = Held /\ \A d : Owned(d)' = Owned(d)
    BY <1>2 DEF Makes, Held, Owned
  <2> QED
    BY <1>0, <1>2, <2>2, <2>3, <2>4, LiveCtxsCount DEF Makes
<1>3. ASSUME NEW c \in Ctxs, Ends(c) PROVE Counts'
  <2>1. ctxref[c] > 0 /\ Live(c)
    BY <1>0, <1>3 DEF Ends
  <2>2. LiveCtxs' = IF ctxref[c] = 1 THEN LiveCtxs \ {c} ELSE LiveCtxs
    BY <1>3, <2>1 DEF Ends, LiveCtxs
  <2>3. c \in LiveCtxs
    BY <2>1 DEF LiveCtxs
  <2>4. Held' = Held /\ \A d : Owned(d)' = Owned(d)
    BY <1>3 DEF Ends, Held, Owned
  <2> QED
    BY <1>0, <1>3, <2>1, <2>2, <2>3, <2>4, LiveCtxsCount DEF Ends
<1>4. ASSUME NEW o \in Sessions \cup Shms, NEW c \in Ctxs, Joins(o, c) PROVE Counts'
  <2>1. ctxref[c] > 0 /\ Live(c)
    BY <1>0, <1>4 DEF Joins
  <2>2. LiveCtxs' = LiveCtxs
    BY <1>4 DEF Joins, FilesSame, LiveCtxs
  <2>3. /\ Cardinality(Owned(c))' = Cardinality(Owned(c)) + 1
        /\ Cardinality(Held)' = Cardinality(Held) + 1
        /\ \A d \in Ctxs \ {c} : Owned(d)' = Owned(d)
    BY <1>4, OneMore DEF Joins
  <2> QED
    BY <1>0, <1>4, <2>1, <2>2, <2>3 DEF Joins, FilesSame
<1>5. ASSUME NEW o \in Sessions \cup Shms, NEW c \in Ctxs, Leaves(o, c) PROVE Counts'
  <2>1. /\ Cardinality(Owned(c))' = Cardinality(Owned(c)) - 1
        /\ Cardinality(Owned(c)) > 0
        /\ Cardinality(Held)' = Cardinality(Held) - 1
        /\ \A d \in Ctxs \ {c} : Owned(d)' = Owned(d)
    BY <1>5, OneLess DEF Leaves
  <2>2. ctxref[c] > 0 /\ Live(c)
    BY <1>0, <2>1
  <2>3. LiveCtxs' = IF ctxref[c] = 1 THEN LiveCtxs \ {c} ELSE LiveCtxs
    BY <1>5, <2>2 DEF Leaves, LiveCtxs
  <2>4. c \in LiveCtxs
    BY <2>2 DEF LiveCtxs
  <2>5. Cardinality(LiveCtxs)' = IF ctxref[c] = 1 THEN Cardinality(LiveCtxs) - 1
                                                 ELSE Cardinality(LiveCtxs)
    BY <1>0, <2>3, <2>4, LiveCtxsCount
  <2>6. teeref' = 1 + Cardinality(LiveCtxs)' + Cardinality(Held)'
    BY <1>0, <1>5, <2>1, <2>5 DEF Leaves
  <2> QED
    BY <1>0, <1>5, <2>1, <2>2, <2>6 DEF Leaves
<1> QED
  BY <1>1, <1>2, <1>3, <1>4, <1>5

-----------------------------------------------------------------------------
(* Every step keeps each part of the invariant *)

LEMMA ThreadsKept == ASSUME IInv, [Next]_vars PROVE ThreadsOK'
<1> USE TeeObjectsAssumption DEF TeeObjectsAssumption, Objects, objects, calls, vars,
       Free, Live, Goto, Enter, Leave,
       IInv, TypeOK, Stages, Places, ThreadsOK, Idle, Opening, Invoking, Closing,
       Attaches, SessionsOK, ShmsOK
<1>1. ASSUME NEW c \in Ctxs, CtxOpen(c) PROVE ThreadsOK'
  BY <1>1 DEF CtxOpen, TeeContextCreate
<1>2. ASSUME NEW c \in Ctxs, InitializeContext(c) PROVE ThreadsOK'
  BY <1>2, SMTT(30) DEF InitializeContext, TeeContextCreate
<1>3. ASSUME NEW c \in Ctxs, CtxRelease(c) PROVE ThreadsOK'
  BY <1>3 DEF CtxRelease, TeeContextDestroy, Closed, InUse
<1>4. ASSUME NEW c \in Ctxs, FinalizeContext(c) PROVE ThreadsOK'
  BY <1>4 DEF FinalizeContext, TeeContextDestroy, InUse
<1>5. ASSUME NEW o \in Objects, Close(o) PROVE ThreadsOK'
  BY <1>5 DEF Close
<1>6. ASSUME NEW t \in Threads, NEW c \in Ctxs, NEW s \in Sessions, CreateSession(t, c, s)
     PROVE  ThreadsOK'
  BY <1>6 DEF CreateSession, AddRefs
<1>7. ASSUME NEW t \in Threads, NEW s \in Sessions, InvokeCommand(t, s)
     PROVE  ThreadsOK'
  BY <1>7 DEF InvokeCommand
<1>8. ASSUME NEW t \in Threads, NEW s \in Sessions, SessionRelease(t, s)
     PROVE  ThreadsOK'
  BY <1>8 DEF SessionRelease, Closed, InUse
<1>9. ASSUME NEW t \in Threads, InitCmd(t) PROVE ThreadsOK'
  BY <1>9, SMTT(30) DEF InitCmd, TeeShmGet, Kind
<1>10. ASSUME NEW t \in Threads, TzCall(t) PROVE ThreadsOK'
  BY <1>10 DEF TzCall, Kind
<1>11. ASSUME NEW t \in Threads, TzOpen(t) PROVE ThreadsOK'
  BY <1>11 DEF TzOpen, Kind
<1>12. ASSUME NEW t \in Threads, TzInvoke(t) PROVE ThreadsOK'
  BY <1>12 DEF TzInvoke, Kind
<1>13. ASSUME NEW t \in Threads, TzClose(t) PROVE ThreadsOK'
  BY <1>13 DEF TzClose, Kind
<1>14. ASSUME NEW t \in Threads, ReleaseCmd(t) PROVE ThreadsOK'
  BY <1>14, SMTT(30) DEF ReleaseCmd, Kind, TeeShmPut
<1>15. ASSUME NEW t \in Threads, FinishOpen(t) PROVE ThreadsOK'
  BY <1>15 DEF FinishOpen, DropRefs
<1>16. ASSUME NEW t \in Threads, Handle(t) PROVE ThreadsOK'
  BY <1>16, SMTT(30) DEF Handle
<1>17. ASSUME NEW t \in Threads, FreeSession(t) PROVE ThreadsOK'
  BY <1>17 DEF FreeSession, DropRefs
<1>18. ASSUME NEW t \in Threads, NEW c \in Ctxs, NEW m \in Shms, AllocIo(t, c, m)
     PROVE  ThreadsOK'
  BY <1>18 DEF AllocIo, TeeShmAlloc, Export
<1>19. ASSUME NEW t \in Threads, AttachIo(t) PROVE ThreadsOK'
  BY <1>19 DEF AttachIo, AddRefs
<1>20. ASSUME NEW t \in Threads, NEW m \in Shms, RpcAlloc(t, m) PROVE ThreadsOK'
  BY <1>20 DEF RpcAlloc, TeeShmAlloc
<1>21. ASSUME NEW t \in Threads, NEW c \in Ctxs, NEW m \in Shms, FdForRpc(t, c, m)
     PROVE  ThreadsOK'
  BY <1>21, SMTT(30) DEF FdForRpc, Export
<1>22. ASSUME NEW t \in Threads, AttachRpc(t) PROVE ThreadsOK'
  BY <1>22, SMTT(30) DEF AttachRpc, AddRefs
<1>23. ASSUME NEW t \in Threads, NEW m \in Shms, RpcFree(t, m) PROVE ThreadsOK'
  BY <1>23 DEF RpcFree, TeeShmFree, LastUser
<1>24. ASSUME NEW m \in Shms, ShmRelease(m) PROVE ThreadsOK'
  BY <1>24 DEF ShmRelease, Closed, InUse
<1>25. ASSUME NEW m \in Shms, FreeIo(m) PROVE ThreadsOK'
  BY <1>25, SMTT(30) DEF FreeIo, DropRefs, TeeShmFree, LastUser
<1>26. ASSUME UNCHANGED vars PROVE ThreadsOK'
  BY <1>26
<1> QED
  BY <1>1, <1>2, <1>3, <1>4, <1>5, <1>6, <1>7, <1>8, <1>9, <1>10, <1>11, <1>12,
     <1>13, <1>14, <1>15, <1>16, <1>17, <1>18, <1>19, <1>20, <1>21, <1>22, <1>23, <1>24, <1>25, <1>26
        DEF Next, Work, GetFd, GetUuid

LEMMA FilesKept == ASSUME IInv, [Next]_vars PROVE FilesOK'
<1> USE TeeObjectsAssumption DEF TeeObjectsAssumption, Objects, objects, calls, vars,
       Free, Live, Goto, Enter, Leave,
       IInv, TypeOK, Stages, Places, ThreadsOK, Idle, Opening, Invoking, Closing,
       Attaches, FilesOK, ShmsOK, SessionsOK, HasFile
<1>1. ASSUME NEW c \in Ctxs, CtxOpen(c) PROVE FilesOK'
  BY <1>1 DEF CtxOpen, TeeContextCreate
<1>2. ASSUME NEW c \in Ctxs, InitializeContext(c) PROVE FilesOK'
  BY <1>2, SMTT(30) DEF InitializeContext, TeeContextCreate
<1>3. ASSUME NEW c \in Ctxs, CtxRelease(c) PROVE FilesOK'
  BY <1>3 DEF CtxRelease, TeeContextDestroy, Closed, InUse
<1>4. ASSUME NEW c \in Ctxs, FinalizeContext(c) PROVE FilesOK'
  BY <1>4 DEF FinalizeContext, TeeContextDestroy, InUse
<1>5. ASSUME NEW o \in Objects, Close(o) PROVE FilesOK'
  BY <1>5 DEF Close
<1>6. ASSUME NEW t \in Threads, NEW c \in Ctxs, NEW s \in Sessions, CreateSession(t, c, s)
     PROVE  FilesOK'
  BY <1>6 DEF CreateSession, AddRefs
<1>7. ASSUME NEW t \in Threads, NEW s \in Sessions, InvokeCommand(t, s) PROVE FilesOK'
  BY <1>7 DEF InvokeCommand
<1>8. ASSUME NEW t \in Threads, NEW s \in Sessions, SessionRelease(t, s)
     PROVE  FilesOK'
  BY <1>8 DEF SessionRelease, Closed, InUse
<1>9. ASSUME NEW t \in Threads, InitCmd(t) PROVE FilesOK'
  BY <1>9, SMTT(30) DEF InitCmd, TeeShmGet, Kind
<1>10. ASSUME NEW t \in Threads, TzCall(t) PROVE FilesOK'
  BY <1>10 DEF TzCall, Kind
<1>11. ASSUME NEW t \in Threads, TzOpen(t) PROVE FilesOK'
  BY <1>11 DEF TzOpen, Kind
<1>12. ASSUME NEW t \in Threads, TzInvoke(t) PROVE FilesOK'
  BY <1>12 DEF TzInvoke, Kind
<1>13. ASSUME NEW t \in Threads, TzClose(t) PROVE FilesOK'
  BY <1>13 DEF TzClose, Kind
<1>14. ASSUME NEW t \in Threads, ReleaseCmd(t) PROVE FilesOK'
  BY <1>14, SMTT(30) DEF ReleaseCmd, Kind, TeeShmPut
<1>15. ASSUME NEW t \in Threads, FinishOpen(t) PROVE FilesOK'
  BY <1>15 DEF FinishOpen, DropRefs
<1>16. ASSUME NEW t \in Threads, Handle(t) PROVE FilesOK'
  BY <1>16, SMTT(30) DEF Handle
<1>17. ASSUME NEW t \in Threads, FreeSession(t) PROVE FilesOK'
  BY <1>17 DEF FreeSession, DropRefs
<1>18. ASSUME NEW t \in Threads, NEW c \in Ctxs, NEW m \in Shms, AllocIo(t, c, m)
     PROVE  FilesOK'
  <2>1. /\ \A d \in Ctxs : file'[d] = file[d] /\ state'[d] = state[d]
        /\ memref' = memref /\ file[m] \notin {"open", "closed"}
        /\ \A x \in Objects \ {m} : file'[x] = file[x]
        /\ on' = [on EXCEPT ![t] = c] /\ file[c] = "open" /\ c # m
    BY <1>18 DEF AllocIo, TeeShmAlloc, Export
  <2>2. \A d \in Ctxs : /\ file'[d] \in {"none", "open", "lost", "closed", "released"}
                        /\ file'[d] = "closed" => d \notin KernelCtxs
                        /\ state'[d] = "none" => file'[d] = "none"
    BY <2>1
  <2>3. ASSUME NEW u \in Threads
       PROVE  /\ on'[u] # None => file'[on'[u]] \in {"open", "closed"}
              /\ memref'[u] # None => file'[memref'[u]] \in {"open", "closed"}
    BY <2>1
  <2> QED
    BY <2>2, <2>3
<1>19. ASSUME NEW t \in Threads, AttachIo(t) PROVE FilesOK'
  BY <1>19 DEF AttachIo, AddRefs
<1>20. ASSUME NEW t \in Threads, NEW m \in Shms, RpcAlloc(t, m) PROVE FilesOK'
  BY <1>20 DEF RpcAlloc, TeeShmAlloc
<1>21. ASSUME NEW t \in Threads, NEW c \in Ctxs, NEW m \in Shms, FdForRpc(t, c, m)
     PROVE  FilesOK'
  BY <1>21, SMTT(30) DEF FdForRpc, Export
<1>22. ASSUME NEW t \in Threads, AttachRpc(t) PROVE FilesOK'
  BY <1>22, SMTT(30) DEF AttachRpc, AddRefs
<1>23. ASSUME NEW t \in Threads, NEW m \in Shms, RpcFree(t, m) PROVE FilesOK'
  BY <1>23 DEF RpcFree, TeeShmFree, LastUser
<1>24. ASSUME NEW m \in Shms, ShmRelease(m) PROVE FilesOK'
  BY <1>24 DEF ShmRelease, Closed, InUse
<1>25. ASSUME NEW m \in Shms, FreeIo(m) PROVE FilesOK'
  BY <1>25, SMTT(30) DEF FreeIo, DropRefs, TeeShmFree, LastUser
<1>26. ASSUME UNCHANGED vars PROVE FilesOK'
  BY <1>26
<1> QED
  BY <1>1, <1>2, <1>3, <1>4, <1>5, <1>6, <1>7, <1>8, <1>9, <1>10, <1>11, <1>12,
     <1>13, <1>14, <1>15, <1>16, <1>17, <1>18, <1>19, <1>20, <1>21, <1>22, <1>23, <1>24, <1>25, <1>26
        DEF Next, Work, GetFd, GetUuid

LEMMA SessionsKept == ASSUME IInv, [Next]_vars PROVE SessionsOK'
<1> USE TeeObjectsAssumption DEF TeeObjectsAssumption, Objects, objects, calls, vars,
       Free, Live, Goto, Enter, Leave,
       IInv, TypeOK, Stages, Places, ThreadsOK, Idle, Opening, Invoking, Closing,
       Attaches, FilesOK, SessionsOK
<1>1. ASSUME NEW c \in Ctxs, CtxOpen(c) PROVE SessionsOK'
  BY <1>1 DEF CtxOpen, TeeContextCreate
<1>2. ASSUME NEW c \in Ctxs, InitializeContext(c) PROVE SessionsOK'
  BY <1>2, SMTT(30) DEF InitializeContext, TeeContextCreate
<1>3. ASSUME NEW c \in Ctxs, CtxRelease(c) PROVE SessionsOK'
  BY <1>3 DEF CtxRelease, TeeContextDestroy, Closed, InUse
<1>4. ASSUME NEW c \in Ctxs, FinalizeContext(c) PROVE SessionsOK'
  BY <1>4 DEF FinalizeContext, TeeContextDestroy, InUse
<1>5. ASSUME NEW o \in Objects, Close(o) PROVE SessionsOK'
  BY <1>5 DEF Close
<1>6. ASSUME NEW t \in Threads, NEW c \in Ctxs, NEW s \in Sessions, CreateSession(t, c, s)
     PROVE  SessionsOK'
  BY <1>6 DEF CreateSession, AddRefs
<1>7. ASSUME NEW t \in Threads, NEW s \in Sessions, InvokeCommand(t, s)
     PROVE  SessionsOK'
  BY <1>7 DEF InvokeCommand
<1>8. ASSUME NEW t \in Threads, NEW s \in Sessions, SessionRelease(t, s)
     PROVE  SessionsOK'
  BY <1>8 DEF SessionRelease, Closed, InUse
<1>9. ASSUME NEW t \in Threads, InitCmd(t) PROVE SessionsOK'
  BY <1>9, SMTT(30) DEF InitCmd, TeeShmGet, Kind
<1>10. ASSUME NEW t \in Threads, TzCall(t) PROVE SessionsOK'
  BY <1>10 DEF TzCall, Kind
<1>11. ASSUME NEW t \in Threads, TzOpen(t) PROVE SessionsOK'
  BY <1>11 DEF TzOpen, Kind
<1>12. ASSUME NEW t \in Threads, TzInvoke(t) PROVE SessionsOK'
  BY <1>12 DEF TzInvoke, Kind
<1>13. ASSUME NEW t \in Threads, TzClose(t) PROVE SessionsOK'
  BY <1>13 DEF TzClose, Kind
<1>14. ASSUME NEW t \in Threads, ReleaseCmd(t) PROVE SessionsOK'
  BY <1>14, SMTT(30) DEF ReleaseCmd, Kind, TeeShmPut
<1>15. ASSUME NEW t \in Threads, FinishOpen(t) PROVE SessionsOK'
  <2>1. CASE obj[t] \in secure
    BY <1>15, <2>1 DEF FinishOpen
  <2>2. CASE obj[t] \notin secure
    BY <1>15, <2>2 DEF FinishOpen, DropRefs
  <2> QED
    BY <2>1, <2>2
<1>16. ASSUME NEW t \in Threads, Handle(t) PROVE SessionsOK'
  BY <1>16, SMTT(30) DEF Handle
<1>17. ASSUME NEW t \in Threads, FreeSession(t) PROVE SessionsOK'
  BY <1>17 DEF FreeSession, DropRefs
<1>18. ASSUME NEW t \in Threads, NEW c \in Ctxs, NEW m \in Shms, AllocIo(t, c, m)
     PROVE  SessionsOK'
  BY <1>18 DEF AllocIo, TeeShmAlloc, Export
<1>19. ASSUME NEW t \in Threads, AttachIo(t) PROVE SessionsOK'
  BY <1>19 DEF AttachIo, AddRefs
<1>20. ASSUME NEW t \in Threads, NEW m \in Shms, RpcAlloc(t, m) PROVE SessionsOK'
  BY <1>20 DEF RpcAlloc, TeeShmAlloc
<1>21. ASSUME NEW t \in Threads, NEW c \in Ctxs, NEW m \in Shms, FdForRpc(t, c, m)
     PROVE  SessionsOK'
  BY <1>21, SMTT(30) DEF FdForRpc, Export
<1>22. ASSUME NEW t \in Threads, AttachRpc(t) PROVE SessionsOK'
  BY <1>22, SMTT(30) DEF AttachRpc, AddRefs
<1>23. ASSUME NEW t \in Threads, NEW m \in Shms, RpcFree(t, m) PROVE SessionsOK'
  BY <1>23 DEF RpcFree, TeeShmFree, LastUser
<1>24. ASSUME NEW m \in Shms, ShmRelease(m) PROVE SessionsOK'
  BY <1>24 DEF ShmRelease, Closed, InUse
<1>25. ASSUME NEW m \in Shms, FreeIo(m) PROVE SessionsOK'
  BY <1>25, SMTT(30) DEF FreeIo, DropRefs, TeeShmFree, LastUser
<1>26. ASSUME UNCHANGED vars PROVE SessionsOK'
  BY <1>26
<1> QED
  BY <1>1, <1>2, <1>3, <1>4, <1>5, <1>6, <1>7, <1>8, <1>9, <1>10, <1>11, <1>12,
     <1>13, <1>14, <1>15, <1>16, <1>17, <1>18, <1>19, <1>20, <1>21, <1>22, <1>23, <1>24, <1>25, <1>26
        DEF Next, Work, GetFd, GetUuid

LEMMA ShmsKept == ASSUME IInv, [Next]_vars PROVE ShmsOK'
<1> USE TeeObjectsAssumption DEF TeeObjectsAssumption, Objects, objects, calls, vars,
       Free, Live, Goto, Enter, Leave,
       IInv, TypeOK, Stages, Places, ThreadsOK, Idle, Opening, Invoking, Closing,
       Attaches, FilesOK, ShmsOK, HasFile, Attaching, GivenCount, FileCount
<1>1. ASSUME NEW c \in Ctxs, CtxOpen(c) PROVE ShmsOK'
  BY <1>1 DEF CtxOpen, TeeContextCreate
<1>2. ASSUME NEW c \in Ctxs, InitializeContext(c) PROVE ShmsOK'
  BY <1>2, SMTT(30) DEF InitializeContext, TeeContextCreate
<1>3. ASSUME NEW c \in Ctxs, CtxRelease(c) PROVE ShmsOK'
  BY <1>3 DEF CtxRelease, TeeContextDestroy, Closed, InUse
<1>4. ASSUME NEW c \in Ctxs, FinalizeContext(c) PROVE ShmsOK'
  BY <1>4 DEF FinalizeContext, TeeContextDestroy, InUse
<1>5. ASSUME NEW o \in Objects, Close(o) PROVE ShmsOK'
  BY <1>5 DEF Close
<1>6. ASSUME NEW t \in Threads, NEW c \in Ctxs, NEW s \in Sessions, CreateSession(t, c, s)
     PROVE  ShmsOK'
  BY <1>6 DEF CreateSession, AddRefs
<1>7. ASSUME NEW t \in Threads, NEW s \in Sessions, InvokeCommand(t, s) PROVE ShmsOK'
  BY <1>7 DEF InvokeCommand
<1>8. ASSUME NEW t \in Threads, NEW s \in Sessions, SessionRelease(t, s) PROVE ShmsOK'
  BY <1>8 DEF SessionRelease, Closed, InUse
<1>9. ASSUME NEW t \in Threads, InitCmd(t) PROVE ShmsOK'
  BY <1>9, SMTT(30) DEF InitCmd, TeeShmGet, Kind
<1>10. ASSUME NEW t \in Threads, TzCall(t) PROVE ShmsOK'
  BY <1>10 DEF TzCall, Kind
<1>11. ASSUME NEW t \in Threads, TzOpen(t) PROVE ShmsOK'
  BY <1>11 DEF TzOpen, Kind
<1>12. ASSUME NEW t \in Threads, TzInvoke(t) PROVE ShmsOK'
  BY <1>12 DEF TzInvoke, Kind
<1>13. ASSUME NEW t \in Threads, TzClose(t) PROVE ShmsOK'
  BY <1>13 DEF TzClose, Kind
<1>14. ASSUME NEW t \in Threads, ReleaseCmd(t) PROVE ShmsOK'
  BY <1>14, SMTT(30) DEF ReleaseCmd, Kind, TeeShmPut
<1>15. ASSUME NEW t \in Threads, FinishOpen(t) PROVE ShmsOK'
  <2>1. CASE obj[t] \in secure
    BY <1>15, <2>1 DEF FinishOpen
  <2>2. CASE obj[t] \notin secure
    <3>1. obj[t] \in Sessions /\ pc[t] = "finish"
      BY <1>15 DEF FinishOpen
    <3>2. /\ \A m \in Shms : state'[m] = state[m]
          /\ UNCHANGED <<file, owner, shmref, lock, given>>
      BY <1>15, <2>2, <3>1 DEF FinishOpen, DropRefs
    <3>3. pc' = [pc EXCEPT ![t] = "idle"] /\ obj' = [obj EXCEPT ![t] = None]
      BY <1>15, <2>2 DEF FinishOpen
    <3> QED
      BY <3>1, <3>2, <3>3
  <2> QED
    BY <2>1, <2>2
<1>16. ASSUME NEW t \in Threads, Handle(t) PROVE ShmsOK'
  BY <1>16, SMTT(30) DEF Handle
<1>17. ASSUME NEW t \in Threads, FreeSession(t) PROVE ShmsOK'
  BY <1>17 DEF FreeSession, DropRefs
<1>18. ASSUME NEW t \in Threads, NEW c \in Ctxs, NEW m \in Shms, AllocIo(t, c, m)
     PROVE  ShmsOK'
  BY <1>18 DEF AllocIo, TeeShmAlloc, Export
<1>19. ASSUME NEW t \in Threads, AttachIo(t) PROVE ShmsOK'
  BY <1>19 DEF AttachIo, AddRefs
<1>20. ASSUME NEW t \in Threads, NEW m \in Shms, RpcAlloc(t, m) PROVE ShmsOK'
  BY <1>20 DEF RpcAlloc, TeeShmAlloc
<1>21. ASSUME NEW t \in Threads, NEW c \in Ctxs, NEW m \in Shms, FdForRpc(t, c, m)
     PROVE  ShmsOK'
  BY <1>21, SMTT(30) DEF FdForRpc, Export
<1>22. ASSUME NEW t \in Threads, AttachRpc(t) PROVE ShmsOK'
  BY <1>22, SMTT(30) DEF AttachRpc, AddRefs
<1>23. ASSUME NEW t \in Threads, NEW m \in Shms, RpcFree(t, m) PROVE ShmsOK'
  BY <1>23 DEF RpcFree, TeeShmFree, LastUser
<1>24. ASSUME NEW m \in Shms, ShmRelease(m) PROVE ShmsOK'
  BY <1>24 DEF ShmRelease, Closed, InUse
<1>25. ASSUME NEW m \in Shms, FreeIo(m) PROVE ShmsOK'
  BY <1>25, SMTT(30) DEF FreeIo, DropRefs, TeeShmFree, LastUser
<1>26. ASSUME UNCHANGED vars PROVE ShmsOK'
  BY <1>26
<1> QED
  BY <1>1, <1>2, <1>3, <1>4, <1>5, <1>6, <1>7, <1>8, <1>9, <1>10, <1>11, <1>12,
     <1>13, <1>14, <1>15, <1>16, <1>17, <1>18, <1>19, <1>20, <1>21, <1>22, <1>23, <1>24, <1>25, <1>26
        DEF Next, Work, GetFd, GetUuid

-----------------------------------------------------------------------------
(* What each step does to the references *)

Effect ==
    \/ Same
    \/ \E c \in Ctxs : Makes(c) \/ Ends(c)
    \/ \E o \in Sessions \cup Shms, c \in Ctxs : Joins(o, c) \/ Leaves(o, c)

\* Only o changes what it holds.
LEMMA OneMoves ==
    ASSUME NEW o \in Sessions \cup Shms, NEW c,
           \A x \in (Sessions \cup Shms) \ {o} :
               (Counted(x) <=> Counted(x)') /\ owner'[x] = owner[x],
           c = IF Counted(o)' THEN owner'[o] ELSE None
    PROVE  Holds' = [Holds EXCEPT ![o] = c]
BY DEF Holds

LEMMA DropsType ==
    ASSUME state \in [Objects -> {"none", "live", "freed"}], NEW o, NEW over,
           DropRefs(o, over)
    PROVE  state' \in [Objects -> {"none", "live", "freed"}]
BY DEF DropRefs

LEMMA JoinEffect ==
    ASSUME IInv, NEW o \in Sessions \cup Shms, NEW c \in Ctxs,
           \A x \in (Sessions \cup Shms) \ {o} :
               (Counted(x) <=> Counted(x)') /\ owner'[x] = owner[x],
           Counted(o)', owner'[o] = c, ~Counted(o) \/ owner[o] = None,
           HasFile(c), AddRefs(c),
           \A d \in Ctxs : file'[d] = file[d] /\ state'[d] = state[d]
    PROVE  Joins(o, c)
<1>1. Holds' = [Holds EXCEPT ![o] = c]
  BY OneMoves
<1>2. Holds[o] = None
  BY DEF Holds
<1> QED
  BY <1>1, <1>2 DEF Joins, FilesSame, AddRefs, HasFile, Live

LEMMA LeaveEffect ==
    ASSUME IInv, NEW o \in Sessions \cup Shms, NEW c \in Ctxs, NEW over \in BOOLEAN,
           \A x \in (Sessions \cup Shms) \ {o} :
               (Counted(x) <=> Counted(x)') /\ owner'[x] = owner[x],
           Counted(o), ~Counted(o)', owner[o] = c, DropRefs(o, over),
           \A d \in Ctxs : file'[d] = file[d]
    PROVE  Leaves(o, c)
<1> USE TeeObjectsAssumption DEF TeeObjectsAssumption, Objects
<1>1. Holds' = [Holds EXCEPT ![o] = None]
  BY OneMoves
<1>2. Holds[o] = c
  BY DEF Holds
<1>3. \A d \in Ctxs \ {c} : Live(d) <=> Live(d)'
  BY DEF DropRefs, Live
<1>4. Live(c)' <=> Live(c) /\ ctxref[c] # 1
  BY DEF DropRefs, Live
<1> QED
  BY <1>1, <1>2, <1>3, <1>4 DEF Leaves, DropRefs, HasFile

LEMMA StepsHaveEffects == ASSUME IInv, [Next]_vars PROVE Effect
<1> USE TeeObjectsAssumption DEF TeeObjectsAssumption, Objects, objects, calls, vars,
       Free, Live, Goto, Enter, Leave,
       IInv, TypeOK, Stages, Places, ThreadsOK, Idle, Opening, Invoking, Closing,
       Attaches,
       FilesOK, SessionsOK, ShmsOK, Counted, HasFile
<1>1. ASSUME NEW c \in Ctxs, CtxOpen(c) PROVE Makes(c)
  BY <1>1 DEF CtxOpen, TeeContextCreate, Makes, Holds
<1>2. ASSUME NEW c \in Ctxs, InitializeContext(c) PROVE Makes(c)
  BY <1>2 DEF InitializeContext, TeeContextCreate, Makes, Holds
<1>3. ASSUME NEW c \in Ctxs, CtxRelease(c) PROVE Ends(c)
  BY <1>3 DEF CtxRelease, TeeContextDestroy, Closed, InUse, Ends, Holds
<1>4. ASSUME NEW c \in Ctxs, FinalizeContext(c) PROVE Ends(c)
  BY <1>4 DEF FinalizeContext, TeeContextDestroy, InUse, Ends, Holds
<1>5. ASSUME NEW o \in Objects, Close(o) PROVE Same
  BY <1>5 DEF Close, Same, FilesSame, Holds
<1>6. ASSUME NEW t \in Threads, NEW c \in Ctxs, NEW s \in Sessions, CreateSession(t, c, s)
     PROVE  Joins(s, c)
  <2>1. Counted(s)' /\ ~Counted(s) /\ owner'[s] = c /\ AddRefs(c)
    BY <1>6 DEF CreateSession
  <2>2. \A x \in (Sessions \cup Shms) \ {s} :
            (Counted(x) <=> Counted(x)') /\ owner'[x] = owner[x]
    BY <1>6 DEF CreateSession
  <2>3. HasFile(c) /\ \A d \in Ctxs : file'[d] = file[d] /\ state'[d] = state[d]
    BY <1>6 DEF CreateSession
  <2> HIDE DEF IInv, Counted, HasFile, Live, Free
  <2> QED
    BY <2>1, <2>2, <2>3, JoinEffect
<1>7. ASSUME NEW t \in Threads, NEW s \in Sessions, InvokeCommand(t, s) PROVE Same
  BY <1>7 DEF InvokeCommand, Same, FilesSame, Holds
<1>8. ASSUME NEW t \in Threads, NEW s \in Sessions, SessionRelease(t, s) PROVE Same
  BY <1>8 DEF SessionRelease, Closed, InUse, Same, FilesSame, Holds
<1>9. ASSUME NEW t \in Threads, InitCmd(t) PROVE Same
  BY <1>9 DEF InitCmd, TeeShmGet, Kind, Same, FilesSame, Holds
<1>10. ASSUME NEW t \in Threads, TzCall(t) PROVE Same
  BY <1>10 DEF TzCall, Kind, Same, FilesSame, Holds
<1>11. ASSUME NEW t \in Threads, TzOpen(t) PROVE Same
  BY <1>11 DEF TzOpen, Kind, Same, FilesSame, Holds
<1>12. ASSUME NEW t \in Threads, TzInvoke(t) PROVE Same
  BY <1>12 DEF TzInvoke, Kind, Same, FilesSame, Holds
<1>13. ASSUME NEW t \in Threads, TzClose(t) PROVE Same
  BY <1>13 DEF TzClose, Kind, Same, FilesSame, Holds
<1>14. ASSUME NEW t \in Threads, ReleaseCmd(t) PROVE Same
  BY <1>14 DEF ReleaseCmd, Kind, TeeShmPut, Same, FilesSame, Holds
<1>15. ASSUME NEW t \in Threads, FinishOpen(t)
     PROVE  Same \/ \E o \in Sessions \cup Shms, c \in Ctxs : Leaves(o, c)
  <2>1. CASE obj[t] \in secure
    BY <1>15, <2>1 DEF FinishOpen, Same, FilesSame, Holds
  <2>2. CASE obj[t] \notin secure
    <3> PICK s \in Sessions, c \in Ctxs : s = obj[t] /\ owner[s] = c /\ Counted(s)
      BY <1>15, <2>2 DEF FinishOpen
    <3>1. DropRefs(s, TRUE) /\ \A d \in Ctxs : file'[d] = file[d]
      BY <1>15, <2>2 DEF FinishOpen
    <3>2. ~Counted(s)'
      BY <3>1 DEF DropRefs
    <3>3. \A x \in (Sessions \cup Shms) \ {s} :
              (Counted(x) <=> Counted(x)') /\ owner'[x] = owner[x]
      BY <1>15, <2>2, <3>1 DEF FinishOpen, DropRefs
    <3>4. Leaves(s, c)
      BY <3>1, <3>2, <3>3, LeaveEffect
    <3> QED
      BY <3>4
  <2> QED
    BY <2>1, <2>2
<1>16. ASSUME NEW t \in Threads, Handle(t) PROVE Same
  BY <1>16 DEF Handle, Same, FilesSame, Holds
<1>17. ASSUME NEW t \in Threads, FreeSession(t)
     PROVE  \E o \in Sessions \cup Shms, c \in Ctxs : Leaves(o, c)
  <2> PICK s \in Sessions, c \in Ctxs : s = obj[t] /\ owner[s] = c /\ Counted(s)
    BY <1>17 DEF FreeSession
  <2>1. DropRefs(s, TRUE) /\ \A d \in Ctxs : file'[d] = file[d]
    BY <1>17 DEF FreeSession
  <2>2. ~Counted(s)'
    BY <2>1 DEF DropRefs
  <2>3. \A x \in (Sessions \cup Shms) \ {s} :
            (Counted(x) <=> Counted(x)') /\ owner'[x] = owner[x]
    BY <1>17, <2>1 DEF FreeSession, DropRefs
  <2>4. Leaves(s, c)
    BY <2>1, <2>2, <2>3, LeaveEffect
  <2> QED
    BY <2>4
<1>18. ASSUME NEW t \in Threads, NEW c \in Ctxs, NEW m \in Shms, AllocIo(t, c, m)
     PROVE  Same
  BY <1>18 DEF AllocIo, TeeShmAlloc, Export, Same, FilesSame, Holds
<1>19. ASSUME NEW t \in Threads, AttachIo(t)
     PROVE  \E o \in Sessions \cup Shms, c \in Ctxs : Joins(o, c)
  <2> PICK m \in Shms, c \in Ctxs : m = obj[t] /\ c = on[t]
    BY <1>19 DEF AttachIo
  <2>1. /\ HasFile(c) /\ Counted(m)' /\ owner[m] = None /\ owner'[m] = c
        /\ AddRefs(c) /\ \A d \in Ctxs : file'[d] = file[d] /\ state'[d] = state[d]
    BY <1>19 DEF AttachIo
  <2>2. \A x \in (Sessions \cup Shms) \ {m} :
            (Counted(x) <=> Counted(x)') /\ owner'[x] = owner[x]
    BY <1>19, <2>1 DEF AttachIo
  <2>3. Joins(m, c)
    BY <2>1, <2>2, JoinEffect
  <2> QED
    BY <2>3
<1>20. ASSUME NEW t \in Threads, NEW m \in Shms, RpcAlloc(t, m) PROVE Same
  BY <1>20 DEF RpcAlloc, TeeShmAlloc, Same, FilesSame, Holds
<1>21. ASSUME NEW t \in Threads, NEW c \in Ctxs, NEW m \in Shms, FdForRpc(t, c, m)
     PROVE  Same
  BY <1>21 DEF FdForRpc, Export, Same, FilesSame, Holds
<1>22. ASSUME NEW t \in Threads, AttachRpc(t)
     PROVE  \E o \in Sessions \cup Shms, c \in Ctxs : Joins(o, c)
  <2> PICK m \in Shms, c \in Ctxs : m = obj[t] /\ c = on[t]
    BY <1>22 DEF AttachRpc
  <2>1. /\ HasFile(c) /\ Counted(m)' /\ owner[m] = None /\ owner'[m] = c
        /\ AddRefs(c) /\ \A d \in Ctxs : file'[d] = file[d] /\ state'[d] = state[d]
    BY <1>22 DEF AttachRpc
  <2>2. \A x \in (Sessions \cup Shms) \ {m} :
            (Counted(x) <=> Counted(x)') /\ owner'[x] = owner[x]
    BY <1>22, <2>1 DEF AttachRpc
  <2>3. Joins(m, c)
    BY <2>1, <2>2, JoinEffect
  <2> QED
    BY <2>3
<1>23. ASSUME NEW t \in Threads, NEW m \in Shms, RpcFree(t, m) PROVE Same
  BY <1>23 DEF RpcFree, TeeShmFree, LastUser, Same, FilesSame, Holds
<1>24. ASSUME NEW m \in Shms, ShmRelease(m) PROVE Same
  BY <1>24 DEF ShmRelease, Closed, InUse, Same, FilesSame, Holds
<1>25. ASSUME NEW m \in Shms, FreeIo(m)
     PROVE  \E o \in Sessions \cup Shms, c \in Ctxs : Leaves(o, c)
  <2> PICK c \in Ctxs : owner[m] = c /\ Counted(m)
    BY <1>25 DEF FreeIo
  <2>1. DropRefs(m, LastUser(m)) /\ \A d \in Ctxs : file'[d] = file[d]
    BY <1>25 DEF FreeIo, LastUser
  <2>2. ~Counted(m)'
    BY <1>25 DEF FreeIo
  <2>3. \A x \in (Sessions \cup Shms) \ {m} :
            (Counted(x) <=> Counted(x)') /\ owner'[x] = owner[x]
    BY <1>25, <2>1 DEF FreeIo, DropRefs
  <2>4. LastUser(m) \in BOOLEAN
    BY DEF LastUser
  <2>5. Leaves(m, c)
    BY <2>1, <2>2, <2>3, <2>4, LeaveEffect
  <2> QED
    BY <2>5
<1>26. ASSUME UNCHANGED vars PROVE Same
  BY <1>26 DEF Same, FilesSame, Holds
<1> HIDE DEF IInv, TypeOK, ThreadsOK, FilesOK, SessionsOK, ShmsOK, vars, objects, calls
<1> QED
  BY <1>1, <1>2, <1>3, <1>4, <1>5, <1>6, <1>7, <1>8, <1>9, <1>10, <1>11, <1>12,
     <1>13, <1>14, <1>15, <1>16, <1>17, <1>18, <1>19, <1>20, <1>21, <1>22, <1>23, <1>24, <1>25, <1>26
        DEF Next, Work, GetFd, GetUuid, Effect

LEMMA TypesKept == ASSUME IInv, [Next]_vars, Counts' PROVE TypeOK'
<1> DEFINE Rest ==
        /\ state \in [Objects -> {"none", "live", "freed"}]
        /\ file \in [Objects -> Stages]
        /\ owner \in [Sessions \cup Shms -> Ctxs \cup {None}]
        /\ shmref \in [Shms -> Nat]
        /\ lock \in Threads \cup {None}
        /\ given \subseteq Shms /\ secure \subseteq Sessions /\ failed \subseteq Sessions
        /\ pc \in [Threads -> Places]
        /\ on \in [Threads -> Ctxs \cup Sessions \cup {None}]
        /\ obj \in [Threads -> Sessions \cup Shms \cup {None}]
        /\ memref \in [Threads -> Shms \cup {None}]
<1>0. ctxref' \in [Ctxs -> Nat] /\ teeref' \in Nat
  <2>1. IsFiniteSet(Sessions \cup Shms) /\ IsFiniteSet(Ctxs)
    BY FS_Union, TeeObjectsAssumption DEF TeeObjectsAssumption
  <2>2. /\ \A c \in Ctxs : IsFiniteSet(Owned(c)') /\ Cardinality(Owned(c)') \in Nat
        /\ IsFiniteSet(Held') /\ Cardinality(Held') \in Nat
    BY <2>1, FS_Subset, FS_CardinalityType DEF Owned, Held
  <2>3. Cardinality(LiveCtxs') \in Nat
    BY <2>1, FS_Subset, FS_CardinalityType DEF LiveCtxs
  <2> QED
    BY <2>2, <2>3 DEF Counts, CtxFile
<1> USE TeeObjectsAssumption DEF TeeObjectsAssumption, Objects, objects, calls, vars,
       Free, Live, Goto, Enter, Leave,
       IInv, TypeOK, Stages, Places, ThreadsOK, Idle, Opening, Invoking, Closing,
       Attaches,
       SessionsOK, ShmsOK, GivenCount, FileCount, HasFile
<1>1. ASSUME NEW c \in Ctxs, CtxOpen(c) PROVE Rest'
  BY <1>1 DEF CtxOpen, TeeContextCreate
<1>2. ASSUME NEW c \in Ctxs, InitializeContext(c) PROVE Rest'
  BY <1>2, SMTT(30) DEF InitializeContext, TeeContextCreate
<1>3. ASSUME NEW c \in Ctxs, CtxRelease(c) PROVE Rest'
  BY <1>3 DEF CtxRelease, TeeContextDestroy, Closed, InUse
<1>4. ASSUME NEW c \in Ctxs, FinalizeContext(c) PROVE Rest'
  BY <1>4 DEF FinalizeContext, TeeContextDestroy, InUse
<1>5. ASSUME NEW o \in Objects, Close(o) PROVE Rest'
  BY <1>5 DEF Close
<1>6. ASSUME NEW t \in Threads, NEW c \in Ctxs, NEW s \in Sessions, CreateSession(t, c, s)
     PROVE  Rest'
  BY <1>6 DEF CreateSession, AddRefs
<1>7. ASSUME NEW t \in Threads, NEW s \in Sessions, InvokeCommand(t, s) PROVE Rest'
  BY <1>7 DEF InvokeCommand
<1>8. ASSUME NEW t \in Threads, NEW s \in Sessions, SessionRelease(t, s) PROVE Rest'
  BY <1>8 DEF SessionRelease, Closed, InUse
<1>9. ASSUME NEW t \in Threads, InitCmd(t) PROVE Rest'
  BY <1>9, SMTT(30) DEF InitCmd, TeeShmGet, Kind
<1>10. ASSUME NEW t \in Threads, TzCall(t) PROVE Rest'
  BY <1>10 DEF TzCall, Kind
<1>11. ASSUME NEW t \in Threads, TzOpen(t) PROVE Rest'
  BY <1>11 DEF TzOpen, Kind
<1>12. ASSUME NEW t \in Threads, TzInvoke(t) PROVE Rest'
  BY <1>12 DEF TzInvoke, Kind
<1>13. ASSUME NEW t \in Threads, TzClose(t) PROVE Rest'
  BY <1>13 DEF TzClose, Kind
<1>14. ASSUME NEW t \in Threads, ReleaseCmd(t) PROVE Rest'
  <2>1. UNCHANGED <<objects, lock, given, secure, failed>>
    BY <1>14 DEF ReleaseCmd
  <2>2. pc' \in [Threads -> Places]
    BY <1>14 DEF ReleaseCmd
  <2>4. memref' \in [Threads -> Shms \cup {None}]
    <3>1. UNCHANGED memref \/ memref' = [memref EXCEPT ![t] = None]
      BY <1>14 DEF ReleaseCmd, TeeShmPut
    <3> QED
      BY <3>1
  <2>3. /\ on' \in [Threads -> Ctxs \cup Sessions \cup {None}]
        /\ obj' \in [Threads -> Sessions \cup Shms \cup {None}]
    BY <1>14 DEF ReleaseCmd
  <2> QED
    BY <2>1, <2>2, <2>3, <2>4
<1>15. ASSUME NEW t \in Threads, FinishOpen(t) PROVE Rest'
  <2>1. CASE obj[t] \in secure
    BY <1>15, <2>1 DEF FinishOpen
  <2>2. CASE obj[t] \notin secure
    <3>1. state' \in [Objects -> {"none", "live", "freed"}]
      <4>1. DropRefs(obj[t], TRUE)
        BY <1>15, <2>2 DEF FinishOpen
      <4> QED
        BY <4>1, DropsType
    <3>2. /\ pc' \in [Threads -> Places]
          /\ on' \in [Threads -> Ctxs \cup Sessions \cup {None}]
          /\ obj' \in [Threads -> Sessions \cup Shms \cup {None}]
          /\ UNCHANGED <<file, owner, shmref, lock, given, secure, failed, memref>>
      BY <1>15, <2>2 DEF FinishOpen
    <3> QED
      BY <3>1, <3>2
  <2> QED
    BY <2>1, <2>2
<1>16. ASSUME NEW t \in Threads, Handle(t) PROVE Rest'
  <2>1. /\ state' \in [Objects -> {"none", "live", "freed"}]
        /\ file' \in [Objects -> Stages]
    BY <1>16, SMTT(30) DEF Handle
  <2>2. /\ owner' \in [Sessions \cup Shms -> Ctxs \cup {None}]
        /\ shmref' \in [Shms -> Nat]
        /\ lock' \in Threads \cup {None}
        /\ given' \subseteq Shms /\ secure' \subseteq Sessions /\ failed' \subseteq Sessions
    BY <1>16, SMTT(30) DEF Handle
  <2>3. /\ pc' \in [Threads -> Places]
        /\ on' \in [Threads -> Ctxs \cup Sessions \cup {None}]
        /\ obj' \in [Threads -> Sessions \cup Shms \cup {None}]
        /\ memref' \in [Threads -> Shms \cup {None}]
    <3>1. memref' = memref /\ pc' \in [Threads -> Places]
      BY <1>16, SMTT(30) DEF Handle
    <3>2. on' \in [Threads -> Ctxs \cup Sessions \cup {None}]
      BY <1>16, SMTT(30) DEF Handle
    <3>3. obj' \in [Threads -> Sessions \cup Shms \cup {None}]
      BY <1>16, SMTT(30) DEF Handle
    <3> QED
      BY <3>1, <3>2, <3>3
  <2> QED
    BY <2>1, <2>2, <2>3
<1>17. ASSUME NEW t \in Threads, FreeSession(t) PROVE Rest'
  BY <1>17 DEF FreeSession, DropRefs
<1>18. ASSUME NEW t \in Threads, NEW c \in Ctxs, NEW m \in Shms, AllocIo(t, c, m)
     PROVE  Rest'
  <2>1. /\ state' \in [Objects -> {"none", "live", "freed"}]
        /\ file' \in [Objects -> Stages]
    BY <1>18, SMTT(60) DEF AllocIo, TeeShmAlloc, Export
  <2>2. /\ owner' \in [Sessions \cup Shms -> Ctxs \cup {None}]
        /\ shmref' \in [Shms -> Nat]
        /\ lock' \in Threads \cup {None}
        /\ given' \subseteq Shms /\ secure' \subseteq Sessions /\ failed' \subseteq Sessions
    BY <1>18 DEF AllocIo, TeeShmAlloc, Export
  <2>3. /\ pc' \in [Threads -> Places]
        /\ on' \in [Threads -> Ctxs \cup Sessions \cup {None}]
        /\ obj' \in [Threads -> Sessions \cup Shms \cup {None}]
        /\ memref' \in [Threads -> Shms \cup {None}]
    BY <1>18 DEF AllocIo, TeeShmAlloc, Export
  <2> QED
    BY <2>1, <2>2, <2>3
<1>19. ASSUME NEW t \in Threads, AttachIo(t) PROVE Rest'
  BY <1>19 DEF AttachIo, AddRefs
<1>20. ASSUME NEW t \in Threads, NEW m \in Shms, RpcAlloc(t, m) PROVE Rest'
  BY <1>20 DEF RpcAlloc, TeeShmAlloc
<1>21. ASSUME NEW t \in Threads, NEW c \in Ctxs, NEW m \in Shms, FdForRpc(t, c, m)
     PROVE  Rest'
  BY <1>21, SMTT(30) DEF FdForRpc, Export
<1>22. ASSUME NEW t \in Threads, AttachRpc(t) PROVE Rest'
  BY <1>22, SMTT(30) DEF AttachRpc, AddRefs
<1>23. ASSUME NEW t \in Threads, NEW m \in Shms, RpcFree(t, m) PROVE Rest'
  BY <1>23 DEF RpcFree, TeeShmFree, LastUser
<1>24. ASSUME NEW m \in Shms, ShmRelease(m) PROVE Rest'
  BY <1>24 DEF ShmRelease, Closed, InUse
<1>25. ASSUME NEW m \in Shms, FreeIo(m) PROVE Rest'
  <2>1. /\ state' \in [Objects -> {"none", "live", "freed"}]
        /\ file' \in [Objects -> Stages]
    BY <1>25, SMTT(30) DEF FreeIo, DropRefs, TeeShmFree, LastUser, Attaching
  <2>2. /\ owner' \in [Sessions \cup Shms -> Ctxs \cup {None}]
        /\ shmref' \in [Shms -> Nat]
        /\ lock' \in Threads \cup {None}
        /\ given' \subseteq Shms /\ secure' \subseteq Sessions /\ failed' \subseteq Sessions
    BY <1>25, SMTT(30) DEF FreeIo, DropRefs, TeeShmFree, LastUser, Attaching
  <2>3. /\ pc' \in [Threads -> Places]
        /\ on' \in [Threads -> Ctxs \cup Sessions \cup {None}]
        /\ obj' \in [Threads -> Sessions \cup Shms \cup {None}]
        /\ memref' \in [Threads -> Shms \cup {None}]
    BY <1>25, SMTT(30) DEF FreeIo, DropRefs, TeeShmFree, LastUser, Attaching
  <2> QED
    BY <2>1, <2>2, <2>3
<1>26. ASSUME UNCHANGED vars PROVE Rest'
  BY <1>26
<1>27. Rest'
  <2> HIDE DEF Rest, IInv, TypeOK, ThreadsOK, SessionsOK, ShmsOK, vars, objects, calls
  <2> QED
    BY <1>1, <1>2, <1>3, <1>4, <1>5, <1>6, <1>7, <1>8, <1>9, <1>10, <1>11, <1>12,
       <1>13, <1>14, <1>15, <1>16, <1>17, <1>18, <1>19, <1>20, <1>21, <1>22, <1>23, <1>24, <1>25, <1>26
          DEF Next, Work, GetFd, GetUuid
<1> QED
  BY <1>0, <1>27

-----------------------------------------------------------------------------
(* The theorems *)

LEMMA Beginning == Init => IInv
<1> SUFFICES ASSUME Init PROVE IInv
  OBVIOUS
<1> USE TeeObjectsAssumption DEF TeeObjectsAssumption, Init, Objects, Live, HasFile
<1>1. TypeOK
  BY DEF TypeOK, Stages, Places
<1>2. ThreadsOK /\ FilesOK /\ SessionsOK
  BY DEF ThreadsOK, Idle, Opening, Invoking, Closing, Attaches, FilesOK, SessionsOK
<1>3. ShmsOK
  BY DEF ShmsOK, Attaches, GivenCount, FileCount, Attaching
<1>4. Counts
  <2>1. Held = {} /\ LiveCtxs = {} /\ \A c \in Ctxs : Owned(c) = {}
    BY DEF Held, LiveCtxs, Owned, Holds, Counted
  <2> QED
    BY <2>1, FS_EmptySet DEF Counts, CtxFile
<1> QED
  BY <1>1, <1>2, <1>3, <1>4 DEF IInv

LEMMA Preserved == IInv /\ [Next]_vars => IInv'
<1> SUFFICES ASSUME IInv, [Next]_vars PROVE IInv'
  OBVIOUS
<1>1. Counts'
  BY StepsHaveEffects, CountsFollow DEF Effect, IInv
<1> QED
  BY <1>1, TypesKept, ThreadsKept, FilesKept, SessionsKept, ShmsKept DEF IInv

\* The invariant is inductive.
THEOREM Inductive == Spec => []IInv
BY Beginning, Preserved, PTL DEF Spec

\* An object that refers to a context keeps it alive.
LEMMA HoldersKeepAlive ==
    ASSUME IInv, NEW c \in Ctxs
    PROVE  /\ HasFile(c) => Live(c)
           /\ \A o \in Owned(c) : Live(c)
<1>1. IsFiniteSet(Owned(c)) /\ Cardinality(Owned(c)) \in Nat
  BY OwnedIsFinite
<1>2. Owned(c) # {} => Cardinality(Owned(c)) > 0
  BY <1>1, FS_EmptySet
<1> QED
  BY <1>1, <1>2 DEF IInv, Counts, CtxFile

LEMMA MembersAreOwned ==
    ASSUME IInv
    PROVE  /\ \A c \in Ctxs : Members(c) = Owned(c)
           /\ UNION {Members(c) : c \in Ctxs} = Held
<1> USE TeeObjectsAssumption DEF TeeObjectsAssumption, IInv, TypeOK
<1>1. ASSUME NEW c \in Ctxs PROVE Members(c) = Owned(c)
  BY <1>1 DEF Members, Owned, Holds, Counted
<1>2. \A o \in Held : Holds[o] \in Ctxs /\ o \in Owned(Holds[o])
  BY DEF Held, Holds, Owned
<1>3. \A c \in Ctxs : Owned(c) \subseteq Held
  BY DEF Owned, Held
<1> QED
  BY <1>1, <1>2, <1>3


\* The users of memory are at most the secure world and a file.
LEMMA UsersAreCounted ==
    ASSUME NEW m \in Shms
    PROVE  Cardinality(ShmUsers(m)) = GivenCount(m) + FileCount(m)
<1> DEFINE a == "secure world"
           b == "file"
<1>0. /\ Cardinality({a}) = 1 /\ IsFiniteSet({a}) /\ Cardinality({b}) = 1
      /\ Cardinality({}) = 0
  BY FS_Singleton, FS_EmptySet
<1>1. CASE m \in given /\ HasFile(m) /\ ~Attaching(m)
  <2>1. ShmUsers(m) = {a} \cup {b} /\ b \notin {a}
    BY <1>1 DEF ShmUsers
  <2>2. Cardinality({a} \cup {b}) = 1 + 1
    BY <1>0, <2>1, FS_AddElement
  <2>3. Cardinality(ShmUsers(m)) = 1 + 1
    BY <2>1, <2>2, Zenon
  <2> QED
    BY <1>1, <2>3 DEF GivenCount, FileCount
<1>2. CASE m \in given /\ ~(HasFile(m) /\ ~Attaching(m))
  <2>1. ShmUsers(m) = {a}
    BY <1>2 DEF ShmUsers
  <2>2. Cardinality(ShmUsers(m)) = 1
    BY <1>0, <2>1, Zenon
  <2> QED
    BY <1>2, <2>2 DEF GivenCount, FileCount
<1>3. CASE m \notin given /\ HasFile(m) /\ ~Attaching(m)
  <2>1. ShmUsers(m) = {b}
    BY <1>3 DEF ShmUsers
  <2>2. Cardinality(ShmUsers(m)) = 1
    BY <1>0, <2>1, Zenon
  <2> QED
    BY <1>3, <2>2 DEF GivenCount, FileCount
<1>4. CASE m \notin given /\ ~(HasFile(m) /\ ~Attaching(m))
  <2>1. ShmUsers(m) = {}
    BY <1>4 DEF ShmUsers
  <2>2. Cardinality(ShmUsers(m)) = 0
    BY <1>0, <2>1, Zenon
  <2> QED
    BY <1>4, <2>2 DEF GivenCount, FileCount
<1> QED
  BY <1>1, <1>2, <1>3, <1>4

\* Every reference count is the number of those who refer to the object, over
\* any sequence of opens, closes, commands, failures and deaths of clients:
\* nothing is freed early and nothing is left over (tee_context.c,
\* tee_session.c, tee_shm.c).
THEOREM CountsAreExact == Spec => []RefsAreExact
<1>1. ASSUME IInv PROVE RefsAreExact
  <2> USE <1>1 DEF IInv
  <2>1. \A c \in Ctxs : /\ ctxref[c] = Cardinality(Members(c)) + (IF HasFile(c) THEN 1 ELSE 0)
                        /\ Live(c) <=> ctxref[c] > 0
    BY MembersAreOwned DEF Counts, CtxFile
  <2>2. ASSUME NEW m \in Shms PROVE shmref[m] = Cardinality(ShmUsers(m))
    BY <2>2, UsersAreCounted DEF ShmsOK
  <2>3. \A m \in Shms : Live(m) <=> shmref[m] > 0
    BY DEF ShmsOK
  <2>4. {c \in Ctxs : Live(c)} = LiveCtxs
    BY DEF LiveCtxs
  <2>5. teeref = 1 + Cardinality({c \in Ctxs : Live(c)})
                   + Cardinality(UNION {Members(c) : c \in Ctxs})
    BY <2>4, MembersAreOwned DEF Counts
  <2> QED
    BY <2>1, <2>2, <2>3, <2>5 DEF RefsAreExact
<1> QED
  BY <1>1, Inductive, PTL

\* Nobody refers to an object that was freed: no file, no session or memory,
\* no thread in a call, and not the secure world.
THEOREM ReferencesAreLive == Spec => []NoDanglingReference
<1>1. ASSUME IInv PROVE NoDanglingReference
  <2> USE <1>1, TeeObjectsAssumption DEF TeeObjectsAssumption, IInv, Objects
  <2>1. ASSUME NEW m \in Shms, m \in given \/ HasFile(m) PROVE Live(m)
    <3>1. m \in given => GivenCount(m) + FileCount(m) > 0
      BY DEF GivenCount, FileCount
    <3>2. Attaching(m) => m \in given
      BY DEF Attaching, ThreadsOK, Idle, Opening, Invoking, Closing, Attaches, ShmsOK
    <3>3. HasFile(m) /\ ~Attaching(m) => GivenCount(m) + FileCount(m) > 0
      BY DEF GivenCount, FileCount
    <3> QED
      BY <2>1, <3>1, <3>2, <3>3 DEF ShmsOK
  <2>2. \A s \in Sessions : HasFile(s) => Live(s)
    BY DEF SessionsOK, HasFile
  <2>3. \A c \in Ctxs : HasFile(c) => Live(c)
    BY HoldersKeepAlive
  <2>4. \A o \in Objects : HasFile(o) => Live(o)
    BY <2>1, <2>2, <2>3
  <2>5. \A c \in Ctxs : \A o \in Members(c) : Live(c)
    BY HoldersKeepAlive, MembersAreOwned
  <2>6. ASSUME NEW t \in Threads PROVE /\ on[t] # None => Live(on[t])
                                       /\ memref[t] # None => Live(memref[t])
    BY <2>4, <2>6 DEF FilesOK, TypeOK, HasFile
  <2>7. ASSUME NEW t \in Threads PROVE obj[t] # None => Live(obj[t])
    BY <2>4, <2>7 DEF SessionsOK, ShmsOK, ThreadsOK, Idle, Opening, Invoking,
                      Closing, Attaches, TypeOK, HasFile
  <2>8. \A m \in given : Live(m)
    BY <2>1 DEF TypeOK
  <2> HIDE <1>1 DEF IInv
  <2> QED
    BY <2>4, <2>5, <2>6, <2>7, <2>8 DEF NoDanglingReference
<1> QED
  BY <1>1, Inductive, PTL

\* The sessions of the secure world are those of the driver, but for the ones
\* whose close reported an error; a session a client can use is open there.
THEOREM SessionsMatch == Spec => []SecureSessionsHaveOwners
<1>1. IInv => SecureSessionsHaveOwners
  BY DEF IInv, SessionsOK, SecureSessionsHaveOwners, TypeOK
<1> QED
  BY <1>1, Inductive, PTL

=============================================================================
