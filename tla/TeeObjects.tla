----------------------------- MODULE TeeObjects -----------------------------
(***************************************************************************)
(* The objects of the driver core and their lifetimes: contexts             *)
(* (core/tee_context.c), sessions (core/tee_session.c with the commands of  *)
(* armtz/tee_tz_drv.c) and shared memory (core/tee_shm.c), behind the file  *)
(* operations of core/tee_core.c and the kernel interface of                *)
(* core/tee_kernel_api.c.                                                   *)
(*                                                                         *)
(* The kernel keeps an open file while a call on it is in progress and      *)
(* calls its release handler once, afterwards.  A kernel client's handle is *)
(* treated alike: it is not given back during a call that uses it.  A step  *)
(* is a section under tee->lock or what lies between two of them; only the  *)
(* sections that install a descriptor are cut where it becomes visible.     *)
(* Objects are never used again, so a stale reference shows.                *)
(***************************************************************************)
EXTENDS Integers, FiniteSets

CONSTANTS
    Ctxs, KernelCtxs,   \* contexts; those made by TEEC_InitializeContext
    Sessions,
    Shms,               \* shared memory objects
    Threads,
    None

ASSUME TeeObjectsAssumption ==
    /\ KernelCtxs \subseteq Ctxs
    /\ Ctxs \cap Sessions = {} /\ Ctxs \cap Shms = {} /\ Sessions \cap Shms = {}
    /\ None \notin Ctxs \cup Sessions \cup Shms \cup Threads
    /\ IsFiniteSet(Ctxs) /\ IsFiniteSet(Sessions) /\ IsFiniteSet(Shms)

Objects == Ctxs \cup Sessions \cup Shms

VARIABLES
    state,      \* whether the object exists
    file,       \* the stage of the file or handle through which a client has it
    owner,      \* sess->ctx, shm->ctx
    ctxref,     \* ctx->refcount
    shmref,     \* users of the memory: shm->ns.ref, or the count of its pool chunk
    teeref,     \* tee->refcount
    lock,       \* holder of tee->lock over more than a step
    given,      \* shared memory the secure world has allocated and not freed
    secure,     \* sessions that are open in the secure world
    failed,     \* sessions whose close reported an error, which nobody reads
    pc,         \* per thread: where it stands,
    on,         \* the file its call was made on,
    obj,        \* the session or the memory it works on,
    memref      \* the memory its command refers to (dma_buf_get)

objects == <<state, file, owner, ctxref, shmref, teeref>>
calls == <<pc, on, obj, memref>>
vars == <<objects, lock, given, secure, failed, calls>>

Init ==
    /\ state = [o \in Objects |-> "none"]
    /\ file = [o \in Objects |-> "none"]
    /\ owner = [o \in Sessions \cup Shms |-> None]
    /\ ctxref = [c \in Ctxs |-> 0]
    /\ shmref = [m \in Shms |-> 0]
    /\ teeref = 1               \* __tee_get in tz_tee_probe
    /\ lock = None
    /\ given = {} /\ secure = {} /\ failed = {}
    /\ pc = [t \in Threads |-> "idle"]
    /\ on = [t \in Threads |-> None]
    /\ obj = [t \in Threads |-> None]
    /\ memref = [t \in Threads |-> None]

Free == lock = None
Live(o) == state[o] = "live"

Goto(t, l) == pc' = [pc EXCEPT ![t] = l]
Enter(t, o, x, l) ==
    /\ pc[t] = "idle"
    /\ Goto(t, l)
    /\ on' = [on EXCEPT ![t] = o]
    /\ obj' = [obj EXCEPT ![t] = x]
Leave(t) ==
    /\ Goto(t, "idle")
    /\ on' = [on EXCEPT ![t] = None]
    /\ obj' = [obj EXCEPT ![t] = None]

\* The kernel's references to an open file: calls in progress, and dma_buf_get.
InUse(o) == \E t \in Threads : on[t] = o \/ memref[t] = o
Closed(o) == file[o] = "closed" /\ ~InUse(o)

\* tee_get and tee_context_get for a session or memory of context c.
AddRefs(c) ==
    /\ teeref' = teeref + 1
    /\ ctxref' = [ctxref EXCEPT ![c] = @ + 1]

\* tee_put and tee_context_put for o, and the end of o if it is over: the
\* last reference to a context frees it and drops its reference to the device.
DropRefs(o, over) ==
    LET c == owner[o]
        last == ctxref[c] = 1
    IN  /\ ctxref' = [ctxref EXCEPT ![c] = @ - 1]
        /\ teeref' = IF last THEN teeref - 2 ELSE teeref - 1
        /\ state' = [x \in Objects |-> IF (x = o /\ over) \/ (x = c /\ last)
                                       THEN "freed" ELSE state[x]]

-----------------------------------------------------------------------------
(* Contexts: tee_ctx_open, tee_ctx_release and the kernel interface *)

TeeContextCreate(c) ==
    /\ Free /\ state[c] = "none"
    /\ state' = [state EXCEPT ![c] = "live"]
    /\ ctxref' = [ctxref EXCEPT ![c] = 1]
    /\ teeref' = teeref + 1

CtxOpen(c) ==
    /\ c \notin KernelCtxs
    /\ TeeContextCreate(c)
    /\ file' = [file EXCEPT ![c] = "open"]
    /\ UNCHANGED <<owner, shmref, lock, given, secure, failed, calls>>

\* Without an identifier the call fails and the context stays for ever.
InitializeContext(c) ==
    /\ c \in KernelCtxs
    /\ TeeContextCreate(c)
    /\ \/ file' = [file EXCEPT ![c] = "open"]
       \/ file' = [file EXCEPT ![c] = "lost"]
    /\ UNCHANGED <<owner, shmref, lock, given, secure, failed, calls>>

TeeContextDestroy(c) ==
    /\ Free
    /\ ctxref' = [ctxref EXCEPT ![c] = @ - 1]
    /\ IF ctxref[c] = 1
       THEN /\ state' = [state EXCEPT ![c] = "freed"]
            /\ teeref' = teeref - 1
       ELSE UNCHANGED <<state, teeref>>

CtxRelease(c) ==
    /\ c \notin KernelCtxs /\ Closed(c)
    /\ TeeContextDestroy(c)
    /\ file' = [file EXCEPT ![c] = "released"]
    /\ UNCHANGED <<owner, shmref, lock, given, secure, failed, calls>>

FinalizeContext(c) ==
    /\ c \in KernelCtxs /\ file[c] = "open" /\ ~InUse(c)
    /\ TeeContextDestroy(c)
    /\ file' = [file EXCEPT ![c] = "released"]
    /\ UNCHANGED <<owner, shmref, lock, given, secure, failed, calls>>

\* The client closes the descriptor, or ends; a kernel client is about to call
\* TEEC_CloseSession.  A descriptor is a number: a thread may close the one
\* that a call in progress has just installed.
Close(o) ==
    /\ file[o] = "open" /\ o \notin KernelCtxs
    /\ file' = [file EXCEPT ![o] = "closed"]
    /\ UNCHANGED <<state, owner, ctxref, shmref, teeref, lock, given, secure,
                   failed, calls>>

-----------------------------------------------------------------------------
(* Sessions.  A thread makes a session and opens it in the secure world     *)
(* ("open"), invokes a command of one ("invoke"), or closes one ("close").  *)

Kind(t) == IF on[t] \in Ctxs THEN "open"
           ELSE IF on[t] \in Sessions THEN "invoke" ELSE "close"

CreateSession(t, c, s) ==
    /\ file[c] = "open" /\ state[s] = "none"
    /\ Enter(t, c, s, "init")
    /\ AddRefs(c)
    /\ state' = [state EXCEPT ![s] = "live"]
    /\ owner' = [owner EXCEPT ![s] = c]
    /\ UNCHANGED <<file, shmref, lock, given, secure, failed, memref>>

InvokeCommand(t, s) ==
    /\ file[s] = "open"
    /\ Enter(t, s, s, "init")
    /\ UNCHANGED <<objects, lock, given, secure, failed, memref>>

\* The last reference to the file is gone: tee_session_release in some thread.
SessionRelease(t, s) ==
    /\ Closed(s)
    /\ Enter(t, None, s, "call")
    /\ file' = [file EXCEPT ![s] = "released"]
    /\ UNCHANGED <<state, owner, ctxref, shmref, teeref, lock, given, secure,
                   failed, memref>>

\* tee_shm_get: the command keeps the file of the memory it refers to.
TeeShmGet(t) ==
    /\ Free /\ owner[obj[t]] \notin KernelCtxs
    /\ \E m \in Shms : file[m] = "open" /\ memref' = [memref EXCEPT ![t] = m]

\* _init_tee_cmd: the command refers to shared memory of the client, or to
\* none but copies, or a parameter is bad.
InitCmd(t) ==
    /\ pc[t] = "init"
    /\ \/ TeeShmGet(t) /\ Goto(t, "call") /\ UNCHANGED <<on, obj>>
       \/ Goto(t, "call") /\ UNCHANGED <<on, obj, memref>>
       \/ /\ UNCHANGED memref
          /\ IF Kind(t) = "open" THEN Goto(t, "finish") /\ UNCHANGED <<on, obj>>
                                 ELSE Leave(t)
    /\ UNCHANGED <<objects, lock, given, secure, failed>>

\* tz_open, tz_invoke, tz_close up to the SMC.  Without memory for the
\* argument they fail, and the secure world does not learn of the command.
TzCall(t) ==
    /\ pc[t] = "call"
    /\ \/ Goto(t, "secure") /\ UNCHANGED failed
       \/ /\ Kind(t) = "close" /\ Goto(t, "free")
          /\ failed' = failed \cup {obj[t]}
       \/ Kind(t) # "close" /\ Goto(t, "release") /\ UNCHANGED failed
    /\ UNCHANGED <<objects, lock, given, secure, on, obj, memref>>

\* The command returns.  A session is open, or the Trusted OS or the monitor
\* refused.
TzOpen(t) ==
    /\ pc[t] = "secure" /\ Kind(t) = "open"
    /\ secure' \in {secure, secure \cup {obj[t]}}
    /\ Goto(t, "release")
    /\ UNCHANGED <<objects, lock, given, failed, on, obj, memref>>

TzInvoke(t) ==
    /\ pc[t] = "secure" /\ Kind(t) = "invoke"
    /\ Goto(t, "release")
    /\ UNCHANGED <<objects, lock, given, secure, failed, on, obj, memref>>

TzClose(t) ==
    /\ pc[t] = "secure" /\ Kind(t) = "close"
    /\ \/ secure' = secure \ {obj[t]} /\ UNCHANGED failed
       \/ failed' = failed \cup {obj[t]} /\ UNCHANGED secure
    /\ Goto(t, "free")
    /\ UNCHANGED <<objects, lock, given, on, obj, memref>>

\* tee_shm_put gives the file back.
TeeShmPut(t) == Free /\ memref' = [memref EXCEPT ![t] = None]

ReleaseCmd_Forgets(t) ==
    /\ pc[t] = "release"
    /\ Free \/ memref[t] = None
    /\ IF Kind(t) = "open" THEN Goto(t, "finish") /\ UNCHANGED <<on, obj>>
                           ELSE Leave(t)
    /\ UNCHANGED <<objects, lock, given, secure, failed, memref>>
\* _release_tee_cmd
ReleaseCmd(t) ==
    /\ pc[t] = "release"
    /\ IF memref[t] = None THEN UNCHANGED memref ELSE TeeShmPut(t)
    /\ IF Kind(t) = "open" THEN Goto(t, "finish") /\ UNCHANGED <<on, obj>>
                           ELSE Leave(t)
    /\ UNCHANGED <<objects, lock, given, secure, failed>>

FinishOpen_KeepsCtx(t) ==
    /\ pc[t] = "finish" /\ Free
    /\ IF obj[t] \in secure
       THEN Goto(t, "getfd") /\ UNCHANGED <<on, obj, state, ctxref, teeref>>
       ELSE /\ state' = [state EXCEPT ![obj[t]] = "freed"]
            /\ teeref' = teeref - 1
            /\ Leave(t) /\ UNCHANGED ctxref
    /\ UNCHANGED <<file, owner, shmref, lock, given, secure, failed, memref>>
\* tee_session_create_and_open after the command: keep the session or not
FinishOpen(t) ==
    /\ pc[t] = "finish" /\ Free
    /\ IF obj[t] \in secure
       THEN Goto(t, "getfd") /\ UNCHANGED <<on, obj, state, ctxref, teeref>>
       ELSE DropRefs(obj[t], TRUE) /\ Leave(t)
    /\ UNCHANGED <<file, owner, shmref, lock, given, secure, failed, memref>>

GetFd_Frees(t) ==
    /\ pc[t] = "getfd"
    /\ \/ /\ file' = [file EXCEPT ![obj[t]] = "open"]
          /\ Leave(t)
       \/ /\ file' = [file EXCEPT ![obj[t]] = "released"]
          /\ Goto(t, "free")
          /\ UNCHANGED <<on, obj>>
    /\ UNCHANGED <<state, owner, ctxref, shmref, teeref, lock, given, secure,
                   failed, memref>>
\* The session gets its descriptor; if there is none it is closed again.
Handle(t) ==
    /\ pc[t] = "getfd"
    /\ \/ /\ file' = [file EXCEPT ![obj[t]] = "open"]
          /\ Leave(t)
       \/ /\ file' = [file EXCEPT ![obj[t]] = "released"]
          /\ Goto(t, "call")
          /\ on' = [on EXCEPT ![t] = None] /\ UNCHANGED obj
    /\ UNCHANGED <<state, owner, ctxref, shmref, teeref, lock, given, secure,
                   failed, memref>>
GetFd(t) == on[t] \notin KernelCtxs /\ Handle(t)
GetUuid(t) == on[t] \in KernelCtxs /\ Handle(t)

\* The end of tee_session_close_and_destroy, whatever the close returned
FreeSession(t) ==
    /\ pc[t] = "free" /\ Free
    /\ DropRefs(obj[t], TRUE)
    /\ Leave(t)
    /\ UNCHANGED <<file, owner, shmref, lock, given, secure, failed, memref>>

-----------------------------------------------------------------------------
(* Shared memory *)

\* tee_shm_alloc makes the memory with one user, and tee_shm_free ends it with
\* its last: pages with a count of their own, or a chunk of the pool.
TeeShmAlloc(m) ==
    /\ state[m] = "none"
    /\ state' = [state EXCEPT ![m] = "live"]
    /\ shmref' = [shmref EXCEPT ![m] = 1]
LastUser(m) == shmref[m] = 1
TeeShmFree(m) == shmref' = [shmref EXCEPT ![m] = @ - 1]

\* tee_static_shm_export.  That dma_buf_fd failed is not noticed.
Export(m) ==
    \/ file' = [file EXCEPT ![m] = "open"]
    \/ file' = [file EXCEPT ![m] = "lost"]

\* tee_shm_alloc_io and tee_shm_alloc_io_perm up to the descriptor, which any
\* thread can see at once
AllocIo(t, c, m) ==
    /\ Free /\ file[c] = "open" /\ c \notin KernelCtxs
    /\ Enter(t, c, m, "attach")
    /\ lock' = t
    /\ TeeShmAlloc(m)
    /\ Export(m)
    /\ UNCHANGED <<owner, ctxref, teeref, given, secure, failed, memref>>

\* The rest of the section: the memory belongs to the context.
AttachIo(t) ==
    /\ pc[t] = "attach"
    /\ owner' = [owner EXCEPT ![obj[t]] = on[t]]
    /\ AddRefs(on[t])
    /\ lock' = None
    /\ Leave(t)
    /\ UNCHANGED <<state, file, shmref, given, secure, failed, memref>>

\* A command in the secure world asks for memory (tee_shm_alloc_from_rpc).
RpcAlloc(t, m) ==
    /\ pc[t] = "secure" /\ Free
    /\ TeeShmAlloc(m)
    /\ given' = given \cup {m}
    /\ UNCHANGED <<file, owner, ctxref, teeref, lock, secure, failed, calls>>

\* teed asks for a descriptor of it (tee_shm_fd_for_rpc): only while it is
\* still on list_rpc_shm, that is once.
FdForRpc(t, c, m) ==
    /\ Free /\ file[c] = "open" /\ c \notin KernelCtxs
    /\ m \in given /\ file[m] = "none"
    /\ Enter(t, c, m, "attach_rpc")
    /\ lock' = t
    /\ Export(m)
    /\ UNCHANGED <<state, owner, ctxref, shmref, teeref, given, secure, failed,
                   memref>>

AttachRpc_NoIncRef(t) ==
    /\ pc[t] = "attach_rpc"
    /\ owner' = [owner EXCEPT ![obj[t]] = on[t]]
    /\ AddRefs(on[t])
    /\ lock' = None
    /\ Leave(t)
    /\ UNCHANGED <<state, file, shmref, given, secure, failed, memref>>
AttachRpc(t) ==
    /\ pc[t] = "attach_rpc"
    /\ owner' = [owner EXCEPT ![obj[t]] = on[t]]
    /\ AddRefs(on[t])
    /\ shmref' = [shmref EXCEPT ![obj[t]] = @ + 1]
    /\ lock' = None
    /\ Leave(t)
    /\ UNCHANGED <<state, file, given, secure, failed, memref>>

\* The secure world gives memory back (tee_shm_free_from_rpc); the client that
\* has a descriptor of it keeps its own reference.
RpcFree(t, m) ==
    /\ pc[t] = "secure" /\ Free /\ m \in given
    /\ given' = given \ {m}
    /\ TeeShmFree(m)
    /\ state' = IF LastUser(m) THEN [state EXCEPT ![m] = "freed"] ELSE state
    /\ UNCHANGED <<file, owner, ctxref, teeref, lock, secure, failed, calls>>

\* __tee_shm_dma_buf_release, __tee_ns_shm_release: shm->ctx is read before
\* the lock is taken.  Where it is still NULL, reading ctx->tee is the end of
\* the thread.
ShmRelease(m) ==
    /\ Closed(m)
    /\ file' = [file EXCEPT ![m] = IF owner[m] = None THEN "oops" ELSE "releasing"]
    /\ UNCHANGED <<state, owner, ctxref, shmref, teeref, lock, given, secure,
                   failed, calls>>

\* The section of tee_shm_free_io
FreeIo(m) ==
    /\ file[m] = "releasing" /\ Free
    /\ file' = [file EXCEPT ![m] = "released"]
    /\ TeeShmFree(m)
    /\ DropRefs(m, LastUser(m))
    /\ UNCHANGED <<owner, lock, given, secure, failed, calls>>

-----------------------------------------------------------------------------
Work(t) ==
    \/ InitCmd(t) \/ TzCall(t) \/ TzOpen(t) \/ TzInvoke(t) \/ TzClose(t)
    \/ ReleaseCmd(t) \/ FinishOpen(t) \/ GetFd(t) \/ GetUuid(t) \/ FreeSession(t)
    \/ AttachIo(t) \/ AttachRpc(t)

Next ==
    \/ \E o \in Objects : Close(o)
    \/ \E c \in Ctxs : \/ CtxOpen(c) \/ CtxRelease(c)
                      \/ InitializeContext(c) \/ FinalizeContext(c)
    \/ \E m \in Shms : ShmRelease(m) \/ FreeIo(m)
    \/ \E t \in Threads :
        \/ Work(t)
        \/ \E c \in Ctxs, s \in Sessions : CreateSession(t, c, s)
        \/ \E s \in Sessions : InvokeCommand(t, s) \/ SessionRelease(t, s)
        \/ \E c \in Ctxs, m \in Shms : AllocIo(t, c, m) \/ FdForRpc(t, c, m)
        \/ \E m \in Shms : RpcAlloc(t, m) \/ RpcFree(t, m)

\* Threads go on, commands return, and the kernel calls the release handler of
\* a file that is closed, before the closing thread makes another call.
Fairness ==
    /\ \A t \in Threads : WF_vars(Work(t))
    /\ \A c \in Ctxs : WF_vars(CtxRelease(c))
    /\ \A s \in Sessions : SF_vars(\E t \in Threads : SessionRelease(t, s))
    /\ \A m \in Shms : WF_vars(ShmRelease(m) \/ FreeIo(m))

Spec == Init /\ [][Next]_vars
LiveSpec == Spec /\ Fairness

-----------------------------------------------------------------------------
(* Properties *)

Stages == {"none", "open", "lost", "closed", "releasing", "released", "oops"}
Places == {"idle", "init", "call", "secure", "release", "finish", "getfd",
           "free", "attach", "attach_rpc"}

TypeOK ==
    /\ state \in [Objects -> {"none", "live", "freed"}]
    /\ file \in [Objects -> Stages]
    /\ owner \in [Sessions \cup Shms -> Ctxs \cup {None}]
    /\ ctxref \in [Ctxs -> Nat] /\ shmref \in [Shms -> Nat] /\ teeref \in Nat
    /\ lock \in Threads \cup {None}
    /\ given \subseteq Shms /\ secure \subseteq Sessions /\ failed \subseteq Sessions
    /\ pc \in [Threads -> Places]
    /\ on \in [Threads -> Ctxs \cup Sessions \cup {None}]
    /\ obj \in [Threads -> Sessions \cup Shms \cup {None}]
    /\ memref \in [Threads -> Shms \cup {None}]

\* Who refers to a context: its file or handle, live sessions, and the memory
\* whose descriptor has not been released.  A release that died keeps all that
\* it would have given back, for ever.
HasFile(o) == file[o] \in {"open", "lost", "closed", "releasing", "oops"}
Members(c) == {s \in Sessions : owner[s] = c /\ Live(s)}
              \cup {m \in Shms : owner[m] = c /\ HasFile(m)}
Attaching(m) == \E t \in Threads : pc[t] = "attach_rpc" /\ obj[t] = m
ShmUsers(m) == {u \in {"secure world", "file"} :
                  \/ u = "secure world" /\ m \in given
                  \/ u = "file" /\ HasFile(m) /\ ~Attaching(m)}

\* Every count is the number of those who refer to the object, and the object
\* exists for as long as there is one: nothing is freed early or left over.
RefsAreExact ==
    /\ TypeOK
    /\ \A c \in Ctxs :
        /\ ctxref[c] = Cardinality(Members(c)) + (IF HasFile(c) THEN 1 ELSE 0)
        /\ Live(c) <=> ctxref[c] > 0
    /\ \A m \in Shms :
        /\ shmref[m] = Cardinality(ShmUsers(m))
        /\ Live(m) <=> shmref[m] > 0
    /\ teeref = 1 + Cardinality({c \in Ctxs : Live(c)})
                  + Cardinality(UNION {Members(c) : c \in Ctxs})

\* Nobody holds a reference to an object that was freed: a file to its object,
\* a session or memory to its context, a thread to what it works on, the
\* secure world to the memory it was given.
NoDanglingReference ==
    /\ \A o \in Objects : HasFile(o) => Live(o)
    /\ \A c \in Ctxs : \A o \in Members(c) : Live(c)
    /\ \A t \in Threads : /\ on[t] # None => Live(on[t])
                          /\ obj[t] # None => Live(obj[t])
    /\ \A m \in given : Live(m)
    /\ \A t \in Threads : memref[t] # None => Live(memref[t])

\* A session that is open in the secure world has its session here, except
\* when its close reported an error; and one a client can use is open there.
SecureSessionsHaveOwners ==
    /\ \A s \in secure : Live(s) \/ s \in failed
    /\ \A s \in Sessions : file[s] = "open" => s \in secure

\* What was closed is released: a session and memory in the end disappear
\* (memory the secure world was given, when it gives it back, and memory whose
\* release died never).
ClosedIsReleased ==
    /\ \A s \in Sessions : file[s] = "closed" ~> state[s] = "freed"
    /\ \A m \in Shms :
          file[m] = "closed" ~> (state[m] = "freed" \/ m \in given \/ file[m] = "oops")

\* A release handler finds the context of its memory: not in this code, where
\* the descriptor is installed before the memory is attached (tee_shm.c:706,
\* 775, 815), as TeeObjectsEarly.cfg shows.
ReleaseFindsContext == \A m \in Shms : file[m] # "oops"
=============================================================================
