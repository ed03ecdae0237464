----------------------------------- MODULE Tui -----------------------------------
(***************************************************************************)
(* The trusted user interface: g_tui_obj of core/tee_session.c, which the  *)
(* two TUI ioctls of a session share with teec_wait_cmd and                *)
(* teec_notify_event, and the display's mode in core/tee_tui.c.            *)
(*                                                                         *)
(* A session opens the interface, an Android activity is told to start by  *)
(* a command the service waits for, and the normal world's display is      *)
(* switched off; closing does the reverse.  The close does not ask who has *)
(* the interface, and the mutex is initialised by the first ioctls without *)
(* any lock: either can rob an owner, and misused records that it did.     *)
(***************************************************************************)
EXTENDS Naturals, FiniteSets

CONSTANTS
    Sessions,
    Nobody,
    MaxIoctls   \* bound: opens and closes of the interface

ASSUME TuiAssumption == Nobody \notin Sessions

VARIABLES
    flag_tui_obj,
    lock,       \* the session whose thread holds g_tui_obj.lock
    status,
    sess,       \* g_tui_obj.sess
    cmd_id,
    io_comp,    \* the counter of the completion
    mode,       \* trustedui_mode
    thread,     \* where each session's thread stands, and in which ioctl
    opened,     \* the sessions that were told they have the interface
    alive,
    ioctls,
    misused,    \* history: how an owner was robbed, or a lock holder
    waiter,     \* where the service's thread stands
    took        \* the command it was given last

tui == <<flag_tui_obj, lock, status, sess>>
cmds == <<cmd_id, io_comp>>
users == <<opened, alive, ioctls, misused>>
service == <<waiter, took>>
vars == <<tui, cmds, mode, thread, users, service>>

Secured == {"VIDEO_SECURED", "INPUT_SECURED"}

Init ==
    /\ flag_tui_obj = FALSE /\ lock = Nobody /\ status = 0 /\ sess = Nobody
    /\ cmd_id = "none" /\ io_comp = 0
    /\ mode = {}
    /\ thread = [s \in Sessions |-> [pc |-> "idle", ioc |-> "none"]]
    /\ opened = {} /\ alive = Sessions /\ ioctls = 0 /\ misused = {}
    /\ waiter = "wait" /\ took = "none"

At(s, p) == thread[s].pc = p
Goto(s, p) == thread' = [thread EXCEPT ![s].pc = p]
Return(s) == thread' = [thread EXCEPT ![s] = [pc |-> "idle", ioc |-> "none"]]

-----------------------------------------------------------------------------
(* The two ioctls *)

Ioctl(s, ioc) ==
    /\ At(s, "idle") /\ s \in alive /\ ioctls < MaxIoctls
    /\ ioctls' = ioctls + 1
    /\ thread' = [thread EXCEPT ![s] = [pc |-> "flag", ioc |-> ioc]]
    /\ UNCHANGED <<tui, cmds, mode, opened, alive, misused, service>>
TuiOpen(s) == Ioctl(s, "open")
TuiClose(s) == Ioctl(s, "close")

\* The first ioctl initialises the mutex, and so do others that find the flag
\* still clear ...
TestFlag(s) ==
    /\ At(s, "flag")
    /\ Goto(s, IF flag_tui_obj THEN "lock" ELSE "init")
    /\ UNCHANGED <<tui, cmds, mode, users, service>>
\* ... which leaves it free, whoever held it.
InitLock(s) ==
    /\ At(s, "init")
    /\ lock' = Nobody /\ flag_tui_obj' = TRUE
    /\ misused' = IF lock = Nobody THEN misused ELSE misused \cup {"mutex_init"}
    /\ Goto(s, "lock")
    /\ UNCHANGED <<status, sess, cmds, mode, opened, alive, ioctls, service>>

\* Mutant: the lock is not held while the operation is copied.
OpenTest_Unlocked(s) ==
    /\ At(s, "lock") /\ thread[s].ioc = "open" /\ lock = Nobody
    /\ IF status # 0 THEN Return(s) ELSE Goto(s, "copy")
    /\ UNCHANGED <<tui, cmds, mode, users, service>>

\* The open: under the lock it finds the interface free or gives up ...
OpenTest(s) ==
    /\ At(s, "lock") /\ thread[s].ioc = "open" /\ lock = Nobody
    /\ IF status # 0 THEN Return(s) /\ UNCHANGED lock   \* -EBUSY
       ELSE Goto(s, "copy") /\ lock' = s
    /\ UNCHANGED <<flag_tui_obj, status, sess, cmds, mode, users, service>>

\* ... copies the operation, which can fail, and takes it.
OpenTake(s) ==
    /\ At(s, "copy")
    /\ lock' = Nobody
    /\ \/ Return(s) /\ UNCHANGED <<status, sess>>       \* -EINVAL
       \/ status' = 1 /\ sess' = s /\ Goto(s, "START")
    /\ UNCHANGED <<flag_tui_obj, cmds, mode, users, service>>

\* send_cmd_to_user: the command, then the completion.
SendCmd(s, c) ==
    /\ At(s, c)
    /\ cmd_id' = c
    /\ Goto(s, IF c = "START" THEN "complete_START" ELSE "complete_STOP")
    /\ UNCHANGED <<tui, io_comp, mode, users, service>>
CompleteStart(s) ==
    /\ At(s, "complete_START")
    /\ io_comp' = io_comp + 1
    /\ Goto(s, "hal")
    /\ UNCHANGED <<tui, cmd_id, mode, users, service>>
CompleteStop(s) ==
    /\ At(s, "complete_STOP")
    /\ io_comp' = io_comp + 1
    /\ Return(s)
    /\ UNCHANGED <<tui, cmd_id, mode, users, service>>

\* hal_tui_deactivate sets the mask twice ...
HalDeactivate(s) ==
    \/ /\ At(s, "hal")
       /\ mode' = mode \cup {"TUI_SESSION"}
       /\ Goto(s, "secure")
       /\ UNCHANGED <<tui, cmds, users, service>>
    \/ /\ At(s, "secure")
       /\ mode' = mode \cup Secured
       /\ opened' = opened \cup {s}
       /\ Return(s)
       /\ UNCHANGED <<tui, cmds, alive, ioctls, misused, service>>
\* ... or, replaced by an integrator's, fails: the open is undone.
HalFails(s) ==
    /\ At(s, "hal") /\ lock = Nobody
    /\ status' = 0
    /\ Goto(s, "STOP")
    /\ UNCHANGED <<flag_tui_obj, lock, sess, cmds, mode, users, service>>

\* From the moment an open has taken the interface until its close has freed it.
Opening(s) ==
    s \in opened \/ thread[s].pc \in {"START", "complete_START", "hal", "secure"}

\* The close: under the lock the interface becomes free, whoever has it, then
\* hal_tui_activate clears the masks, and the mode.
CloseFree(s) ==
    /\ At(s, "lock") /\ thread[s].ioc = "close" /\ lock = Nobody
    /\ status' = 0
    /\ opened' = opened \ {s}
    /\ misused' = IF \E t \in Sessions \ {s} : Opening(t)
                  THEN misused \cup {"close"} ELSE misused
    /\ Goto(s, "activate")
    /\ UNCHANGED <<flag_tui_obj, lock, sess, cmds, mode, alive, ioctls, service>>
HalActivate(s) ==
    \/ At(s, "activate") /\ mode' = mode \ Secured /\ Goto(s, "mode_off")
       /\ UNCHANGED <<tui, cmds, users, service>>
    \/ At(s, "mode_off") /\ mode' = {} /\ Goto(s, "STOP")
       /\ UNCHANGED <<tui, cmds, users, service>>

\* The process dies and its session is freed.
Die(s) ==
    /\ At(s, "idle") /\ s \in alive
    /\ alive' = alive \ {s} /\ opened' = opened \ {s}
    /\ UNCHANGED <<tui, cmds, mode, thread, ioctls, misused, service>>

-----------------------------------------------------------------------------
(* teec_wait_cmd, over and over *)

WaitCompletion ==
    /\ waiter = "wait" /\ io_comp > 0
    /\ io_comp' = io_comp - 1
    /\ waiter' = "reset"
    /\ UNCHANGED <<tui, cmd_id, mode, thread, users, took>>
\* Mutant: the command is read before the completion is reset.
Reset_AfterRead ==
    /\ waiter \in {"reset", "read"}
    /\ IF waiter = "reset" THEN took' = cmd_id /\ waiter' = "read" /\ UNCHANGED io_comp
       ELSE io_comp' = 0 /\ waiter' = "wait" /\ UNCHANGED took
    /\ UNCHANGED <<tui, cmd_id, mode, thread, users>>
Reset ==
    /\ waiter = "reset"
    /\ io_comp' = 0
    /\ waiter' = "read"
    /\ UNCHANGED <<tui, cmd_id, mode, thread, users, took>>
ReadCmd ==
    /\ waiter = "read"
    /\ took' = cmd_id
    /\ waiter' = "wait"
    /\ UNCHANGED <<tui, cmds, mode, thread, users>>

Runs(s) ==
    \/ TestFlag(s) \/ InitLock(s) \/ OpenTest(s) \/ OpenTake(s)
    \/ SendCmd(s, "START") \/ SendCmd(s, "STOP") \/ CompleteStart(s) \/ CompleteStop(s)
    \/ HalDeactivate(s) \/ HalFails(s) \/ CloseFree(s) \/ HalActivate(s)
Service == WaitCompletion \/ Reset \/ ReadCmd
Next ==
    \/ \E s \in Sessions : TuiOpen(s) \/ TuiClose(s) \/ Die(s) \/ Runs(s)
    \/ Service

Spec == Init /\ [][Next]_vars

\* A thread in an ioctl goes on, and so does the service.
Fairness == WF_vars(Service) /\ \A s \in Sessions : WF_vars(Runs(s))
LiveSpec == Spec /\ Fairness

-----------------------------------------------------------------------------
(* Properties *)

TypeOK ==
    /\ flag_tui_obj \in BOOLEAN /\ lock \in Sessions \cup {Nobody}
    /\ status \in 0..1 /\ sess \in Sessions \cup {Nobody}
    /\ cmd_id \in {"none", "START", "STOP"} /\ took \in {"none", "START", "STOP"}
    /\ mode \subseteq Secured \cup {"TUI_SESSION"}
    /\ opened \subseteq alive /\ alive \subseteq Sessions
    /\ misused \subseteq {"mutex_init", "close"}

OwnerIsNamed ==
    /\ \A s, t \in Sessions : Opening(s) /\ Opening(t) => s = t
    /\ \A s \in Sessions : Opening(s) => status = 1 /\ sess = s

\* The interface belongs to one session at a time, the one g_tui_obj names, from
\* the moment its open has taken it until its close has freed it (the open returns
\* -EBUSY), until another session closes it, which the ioctl lets any do, or
\* initialises a mutex that is held; and until the latter one session at a time
\* stands between the test of the status and its change.
OneOwner ==
    /\ TypeOK
    /\ misused = {} => OwnerIsNamed
    /\ "mutex_init" \notin misused =>
           \A s, t \in Sessions : At(s, "copy") /\ At(t, "copy") => s = t

\* The owner keeps the interface whatever other sessions close (tee_session.c:519).
OwnerDespiteClose == "mutex_init" \notin misused => OwnerIsNamed

\* The owner keeps the interface however the mutex came to be initialised, as long
\* as nobody else closes it (tee_session.c:467-468).
OwnerDespiteInit == "close" \notin misused => OwnerIsNamed

\* The service is given the last command that was sent: a completion that is
\* reset together with another one loses a wake-up but no command.
LastCommandArrives == \A c \in {"START", "STOP"} : cmd_id = c ~> took = c \/ cmd_id # c

\* While a session has the interface, the normal world's display and input are
\* secured (tee_tui_hal.c:60-65: hal_tui_activate "is called after a TUI
\* session, after the Secure World has released the display and input").
DisplayIsSecured == opened # {} => Secured \subseteq mode

\* A cancellation goes to a session that still exists.
CancelFindsItsSession == status # 0 => sess \in alive
=============================================================================
