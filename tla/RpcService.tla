----------------------------- MODULE RpcService -----------------------------
(***************************************************************************)
(* What the supplicant channel promises to the driver threads that use it: *)
(* calls are served one at a time, and a call that is served returns only  *)
(* after its own request, and no other, has been answered.  A call may be  *)
(* refused while nobody serves.                                            *)
(***************************************************************************)
CONSTANT Threads

VARIABLE call   \* where each thread's call stands

Stages == {"idle", "called", "turn", "answered"}

Init == call = [i \in Threads |-> "idle"]

Move(i, from, to) ==
    /\ call[i] = from
    /\ call' = [call EXCEPT ![i] = to]

Call(i)   == Move(i, "idle", "called")
Answer(i) == Move(i, "turn", "answered")
Return(i) == Move(i, "answered", "idle")

Turn(i) ==
    /\ \A j \in Threads : call[j] # "turn"
    /\ Move(i, "called", "turn")

Next == \E i \in Threads : Call(i) \/ Turn(i) \/ Answer(i) \/ Return(i)

Spec == Init /\ [][Next]_call
=============================================================================
