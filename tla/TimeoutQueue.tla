------------------------------ MODULE TimeoutQueue ------------------------------
(***************************************************************************)
(* What the delay queue promises: an order that was added to it is known   *)
(* to it until the order is closed, is cancelled by it only after its time *)
(* to pay is over, and does not stay unpaid for ever.                      *)
(***************************************************************************)

CONSTANT Order

VARIABLES
    status,  \* of each order, see Status
    tracked, \* orders the queue knows of
    elapsed  \* orders whose time to pay is over

\* Closed by its buyer, who paid or cancelled, or cancelled by the queue.
Status == {"none", "Pending", "Closed", "TimedOut"}

vars == <<status, tracked, elapsed>>

TypeOK ==
    /\ status \in [Order -> Status]
    /\ tracked \subseteq Order
    /\ elapsed \subseteq Order

Init ==
    /\ status = [o \in Order |-> "none"]
    /\ tracked = {}
    /\ elapsed = {}

Moves(o, from, to) == status[o] = from /\ status' = [status EXCEPT ![o] = to]

Add(o) ==
    /\ Moves(o, "none", "Pending")
    /\ tracked' = tracked \cup {o}
    /\ UNCHANGED elapsed

Elapse(o) ==
    /\ o \in tracked \ elapsed
    /\ elapsed' = elapsed \cup {o}
    /\ UNCHANGED <<status, tracked>>

\* The buyer pays or cancels.
Close(o) ==
    /\ Moves(o, "Pending", "Closed")
    /\ UNCHANGED <<tracked, elapsed>>

TimeOut(o) ==
    /\ o \in tracked \cap elapsed
    /\ Moves(o, "Pending", "TimedOut")
    /\ UNCHANGED <<tracked, elapsed>>

Forget(o) ==
    /\ o \in tracked
    /\ status[o] \in {"Closed", "TimedOut"}
    /\ tracked' = tracked \ {o}
    /\ UNCHANGED <<status, elapsed>>

Next ==
    \E o \in Order : Add(o) \/ Elapse(o) \/ Close(o) \/ TimeOut(o) \/ Forget(o)

Spec ==
    /\ Init /\ [][Next]_vars
    /\ \A o \in Order : WF_vars(TimeOut(o)) /\ WF_vars(Elapse(o))
===============================================================================
