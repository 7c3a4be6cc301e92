-------------------------------- MODULE Delivery --------------------------------
(***************************************************************************)
(* What a consumer group promises of one partition: the committed offset   *)
(* only advances, never past a message that nobody tried, and the message  *)
(* it stops behind is one that was settled.  A message that was tried and  *)
(* failed may be passed over; it may not be the last one.                  *)
(***************************************************************************)
EXTENDS Naturals

CONSTANT Capacity   \* the number of messages of the partition

VARIABLES
    committed,  \* the next message to be read after a restart
    tried,      \* messages whose handling ended, one way or the other
    settled     \* messages whose handling ended with the offset to be committed

vars == <<committed, tried, settled>>

Offset == 0 .. Capacity - 1

Init == committed = 0 /\ tried = {} /\ settled = {}

Try(k) == tried' = tried \cup {k} /\ UNCHANGED <<committed, settled>>

Settle(k) ==
    /\ tried' = tried \cup {k}
    /\ settled' = settled \cup {k}
    /\ UNCHANGED committed

Commit(n) ==
    /\ n > committed
    /\ \A k \in Offset : k < n => k \in tried
    /\ n - 1 \in settled
    /\ committed' = n
    /\ UNCHANGED <<tried, settled>>

Next ==
    \/ \E k \in Offset : Try(k) \/ Settle(k)
    \/ \E n \in 1 .. Capacity : Commit(n)

Spec == Init /\ [][Next]_vars
=================================================================================
