------------------------------ MODULE DeadLetters ------------------------------
(***************************************************************************)
(* The consumer of the dead letter topic, which keeps one row per order    *)
(* (event_id is unique and an order message keeps its event_id), and the   *)
(* operator's ReplayDeadLetter.                                            *)
(***************************************************************************)
EXTENDS SeckillState

\* CreateDeadLetterMessage ignores a duplicate: the first row of the event stays.
KeepRow(m) == deadRow' = [deadRow EXCEPT ![m[1]] = IF @ = None THEN m[2] ELSE @]

\* If the insert fails the offset
\* is not committed, and the next message's commit skips the dead letter.
PersistDeadLetter(m) ==
    /\ m \in dlqTopic
    /\ dlqTopic' = dlqTopic \ {m}
    /\ BestEffort(KeepRow(m), UNCHANGED deadRow)
    /\ UNCHANGED <<redisVars, mysqlVars, topic, reserved>>

\* GetDeadLetterMessageByEventID finds the row whatever its status, so that it
\* can be replayed again.
HasRow(o) == deadRow[o] # None

Replay(o) ==
    /\ "Replay" \in Faults
    /\ HasRow(o)
    /\ deadRow[o] < MaxCount
    /\ LET m == <<o, deadRow[o] + 1>> IN
       Publish(m) \/ SendFails(Publish(m), UNCHANGED topic)
    /\ UNCHANGED <<redisVars, mysqlVars, dlqTopic, deadRow, reserved>>

DeadLettersNext ==
    \/ \E m \in Message : PersistDeadLetter(m)
    \/ \E o \in Order : Replay(o)
===============================================================================
