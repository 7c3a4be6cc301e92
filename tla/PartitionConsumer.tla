--------------------------- MODULE PartitionConsumer ---------------------------
(***************************************************************************)
(* One partition of the order, retry or dead letter topic and the members  *)
(* of the group that consumes it: what Start, ConsumeClaim, processMessage *)
(* and Stop of consumer.go and of dlq_consumer.go do with the offsets.     *)
(* What handling a message changes is in OrderConsumer and DeadLetters.    *)
(* Sarama and the brokers are external: a session belongs to a generation  *)
(* of the group, and a commit of an older generation is refused.           *)
(***************************************************************************)
EXTENDS Naturals

CONSTANTS
    Member,         \* processes of the group
    Messages,       \* bound: messages written to the partition
    MaxGeneration,  \* bound: sessions given out
    PartitionFaults \* what may go wrong

ASSUME PartitionAssumption ==
    /\ Messages \in Nat /\ MaxGeneration \in Nat
    /\ PartitionFaults \subseteq {"HandleFails", "CommitFails", "Crash", "Rebalance"}

Offset == 0 .. Messages - 1
Position == 0 .. Messages

VARIABLES
    end,        \* messages written so far
    committed,  \* the group's committed offset
    generation, \* the group's current generation
    session,    \* the generation of each member's session, 0 when it has none
    next,       \* the message each claim delivers next, or is processing
    marked,     \* MarkMessage: what each session commits next
    memberPc,   \* where processMessage is
    tried,      \* messages whose handling ended
    settled     \* messages that were to be committed

memberVars == <<session, next, marked, memberPc>>
partitionVars == <<end, committed, generation, memberVars, tried, settled>>

PartitionTypeOK ==
    /\ end \in Position
    /\ committed \in 0 .. end
    /\ generation \in 0 .. MaxGeneration
    /\ session \in [Member -> 0 .. generation]
    /\ next \in [Member -> 0 .. end]
    /\ marked \in [Member -> 0 .. end]
    /\ memberPc \in [Member -> {"idle", "handle", "mark"}]
    /\ settled \subseteq tried
    /\ tried \subseteq Offset

\* Offsets.Initial is OffsetOldest: a new group starts with the first message.
PartitionInit ==
    /\ end = 0
    /\ committed = 0
    /\ generation = 0
    /\ session = [m \in Member |-> 0]
    /\ next = [m \in Member |-> 0]
    /\ marked = [m \in Member |-> 0]
    /\ memberPc = [m \in Member |-> "idle"]
    /\ tried = {}
    /\ settled = {}

Current(m) == session[m] # 0 /\ session[m] = generation

\* There is a generation left for whoever takes over.
MayEnd(m) == Current(m) => generation < MaxGeneration

-------------------------------------------------------------------------------

Produce ==
    /\ end < Messages
    /\ end' = end + 1
    /\ UNCHANGED <<committed, generation, memberVars, tried, settled>>

\* The group has nobody for the partition, or rebalances although it has.
Vacant == \A m \in Member : ~Current(m)

\* Mutant: Offsets.Initial is OffsetNewest.
JoinNewest(m) ==
    /\ session[m] = 0
    /\ generation < MaxGeneration
    /\ Vacant \/ "Rebalance" \in PartitionFaults
    /\ generation' = generation + 1
    /\ session' = [session EXCEPT ![m] = generation + 1]
    /\ next' = [next EXCEPT ![m] = IF committed = 0 THEN end ELSE committed]
    /\ marked' = [marked EXCEPT ![m] = committed]
    /\ memberPc' = [memberPc EXCEPT ![m] = "idle"]
    /\ UNCHANGED <<end, committed, tried, settled>>

\* Consume: a session and a claim that starts at the committed offset.
Join(m) ==
    /\ session[m] = 0
    /\ generation < MaxGeneration
    /\ Vacant \/ "Rebalance" \in PartitionFaults
    /\ generation' = generation + 1
    /\ session' = [session EXCEPT ![m] = generation + 1]
    /\ next' = [next EXCEPT ![m] = committed]
    /\ marked' = [marked EXCEPT ![m] = committed]
    /\ memberPc' = [memberPc EXCEPT ![m] = "idle"]
    /\ UNCHANGED <<end, committed, tried, settled>>

\* Mutant: the message is marked when it is taken.
DeliverMarked(m) ==
    /\ session[m] # 0
    /\ memberPc[m] = "idle"
    /\ next[m] < end
    /\ memberPc' = [memberPc EXCEPT ![m] = "handle"]
    /\ marked' = [marked EXCEPT ![m] = next[m] + 1]
    /\ UNCHANGED <<end, committed, generation, session, next, tried, settled>>

\* ConsumeClaim takes the next message; a session that is out of date does so
\* until it notices.
Deliver(m) ==
    /\ session[m] # 0
    /\ memberPc[m] = "idle"
    /\ next[m] < end
    /\ memberPc' = [memberPc EXCEPT ![m] = "handle"]
    /\ UNCHANGED <<end, committed, generation, session, next, marked,
                   tried, settled>>

\* routeFailure answered no commit, or the row of a dead letter could not be
\* written: the message is left and the loop goes on with the next one.
Failed(m) ==
    /\ "HandleFails" \in PartitionFaults
    /\ memberPc[m] = "handle"
    /\ memberPc' = [memberPc EXCEPT ![m] = "idle"]
    /\ next' = [next EXCEPT ![m] = @ + 1]
    /\ tried' = tried \cup {next[m]}
    /\ UNCHANGED <<end, committed, generation, session, marked, settled>>

\* Handled, sent on to the retry or dead letter topic, or dropped.
Handled(m) ==
    /\ memberPc[m] = "handle"
    /\ memberPc' = [memberPc EXCEPT ![m] = "mark"]
    /\ tried' = tried \cup {next[m]}
    /\ settled' = settled \cup {next[m]}
    /\ UNCHANGED <<end, committed, generation, session, next, marked>>

\* The brokers take a commit of the current generation only.
Flush(m, offset) ==
    \/ Current(m) /\ committed' = offset
    \/ ~Current(m) /\ UNCHANGED committed
    \/ "CommitFails" \in PartitionFaults /\ UNCHANGED committed

\* MarkMessage and Commit, whose error nobody asks for.
MarkAndCommit(m) ==
    /\ memberPc[m] = "mark"
    /\ next' = [next EXCEPT ![m] = @ + 1]
    /\ marked' = [marked EXCEPT ![m] = next[m] + 1]
    /\ Flush(m, next[m] + 1)
    /\ memberPc' = [memberPc EXCEPT ![m] = "idle"]
    /\ UNCHANGED <<end, generation, session, tried, settled>>

\* AutoCommit.Enable: what was marked and is not committed is, in a while.
AutoCommit(m) ==
    /\ Current(m)
    /\ marked[m] > committed
    /\ committed' = marked[m]
    /\ UNCHANGED <<end, generation, memberVars, tried, settled>>

Ended(m) ==
    /\ session' = [session EXCEPT ![m] = 0]
    /\ memberPc' = [memberPc EXCEPT ![m] = "idle"]
    /\ UNCHANGED <<end, generation, next, marked, tried, settled>>

\* Stop, or a session that notices it is over: a message being handled gets
\* context.Canceled and is left, and what was marked is committed once more.
EndSession(m) ==
    /\ session[m] # 0
    /\ MayEnd(m)
    /\ memberPc[m] # "mark"
    /\ ~Current(m) \/ "Rebalance" \in PartitionFaults
    /\ Flush(m, marked[m])
    /\ Ended(m)

MemberCrash(m) ==
    /\ "Crash" \in PartitionFaults
    /\ session[m] # 0
    /\ MayEnd(m)
    /\ Ended(m)
    /\ UNCHANGED committed

MemberStep(m) ==
    \/ Join(m) \/ Deliver(m) \/ Failed(m) \/ Handled(m)
    \/ MarkAndCommit(m) \/ AutoCommit(m) \/ EndSession(m)

PartitionNext ==
    \/ Produce
    \/ \E m \in Member : MemberStep(m) \/ MemberCrash(m)

\* A partition that nobody has is given to a member, a claim goes on, a handling
\* ends, marked offsets are committed in a while and an old session notices that it
\* is over.
PartitionFairness ==
    /\ \A m \in Member :
          /\ WF_partitionVars(Deliver(m))
          /\ WF_partitionVars(Failed(m) \/ Handled(m))
          /\ WF_partitionVars(MarkAndCommit(m))
          /\ WF_partitionVars(AutoCommit(m))
          /\ WF_partitionVars(~Current(m) /\ EndSession(m))
    /\ WF_partitionVars(Vacant /\ \E m \in Member : Join(m))

PartitionSpec == PartitionInit /\ [][PartitionNext]_partitionVars /\ PartitionFairness

-------------------------------------------------------------------------------

\* The offsets keep what a group promises: whatever fails, is cancelled, crashes
\* or is handled by two members at a time, no commit passes a message nobody
\* tried (processMessage marks after handle, one message at a time).
D == INSTANCE Delivery WITH
        Capacity <- Messages, committed <- committed, tried <- tried,
        settled <- settled
ImplementsDelivery == D!Spec

\* Every message that is written is handled to an end by some member, whatever
\* sessions are cut short on the way.
EveryMessageTried == \A k \in Offset : (k < end) ~> (k \in tried)

-------------------------------------------------------------------------------
(* What the code does not keep; the README says how it comes about. *)

\* "处理失败消息并决定是否提交offset": a message that routeFailure decided not to
\* commit stays uncommitted until it is settled.
DecisionStands == \A k \in tried \ settled : committed <= k
===============================================================================
