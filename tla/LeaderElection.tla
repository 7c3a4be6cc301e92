----------------------------- MODULE LeaderElection -----------------------------
(***************************************************************************)
(* LeaderElector: processes compete for a lease in Redis; the one that has *)
(* it runs a job and renews the lease.  Time passes in ticks, at a tick    *)
(* every timer that is due has fired, and a command takes less than one,   *)
(* unless a process pauses.                                                *)
(***************************************************************************)
EXTENDS Naturals, FiniteSets, Nil

CONSTANTS
    Process,
    LeaseTtl, \* ttl of the lease, in ticks
    Third,    \* ttl/3: how often it is renewed, and how often a process tries
    MaxRuns,  \* bound on the copies of the job in one process
    MaxStops, \* bound on the number of crashes
    LeaderFaults,
    Orphan    \* a token in Redis whose process does not know it any more

(***************************************************************************)
(* StoreError  a command to Redis reports an error                         *)
(* AckLost     it succeeds and reports an error                            *)
(* Pause       a process does not run for a while, and its timers wait     *)
(***************************************************************************)
LeaderFault == {"StoreError", "AckLost", "Pause"}

ASSUME LeaderAssumption ==
    /\ LeaseTtl \in Nat \ {0} /\ Third \in Nat \ {0} /\ Third < LeaseTtl
    /\ MaxRuns \in Nat \ {0}
    /\ MaxStops \in Nat
    /\ LeaderFaults \subseteq LeaderFault
    /\ None \notin Process /\ Orphan \notin Process /\ None # Orphan

VARIABLES
    holder, \* whose token is under the key, or None
    lease,  \* ticks until the key expires
    mode,   \* "try": in Run's loop; "lead": in runAsLeader; "down"
    timer,  \* ticks until the process tries, or renews
    runs,   \* copies of the job that run in the process
    idle,   \* ticks the process has been up while nobody ran the job
    stops

leaderVars == <<holder, lease, mode, timer, runs, idle, stops>>

\* Bound on idle: one more than it may reach.
MaxIdle == LeaseTtl + Third + 1

LeaderTypeOK ==
    /\ holder \in Process \cup {None, Orphan}
    /\ lease \in 0 .. LeaseTtl
    /\ holder = None <=> lease = 0
    /\ mode \in [Process -> {"try", "lead", "down"}]
    /\ timer \in [Process -> 0 .. Third]
    /\ runs \in [Process -> 0 .. MaxRuns]
    /\ idle \in [Process -> 0 .. MaxIdle]
    /\ stops \in 0 .. MaxStops

LeaderInit ==
    /\ holder = None
    /\ lease = 0
    /\ mode = [p \in Process |-> "try"]
    /\ timer = [p \in Process |-> 0]
    /\ runs = [p \in Process |-> 0]
    /\ idle = [p \in Process |-> 0]
    /\ stops = 0

-------------------------------------------------------------------------------
(* Time. *)

Due(p) == mode[p] # "down" /\ timer[p] = 0

SomeoneRuns == \E p \in Process : runs[p] > 0

\* A timer that is due fires before the next tick.
LeaseTick ==
    /\ "Pause" \in LeaderFaults \/ \A p \in Process : ~Due(p)
    /\ lease' = IF lease = 0 THEN 0 ELSE lease - 1
    /\ holder' = IF lease <= 1 THEN None ELSE holder
    /\ timer' = [p \in Process |-> IF timer[p] = 0 THEN 0 ELSE timer[p] - 1]
    /\ idle' = [p \in Process |-> IF SomeoneRuns \/ mode[p] = "down" THEN 0
                                   ELSE IF idle[p] = MaxIdle THEN MaxIdle
                                   ELSE idle[p] + 1]
    /\ UNCHANGED <<mode, runs, stops>>

-------------------------------------------------------------------------------
(* The scripts on the key. *)

Set(who) == holder' = who /\ lease' = LeaseTtl
Delete == holder' = None /\ lease' = 0
Same == UNCHANGED <<holder, lease>>

\* Mutant: somebody else's lease is taken over.
AcquireAny(p) == Set(p)

\* acquireLockScript, if it succeeds.
Acquired(p) == holder = None /\ Set(p)

\* Mutant: the lease is deleted whoever holds it.
ReleaseLease(p) == Delete

\* releaseLockScript deletes the key if it holds the token of p; an error of it is
\* ignored and leaves a token nobody knows.
Release(p) ==
    \/ IF holder = p THEN Delete ELSE Same
    \/ /\ "StoreError" \in LeaderFaults
       /\ holder' = IF holder = p THEN Orphan ELSE holder
       /\ lease' = lease

-------------------------------------------------------------------------------
(* Run *)

Sleeps(p) ==
    /\ timer' = [timer EXCEPT ![p] = Third]
    /\ UNCHANGED <<mode, runs>>

Lead(p) ==
    /\ mode[p] = "try" /\ timer[p] = 0
    /\ runs[p] < MaxRuns
    /\ Acquired(p)
    /\ mode' = [mode EXCEPT ![p] = "lead"]
    /\ timer' = [timer EXCEPT ![p] = Third]
    /\ runs' = [runs EXCEPT ![p] = @ + 1]
    /\ idle' = [q \in Process |-> 0]
    /\ UNCHANGED stops

\* Mutant: a try that finds the key taken sets its time to live.
SkipAndExtend(p) ==
    /\ mode[p] = "try" /\ timer[p] = 0
    /\ Sleeps(p)
    /\ holder # None /\ Set(holder)
    /\ UNCHANGED <<idle, stops>>

\* The key is taken, or the script fails; a lost answer leaves an unknown token.
Skip(p) ==
    /\ mode[p] = "try" /\ timer[p] = 0
    /\ Sleeps(p)
    /\ \/ holder # None /\ Same
       \/ "StoreError" \in LeaderFaults /\ Same
       \/ "AckLost" \in LeaderFaults /\ holder = None /\ Set(Orphan)
    /\ UNCHANGED <<idle, stops>>

\* The lease of the leader starts anew.
Renew(p) ==
    /\ mode[p] = "lead" /\ timer[p] = 0
    /\ holder = p
    /\ Set(p)
    /\ timer' = [timer EXCEPT ![p] = Third]
    /\ UNCHANGED <<mode, runs, idle, stops>>

\* runAsLeader returns to Run's loop, which tries again at once; the goroutine that
\* runs the job has the context of the process and goes on.
Lose(p) ==
    /\ mode[p] = "lead" /\ timer[p] = 0
    /\ holder # p \/ LeaderFaults \cap {"StoreError", "AckLost"} # {}
    /\ Release(p)
    /\ mode' = [mode EXCEPT ![p] = "try"]
    /\ UNCHANGED <<timer, runs, idle, stops>>

\* The process stops.  When it is asked to, ReleaseLock is called with a context
\* that is already done, so that its lease is left to expire either way.
ProcessStops(p) ==
    /\ stops < MaxStops /\ stops' = stops + 1
    /\ mode[p] # "down"
    /\ mode' = [mode EXCEPT ![p] = "down"]
    /\ runs' = [runs EXCEPT ![p] = 0]
    /\ timer' = [timer EXCEPT ![p] = 0]
    /\ idle' = [idle EXCEPT ![p] = 0]
    /\ holder' = IF holder = p THEN Orphan ELSE holder
    /\ lease' = lease

Restart(p) ==
    /\ mode[p] = "down"
    /\ mode' = [mode EXCEPT ![p] = "try"]
    /\ UNCHANGED <<holder, lease, timer, runs, idle, stops>>

Run(p) == Lead(p) \/ Skip(p) \/ Renew(p) \/ Lose(p)

LeaderNext == LeaseTick \/ \E p \in Process : Run(p) \/ ProcessStops(p) \/ Restart(p)

LeaderSpec == LeaderInit /\ [][LeaderNext]_leaderVars

-------------------------------------------------------------------------------
(* Properties. *)

\* The job runs once: Run skips the job in every process but the leader, which
\* renews its lease before it ends.
OneRunner ==
    \A p, q \in Process : runs[p] > 0 /\ runs[q] > 0 => p = q /\ runs[p] = 1

\* A process whose lease was not renewed in time cannot shorten, renew or delete
\* the lease of the next leader: a lease is its leader's until it gives it up or
\* the time to live is over.
LeaseIsSafe ==
    [][\A p \in Process :
        /\ holder = p /\ mode[p] = "lead"
        /\ mode'[p] = "lead" /\ lease > 1
        => holder' = p]_leaderVars

\* After a leader stopped the job is taken over by any process that is up, within
\* the time to live of the lease and one pause between two tries.
FailoverInTime == \A p \in Process : idle[p] < MaxIdle
===============================================================================
