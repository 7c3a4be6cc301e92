------------------------------ MODULE CacheAside ------------------------------
(***************************************************************************)
(* One entry of the caches in Redis: the current activity, the detail of a *)
(* product or a page of the product list, as Kind says.  Readers take it   *)
(* from Redis or rebuild it from the databases; updates and the warm-up    *)
(* change what is behind it.  Time passes in ticks.                        *)
(***************************************************************************)
EXTENDS Naturals, Sequences, FiniteSets, Nil

CONSTANTS
    Reader,    \* one call each, of different users
    Kind,      \* "activity", "product" or "list"
    Version,   \* what a row can hold; activity 0 is one that is not going on
    Life,      \* ticks an entry may live: the ttl and its jitter
    LockTtl,   \* ticks the lock of a rebuild lives
    Hold,      \* bound on the ticks from the first read of a rebuild to its fill
    MaxWrites, \* bound on the writes to the databases
    Listed,    \* is the product among the first 100 of its activity
    CacheFaults

(***************************************************************************)
(* StoreError  a command to Redis reports an error, with or without effect *)
(* TxError     a statement on a database fails                             *)
(* Crash       a process stops in the middle of a call                     *)
(***************************************************************************)
CacheFault == {"StoreError", "TxError", "Crash"}

ASSUME CacheAssumption ==
    /\ Kind \in {"activity", "product", "list"}
    /\ Version \subseteq Nat /\ 0 \in Version
    /\ Life \subseteq Nat \ {0} /\ \E l \in Life : \A m \in Life : m <= l
    /\ LockTtl \in Nat \ {0} /\ Hold \in Nat /\ MaxWrites \in Nat
    /\ Listed \in BOOLEAN
    /\ CacheFaults \subseteq CacheFault
    /\ None \notin Reader /\ None \notin [by : Reader, left : 1 .. LockTtl]

VARIABLES
    db,          \* the rows the entry is made of
    changed,     \* ticks since one of them was written
    writes,
    entry,       \* what is under the key: the value, the user it was made for, whether
                 \* it was old when it was written, and ticks left
    filter,      \* BF.EXISTS answers 1 for the product
    rebuildLock, \* the reader whose token is under the lock's key, and its ticks
    reader,      \* the calls that read
    admin        \* the update or the warm-up that is running

cacheVars == <<db, changed, writes, entry, filter, rebuildLock, reader, admin>>

\* The order in which the rows are read.
ReadOrder ==
    CASE Kind = "activity" -> <<"activity">>
      [] Kind = "product" -> <<"sku", "activity", "goods">>
      [] Kind = "list" -> <<"sku", "goods", "activity">>

Part == {"activity"} \cup (IF Kind = "activity" THEN {} ELSE {"sku", "goods"})

First == IF Kind = "product" THEN "filter" ELSE "look"

LongLife == CHOOSE l \in Life : \A m \in Life : m <= l

\* Bound on changed: one more than it may reach with an old entry.
MaxChanged == Hold + LongLife + 1

Value == [Part -> Version]

\* What was read so far: the rows up to some place of Order.
Partial == UNION {[P -> Version] : P \in SUBSET Part}

ReaderAnswer == {"none", "found", "notfound", "busy", "failed"}

CacheTypeOK ==
    /\ db \in Value
    /\ changed \in 0 .. MaxChanged
    /\ writes \in 0 .. MaxWrites
    /\ entry = None \/ entry \in [value : Value, of : Reader \cup {None}, late : BOOLEAN,
                                 left : 1 .. LongLife]
    /\ filter \in BOOLEAN
    /\ rebuildLock = None \/ rebuildLock \in [by : Reader, left : 1 .. LockTtl]
    /\ reader \in [Reader -> [pc : {"filter", "look", "lock", "relook", "direct", "check",
                                    "read", "fill", "release", "done", "gone"},
                              seen : Partial, of : Reader \cup {None},
                              held : 0 .. Hold, answer : ReaderAnswer]]
    /\ admin \in [pc : {"idle", "goods", "sku", "activity", "first", "lists", "stock",
                        "warm", "current", "fill"},
                  op : {"none", "activity", "product", "warm"},
                  want : Version, seen : Partial, held : 0 .. Hold, answer : ReaderAnswer]

Idle == [pc |-> "idle", op |-> "none", want |-> 0, seen |-> <<>>, held |-> 0, answer |-> "none"]

CacheInit ==
    /\ db \in {[p \in Part |-> v] : v \in Version}
    /\ changed = MaxChanged
    /\ writes = 0
    /\ entry = None
    /\ filter \in {FALSE, Kind = "product" /\ Listed}
    /\ rebuildLock = None
    /\ reader = [r \in Reader |-> [pc |-> First, seen |-> <<>>, of |-> None,
                                   held |-> 0, answer |-> "none"]]
    /\ admin = Idle

-------------------------------------------------------------------------------
(* Helpers. *)

At(r, pc) == reader[r].pc = pc
ReaderGoes(r, pc) == reader' = [reader EXCEPT ![r].pc = pc]

StoreError == "StoreError" \in CacheFaults
TxError == "TxError" \in CacheFaults

\* Where a call goes when it has its answer: the lock is released by a defer.
Exit(r) == IF reader[r].pc \in {"check", "read", "fill"} /\ Kind # "list" THEN "release" ELSE "done"

\* The call has its answer, made for some user, and forgets what it has read.
Replies(r, answer, of) ==
    reader' = [reader EXCEPT ![r] = [pc |-> Exit(r), seen |-> <<>>, of |-> of,
                                     held |-> 0, answer |-> answer]]

Answers(r, answer) == Replies(r, answer, None)

\* The answer that a value is: an activity that is not going on is an error.
AnswerOf(value) == IF Kind = "activity" /\ value["activity"] = 0 THEN "notfound" ELSE "found"

\* The entry answers the call.
Finds(r) == entry # None /\ Replies(r, AnswerOf(entry.value), entry.of)

\* SetEX of what was read; an error of it is logged.
Writes(value, of) ==
    \/ \E left \in Life :
          entry' = [value |-> value, of |-> of, late |-> value # db, left |-> left]
    \/ StoreError /\ UNCHANGED entry

NextPart(seen) == ReadOrder[Cardinality(DOMAIN seen) + 1]

Extended(seen, p) == [q \in DOMAIN seen \cup {p} |-> IF q = p THEN db[p] ELSE seen[q]]

-------------------------------------------------------------------------------
(* Time. *)

\* Calls that are between the first read and the fill of a rebuild.
Rebuilding(r) == reader[r].pc \in {"check", "read", "fill"}
Refreshing == admin.pc = "fill"

OneTickLess(kept) ==
    IF kept = None \/ (kept # None /\ kept.left = 1) THEN None ELSE [kept EXCEPT !.left = @ - 1]

\* Mutant: the entry has no time to live.
TickEntryForever ==
    /\ \A r \in Reader : Rebuilding(r) => reader[r].held < Hold
    /\ Refreshing => admin.held < Hold
    /\ changed' = IF changed = MaxChanged THEN MaxChanged ELSE changed + 1
    /\ rebuildLock' = OneTickLess(rebuildLock)
    /\ reader' = [r \in Reader |-> IF Rebuilding(r) THEN [reader[r] EXCEPT !.held = @ + 1]
                                                    ELSE reader[r]]
    /\ admin' = IF Refreshing THEN [admin EXCEPT !.held = @ + 1] ELSE admin
    /\ UNCHANGED <<db, writes, entry, filter>>

\* Mutant: the lock has no time to live.
TickLockForever ==
    /\ \A r \in Reader : Rebuilding(r) => reader[r].held < Hold
    /\ Refreshing => admin.held < Hold
    /\ changed' = IF changed = MaxChanged THEN MaxChanged ELSE changed + 1
    /\ entry' = OneTickLess(entry)
    /\ reader' = [r \in Reader |-> IF Rebuilding(r) THEN [reader[r] EXCEPT !.held = @ + 1]
                                                    ELSE reader[r]]
    /\ admin' = IF Refreshing THEN [admin EXCEPT !.held = @ + 1] ELSE admin
    /\ UNCHANGED <<db, writes, filter, rebuildLock>>

CacheTick ==
    /\ \A r \in Reader : Rebuilding(r) => reader[r].held < Hold
    /\ Refreshing => admin.held < Hold
    /\ changed' = IF changed = MaxChanged THEN MaxChanged ELSE changed + 1
    /\ entry' = OneTickLess(entry)
    /\ rebuildLock' = OneTickLess(rebuildLock)
    /\ reader' = [r \in Reader |-> IF Rebuilding(r) THEN [reader[r] EXCEPT !.held = @ + 1]
                                                    ELSE reader[r]]
    /\ admin' = IF Refreshing THEN [admin EXCEPT !.held = @ + 1] ELSE admin
    /\ UNCHANGED <<db, writes, filter>>

-------------------------------------------------------------------------------
(* A call that reads: getActivityFromCacheWithMutex, getProductDetailWithMutex, *)
(* ListSeckillProducts.                                                         *)

Filter(r) ==
    /\ At(r, "filter")
    /\ \/ filter /\ ReaderGoes(r, "look")
       \/ ~filter /\ Answers(r, "notfound")
       \/ StoreError /\ ReaderGoes(r, "look")
    /\ UNCHANGED <<db, changed, writes, entry, filter, rebuildLock, admin>>

Look(r) ==
    /\ At(r, "look")
    /\ \/ Finds(r)
       \/ /\ entry = None \/ StoreError
          /\ ReaderGoes(r, IF Kind = "list" THEN "read" ELSE "lock")
    /\ UNCHANGED <<db, changed, writes, entry, filter, rebuildLock, admin>>

Take(r) == rebuildLock = None /\ rebuildLock' = [by |-> r, left |-> LockTtl]

\* A call that does not get the lock sleeps and starts again.
StartsAgain(r) == ReaderGoes(r, First)

AcquireLock(r) ==
    /\ At(r, "lock")
    /\ \/ Take(r) /\ reader' = [reader EXCEPT ![r] = [@ EXCEPT !.pc = "check", !.held = 0]]
       \/ rebuildLock # None /\ StartsAgain(r) /\ UNCHANGED rebuildLock
       \/ /\ StoreError
          /\ ReaderGoes(r, IF Kind = "product" THEN "relook" ELSE "direct")
          /\ UNCHANGED rebuildLock \/ Take(r)
    /\ UNCHANGED <<db, changed, writes, entry, filter, admin>>

\* The lock cannot be asked for: a product is looked for once more in Redis.
Relook(r) ==
    /\ At(r, "relook")
    /\ Finds(r) \/ ((entry = None \/ StoreError) /\ Answers(r, "busy"))
    /\ UNCHANGED <<db, changed, writes, entry, filter, rebuildLock, admin>>

\* An activity is read from the database, and not cached.
Direct(r) ==
    /\ At(r, "direct")
    /\ \/ Answers(r, AnswerOf(db))
       \/ TxError /\ Answers(r, "failed")
    /\ UNCHANGED <<db, changed, writes, entry, filter, rebuildLock, admin>>

Usable == entry # None /\ AnswerOf(entry.value) = "found"

\* Under the lock the entry is looked at again; "NULL" does not count.
DoubleCheck(r) ==
    /\ At(r, "check")
    /\ \/ Usable /\ Finds(r)
       \/ (~Usable \/ StoreError) /\ ReaderGoes(r, "read")
    /\ UNCHANGED <<db, changed, writes, entry, filter, rebuildLock, admin>>

\* One statement of the query.
ReadPart(r) ==
    /\ At(r, "read")
    /\ LET seen == Extended(reader[r].seen, NextPart(reader[r].seen)) IN
       \/ reader' = [reader EXCEPT ![r] = [@ EXCEPT !.seen = seen,
                                                    !.pc = IF DOMAIN seen = Part THEN "fill" ELSE "read"]]
       \/ TxError /\ Answers(r, "failed")
    /\ UNCHANGED <<db, changed, writes, entry, filter, rebuildLock, admin>>

\* A page is made with the purchases of the user who asks, if he is logged in.
Fill(r) ==
    /\ At(r, "fill")
    /\ \E of \in IF Kind = "list" THEN {r, None} ELSE {None} :
          /\ Writes(reader[r].seen, of)
          /\ Replies(r, AnswerOf(reader[r].seen), of)
    /\ UNCHANGED <<db, changed, writes, filter, rebuildLock, admin>>

\* Mutant: the lock is released whoever holds it.
ReleaseAnyLock(r) ==
    /\ At(r, "release")
    /\ rebuildLock' = None
    /\ ReaderGoes(r, "done")
    /\ UNCHANGED <<db, changed, writes, entry, filter, admin>>

\* releaseLockScript compares the token; an error of it is not looked at.
ReleaseLock(r) ==
    /\ At(r, "release")
    /\ \/ rebuildLock' = IF rebuildLock # None /\ rebuildLock.by = r THEN None ELSE rebuildLock
       \/ StoreError /\ UNCHANGED rebuildLock
    /\ ReaderGoes(r, "done")
    /\ UNCHANGED <<db, changed, writes, entry, filter, admin>>

ReaderCrash(r) ==
    /\ "Crash" \in CacheFaults
    /\ reader[r].pc \notin {"done", "gone"}
    /\ reader' = [reader EXCEPT ![r] = [pc |-> "gone", seen |-> <<>>, of |-> None,
                                        held |-> 0, answer |-> "none"]]
    /\ UNCHANGED <<db, changed, writes, entry, filter, rebuildLock, admin>>

-------------------------------------------------------------------------------
(* UpdateSeckillActivity, UpdateSeckillProduct and WarmUpSeckillCache. *)

Busy(pc) == admin.pc = pc
Proceeds(pc) == admin' = [admin EXCEPT !.pc = pc]
AdminEnds(answer) == admin' = [Idle EXCEPT !.op = admin.op, !.answer = answer]

WriteRow(p, v) ==
    /\ db' = [db EXCEPT ![p] = v]
    /\ changed' = IF db[p] = v THEN changed ELSE 0
    /\ writes' = writes + 1

Request ==
    /\ Busy("idle")
    /\ \E op \in {"activity"} \cup (IF Kind = "activity" THEN {} ELSE {"product"}), want \in Version :
          admin' = [Idle EXCEPT !.op = op, !.want = want,
                                !.pc = IF op = "activity" THEN "activity" ELSE "goods"]
    /\ UNCHANGED <<db, changed, writes, entry, filter, rebuildLock, reader>>

\* The process starts, and warms the caches up.
StartUp ==
    /\ Busy("idle")
    /\ admin' = [Idle EXCEPT !.op = "warm", !.pc = "warm"]
    /\ UNCHANGED <<db, changed, writes, entry, filter, rebuildLock, reader>>

\* The row after p, or the first key to be deleted.
AfterRow(p) == IF p = "goods" THEN "sku" ELSE "first"

\* MySQL counts the rows that an update changes: a row that already is as it should
\* be looks like one that is not there.  The price's row also counts its versions.
UpdateRow(p) ==
    /\ Busy(p)
    /\ \/ /\ db[p] # admin.want \/ p = "sku"
          /\ writes < MaxWrites
          /\ WriteRow(p, admin.want)
          /\ Proceeds(AfterRow(p))
       \/ /\ db[p] = admin.want /\ p # "sku"
          /\ AdminEnds("notfound")
          /\ UNCHANGED <<db, changed, writes>>
    /\ UNCHANGED <<entry, filter, rebuildLock, reader>>

\* Mutant: the entry stays.
KeepFirst ==
    /\ Busy("first")
    /\ Proceeds("lists")
    /\ UNCHANGED <<db, changed, writes, entry, filter, rebuildLock, reader>>

\* The entry of what was updated.
DeleteFirst ==
    /\ Busy("first")
    /\ entry' = IF Kind = admin.op THEN None ELSE entry
    /\ Proceeds("lists")
    /\ UNCHANGED <<db, changed, writes, filter, rebuildLock, reader>>

\* The caller may ask for a warm-up.
Optional == \/ Proceeds("warm")
            \/ AdminEnds("found")

DeleteProductLists ==
    /\ Busy("lists")
    /\ entry' = IF Kind = "list" THEN None ELSE entry
    /\ IF admin.op = "product" THEN Proceeds("stock") ELSE Optional
    /\ UNCHANGED <<db, changed, writes, filter, rebuildLock, reader>>

\* The stock in Redis, which is not an entry of these caches.
SetStock ==
    /\ Busy("stock")
    /\ Optional
    /\ UNCHANGED <<db, changed, writes, entry, filter, rebuildLock, reader>>

\* The filter gets the first 100 products; the details go under a key nobody reads.
WarmProducts ==
    /\ Busy("warm")
    /\ \/ filter' = (filter \/ (Kind = "product" /\ Listed))
       \/ StoreError /\ UNCHANGED filter
    /\ IF Kind = "activity" THEN Proceeds("current") ELSE AdminEnds("found")
    /\ UNCHANGED <<db, changed, writes, entry, rebuildLock, reader>>

\* The current activity, if there is one, is cached without the lock.
WarmCurrent ==
    /\ Busy("current")
    /\ \/ db["activity"] # 0 /\ admin' = [admin EXCEPT !.pc = "fill", !.seen = db, !.held = 0]
       \/ db["activity"] = 0 /\ AdminEnds("found")
       \/ TxError /\ AdminEnds("found")
    /\ UNCHANGED <<db, changed, writes, entry, filter, rebuildLock, reader>>

WarmFill ==
    /\ Busy("fill")
    /\ Writes(admin.seen, None)
    /\ AdminEnds("found")
    /\ UNCHANGED <<db, changed, writes, filter, rebuildLock, reader>>

\* A statement or a command of the update fails and ends it, done or not.
UpdateRowFails ==
    /\ \/ TxError /\ admin.pc \in {"goods", "sku", "activity", "stock", "warm"}
       \/ StoreError /\ admin.pc \in {"first", "lists", "stock"}
       \/ "Crash" \in CacheFaults /\ admin.pc # "idle"
    /\ AdminEnds("failed")
    /\ UNCHANGED <<db, changed, writes, entry, filter, rebuildLock, reader>>

\* An activity begins or ends.
ClockTurns ==
    /\ writes < MaxWrites
    /\ \E v \in Version : v # db["activity"] /\ 0 \in {v, db["activity"]} /\ WriteRow("activity", v)
    /\ UNCHANGED <<entry, filter, rebuildLock, reader, admin>>

-------------------------------------------------------------------------------
ReaderStep(r) ==
    \/ Filter(r) \/ Look(r) \/ AcquireLock(r) \/ Relook(r) \/ Direct(r)
    \/ DoubleCheck(r) \/ ReadPart(r) \/ Fill(r) \/ ReleaseLock(r)

AdminStep ==
    \/ \E p \in Part : UpdateRow(p)
    \/ DeleteFirst \/ DeleteProductLists \/ SetStock
    \/ WarmProducts \/ WarmCurrent \/ WarmFill

CacheNext ==
    \/ CacheTick
    \/ \E r \in Reader : ReaderStep(r) \/ ReaderCrash(r)
    \/ Request \/ StartUp \/ AdminStep \/ UpdateRowFails
    \/ ClockTurns

CacheSpec == CacheInit /\ [][CacheNext]_cacheVars

\* A call in progress goes on, and time with it.
CacheFairness ==
    /\ WF_cacheVars(CacheTick)
    /\ \A r \in Reader : WF_cacheVars(ReaderStep(r))

CacheFairSpec == CacheSpec /\ CacheFairness

-------------------------------------------------------------------------------
(* Properties. *)

\* A rebuild or the warm-up that read before an update may write after it, and an
\* update whose deletes fail leaves the entry: in both cases the old entry is gone
\* when the longest life and the longest rebuild have passed since the last write.
StalenessBounded == entry # None /\ entry.value # db => changed <= Hold + LongLife

\* An update that was answered with success has left no entry from before it: an old
\* one was written by a rebuild that had read before the update.
UpdateIsSeen ==
    admin.pc = "idle" /\ admin.op = "product" /\ admin.answer = "found" /\ entry # None =>
        entry.late \/ \A p \in {"sku", "goods"} : entry.value[p] = db[p]

\* What two rebuilds read never overlaps: the lock is held from the check to the
\* fill, whoever crashed with it before and whatever its time to live.
OneRebuild ==
    \A r, s \in Reader : r # s => ~(Rebuilding(r) /\ Rebuilding(s))

\* A call that reads is answered, also when the process that holds the lock of the
\* rebuild has stopped.
EveryReaderAnswers == \A r \in Reader : <>(reader[r].pc \in {"done", "gone"})

-------------------------------------------------------------------------------
(* What the code does not keep; the README says how it comes about. *)

\* A product that is sold is not answered with "商品不存在".
KnownIsFound == \A r \in Reader : Kind = "product" => reader[r].answer # "notfound"

\* An update of rows that are there is not answered with "not found".
KnownIsUpdated == admin.answer # "notfound"

\* Whether a product was bought is answered for the user who asks.
OwnPurchases == \A r \in Reader : reader[r].answer = "found" => reader[r].of \in {r, None}
===============================================================================
