--------------------------- MODULE CacheAsideProofs ---------------------------
(***************************************************************************)
(* Entries of the cache: how long one may be old, that one call rebuilds   *)
(* it at a time, and what an update of a product leaves in it.             *)
(***************************************************************************)
EXTENDS CacheAside, FiniteSetTheorems, TLAPS

-------------------------------------------------------------------------------
(* Types and age. *)

\* The parts of the type of the state.
ReaderPc == {"filter", "look", "lock", "relook", "direct", "check", "read", "fill",
             "release", "done", "gone"}
AdminPc == {"idle", "goods", "sku", "activity", "first", "lists", "stock", "warm",
            "current", "fill"}
ReaderCall == [pc : ReaderPc, seen : Partial, of : Reader \cup {None}, held : 0 .. Hold,
         answer : ReaderAnswer]
AdminCall == [pc : AdminPc, op : {"none", "activity", "product", "warm"}, want : Version,
              seen : Partial, held : 0 .. Hold, answer : ReaderAnswer]
Entry == [value : Value, of : Reader \cup {None}, late : BOOLEAN, left : 1 .. LongLife]
Lock == [by : Reader, left : 1 .. LockTtl]

\* What a call has read: all rows when it fills, some but not all before; a row that is
\* different by now was written while the call was rebuilding.
CallOK(c) ==
    /\ c \in ReaderCall
    /\ c.pc = "fill" => DOMAIN c.seen = Part
    /\ c.pc = "read" => DOMAIN c.seen # Part
    /\ c.pc \notin {"read", "fill"} => DOMAIN c.seen = {}
    /\ \A p \in DOMAIN c.seen : c.seen[p] # db[p] => changed <= c.held

AdminOK(a) ==
    /\ a \in AdminCall
    /\ a.pc = "fill" => a.seen \in Value /\ (a.seen # db => changed <= a.held)

\* An old entry was written at most Hold ticks after the change.
EntryOK(e) == e = None \/ /\ e \in Entry
                          /\ e.value # db => changed + e.left <= Hold + LongLife

LockOK(l) == l = None \/ l \in Lock

CacheInv ==
    /\ db \in Value
    /\ changed \in 0 .. MaxChanged
    /\ writes \in 0 .. MaxWrites
    /\ filter \in BOOLEAN
    /\ EntryOK(entry)
    /\ LockOK(rebuildLock)
    /\ DOMAIN reader = Reader /\ reader \in [Reader -> ReaderCall]
    /\ \A r \in Reader : CallOK(reader[r])
    /\ AdminOK(admin)

LEMMA CacheInvTypes == CacheInv => CacheTypeOK
  BY DEF CacheInv, CacheTypeOK, EntryOK, LockOK, CallOK, AdminOK, ReaderCall, AdminCall,
         Entry, Lock, ReaderPc, AdminPc

LEMMA LongestLife ==
    /\ LongLife \in Life /\ LongLife \in Nat \ {0}
    /\ \A m \in Life : m \in 1 .. LongLife
    /\ MaxChanged = Hold + LongLife + 1 /\ Hold \in Nat /\ LockTtl \in Nat \ {0}
<1>1. \E l \in Life : \A m \in Life : m <= l
  BY CacheAssumption
<1>2. LongLife \in Life /\ \A m \in Life : m <= LongLife
  BY <1>1 DEF LongLife
<1> QED
  BY <1>2, CacheAssumption DEF MaxChanged

LEMMA RowsOfKind ==
    /\ Part \subseteq {"activity", "sku", "goods"}
    /\ "activity" \in Part
    /\ Kind # "activity" => Part = {"activity", "sku", "goods"}
    /\ Kind = "activity" => Part = {"activity"}
  BY DEF Part

\* While not all rows are read there is a next one.
LEMMA NextIsPart ==
    ASSUME NEW seen \in Partial, DOMAIN seen # Part
    PROVE  NextPart(seen) \in Part
<1>1. DOMAIN seen \subseteq Part
  BY DEF Partial
<1>2. CASE Kind = "activity"
  <2>1. DOMAIN seen = {}
    BY <1>1, <1>2, RowsOfKind
  <2>2. Cardinality({}) = 0
    BY FS_EmptySet
  <2> QED
    BY <1>2, <2>1, <2>2, RowsOfKind DEF NextPart, ReadOrder
<1>3. CASE Kind # "activity"
  <2>1. IsFiniteSet(Part) /\ Cardinality(Part) = 3
    <3>1. IsFiniteSet({"activity"}) /\ Cardinality({"activity"}) = 1
      BY FS_Singleton
    <3>2. /\ IsFiniteSet({"activity"} \cup {"sku"})
          /\ Cardinality({"activity"} \cup {"sku"}) = 2
      BY <3>1, FS_AddElement
    <3>3. /\ IsFiniteSet(({"activity"} \cup {"sku"}) \cup {"goods"})
          /\ Cardinality(({"activity"} \cup {"sku"}) \cup {"goods"}) = 3
      <4> DEFINE two == {"activity"} \cup {"sku"}
      <4>1. "goods" \notin two /\ IsFiniteSet(two) /\ Cardinality(two) = 2
        BY <3>2
      <4> HIDE DEF two
      <4>2. IsFiniteSet(two \cup {"goods"}) /\ Cardinality(two \cup {"goods"}) = Cardinality(two) + 1
        BY <4>1, FS_AddElement
      <4> QED
        BY <4>1, <4>2 DEF two
    <3>4. Part = ({"activity"} \cup {"sku"}) \cup {"goods"}
      BY <1>3, RowsOfKind
    <3> QED
      BY <3>3, <3>4
  <2>2. /\ Cardinality(DOMAIN seen) \in Nat
        /\ Cardinality(DOMAIN seen) < 3
    BY <1>1, <2>1, FS_Subset, FS_CardinalityType
  <2>3. Cardinality(DOMAIN seen) + 1 \in {1, 2, 3}
    BY <2>2
  <2>4. Kind \in {"product", "list"}
    BY <1>3, CacheAssumption
  <2> QED
    BY <1>3, <2>3, <2>4, RowsOfKind DEF NextPart, ReadOrder
<1> QED
  BY <1>2, <1>3

\* A row more.
LEMMA ReadsOneMore ==
    ASSUME CacheInv, NEW r \in Reader, At(r, "read")
    PROVE  LET seen == Extended(reader[r].seen, NextPart(reader[r].seen))
           IN  /\ seen \in Partial
               /\ \A p \in DOMAIN seen : seen[p] # db[p] => changed <= reader[r].held
<1> DEFINE old == reader[r].seen
           p == NextPart(old)
           seen == Extended(old, p)
<1>1. CallOK(reader[r]) /\ old \in Partial /\ DOMAIN old # Part
  BY DEF CacheInv, CallOK, ReaderCall, At
<1>2. p \in Part /\ db \in [Part -> Version]
  BY <1>1, NextIsPart DEF CacheInv, Value
<1>3. PICK P \in SUBSET Part : old \in [P -> Version]
  BY <1>1 DEF Partial
<1> HIDE DEF p
<1>4. seen \in [P \cup {p} -> Version]
  BY <1>2, <1>3 DEF Extended
<1>5. seen \in Partial
  BY <1>2, <1>4 DEF Partial
<1>6. \A q \in DOMAIN seen : seen[q] # db[q] => changed <= reader[r].held
  BY <1>1, <1>3 DEF Extended, CallOK
<1> QED
  BY <1>5, <1>6 DEF p

LEMMA NothingSeen == <<>> \in Partial /\ DOMAIN <<>> = {}
<1>1. DOMAIN <<>> = {}
  OBVIOUS
<1>2. <<>> \in [{} -> Version]
  OBVIOUS
<1> QED
  BY <1>1, <1>2 DEF Partial

\* A call is replaced by another that is all right.
LEMMA CallChanges ==
    ASSUME CacheInv, NEW r \in Reader, NEW c, CallOK(c),
           reader' = [reader EXCEPT ![r] = c], UNCHANGED <<db, changed>>
    PROVE  /\ reader' \in [Reader -> ReaderCall]
           /\ \A s \in Reader : CallOK(reader[s])'
<1>1. \A d : CallOK(d) <=> CallOK(d)'
  BY DEF CallOK
<1> QED
  BY DEF CacheInv, CallOK

\* A call that goes on with nothing read, that has its answer or that is gone.
LEMMA CallStays ==
    ASSUME CacheInv, NEW r \in Reader
    PROVE  /\ \A pc \in ReaderPc \ {"read", "fill"} :
                 reader[r].pc \notin {"read", "fill"} =>
                    /\ CallOK([reader[r] EXCEPT !.pc = pc])
                    /\ CallOK([reader[r] EXCEPT !.pc = pc, !.held = 0])
           /\ \A pc \in ReaderPc \ {"read", "fill"}, of \in Reader \cup {None},
                 answer \in ReaderAnswer :
                 CallOK([pc |-> pc, seen |-> <<>>, of |-> of, held |-> 0,
                         answer |-> answer])
           /\ reader[r].pc \notin {"read", "fill"} =>
                 CallOK([reader[r] EXCEPT !.pc = "read"])
<1>1. /\ reader[r] \in ReaderCall
      /\ reader[r].pc \notin {"read", "fill"} => DOMAIN reader[r].seen = {}
  BY DEF CacheInv, CallOK
<1>2. 0 \in 0 .. Hold
  BY CacheAssumption
<1>3. \A pc \in ReaderPc \ {"read", "fill"} :
         reader[r].pc \notin {"read", "fill"} =>
            /\ CallOK([reader[r] EXCEPT !.pc = pc])
            /\ CallOK([reader[r] EXCEPT !.pc = pc, !.held = 0])
  BY <1>1, <1>2 DEF CallOK, ReaderCall
<1>4. \A pc \in ReaderPc \ {"read", "fill"}, of \in Reader \cup {None},
         answer \in ReaderAnswer :
         CallOK([pc |-> pc, seen |-> <<>>, of |-> of, held |-> 0, answer |-> answer])
  BY <1>2, NothingSeen DEF CallOK, ReaderCall
<1>5. reader[r].pc \notin {"read", "fill"} => CallOK([reader[r] EXCEPT !.pc = "read"])
  BY <1>1, RowsOfKind DEF CallOK, ReaderCall, ReaderPc
<1> QED
  BY <1>3, <1>4, <1>5

\* Each step of a call leaves it all right.
LEMMA ReaderKept ==
    ASSUME CacheInv, NEW r \in Reader, ReaderStep(r) \/ ReaderCrash(r)
    PROVE  /\ reader' \in [Reader -> ReaderCall]
           /\ \A s \in Reader : CallOK(reader[s])'
<1> DEFINE old == reader[r]
           Goal == \E c : CallOK(c) /\ reader' = [reader EXCEPT ![r] = c]
           Ended(pc, of, answer) ==
              [pc |-> pc, seen |-> <<>>, of |-> of, held |-> 0, answer |-> answer]
<1>0. /\ reader \in [Reader -> ReaderCall] /\ old \in ReaderCall
      /\ UNCHANGED <<db, changed>>
  BY DEF CacheInv, ReaderStep, Filter, Look, AcquireLock, Relook, Direct, DoubleCheck,
         ReadPart, Fill, ReleaseLock, ReaderCrash
<1> SUFFICES Goal
  BY <1>0, CallChanges
<1>1. ASSUME NEW pc \in ReaderPc \ {"read", "fill"}, old.pc \notin {"read", "fill"},
             ReaderGoes(r, pc)
      PROVE  Goal
  <2>1. reader' = [reader EXCEPT ![r] = [old EXCEPT !.pc = pc]]
    BY <1>0, <1>1 DEF ReaderGoes
  <2> QED
    BY <1>1, <2>1, CallStays
<1>2. ASSUME old.pc \notin {"read", "fill"}, ReaderGoes(r, "read")
      PROVE  Goal
  <2>1. reader' = [reader EXCEPT ![r] = [old EXCEPT !.pc = "read"]]
    BY <1>0, <1>2 DEF ReaderGoes
  <2> QED
    BY <1>2, <2>1, CallStays
<1>3. ASSUME NEW of \in Reader \cup {None}, NEW answer \in ReaderAnswer,
             Replies(r, answer, of)
      PROVE  Goal
  <2>1. Exit(r) \in ReaderPc \ {"read", "fill"}
    BY DEF Exit, ReaderPc
  <2>2. reader' = [reader EXCEPT ![r] = Ended(Exit(r), of, answer)]
    BY <1>3 DEF Replies
  <2> QED
    BY <2>1, <2>2, CallStays
<1>4. ASSUME NEW answer \in ReaderAnswer, Answers(r, answer) PROVE Goal
  BY <1>3, <1>4 DEF Answers
<1>5. ASSUME Finds(r) PROVE Goal
  <2>1. entry.of \in Reader \cup {None}
    BY <1>5 DEF Finds, CacheInv, EntryOK, Entry
  <2>2. AnswerOf(entry.value) \in ReaderAnswer
    BY DEF AnswerOf, ReaderAnswer
  <2> QED
    BY <1>3, <1>5, <2>1, <2>2 DEF Finds
<1>6. First \in ReaderPc \ {"read", "fill"}
  BY DEF First, ReaderPc
<1>7. CASE Filter(r)
  BY <1>1, <1>4, <1>7 DEF Filter, At, ReaderPc, ReaderAnswer
<1>8. CASE Look(r)
  BY <1>1, <1>2, <1>5, <1>8 DEF Look, At, ReaderPc
<1>9. CASE AcquireLock(r)
  <2>1. CASE reader' = [reader EXCEPT ![r] = [@ EXCEPT !.pc = "check", !.held = 0]]
    <3>1. reader' = [reader EXCEPT ![r] = [old EXCEPT !.pc = "check", !.held = 0]]
      BY <1>0, <2>1
    <3> QED
      BY <1>9, <3>1, CallStays DEF AcquireLock, At, ReaderPc
  <2>2. CASE StartsAgain(r)
    BY <1>1, <1>6, <1>9, <2>2 DEF AcquireLock, At, StartsAgain
  <2>3. CASE ReaderGoes(r, IF Kind = "product" THEN "relook" ELSE "direct")
    BY <1>1, <1>9, <2>3 DEF AcquireLock, At, ReaderPc
  <2> QED
    BY <1>9, <2>1, <2>2, <2>3 DEF AcquireLock
<1>10. CASE Relook(r)
  BY <1>4, <1>5, <1>10 DEF Relook, ReaderAnswer
<1>11. CASE Direct(r)
  BY <1>4, <1>11 DEF Direct, AnswerOf, ReaderAnswer
<1>12. CASE DoubleCheck(r)
  BY <1>2, <1>5, <1>12 DEF DoubleCheck, At
<1>13. CASE ReadPart(r)
  <2> DEFINE seen == Extended(old.seen, NextPart(old.seen))
             pc == IF DOMAIN seen = Part THEN "fill" ELSE "read"
  <2>1. CASE reader' = [reader EXCEPT ![r] = [@ EXCEPT !.seen = seen, !.pc = pc]]
    <3>1. /\ seen \in Partial
          /\ \A p \in DOMAIN seen : seen[p] # db[p] => changed <= old.held
      BY <1>13, ReadsOneMore DEF ReadPart
    <3> HIDE DEF seen
    <3>2. reader' = [reader EXCEPT ![r] = [old EXCEPT !.seen = seen, !.pc = pc]]
      BY <1>0, <2>1
    <3>3. CallOK([old EXCEPT !.seen = seen, !.pc = pc])
      BY <1>0, <3>1 DEF CallOK, ReaderCall, ReaderPc
    <3> QED
      BY <3>2, <3>3
  <2>2. CASE Answers(r, "failed")
    BY <1>4, <2>2 DEF ReaderAnswer
  <2> QED
    BY <1>13, <2>1, <2>2 DEF ReadPart
<1>14. CASE Fill(r)
  BY <1>3, <1>14 DEF Fill, AnswerOf, ReaderAnswer
<1>15. CASE ReleaseLock(r)
  BY <1>1, <1>15 DEF ReleaseLock, At, ReaderPc
<1>16. CASE ReaderCrash(r)
  <2>1. reader' = [reader EXCEPT ![r] = Ended("gone", None, "none")]
    BY <1>16 DEF ReaderCrash
  <2> QED
    BY <2>1, CallStays DEF ReaderPc, ReaderAnswer
<1> QED
  BY <1>7, <1>8, <1>9, <1>10, <1>11, <1>12, <1>13, <1>14, <1>15, <1>16 DEF ReaderStep

\* What is cached is all rows, none of them too old.
LEMMA WrittenOK ==
    ASSUME CacheInv, NEW value \in Value, NEW of \in Reader \cup {None},
           value # db => changed <= Hold, Writes(value, of), UNCHANGED <<db, changed>>
    PROVE  EntryOK(entry)'
<1>1. CASE UNCHANGED entry
  BY <1>1 DEF CacheInv, EntryOK
<1>2. ASSUME NEW l \in Life,
             entry' = [value |-> value, of |-> of, late |-> value # db, left |-> l]
      PROVE  EntryOK(entry)'
  <2>1. l \in 1 .. LongLife /\ LongLife \in Nat /\ Hold \in Nat
    BY LongestLife
  <2>2. entry' \in Entry
    BY <1>2, <2>1 DEF Entry
  <2>3. changed \in Nat
    BY LongestLife DEF CacheInv
  <2> QED
    BY <1>2, <2>1, <2>2, <2>3 DEF EntryOK
<1> QED
  BY <1>1, <1>2 DEF Writes

LEMMA ReaderStepOK ==
    ASSUME CacheInv, NEW r \in Reader, ReaderStep(r) \/ ReaderCrash(r)
    PROVE  CacheInv'
<1>0. UNCHANGED <<db, changed, writes, filter, admin>>
  BY DEF ReaderStep, Filter, Look, AcquireLock, Relook, Direct, DoubleCheck, ReadPart,
         Fill, ReleaseLock, ReaderCrash
<1>1. reader' \in [Reader -> ReaderCall] /\ \A s \in Reader : CallOK(reader[s])'
  BY ReaderKept
<1>2. EntryOK(entry)'
  <2>1. CASE UNCHANGED entry
    BY <1>0, <2>1 DEF CacheInv, EntryOK
  <2>2. CASE Fill(r)
    <3> DEFINE value == reader[r].seen
    <3>1. CallOK(reader[r]) /\ reader[r].pc = "fill" /\ db \in Value
      BY <2>2 DEF Fill, At, CacheInv
    <3>2. value \in Partial /\ DOMAIN value = Part /\ reader[r].held \in 0 .. Hold
      BY <3>1 DEF CallOK, ReaderCall
    <3>3. value \in Value
      BY <3>2 DEF Partial, Value
    <3>4. value # db => \E p \in Part : value[p] # db[p]
      BY <3>1, <3>3 DEF Value
    <3>5. value # db => changed <= Hold
      BY <3>1, <3>2, <3>4, LongestLife DEF CallOK, CacheInv
    <3>6. PICK of \in Reader \cup {None} : Writes(value, of)
      BY <2>2 DEF Fill
    <3> QED
      BY <1>0, <3>3, <3>5, <3>6, WrittenOK
  <2> QED
    BY <2>1, <2>2 DEF ReaderStep, Filter, Look, AcquireLock, Relook, Direct, DoubleCheck,
                      ReadPart, ReleaseLock, ReaderCrash
<1>3. LockOK(rebuildLock)'
  BY LongestLife
     DEF CacheInv, LockOK, Lock, Take, ReaderStep, Filter, Look, AcquireLock, Relook,
         Direct, DoubleCheck, ReadPart, Fill, ReleaseLock, ReaderCrash
<1>4. AdminOK(admin)'
  BY <1>0 DEF CacheInv, AdminOK
<1> QED
  BY <1>0, <1>1, <1>2, <1>3, <1>4 DEF CacheInv

-------------------------------------------------------------------------------

\* A row is written: what differs from it from now on has changed just now.
LEMMA RowWritten ==
    ASSUME CacheInv, NEW p \in Part, NEW v \in Version, WriteRow(p, v), writes < MaxWrites,
           UNCHANGED <<entry, filter, rebuildLock, reader>>,
           admin' \in AdminCall, admin'.pc # "fill" \/ UNCHANGED admin
    PROVE  CacheInv'
<1>1. /\ db' \in Value /\ changed' \in 0 .. MaxChanged /\ writes' \in 0 .. MaxWrites
      /\ changed \in Nat
  BY LongestLife, CacheAssumption DEF CacheInv, WriteRow, Value
<1>2. \/ db' = db /\ changed' = changed
      \/ changed' = 0
  BY DEF WriteRow, CacheInv, Value
<1>3. EntryOK(entry)'
  BY <1>1, <1>2, LongestLife DEF CacheInv, EntryOK, Entry
<1>4. \A s \in Reader : CallOK(reader[s])'
  BY <1>1, <1>2 DEF CacheInv, CallOK, ReaderCall
<1>5. AdminOK(admin)'
  BY <1>1, <1>2 DEF CacheInv, AdminOK, AdminCall
<1>6. LockOK(rebuildLock)'
  BY DEF CacheInv, LockOK
<1> QED
  BY <1>1, <1>3, <1>4, <1>5, <1>6 DEF CacheInv

\* A step of the update or the warm-up that writes no row.
LEMMA AdminMoves ==
    ASSUME CacheInv, UNCHANGED <<db, changed, writes, rebuildLock, reader>>,
           filter' \in BOOLEAN, EntryOK(entry)', AdminOK(admin')
    PROVE  CacheInv'
<1>0. /\ \A s \in Reader : CallOK(reader[s])
      /\ db' = db /\ changed' = changed /\ reader' = reader
  BY DEF CacheInv
<1>1. \A s \in Reader : CallOK(reader[s])'
  BY <1>0 DEF CallOK
<1>2. AdminOK(admin)'
  BY <1>0 DEF AdminOK
<1> QED
  BY <1>1, <1>2 DEF CacheInv, LockOK

\* A command of an update or a warm-up, or its end.
LEMMA AdminCalls ==
    ASSUME CacheInv
    PROVE  /\ \A pc \in AdminPc \ {"fill"} :
                 Proceeds(pc) => admin' \in AdminCall /\ admin'.pc # "fill" /\ AdminOK(admin')
           /\ \A answer \in ReaderAnswer : AdminEnds(answer) => AdminOK(admin')
<1>1. admin \in AdminCall
  BY DEF CacheInv, AdminOK
<1>2. ASSUME NEW pc \in AdminPc \ {"fill"}, Proceeds(pc)
      PROVE  admin' \in AdminCall /\ admin'.pc # "fill"
  BY <1>1, <1>2 DEF Proceeds, AdminCall
<1>3. ASSUME NEW answer \in ReaderAnswer, AdminEnds(answer)
      PROVE  admin' \in AdminCall /\ admin'.pc # "fill"
  <2>1. admin' = [pc |-> "idle", op |-> admin.op, want |-> 0, seen |-> <<>>, held |-> 0,
                  answer |-> answer]
    BY <1>3 DEF AdminEnds, Idle
  <2>2. admin.op \in {"none", "activity", "product", "warm"}
    BY <1>1 DEF AdminCall
  <2> QED
    BY <2>1, <2>2, NothingSeen, CacheAssumption, LongestLife DEF AdminCall, AdminPc
<1>4. admin' \in AdminCall /\ admin'.pc # "fill" => AdminOK(admin')
  BY DEF AdminOK
<1> QED
  BY <1>2, <1>3, <1>4

\* Its begin.
Begun(op, want, pc) ==
    [pc |-> pc, op |-> op, want |-> want, seen |-> <<>>, held |-> 0, answer |-> "none"]

LEMMA AdminBegins ==
    ASSUME NEW op \in {"activity", "product", "warm"}, NEW want \in Version,
           NEW pc \in AdminPc \ {"fill"}
    PROVE  AdminOK(Begun(op, want, pc))
<1>1. Begun(op, want, pc) \in AdminCall
  BY NothingSeen, CacheAssumption, LongestLife DEF Begun, AdminCall, ReaderAnswer
<1>2. Begun(op, want, pc).pc # "fill"
  BY DEF Begun
<1> QED
  BY <1>1, <1>2 DEF AdminOK

\* Each step of an update or a warm-up.
LEMMA AdminStepOK ==
    ASSUME CacheInv, Request \/ StartUp \/ AdminStep \/ UpdateRowFails
    PROVE  CacheInv'
<1> DEFINE Ends == \E answer \in ReaderAnswer : AdminEnds(answer)
           Goes == \E pc \in AdminPc \ {"fill"} : Proceeds(pc)
<1>0. /\ EntryOK(entry) /\ filter \in BOOLEAN /\ admin \in AdminCall
      /\ UNCHANGED entry /\ UNCHANGED <<db, changed>> => EntryOK(entry)'
      /\ entry' = None => EntryOK(entry)'
  BY DEF CacheInv, EntryOK, AdminOK
<1>1. Ends \/ Goes => AdminOK(admin')
  BY Zenon, AdminCalls
<1>2. ASSUME Ends \/ Goes, UNCHANGED <<db, changed, writes, rebuildLock, reader>>,
             filter' \in BOOLEAN, entry' = None \/ UNCHANGED entry
      PROVE  CacheInv'
  BY <1>0, <1>1, <1>2, AdminMoves
<1>3. \A pc \in {"sku", "first", "lists", "stock", "warm", "current"} : Proceeds(pc) => Goes
  BY DEF AdminPc
<1>4. \A answer \in {"found", "notfound", "failed"} : AdminEnds(answer) => Ends
  BY DEF ReaderAnswer
<1>5. Optional => Ends \/ Goes
  BY <1>3, <1>4 DEF Optional
<1> HIDE DEF Ends, Goes
<1>6. CASE Request
  <2> DEFINE row(op) == IF op = "activity" THEN "activity" ELSE "goods"
  <2>1. PICK op \in {"activity"} \cup (IF Kind = "activity" THEN {} ELSE {"product"}),
             want \in Version :
           admin' = [Idle EXCEPT !.op = op, !.want = want, !.pc = row(op)]
    BY Zenon, <1>6 DEF Request
  <2>2. op \in {"activity", "product", "warm"} /\ row(op) \in AdminPc \ {"fill"}
    BY DEF AdminPc
  <2> HIDE DEF row
  <2>3. admin' = Begun(op, want, row(op))
    BY <2>1 DEF Idle, Begun
  <2>4. UNCHANGED <<db, changed, writes, entry, filter, rebuildLock, reader>>
    BY Zenon, <1>6 DEF Request
  <2>5. AdminOK(admin')
    BY Zenon, <2>2, <2>3, AdminBegins
  <2> QED
    BY <1>0, <2>4, <2>5, AdminMoves
<1>7. CASE StartUp
  <2>0. admin' = Begun("warm", 0, "warm") /\ 0 \in Version /\ "warm" \in AdminPc \ {"fill"}
    BY <1>7, CacheAssumption DEF StartUp, Idle, Begun, AdminPc
  <2>1. AdminOK(admin')
    BY <2>0, AdminBegins
  <2>2. UNCHANGED <<db, changed, writes, entry, filter, rebuildLock, reader>>
    BY Zenon, <1>7 DEF StartUp
  <2> QED
    BY <1>0, <2>1, <2>2, AdminMoves
<1>8. ASSUME NEW p \in Part, UpdateRow(p) PROVE CacheInv'
  <2>1. CASE WriteRow(p, admin.want) /\ writes < MaxWrites /\ Proceeds(AfterRow(p))
    <3>1. AfterRow(p) \in AdminPc \ {"fill"} /\ AfterRow(p) # "fill"
      BY DEF AfterRow, AdminPc
    <3>2. admin' \in AdminCall /\ admin'.pc # "fill"
      BY <2>1, <3>1, AdminCalls
    <3>3. admin.want \in Version
      BY <1>0 DEF AdminCall
    <3> QED
      BY <1>8, <2>1, <3>2, <3>3, RowWritten DEF UpdateRow
  <2>2. CASE AdminEnds("notfound") /\ UNCHANGED <<db, changed, writes>>
    BY <1>0, <1>2, <1>4, <1>8, <2>2 DEF UpdateRow
  <2> QED
    BY <1>8, <2>1, <2>2 DEF UpdateRow
<1>9. CASE DeleteFirst
  BY <1>0, <1>2, <1>3, <1>9 DEF DeleteFirst
<1>10. CASE DeleteProductLists
  BY <1>0, <1>2, <1>3, <1>5, <1>10 DEF DeleteProductLists
<1>11. CASE SetStock
  BY <1>0, <1>2, <1>5, <1>11 DEF SetStock
<1>12. CASE WarmProducts
  <2>1. filter' \in BOOLEAN
    BY <1>0, <1>12 DEF WarmProducts
  <2> QED
    BY <1>0, <1>2, <1>3, <1>4, <1>12, <2>1 DEF WarmProducts
<1>13. CASE WarmCurrent
  <2>1. CASE admin' = [admin EXCEPT !.pc = "fill", !.seen = db, !.held = 0]
    <3>1. db \in Value /\ db \in Partial /\ 0 \in 0 .. Hold
      BY CacheAssumption DEF CacheInv, Value, Partial
    <3>2. AdminOK(admin')
      BY <1>0, <2>1, <3>1 DEF AdminOK, AdminCall, AdminPc
    <3> QED
      BY <1>0, <1>13, <3>2, AdminMoves DEF WarmCurrent
  <2>2. CASE AdminEnds("found")
    BY <1>0, <1>2, <1>4, <1>13, <2>2 DEF WarmCurrent
  <2> QED
    BY <1>13, <2>1, <2>2 DEF WarmCurrent
<1>14. CASE WarmFill
  <2>1. /\ admin.pc = "fill" /\ AdminOK(admin) /\ changed \in Nat
    BY <1>14, LongestLife DEF WarmFill, Busy, CacheInv
  <2>2. admin.seen \in Value /\ (admin.seen # db => changed <= Hold)
    BY <2>1, LongestLife DEF AdminOK, AdminCall
  <2>3. EntryOK(entry)'
    BY <1>14, <2>2, WrittenOK DEF WarmFill
  <2> QED
    BY <1>0, <1>1, <1>4, <1>14, <2>3, AdminMoves DEF WarmFill
<1>15. CASE UpdateRowFails
  BY <1>0, <1>2, <1>4, <1>15 DEF UpdateRowFails
<1> QED
  BY <1>6, <1>7, <1>8, <1>9, <1>10, <1>11, <1>12, <1>13, <1>14, <1>15 DEF AdminStep

LEMMA ClockTurnsOK ==
    ASSUME CacheInv, ClockTurns
    PROVE  CacheInv'
<1>1. PICK v \in Version : WriteRow("activity", v)
  BY DEF ClockTurns
<1>2. admin' \in AdminCall
  BY DEF ClockTurns, CacheInv, AdminOK
<1> QED
  BY <1>1, <1>2, RowsOfKind, RowWritten DEF ClockTurns

\* A tick makes what is cached a tick older, and a rebuild a tick longer.
LEMMA TickOK ==
    ASSUME CacheInv, CacheTick
    PROVE  CacheInv'
<1>0. /\ UNCHANGED <<db, writes, filter>>
      /\ changed \in 0 .. MaxChanged /\ MaxChanged = Hold + LongLife + 1
      /\ Hold \in Nat /\ LongLife \in Nat /\ LockTtl \in Nat
      /\ changed' = IF changed = MaxChanged THEN MaxChanged ELSE changed + 1
  BY LongestLife DEF CacheTick, CacheInv
<1>1. changed' \in 0 .. MaxChanged /\ changed' <= changed + 1
  BY <1>0
<1>2. EntryOK(entry)'
  BY <1>0, <1>1 DEF CacheTick, CacheInv, EntryOK, Entry, OneTickLess
<1>3. LockOK(rebuildLock)'
  BY <1>0 DEF CacheTick, CacheInv, LockOK, Lock, OneTickLess
<1>4. ASSUME NEW r \in Reader PROVE reader'[r] \in ReaderCall /\ CallOK(reader[r])'
  <2>1. CallOK(reader[r]) /\ reader[r].held \in 0 .. Hold /\ reader[r] \in ReaderCall
    BY DEF CacheInv, CallOK, ReaderCall
  <2>2. CASE Rebuilding(r)
    <3>1. reader'[r] = [reader[r] EXCEPT !.held = reader[r].held + 1]
      BY <2>2 DEF CacheTick
    <3>2. reader[r].held + 1 \in 0 .. Hold
      BY <1>0, <2>1, <2>2 DEF CacheTick
    <3>3. reader'[r] \in ReaderCall
      BY <2>1, <3>1, <3>2 DEF ReaderCall
    <3> QED
      BY <1>0, <1>1, <2>1, <3>1, <3>2, <3>3 DEF CallOK, ReaderCall
  <2>3. CASE ~Rebuilding(r)
    <3>1. reader'[r] = reader[r] /\ DOMAIN reader[r].seen = {}
      BY <2>1, <2>3 DEF CacheTick, Rebuilding, CallOK
    <3> QED
      BY <2>1, <2>3, <3>1 DEF CallOK, Rebuilding
  <2> QED
    BY <2>2, <2>3
<1>5. reader' \in [Reader -> ReaderCall]
  BY <1>4 DEF CacheTick
<1>6. AdminOK(admin)'
  <2>1. AdminOK(admin) /\ admin \in AdminCall /\ admin.held \in 0 .. Hold
    BY DEF CacheInv, AdminOK, AdminCall
  <2>2. CASE Refreshing
    <3>1. admin' = [admin EXCEPT !.held = admin.held + 1] /\ admin.held + 1 \in 0 .. Hold
      BY <1>0, <2>1, <2>2 DEF CacheTick
    <3>2. admin' \in AdminCall
      BY <2>1, <3>1 DEF AdminCall
    <3> QED
      BY <1>0, <1>1, <2>1, <3>1, <3>2 DEF AdminOK, AdminCall
  <2>3. CASE ~Refreshing
    BY <1>0, <2>1, <2>3 DEF CacheTick, Refreshing, AdminOK
  <2> QED
    BY <2>2, <2>3
<1> QED
  BY <1>0, <1>1, <1>2, <1>3, <1>4, <1>5, <1>6 DEF CacheInv

LEMMA CacheInitOK == CacheInit => CacheInv
<1> SUFFICES ASSUME CacheInit PROVE CacheInv
  OBVIOUS
<1>1. db \in Value
  BY DEF CacheInit, Value
<1>2. /\ changed \in 0 .. MaxChanged /\ writes \in 0 .. MaxWrites
  BY LongestLife, CacheAssumption DEF CacheInit
<1>3. \A r \in Reader : CallOK(reader[r]) /\ reader[r] \in ReaderCall
  BY NothingSeen, LongestLife
     DEF CacheInit, CallOK, ReaderCall, First, ReaderPc, ReaderAnswer
<1>4. AdminOK(admin)
  BY NothingSeen, LongestLife, CacheAssumption
     DEF CacheInit, AdminOK, AdminCall, AdminPc, Idle, ReaderAnswer
<1> QED
  BY <1>1, <1>2, <1>3, <1>4, CacheAssumption DEF CacheInit, CacheInv, EntryOK, LockOK

LEMMA CacheStep == CacheInv /\ [CacheNext]_cacheVars => CacheInv'
<1> SUFFICES ASSUME CacheInv, [CacheNext]_cacheVars PROVE CacheInv'
  OBVIOUS
<1>1. CASE UNCHANGED cacheVars
  <2>1. (\A r \in Reader : CallOK(reader[r])') /\ AdminOK(admin)'
    BY <1>1 DEF cacheVars, CacheInv, CallOK, AdminOK
  <2> QED
    BY <1>1, <2>1 DEF cacheVars, CacheInv, EntryOK, LockOK
<1> QED
  BY <1>1, ReaderStepOK, AdminStepOK, ClockTurnsOK, TickOK DEF CacheNext

LEMMA CacheInvariant == CacheSpec => []CacheInv
  BY CacheInitOK, CacheStep, PTL DEF CacheSpec

\* However many calls rebuild an entry beside however many updates and warm-ups, and
\* whatever fails, an entry that is not what the databases hold is gone when the
\* longest rebuild and the longest life have passed since they were written.
THEOREM StaleEntriesEnd == CacheSpec => [](CacheTypeOK /\ StalenessBounded)
<1>1. CacheInv => StalenessBounded
  BY LongestLife DEF CacheInv, EntryOK, Entry, StalenessBounded
<1> QED
  BY <1>1, CacheInvTypes, CacheInvariant, PTL

-------------------------------------------------------------------------------
(* One rebuild at a time. *)

\* A call that rebuilds holds the lock, whose time to live ends after the rebuild.
LockHeld ==
    \A r \in Reader : Rebuilding(r) =>
        /\ rebuildLock # None /\ rebuildLock.by = r
        /\ rebuildLock.left + reader[r].held >= LockTtl

LEMMA LockStep ==
    ASSUME Kind # "list", Hold < LockTtl, CacheInv, LockHeld, [CacheNext]_cacheVars
    PROVE  LockHeld'
<1>0. /\ reader \in [Reader -> ReaderCall] /\ LockOK(rebuildLock)
      /\ Hold \in Nat /\ LockTtl \in Nat \ {0}
      /\ \A r \in Reader : reader[r].held \in 0 .. Hold
  BY LongestLife DEF CacheInv, ReaderCall
<1>1. CASE UNCHANGED <<rebuildLock, reader>>
  BY <1>1 DEF LockHeld, Rebuilding
<1>2. ASSUME NEW r \in Reader, ReaderStep(r) \/ ReaderCrash(r)
      PROVE  LockHeld'
  <2>1. ASSUME NEW s \in Reader, s # r, Rebuilding(s)'
        PROVE  /\ rebuildLock' # None /\ rebuildLock'.by = s
               /\ rebuildLock'.left + reader'[s].held >= LockTtl
    <3>1. reader'[s] = reader[s]
      BY <1>0, <1>2, <2>1
         DEF ReaderStep, Filter, Look, AcquireLock, Relook, Direct, DoubleCheck,
             ReadPart, Fill, ReleaseLock, ReaderCrash, ReaderGoes, StartsAgain, Finds,
             Answers, Replies
    <3>2. Rebuilding(s)
      BY <2>1, <3>1 DEF Rebuilding
    <3>3. /\ rebuildLock # None /\ rebuildLock.by = s
          /\ rebuildLock.left + reader[s].held >= LockTtl
      BY <3>2 DEF LockHeld
    <3>4. rebuildLock' = rebuildLock
      BY <1>2, <2>1, <3>3
         DEF ReaderStep, Filter, Look, AcquireLock, Relook, Direct, DoubleCheck,
             ReadPart, Fill, ReleaseLock, ReaderCrash, Take
    <3> QED
      BY <3>1, <3>3, <3>4
  <2>2. ASSUME Rebuilding(r)'
        PROVE  /\ rebuildLock' # None /\ rebuildLock'.by = r
               /\ rebuildLock'.left + reader'[r].held >= LockTtl
    <3>1. ASSUME reader' = [reader EXCEPT ![r].pc = reader'[r].pc],
                 Rebuilding(r), UNCHANGED rebuildLock
          PROVE  /\ rebuildLock' # None /\ rebuildLock'.by = r
                 /\ rebuildLock'.left + reader'[r].held >= LockTtl
      BY <1>0, <3>1 DEF LockHeld, ReaderCall
    <3>2. \A pc : ReaderGoes(r, pc) =>
             /\ reader' = [reader EXCEPT ![r].pc = reader'[r].pc]
             /\ reader'[r].pc = pc
      BY <1>0 DEF ReaderGoes, ReaderCall
    <3>3. \A answer, of : ~Replies(r, answer, of)
      BY <1>0, <2>2 DEF Replies, Exit, Rebuilding
    <3>4. \A answer : ~Answers(r, answer)
      BY <3>3 DEF Answers
    <3>5. ~Finds(r)
      BY <3>3 DEF Finds
    <3>6. CASE AcquireLock(r)
      <4>1. ~StartsAgain(r)
        BY <2>2, <3>2 DEF StartsAgain, First, Rebuilding
      <4>2. ~ReaderGoes(r, IF Kind = "product" THEN "relook" ELSE "direct")
        BY <2>2, <3>2 DEF Rebuilding
      <4>3. Take(r) /\ reader' = [reader EXCEPT ![r] = [@ EXCEPT !.pc = "check", !.held = 0]]
        BY <3>6, <4>1, <4>2 DEF AcquireLock
      <4>4. reader'[r].held = 0
        BY <1>0, <4>3 DEF ReaderCall
      <4>5. rebuildLock' = [by |-> r, left |-> LockTtl]
        BY <4>3 DEF Take
      <4>6. rebuildLock' # None
        BY <1>0, <4>5, CacheAssumption
      <4> QED
        BY <1>0, <4>4, <4>5, <4>6
    <3>7. CASE DoubleCheck(r)
      BY <3>1, <3>2, <3>5, <3>7 DEF DoubleCheck, At, Rebuilding
    <3>8. CASE ReadPart(r)
      <4>1. reader'[r].held = reader[r].held /\ UNCHANGED rebuildLock /\ Rebuilding(r)
        BY <1>0, <3>4, <3>8 DEF ReadPart, At, Rebuilding, ReaderCall
      <4>2. /\ rebuildLock # None /\ rebuildLock.by = r
            /\ rebuildLock.left + reader[r].held >= LockTtl
        BY <4>1 DEF LockHeld
      <4>3. rebuildLock \in Lock /\ rebuildLock.left \in Nat /\ reader[r].held \in Nat
        BY <1>0, <4>2 DEF LockOK, Lock
      <4>4. rebuildLock' = rebuildLock /\ reader'[r].held = reader[r].held
        BY <4>1
      <4> QED
        BY <1>0, <4>2, <4>3, <4>4
    <3>9. ~Filter(r) /\ ~Look(r)
      BY <2>2, <3>2, <3>4, <3>5 DEF Filter, Look, Rebuilding
    <3>10. ~Relook(r) /\ ~Direct(r)
      BY <3>4, <3>5 DEF Relook, Direct
    <3>11. ~Fill(r) /\ ~ReleaseLock(r)
      BY <2>2, <3>2, <3>3 DEF Fill, ReleaseLock, Rebuilding
    <3>12. ~ReaderCrash(r)
      BY <1>0, <2>2 DEF ReaderCrash, Rebuilding
    <3> QED
      BY <1>2, <3>6, <3>7, <3>8, <3>9, <3>10, <3>11, <3>12 DEF ReaderStep
  <2> QED
    BY <2>1, <2>2 DEF LockHeld
<1>3. CASE CacheTick
  <2> SUFFICES ASSUME NEW r \in Reader, Rebuilding(r)'
               PROVE  /\ rebuildLock' # None /\ rebuildLock'.by = r
                      /\ rebuildLock'.left + reader'[r].held >= LockTtl
    BY DEF LockHeld
  <2>1. Rebuilding(r)
    BY <1>3 DEF CacheTick, Rebuilding
  <2>2. /\ reader[r].held < Hold /\ reader'[r].held = reader[r].held + 1
    BY <1>0, <1>3, <2>1 DEF CacheTick, ReaderCall
  <2>3. /\ rebuildLock # None /\ rebuildLock.by = r /\ rebuildLock \in Lock
        /\ rebuildLock.left + reader[r].held >= LockTtl
    BY <1>0, <2>1 DEF LockHeld, LockOK
  <2>4. rebuildLock.left \in Nat /\ rebuildLock.left # 1
    BY <1>0, <2>2, <2>3 DEF Lock
  <2>5. rebuildLock' = [rebuildLock EXCEPT !.left = rebuildLock.left - 1]
    BY <1>3, <2>3, <2>4 DEF CacheTick, OneTickLess
  <2>6. rebuildLock' \in [by : Reader, left : 1 .. LockTtl]
    BY <1>0, <2>3, <2>4, <2>5 DEF Lock
  <2>7. rebuildLock' # None
    BY <2>6, CacheAssumption
  <2> QED
    BY <1>0, <2>2, <2>3, <2>4, <2>5, <2>7 DEF Lock
<1> QED
  BY <1>1, <1>2, <1>3
     DEF CacheNext, cacheVars, Request, StartUp, AdminStep, UpdateRow, DeleteFirst,
         DeleteProductLists, SetStock, WarmProducts, WarmCurrent, WarmFill,
         UpdateRowFails, ClockTurns

\* If the time to live of the lock covers a rebuild, the rows are read by one call at
\* a time, however many wait, whoever stops with the lock and whatever command fails.
THEOREM RebuiltOnce ==
    Kind # "list" /\ Hold < LockTtl => (CacheSpec => []OneRebuild)
<1> SUFFICES ASSUME Kind # "list", Hold < LockTtl PROVE CacheSpec => []OneRebuild
  OBVIOUS
<1>1. CacheInit => LockHeld
  BY DEF CacheInit, LockHeld, Rebuilding, First
<1>2. CacheInv /\ LockHeld /\ [CacheNext]_cacheVars => LockHeld'
  BY LockStep
<1>3. LockHeld => OneRebuild
  BY DEF LockHeld, OneRebuild
<1> QED
  BY <1>1, <1>2, <1>3, CacheInvariant, PTL DEF CacheSpec

-------------------------------------------------------------------------------
(* What an update leaves behind. *)

\* The update of a product has written its rows and deleted the entry.
Updated ==
    /\ admin.op = "product"
    /\ \/ admin.pc \in {"lists", "stock", "warm", "current", "fill"}
       \/ admin.pc = "idle" /\ admin.answer = "found"

\* The entry was old when it was written, or is of the update.
SinceUpdate ==
    entry # None => entry.late \/ \A p \in {"sku", "goods"} : entry.value[p] = db[p]

SeenInv == Updated => SinceUpdate

LEMMA SeenStep ==
    ASSUME Kind = "product", CacheInv, SeenInv, [CacheNext]_cacheVars
    PROVE  SeenInv'
<1>0. /\ db \in [Part -> Version] /\ admin \in AdminCall /\ EntryOK(entry)
      /\ {"sku", "goods", "activity"} = Part
  BY RowsOfKind DEF CacheInv, Value, AdminOK
<1>1. ASSUME UNCHANGED <<db, entry>>, Updated' => Updated PROVE SeenInv'
  BY <1>1 DEF SeenInv, SinceUpdate
<1>2. ASSUME entry' = None PROVE SeenInv'
  BY <1>2 DEF SeenInv, SinceUpdate
<1>3. ASSUME ~Updated' PROVE SeenInv'
  BY <1>3 DEF SeenInv
<1>4. ASSUME NEW value, NEW of, Writes(value, of), UNCHANGED db, Updated' => Updated
      PROVE  SeenInv'
  <2>1. CASE UNCHANGED entry
    BY <1>1, <1>4, <2>1
  <2>2. ASSUME NEW l \in Life,
               entry' = [value |-> value, of |-> of, late |-> value # db, left |-> l]
        PROVE  SeenInv'
    BY <1>4, <2>2 DEF SeenInv, SinceUpdate
  <2> QED
    BY <1>4, <2>1, <2>2 DEF Writes
<1>5. \A pc \in {"lists", "stock", "warm"} :
         admin.pc \in {"lists", "stock", "warm", "current"} /\ Proceeds(pc)
         => (Updated' => Updated)
  BY <1>0 DEF Proceeds, Updated, AdminCall
<1>6. admin.pc \in {"lists", "stock", "warm", "current", "fill"} /\ AdminEnds("found")
      => (Updated' => Updated)
  BY <1>0 DEF AdminEnds, Updated, AdminCall, Idle
<1>7. \A answer \in {"notfound", "failed"} : AdminEnds(answer) => ~Updated'
  BY <1>0 DEF AdminEnds, Updated, AdminCall, Idle
<1>8. ASSUME NEW r \in Reader, ReaderStep(r) \/ ReaderCrash(r)
      PROVE  SeenInv'
  <2>1. UNCHANGED <<db, admin>> /\ (Updated' => Updated)
    BY <1>8
       DEF ReaderStep, Filter, Look, AcquireLock, Relook, Direct, DoubleCheck, ReadPart,
           Fill, ReleaseLock, ReaderCrash, Updated
  <2>2. CASE UNCHANGED entry
    BY <1>1, <2>1, <2>2
  <2>3. CASE Fill(r)
    BY <1>4, <2>1, <2>3 DEF Fill
  <2> QED
    BY <1>8, <2>2, <2>3
       DEF ReaderStep, Filter, Look, AcquireLock, Relook, Direct, DoubleCheck, ReadPart,
           ReleaseLock, ReaderCrash
<1>9. CASE CacheTick
  <2>1. Updated' => Updated
    BY <1>0, <1>9 DEF CacheTick, Updated, AdminCall
  <2>2. CASE entry' = None
    BY <1>2, <2>2
  <2>3. CASE entry # None /\ entry' = [entry EXCEPT !.left = entry.left - 1]
    BY <1>0, <1>9, <2>1, <2>3 DEF CacheTick, SeenInv, SinceUpdate, EntryOK, Entry
  <2> QED
    BY <1>9, <2>2, <2>3 DEF CacheTick, OneTickLess
<1>10. CASE Request
  BY <1>0, <1>3, <1>10 DEF Request, Updated, Idle
<1>11. CASE StartUp
  BY <1>0, <1>3, <1>11 DEF StartUp, Updated, Idle
<1>12. ASSUME NEW p \in Part, UpdateRow(p) PROVE SeenInv'
  <2>1. CASE Proceeds(AfterRow(p))
    <3>1. ~Updated'
      BY <1>0, <2>1 DEF Proceeds, AfterRow, Updated, AdminCall
    <3> QED
      BY <1>3, <3>1
  <2> QED
    BY <1>3, <1>7, <1>12, <2>1 DEF UpdateRow
<1>13. CASE DeleteFirst
  <2>1. CASE admin.op = "product"
    BY <1>2, <1>13, <2>1 DEF DeleteFirst
  <2>2. CASE admin.op # "product"
    BY <1>0, <1>3, <1>13, <2>2 DEF DeleteFirst, Proceeds, Updated, AdminCall
  <2> QED
    BY <2>1, <2>2
<1>14. Optional /\ admin.pc \in {"lists", "stock"} => (Updated' => Updated)
  BY <1>5, <1>6 DEF Optional
<1>15. CASE DeleteProductLists
  BY <1>1, <1>5, <1>14, <1>15 DEF DeleteProductLists, Busy
<1>16. CASE SetStock
  BY <1>1, <1>14, <1>16 DEF SetStock, Busy
<1>17. CASE WarmProducts
  BY <1>1, <1>6, <1>17 DEF WarmProducts, Busy
<1>18. CASE WarmCurrent
  <2>1. CASE admin' = [admin EXCEPT !.pc = "fill", !.seen = db, !.held = 0]
    BY <1>0, <1>1, <1>18, <2>1 DEF WarmCurrent, Busy, Updated, AdminCall
  <2>2. CASE AdminEnds("found")
    BY <1>1, <1>6, <1>18, <2>2 DEF WarmCurrent, Busy
  <2> QED
    BY <1>18, <2>1, <2>2 DEF WarmCurrent
<1>19. CASE WarmFill
  BY <1>4, <1>6, <1>19 DEF WarmFill, Busy
<1>20. CASE UpdateRowFails
  BY <1>3, <1>7, <1>20 DEF UpdateRowFails
<1>21. CASE ClockTurns
  <2>1. \A p \in {"sku", "goods"} : db'[p] = db[p]
    BY <1>0, <1>21 DEF ClockTurns, WriteRow
  <2>2. UNCHANGED <<entry, admin>>
    BY <1>21 DEF ClockTurns
  <2> QED
    BY <2>1, <2>2 DEF SeenInv, SinceUpdate, Updated
<1>22. CASE UNCHANGED cacheVars
  BY <1>1, <1>22 DEF cacheVars, Updated
<1> QED
  BY <1>8, <1>9, <1>10, <1>11, <1>12, <1>13, <1>15, <1>16, <1>17, <1>18, <1>19, <1>20,
     <1>21, <1>22 DEF CacheNext, AdminStep

\* After an update of a product that was answered with success, the detail in the
\* cache is of the update, but for what a rebuild that read before it wrote after it.
THEOREM UpdatesAreSeen == Kind = "product" => (CacheSpec => []UpdateIsSeen)
<1> SUFFICES ASSUME Kind = "product" PROVE CacheSpec => []UpdateIsSeen
  OBVIOUS
<1>1. CacheInit => SeenInv
  BY DEF CacheInit, SeenInv, Updated, Idle
<1>2. CacheInv /\ SeenInv /\ [CacheNext]_cacheVars => SeenInv'
  BY SeenStep
<1>3. SeenInv => UpdateIsSeen
  BY DEF SeenInv, Updated, SinceUpdate, UpdateIsSeen
<1> QED
  BY <1>1, <1>2, <1>3, CacheInvariant, PTL DEF CacheSpec
===============================================================================
