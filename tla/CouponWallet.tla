------------------------------ MODULE CouponWallet ------------------------------
(***************************************************************************)
(* GrantCouponByReview: calls that grant coupons, each in a transaction of *)
(* its own on the core database under REPEATABLE READ.  Rows are written   *)
(* when the transaction commits; until then its locks keep the others out. *)
(* A template is the one of a scene.                                       *)
(***************************************************************************)
EXTENDS Naturals, FiniteSets, Nil

CONSTANTS
    Call,
    User,
    Scene,
    Review,     \* review_id, NoReview for 0
    NoReview,
    UserOf, SceneOf, ReviewOf,
    GivenKey,   \* idempotency_key of each request, or None
    TemplateId, \* ids of rows of coupon
    Total,      \* TotalCount of a new template
    WalletFaults

(***************************************************************************)
(* TxError        a statement or a commit fails and the transaction is     *)
(*                rolled back                                              *)
(* CommitAckLost  a transaction commits and reports an error               *)
(***************************************************************************)
WalletFault == {"TxError", "CommitAckLost"}

ASSUME WalletAssumption ==
    /\ UserOf \in [Call -> User]
    /\ SceneOf \in [Call -> Scene]
    /\ ReviewOf \in [Call -> Review]
    /\ NoReview \in Review
    /\ None \notin Call \cup TemplateId
    /\ Total \in Nat
    /\ None \notin [scene : Scene, remain : 0 .. Total]
    /\ WalletFaults \subseteq WalletFault

VARIABLES
    coupon,       \* rows of coupon: a scene and a remain_count, or None
    granted,      \* rows of user_coupon: key, user, row of coupon
    grantPc,      \* the statement the call sends next
    seen,         \* idempotency keys in the snapshot of its transaction
    rowOf,        \* the row of coupon it found or created, or None
    answer,       \* the user coupon it answered with, or None
    templateLock, \* the call whose FOR UPDATE locks the rows of coupon, or None
    gap           \* calls whose FOR UPDATE found the table empty and locks its gap

txVars == <<seen, rowOf, templateLock, gap>>
walletVars == <<coupon, granted, grantPc, answer, txVars>>

\* The key of a request that brings none is made of the review and the scene.
Key(c) == IF GivenKey[c] # None THEN GivenKey[c] ELSE <<ReviewOf[c], SceneOf[c]>>

Grant(c) == [key |-> Key(c), user |-> UserOf[c], row |-> rowOf[c]]

Keys == {g.key : g \in granted}
Rows == {r \in TemplateId : coupon[r] # None}

TemplateRow == [scene : Scene, remain : 0 .. Total]
UserCoupon == [key : {Key(c) : c \in Call}, user : User, row : TemplateId]

WalletTypeOK ==
    /\ coupon \in [TemplateId -> TemplateRow \cup {None}]
    /\ granted \subseteq UserCoupon
    /\ grantPc \in [Call -> {"start", "template", "create", "grant", "count",
                        "done", "failed"}]
    /\ seen \in [Call -> SUBSET {Key(c) : c \in Call}]
    /\ rowOf \in [Call -> TemplateId \cup {None}]
    /\ \A c \in Call : grantPc[c] \in {"grant", "count"} => rowOf[c] \in TemplateId
    /\ answer \in [Call -> UserCoupon \cup {None}]
    /\ templateLock \in Call \cup {None}
    /\ gap \subseteq Call

\* The table of templates is empty, or has templates of some scenes.
WalletInit ==
    /\ \E old \in {s \in SUBSET Scene : Cardinality(s) <= Cardinality(TemplateId)} :
       \E f \in [old -> TemplateId] :
        /\ \A s, t \in old : f[s] = f[t] => s = t
        /\ coupon = [r \in TemplateId |->
             IF \E s \in old : f[s] = r
             THEN [scene |-> CHOOSE s \in old : f[s] = r, remain |-> Total]
             ELSE None]
    /\ granted = {}
    /\ grantPc = [c \in Call |-> "start"]
    /\ seen = [c \in Call |-> {}]
    /\ rowOf = [c \in Call |-> None]
    /\ answer = [c \in Call |-> None]
    /\ templateLock = None
    /\ gap = {}

-------------------------------------------------------------------------------
(* Transactions. *)

CallGoes(c, from, to) == grantPc[c] = from /\ grantPc' = [grantPc EXCEPT ![c] = to]

\* The transaction of c ends and its locks are released.
TxEnds(c) ==
    /\ templateLock' = IF templateLock = c THEN None ELSE templateLock
    /\ gap' = gap \ {c}
    /\ seen' = [seen EXCEPT ![c] = {}]
    /\ rowOf' = [rowOf EXCEPT ![c] = None]

\* The transaction of c, which was at from, is rolled back; the call fails.
RollsBack(c, from) ==
    /\ CallGoes(c, from, "failed")
    /\ TxEnds(c)
    /\ UNCHANGED <<coupon, granted, answer>>

\* A row of coupon that a transaction of another call has inserted.
Unborn(c) == \E d \in Call \ {c} : rowOf[d] # None /\ coupon[rowOf[d]] = None

-------------------------------------------------------------------------------
(* GrantUserCoupon, statement by statement. *)

\* The first read makes the snapshot.  A key that is there answers the call.
FindExisting(c) ==
    /\ IF Key(c) \in Keys
       THEN /\ CallGoes(c, "start", "done")
            /\ \E g \in granted : g.key = Key(c) /\ answer' = [answer EXCEPT ![c] = g]
            /\ UNCHANGED seen
       ELSE /\ CallGoes(c, "start", "template")
            /\ seen' = [seen EXCEPT ![c] = Keys]
            /\ UNCHANGED answer
    /\ UNCHANGED <<coupon, granted, rowOf, templateLock, gap>>

\* Mutant: the template is read without FOR UPDATE.
FindTemplateUnlocked(c) ==
    /\ \/ \E r \in Rows : /\ coupon[r].scene = SceneOf[c]
                          /\ CallGoes(c, "template", "grant")
                          /\ rowOf' = [rowOf EXCEPT ![c] = r]
       \/ /\ \A r \in Rows : coupon[r].scene # SceneOf[c]
          /\ CallGoes(c, "template", "create")
          /\ UNCHANGED rowOf
    /\ UNCHANGED <<coupon, granted, seen, answer, templateLock, gap>>

\* SELECT ... FOR UPDATE has no index to use: it locks every row it reads, from the
\* first one on; in an empty table it locks a gap, which excludes nobody.
FindTemplate(c) ==
    /\ templateLock = None /\ ~Unborn(c)
    /\ \/ \E r \in Rows : /\ coupon[r].scene = SceneOf[c]
                          /\ CallGoes(c, "template", "grant")
                          /\ rowOf' = [rowOf EXCEPT ![c] = r]
       \/ /\ \A r \in Rows : coupon[r].scene # SceneOf[c]
          /\ CallGoes(c, "template", "create")
          /\ UNCHANGED rowOf
    /\ templateLock' = IF Rows = {} THEN None ELSE c
    /\ gap' = IF Rows = {} THEN gap \cup {c} ELSE gap
    /\ UNCHANGED <<coupon, granted, seen, answer>>

\* The insert waits for the gap locks of the others.
CreateTemplate(c) ==
    /\ gap \subseteq {c}
    /\ CallGoes(c, "create", "grant")
    /\ \E r \in TemplateId \ (Rows \cup {rowOf[d] : d \in Call}) : rowOf' = [rowOf EXCEPT ![c] = r]
    /\ UNCHANGED <<coupon, granted, seen, answer, templateLock, gap>>

\* Two inserts wait for each other, and MySQL rolls one of them back.
Deadlock(c) ==
    /\ \E d \in gap \ {c} : grantPc[d] = "create"
    /\ c \in gap
    /\ RollsBack(c, "create")

\* A key that is there is a duplicate, and is read again in the old snapshot.
InsertCoupon(c) ==
    IF Key(c) \in Keys
    THEN IF Key(c) \in seen[c]
         THEN /\ CallGoes(c, "grant", "done")
              /\ \E g \in granted : g.key = Key(c) /\ answer' = [answer EXCEPT ![c] = g]
              /\ TxEnds(c)
              /\ UNCHANGED <<coupon, granted>>
         ELSE RollsBack(c, "grant")
    ELSE CallGoes(c, "grant", "count") /\ UNCHANGED <<coupon, granted, answer, txVars>>

\* What the row of coupon has left in the transaction of c.
Remain(c) == IF coupon[rowOf[c]] = None THEN Total ELSE coupon[rowOf[c]].remain

Written(c) ==
    /\ coupon' = [coupon EXCEPT ![rowOf[c]] =
                    [scene |-> SceneOf[c], remain |-> Remain(c) - 1]]
    /\ granted' = granted \cup {Grant(c)}

\* Mutant: an update that found no coupon left is not noticed.
CountUnchecked(c) ==
    /\ CallGoes(c, "count", "done")
    /\ coupon' = IF Remain(c) = 0 THEN coupon
                 ELSE [coupon EXCEPT ![rowOf[c]] =
                         [scene |-> SceneOf[c], remain |-> Remain(c) - 1]]
    /\ granted' = granted \cup {Grant(c)}
    /\ answer' = [answer EXCEPT ![c] = Grant(c)]
    /\ TxEnds(c)

\* remain_count - 1 where it is positive, and the commit.
DecreaseCount(c) ==
    \/ /\ Remain(c) > 0
       /\ CallGoes(c, "count", "done")
       /\ Written(c)
       /\ answer' = [answer EXCEPT ![c] = Grant(c)]
       /\ TxEnds(c)
    \/ /\ Remain(c) > 0 /\ "CommitAckLost" \in WalletFaults
       /\ CallGoes(c, "count", "failed")
       /\ Written(c)
       /\ UNCHANGED answer
       /\ TxEnds(c)
    \/ Remain(c) = 0 /\ RollsBack(c, "count")

StatementFails(c) ==
    /\ "TxError" \in WalletFaults
    /\ \E at \in {"start", "template", "create", "grant", "count"} : RollsBack(c, at)

Over(c) == grantPc[c] \in {"done", "failed"}
AllOver == (\A c \in Call : Over(c)) /\ UNCHANGED walletVars

GrantUserCoupon(c) ==
    \/ grantPc[c] = "start" /\ FindExisting(c)
    \/ grantPc[c] = "template" /\ FindTemplate(c)
    \/ grantPc[c] = "create" /\ (CreateTemplate(c) \/ Deadlock(c))
    \/ grantPc[c] = "grant" /\ InsertCoupon(c)
    \/ grantPc[c] = "count" /\ DecreaseCount(c)
    \/ StatementFails(c)

WalletNext == AllOver \/ \E c \in Call : GrantUserCoupon(c)

WalletSpec == WalletInit /\ [][WalletNext]_walletVars

-------------------------------------------------------------------------------
(* Properties. *)

\* No two templates of a scene, although no unique key forbids them: the locks of
\* a search that found nothing keep the second insert out.
OneTemplate ==
    \A r, s \in Rows : coupon[r].scene = coupon[s].scene => r = s

\* A template never gives out more coupons than it has: what is left and what was
\* granted make up its total, through errors, duplicates and its last coupon.
CountConserved ==
    \A r \in Rows :
        coupon[r].remain + Cardinality({g \in granted : g.row = r}) = Total

\* A call that answers with a coupon answers with one that is in user_coupon, under
\* the key of the call, and there is no other one under it.
AnswerIsGranted ==
    \A c \in Call : grantPc[c] = "done" =>
        {g \in granted : g.key = Key(c)} = {answer[c]}

-------------------------------------------------------------------------------
(* What the code does not keep; the README says how it comes about. *)

\* Two requests with one key both get the coupon.
RepeatIsAnswered == \A c \in Call : grantPc[c] = "failed" => Key(c) \notin Keys

\* A call never answers with the coupon of another user.
OwnCoupon == \A c \in Call : grantPc[c] = "done" => answer[c].user = UserOf[c]

\* A user has one coupon of a template.
UserLimit == \A g, h \in granted : g.user = h.user /\ g.row = h.row => g = h
===============================================================================
