---------------------------- MODULE Corrections ----------------------------
(***************************************************************************)
(* The refunds and reversals of one posted SALE.  A member asks for a      *)
(* correction, somebody else approves or rejects it, and an approved one   *)
(* is executed: a corrective Transaction, the stock it puts back, the      *)
(* commission it takes back and the correction's own new status commit     *)
(* together.                                                               *)
(*                                                                         *)
(* Corrections of different sales share no row but an Idempotency-Key, so  *)
(* one sale is modelled: its line items never change once posted.          *)
(*                                                                         *)
(* A decision (approve, reject, cancel) reads the row without a lock and   *)
(* commits one conditional UPDATE on the status and version it read.  An   *)
(* execution reads the row without a lock, then opens a transaction that   *)
(* locks the correction, then the sale, then reads what other corrections  *)
(* have executed, then writes.  Those are the steps below; a decision on a *)
(* correction waits while an execution holds its row.                      *)
(***************************************************************************)
EXTENDS CommissionMath

CONSTANTS
    Ids,           \* identifiers of corrections
    Requests,      \* HTTP requests that may be in flight at the same time
    Members,       \* organization memberships, all holding refunds.request
    ApproverSets,  \* who may hold refunds.approve: one of these sets of members
    Reversers,     \* members holding transactions.reverse
    Executors,     \* members holding refunds.execute
    Owners,        \* active owners
    Keys,          \* values of the Idempotency-Key header
    Lines,         \* the sale's line items
    ProductLines,  \* those of kind PRODUCT, whose stock is tracked
    Price,         \* priceMinorSnapshot of each line
    Quantity,      \* units sold by each product line
    Discount,      \* the sale's adjustmentTotalMinor
    Earned,        \* the EARNED accrual of each service line
    RefundItems,   \* the item lists a refund request may name
    NoMember       \* a null membership column

ASSUME SaleAssumption ==
    /\ ApproverSets \subseteq SUBSET Members /\ Reversers \subseteq Members
    /\ Executors \subseteq Members /\ Owners \subseteq Members
    /\ NoMember \notin Members
    /\ Lines # {} /\ ProductLines \subseteq Lines
    /\ Price \in [Lines -> Nat \ {0}]
    /\ Quantity \in [ProductLines -> Nat \ {0}]
    /\ DOMAIN Earned \subseteq Lines \ ProductLines
    /\ \A items \in RefundItems :
          /\ DOMAIN items # {} /\ DOMAIN items \subseteq Lines
          /\ items \in [DOMAIN items -> Nat \ {0}]

\* The accruals were calculated when the sale was posted, from the rule that
\* matched then (a share of at most 10000 basis points) and a basis that is not
\* negative.
ASSUME EarnedAssumption ==
    \A l \in DOMAIN Earned :
        /\ Earned[l].rule.type \in {"NONE", "FIXED", "PERCENTAGE"}
        /\ Earned[l].rule.rate \in 0 .. BasisPoints /\ Earned[l].rule.fixed \in Nat
        /\ Earned[l].basisAmount \in Nat
        /\ Earned[l].amount = CommissionAmount(Earned[l].rule, Earned[l].basisAmount)

VARIABLES
    approvers,    \* members holding refunds.approve, the same throughout
    correction,   \* table transaction_corrections with its items
    corrective,   \* table transactions, kinds REFUND and REVERSAL, by correction
    returned,     \* units put back into stock, by product line
    reversed,     \* sum of the corrective accruals of each service line
    idempotency,  \* table financial_idempotency_keys: <<operation, member, key>> -> correction
    inflight      \* requests between their first read and their last write

vars == <<approvers, correction, corrective, returned, reversed, idempotency, inflight>>
postings == <<corrective, returned, reversed>>
-----------------------------------------------------------------------------
(* Rows and tables.                                                        *)

IsItemList(items) ==
    /\ DOMAIN items # {} /\ DOMAIN items \subseteq Lines
    /\ items = [l \in DOMAIN items |-> items[l]]
    /\ \A l \in DOMAIN items : items[l] \in Nat \ {0}

Undecided == {"REQUESTED", "APPROVED"}
Statuses == Undecided \cup {"REJECTED", "CANCELLED", "EXECUTED"}

IsCorrection(row) ==
    /\ row = [type |-> row.type, items |-> row.items, status |-> row.status,
              version |-> row.version, requester |-> row.requester,
              decider |-> row.decider, override |-> row.override]
    /\ row.type \in {"REFUND", "REVERSAL"}
    /\ IsItemList(row.items)
    /\ row.status \in Statuses
    /\ row.version \in Nat
    /\ row.requester \in Members
    /\ row.decider \in Members \cup {NoMember}
    /\ row.override \in BOOLEAN

Insert(table, id, row) ==
    [i \in DOMAIN table \cup {id} |-> IF i = id THEN row ELSE table[i]]

Begin(r, request) == r \notin DOMAIN inflight /\ inflight' = Insert(inflight, r, request)
End(r) == inflight' = [q \in DOMAIN inflight \ {r} |-> inflight[q]]
Is(r, op) == r \in DOMAIN inflight /\ inflight[r].op = op

WholeSale == [l \in Lines |-> Price[l]]
ExecutedIds == {k \in DOMAIN correction : correction[k].status = "EXECUTED"}

\* What the corrections in S ask back of line l.
AmountOf(k, l) == IF l \in DOMAIN correction[k].items THEN correction[k].items[l] ELSE 0
TakenBack(S, l) == SumFunction([k \in S |-> AmountOf(k, l)])
-----------------------------------------------------------------------------
(* requestRefund and requestReversal.                                      *)

\* Mutant: no index forbids a second use of a key.
KeyPresent(op, member, key) == <<op, member, key>> \in {"request", "execute"} \X Members \X Keys

KeyFree(op, member, key) == <<op, member, key>> \notin DOMAIN idempotency

WithinOriginal(items) == \A l \in DOMAIN items : items[l] <= Price[l]

BeginRefund(r, member, key, items) ==
    /\ WithinOriginal(items)
    /\ KeyFree("request", member, key)
    /\ Begin(r, [op |-> "request", member |-> member, key |-> key,
                 type |-> "REFUND", items |-> items])
    /\ UNCHANGED <<approvers, correction, postings, idempotency>>

\* Refused once anything was executed, a replay of an executed reversal included.
BeginReversal(r, member, key) ==
    /\ member \in Reversers
    /\ ExecutedIds = {}
    /\ KeyFree("request", member, key)
    /\ Begin(r, [op |-> "request", member |-> member, key |-> key,
                 type |-> "REVERSAL", items |-> WholeSale])
    /\ UNCHANGED <<approvers, correction, postings, idempotency>>

CommitRequest(r, k) ==
    /\ Is(r, "request")
    /\ k \notin DOMAIN correction
    /\ LET q == inflight[r] IN
       /\ KeyFree("request", q.member, q.key)
       /\ correction' = Insert(correction, k,
              [type |-> q.type, items |-> q.items, status |-> "REQUESTED", version |-> 1,
               requester |-> q.member, decider |-> NoMember, override |-> FALSE])
       /\ idempotency' = Insert(idempotency, <<"request", q.member, q.key>>, k)
    /\ End(r)
    /\ UNCHANGED <<approvers, postings>>
-----------------------------------------------------------------------------
(* approve, reject, cancel.                                                *)

\* An execution holds the row lock of correction k.
RowLocked(k) == \E r \in DOMAIN inflight :
    Is(r, "execute") /\ inflight[r].correction = k /\ inflight[r].stage # "begun"

\* assertCorrectionDecisionAuthorized: never the requester, except a solo owner.
SoloOwner(member) == member \in Owners /\ approvers \subseteq {member}

\* Mutant: the requester may decide.
Unopposed(member, k) == correction[k].requester \in Members

MayDecide(member, k) == member # correction[k].requester \/ SoloOwner(member)

IsOverride(q) == q.member = correction[q.correction].requester

BeginDecision(r, k, member, status) ==
    /\ k \in DOMAIN correction
    /\ member \in approvers
    /\ correction[k].status = "REQUESTED"
    /\ MayDecide(member, k)
    /\ status \in {"APPROVED", "REJECTED"}
    /\ Begin(r, [op |-> "decide", correction |-> k, member |-> member, status |-> status,
                 seen |-> correction[k].version])
    /\ UNCHANGED <<approvers, correction, postings, idempotency>>

BeginCancel(r, k, member) ==
    /\ k \in DOMAIN correction
    /\ correction[k].status \in Undecided
    /\ member = correction[k].requester \/ member \in approvers
    /\ Begin(r, [op |-> "decide", correction |-> k, member |-> member, status |-> "CANCELLED",
                 seen |-> correction[k].version])
    /\ UNCHANGED <<approvers, correction, postings, idempotency>>

\* Mutant: the update looks for the row alone.
SeenBefore(q) == q.seen <= correction[q.correction].version

\* The version is still the one the request read.
StillCurrent(q) == q.seen = correction[q.correction].version

CommitDecision(r) ==
    /\ Is(r, "decide")
    /\ LET q == inflight[r] k == q.correction IN
       /\ ~RowLocked(k)
       /\ StillCurrent(q)
       /\ correction' = [correction EXCEPT
              ![k].status = q.status,
              ![k].version = @ + 1,
              ![k].decider = IF q.status = "CANCELLED" THEN @ ELSE q.member,
              ![k].override = IF q.status = "CANCELLED" THEN @
                              ELSE IsOverride(q)]
    /\ End(r)
    /\ UNCHANGED <<approvers, postings, idempotency>>
-----------------------------------------------------------------------------
(* TransactionCorrectionExecutionService.execute.                          *)

\* A key already used is answered from the stored correction, or refused.
BeginExecute(r, k, member, key) ==
    /\ member \in Executors
    /\ k \in DOMAIN correction
    /\ KeyFree("execute", member, key)
    /\ correction[k].status = "APPROVED"
    /\ Begin(r, [op |-> "execute", correction |-> k, member |-> member, key |-> key,
                 stage |-> "begun", others |-> {}])
    /\ UNCHANGED <<approvers, correction, postings, idempotency>>

StillApproved(k) == correction[k].status = "APPROVED"

LockCorrection(r) ==
    /\ Is(r, "execute") /\ inflight[r].stage = "begun"
    /\ ~RowLocked(inflight[r].correction)
    /\ StillApproved(inflight[r].correction)
    /\ inflight' = [inflight EXCEPT ![r].stage = "row locked"]
    /\ UNCHANGED <<approvers, correction, postings, idempotency>>

\* Mutant: the lock is taken on the correction, not on the sale.
SameCorrectionLocked == \E r, s \in DOMAIN inflight :
    /\ r # s
    /\ Is(r, "execute") /\ inflight[r].stage = "sale locked"
    /\ Is(s, "execute") /\ inflight[s].stage = "row locked"
    /\ inflight[r].correction = inflight[s].correction

SaleLocked == \E r \in DOMAIN inflight :
    Is(r, "execute") /\ inflight[r].stage = "sale locked"

LockSale(r) ==
    /\ Is(r, "execute") /\ inflight[r].stage = "row locked"
    /\ ~SaleLocked
    /\ inflight' = [inflight EXCEPT ![r].stage = "sale locked",
                                    ![r].others = ExecutedIds \ {inflight[r].correction}]
    /\ UNCHANGED <<approvers, correction, postings, idempotency>>

\* Refused when anything was executed before a reversal, when a line has less
\* left than is asked back, or when part of a product line is asked back.
ReversalAlone(type, others) == type = "REVERSAL" => others = {}
WithinRemaining(items, others) ==
    \A l \in DOMAIN items : TakenBack(others, l) + items[l] <= Price[l]

ProductsWhole(items) == \A l \in DOMAIN items \cap ProductLines : items[l] = Price[l]

PutBack(items) == [l \in ProductLines |->
    returned[l] + (IF l \in DOMAIN items THEN Quantity[l] ELSE 0)]

\* Mutant: a partial refund leaves the commission alone.
CommissionOfWholeLines(items) == [l \in DOMAIN Earned |->
    reversed[l] + (IF l \in DOMAIN items /\ items[l] = Price[l]
                   THEN Adjustment(Earned[l], reversed[l], items[l], Price[l]) ELSE 0)]

TakeBackCommission(items) == [l \in DOMAIN Earned |->
    reversed[l] + (IF l \in DOMAIN items
                   THEN Adjustment(Earned[l], reversed[l], items[l], Price[l]) ELSE 0)]

CommitExecute(r) ==
    /\ Is(r, "execute") /\ inflight[r].stage = "sale locked"
    /\ LET q == inflight[r]
           k == q.correction
           row == correction[k]
       IN
       /\ ReversalAlone(row.type, q.others)
       /\ WithinRemaining(row.items, q.others)
       /\ ProductsWhole(row.items)
       /\ KeyFree("execute", q.member, q.key)
       /\ corrective' = Insert(corrective, k, [kind |-> row.type, items |-> row.items])
       /\ returned' = PutBack(row.items)
       /\ reversed' = TakeBackCommission(row.items)
       /\ correction' = [correction EXCEPT ![k].status = "EXECUTED", ![k].version = @ + 1]
       /\ idempotency' = Insert(idempotency, <<"execute", q.member, q.key>>, k)
    /\ End(r)
    /\ UNCHANGED approvers
-----------------------------------------------------------------------------
\* A request that fails a check, loses its version or its key, is refused by
\* the cash session or the stock it needs, or whose server dies: nothing it
\* wrote survives and its locks are gone.
Abandon(r) ==
    /\ r \in DOMAIN inflight
    /\ End(r)
    /\ UNCHANGED <<approvers, correction, postings, idempotency>>

Init ==
    /\ approvers \in ApproverSets
    /\ correction = [k \in {} |-> 0]
    /\ corrective = [k \in {} |-> 0]
    /\ returned = [l \in ProductLines |-> 0]
    /\ reversed = [l \in DOMAIN Earned |-> 0]
    /\ idempotency = [k \in {} |-> 0]
    /\ inflight = [r \in {} |-> 0]

Ask(r) ==
    \/ \E m \in Members, key \in Keys, items \in RefundItems : BeginRefund(r, m, key, items)
    \/ \E m \in Members, key \in Keys : BeginReversal(r, m, key)
    \/ \E k \in Ids : CommitRequest(r, k)

Decide(r) ==
    \/ \E k \in Ids, m \in Members, s \in {"APPROVED", "REJECTED"} : BeginDecision(r, k, m, s)
    \/ \E k \in Ids, m \in Members : BeginCancel(r, k, m)
    \/ CommitDecision(r)

Execute(r) ==
    \/ \E k \in Ids, m \in Members, key \in Keys : BeginExecute(r, k, m, key)
    \/ LockCorrection(r)
    \/ LockSale(r)
    \/ CommitExecute(r)

Next == \E r \in Requests : Ask(r) \/ Decide(r) \/ Execute(r) \/ Abandon(r)

Spec == Init /\ [][Next]_vars
-----------------------------------------------------------------------------
(* Properties.                                                             *)

IsRequest(q) ==
    \/ /\ q.op = "request"
       /\ q.member \in Members /\ q.key \in Keys
       /\ q.type \in {"REFUND", "REVERSAL"} /\ IsItemList(q.items)
    \/ /\ q.op = "decide"
       /\ q.correction \in DOMAIN correction /\ q.member \in Members
       /\ q.status \in {"APPROVED", "REJECTED", "CANCELLED"} /\ q.seen \in Nat
    \/ /\ q.op = "execute"
       /\ q.correction \in DOMAIN correction /\ q.member \in Members /\ q.key \in Keys
       /\ q.stage \in {"begun", "row locked", "sale locked"} /\ q.others \subseteq Ids

\* Every row has the columns of its table, and foreign keys hold.
TypeOK ==
    /\ DOMAIN correction \subseteq Ids
    /\ \A k \in DOMAIN correction : IsCorrection(correction[k])
    /\ DOMAIN corrective \subseteq DOMAIN correction
    /\ returned \in [ProductLines -> Nat]
    /\ reversed \in [DOMAIN Earned -> Nat]
    /\ DOMAIN idempotency \subseteq {"request", "execute"} \X Members \X Keys
    /\ \A e \in DOMAIN idempotency : idempotency[e] \in DOMAIN correction
    /\ DOMAIN inflight \subseteq Requests
    /\ \A r \in DOMAIN inflight : IsRequest(inflight[r])

\* An execution that holds the row lock works on a correction that is still
\* approved, and one that holds the sale lock knows every other executed
\* correction: no decision and no execution slips in under the locks.
LocksHold ==
    \A r \in DOMAIN inflight : Is(r, "execute") =>
        /\ inflight[r].stage # "begun" => correction[inflight[r].correction].status = "APPROVED"
        /\ inflight[r].stage = "sale locked" => inflight[r].others = ExecutedIds

\* However many refunds are approved and executed at the same time, a line never
\* gives back more than its price.
NeverOverRefunded == \A l \in Lines : TakenBack(ExecutedIds, l) <= Price[l]

\* A reversal that was executed is the only correction of its sale that was.
ReversalStandsAlone ==
    \A k \in ExecutedIds : correction[k].type = "REVERSAL" => ExecutedIds = {k}

\* The money of a sale: refunds and reversals executed together never return it
\* twice, under the locks above (transaction-correction-execution.service.ts:141-226).
MoneyReturnedOnce == TypeOK /\ LocksHold /\ NeverOverRefunded /\ ReversalStandsAlone

\* A corrective transaction exists exactly for the executed corrections and
\* repeats their items; each was posted under one key, which posted nothing else.
PostedExactlyOnce ==
    /\ DOMAIN corrective = ExecutedIds
    /\ \A k \in DOMAIN corrective :
          /\ corrective[k] = [kind |-> correction[k].type, items |-> correction[k].items]
          /\ \E e \in DOMAIN idempotency : e[1] = "execute" /\ idempotency[e] = k
          /\ \A e, f \in DOMAIN idempotency :
                (e[1] = "execute" /\ f[1] = "execute" /\ idempotency[e] = k /\ idempotency[f] = k)
                    => e = f

\* The units of a product line come back exactly when its money has, whole and
\* once, whatever mix of refunds and reversals was asked for.
StockFollowsMoney ==
    \A l \in ProductLines :
        /\ TakenBack(ExecutedIds, l) \in {0, Price[l]}
        /\ returned[l] = IF TakenBack(ExecutedIds, l) = 0 THEN 0 ELSE Quantity[l]

\* The executed corrections that gave back line l or a part of it.
PartsOf(l) == {k \in ExecutedIds : l \in DOMAIN correction[k].items}

\* The commission taken back for a line is the share of the money the executed
\* corrections gave back of it, to within their roundings, whichever requests
\* executed them; a reversal, which gives back everything at once, leaves none.
CommissionFollows ==
    \A l \in DOMAIN Earned :
        FollowsShare(Earned[l].amount, reversed[l], TakenBack(ExecutedIds, l), Price[l],
                     Cardinality(PartsOf(l)))

\* Stock and commission follow the money of the same corrections
\* (transaction-correction-execution.service.ts:307-363).
EffectsFollowMoney == StockFollowsMoney /\ CommissionFollows

\* Nobody's own request is approved or rejected by themselves, except by a solo
\* owner, which is then on record as an override; and whatever was executed
\* had been approved.
SeparationOfDuties ==
    \A k \in DOMAIN correction :
        /\ correction[k].decider = correction[k].requester =>
              correction[k].override /\ SoloOwner(correction[k].decider)
        /\ correction[k].override => correction[k].decider = correction[k].requester
        /\ correction[k].status \in {"APPROVED", "REJECTED", "EXECUTED"} =>
              correction[k].decider \in approvers

\* One Idempotency-Key of one member asked for at most one correction, and every
\* correction was asked for under one.
OneRequestPerKey ==
    \A k \in DOMAIN correction :
        /\ \E e \in DOMAIN idempotency :
              e[1] = "request" /\ e[2] = correction[k].requester /\ idempotency[e] = k
        /\ \A e, f \in DOMAIN idempotency :
              (e[1] = "request" /\ f[1] = "request" /\ idempotency[e] = k /\ idempotency[f] = k)
                  => e = f

\* A key asks once and posts once, whatever duplicates are in flight
\* (transaction-corrections.service.ts:583-611).
KeysActOnce == PostedExactlyOnce /\ OneRequestPerKey

\* REJECTED, CANCELLED and EXECUTED are final, and only an APPROVED correction is
\* ever executed; posted corrective transactions never change.
DecidedOnce ==
    [][/\ \A k \in DOMAIN correction :
             /\ correction[k].status \notin Undecided => correction'[k] = correction[k]
             /\ correction'[k].status = "EXECUTED" => correction[k].status \in {"APPROVED", "EXECUTED"}
       /\ \A k \in DOMAIN corrective : k \in DOMAIN corrective' /\ corrective'[k] = corrective[k]]_vars

\* What the documents say and the code does not do.

\* docs/PRODUCT_REQUIREMENTS.md: a reversal is one full negation of its sale.
ReversalNegatesSale ==
    \A k \in DOMAIN corrective : corrective[k].kind = "REVERSAL" =>
        SumFunction(corrective[k].items) = SumFunction(Price) + Discount
=============================================================================
