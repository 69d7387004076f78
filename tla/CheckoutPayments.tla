-------------------------- MODULE CheckoutPayments --------------------------
(***************************************************************************)
(* The financial core of the API: a Checkout (the amount due for one       *)
(* completed service session), the PaymentRecords staff claim against it,  *)
(* their verification and disputes, and the one SALE Transaction that is   *)
(* posted when confirmed payments exactly cover the total.                 *)
(*                                                                         *)
(* Every command is an HTTP request.  It first reads what it needs outside *)
(* any database transaction (a Begin action, which keeps what it read in   *)
(* `inflight') and later runs one database transaction (a Commit action).  *)
(* Between the two any other request may commit.  The transactions of the  *)
(* payment commands start with SELECT ... FOR UPDATE on the checkout row   *)
(* and touch nothing that is not under that lock, so each is one step; the *)
(* transactions of addAdjustment and void are one conditional UPDATE on    *)
(* the version they read, which waits for the same row lock.               *)
(*                                                                         *)
(* Tables are functions whose domain is the set of rows that exist.        *)
(***************************************************************************)
EXTENDS Integers, FiniteSets, Functions

CONSTANTS
    Checkouts,   \* checkouts; one per completed service session
    Payments,    \* identifiers of payment records
    Requests,    \* HTTP requests that may be in flight at the same time
    Members,     \* organization memberships; each has its own staff profile
    VerifyOwn,   \* members holding payments.verify_own
    Resolve,     \* members holding payments.resolve
    Staff,       \* members with a staff profile, who may be a checkout's operator
    Keys,        \* values of the Idempotency-Key header
    Subtotals,   \* what the snapshotted line items of a checkout may add up to
    Amounts,     \* amounts a payment may apply
    Deltas,      \* signed adjustment amounts (discount < 0 < surcharge)
    MaxVersion,  \* bound: no adjustment is started at this version or later
    NoMember     \* a null membership column

ASSUME PermissionAssumption ==
    Staff \subseteq Members /\ VerifyOwn \subseteq Members /\ Resolve \subseteq Members

ASSUME MoneyAssumption ==
    /\ Subtotals \subseteq Nat
    /\ Amounts \subseteq Nat \ {0}
    /\ Deltas \subseteq Int \ {0}

VARIABLES
    checkout,     \* table checkouts
    adjusted,     \* sum of the rows of table checkout_adjustments, per checkout
    payment,      \* table payment_records
    dispute,      \* table payment_disputes: payment -> status
    transaction,  \* table transactions (SALE only), by checkout
    idempotency,  \* table financial_idempotency_keys: <<member, key>> -> payment
    inflight      \* requests between their first reads and their transaction

vars == <<checkout, adjusted, payment, dispute, transaction, idempotency, inflight>>
paymentTables == <<payment, dispute, idempotency>>
-----------------------------------------------------------------------------
(* Rows and tables.                                                        *)

ActiveStatuses == {"OPEN", "AWAITING_VERIFICATION", "DISPUTED"}
CheckoutRow == [status   : ActiveStatuses \cup {"SETTLED", "VOIDED"},
                version  : Nat,
                subtotal : Nat,
                adjustment : Int,
                total    : Nat,
                operator : Staff]

PaymentRow == [checkout  : Checkouts,
               amount    : Nat \ {0},
               status    : {"RECORDED", "CONFIRMED", "DISPUTED", "VOIDED"},
               recorder  : Members,
               assignee  : Staff,
               confirmer : Members \cup {NoMember},
               override  : BOOLEAN]

DisputeStatuses == {"OPEN", "RESOLVED_CONFIRMED", "RESOLVED_REJECTED"}

Request ==
    [op : {"create"}, checkout : Checkouts, subtotal : Nat, operator : Staff]
      \cup [op : {"adjust"}, checkout : Checkouts, delta : Int, seen : CheckoutRow, counted : BOOLEAN]
      \cup [op : {"void"}, checkout : Checkouts, seen : CheckoutRow]
      \cup [op : {"record"}, checkout : Checkouts, member : Members, key : Keys, amount : Nat \ {0}]
      \cup [op : {"confirm"}, payment : Payments, member : Members, override : BOOLEAN]
      \cup [op : {"dispute"}, payment : Payments]
      \cup [op : {"voidPayment"}, payment : Payments]
      \cup [op : {"resolve"}, payment : Payments, member : Members, confirming : BOOLEAN]

IsTable(table, Ids, Row) ==
    /\ table = [i \in DOMAIN table |-> table[i]]
    /\ DOMAIN table \subseteq Ids
    /\ \A i \in DOMAIN table : table[i] \in Row

Insert(table, id, row) ==
    [i \in DOMAIN table \cup {id} |-> IF i = id THEN row ELSE table[i]]

Begin(r, request) == r \notin DOMAIN inflight /\ inflight' = Insert(inflight, r, request)
End(r) == inflight' = [q \in DOMAIN inflight \ {r} |-> inflight[q]]
Is(r, op) == r \in DOMAIN inflight /\ inflight[r].op = op
-----------------------------------------------------------------------------
(* CheckoutSettlementService: the derived status, and posting.             *)

AmountSum(pays, S) == SumFunction([p \in S |-> pays[p].amount])

\* The payments of checkout c with one of the given statuses.
PaymentsOf(pays, c, statuses) ==
    {p \in DOMAIN pays : pays[p].checkout = c /\ pays[p].status \in statuses}

Unvoided(pays, c) == PaymentsOf(pays, c, {"RECORDED", "CONFIRMED", "DISPUTED"})

\* deriveCheckoutSettlement: the rule that recomputes a checkout's status.
DeriveSettlement(pays, c, total) ==
    IF PaymentsOf(pays, c, {"DISPUTED"}) # {} THEN "DISPUTED"
    ELSE IF PaymentsOf(pays, c, {"RECORDED"}) # {} THEN "AWAITING_VERIFICATION"
    ELSE IF AmountSum(pays, PaymentsOf(pays, c, {"CONFIRMED"})) < total THEN "OPEN"
    ELSE "READY_TO_SETTLE"

\* postForCheckout: the transaction row, its allocations and the checkout's
\* settlement, refused unless the confirmed payments are exactly the total.
\* The stock, receipt and commission writes of the same transaction are in the
\* modules StockLedger and CommissionAccruals; when one of them fails the
\* request ends in Abandon.
Post(pays, c) ==
    LET confirmed == PaymentsOf(pays, c, {"CONFIRMED"}) IN
    /\ AmountSum(pays, confirmed) = checkout[c].total
    /\ transaction' = Insert(transaction, c,
           [total |-> checkout[c].total, allocations |-> [p \in confirmed |-> pays[p].amount]])
    /\ checkout' = [checkout EXCEPT ![c].status = "SETTLED", ![c].version = @ + 1]

\* Mutant: the status changes and the version does not.
SetStatusSameVersion(c, status) == checkout' = [checkout EXCEPT ![c].status = status]

SetStatus(c, status) ==
    checkout' = IF status = checkout[c].status THEN checkout
                ELSE [checkout EXCEPT ![c].status = status, ![c].version = @ + 1]

\* Mutant: a settled checkout is settled again.
RecalculateAlways(pays, c) ==
    LET outcome == DeriveSettlement(pays, c, checkout[c].total) IN
    IF outcome = "READY_TO_SETTLE" THEN Post(pays, c)
    ELSE SetStatus(c, outcome) /\ UNCHANGED transaction

\* recalculate: the last step of every payment transaction, given the payment
\* rows as that transaction leaves them.
Recalculate(pays, c) ==
    LET outcome == DeriveSettlement(pays, c, checkout[c].total) IN
    \/ /\ checkout[c].status \notin ActiveStatuses
       /\ UNCHANGED <<checkout, transaction>>
    \/ /\ checkout[c].status \in ActiveStatuses
       /\ outcome = "READY_TO_SETTLE"
       /\ Post(pays, c)
    \/ /\ checkout[c].status \in ActiveStatuses
       /\ outcome # "READY_TO_SETTLE"
       /\ SetStatus(c, outcome)
       /\ UNCHANGED transaction
-----------------------------------------------------------------------------
(* CheckoutsService: create, addAdjustment, void.                          *)

\* Mutant: the update looks for the row alone.
StillThere(c, seen) == c \in DOMAIN checkout /\ seen \in CheckoutRow

\* The row is still the one the request read: updateMany ... where version.
StillCurrent(c, seen) == checkout[c].version = seen.version

\* A discount may not take the total below zero.
FitsTotal(seen, delta) == seen.subtotal + seen.adjustment + delta >= 0

\* create: the session has no checkout yet and its lines are worth something.
BeginCreate(r, c, subtotal, operator) ==
    /\ c \notin DOMAIN checkout
    /\ subtotal # 0
    /\ Begin(r, [op |-> "create", checkout |-> c, subtotal |-> subtotal, operator |-> operator])
    /\ UNCHANGED <<checkout, adjusted, transaction, paymentTables>>

\* The insert; when another request won the unique service_session_id, the
\* winner's row is handed back and nothing is written.
CommitCreate(r) ==
    /\ Is(r, "create")
    /\ LET q == inflight[r] IN
       IF q.checkout \in DOMAIN checkout THEN UNCHANGED <<checkout, adjusted>>
       ELSE /\ checkout' = Insert(checkout, q.checkout,
                   [status |-> "OPEN", version |-> 1, subtotal |-> q.subtotal,
                    adjustment |-> 0, total |-> q.subtotal, operator |-> q.operator])
            /\ adjusted' = [adjusted EXCEPT ![q.checkout] = 0]
    /\ End(r)
    /\ UNCHANGED <<transaction, paymentTables>>

NeverPaid(c) == \A p \in DOMAIN payment : payment[p].checkout # c

\* addAdjustment reads the checkout row ...
BeginAdjust(r, c, delta) ==
    /\ c \in DOMAIN checkout
    /\ checkout[c].status = "OPEN"
    /\ checkout[c].version < MaxVersion
    /\ Begin(r, [op |-> "adjust", checkout |-> c, delta |-> delta,
                 seen |-> checkout[c], counted |-> FALSE])
    /\ UNCHANGED <<checkout, adjusted, transaction, paymentTables>>

\* ... then counts the payments, voided ones included, in a second query ...
CountPayments(r) ==
    /\ Is(r, "adjust") /\ ~inflight[r].counted
    /\ NeverPaid(inflight[r].checkout)
    /\ FitsTotal(inflight[r].seen, inflight[r].delta)
    /\ inflight' = [inflight EXCEPT ![r].counted = TRUE]
    /\ UNCHANGED <<checkout, adjusted, transaction, paymentTables>>

\* ... then updates the row it read, if its version is still the same.
CommitAdjust(r) ==
    /\ Is(r, "adjust") /\ inflight[r].counted
    /\ LET q == inflight[r] IN
       /\ StillCurrent(q.checkout, q.seen)
       /\ checkout' = [checkout EXCEPT
              ![q.checkout].adjustment = q.seen.adjustment + q.delta,
              ![q.checkout].total = q.seen.subtotal + q.seen.adjustment + q.delta,
              ![q.checkout].version = @ + 1]
       /\ adjusted' = [adjusted EXCEPT ![q.checkout] = @ + q.delta]
    /\ End(r)
    /\ UNCHANGED <<transaction, paymentTables>>

BeginVoid(r, c) ==
    /\ c \in DOMAIN checkout
    /\ checkout[c].status \in ActiveStatuses
    /\ Begin(r, [op |-> "void", checkout |-> c, seen |-> checkout[c]])
    /\ UNCHANGED <<checkout, adjusted, transaction, paymentTables>>

CommitVoid(r) ==
    /\ Is(r, "void")
    /\ LET q == inflight[r] IN
       /\ StillCurrent(q.checkout, q.seen)
       /\ checkout' = [checkout EXCEPT ![q.checkout].status = "VOIDED",
                                       ![q.checkout].version = @ + 1]
    /\ End(r)
    /\ UNCHANGED <<adjusted, transaction, paymentTables>>
-----------------------------------------------------------------------------
(* PaymentsService: record and void.                                       *)

\* record: a key the caller already used is answered from the stored payment
\* (or refused) before anything is written; only a new key goes on.
BeginRecord(r, c, member, key, amount) ==
    /\ c \in DOMAIN checkout
    /\ <<member, key>> \notin DOMAIN idempotency
    /\ Begin(r, [op |-> "record", checkout |-> c, member |-> member, key |-> key, amount |-> amount])
    /\ UNCHANGED <<checkout, adjusted, transaction, paymentTables>>

HasRoom(q) ==
    AmountSum(payment, Unvoided(payment, q.checkout)) + q.amount <= checkout[q.checkout].total

\* Mutant: no index forbids a second payment of a key.
KeyPresent(q) == q.key \in Keys

KeyUnused(q) == <<q.member, q.key>> \notin DOMAIN idempotency

CommitRecord(r, p) ==
    /\ Is(r, "record")
    /\ p \notin DOMAIN payment
    /\ LET q == inflight[r]
           row == [checkout |-> q.checkout, amount |-> q.amount, status |-> "RECORDED",
                   recorder |-> q.member, assignee |-> checkout[q.checkout].operator,
                   confirmer |-> NoMember, override |-> FALSE]
       IN /\ checkout[q.checkout].status \in ActiveStatuses
          /\ HasRoom(q)
          /\ KeyUnused(q)
          /\ payment' = Insert(payment, p, row)
          /\ idempotency' = Insert(idempotency, <<q.member, q.key>>, p)
          /\ Recalculate(payment', q.checkout)
    /\ End(r)
    /\ UNCHANGED <<adjusted, dispute>>

BeginVoidPayment(r, p) ==
    /\ p \in DOMAIN payment
    /\ payment[p].status = "RECORDED"
    /\ Begin(r, [op |-> "voidPayment", payment |-> p])
    /\ UNCHANGED <<checkout, adjusted, transaction, paymentTables>>

\* Mutant: the void forgets to recompute the checkout.
VoidPaymentAlone(r) ==
    /\ Is(r, "voidPayment")
    /\ LET p == inflight[r].payment IN
       /\ payment[p].status = "RECORDED"
       /\ payment' = [payment EXCEPT ![p].status = "VOIDED"]
    /\ End(r)
    /\ UNCHANGED <<checkout, adjusted, transaction, dispute, idempotency>>

CommitVoidPayment(r) ==
    /\ Is(r, "voidPayment")
    /\ LET p == inflight[r].payment IN
       /\ payment[p].status = "RECORDED"
       /\ payment' = [payment EXCEPT ![p].status = "VOIDED"]
       /\ Recalculate(payment', payment[p].checkout)
    /\ End(r)
    /\ UNCHANGED <<adjusted, dispute, idempotency>>
-----------------------------------------------------------------------------
(* PaymentVerificationsService: confirm and dispute.                       *)

IsAssignee(member, p) == member \in VerifyOwn /\ member = payment[p].assignee

\* assertConfirmAuthorized: the assigned provider confirms what somebody else
\* recorded; otherwise payments.resolve and a reason make it an override.
ConfirmsOwnWork(member, p) == IsAssignee(member, p) /\ payment[p].recorder # member
ConfirmAuthorized(member, p) == ConfirmsOwnWork(member, p) \/ member \in Resolve

BeginConfirm(r, p, member) ==
    /\ p \in DOMAIN payment
    /\ ConfirmAuthorized(member, p)
    /\ payment[p].status = "RECORDED"
    /\ Begin(r, [op |-> "confirm", payment |-> p, member |-> member,
                 override |-> ~ConfirmsOwnWork(member, p)])
    /\ UNCHANGED <<checkout, adjusted, transaction, paymentTables>>

CommitConfirm(r) ==
    /\ Is(r, "confirm")
    /\ LET q == inflight[r] p == q.payment IN
       /\ payment[p].status = "RECORDED"
       /\ payment' = [payment EXCEPT ![p].status = "CONFIRMED",
                                     ![p].confirmer = q.member,
                                     ![p].override = q.override]
       /\ Recalculate(payment', payment[p].checkout)
    /\ End(r)
    /\ UNCHANGED <<adjusted, dispute, idempotency>>

BeginDispute(r, p, member) ==
    /\ p \in DOMAIN payment
    /\ IsAssignee(member, p)
    /\ payment[p].status = "RECORDED"
    /\ Begin(r, [op |-> "dispute", payment |-> p])
    /\ UNCHANGED <<checkout, adjusted, transaction, paymentTables>>

CommitDispute(r) ==
    /\ Is(r, "dispute")
    /\ LET p == inflight[r].payment IN
       /\ payment[p].status = "RECORDED"
       /\ payment' = [payment EXCEPT ![p].status = "DISPUTED"]
       /\ dispute' = Insert(dispute, p, "OPEN")
       /\ Recalculate(payment', payment[p].checkout)
    /\ End(r)
    /\ UNCHANGED <<adjusted, idempotency>>

(* PaymentDisputesService: resolve; its note is optional.                  *)

BeginResolve(r, p, member, confirming) ==
    /\ p \in DOMAIN dispute
    /\ member \in Resolve
    /\ dispute[p] = "OPEN"
    /\ Begin(r, [op |-> "resolve", payment |-> p, member |-> member, confirming |-> confirming])
    /\ UNCHANGED <<checkout, adjusted, transaction, paymentTables>>

CommitResolve(r) ==
    /\ Is(r, "resolve")
    /\ LET q == inflight[r] p == q.payment IN
       /\ dispute[p] = "OPEN"
       /\ payment[p].status = "DISPUTED"
       /\ dispute' = [dispute EXCEPT ![p] =
                         IF q.confirming THEN "RESOLVED_CONFIRMED" ELSE "RESOLVED_REJECTED"]
       /\ payment' = IF q.confirming
                     THEN [payment EXCEPT ![p].status = "CONFIRMED", ![p].confirmer = q.member]
                     ELSE [payment EXCEPT ![p].status = "VOIDED"]
       /\ Recalculate(payment', payment[p].checkout)
    /\ End(r)
    /\ UNCHANGED <<adjusted, idempotency>>
-----------------------------------------------------------------------------
\* A request that fails a check of its transaction, loses its version, is
\* refused by stock while posting or whose server dies leaves no trace.
Abandon(r) ==
    /\ r \in DOMAIN inflight
    /\ End(r)
    /\ UNCHANGED <<checkout, adjusted, transaction, paymentTables>>

Init ==
    /\ checkout = [c \in {} |-> 0]
    /\ adjusted = [c \in Checkouts |-> 0]
    /\ payment = [p \in {} |-> 0]
    /\ dispute = [p \in {} |-> 0]
    /\ transaction = [c \in {} |-> 0]
    /\ idempotency = [k \in {} |-> 0]
    /\ inflight = [r \in {} |-> 0]

CheckoutCommand(r) ==
    \/ \E c \in Checkouts, s \in Subtotals, m \in Staff : BeginCreate(r, c, s, m)
    \/ CommitCreate(r)
    \/ \E c \in Checkouts, d \in Deltas : BeginAdjust(r, c, d)
    \/ CountPayments(r)
    \/ CommitAdjust(r)
    \/ \E c \in Checkouts : BeginVoid(r, c)
    \/ CommitVoid(r)

PaymentCommand(r) ==
    \/ \E c \in Checkouts, m \in Members, k \in Keys, a \in Amounts : BeginRecord(r, c, m, k, a)
    \/ \E p \in Payments : CommitRecord(r, p)
    \/ \E p \in Payments : BeginVoidPayment(r, p)
    \/ CommitVoidPayment(r)
    \/ \E p \in Payments, m \in Members : BeginConfirm(r, p, m)
    \/ CommitConfirm(r)
    \/ \E p \in Payments, m \in Members : BeginDispute(r, p, m)
    \/ CommitDispute(r)
    \/ \E p \in Payments, m \in Members, b \in BOOLEAN : BeginResolve(r, p, m, b)
    \/ CommitResolve(r)

Next == \E r \in Requests : CheckoutCommand(r) \/ PaymentCommand(r) \/ Abandon(r)

Spec == Init /\ [][Next]_vars
-----------------------------------------------------------------------------
(* Properties.                                                             *)

TransactionsTyped ==
    /\ DOMAIN transaction \subseteq Checkouts
    /\ transaction = [c \in DOMAIN transaction |-> transaction[c]]
    /\ \A c \in DOMAIN transaction :
          /\ transaction[c].total \in Nat
          /\ IsTable(transaction[c].allocations, Payments, Nat \ {0})

\* Every row has the columns of its table, and foreign keys hold.
TypeOK ==
    /\ IsTable(checkout, Checkouts, CheckoutRow)
    /\ adjusted \in [Checkouts -> Int]
    /\ IsTable(payment, Payments, PaymentRow)
    /\ IsTable(dispute, Payments, DisputeStatuses)
    /\ TransactionsTyped
    /\ IsTable(idempotency, Members \X Keys, Payments)
    /\ IsTable(inflight, Requests, Request)
    /\ \A p \in DOMAIN payment : payment[p].checkout \in DOMAIN checkout
    /\ DOMAIN dispute \subseteq DOMAIN payment

\* The checkout row a request read is the current one or an older version of
\* it; while it is current, an adjustment that counted no payments still has
\* none to fear.  This is why the version check of the two commands that take
\* no lock is enough.
SeenSound(q) ==
    /\ q.checkout \in DOMAIN checkout
    /\ q.seen.status \in ActiveStatuses
    /\ q.seen.version <= checkout[q.checkout].version
    /\ StillCurrent(q.checkout, q.seen) => q.seen = checkout[q.checkout]

AdjustSound(q) ==
    /\ q.seen.status = "OPEN"
    /\ q.counted => FitsTotal(q.seen, q.delta)
    /\ q.counted /\ StillCurrent(q.checkout, q.seen) => NeverPaid(q.checkout)

InflightSound ==
    \A r \in DOMAIN inflight :
        /\ inflight[r].op \in {"adjust", "void"} => SeenSound(inflight[r])
        /\ inflight[r].op = "adjust" => AdjustSound(inflight[r])
        /\ inflight[r].op = "record" => inflight[r].checkout \in DOMAIN checkout
        /\ inflight[r].op \in {"confirm", "dispute", "voidPayment"} =>
              inflight[r].payment \in DOMAIN payment
        /\ inflight[r].op = "resolve" => inflight[r].payment \in DOMAIN dispute

\* A checkout is SETTLED exactly when its SALE transaction exists, and then
\* that transaction allocates exactly the confirmed payments, which add up to
\* the total, and no payment of the checkout is still open - however
\* confirmations, disputes, voids and adjustments interleaved before it.
SettledExactlyPaid ==
    /\ \A c \in DOMAIN checkout : checkout[c].status = "SETTLED" <=> c \in DOMAIN transaction
    /\ \A c \in DOMAIN transaction :
          LET confirmed == PaymentsOf(payment, c, {"CONFIRMED"}) IN
          /\ c \in DOMAIN checkout
          /\ transaction[c].total = checkout[c].total
          /\ transaction[c].allocations = [p \in confirmed |-> payment[p].amount]
          /\ AmountSum(payment, confirmed) = checkout[c].total
          /\ Unvoided(payment, c) = confirmed

\* The payments that are not voided never add up to more than the total, even
\* when the total is adjusted or the checkout voided by a concurrent request.
BalanceNeverExceeded ==
    \A c \in DOMAIN checkout : AmountSum(payment, Unvoided(payment, c)) <= checkout[c].total

\* An active checkout is OPEN until a payment is recorded on it, and from then
\* on has the status the settlement rule derives from its payments, so that no
\* command may change a payment and leave the old status; and it does not stay
\* active once it is paid in full.
StatusHonest ==
    \A c \in DOMAIN checkout : checkout[c].status \in ActiveStatuses =>
        /\ checkout[c].status =
              IF NeverPaid(c) THEN "OPEN" ELSE DeriveSettlement(payment, c, checkout[c].total)
        /\ checkout[c].total > 0 =>
              AmountSum(payment, PaymentsOf(payment, c, {"CONFIRMED"})) < checkout[c].total

\* The two together, on tables that keep their columns and foreign keys and with
\* requests that read them as they were: what a checkout says of itself is what
\* its payments say, at every instant of any interleaving
\* (checkout-settlement.util.ts:33-50, payments.service.ts:133-147).
BalanceHonest == TypeOK /\ InflightSound /\ BalanceNeverExceeded /\ StatusHonest

\* The adjustment total of a checkout is the sum of its append-only adjustment
\* rows: no concurrent adjustment is lost.
AdjustmentsAddUp ==
    \A c \in DOMAIN checkout :
        /\ checkout[c].adjustment = adjusted[c]
        /\ checkout[c].total = checkout[c].subtotal + adjusted[c]

\* One Idempotency-Key of one member stands for at most one payment, and every
\* payment was recorded under one: a duplicated request is never paid twice.
OnePaymentPerKey ==
    \A p \in DOMAIN payment :
        /\ \E k \in DOMAIN idempotency : k[1] = payment[p].recorder /\ idempotency[k] = p
        /\ \A k, l \in DOMAIN idempotency : idempotency[k] = p /\ idempotency[l] = p => k = l

\* Once any payment was recorded on a checkout, voided or not, its total never
\* changes again, although addAdjustment takes no lock.
TotalFrozenByPayments ==
    [][\A p \in DOMAIN payment :
          checkout'[payment[p].checkout].total = checkout[payment[p].checkout].total]_vars

\* SETTLED and VOIDED are final, and a posted transaction is never replaced.
TerminalAndPostedOnce ==
    [][/\ \A c \in DOMAIN checkout :
             checkout[c].status \notin ActiveStatuses => checkout'[c] = checkout[c]
       /\ \A c \in DOMAIN transaction :
             c \in DOMAIN transaction' /\ transaction'[c] = transaction[c]]_vars

\* The checkout as its customer sees it: CheckoutPayments implements
\* CheckoutLedger.
Ledger == INSTANCE CheckoutLedger WITH
    phase <- [c \in Checkouts |->
        IF c \notin DOMAIN checkout THEN "absent"
        ELSE CASE checkout[c].status \in ActiveStatuses -> "collecting"
               [] checkout[c].status = "SETTLED" -> "settled"
               [] checkout[c].status = "VOIDED" -> "cancelled"],
    due <- [c \in Checkouts |-> IF c \in DOMAIN checkout THEN checkout[c].total ELSE 0],
    collected <- [c \in Checkouts |-> AmountSum(payment, PaymentsOf(payment, c, {"CONFIRMED"}))]

\* Requests, row locks, versions, disputes and keys together implement the
\* promise of CheckoutLedger: every step collects, reprices, cancels or opens
\* one checkout, or changes nothing that its customer sees.
ImplementsLedger == Ledger!Spec

\* What the documents say and the code does not do.

\* docs/SECURITY.md: a replayed request with the same key and body returns the
\* original payment - so a duplicate that is still in flight when the original
\* commits must not be turned away by the balance check that runs first.
ReplayReturnsOriginal ==
    \A r \in DOMAIN inflight : \A p \in DOMAIN payment :
        (/\ Is(r, "record")
         /\ <<inflight[r].member, inflight[r].key>> \in DOMAIN idempotency
         /\ idempotency[<<inflight[r].member, inflight[r].key>>] = p
         /\ payment[p].checkout = inflight[r].checkout
         /\ payment[p].amount = inflight[r].amount)
            => checkout[inflight[r].checkout].status \in ActiveStatuses /\ HasRoom(inflight[r])
=============================================================================
