# A verification project for kora-os

TLA+ models, TLC runs and TLAPS proofs for the core of kora-os, a multi-tenant
platform for salons and barbershops: a NestJS API over PostgreSQL (Prisma), a
Next.js web client and an Android client.  `PROJECT.json` names, for every
definition, the lines it stands for.

The models cover what several requests, devices or failures can do to each
other: the money path (what a customer owes, what staff claim was paid, who
confirms it, the sale it becomes, the commission and stock that go with it, how it
is taken back, the drawer it ends in), the day at a branch (availability,
bookings, the queue, service sessions), and how people get in (one-time codes,
sessions and their refresh tokens on the server, on a phone and in a browser's tabs,
memberships and invitations).  These are the places where the code relies on row locks, version
columns, unique and exclusion constraints, idempotency keys and client-side
locks, and where a mistake is hard to reproduce in a test.

## 1. The system

### Components, their state and their operations

| Component | State (tables) | Operations | What makes it hard |
|---|---|---|---|
| Checkouts and payments | checkouts, checkout_adjustments, payment_records, payment_disputes, financial_idempotency_keys | create, addAdjustment, void; record, void payment, confirm, dispute, resolve; recalculate | payment commands lock the checkout row, adjustments and voids compare its version, both after unlocked reads; retries under an Idempotency-Key |
| Transaction posting | transactions, transaction_line_items, transaction_payment_allocations | postForCheckout, inside the last confirming transaction | at most one SALE; sale, stock, commission and receipt commit together |
| Commission rules | commission_rules | create, supersede, deactivate; rule selection | versions and a partial unique index; time windows; precedence |
| Commission accrual | commission_accruals | accrueForTransaction, adjustForCorrection | largest-remainder allocation, rounding, signed amounts |
| Transaction corrections | transaction_corrections and items, transactions (REFUND, REVERSAL) | requestRefund, requestReversal, approve, reject, cancel, execute | two row locks, decisions without a lock, keys, separation of duties, cumulative limits |
| Cash drawer | cash_registers, cash_sessions, cash_ledger_entries, cash_session_reviews | open, movements, payment and refund entries, close, review, archive | a closing sums a ledger that others append to; unlocked reads of registers |
| Stock ledger | branch_inventory, inventory_movements | receive, adjust, sale and correction movements | read-then-write under READ COMMITTED; Serializable with retries |
| Receipts | receipts, branch_receipt_sequences | issue for a sale, issue for a correction | a number taken inside a transaction that may still roll back |
| Authentication sessions | sessions, refresh_tokens | sign-in, refresh (rotation, reuse detection), revoke, browser logout, logout everywhere | rotation and revocation lock the same rows in opposite orders; lists read before a transaction |
| Email one-time codes | email_otp_challenges, users, auth_identities | request, verify | no transaction at all: each statement interleaves with every other request |
| Queue | queue_entries and their history, branch_queue_days, queue_intake_idempotency_keys | walk-in, check-in, call, return, cancel, no-show, assign | commands decide on what they read and write conditionally; unique indexes decide races of intake |
| Service sessions | service_sessions and items | start, replace items, complete, cancel back to the queue or out of it | two rows, the session and its queue entry, must agree |
| Appointments | appointments, appointment_idempotency_keys | book one provider or any, cancel, no-show, reschedule | an exclusion constraint decides; a retry goes on to the next provider |
| Availability | none | interval arithmetic, slots of a day | pure algorithms, off by one |
| Android client | memory, SharedPreferences and their disk file, the state the screens show | restore, refresh after a 401, sign-in, logout | OkHttp threads and the main thread; lost replies; the process dies before a write reaches the disk |
| Staff invitations, onboarding, plan limit | staff_invitations, organization_memberships, membership_roles, organizations, organization_idempotency_keys | create, resend, deliver, accept, reject, revoke; onboard | two counts under a lock others do not take; late outcomes written by id |
| Marketplace orders | marketplace_orders | idempotent placement | retries on a reference collision |
| Web client | the in-memory store of each tab, localStorage shared by the tabs | bootstrap, refresh after a 401, sign-in, logout, invalidation of other tabs | answers that arrive after the session changed; two tabs with one refresh token |
| Web refresh coordinator | shared storage, a lock, a channel | elect the tab that refreshes | imported by no screen yet |
| Catalogue, customers, discovery, reports, audit, platform, scheduling, entitlements | single rows | single-row writes, reads | nothing beyond unique constraints |

The full list with sources and status is `components` in `PROJECT.json`.

### How they interact

* A completed service session becomes a checkout.  A payment command locks the
  checkout, changes the payment, and calls `recalculate`; when the confirmed
  payments are exactly the total, the same database transaction posts the SALE,
  moves stock, writes commission accruals and the receipt.
* A CASH payment, and a cash refund, append to the open cash session of the
  branch in their own transaction: they take the checkout's or the sale's lock
  first, the session's second.
* An executed correction writes a corrective transaction, puts products back,
  takes commission back and changes its own status in one transaction.
* The settlement, and a correction, end with the receipt: the next number of the
  branch, taken under the lock of its sequence row.
* A sign-in is issued a session by the code that verified a one-time code; the
  Android client, and the tabs of a browser, keep its refresh token and trade it
  after a 401.
* The queue reads an appointment to check it in, and never again; a service
  session claims its queue entry when it starts and releases it when it ends.
* A booking does not trust the slots it was offered: the exclusion constraint
  decides.
* Posting reads the commission rules at the instant it runs; rules are changed
  by their own requests without any lock shared with a posting.

### What makes each component correct

* Checkout: what is claimed never exceeds what is due; the stored status is the one the
  payments imply; settled exactly when paid in full and sold once; a total never changes under a payment; final states are
  final; one key, one payment.
* Corrections: never more given back than was taken, line by line and under any
  concurrency; stock and commission follow the money, the latter within what rounding
  can do; nobody approves their own
  request unless alone; one key, one posting.
* Commission: shares add up to the last unit; nothing reversed beyond what was
  earned, and less than one unit per correction left of a line returned in full; one current rule per scope; windows meet without gap or overlap; the
  choice of a rule is unambiguous and follows the documented precedence.
* Cash: what a closing expects is the ledger, exactly; one open session per
  register; closed sessions are frozen.
* Stock: no quantity below zero; movements explain quantities; a standalone
  change is applied exactly once; receipts have no gaps.
* Sessions: one good refresh token per open session, at every instant of any race; none
  for a revoked one, unless a logout of all devices has missed it, and then one that is
  of no use; every request ends.
* One-time codes: a code signs in once; the limits hold up to the requests that
  race.
* Queue and service sessions: a customer is in service exactly while one session
  is; every change is counted and recorded once; nothing enters the queue twice.
* Appointments and availability: no double booking, buffers included; one
  appointment per key; the slots shown are exactly those that could be booked.
* Android client: several refused requests at once never cost the user the
  session, and the stored token is the one the server expects.
* Web client: nothing of its own brings a tab back to a session it has left, and many
  refused requests of a tab never cost the session.
* Memberships: seats within the plan, and everybody in an organization founded it
  or was invited.

The places where this can go wrong are the `hazards` of `PROJECT.json`, each at
its line, with the properties that guard it or the reason why none does.

## 2. How the code is modelled

Tables are partial functions: the domain is the set of rows that exist.  Every
HTTP request is modelled in the steps the database sees:

* `Begin...`: the reads a handler makes before any transaction, with all their
  early returns as guards.  What was read is kept in `inflight`, so it may be
  stale when it is used.
* `Commit...`: one database transaction.  It is one step when the transaction
  starts by locking the only row it shares with others, or is one conditional
  UPDATE on a version; otherwise each lock is a step of its own (`LockCorrection`,
  `LockSale`, `LockForEntry`, `LockForClose`, `Read`, `Write`).
* In the modules of the second group (`AuthSessions`, `Visits`, `Booking`,
  `Memberships`) the same two steps are named for the handlers: one that reads,
  checks and goes on (`Move`, `Book`, `Accept`), and one that writes
  (`Transition`, `TryProvider`, `CommitAccept`), which refuses when what was read
  has changed.  `EmailOtp` has one action per statement, because the code runs it
  without a transaction; `AuthSessions` has one per lock.
* `Abandon` (`RollBack` in `StockLedger`): everything else that can end a request: a check that fails inside
  the transaction, a lost version, a constraint, a failure of another part of
  the same transaction, a crash.  All of them roll back, so one action stands
  for them.

Unique and CHECK constraints of the migrations are guards of the commits.
Permissions and memberships are read once per request from tables these
components never write, so they are constants (in `Corrections`, the set of
approvers is chosen once, at the start, among `ApproverSets`).

| Module | Models | State and actions |
|---|---|---|
| `CheckoutPayments` | checkouts.service, payments.service, payment-verifications.service, payment-disputes.service, checkout-settlement.*, transaction-posting | variables are the tables; `DeriveSettlement` is deriveCheckoutSettlement, `Recalculate` and `Post` are shared by all payment commits as in the code; `BeginAdjust`, `CountPayments`, `CommitAdjust` are the three statements of addAdjustment |
| `CheckoutLedger` | abstract specification: what a checkout promises its customer | `phase`, `due`, `collected` per checkout |
| `CommissionMath` | commission-calculation, -adjustment-allocation and -adjustment-calculation utilities | pure operators, no state |
| `CommissionAccruals` | commission-accrual.service, commission-adjustment.service | one sale: any mix of lines, discount and policies, then any sequence of corrections |
| `CommissionRules` | commission-rules.service, commission-rule-precedence.util, the candidate query of the accrual | rules with windows, requests in flight, a clock, and the last line posted |
| `Corrections` | transaction-corrections.service, transaction-correction-execution.service | the corrections of one sale; `EXTENDS CommissionMath`, whose `Adjustment` it applies |
| `CashDrawer` | cash-sessions.service, cash-registers.service | one branch and currency |
| `StockLedger` | branch-inventory.service and its callers, receipt.service | one branch; each settlement and standalone change is a database transaction moving line after line; a settlement then takes its receipt number |
| `SessionTokens` | the names of sessions and refresh tokens | no state: a token is a session and a position in its chain |
| `SessionFamily` | abstract specification: the promise of a signed-in session | `family` (none, open, revoked) and `current`, the position of the last token |
| `AuthSessions` | auth.service, jwt-auth.guard | sessions and tokens of one user; each request stands before its next lock (`Claim`, `Touch`, `RotateCommit`; `LockSessions`, `RevokeCommit`); `DeadlockVictim` is PostgreSQL's deadlock detector |
| `EmailOtp` | email-otp.service | challenges, cooldown, user and identity of an address; each request stands before its next statement |
| `Visits` | queue-intake, queue-commands, service-sessions services and utilities; the status changes of appointment-commands as the queue sees them | one branch and date: appointments, entries, sessions, the day's revision, intake keys |
| `IntervalMath` | interval-math.util | pure operators, and the reference: sets of minutes |
| `Booking` | appointment-booking, appointment-commands, availability-engine services, the exclusion constraint of the migration | appointments and keys, a clock in slots; the schedule is a parameter |
| `SessionClient` | what the two clients have in common; `EXTENDS SessionFamily` as their server | `Trade`, what a refresh request does to its session; `stray`, the requests given up that the server may still get; `exposed`, the sessions of which a refresh was lost or not alone |
| `MobileSession` | SessionManager, TokenAuthenticator, TokenStore, SafeApiCall, and the screens that call them; `EXTENDS SessionClient` | memory, store, disk, the screens' state, where each OkHttp thread and the screens' job stand, requests still in the network |
| `WebSession` | auth/store, session, bootstrap, channel, api/kora-api, and the pages that call them; `EXTENDS SessionClient` | the stored session, the store of each tab, its bootstrap, refresh, requests, sign-in and logout, channel messages; all code between two awaits is one step, and of the generation counter each job keeps only whether it has moved (`late`) |
| `Memberships` | staff-invitation.service, onboarding.service | organizations, memberships with roles, invitations with status and delivery, keys |
| `Commissions` | `CommissionRules` and `CommissionAccruals` side by side | no state of its own but `part`, the component that moves |
| `SumTheorems` | no code: facts about sums over finite sets | see section 4 |
| `CheckoutPaymentsProofs`, `CustodyProofs`, `CorrectionsProofs`, `CommissionsProofs`, `SessionProofs`, `AccessProofs`, `BranchProofs` | theorems | see section 4; `CustodyProofs` is about `CashDrawer` and `StockLedger`, `SessionProofs` about `AuthSessions`, `MobileSession` and `WebSession`, `AccessProofs` about `EmailOtp` and `Memberships`, `BranchProofs` about `Visits` and `Booking` |
| `MC...` | instances for TLC | sets, symmetry, sample data |

Operators introduced by a comment "Mutant:" are defective variants of an
operator that follows them: a dropped check, a reversed order, a boundary moved
by one.  Each property is known to fail when its variant takes the place of the
original (`mutants` in `PROJECT.json`), so each says something about the code.

### Refinement

`CheckoutPayments` implements `CheckoutLedger` (`Ledger` and `ImplementsLedger`
at the end of the module).  The mapping forgets requests, versions, payment rows,
disputes and keys and keeps what the customer sees: the phase, the amount due and
the amount collected.  The abstract specification says that a step settles a
checkout exactly when it collects the last part of what is due, and that an
amount is repriced only while nothing has been collected.

`AuthSessions` implements `SessionFamily` (`Family`, `ImplementsFamily`): the table
of tokens is mapped to the number issued, locks and requests are forgotten, and a
rotation or a revocation counts from its commit.  `MobileSession` and `WebSession`
then take `SessionFamily` itself as their server, so what they show of the clients
rests on the promise and not on the server's statements.

### Faithful details worth knowing

* `CheckoutPayments`: when a duplicate of `create` loses the race on
  service_session_id, the winner's row is returned and nothing written.  A payment
  of a voided checkout can still be confirmed; it is never posted
  (`CollectAfterCancel` in the abstract specification).
* `Corrections`: an execution locks the correction first and the sale second
  (transaction-correction-execution.service.ts:143), although the comment at
  :61-63 of the same file gives the other order.
* `CashDrawer`: `CanOperate` is checked at `Begin`, where the code checks it under
  the lock; the opener of a session and the permissions never change, so the
  answer is the same.
* `StockLedger`: `upsertLocks` is the SQL form of a Prisma upsert whose `update`
  is empty.  Without it (`FALSE`) the statement is a SELECT and takes no lock; were
  it an INSERT ... ON CONFLICT DO UPDATE, it would.  The variable is chosen
  once and never changes, and `LedgerChains` is claimed for the locking form only.
* `AuthSessions`: a session's expiry is a time a rotation does not move; the first
  token has the same expiry, the later ones a later one, hence `TokenExpired`.
  logoutAll lists the sessions before its transaction but revokes by condition:
  a session opened in between is revoked and its token is not.
* `EmailOtp`: the challenge in use is replaced by its id, whatever became of it: a
  consumed challenge may be overwritten as invalidated, and still signs in once.
* `Visits`: conflicts are decided by the first conditional update of each
  transaction; a start of a session is refused by two unique indexes as well.
* `Booking`: opening hours are not read by a booking; only the exclusion
  constraint, the lead time and the horizon are.
* `MobileSession`: restoreSession does not take the mutex that refreshes take; a
  screen that is left cancels its request; `apply` writes to disk later.
  `exposed` collects the sessions of which a refresh was abandoned, unsaved at a
  crash, or ran beside another outside the mutex.
* `AuthSessions`: `missed` is history: the sessions a logout of all devices revoked
  without having listed them.  The server finds such a session revoked when one of its
  tokens is used, refuses, and revokes its tokens then.
* `WebSession`: a bootstrap reads the stored session in one step (`Bootstrap`) and takes
  it over in another (`Hydrated`), if the generation has not moved in between.  Only a
  microtask lies between them in the code; the model lets anything come in between.  A
  write to localStorage is seen by the other tabs at once.  The access and the refresh
  token of one answer share a name.  A tab without a BroadcastChannel signals through a
  storage event, which reaches the same tabs.  A refresh that its tab gives up, because
  the network fails or the page is loaded again, may have reached the server, or reach it
  later (`stray`, `ServeGivenUp`), after anybody has used the stored token again.  A
  verification that reaches the server after its page is gone opens a session nobody
  holds, and a logout is a `RevokeRemotely`; neither needs to be kept.
  `exposed` collects the sessions of which a refresh was given up or its answer dropped,
  or that two tabs refreshed at once.  `left` collects the sessions a tab signed out of,
  whatever the server answered, and is kept when the page is loaded again; only another
  tab that stores the session takes it out.
* `Memberships`: `unseen` counts, for each organization, the seats taken where the
  check could not see them: by whoever joins between its two counts or with an
  invitation that no longer held a seat, and by an invitation that the late
  outcome of an older sending revives.
* `CommissionAccruals`: posting and each correction are single steps because they
  run inside a transaction that holds the checkout or the sale; their concurrency
  is in `CheckoutPayments` and `Corrections`.

## 3. What TLC checks

Every run is exhaustive within its bounds.  `CHECK_DEADLOCK FALSE` is set where the
systems may really stop: every row in a final state, every identifier used, the
clock at its bound.  `MobileSession` and `WebSession` never stop and are checked for
deadlock.

Safety properties need no fairness, and an HTTP request may be abandoned at any
point.  The one liveness property is `RequestsEnd` of `AuthSessions`, under
`SF_vars(Step(r))` for each request: PostgreSQL queues the waiters of a row, so a
request that can get its lock again and again gets it in the end, and aborts one
member of every cycle of waits; Node.js runs each continuation.  Strong fairness is
needed because a row may be locked and freed by others while a request waits.
Nothing is assumed of the clients: no request has to be sent.

| Run | Distinct states | Bounds |
|---|---|---|
| `checkout_payments` | 661,477 | 1 checkout, 2 payments, 2 requests, 2 members, 2 keys, a subtotal of 2 or 3, amounts 1-2, discounts of 2 |
| `commissions` | 843,927 | 3 rules, 2 requests, 2 scopes, 2 instants, rules in 2 currencies; or 3 lines of either kind at 1 or 4, adjustments -5, -1, +2, 3 policies, the fixed one 8 units, 2 corrections |
| `corrections` | 732,144 | 2 corrections, 2 requests, 2 members, 2 keys, a service and a product line, 3 item lists, 1 or 2 approvers |
| `cash_drawer` | 686,684 | 1 register, 2 sessions, 2 entries, 2 requests, 2 members |
| `stock_ledger` | 283,145 | 2 variants of 2 units, 2 settlements and a standalone change, both upsert forms, settlements with no line, one or two |
| `auth_sessions` | 137,226 | 2 sessions, 2 requests, chains of 2 tokens |
| `email_otp` | 529,000 | 1 address, 4 challenges, 2 requests, 2 attempts, 2 codes per hour |
| `visits` | 2,434,924 | 1 appointment, 2 tickets, 2 sessions, 2 providers, 1 key, 2 commands |
| `booking` | 711,000 | 2 providers of different duration, 2 appointments, 1 key, 5 schedules, 2 requests |
| `mobile_session` | 922,976 | 2 sessions, chains of 2, 2 refused requests beside the screens' job |
| `web_session` | 1,135,575 | 2 tabs with 2 requests each, 2 sessions, chains of 2, 2 jobs under way at once beside their refreshes, one of which may be a refresh given up and not yet served, 1 message pending per tab |
| `memberships` | 2,281,263 | 2 organizations, 2 users, 1 key, 2 invitations, 2 requests, a limit of 2 seats |

Why these bounds are enough.  All races in this code are between two requests:
each handler holds one stale read, and what can invalidate it is the commit of
one other request; two requests with identifiers for two rows show every order
of reads, locks and commits.  Two payments are needed to exceed a total
together, to confirm the last two at once and to mix statuses; amounts of 1 and
2 pay a total of 2 whole or in parts and a total of 3 only together; a discount
of 2 leaves 1 of 3 and nothing of 2, and a second one is refused.  Surcharges
take the same path, and the arithmetic of both signs is checked in
`commissions`.  Two refunds that exceed a line cannot both be executed; one of 1 and one
of the rest exhaust it, each rounded on its own.  Three lines are the fewest where the remainders of
an allocation compete for fewer units than there are lines.  Three rules are a supersession beside
a rule of another scope, or a rule re-created after a deactivation beside the
old one.  Two refresh tokens are a rotation and the reuse of what it traded in; two
sessions show a logout of another device and a list that misses one.  Four
challenges let each of two requests overshoot a limit of two.  Two queue entries and
two providers let two sessions claim one entry, or one provider.  The schedules of
`booking` have a closed day, touching and overlapping rules, and exceptions that cut
an interval in two or add one.  Two callers and the screens' job are the two kinds
of thread that meet; a third caller would wait for the mutex as the second does.  Two
tabs are the two that can hold one token; a tab's second request is the one that joins
its refresh or starts the next.  One refresh that was given up is enough for its session to
be lost; a second one of that session finds it at risk already.

Named bounds in guards: `MaxVersion` (no adjustment starts at this version or
later), `MaxSteps` (corrections per sale), `MaxTime` and `LastTick` (the clock),
`MaxChain` (tokens per session), `MaxJobs` (no tab starts a
bootstrap, a request, a sign-in or a logout while this many are under way, refreshes
given up included), `MaxPending`
(one message has the effect of several), `MaxStray` (no tab gives up a refresh that is on
the wire while this many are astray), `MaxTicket`, `MaxSession`, `MaxItems` (rows and
item versions of `Visits`), `MaxRevision` (from this revision on no new command
reads an entry), `MaxAppointments`, `MaxReschedules`, `MaxInvitations`, `MaxToken`
(resends).  `MaxAttempts`
in `StockLedger` is the code's own.

### What each run shows

* **checkout_payments.**  `SettledExactlyPaid` and `BalanceHonest` tie the
  checkout's status and total to its payments under every interleaving: the status of an
  active checkout is OPEN before the first payment and then what `DeriveSettlement` makes
  of the payments it has, after every record, confirmation, void, dispute and resolution;
  `TotalFrozenByPayments` shows that the version check of addAdjustment, which takes
  no lock, is enough: recording the first payment always changes the version.
  `AdjustmentsAddUp` rules out lost updates, `OnePaymentPerKey` double payments,
  `TerminalAndPostedOnce` a second sale.  `ImplementsLedger` checks the refinement.
* **commissions.**  Two components that share no variable, each standing still while
  the other moves (`Commissions`).  `RulesFormOneLine`: one current rule per scope,
  seamless supersession, one choice as long as nothing was deactivated.
  `PrecedenceKept`: the weights of the score order scopes as the documented levels do,
  the staff member before the service and the service before the branch.
  `SharesSound`: the largest-remainder allocation shares
  discounts and surcharges to the last unit, keeps the order of the lines, and never
  blocks the posting of a sale of services.  `ReversalsSound`: rounding in
  corrections never takes back more than was earned; what n of them took is at most 2n
  units off the share of the line that was returned, and fewer than n units are left once
  the whole line is (`FollowsShare`).  A residue is possible: a third of 5 rounds to 2, a
  third of 1 and a third of 4 only to 0 and 1.
* **corrections.**  `MoneyReturnedOnce` (the locks, the limits line by line, a
  reversal stands alone), `EffectsFollowMoney` (stock exactly, and commission as in
  `FollowsShare`, line by line over any sequence of refunds),
  `SeparationOfDuties`, `KeysActOnce`, and `DecidedOnce` for every step.
* **cash_drawer.**  `ExpectedIsLedger`: no entry slips in between the sum a
  closing takes and its commit, or after it.  `OneOpenPerRegister`,
  `ClosedIsFrozen`.
* **stock_ledger.**  `LedgerExplainsStock` (no dirty overwrite; with the locking
  upsert the movements chain), `StandaloneExact` (the Serializable retry applies a
  change once, on top of what is there), and `ReceiptsGapless`: numbers follow the
  commits, although transactions that took one roll back.
* **auth_sessions.**  `FamilyHolds`: of a session there is one good token or none, none
  after a revocation that knew of the session, and no rotation is about to issue one for
  a session that is not open.
  `RevokedForGood`: a refresh that read before a revocation and writes after it
  brings nothing back.  `ImplementsFamily`, the refinement.  `RequestsEnd`: the
  opposite lock orders cost a request now and then, and never hang one.
* **email_otp.**  `CodeUsedOnce`; `LimitsHold`: attempts and codes pass their
  limits by less than the number of requests racing, and a full challenge is locked
  or about to be.
* **visits.**  `VisitMatchesSessions` relates two tables no transaction locks
  together; `ChangesOnRecord` compares the revision with the versions of all
  entries and each history row with the change it reports; `CheckedInOnce` shows that
  the unique indexes make up for the reads before the transaction.
* **booking.**  `NoDoubleBooking` includes buffers and reschedulings;
  `OneAppointmentPerKey` the duplicate that moves on to the next provider;
  `OfferedIsBookable` compares the engine's interval arithmetic with sets of
  minutes, and its overlap test with the database's.
* **mobile_session.**  `StoredIsCurrent` and `RefusalsKeepSession`: within the
  mutex, any number of refusals and refreshes keep the session.  What can cost it is
  listed by `exposed`: a reply that was lost, a write that had not reached the disk, a
  restoration beside a refresh.
* **web_session.**  `LogoutFinal`: however late a refresh, a verification or a
  hydration ends, and however often the page is loaded again, neither the memory of the
  tab nor localStorage holds a session the tab has signed out of; the generation is what
  makes it hold.  The one way back is the refresh of another tab that the message of the
  logout has not reached: it stores the session again, for every tab
  (`LateRefreshRestoresNothing` below).  `OneTabKeepsSession`: the requests of a tab share
  one refresh, and the token it stores is the one the server expects.  A session in
  `exposed`, or one that is logged out of or revoked from another device, is all the
  server ends.
* **memberships.**  `SeatsWithinLimit` says how far the plan's limit can be passed:
  creates alone never pass it.  `MembershipsJustified`: every member founded the
  organization or holds an invitation meant for them; a key founds one organization.

### Known disagreements between the code and what it says of itself

Each of these (and one expectation of a user, which no document states) is a
definition at the end of its module that TLC refutes when it is
added to the module's configuration as an invariant or property.  The configurations
do not list them, so that every run passes.

| Definition | The sentence | What happens |
|---|---|---|
| `CheckoutPayments!ReplayReturnsOriginal` | "A replayed request with the same key and body returns the original payment" (docs/SECURITY.md:935-937) | a duplicate that passed the key check while its original was committing is answered with a balance or status error (payments.service.ts:142) |
| `CommissionAccruals!BasisNeverNegative` | the caller has validated the basis (commission-calculation.util.ts:36-37) | a discount larger than the services of a mixed sale gives a negative basis, and the paid checkout never posts (commission-accrual.service.ts:123) |
| `Corrections!ReversalNegatesSale` | "REVERSAL, one full negation" (docs/PRODUCT_REQUIREMENTS.md:332) | it repeats the gross lines and forgets the discount (transaction-correction-execution.service.ts:297) |
| `CommissionRules!DeactivatedNotApplied` | deactivating "closes it with no replacement" (docs/API_SPEC.md:712) | the candidate query looks at the window only; the rule is still applied (commission-accrual.service.ts:99) |
| `CashDrawer!ArchivedHasNoOpenSession` | archiving is rejected while a session is open (docs/DATA_MODEL.md:961) | a session opens between the check and the update (cash-registers.service.ts:107) |
| `StockLedger!NeverOversold` | "a checkout can never settle having oversold" (branch-inventory.service.ts:360-362) | two settlements read the same quantity and both sell it, with the non-locking upsert |
| `EmailOtp!OneLiveCode` | a new code is "a resend, not a second live code" (email-otp.service.ts:88-89) | two concurrent requests both find no active challenge, or the same one, and create one each |
| `Visits!OnlyConfirmedCheckedIn` | check-in rejects a cancelled or no-show appointment (docs/API_SPEC.md:460) | the appointment is read before the transaction and not again (queue-intake.service.ts:191, :229) |
| `Booking!BookedWithinHours` | creating "revalidates everything from scratch" (docs/API_SPEC.md:957) | opening hours and staff rules are not read (appointment-booking.service.ts:252-264) |
| `Booking!NoShowIsPast` | a future appointment cannot be marked a no-show (appointment-commands.service.ts:121) | the update is conditional on the status only; a rescheduling may have moved the start (:125-126) |
| `MobileSession!LogoutRevokes` | logout revokes the current session (docs/SECURITY.md:141) | the client that logs out is built on authOnlyOkHttpClient, which sends no access token (AppContainer.kt:93-98); the server refuses, and the session stays open there |
| `WebSession!LateRefreshRestoresNothing` | "a late refresh or hydration result cannot restore a session after the user has logged out" (docs/HTTPONLY_AUTH_MIGRATION.md:67-69) | the generation is each tab's own: a refresh that ends in another tab before the message arrives stores the session again, and the next page loaded takes it over (kora-api.ts:176-185) |
| `WebSession!AccountKept` | no sentence; what a user expects | a refused request refreshes whatever session localStorage holds, so a tab goes on under the account another tab signed in to (kora-api.ts:108) |
| `Memberships!AcceptedStays` | "only a still-pending invitation can be revoked" (docs/API_SPEC.md:254-256) | revoke reads the status first and updates by id; an acceptance in between is overwritten (staff-invitation.service.ts:677-691) |

Also seen while modelling: a discount may bring the total of a checkout to zero,
which no payment can settle (checkouts.service.ts:351); the recorder of a payment may
confirm it by resolving its dispute (payment-disputes.service.ts:99); the replay of a
reversal request is refused once its original was executed
(transaction-corrections.service.ts:180); a refund request is compared with the
original amount only, the remaining one being checked at execution (:80); the
adjustment is shared among service lines only (commission-accrual.service.ts:90;
ARCHITECTURE.md:393 says all lines); after a deactivation the old rule and its
replacement are both candidates; an overdrawn drawer cannot be closed
(cash-sessions.service.ts:204); two settlements moving the same two products in
opposite order deadlock (branch-inventory.service.ts:405); the staff limit may be
passed as `SeatsWithinLimit` measures (docs/SECURITY.md:1327-1345 says it is not); a
booking whose duplicate took the last provider is answered SLOT_UNAVAILABLE
instead of its appointment (appointment-booking.service.ts:286-294), and an
onboarding whose duplicate took the slug ORGANIZATION_SLUG_TAKEN
(onboarding.service.ts:286-301); the status EXPIRED that resend writes is rolled
back by the error it throws (staff-invitation.service.ts:225-230); on the phone, a
refresh in flight during a logout signs the user in again
(SessionManager.kt:121-124), and a lost reply to a refresh makes the next one a
reuse, which revokes the session (:106-112); in the browser, two tabs that refresh the
same stored token do the same (kora-api.ts:99), and a logout with an access token that
has expired refreshes nothing and leaves the session open on the server (:282-291).  A
collision of a transaction number is retried inside a transaction that PostgreSQL has
already aborted (transaction-posting.service.ts:254).

## 4. What is proved

The theorems hold for every value of the constants that satisfies the named
assumptions of the modules, which TLC evaluates on the instances:

* `PermissionAssumption`, `MoneyAssumption` (`CheckoutPayments`): holders of
  permissions are members; amounts are natural numbers of minor units, and a payment
  is not zero.
* `DrawerAssumption` (`CashDrawer`): likewise, and the types of entries.
* `StockAssumption` (`StockLedger`): initial quantities are natural numbers, deltas
  and lines are integers of stocked variants, and a delta is not zero.
* `SaleAssumption`, `EarnedAssumption` (`Corrections`): the sale's lines have prices
  and quantities, a refund asks for amounts of some of them, and what was accrued is what the
  commission rule gives; a rate is at most 10000 basis points (create-commission-rule.dto.ts:35,
  and a CHECK constraint of the table).
* `ScopeAssumption`, `TimeAssumption` (`CommissionRules`), `SaleAssumption`
  (`Commissions`): null is no identifier; a sale has finitely many lines, at least
  one, in some order.
* `ChainAssumption` (`SessionTokens`): a chain has room for a token; `AuthAssumption`:
  null is no session; `MobileAssumption`: the screens' job is none of the requests;
  `WebAssumption`: the bounds on messages, jobs and requests given up are natural numbers.
* `OtpAssumption`: finitely many challenges and requests, at least one attempt.
* `VisitsAssumption`; `BookingAssumption`: providers have an order, durations are
  positive, the clock's range lies in the day's; `MembershipsAssumption`: the plan
  has a seat and an invitation a token, the owner's role is not one to invite to.  The
  users need not be finitely many: the members are.

Every proof has the same shape: an inductive invariant, one lemma per action (or per
kind of action) that the step keeps it, and the property from it.  What is
interesting is what each invariant adds to the property it is for, which is always
what a request still knows of rows it read some time ago.

| Module | Theorem | States |
|---|---|---|
| `CheckoutPaymentsProofs` | `TypeCorrect` | every table keeps its columns and its foreign keys |
| | `ReadsStaySound` | `InflightSound` |
| | `SettledIsPaid` | `SettledExactlyPaid` |
| | `NoAdjustmentLost` | `AdjustmentsAddUp` |
| | `BalanceIsHonest` | `BalanceHonest`: the payments fit the total, and the status is the one they imply |
| | `KeysPayOnce` | `OnePaymentPerKey` |
| | `TotalsFreeze` | `TotalFrozenByPayments` |
| | `FinalIsFinal` | `TerminalAndPostedOnce` |
| | `LedgerImplemented` | `ImplementsLedger`: the refinement of `CheckoutLedger` |
| `CustodyProofs` | `ClosingIsExact` | `ExpectedIsLedger` |
| | `DrawerExclusive` | `OneOpenPerRegister` |
| | `SnapshotKept` | `ClosedIsFrozen` |
| | `StockIsExplained` | `LedgerExplainsStock` |
| | `ReceiptsHaveNoGap` | `ReceiptsGapless` |
| | `StandaloneCounts` | `StandaloneExact` |
| | `ExplainsConcat` | movements that explain what a list left explain it together with that list |
| `CorrectionsProofs` | `MoneyIsReturnedOnce` | `MoneyReturnedOnce` |
| | `EffectsAreTheMoneys` | `EffectsFollowMoney` |
| | `DutiesAreSeparate` | `SeparationOfDuties` |
| | `CorrectionKeysActOnce` | `KeysActOnce` |
| | `DecisionsAreFinal` | `DecidedOnce` |
| `CommissionsProofs` | `RulesStayOneLine` | `RulesFormOneLine` |
| | `PostingKeepsPrecedence` | `PrecedenceKept` |
| | `SharesAreExact` | the largest-remainder allocation adds up, for any lines and any adjustment |
| | `AdjustmentsAreShared` | `SharesSound` |
| | `ReversalsStayWithin` | `ReversalsSound` |
| | `RulesAreThere` | the composition contains the rules as specified: `EitherSpec => Spec` |
| `SessionProofs` | `OneTokenPerFamily` | `FamilyHolds` |
| | `RevocationIsFinal` | `RevokedForGood` |
| | `FamilyImplemented` | `ImplementsFamily`: the refinement of `SessionFamily` |
| | `MobileInvariant`, `WebInvariant` | the inductive invariants of the two clients |
| | `StoredTokenIsCurrent` | `StoredIsCurrent` |
| | `RefusalsAreHarmless` | `RefusalsKeepSession` |
| | `LogoutIsFinal` | `LogoutFinal` |
| | `OneTabIsHarmless` | `OneTabKeepsSession` |
| `AccessProofs` | `CodesSignInOnce` | `CodeUsedOnce` |
| | `LimitsAreKept` | `LimitsHold` |
| | `SeatsAreLimited` | `SeatsWithinLimit` |
| | `MembershipsAreJustified` | `MembershipsJustified` |
| `BranchProofs` | `VisitsMatch` | `VisitMatchesSessions` |
| | `ChangesRecorded` | `ChangesOnRecord` |
| | `EnteredOnce` | `CheckedInOnce` |
| | `NobodyIsBookedTwice` | `NoDoubleBooking` |
| | `KeysBookOnce` | `OneAppointmentPerKey` |
| | `OffersFitTheConstraint` | the half of `OfferedIsBookable` that depends on the bookings |

**Checkouts** (`Inv`, `Balanced`, `KeysSound`).  `InflightSound` is the
strengthening: the commands that take no lock compare a version, and this helps only if
equal versions mean equal rows, hence `SeenSound`: while the version is the one read,
the row is the one read.  Lemmas about tables (`InsertTable`, `UpdateTable`, ...) and
about the effect of `Recalculate` (a row is untouched or its version grows; a settled
row comes with its transaction) are stated once.  The balance, the keys and the
refinement are one further step property, `Keeps`, proved action by action over
`Inv`: what a payment changes about the collected sum is computed with `SumTheorems`,
and the same computation shows the step of the ledger.

**Drawers** (`DrawerInv`).  The holder of a session's lock is alone (`OneLock`), and
the session it holds is open, a closing having read exactly the sum of the entries
committed so far.  The sum itself is never opened: `SameLedger` says that it is the
same as long as the session's entries are.

**Stock** (`StockInv`).  No row is held by two running transactions (`RunsApart`), which
is why what a transaction sees of a row it holds stays true while others commit.
`Exact` says, for locking upserts, that the movements a transaction has not committed
yet explain what it will leave on top of the committed rows, and that what it has read
is just that; `ExplainsConcat` then carries the commit.  It speaks of movements by their
places in the list, so that neither the chain nor the sum of the deltas needs an
induction over sequences: the last movement of a variant is a maximum, and the places
of two lists put one after the other are those of the first and those of the second
moved up (`SumShifted`).  A receive or adjust relies on its snapshot instead
(`SingleLine`): a row whose version is still that of the snapshot is as the snapshot has
it.  Of the transactions that run, one at most has taken a receipt number, and it is
the next (`NumbersSound`).

**Corrections** (`CInv`).  `Book` is what holds of the tables, `InflightInv` of the
requests: `Tracked` says that what a request read before its locks is still true of
the row while the version is the same, and of two executions only one is past each
lock.  The limits are kept line by line, then summed with `SumTheorems`; commissions
follow with `CommissionIsFollowed`, from the rounding of one correction (see Sums).

**Commissions** (`RulesInv`; `SaleInv`).  The rules of a scope form a line
(`LineUnbroken`): of two windows one is over when the other begins, and the last has no
end.  A rule is at version 1 exactly while it is current, so a request that finds
version 1 again finds the rule it read.  For a sale, the floors add up to at most
the whole, the rest is smaller than the number of lines, and the largest remainders take
it.  For the corrections the bound itself is not inductive.  What is (`Paced`): the bases the
parts were given add up to the share of the line returned, up to half a unit a part, and
what was taken is the commission on these bases, up to half a unit a part, or all there
was; `FollowsShare` follows.

**Sessions** (`AuthInv`).  Beside the promise itself, `RowsSound` says what each
stage of a request relies on (after the claim, the token is good; after the touch,
the session is open), and `Exclusive` that nobody else has locked those rows, which is
why it is still true at the commit.

**Clients** (`MobileInv`; `WebInv`).  That the stored token is the current one is not
inductive: between the server's rotation and the save it is not.  What is inductive
follows a token through every place it can be: in a request, a reply, a job's hands or
the store it is `Sound`, the one the server expects next unless its session is at risk
already, except that what is stored may be out of date while somebody has its successor
(`StoredSound`, `BrowserSound`).  A rotation then hurts nobody else, as two who refresh
one session put it at risk (`RefreshAlone`, `TradeAlone`); on the phone the mutex is why
two requests never do (`OneInMutex`), in the browser the one refresh of each tab.
A session that has just been opened is nobody's but the sign-in's
(`FreshOpened`, `SignInSound`), so its first token may be saved over anything.  For
`LogoutFinal` it is enough that whatever a tab still awaits of a session it has left is
marked late (`LeftSound`): the logout marks all that was under way, a page loaded again
awaits nothing, and localStorage, from which it starts again, has no session left by a
tab.  The steps are sorted by what they
do to tokens (a job steps while the server stands still, a token is taken along, the
server acts, a session is opened), one lemma each, and each action is shown to be of a
kind.  The proofs use of the server only what `SessionFamily` promises, and
`FamilyImplemented` says that the server keeps it.

**Codes** (`OtpInv`).  A code that is still active has fewer failed attempts than
the limit, plus the requests about to lock it; a new code is paid for by a request that
counted before it.  Both are counted with cardinalities of sets of requests
(`AtAfter`, `AskingAfter`), since any number of them can stand between two statements.

**Memberships** (`MembershipsInv`).  The limit alone is not inductive: between its
counts a create is short of the members by no more than what joined unseen, and past
them its seat is still free but for that (`SeatFree`); the lock of the subscription
row (`LockHolds`) is why no second create takes it.  Whom an invitation is for and
what it grants never changes, nor are roles taken away (`Grows`), so what a request
looked up before its commit stays true.  An organization without an owner has neither
members nor invitations (`Rooted`), which is why onboarding it cannot pass the limit.

**Branch** (`DayInv`; `BookInv`).  `SessionsSound` ties the status of an entry to its
session in both directions; `Holding` says what a command may still believe of what it
read, and the conditional first update does the rest.  The revision of the day is
compared with a sum of versions, which a step changes in one summand.  For bookings,
each row carries the window it occupies, the exclusion constraint keeps those apart
and the buffers do the rest; a key on a row is in the table of keys.  No stored window
is empty, so comparing ends, as the engine does, and intersecting ranges, as the
constraint does, agree (`ConflictsAreMinutes`): `OffersFitTheConstraint` says that of the
starts on the grids of the open intervals the engine offers exactly those whose booking
the constraint would admit at that moment.

**Sums** (`SumTheorems`).  The sum of the community modules is a recursive function,
and the library's induction theorems take an operator as a parameter, which no
installed prover can instantiate.  The facts are proved instead from a least
counterexample: if a claim fails for some finite set, it fails for one all of whose
proper subsets satisfy it (`MinimalSubset`, from the well-foundedness of the subset
relation), and removing one element from that one contradicts it.
Its last section is about rounding, for both modules that take commission back: each
correction keeps `Paced` (`PacedStart`, `PacedStep`), and `Paced` bounds what is taken of a
part of the line (`PacedShare`) and what is left after the whole (`PacedWhole`).

An instance of a module has operators of its own where the module extends a library;
`SaleSets` and `SaleSums` of `CommissionsProofs` say that they are the same.

Only model-checked:

* `OfferedIsBookable` of `Booking`, in its other half: that the open intervals the
  engine computes have the minutes of the opening hours and the rules.  The interval
  arithmetic folds over sequences, and what a recursive definition computes for every
  sequence is an induction over data.
* `RequestsEnd` of `AuthSessions`: liveness under fairness is out of the prover's
  reach and stays with TLC.

## 5. What is not modelled

* Audit rows and in-process events, formatting, list and detail reads: nothing reads
  them back.
* The transaction number and the text of a receipt, which commit with the sale.
* Line pricing when a checkout is created: `Subtotals` are the outcomes.
* Several organizations, branches or currencies where a module is about one of
  them: rows of different tenants are disjoint, and every query is scoped.
* Untracked products and the creation of inventory rows.
* Time zones and local dates: availability and bookings are in minutes of one day.
* The cancellation cutoff, groups of services in one booking, the customer record
  created with the first booking.
* Most lines of the repository are of a kind that has nothing to check: about a
  third are web screens and a third Android screens, which fetch, render and
  post, and keep only the state of a form; of the API, a large part is DTOs,
  controllers, views, list queries, and services that write one row under a unique
  constraint.  A model of these would restate the assignments.  The map names the
  handlers whose outcome depends on more than one row, request or process, and that
  is the share of the code these models are for.
* The browser's refresh coordinator (auth/refresh-coordinator.ts), which elects one tab
  to refresh: no screen imports it, and `WebSession` shows the client without it.
  Storage that cannot be read, malformed answers, and the logout of the settings page,
  which goes through koraApi.
* Marketplace orders have behaviour worth modelling and are planned below.

## 6. Plan

Done: all modules of section 2, and the proofs of section 4.

Next, in order of weight:

1. The refresh coordinator, when a screen uses it: the leader's lock, the broadcast, a
   waiter's time-out, in place of the refresh of `WebSession`.
2. `MarketplaceOrders`: idempotent placement.
3. Composition of settlement, stock and cash entry in one module, for the order of
   the locks.
