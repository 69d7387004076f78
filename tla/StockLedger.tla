----------------------------- MODULE StockLedger -----------------------------
(***************************************************************************)
(* The stock of one branch: the quantity on hand of each product variant,  *)
(* and the movements that explain it.  A sale that settles and a           *)
(* correction that is executed move the stock of their product lines       *)
(* inside their own READ COMMITTED transaction, line after line            *)
(* (applySaleMovement); receiving and adjusting stock run a Serializable   *)
(* transaction of their own, tried up to three times (mutateStock).        *)
(*                                                                         *)
(* Each line is moved in two statements: an upsert that reads the row, and *)
(* an UPDATE that writes the quantity computed from what was read.  The    *)
(* UPDATE takes the row's lock and waits for it; it is held to the end of  *)
(* the transaction.  The upsert updates nothing.  The client library turns *)
(* such an upsert into a SELECT, which takes no lock; were it to send an   *)
(* INSERT ... ON CONFLICT DO UPDATE, it would take it.  The variable       *)
(* upsertLocks is the form it uses, chosen once.                           *)
(*                                                                         *)
(* Once its lines are moved, a settlement or correction takes the next     *)
(* number of the branch's receipts and creates its receipt with it.  That  *)
(* upsert increments the sequence in the database, so it does wait for the *)
(* row, and keeps it to the end of the transaction.                        *)
(*                                                                         *)
(* Stock rows exist from the start; products that are not tracked are left *)
(* out.  All receipts are of one year.                                     *)
(***************************************************************************)
EXTENDS Integers, Sequences, FiniteSetsExt, Functions

CONSTANTS
    Variants,      \* product variants stocked at the branch
    Transactions,  \* database transactions, each run at most once
    Settlements,   \* those of settling checkouts and executed corrections
    LineLists,     \* product lines a settlement may move, in order: [variant, delta]
    Deltas,        \* deltas of a standalone receive or adjust
    Stock,         \* the initial quantity on hand of each variant
    UpsertForms,   \* forms considered: FALSE the SELECT, TRUE the locking INSERT
    None           \* no quantity read yet

Line == [variant : Variants, delta : Int]

ASSUME StockAssumption ==
    /\ Settlements \subseteq Transactions
    /\ LineLists \subseteq Seq(Line)
    /\ None \notin Nat
    /\ Deltas \subseteq Int \ {0}
    /\ Stock \in [Variants -> Nat]
    /\ UpsertForms \subseteq BOOLEAN

MaxAttempts == 3

VARIABLES
    onHand,    \* table branch_inventory, committed: quantity_on_hand
    version,   \* how often a row was updated: what a snapshot is compared with
    movement,  \* table inventory_movements, committed, in commit order
    lastSequence, \* table branch_receipt_sequences, committed; 0 for no row
    tx,        \* state of each transaction
    upsertLocks  \* whether the reading statement locks its row

stockVars == <<onHand, version, movement, lastSequence, tx, upsertLocks>>
rows == <<onHand, version, movement, lastSequence>>
-----------------------------------------------------------------------------
\* `read' is the quantity the current line's upsert returned; `moves' are the
\* movements written so far, not yet committed; `receipt' is the number of the
\* receipt it created, 0 before.
NotStarted == [state |-> "idle", lines |-> <<>>, attempt |-> 0, read |-> None,
               moves |-> <<>>, receipt |-> 0, snapshot |-> [v \in Variants |-> [quantity |-> 0, version |-> 0]]]

Running == {t \in Transactions : tx[t].state = "running"}
Written(t) == {tx[t].moves[i].variant : i \in DOMAIN tx[t].moves}
HasLine(t) == Len(tx[t].moves) < Len(tx[t].lines)
Current(t) == tx[t].lines[Len(tx[t].moves) + 1]

\* Rows t has a lock on.
ReadLocked(t) == IF upsertLocks /\ tx[t].read # None THEN {Current(t).variant} ELSE {}
Locked(t) == IF t \in Running THEN Written(t) \cup ReadLocked(t) ELSE {}

RowFree(t, v) == \A u \in Transactions \ {t} : v \notin Locked(u)

\* The row of the receipt sequence: locked by who took a number, until it ends.
SequenceFree(t) == \A u \in Running \ {t} : tx[u].receipt = 0

\* The places of a variant in a list of movements, and the quantity that the last
\* of some places left behind, if there is one.
About(moves, v) == {i \in DOMAIN moves : moves[i].variant = v}
Left(moves, places, start) == IF places = {} THEN start ELSE moves[Max(places)].after

\* What t sees of row v: its own write, or else the committed row; that is the
\* row of now if READ COMMITTED, the row of its snapshot if Serializable.
Visible(t, v) ==
    Left(tx[t].moves, About(tx[t].moves, v),
         IF t \in Settlements THEN onHand[v] ELSE tx[t].snapshot[v].quantity)
Snapshot == [v \in Variants |-> [quantity |-> onHand[v], version |-> version[v]]]

\* A Serializable transaction fails on a row somebody updated since it began.
SnapshotHolds(t, v) == t \in Settlements \/ tx[t].snapshot[v].version = version[v]
-----------------------------------------------------------------------------
Start(t, lines) ==
    /\ tx[t].state = "idle"
    /\ tx' = [tx EXCEPT ![t] = [NotStarted EXCEPT !.state = "running", !.lines = lines,
                                                  !.attempt = 1, !.snapshot = Snapshot]]
    /\ UNCHANGED <<rows, upsertLocks>>

\* postForCheckout's and execute's loops over the product lines.
StartSettlement(t) == t \in Settlements /\ \E lines \in LineLists : Start(t, lines)

\* receive and adjust.
StartStandalone(t) ==
    /\ t \notin Settlements
    /\ \E v \in Variants, d \in Deltas : Start(t, <<[variant |-> v, delta |-> d]>>)

\* Mutant: the row is read outside of the transaction.
ReadOutside(t) ==
    /\ t \in Running /\ HasLine(t) /\ tx[t].read = None
    /\ RowFree(t, Current(t).variant) /\ SnapshotHolds(t, Current(t).variant)
    /\ tx' = [tx EXCEPT ![t].read = onHand[Current(t).variant]]
    /\ UNCHANGED <<rows, upsertLocks>>

\* The upsert.
Read(t) ==
    /\ t \in Running /\ HasLine(t) /\ tx[t].read = None
    /\ LET v == Current(t).variant IN
       /\ upsertLocks => RowFree(t, v) /\ SnapshotHolds(t, v)
       /\ tx' = [tx EXCEPT ![t].read = Visible(t, v)]
    /\ UNCHANGED <<rows, upsertLocks>>

\* The UPDATE and the movement; nothing may go below zero.
Sufficient(quantity) == quantity >= 0

Write(t) ==
    /\ t \in Running /\ HasLine(t) /\ tx[t].read # None
    /\ LET v == Current(t).variant
           after == tx[t].read + Current(t).delta
       IN
       /\ Sufficient(after)
       /\ RowFree(t, v)
       /\ SnapshotHolds(t, v)
       /\ tx' = [tx EXCEPT
              ![t].read = None,
              ![t].moves = Append(@, [by |-> t, variant |-> v, delta |-> Current(t).delta,
                                      before |-> tx[t].read, after |-> after])]
    /\ UNCHANGED <<rows, upsertLocks>>

\* Mutant: the number is taken in a transaction of its own.
IssueOutside(t) ==
    /\ t \in Running \cap Settlements /\ ~HasLine(t) /\ tx[t].receipt = 0
    /\ tx' = [tx EXCEPT ![t].receipt = lastSequence + 1]
    /\ lastSequence' = lastSequence + 1
    /\ UNCHANGED <<onHand, version, movement, upsertLocks>>

\* issueForTransaction and issueCorrectiveReceipt.
IssueReceipt(t) ==
    /\ t \in Running \cap Settlements /\ ~HasLine(t) /\ tx[t].receipt = 0
    /\ SequenceFree(t)
    /\ tx' = [tx EXCEPT ![t].receipt = lastSequence + 1]
    /\ UNCHANGED <<rows, upsertLocks>>

Commit(t) ==
    /\ t \in Running /\ ~HasLine(t)
    /\ t \in Settlements => tx[t].receipt # 0
    /\ lastSequence' = IF t \in Settlements THEN tx[t].receipt ELSE lastSequence
    /\ onHand' = [v \in Variants |-> IF v \in Written(t) THEN Visible(t, v) ELSE onHand[v]]
    /\ version' = [v \in Variants |-> IF v \in Written(t) THEN version[v] + 1 ELSE version[v]]
    /\ movement' = movement \o tx[t].moves
    /\ tx' = [tx EXCEPT ![t].state = "committed"]
    /\ UNCHANGED upsertLocks

\* Mutant: the new attempt goes on from what the last one had read.
RetryStale(t) ==
    /\ t \in Running \ Settlements
    /\ HasLine(t)
    /\ ~SnapshotHolds(t, Current(t).variant)
    /\ tx[t].attempt < MaxAttempts
    /\ tx' = [tx EXCEPT ![t].attempt = @ + 1, ![t].snapshot = Snapshot]
    /\ UNCHANGED <<rows, upsertLocks>>

\* A serialization failure (the row changed since the snapshot) starts again.
Retry(t) ==
    /\ t \in Running \ Settlements
    /\ HasLine(t)
    /\ ~SnapshotHolds(t, Current(t).variant)
    /\ RowFree(t, Current(t).variant)
    /\ tx[t].attempt < MaxAttempts
    /\ tx' = [tx EXCEPT ![t].attempt = @ + 1, ![t].read = None, ![t].snapshot = Snapshot]
    /\ UNCHANGED <<rows, upsertLocks>>

\* Too little stock, a last serialization failure, a deadlock the database broke,
\* a failure of the rest of the settlement, or a crash: everything rolls back.
RollBack(t) ==
    /\ t \in Running
    /\ tx' = [tx EXCEPT ![t].state = "aborted"]
    /\ UNCHANGED <<rows, upsertLocks>>

StockInit ==
    /\ onHand = Stock
    /\ version = [v \in Variants |-> 0]
    /\ movement = <<>>
    /\ lastSequence = 0
    /\ tx = [t \in Transactions |-> NotStarted]
    /\ upsertLocks \in UpsertForms

StockNext == \E t \in Transactions :
    \/ StartSettlement(t)
    \/ StartStandalone(t)
    \/ Read(t)
    \/ Write(t)
    \/ IssueReceipt(t)
    \/ Commit(t)
    \/ Retry(t)
    \/ RollBack(t)

StockSpec == StockInit /\ [][StockNext]_stockVars
-----------------------------------------------------------------------------
(* Properties.                                                             *)

Move == [by : Transactions, variant : Variants, delta : Int, before : Nat, after : Nat]

\* Quantities stay natural numbers, in the rows and in the movements.
TypeOK ==
    /\ onHand \in [Variants -> Nat]
    /\ version \in [Variants -> Nat]
    /\ \A i \in DOMAIN movement : movement[i] \in Move
    /\ lastSequence \in Nat
    /\ \A t \in Transactions :
          /\ tx[t].state \in {"idle", "running", "committed", "aborted"}
          /\ tx[t].attempt \in 0 .. MaxAttempts
          /\ \A i \in DOMAIN tx[t].lines : tx[t].lines[i] \in Line
          /\ \A i \in DOMAIN tx[t].moves : tx[t].moves[i] \in Move
          /\ tx[t].read \in Nat \cup {None}
          /\ tx[t].receipt \in Nat

\* Two uncommitted transactions never have written the same row.
NoDirtyOverwrite ==
    \A t, u \in Running : t # u => Written(t) \cap Written(u) = {}

\* What the movements of variant v add up to.
Total(moves, v) == SumFunctionOnSet([i \in DOMAIN moves |-> moves[i].delta], About(moves, v))
Moved(v) == Total(movement, v)

\* Each movement starts from the quantity that the one before it left behind.
Chained(moves, start) ==
    \A i \in DOMAIN moves :
        LET v == moves[i].variant IN
        moves[i].before = Left(moves, {j \in About(moves, v) : j < i}, start[v])

\* With a locking upsert, the movements chain in commit order, and the quantity
\* on hand is the initial one plus everything moved.
LedgerChains ==
    upsertLocks => /\ Chained(movement, Stock)
                   /\ \A v \in Variants : onHand[v] = Stock[v] + Moved(v)

\* Quantities stay natural, rows are written by one transaction at a time, and
\* with locking upserts the movements explain the quantity on hand
\* (branch-inventory.service.ts:379-423).
LedgerExplainsStock == TypeOK /\ NoDirtyOverwrite /\ LedgerChains

\* Stock received or adjusted is counted exactly, on top of what was committed
\* at that instant, whatever settles at the same time.
StandaloneExact ==
    [][\A t \in Transactions \ Settlements :
          (tx[t].state # "committed" /\ tx'[t].state = "committed") =>
              LET line == tx[t].lines[1] IN
              onHand' = [onHand EXCEPT ![line.variant] = @ + line.delta]]_stockVars

\* The receipts of a branch are numbered without gap or duplicate in the order
\* their transactions commit, one for each, although transactions in between roll
\* back after taking a number (receipt.service.ts:88-109, the comment at :211-219).
ReceiptsGapless ==
    LET posted == {t \in Settlements : tx[t].state = "committed"} IN
    /\ lastSequence = Cardinality(posted)
    /\ {tx[t].receipt : t \in posted} = 1 .. lastSequence

\* What the documents say and the code does not do.

\* The comment on applySaleMovement: a checkout can never settle having oversold -
\* what was sold never exceeds what there was.
NeverOversold == \A v \in Variants : Stock[v] + Moved(v) >= 0
=============================================================================
