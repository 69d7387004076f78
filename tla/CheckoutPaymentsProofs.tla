----------------------- MODULE CheckoutPaymentsProofs -----------------------
(***************************************************************************)
(* Theorems about CheckoutPayments for every set of checkouts, payments,   *)
(* requests, members, keys and amounts.                                    *)
(*                                                                         *)
(* Inv is inductive.  InflightSound is the strengthening that carries the  *)
(* argument: whatever a request has read is the current row or an older    *)
(* version of it, so a version check under no lock still protects it.      *)
(* Balanced and KeysSound are inductive relative to Inv; they need sums    *)
(* over the payments of a checkout (SumTheorems), and carry the step       *)
(* simulation of CheckoutLedger.                                           *)
(***************************************************************************)
EXTENDS CheckoutPayments, SumTheorems, TLAPS

Inv == TypeOK /\ InflightSound /\ SettledExactlyPaid /\ AdjustmentsAddUp
-----------------------------------------------------------------------------
(* Tables.                                                                 *)

\* What an insert leaves in a table.
LEMMA InsertTable ==
    ASSUME NEW Ids, NEW Row, NEW table, IsTable(table, Ids, Row), NEW id \in Ids, NEW row \in Row
    PROVE  /\ IsTable(Insert(table, id, row), Ids, Row)
           /\ DOMAIN Insert(table, id, row) = DOMAIN table \cup {id}
           /\ Insert(table, id, row)[id] = row
           /\ \A i \in DOMAIN table \ {id} : Insert(table, id, row)[i] = table[i]
  BY DEF IsTable, Insert

\* What an update of one row leaves in a table.
LEMMA UpdateTable ==
    ASSUME NEW Ids, NEW Row, NEW table, IsTable(table, Ids, Row), NEW id \in DOMAIN table,
           NEW row \in Row
    PROVE  /\ IsTable([table EXCEPT ![id] = row], Ids, Row)
           /\ DOMAIN [table EXCEPT ![id] = row] = DOMAIN table
           /\ [table EXCEPT ![id] = row][id] = row
           /\ \A i \in DOMAIN table \ {id} : [table EXCEPT ![id] = row][i] = table[i]
  BY DEF IsTable

\* Beginning a request adds one row to inflight and changes no other.
LEMMA BeginInflight ==
    ASSUME IsTable(inflight, Requests, Request), NEW r \in Requests, NEW q \in Request, Begin(r, q)
    PROVE  /\ IsTable(inflight', Requests, Request)
           /\ DOMAIN inflight' = DOMAIN inflight \cup {r}
           /\ r \notin DOMAIN inflight
           /\ inflight'[r] = q
           /\ \A s \in DOMAIN inflight : inflight'[s] = inflight[s]
<1>1. r \notin DOMAIN inflight /\ inflight' = Insert(inflight, r, q)
  BY DEF Begin
<1>2. QED
  BY <1>1 DEF Insert, IsTable

\* A request that ends is forgotten and the others stay.
LEMMA EndInflight ==
    ASSUME IsTable(inflight, Requests, Request), NEW r, End(r)
    PROVE  /\ IsTable(inflight', Requests, Request)
           /\ DOMAIN inflight' = DOMAIN inflight \ {r}
           /\ \A s \in DOMAIN inflight' : inflight'[s] = inflight[s]
  BY DEF IsTable, End
-----------------------------------------------------------------------------
(* What one step does to the rows of checkout c.                           *)

\* The row is untouched or its version has grown.
RowGrows(old, new) == new = old \/ new.version > old.version

\* The statement every settled or recalculated checkout goes through.
LEMMA StatusStep ==
    ASSUME IsTable(checkout, Checkouts, CheckoutRow), NEW c \in DOMAIN checkout,
           NEW status \in ActiveStatuses \cup {"SETTLED", "VOIDED"},
           checkout' = [checkout EXCEPT ![c].status = status, ![c].version = @ + 1]
    PROVE  /\ IsTable(checkout', Checkouts, CheckoutRow)
           /\ DOMAIN checkout' = DOMAIN checkout
           /\ checkout'[c].status = status
           /\ checkout'[c].version > checkout[c].version
           /\ checkout'[c].total = checkout[c].total
           /\ checkout'[c].subtotal = checkout[c].subtotal
           /\ checkout'[c].adjustment = checkout[c].adjustment
           /\ \A d \in DOMAIN checkout \ {c} : checkout'[d] = checkout[d]
<1> DEFINE row == [checkout[c] EXCEPT !.status = status, !.version = @ + 1]
<1>1. checkout[c] \in CheckoutRow
  BY DEF IsTable
<1>2. /\ row \in CheckoutRow
      /\ row.status = status
      /\ row.version = checkout[c].version + 1
      /\ row.total = checkout[c].total
      /\ row.subtotal = checkout[c].subtotal
      /\ row.adjustment = checkout[c].adjustment
  BY <1>1 DEF CheckoutRow
<1>3. checkout[c].version \in Nat
  BY <1>1 DEF CheckoutRow
<1>4. checkout' = [checkout EXCEPT ![c] = row]
  OBVIOUS
<1> HIDE DEF row
<1>5. /\ IsTable(checkout', Checkouts, CheckoutRow)
      /\ DOMAIN checkout' = DOMAIN checkout
      /\ checkout'[c] = row
      /\ \A d \in DOMAIN checkout \ {c} : checkout'[d] = checkout[d]
  BY <1>2, <1>4 DEF IsTable
<1>6. QED
  BY <1>2, <1>3, <1>5

\* What recalculation does to the checkout and to the transactions.
LEMMA RecalculateStep ==
    ASSUME IsTable(checkout, Checkouts, CheckoutRow), TransactionsTyped,
           NEW c \in DOMAIN checkout, NEW pays, IsTable(pays, Payments, PaymentRow),
           Recalculate(pays, c)
    PROVE  /\ IsTable(checkout', Checkouts, CheckoutRow)
           /\ TransactionsTyped'
           /\ DOMAIN checkout' = DOMAIN checkout
           /\ \A d \in DOMAIN checkout \ {c} : checkout'[d] = checkout[d]
           /\ RowGrows(checkout[c], checkout'[c])
           /\ checkout'[c].total = checkout[c].total
           /\ checkout'[c].subtotal = checkout[c].subtotal
           /\ checkout'[c].adjustment = checkout[c].adjustment
           /\ checkout[c].status \notin ActiveStatuses =>
                 checkout'[c] = checkout[c] /\ transaction' = transaction
           /\ checkout[c].status = "OPEN" /\ PaymentsOf(pays, c, {"RECORDED"}) # {} =>
                 checkout'[c].version > checkout[c].version
           /\ \/ transaction' = transaction /\ (checkout'[c].status = "SETTLED" <=> checkout[c].status = "SETTLED")
              \/ LET confirmed == PaymentsOf(pays, c, {"CONFIRMED"}) IN
                 /\ checkout[c].status \in ActiveStatuses
                 /\ checkout'[c].status = "SETTLED"
                 /\ PaymentsOf(pays, c, {"RECORDED", "DISPUTED"}) = {}
                 /\ AmountSum(pays, confirmed) = checkout[c].total
                 /\ transaction' = Insert(transaction, c,
                       [total |-> checkout[c].total, allocations |-> [p \in confirmed |-> pays[p].amount]])
<1> DEFINE outcome == DeriveSettlement(pays, c, checkout[c].total)
<1>1. checkout[c] \in CheckoutRow /\ c \in Checkouts
  BY DEF IsTable
<1>2. ASSUME NEW status \in ActiveStatuses \cup {"SETTLED"},
             checkout' = [checkout EXCEPT ![c].status = status, ![c].version = @ + 1]
      PROVE  /\ IsTable(checkout', Checkouts, CheckoutRow)
             /\ DOMAIN checkout' = DOMAIN checkout
             /\ checkout'[c].status = status
             /\ checkout'[c].version > checkout[c].version
             /\ checkout'[c].total = checkout[c].total
             /\ checkout'[c].subtotal = checkout[c].subtotal
             /\ checkout'[c].adjustment = checkout[c].adjustment
             /\ \A d \in DOMAIN checkout \ {c} : checkout'[d] = checkout[d]
  BY <1>2, StatusStep
<1>4. CASE checkout[c].status \notin ActiveStatuses
  BY <1>4, <1>1 DEF Recalculate, RowGrows, TransactionsTyped, ActiveStatuses
<1>5. CASE checkout[c].status \in ActiveStatuses /\ outcome = "READY_TO_SETTLE" /\ Post(pays, c)
  <2> DEFINE confirmed == PaymentsOf(pays, c, {"CONFIRMED"})
             posted == [total |-> checkout[c].total, allocations |-> [p \in confirmed |-> pays[p].amount]]
  <2>1. PaymentsOf(pays, c, {"DISPUTED"}) = {} /\ PaymentsOf(pays, c, {"RECORDED"}) = {}
    BY <1>5 DEF DeriveSettlement
  <2>2. PaymentsOf(pays, c, {"RECORDED", "DISPUTED"}) = {}
    BY <2>1 DEF PaymentsOf
  <2>3. IsTable(posted.allocations, Payments, Nat \ {0})
    BY DEF PaymentsOf, IsTable, PaymentRow
  <2>4. posted.total \in Nat
    BY <1>1 DEF CheckoutRow
  <2>5. transaction' = Insert(transaction, c, posted)
    BY <1>5 DEF Post
  <2>6. /\ DOMAIN transaction' = DOMAIN transaction \cup {c}
        /\ transaction' = [d \in DOMAIN transaction' |-> transaction'[d]]
        /\ \A d \in DOMAIN transaction' : transaction'[d] = IF d = c THEN posted ELSE transaction[d]
    BY <2>5 DEF Insert
  <2>7. TransactionsTyped'
    <3>1. DOMAIN transaction' \subseteq Checkouts
      BY <2>6, <1>1 DEF TransactionsTyped
    <3>2. ASSUME NEW d \in DOMAIN transaction'
          PROVE  transaction'[d].total \in Nat /\ IsTable(transaction'[d].allocations, Payments, Nat \ {0})
      <4>1. CASE d = c
        BY <4>1, <2>3, <2>4, <2>6
      <4>2. CASE d # c
        BY <4>2, <2>6 DEF TransactionsTyped
      <4>3. QED
        BY <4>1, <4>2
    <3>3. QED
      BY <2>6, <3>1, <3>2 DEF TransactionsTyped, IsTable
  <2>8. checkout' = [checkout EXCEPT ![c].status = "SETTLED", ![c].version = @ + 1]
        /\ AmountSum(pays, confirmed) = checkout[c].total
    BY <1>5 DEF Post
  <2>9. QED
    BY <1>2, <1>5, <2>1, <2>2, <2>5, <2>7, <2>8 DEF RowGrows
<1>6. CASE /\ checkout[c].status \in ActiveStatuses
           /\ outcome # "READY_TO_SETTLE"
           /\ SetStatus(c, outcome)
           /\ transaction' = transaction
  <2>1. outcome \in ActiveStatuses
    BY <1>6 DEF DeriveSettlement, ActiveStatuses
  <2>2. PaymentsOf(pays, c, {"RECORDED"}) # {} => outcome # "OPEN"
    BY DEF DeriveSettlement
  <2>3. TransactionsTyped'
    BY <1>6 DEF TransactionsTyped, IsTable
  <2>4. CASE outcome = checkout[c].status
    BY <1>6, <2>2, <2>3, <2>4 DEF SetStatus, RowGrows
  <2>5. CASE outcome # checkout[c].status
    <3>1. checkout' = [checkout EXCEPT ![c].status = outcome, ![c].version = @ + 1]
      BY <1>6, <2>5 DEF SetStatus
    <3>2. outcome # "SETTLED" /\ checkout[c].status # "SETTLED"
      BY <1>6, <2>1 DEF ActiveStatuses
    <3>3. QED
      BY <1>2, <1>6, <2>1, <2>3, <3>1, <3>2 DEF RowGrows
  <2>6. QED
    BY <2>4, <2>5
<1>7. QED
  BY <1>4, <1>5, <1>6 DEF Recalculate
-----------------------------------------------------------------------------
(* What a step must do to keep the requests in flight sound.               *)

\* The columns a request in flight has.
LEMMA RequestFields ==
    ASSUME NEW q \in Request
    PROVE  /\ q.op \in {"create", "adjust", "void", "record"} => q.checkout \in Checkouts
           /\ q.op \in {"confirm", "dispute", "voidPayment", "resolve"} => q.payment \in Payments
           /\ q.op = "create" => q.subtotal \in Nat /\ q.operator \in Staff
           /\ q.op \in {"adjust", "void"} => q.seen \in CheckoutRow
           /\ q.op = "adjust" => q.delta \in Int /\ q.counted \in BOOLEAN
           /\ q.op = "record" => q.member \in Members /\ q.key \in Keys /\ q.amount \in Nat \ {0}
           /\ q.op \in {"confirm", "resolve"} => q.member \in Members
           /\ q.op = "confirm" => q.override \in BOOLEAN
           /\ q.op = "resolve" => q.confirming \in BOOLEAN
  BY DEF Request

\* Rows never disappear, a checkout row changes only together with its version,
\* and the first payment of an OPEN checkout changes the row of the checkout.
Monotone ==
    /\ \A c \in DOMAIN checkout : c \in DOMAIN checkout' /\ RowGrows(checkout[c], checkout'[c])
    /\ DOMAIN payment \subseteq DOMAIN payment'
    /\ DOMAIN dispute \subseteq DOMAIN dispute'
    /\ \A c \in DOMAIN checkout :
          checkout[c].status = "OPEN" /\ NeverPaid(c) /\ ~ NeverPaid(c)' => checkout'[c] # checkout[c]

SoundRequest(q) ==
    /\ q.op \in {"adjust", "void"} => SeenSound(q)
    /\ q.op = "adjust" => AdjustSound(q)
    /\ q.op = "record" => q.checkout \in DOMAIN checkout
    /\ q.op \in {"confirm", "dispute", "voidPayment"} => q.payment \in DOMAIN payment
    /\ q.op = "resolve" => q.payment \in DOMAIN dispute

\* InflightSound, request by request.
LEMMA InflightSoundIsSound == InflightSound <=> \A r \in DOMAIN inflight : SoundRequest(inflight[r])
  BY DEF InflightSound, SoundRequest

\* A sound request stays sound under every monotone step.
LEMMA SoundRequestKept ==
    ASSUME IsTable(checkout, Checkouts, CheckoutRow), IsTable(checkout', Checkouts, CheckoutRow),
           Monotone, NEW q \in Request, SoundRequest(q)
    PROVE  SoundRequest(q)'
<1>1. ASSUME q.op \in {"adjust", "void"}
      PROVE  SeenSound(q)' /\ (StillCurrent(q.checkout, q.seen)' =>
                 /\ checkout'[q.checkout] = checkout[q.checkout]
                 /\ q.seen = checkout[q.checkout]
                 /\ StillCurrent(q.checkout, q.seen))
  <2> DEFINE c == q.checkout
  <2>1. SeenSound(q) /\ q.seen \in CheckoutRow /\ c \in DOMAIN checkout /\ c \in DOMAIN checkout'
    BY <1>1, RequestFields DEF SoundRequest, SeenSound, Monotone
  <2>2. q.seen.version \in Nat /\ checkout[c].version \in Nat /\ checkout'[c].version \in Nat
    BY <2>1 DEF IsTable, CheckoutRow
  <2>3. RowGrows(checkout[c], checkout'[c])
    BY <2>1 DEF Monotone
  <2>4. CASE checkout'[c] = checkout[c]
    BY <2>1, <2>4 DEF SeenSound, StillCurrent
  <2>5. CASE checkout'[c].version > checkout[c].version
    BY <2>1, <2>2, <2>5 DEF SeenSound, StillCurrent
  <2>6. QED
    BY <2>3, <2>4, <2>5 DEF RowGrows
<1>2. ASSUME q.op = "adjust" PROVE AdjustSound(q)'
  <2>1. AdjustSound(q) /\ q.checkout \in DOMAIN checkout
    BY <1>2 DEF SoundRequest, SeenSound
  <2>2. ASSUME q.counted, StillCurrent(q.checkout, q.seen)' PROVE NeverPaid(q.checkout)'
    <3>1. /\ checkout'[q.checkout] = checkout[q.checkout]
          /\ q.seen = checkout[q.checkout]
          /\ StillCurrent(q.checkout, q.seen)
      BY <1>1, <1>2, <2>2
    <3>2. NeverPaid(q.checkout) /\ checkout[q.checkout].status = "OPEN"
      BY <2>1, <2>2, <3>1 DEF AdjustSound
    <3>3. QED
      BY <2>1, <3>1, <3>2 DEF Monotone
  <2>3. QED
    BY <2>1, <2>2 DEF AdjustSound, FitsTotal
<1>3. QED
  BY <1>1, <1>2 DEF SoundRequest, Monotone

\* Ending a request in a monotone step keeps the others sound.
LEMMA EndSound ==
    ASSUME IsTable(checkout, Checkouts, CheckoutRow), IsTable(checkout', Checkouts, CheckoutRow),
           IsTable(inflight, Requests, Request), InflightSound, Monotone, NEW r, End(r)
    PROVE  IsTable(inflight', Requests, Request) /\ InflightSound'
<1>1. /\ IsTable(inflight', Requests, Request)
      /\ DOMAIN inflight' = DOMAIN inflight \ {r}
      /\ \A s \in DOMAIN inflight' : inflight'[s] = inflight[s]
  BY EndInflight
<1>2. \A q \in Request : SoundRequest(q) => SoundRequest(q)'
  BY SoundRequestKept
<1>3. ASSUME NEW s \in DOMAIN inflight' PROVE SoundRequest(inflight[s])'
  <2>1. PICK q \in Request : q = inflight'[s] /\ SoundRequest(q)
    BY <1>1, InflightSoundIsSound DEF IsTable
  <2>2. SoundRequest(q)'
    BY <1>2, <2>1
  <2>3. QED
    BY <2>1, <2>2 DEF SoundRequest, SeenSound, AdjustSound, StillCurrent, FitsTotal
<1>4. QED
  BY <1>1, <1>3 DEF InflightSound, SoundRequest
-----------------------------------------------------------------------------
(* The five transactions of the payment commands.                          *)

\* What the two action properties say of one step.
Kept ==
    /\ \A p \in DOMAIN payment :
          checkout'[payment[p].checkout].total = checkout[payment[p].checkout].total
    /\ \A c \in DOMAIN checkout :
          checkout[c].status \notin ActiveStatuses => checkout'[c] = checkout[c]
    /\ \A c \in DOMAIN transaction :
          c \in DOMAIN transaction' /\ transaction'[c] = transaction[c]

\* Only payment p of checkout c is written, and it was still to be decided.
Touches(p, c) ==
    /\ IsTable(payment', Payments, PaymentRow)
    /\ DOMAIN payment' = DOMAIN payment \cup {p}
    /\ \A i \in DOMAIN payment \ {p} : payment'[i] = payment[i]
    /\ payment'[p].checkout = c
    /\ p \in DOMAIN payment =>
          payment[p].checkout = c /\ payment[p].status \in {"RECORDED", "DISPUTED"}
    /\ p \notin DOMAIN payment =>
          checkout[c].status \in ActiveStatuses /\ payment'[p].status = "RECORDED"

\* The payments of every other checkout stay as they are.
LEMMA OtherCheckoutsUntouched ==
    ASSUME NEW p, NEW c, NEW d, d # c, Touches(p, c), NEW statuses
    PROVE  /\ PaymentsOf(payment', d, statuses) = PaymentsOf(payment, d, statuses)
           /\ [i \in PaymentsOf(payment', d, statuses) |-> payment'[i].amount]
                 = [i \in PaymentsOf(payment, d, statuses) |-> payment[i].amount]
           /\ AmountSum(payment', PaymentsOf(payment', d, statuses))
                 = AmountSum(payment, PaymentsOf(payment, d, statuses))
<1>1. PaymentsOf(payment', d, statuses) = PaymentsOf(payment, d, statuses)
  BY DEF Touches, PaymentsOf
<1>2. \A i \in PaymentsOf(payment, d, statuses) : payment'[i] = payment[i]
  BY DEF Touches, PaymentsOf
<1>3. [i \in PaymentsOf(payment', d, statuses) |-> payment'[i].amount]
        = [i \in PaymentsOf(payment, d, statuses) |-> payment[i].amount]
  BY <1>1, <1>2
<1>4. QED
  BY <1>1, <1>3 DEF AmountSum

\* A change of one payment followed by a recalculation keeps the invariant.
LEMMA PaymentStep ==
    ASSUME Inv, NEW c \in DOMAIN checkout, NEW p \in Payments, Touches(p, c),
           Recalculate(payment', c),
           IsTable(dispute', Payments, DisputeStatuses),
           DOMAIN dispute \subseteq DOMAIN dispute', DOMAIN dispute' \subseteq DOMAIN payment',
           IsTable(idempotency', Members \X Keys, Payments),
           adjusted' = adjusted, NEW r, End(r)
    PROVE  Inv' /\ Kept
<1> DEFINE confirmed == PaymentsOf(payment', c, {"CONFIRMED"})
<1>1. /\ IsTable(checkout, Checkouts, CheckoutRow)
      /\ TransactionsTyped
      /\ IsTable(payment', Payments, PaymentRow)
      /\ IsTable(inflight, Requests, Request)
      /\ InflightSound
  BY DEF Inv, TypeOK, Touches
<1>2. /\ IsTable(checkout', Checkouts, CheckoutRow)
      /\ TransactionsTyped'
      /\ DOMAIN checkout' = DOMAIN checkout
      /\ \A d \in DOMAIN checkout \ {c} : checkout'[d] = checkout[d]
      /\ RowGrows(checkout[c], checkout'[c])
      /\ checkout'[c].total = checkout[c].total
      /\ checkout'[c].subtotal = checkout[c].subtotal
      /\ checkout'[c].adjustment = checkout[c].adjustment
      /\ checkout[c].status \notin ActiveStatuses =>
            checkout'[c] = checkout[c] /\ transaction' = transaction
      /\ checkout[c].status = "OPEN" /\ PaymentsOf(payment', c, {"RECORDED"}) # {} =>
            checkout'[c].version > checkout[c].version
  BY <1>1, RecalculateStep
<1>3. \/ /\ transaction' = transaction
         /\ checkout'[c].status = "SETTLED" <=> checkout[c].status = "SETTLED"
      \/ /\ checkout[c].status \in ActiveStatuses
         /\ checkout'[c].status = "SETTLED"
         /\ PaymentsOf(payment', c, {"RECORDED", "DISPUTED"}) = {}
         /\ AmountSum(payment', confirmed) = checkout[c].total
         /\ transaction' = Insert(transaction, c,
               [total |-> checkout[c].total, allocations |-> [i \in confirmed |-> payment'[i].amount]])
  BY <1>1, RecalculateStep
<1>4. /\ \A d \in DOMAIN checkout : checkout[d].status = "SETTLED" <=> d \in DOMAIN transaction
      /\ \A d \in DOMAIN transaction :
          /\ d \in DOMAIN checkout
          /\ transaction[d].total = checkout[d].total
          /\ transaction[d].allocations = [i \in PaymentsOf(payment, d, {"CONFIRMED"}) |-> payment[i].amount]
          /\ AmountSum(payment, PaymentsOf(payment, d, {"CONFIRMED"})) = checkout[d].total
          /\ Unvoided(payment, d) = PaymentsOf(payment, d, {"CONFIRMED"})
  BY DEF Inv, SettledExactlyPaid
<1>5. checkout[c].status # "SETTLED" /\ c \notin DOMAIN transaction
  <2>1. CASE p \in DOMAIN payment
    <3>1. p \in Unvoided(payment, c) /\ p \notin PaymentsOf(payment, c, {"CONFIRMED"})
      BY <2>1 DEF Touches, Unvoided, PaymentsOf
    <3>2. QED
      BY <1>4, <3>1
  <2>2. CASE p \notin DOMAIN payment
    BY <1>4, <2>2 DEF Touches, ActiveStatuses
  <2>3. QED
    BY <2>1, <2>2
<1>6. TypeOK'
  <2>1. \A i \in DOMAIN payment' : payment'[i].checkout \in DOMAIN checkout'
    BY <1>2 DEF Touches, Inv, TypeOK
  <2>2. IsTable(inflight', Requests, Request)
    BY <1>1, EndInflight
  <2>3. adjusted' \in [Checkouts -> Int]
    BY DEF Inv, TypeOK
  <2>4. QED
    BY <1>1, <1>2, <2>1, <2>2, <2>3 DEF TypeOK
<1>7. Monotone
  <2>1. ASSUME NEW d \in DOMAIN checkout, checkout[d].status = "OPEN", NeverPaid(d), ~ NeverPaid(d)'
        PROVE  checkout'[d] # checkout[d]
    <3>1. d = c /\ p \notin DOMAIN payment
      BY <2>1 DEF NeverPaid, Touches
    <3>2. p \in PaymentsOf(payment', c, {"RECORDED"})
      BY <3>1 DEF Touches, PaymentsOf
    <3>3. checkout'[c].version > checkout[c].version
      BY <1>2, <2>1, <3>1, <3>2
    <3>4. checkout[c].version \in Nat
      BY <1>1 DEF IsTable, CheckoutRow
    <3>5. QED
      BY <3>1, <3>3, <3>4
  <2>2. \A d \in DOMAIN checkout : d \in DOMAIN checkout' /\ RowGrows(checkout[d], checkout'[d])
    BY <1>2 DEF RowGrows
  <2>3. QED
    BY <2>1, <2>2 DEF Monotone, Touches
<1>8. InflightSound'
  BY <1>1, <1>2, <1>7, EndSound
<1>9. SettledExactlyPaid'
  <2>1. ASSUME NEW d \in DOMAIN checkout, d # c
        PROVE  /\ checkout'[d] = checkout[d]
               /\ d \in DOMAIN transaction' <=> d \in DOMAIN transaction
               /\ d \in DOMAIN transaction => transaction'[d] = transaction[d]
    BY <1>2, <1>3, <2>1 DEF Insert
  <2>2. ASSUME NEW d \in DOMAIN checkout'
        PROVE  checkout'[d].status = "SETTLED" <=> d \in DOMAIN transaction'
    <3>1. CASE d = c
      BY <1>3, <1>5, <3>1 DEF Insert
    <3>2. CASE d # c
      BY <1>2, <1>4, <2>1, <3>2
    <3>3. QED
      BY <3>1, <3>2
  <2>3. ASSUME NEW d \in DOMAIN transaction'
        PROVE  /\ d \in DOMAIN checkout'
               /\ transaction'[d].total = checkout'[d].total
               /\ transaction'[d].allocations
                     = [i \in PaymentsOf(payment', d, {"CONFIRMED"}) |-> payment'[i].amount]
               /\ AmountSum(payment', PaymentsOf(payment', d, {"CONFIRMED"})) = checkout'[d].total
               /\ Unvoided(payment', d) = PaymentsOf(payment', d, {"CONFIRMED"})
    <3>1. CASE d = c
      <4>1. /\ PaymentsOf(payment', c, {"RECORDED", "DISPUTED"}) = {}
            /\ AmountSum(payment', confirmed) = checkout[c].total
            /\ transaction' = Insert(transaction, c,
                  [total |-> checkout[c].total, allocations |-> [i \in confirmed |-> payment'[i].amount]])
        BY <1>3, <1>5, <3>1
      <4>2. transaction'[c] = [total |-> checkout[c].total,
                               allocations |-> [i \in confirmed |-> payment'[i].amount]]
        BY <4>1 DEF Insert
      <4>3. Unvoided(payment', c) = confirmed
        BY <4>1 DEF Unvoided, PaymentsOf
      <4>4. QED
        BY <1>2, <3>1, <4>1, <4>2, <4>3
    <3>2. CASE d # c
      <4>0. d \in DOMAIN transaction
        BY <1>3, <3>2 DEF Insert
      <4>1. d \in DOMAIN transaction /\ d \in DOMAIN checkout
        BY <1>4, <4>0
      <4>2. /\ Unvoided(payment', d) = Unvoided(payment, d)
            /\ PaymentsOf(payment', d, {"CONFIRMED"}) = PaymentsOf(payment, d, {"CONFIRMED"})
            /\ [i \in PaymentsOf(payment', d, {"CONFIRMED"}) |-> payment'[i].amount]
                  = [i \in PaymentsOf(payment, d, {"CONFIRMED"}) |-> payment[i].amount]
            /\ AmountSum(payment', PaymentsOf(payment', d, {"CONFIRMED"}))
                  = AmountSum(payment, PaymentsOf(payment, d, {"CONFIRMED"}))
        BY <3>2, OtherCheckoutsUntouched DEF Unvoided
      <4>3. transaction'[d] = transaction[d] /\ checkout'[d] = checkout[d] /\ d \in DOMAIN checkout'
        BY <1>2, <2>1, <3>2, <4>1
      <4>4. QED
        BY <1>4, <4>1, <4>2, <4>3
    <3>3. QED
      BY <3>1, <3>2
  <2>4. QED
    BY <2>2, <2>3 DEF SettledExactlyPaid
<1>10. AdjustmentsAddUp'
  <2>1. ASSUME NEW d \in DOMAIN checkout
        PROVE  checkout'[d].adjustment = checkout[d].adjustment /\ checkout'[d].total = checkout[d].total
               /\ checkout'[d].subtotal = checkout[d].subtotal
    BY <1>2
  <2>2. QED
    BY <1>2, <2>1 DEF Inv, AdjustmentsAddUp
<1>11. Kept
  <2>1. ASSUME NEW d \in DOMAIN checkout
        PROVE  checkout'[d].total = checkout[d].total
               /\ (checkout[d].status \notin ActiveStatuses => checkout'[d] = checkout[d])
    BY <1>2
  <2>2. ASSUME NEW d \in DOMAIN transaction
        PROVE  d \in DOMAIN transaction' /\ transaction'[d] = transaction[d]
    BY <1>3, <1>5 DEF Insert
  <2>3. \A i \in DOMAIN payment : payment[i].checkout \in DOMAIN checkout
    BY DEF Inv, TypeOK
  <2>4. QED
    BY <2>1, <2>2, <2>3 DEF Kept
<1>12. QED
  BY <1>6, <1>8, <1>9, <1>10, <1>11 DEF Inv
-----------------------------------------------------------------------------
(* Requests that begin, count or are abandoned write no table.             *)

NoTableWritten == UNCHANGED <<checkout, adjusted, transaction, paymentTables>>

\* A request that reads adds a sound row and changes no table.
LEMMA ReadStep ==
    ASSUME Inv, NoTableWritten, IsTable(inflight', Requests, Request), InflightSound'
    PROVE  Inv' /\ Kept
<1> USE DEF NoTableWritten, paymentTables
<1>1. TypeOK'
  BY DEF Inv, TypeOK, TransactionsTyped, IsTable
<1>2. SettledExactlyPaid'
  BY DEF Inv, SettledExactlyPaid, PaymentsOf, Unvoided, AmountSum
<1>3. AdjustmentsAddUp'
  BY DEF Inv, AdjustmentsAddUp
<1>4. Kept
  BY DEF Inv, TypeOK, Kept
<1>5. QED
  BY <1>1, <1>2, <1>3, <1>4 DEF Inv

\* A request may begin when what it has read is sound.
LEMMA BeginStep ==
    ASSUME Inv, NoTableWritten, NEW r \in Requests, NEW q \in Request, Begin(r, q), SoundRequest(q)
    PROVE  Inv' /\ Kept
<1>1. /\ IsTable(inflight', Requests, Request)
      /\ DOMAIN inflight' = DOMAIN inflight \cup {r}
      /\ inflight'[r] = q
      /\ \A s \in DOMAIN inflight : inflight'[s] = inflight[s]
  BY BeginInflight DEF Inv, TypeOK
<1>2. ASSUME NEW s \in DOMAIN inflight' PROVE SoundRequest(inflight'[s])
  <2>1. CASE s = r
    BY <1>1, <2>1
  <2>2. CASE s # r
    <3>1. s \in DOMAIN inflight /\ inflight'[s] = inflight[s]
      BY <1>1, <2>2
    <3>2. SoundRequest(inflight[s])
      BY <3>1, InflightSoundIsSound DEF Inv
    <3>3. QED
      BY <3>1, <3>2
  <2>3. QED
    BY <2>1, <2>2
<1>3. InflightSound'
  BY <1>2 DEF NoTableWritten, paymentTables, InflightSound, SoundRequest, SeenSound,
              AdjustSound, StillCurrent, NeverPaid, FitsTotal
<1>4. QED
  BY <1>1, <1>3, ReadStep
-----------------------------------------------------------------------------
(* The three transactions of the checkout commands.                        *)

\* A step that writes only checkout c and its adjustments keeps the invariant,
\* if it keeps checkout c settled or not and reprices it only while unpaid.
LEMMA CheckoutStep ==
    ASSUME Inv, NEW c \in Checkouts,
           IsTable(checkout', Checkouts, CheckoutRow), DOMAIN checkout' = DOMAIN checkout \cup {c},
           \A d \in DOMAIN checkout \ {c} : checkout'[d] = checkout[d],
           checkout'[c].status # "SETTLED",
           c \in DOMAIN checkout => /\ checkout[c].status \in ActiveStatuses
                                    /\ checkout'[c].version > checkout[c].version
                                    /\ checkout'[c].total = checkout[c].total \/ NeverPaid(c),
           adjusted' \in [Checkouts -> Int], AdjustmentsAddUp',
           UNCHANGED <<transaction, paymentTables>>, NEW r, End(r)
    PROVE  Inv' /\ Kept
<1> USE DEF paymentTables
<1>1. c \notin DOMAIN transaction
  BY DEF Inv, SettledExactlyPaid, ActiveStatuses
<1>2. Monotone
  BY DEF Monotone, RowGrows, NeverPaid
<1>3. IsTable(inflight', Requests, Request) /\ InflightSound'
  BY <1>2, EndSound DEF Inv, TypeOK
<1>4. TypeOK'
  <2>1. TransactionsTyped'
    BY DEF Inv, TypeOK, TransactionsTyped, IsTable
  <2>2. QED
    BY <1>3, <2>1 DEF Inv, TypeOK
<1>5. SettledExactlyPaid'
  <2>1. ASSUME NEW d \in DOMAIN checkout'
        PROVE  checkout'[d].status = "SETTLED" <=> d \in DOMAIN transaction
    BY <1>1 DEF Inv, SettledExactlyPaid
  <2>2. ASSUME NEW d \in DOMAIN transaction
        PROVE  d \in DOMAIN checkout /\ d \in DOMAIN checkout' /\ checkout'[d] = checkout[d]
    BY <1>1 DEF Inv, SettledExactlyPaid
  <2>3. QED
    BY <2>1, <2>2 DEF Inv, SettledExactlyPaid, PaymentsOf, Unvoided, AmountSum
<1>6. Kept
  <2>1. ASSUME NEW p \in DOMAIN payment
        PROVE  checkout'[payment[p].checkout].total = checkout[payment[p].checkout].total
    BY DEF Inv, TypeOK, NeverPaid
  <2>2. QED
    BY <2>1 DEF Kept
<1>7. QED
  BY <1>3, <1>4, <1>5, <1>6 DEF Inv

\* Creating a checkout keeps the invariant.
LEMMA CommitCreateStep ==
    ASSUME Inv, NEW r \in Requests, CommitCreate(r)
    PROVE  Inv' /\ Kept
<1> DEFINE q == inflight[r]
           c == q.checkout
           row == [status |-> "OPEN", version |-> 1, subtotal |-> q.subtotal,
                   adjustment |-> 0, total |-> q.subtotal, operator |-> q.operator]
<1>1. q \in Request /\ q.op = "create" /\ c \in Checkouts
  BY RequestFields DEF CommitCreate, Is, Inv, TypeOK, IsTable
<1>2. CASE c \in DOMAIN checkout
  <2>1. NoTableWritten /\ End(r)
    BY <1>2 DEF CommitCreate, NoTableWritten
  <2>2. Monotone
    BY <2>1 DEF NoTableWritten, paymentTables, Monotone, RowGrows, NeverPaid
  <2>3. IsTable(checkout', Checkouts, CheckoutRow)
    BY <2>1 DEF NoTableWritten, Inv, TypeOK, IsTable
  <2>4. IsTable(inflight', Requests, Request) /\ InflightSound'
    BY <2>1, <2>2, <2>3, EndSound DEF Inv, TypeOK
  <2>5. QED
    BY <2>1, <2>4, ReadStep
<1>3. CASE c \notin DOMAIN checkout
  <2>1. /\ checkout' = Insert(checkout, c, row)
        /\ adjusted' = [adjusted EXCEPT ![c] = 0]
        /\ End(r)
        /\ UNCHANGED <<transaction, paymentTables>>
    BY <1>3 DEF CommitCreate
  <2>2. row \in CheckoutRow /\ row.status = "OPEN" /\ row.adjustment = 0 /\ row.total = row.subtotal + 0
    BY <1>1, RequestFields DEF CheckoutRow, ActiveStatuses
  <2> HIDE DEF row
  <2>3. /\ IsTable(checkout', Checkouts, CheckoutRow)
        /\ DOMAIN checkout' = DOMAIN checkout \cup {c}
        /\ \A d \in DOMAIN checkout \ {c} : checkout'[d] = checkout[d]
        /\ checkout'[c] = row
    BY <1>1, <2>1, <2>2 DEF Insert, IsTable, Inv, TypeOK
  <2>4. /\ adjusted' \in [Checkouts -> Int]
        /\ adjusted'[c] = 0
        /\ \A d \in Checkouts \ {c} : adjusted'[d] = adjusted[d]
    BY <1>1, <2>1 DEF Inv, TypeOK
  <2>5. AdjustmentsAddUp'
    <3>1. ASSUME NEW d \in DOMAIN checkout'
          PROVE  checkout'[d].adjustment = adjusted'[d]
                 /\ checkout'[d].total = checkout'[d].subtotal + adjusted'[d]
      <4>1. CASE d = c
        BY <2>2, <2>3, <2>4, <4>1
      <4>2. CASE d # c
        <5>1. d \in DOMAIN checkout /\ d \in Checkouts
          BY <2>3, <4>2 DEF Inv, TypeOK, IsTable
        <5>2. QED
          BY <2>3, <2>4, <4>2, <5>1 DEF Inv, AdjustmentsAddUp
      <4>3. QED
        BY <4>1, <4>2
    <3>2. QED
      BY <3>1 DEF AdjustmentsAddUp
  <2>6. QED
    BY <1>1, <1>3, <2>1, <2>2, <2>3, <2>4, <2>5, CheckoutStep
<1>4. QED
  BY <1>2, <1>3

\* A checkout row whose version a request still matches is the row it read.
LEMMA SeenIsCurrent ==
    ASSUME Inv, NEW r \in DOMAIN inflight, inflight[r].op \in {"adjust", "void"},
           StillCurrent(inflight[r].checkout, inflight[r].seen)
    PROVE  /\ inflight[r].checkout \in DOMAIN checkout
           /\ inflight[r].checkout \in Checkouts
           /\ inflight[r].seen = checkout[inflight[r].checkout]
           /\ checkout[inflight[r].checkout] \in CheckoutRow
           /\ checkout[inflight[r].checkout].status \in ActiveStatuses
<1>1. SeenSound(inflight[r])
  BY DEF Inv, InflightSound
<1>2. QED
  BY <1>1 DEF SeenSound, Inv, TypeOK, IsTable

\* Voiding a checkout keeps the invariant.
LEMMA CommitVoidStep ==
    ASSUME Inv, NEW r \in Requests, CommitVoid(r)
    PROVE  Inv' /\ Kept
<1> DEFINE q == inflight[r]
           c == q.checkout
<1>1. /\ c \in DOMAIN checkout
      /\ c \in Checkouts
      /\ checkout[c].status \in ActiveStatuses
  BY SeenIsCurrent DEF CommitVoid, Is
<1>2. /\ checkout' = [checkout EXCEPT ![c].status = "VOIDED", ![c].version = @ + 1]
      /\ End(r)
      /\ UNCHANGED <<adjusted, transaction, paymentTables>>
  BY DEF CommitVoid
<1>3. /\ IsTable(checkout', Checkouts, CheckoutRow)
      /\ DOMAIN checkout' = DOMAIN checkout
      /\ checkout'[c].status = "VOIDED"
      /\ checkout'[c].version > checkout[c].version
      /\ checkout'[c].total = checkout[c].total
      /\ checkout'[c].subtotal = checkout[c].subtotal
      /\ checkout'[c].adjustment = checkout[c].adjustment
      /\ \A d \in DOMAIN checkout \ {c} : checkout'[d] = checkout[d]
  BY <1>1, <1>2, StatusStep DEF Inv, TypeOK
<1>4. AdjustmentsAddUp' /\ adjusted' \in [Checkouts -> Int]
  <2>1. \A d \in DOMAIN checkout :
           /\ checkout'[d].total = checkout[d].total
           /\ checkout'[d].subtotal = checkout[d].subtotal
           /\ checkout'[d].adjustment = checkout[d].adjustment
    BY <1>3
  <2>2. adjusted' = adjusted /\ adjusted \in [Checkouts -> Int]
    BY <1>2 DEF Inv, TypeOK
  <2>3. DOMAIN checkout' = DOMAIN checkout
    BY <1>3
  <2>4. AdjustmentsAddUp
    BY DEF Inv
  <2>5. AdjustmentsAddUp'
    <3> HIDE DEF q, c
    <3> QED
      BY <2>1, <2>2, <2>3, <2>4 DEF AdjustmentsAddUp
  <2>6. QED
    BY <2>2, <2>5
<1>5. DOMAIN checkout' = DOMAIN checkout \cup {c} /\ checkout'[c].status # "SETTLED"
  BY <1>1, <1>3
<1>6. QED
  BY <1>1, <1>2, <1>3, <1>4, <1>5, CheckoutStep

\* An adjustment keeps the invariant.
LEMMA CommitAdjustStep ==
    ASSUME Inv, NEW r \in Requests, CommitAdjust(r)
    PROVE  Inv' /\ Kept
<1> DEFINE q == inflight[r]
           c == q.checkout
           row == [checkout[c] EXCEPT
                      !.adjustment = q.seen.adjustment + q.delta,
                      !.total = q.seen.subtotal + q.seen.adjustment + q.delta,
                      !.version = @ + 1]
<1>1. /\ c \in DOMAIN checkout
      /\ c \in Checkouts
      /\ q.seen = checkout[c]
      /\ checkout[c] \in CheckoutRow
      /\ checkout[c].status \in ActiveStatuses
  BY SeenIsCurrent DEF CommitAdjust, Is
<1>2. q.delta \in Int /\ FitsTotal(q.seen, q.delta) /\ NeverPaid(c)
  <2>1. q \in Request /\ q.op = "adjust" /\ q.counted /\ StillCurrent(c, q.seen)
    BY DEF CommitAdjust, Is, Inv, TypeOK, IsTable
  <2>2. AdjustSound(q)
    BY <2>1 DEF CommitAdjust, Is, Inv, InflightSound
  <2>3. QED
    BY <2>1, <2>2, RequestFields DEF AdjustSound
<1>3. /\ row.adjustment = checkout[c].adjustment + q.delta
      /\ row.total = checkout[c].subtotal + checkout[c].adjustment + q.delta
      /\ row.version = checkout[c].version + 1
      /\ row.status = checkout[c].status
      /\ row.subtotal = checkout[c].subtotal
  BY <1>1 DEF CheckoutRow
<1>4. /\ checkout[c].subtotal \in Nat
      /\ checkout[c].adjustment \in Int
      /\ checkout[c].version \in Nat
  BY <1>1 DEF CheckoutRow
<1>5. row \in CheckoutRow
  <2>1. /\ checkout[c].adjustment + q.delta \in Int
        /\ checkout[c].subtotal + checkout[c].adjustment + q.delta \in Nat
        /\ checkout[c].version + 1 \in Nat
    BY <1>1, <1>2, <1>4 DEF FitsTotal
  <2>2. QED
    BY <1>1, <2>1 DEF CheckoutRow
<1>6. /\ checkout' = [checkout EXCEPT ![c] = row]
      /\ adjusted' = [adjusted EXCEPT ![c] = @ + q.delta]
      /\ End(r)
      /\ UNCHANGED <<transaction, paymentTables>>
  BY DEF CommitAdjust
<1> HIDE DEF row
<1>7. /\ IsTable(checkout', Checkouts, CheckoutRow)
      /\ DOMAIN checkout' = DOMAIN checkout
      /\ checkout'[c] = row
      /\ \A d \in DOMAIN checkout \ {c} : checkout'[d] = checkout[d]
  BY <1>1, <1>5, <1>6 DEF IsTable, Inv, TypeOK
<1>8. /\ adjusted' \in [Checkouts -> Int]
      /\ adjusted'[c] = adjusted[c] + q.delta
      /\ \A d \in Checkouts \ {c} : adjusted'[d] = adjusted[d]
  BY <1>1, <1>2, <1>6 DEF Inv, TypeOK
<1>9. AdjustmentsAddUp'
  <2>1. ASSUME NEW d \in DOMAIN checkout'
        PROVE  checkout'[d].adjustment = adjusted'[d]
               /\ checkout'[d].total = checkout'[d].subtotal + adjusted'[d]
    <3>1. d \in DOMAIN checkout /\ d \in Checkouts /\ checkout[d].adjustment = adjusted[d]
          /\ checkout[d].total = checkout[d].subtotal + adjusted[d]
      BY <1>7 DEF Inv, TypeOK, IsTable, AdjustmentsAddUp
    <3>2. CASE d = c
      BY <1>2, <1>3, <1>4, <1>7, <1>8, <3>1, <3>2
    <3>3. CASE d # c
      BY <1>7, <1>8, <3>1, <3>3
    <3>4. QED
      BY <3>2, <3>3
  <2>2. QED
    BY <2>1 DEF AdjustmentsAddUp
<1>10. checkout'[c].status # "SETTLED" /\ checkout'[c].version > checkout[c].version
  BY <1>1, <1>3, <1>4, <1>7 DEF ActiveStatuses
<1>11. DOMAIN checkout' = DOMAIN checkout \cup {c}
  BY <1>1, <1>7
<1>12. QED
  BY <1>1, <1>2, <1>6, <1>7, <1>8, <1>9, <1>10, <1>11, CheckoutStep
-----------------------------------------------------------------------------
(* The transactions of the payment commands, one by one.                   *)

\* Recording a payment keeps the invariant.
LEMMA CommitRecordStep ==
    ASSUME Inv, NEW r \in Requests, NEW p \in Payments, CommitRecord(r, p)
    PROVE  Inv' /\ Kept
<1> DEFINE q == inflight[r]
           c == q.checkout
           row == [checkout |-> c, amount |-> q.amount, status |-> "RECORDED",
                   recorder |-> q.member, assignee |-> checkout[c].operator,
                   confirmer |-> NoMember, override |-> FALSE]
<1>1. q \in Request /\ q.op = "record" /\ c \in DOMAIN checkout /\ c \in Checkouts
  BY DEF CommitRecord, Is, Inv, TypeOK, InflightSound, IsTable
<1>2. row \in PaymentRow /\ row.checkout = c /\ row.status = "RECORDED"
  <2>1. checkout[c].operator \in Staff
    BY <1>1 DEF Inv, TypeOK, IsTable, CheckoutRow
  <2>2. QED
    BY <1>1, <2>1, RequestFields DEF PaymentRow
<1>3. /\ p \notin DOMAIN payment
      /\ checkout[c].status \in ActiveStatuses
      /\ payment' = Insert(payment, p, row)
      /\ idempotency' = Insert(idempotency, <<q.member, q.key>>, p)
      /\ Recalculate(payment', c)
      /\ End(r)
      /\ adjusted' = adjusted /\ dispute' = dispute
  BY DEF CommitRecord
<1> HIDE DEF row
<1>4. Touches(p, c)
  BY <1>2, <1>3 DEF Touches, Insert, IsTable, Inv, TypeOK
<1>5. IsTable(idempotency', Members \X Keys, Payments)
  <2>1. <<q.member, q.key>> \in Members \X Keys
    BY <1>1, RequestFields
  <2>2. QED
    BY <1>3, <2>1 DEF Insert, IsTable, Inv, TypeOK
<1>6. IsTable(dispute', Payments, DisputeStatuses) /\ DOMAIN dispute' \subseteq DOMAIN payment'
  BY <1>3, <1>4 DEF Touches, Inv, TypeOK
<1>7. QED
  BY <1>1, <1>3, <1>4, <1>5, <1>6, PaymentStep

\* An update of payment p that keeps its checkout and decides its status.
LEMMA DecideTouches ==
    ASSUME Inv, NEW p \in DOMAIN payment, payment[p].status \in {"RECORDED", "DISPUTED"},
           NEW row \in PaymentRow, row.checkout = payment[p].checkout,
           payment' = [payment EXCEPT ![p] = row]
    PROVE  /\ Touches(p, payment[p].checkout)
           /\ p \in Payments
           /\ payment[p].checkout \in DOMAIN checkout
           /\ DOMAIN payment' = DOMAIN payment
<1>1. /\ IsTable(payment', Payments, PaymentRow)
      /\ DOMAIN payment' = DOMAIN payment
      /\ payment'[p] = row
      /\ \A i \in DOMAIN payment \ {p} : payment'[i] = payment[i]
  BY DEF IsTable, Inv, TypeOK
<1>2. p \in Payments /\ payment[p].checkout \in DOMAIN checkout
  BY DEF IsTable, Inv, TypeOK
<1>3. DOMAIN payment' = DOMAIN payment \cup {p}
  BY <1>1
<1>4. QED
  BY <1>1, <1>2, <1>3 DEF Touches

\* Voiding a payment keeps the invariant.
LEMMA CommitVoidPaymentStep ==
    ASSUME Inv, NEW r \in Requests, CommitVoidPayment(r)
    PROVE  Inv' /\ Kept
<1> DEFINE p == inflight[r].payment
           row == [payment[p] EXCEPT !.status = "VOIDED"]
<1>1. p \in DOMAIN payment /\ payment[p] \in PaymentRow
  BY DEF CommitVoidPayment, Is, Inv, TypeOK, InflightSound, IsTable
<1>2. row \in PaymentRow /\ row.checkout = payment[p].checkout
  BY <1>1 DEF PaymentRow
<1>3. /\ payment[p].status = "RECORDED"
      /\ payment' = [payment EXCEPT ![p] = row]
      /\ Recalculate(payment', payment[p].checkout)
      /\ End(r)
      /\ adjusted' = adjusted /\ dispute' = dispute /\ idempotency' = idempotency
  BY DEF CommitVoidPayment
<1> HIDE DEF row
<1>4. /\ Touches(p, payment[p].checkout)
      /\ p \in Payments
      /\ payment[p].checkout \in DOMAIN checkout
      /\ DOMAIN payment' = DOMAIN payment
  BY <1>1, <1>2, <1>3, DecideTouches
<1>5. QED
  BY <1>3, <1>4, PaymentStep DEF Inv, TypeOK

\* Confirming a payment keeps the invariant.
LEMMA CommitConfirmStep ==
    ASSUME Inv, NEW r \in Requests, CommitConfirm(r)
    PROVE  Inv' /\ Kept
<1> DEFINE q == inflight[r]
           p == q.payment
           row == [payment[p] EXCEPT !.status = "CONFIRMED", !.confirmer = q.member,
                                     !.override = q.override]
<1>1. p \in DOMAIN payment /\ payment[p] \in PaymentRow /\ q \in Request /\ q.op = "confirm"
  BY DEF CommitConfirm, Is, Inv, TypeOK, InflightSound, IsTable
<1>2. q.member \in Members /\ q.override \in BOOLEAN
  BY <1>1, RequestFields
<1>3. row \in PaymentRow /\ row.checkout = payment[p].checkout
  BY <1>1, <1>2 DEF PaymentRow
<1>4. /\ payment[p].status = "RECORDED"
      /\ payment' = [payment EXCEPT ![p] = row]
      /\ Recalculate(payment', payment[p].checkout)
      /\ End(r)
      /\ adjusted' = adjusted /\ dispute' = dispute /\ idempotency' = idempotency
  BY DEF CommitConfirm
<1> HIDE DEF row
<1>5. /\ Touches(p, payment[p].checkout)
      /\ p \in Payments
      /\ payment[p].checkout \in DOMAIN checkout
      /\ DOMAIN payment' = DOMAIN payment
  BY <1>1, <1>3, <1>4, DecideTouches
<1>6. QED
  BY <1>4, <1>5, PaymentStep DEF Inv, TypeOK

\* Disputing a payment keeps the invariant.
LEMMA CommitDisputeStep ==
    ASSUME Inv, NEW r \in Requests, CommitDispute(r)
    PROVE  Inv' /\ Kept
<1> DEFINE p == inflight[r].payment
           row == [payment[p] EXCEPT !.status = "DISPUTED"]
<1>1. p \in DOMAIN payment /\ payment[p] \in PaymentRow
  BY DEF CommitDispute, Is, Inv, TypeOK, InflightSound, IsTable
<1>2. row \in PaymentRow /\ row.checkout = payment[p].checkout
  BY <1>1 DEF PaymentRow
<1>3. /\ payment[p].status = "RECORDED"
      /\ payment' = [payment EXCEPT ![p] = row]
      /\ dispute' = Insert(dispute, p, "OPEN")
      /\ Recalculate(payment', payment[p].checkout)
      /\ End(r)
      /\ adjusted' = adjusted /\ idempotency' = idempotency
  BY DEF CommitDispute
<1> HIDE DEF row
<1>4. /\ Touches(p, payment[p].checkout)
      /\ p \in Payments
      /\ payment[p].checkout \in DOMAIN checkout
      /\ DOMAIN payment' = DOMAIN payment
  BY <1>1, <1>2, <1>3, DecideTouches
<1>5. /\ IsTable(dispute', Payments, DisputeStatuses)
      /\ DOMAIN dispute' = DOMAIN dispute \cup {p}
  BY <1>3, <1>4 DEF Insert, IsTable, DisputeStatuses, Inv, TypeOK
<1>6. DOMAIN dispute \subseteq DOMAIN dispute' /\ DOMAIN dispute' \subseteq DOMAIN payment'
  BY <1>1, <1>4, <1>5 DEF Inv, TypeOK
<1>7. IsTable(idempotency', Members \X Keys, Payments)
  BY <1>3 DEF Inv, TypeOK
<1>8. QED
  BY <1>3, <1>4, <1>5, <1>6, <1>7, PaymentStep

\* Resolving a dispute keeps the invariant.
LEMMA CommitResolveStep ==
    ASSUME Inv, NEW r \in Requests, CommitResolve(r)
    PROVE  Inv' /\ Kept
<1> DEFINE q == inflight[r]
           p == q.payment
           row == IF q.confirming
                  THEN [payment[p] EXCEPT !.status = "CONFIRMED", !.confirmer = q.member]
                  ELSE [payment[p] EXCEPT !.status = "VOIDED"]
<1>1. /\ p \in DOMAIN dispute
      /\ p \in DOMAIN payment
      /\ payment[p] \in PaymentRow
      /\ q \in Request
      /\ q.op = "resolve"
  BY DEF CommitResolve, Is, Inv, TypeOK, InflightSound, IsTable
<1>2. q.member \in Members
  BY <1>1, RequestFields
<1>3. row \in PaymentRow /\ row.checkout = payment[p].checkout
  <2>1. CASE q.confirming
    BY <1>1, <1>2, <2>1 DEF PaymentRow
  <2>2. CASE ~ q.confirming
    BY <1>1, <2>2 DEF PaymentRow
  <2>3. QED
    BY <2>1, <2>2
<1>4. /\ payment[p].status = "DISPUTED"
      /\ dispute' = [dispute EXCEPT ![p] =
                        IF q.confirming THEN "RESOLVED_CONFIRMED" ELSE "RESOLVED_REJECTED"]
      /\ Recalculate(payment', payment[p].checkout)
      /\ End(r)
      /\ adjusted' = adjusted /\ idempotency' = idempotency
  BY DEF CommitResolve
<1>5. payment' = [payment EXCEPT ![p] = row]
  BY DEF CommitResolve
<1> HIDE DEF row
<1>6. /\ Touches(p, payment[p].checkout)
      /\ p \in Payments
      /\ payment[p].checkout \in DOMAIN checkout
      /\ DOMAIN payment' = DOMAIN payment
  BY <1>1, <1>3, <1>4, <1>5, DecideTouches
<1>7. IsTable(dispute', Payments, DisputeStatuses) /\ DOMAIN dispute' = DOMAIN dispute
  BY <1>1, <1>4 DEF IsTable, DisputeStatuses, Inv, TypeOK
<1>8. DOMAIN dispute' \subseteq DOMAIN payment' /\ IsTable(idempotency', Members \X Keys, Payments)
  BY <1>4, <1>6, <1>7 DEF Inv, TypeOK
<1>9. QED
  BY <1>4, <1>6, <1>7, <1>8, PaymentStep
-----------------------------------------------------------------------------
(* Every action.                                                           *)

\* The steps that only read keep the invariant and every row.
LEMMA ReadsOnly ==
    ASSUME Inv, NEW r \in Requests,
           \/ \E c \in Checkouts, s \in Subtotals, m \in Staff : BeginCreate(r, c, s, m)
           \/ \E c \in Checkouts, d \in Deltas : BeginAdjust(r, c, d)
           \/ \E c \in Checkouts : BeginVoid(r, c)
           \/ \E c \in Checkouts, m \in Members, k \in Keys, a \in Amounts : BeginRecord(r, c, m, k, a)
           \/ \E p \in Payments : BeginVoidPayment(r, p)
           \/ \E p \in Payments, m \in Members : BeginConfirm(r, p, m)
           \/ \E p \in Payments, m \in Members : BeginDispute(r, p, m)
           \/ \E p \in Payments, m \in Members, b \in BOOLEAN : BeginResolve(r, p, m, b)
    PROVE  Inv' /\ Kept
<1>1. SUFFICES \E q \in Request : Begin(r, q) /\ NoTableWritten /\ SoundRequest(q)
  BY BeginStep
<1>2. \A c \in DOMAIN checkout : checkout[c] \in CheckoutRow /\ checkout[c].version \in Nat
  BY DEF Inv, TypeOK, IsTable, CheckoutRow
<1>3. ASSUME NEW c \in Checkouts, NEW s \in Subtotals, NEW m \in Staff, BeginCreate(r, c, s, m)
      PROVE  \E q \in Request : Begin(r, q) /\ NoTableWritten /\ SoundRequest(q)
  <2> DEFINE q == [op |-> "create", checkout |-> c, subtotal |-> s, operator |-> m]
  <2>1. q \in Request /\ q.op = "create"
    BY MoneyAssumption DEF Request
  <2>2. Begin(r, q) /\ NoTableWritten
    BY <1>3 DEF BeginCreate, NoTableWritten
  <2>3. QED
    BY <2>1, <2>2 DEF SoundRequest
<1>4. ASSUME NEW c \in Checkouts, NEW d \in Deltas, BeginAdjust(r, c, d)
      PROVE  \E q \in Request : Begin(r, q) /\ NoTableWritten /\ SoundRequest(q)
  <2> DEFINE q == [op |-> "adjust", checkout |-> c, delta |-> d,
                   seen |-> checkout[c], counted |-> FALSE]
  <2>1. c \in DOMAIN checkout /\ checkout[c].status = "OPEN"
    BY <1>4 DEF BeginAdjust
  <2>2. q \in Request /\ q.op = "adjust" /\ q.seen = checkout[c] /\ q.checkout = c /\ q.counted = FALSE
    BY <1>2, <2>1, MoneyAssumption DEF Request
  <2>3. Begin(r, q) /\ NoTableWritten
    BY <1>4 DEF BeginAdjust, NoTableWritten
  <2> HIDE DEF q
  <2>4. SoundRequest(q)
    BY <1>2, <2>1, <2>2 DEF SoundRequest, SeenSound, AdjustSound, ActiveStatuses
  <2>5. QED
    BY <2>2, <2>3, <2>4
<1>5. ASSUME NEW c \in Checkouts, BeginVoid(r, c)
      PROVE  \E q \in Request : Begin(r, q) /\ NoTableWritten /\ SoundRequest(q)
  <2> DEFINE q == [op |-> "void", checkout |-> c, seen |-> checkout[c]]
  <2>1. c \in DOMAIN checkout /\ checkout[c].status \in ActiveStatuses
    BY <1>5 DEF BeginVoid
  <2>2. q \in Request /\ q.op = "void" /\ q.seen = checkout[c] /\ q.checkout = c
    BY <1>2, <2>1 DEF Request
  <2>3. Begin(r, q) /\ NoTableWritten
    BY <1>5 DEF BeginVoid, NoTableWritten
  <2> HIDE DEF q
  <2>4. SoundRequest(q)
    BY <1>2, <2>1, <2>2 DEF SoundRequest, SeenSound
  <2>5. QED
    BY <2>2, <2>3, <2>4
<1>6. ASSUME NEW c \in Checkouts, NEW m \in Members, NEW k \in Keys, NEW a \in Amounts,
             BeginRecord(r, c, m, k, a)
      PROVE  \E q \in Request : Begin(r, q) /\ NoTableWritten /\ SoundRequest(q)
  <2> DEFINE q == [op |-> "record", checkout |-> c, member |-> m, key |-> k, amount |-> a]
  <2>1. q \in Request /\ q.op = "record" /\ q.checkout = c
    BY MoneyAssumption DEF Request
  <2>2. Begin(r, q) /\ NoTableWritten /\ c \in DOMAIN checkout
    BY <1>6 DEF BeginRecord, NoTableWritten
  <2>3. QED
    BY <2>1, <2>2 DEF SoundRequest
<1>7. ASSUME NEW p \in Payments, BeginVoidPayment(r, p)
      PROVE  \E q \in Request : Begin(r, q) /\ NoTableWritten /\ SoundRequest(q)
  <2> DEFINE q == [op |-> "voidPayment", payment |-> p]
  <2>1. q \in Request /\ q.op = "voidPayment" /\ q.payment = p
    BY DEF Request
  <2>2. Begin(r, q) /\ NoTableWritten /\ p \in DOMAIN payment
    BY <1>7 DEF BeginVoidPayment, NoTableWritten
  <2>3. QED
    BY <2>1, <2>2 DEF SoundRequest
<1>8. ASSUME NEW p \in Payments, NEW m \in Members, BeginConfirm(r, p, m)
      PROVE  \E q \in Request : Begin(r, q) /\ NoTableWritten /\ SoundRequest(q)
  <2> DEFINE own == ~ ConfirmsOwnWork(m, p)
             q == [op |-> "confirm", payment |-> p, member |-> m, override |-> own]
  <2>1. own \in BOOLEAN
    OBVIOUS
  <2>2. Begin(r, q) /\ NoTableWritten /\ p \in DOMAIN payment
    BY <1>8 DEF BeginConfirm, NoTableWritten
  <2> HIDE DEF own
  <2>3. q \in Request /\ q.op = "confirm" /\ q.payment = p
    BY <2>1 DEF Request
  <2>4. QED
    BY <2>2, <2>3 DEF SoundRequest
<1>9. ASSUME NEW p \in Payments, NEW m \in Members, BeginDispute(r, p, m)
      PROVE  \E q \in Request : Begin(r, q) /\ NoTableWritten /\ SoundRequest(q)
  <2> DEFINE q == [op |-> "dispute", payment |-> p]
  <2>1. q \in Request /\ q.op = "dispute" /\ q.payment = p
    BY DEF Request
  <2>2. Begin(r, q) /\ NoTableWritten /\ p \in DOMAIN payment
    BY <1>9 DEF BeginDispute, NoTableWritten
  <2>3. QED
    BY <2>1, <2>2 DEF SoundRequest
<1>10. ASSUME NEW p \in Payments, NEW m \in Members, NEW b \in BOOLEAN, BeginResolve(r, p, m, b)
       PROVE  \E q \in Request : Begin(r, q) /\ NoTableWritten /\ SoundRequest(q)
  <2> DEFINE q == [op |-> "resolve", payment |-> p, member |-> m, confirming |-> b]
  <2>1. q \in Request /\ q.op = "resolve" /\ q.payment = p
    BY DEF Request
  <2>2. Begin(r, q) /\ NoTableWritten /\ p \in DOMAIN dispute
    BY <1>10 DEF BeginResolve, NoTableWritten
  <2>3. QED
    BY <2>1, <2>2 DEF SoundRequest
<1>11. QED
  BY <1>3, <1>4, <1>5, <1>6, <1>7, <1>8, <1>9, <1>10

\* Abandoned requests, and the second read of an adjustment.
LEMMA AbandonStep ==
    ASSUME Inv, NEW r \in Requests, Abandon(r)
    PROVE  Inv' /\ Kept
<1>1. NoTableWritten /\ End(r)
  BY DEF Abandon, NoTableWritten
<1>2. Monotone /\ IsTable(checkout', Checkouts, CheckoutRow)
  BY <1>1 DEF NoTableWritten, paymentTables, Monotone, RowGrows, NeverPaid, IsTable, Inv, TypeOK
<1>3. IsTable(inflight', Requests, Request) /\ InflightSound'
  BY <1>1, <1>2, EndSound DEF Inv, TypeOK
<1>4. QED
  BY <1>1, <1>3, ReadStep

\* An adjustment that counts the payments keeps the invariant.
LEMMA CountPaymentsStep ==
    ASSUME Inv, NEW r \in Requests, CountPayments(r)
    PROVE  Inv' /\ Kept
<1> DEFINE q == [inflight[r] EXCEPT !.counted = TRUE]
<1>1. /\ r \in DOMAIN inflight
      /\ inflight[r] \in Request
      /\ inflight[r].op = "adjust"
      /\ SoundRequest(inflight[r])
  BY InflightSoundIsSound DEF CountPayments, Is, Inv, TypeOK, IsTable
<1>2. /\ q \in Request
      /\ q.op = "adjust"
      /\ q.checkout = inflight[r].checkout
      /\ q.seen = inflight[r].seen
      /\ q.delta = inflight[r].delta
  BY <1>1 DEF Request
<1>3. /\ inflight' = [inflight EXCEPT ![r] = q]
      /\ NeverPaid(q.checkout)
      /\ FitsTotal(q.seen, q.delta)
      /\ NoTableWritten
  BY <1>2 DEF CountPayments, NoTableWritten
<1> HIDE DEF q
<1>4. SoundRequest(q)
  BY <1>1, <1>2, <1>3 DEF SoundRequest, SeenSound, AdjustSound
<1>5. /\ IsTable(inflight', Requests, Request)
      /\ DOMAIN inflight' = DOMAIN inflight
      /\ inflight'[r] = q
      /\ \A s \in DOMAIN inflight \ {r} : inflight'[s] = inflight[s]
  BY <1>1, <1>2, <1>3 DEF IsTable, Inv, TypeOK
<1>6. ASSUME NEW s \in DOMAIN inflight' PROVE SoundRequest(inflight'[s])
  <2>1. CASE s = r
    BY <1>4, <1>5, <2>1
  <2>2. CASE s # r
    <3>1. s \in DOMAIN inflight /\ inflight'[s] = inflight[s]
      BY <1>5, <2>2
    <3>2. SoundRequest(inflight[s])
      BY <3>1, InflightSoundIsSound DEF Inv
    <3>3. QED
      BY <3>1, <3>2
  <2>3. QED
    BY <2>1, <2>2
<1>7. InflightSound'
  BY <1>3, <1>6 DEF NoTableWritten, paymentTables, InflightSound, SoundRequest, SeenSound,
                    AdjustSound, StillCurrent, NeverPaid, FitsTotal
<1>8. QED
  BY <1>3, <1>5, <1>7, ReadStep

\* Every step keeps the invariant and what was posted.
LEMMA StepKeepsInv == Inv /\ [Next]_vars => Inv' /\ Kept
<1> SUFFICES ASSUME Inv, [Next]_vars
             PROVE  Inv' /\ Kept
  OBVIOUS
<1>1. ASSUME NEW r \in Requests, CheckoutCommand(r)
      PROVE  Inv' /\ Kept
  BY <1>1, ReadsOnly, CommitCreateStep, CountPaymentsStep, CommitAdjustStep, CommitVoidStep
     DEF CheckoutCommand
<1>2. ASSUME NEW r \in Requests, PaymentCommand(r)
      PROVE  Inv' /\ Kept
  BY <1>2, ReadsOnly, CommitRecordStep, CommitVoidPaymentStep, CommitConfirmStep,
     CommitDisputeStep, CommitResolveStep
     DEF PaymentCommand
<1>3. ASSUME NEW r \in Requests, Abandon(r)
      PROVE  Inv' /\ Kept
  BY <1>3, AbandonStep
<1>4. CASE UNCHANGED vars
  <2>1. NoTableWritten /\ inflight' = inflight
    BY <1>4 DEF vars, NoTableWritten, paymentTables
  <2>2. IsTable(inflight', Requests, Request)
    BY <2>1 DEF Inv, TypeOK
  <2>3. InflightSound'
    BY <2>1 DEF Inv, NoTableWritten, paymentTables, InflightSound, SeenSound,
                AdjustSound, StillCurrent, NeverPaid, FitsTotal
  <2>4. QED
    BY <2>1, <2>2, <2>3, ReadStep
<1>5. QED
  BY <1>1, <1>2, <1>3, <1>4 DEF Next

\* The tables are empty at first.
LEMMA InitKeepsInv == Init => Inv
<1> SUFFICES ASSUME Init PROVE Inv
  OBVIOUS
<1> USE DEF Init
<1>1. TypeOK
  BY DEF TypeOK, IsTable, TransactionsTyped
<1>2. InflightSound
  BY DEF InflightSound
<1>3. SettledExactlyPaid
  BY DEF SettledExactlyPaid
<1>4. AdjustmentsAddUp
  BY DEF AdjustmentsAddUp
<1>5. QED
  BY <1>1, <1>2, <1>3, <1>4 DEF Inv
-----------------------------------------------------------------------------
(* The theorems.                                                           *)

\* Hence the invariant always holds.
LEMMA InvAlways == Spec => []Inv
<1>1. Inv /\ [Next]_vars => Inv'
  BY StepKeepsInv
<1>2. QED
  BY <1>1, InitKeepsInv, PTL DEF Spec

\* Every table keeps its columns and foreign keys.
THEOREM TypeCorrect == Spec => []TypeOK
<1>1. Inv => TypeOK
  BY DEF Inv
<1>2. QED
  BY <1>1, InvAlways, PTL

\* The version checks that replace a lock are sound: what a request in flight
\* has read is the current checkout row or an older version of it, and while it
\* is current no payment has been recorded behind an adjustment that counted
\* none.
THEOREM ReadsStaySound == Spec => []InflightSound
<1>1. Inv => InflightSound
  BY DEF Inv
<1>2. QED
  BY <1>1, InvAlways, PTL

\* A checkout is settled exactly when its SALE is posted, and the sale
\* allocates exactly the confirmed payments, which make up the total.
THEOREM SettledIsPaid == Spec => []SettledExactlyPaid
<1>1. Inv => SettledExactlyPaid
  BY DEF Inv
<1>2. QED
  BY <1>1, InvAlways, PTL

\* No concurrent adjustment is lost.
THEOREM NoAdjustmentLost == Spec => []AdjustmentsAddUp
<1>1. Inv => AdjustmentsAddUp
  BY DEF Inv
<1>2. QED
  BY <1>1, InvAlways, PTL

\* No total changes after the first payment of its checkout.
THEOREM TotalsFreeze == Spec => TotalFrozenByPayments
<1>1. Inv /\ [Next]_vars => [\A p \in DOMAIN payment :
          checkout'[payment[p].checkout].total = checkout[payment[p].checkout].total]_vars
  BY StepKeepsInv DEF Kept
<1>2. QED
  BY <1>1, InvAlways, PTL DEF Spec, TotalFrozenByPayments

\* Settled and voided checkouts are final, and a posted sale is never replaced.
THEOREM FinalIsFinal == Spec => TerminalAndPostedOnce
<1>1. Inv /\ [Next]_vars =>
        [/\ \A c \in DOMAIN checkout :
               checkout[c].status \notin ActiveStatuses => checkout'[c] = checkout[c]
         /\ \A c \in DOMAIN transaction :
               c \in DOMAIN transaction' /\ transaction'[c] = transaction[c]]_vars
  BY StepKeepsInv DEF Kept
<1>2. QED
  BY <1>1, InvAlways, PTL DEF Spec, TerminalAndPostedOnce
-----------------------------------------------------------------------------
(* Sums of payments.                                                       *)

AmountTable(pays) == [p \in DOMAIN pays |-> pays[p].amount]

\* AmountSum is the sum of one function, whichever payments are summed.
LEMMA AmountSumIs ==
    ASSUME NEW pays, IsTable(pays, Payments, PaymentRow), NEW S \in SUBSET DOMAIN pays,
           IsFiniteSet(S)
    PROVE  /\ AmountSum(pays, S) = SumFunctionOnSet(AmountTable(pays), S)
           /\ \A p \in S : AmountTable(pays)[p] \in Nat \ {0}
<1> DEFINE f == [p \in S |-> pays[p].amount]
<1>1. AmountSum(pays, S) = SumFunctionOnSet(f, S)
  <2>1. DOMAIN f = S
    OBVIOUS
  <2>2. QED
    BY <2>1, Zenon DEF AmountSum, SumFunction
<1>2. \A p \in S : f[p] = AmountTable(pays)[p]
  BY DEF AmountTable
<1>3. SumFunctionOnSet(f, S) = SumFunctionOnSet(AmountTable(pays), S)
  <2> HIDE DEF f
  <2> QED
    BY <1>2, SumSame
<1>4. \A p \in S : AmountTable(pays)[p] \in Nat \ {0}
  BY DEF AmountTable, IsTable, PaymentRow
<1>5. QED
  BY <1>1, <1>3, <1>4

\* A set with one more payment.
LEMMA AmountAdd ==
    ASSUME NEW pays, IsTable(pays, Payments, PaymentRow), IsFiniteSet(DOMAIN pays),
           NEW S \in SUBSET DOMAIN pays, NEW p \in DOMAIN pays, p \notin S
    PROVE  AmountSum(pays, S \cup {p}) = AmountSum(pays, S) + pays[p].amount
<1>1. IsFiniteSet(S) /\ IsFiniteSet(S \cup {p})
  BY FS_Subset, FS_AddElement
<1>2. /\ AmountSum(pays, S) = SumFunctionOnSet(AmountTable(pays), S)
      /\ AmountSum(pays, S \cup {p}) = SumFunctionOnSet(AmountTable(pays), S \cup {p})
      /\ \A i \in S \cup {p} : AmountTable(pays)[i] \in Nat
  BY <1>1, AmountSumIs
<1>3. SumFunctionOnSet(AmountTable(pays), S) \in Int
  BY <1>1, <1>2, SumInt
<1>4. SumFunctionOnSet(AmountTable(pays), S \cup {p})
        = AmountTable(pays)[p] + SumFunctionOnSet(AmountTable(pays), S)
  BY <1>1, <1>2, SumAdd
<1>5. AmountTable(pays)[p] = pays[p].amount /\ AmountTable(pays)[p] \in Int
  BY <1>2 DEF AmountTable
<1>6. QED
  BY <1>2, <1>3, <1>4, <1>5

\* Part of the payments adds up to at most what all do, and to less if one is
\* missing.
LEMMA AmountPart ==
    ASSUME NEW pays, IsTable(pays, Payments, PaymentRow), IsFiniteSet(DOMAIN pays),
           NEW T \in SUBSET DOMAIN pays, NEW S \in SUBSET T
    PROVE  /\ AmountSum(pays, S) \in Nat
           /\ AmountSum(pays, T) \in Nat
           /\ AmountSum(pays, S) <= AmountSum(pays, T)
           /\ \A p \in T \ S : AmountSum(pays, S) + pays[p].amount <= AmountSum(pays, T)
           /\ S # T => AmountSum(pays, S) < AmountSum(pays, T)
<1> DEFINE f == AmountTable(pays)
<1>1. IsFiniteSet(S) /\ IsFiniteSet(T)
  BY FS_Subset
<1>2. /\ AmountSum(pays, S) = SumFunctionOnSet(f, S)
      /\ AmountSum(pays, T) = SumFunctionOnSet(f, T)
      /\ \A p \in T : f[p] \in Nat \ {0} /\ f[p] = pays[p].amount
  BY <1>1, AmountSumIs DEF AmountTable
<1> HIDE DEF f
<1>3. SumFunctionOnSet(f, S) \in Nat /\ SumFunctionOnSet(f, T) \in Nat
  BY <1>1, <1>2, SumNat
<1>4. /\ SumFunctionOnSet(f, S) <= SumFunctionOnSet(f, T)
      /\ \A p \in T \ S : SumFunctionOnSet(f, S) + f[p] <= SumFunctionOnSet(f, T)
  BY <1>1, <1>2, SumOfPart
<1>5. ASSUME S # T PROVE AmountSum(pays, S) < AmountSum(pays, T)
  <2>1. PICK p \in T \ S : TRUE
    BY <1>5
  <2>2. SumFunctionOnSet(f, S) + f[p] <= SumFunctionOnSet(f, T) /\ f[p] \in Nat \ {0}
    BY <1>2, <1>4
  <2>3. QED
    BY <1>2, <1>3, <2>2
<1>6. QED
  BY <1>2, <1>3, <1>4, <1>5

\* No payments add up to nothing.
LEMMA AmountNone ==
    ASSUME NEW pays
    PROVE  AmountSum(pays, {}) = 0
<1>1. DOMAIN [p \in {} |-> pays[p].amount] = {}
  OBVIOUS
<1>2. QED
  BY <1>1, SumEmpty, Zenon DEF AmountSum, SumFunction

\* Rows that keep their amounts keep their sum.
LEMMA AmountSame ==
    ASSUME NEW old, NEW new, NEW S, \A p \in S : new[p].amount = old[p].amount
    PROVE  AmountSum(new, S) = AmountSum(old, S)
<1>1. [p \in S |-> new[p].amount] = [p \in S |-> old[p].amount]
  OBVIOUS
<1>2. QED
  BY <1>1 DEF AmountSum
-----------------------------------------------------------------------------
(* Balances, statuses and the ledger of CheckoutLedger.                    *)

\* What Inv leaves to be proved with sums: every balance and every status, of
\* finitely many payments, and that no request opens a checkout for nothing.
Balanced ==
    /\ IsFiniteSet(DOMAIN payment)
    /\ BalanceNeverExceeded
    /\ StatusHonest
    /\ \A r \in DOMAIN inflight : inflight[r].op = "create" => inflight[r].subtotal > 0

\* The state of CheckoutLedger, checkout by checkout.
StatusPhase(status) == CASE status \in ActiveStatuses -> "collecting"
                         [] status = "SETTLED" -> "settled"
                         [] status = "VOIDED" -> "cancelled"
Phase(c) == IF c \notin DOMAIN checkout THEN "absent" ELSE StatusPhase(checkout[c].status)
Due(c) == IF c \in DOMAIN checkout THEN checkout[c].total ELSE 0
Confirmed(c) == PaymentsOf(payment, c, {"CONFIRMED"})
Collected(c) == AmountSum(payment, Confirmed(c))

\* Payment p of checkout c is recorded within the balance, or decided.
Pays(p, c) ==
    /\ Touches(p, c)
    /\ IF p \in DOMAIN payment THEN payment'[p].amount = payment[p].amount
       ELSE AmountSum(payment, Unvoided(payment, c)) + payment'[p].amount <= checkout[c].total

\* What recalculate makes of the status of an active checkout.
LEMMA RecalculatedStatus ==
    ASSUME IsTable(checkout, Checkouts, CheckoutRow), NEW c \in DOMAIN checkout, NEW pays,
           checkout[c].status \in ActiveStatuses, Recalculate(pays, c)
    PROVE  \/ /\ DeriveSettlement(pays, c, checkout[c].total) = "READY_TO_SETTLE"
              /\ AmountSum(pays, PaymentsOf(pays, c, {"CONFIRMED"})) = checkout[c].total
              /\ checkout'[c].status = "SETTLED"
           \/ /\ DeriveSettlement(pays, c, checkout[c].total) # "READY_TO_SETTLE"
              /\ checkout'[c].status = DeriveSettlement(pays, c, checkout[c].total)
<1> DEFINE outcome == DeriveSettlement(pays, c, checkout[c].total)
<1>1. checkout[c] \in CheckoutRow
  BY DEF IsTable
<1>2. CASE outcome = "READY_TO_SETTLE"
  <2>1. Post(pays, c)
    BY <1>2 DEF Recalculate
  <2>2. checkout' = [checkout EXCEPT ![c].status = "SETTLED", ![c].version = @ + 1]
        /\ AmountSum(pays, PaymentsOf(pays, c, {"CONFIRMED"})) = checkout[c].total
    BY <2>1 DEF Post
  <2>3. checkout'[c].status = "SETTLED"
    BY <2>2, StatusStep
  <2>4. QED
    BY <1>2, <2>2, <2>3
<1>3. CASE outcome # "READY_TO_SETTLE"
  <2>1. SetStatus(c, outcome)
    BY <1>3 DEF Recalculate
  <2>2. outcome \in ActiveStatuses
    BY <1>3 DEF DeriveSettlement, ActiveStatuses
  <2>3. CASE outcome = checkout[c].status
    BY <1>3, <2>1, <2>3 DEF SetStatus
  <2>4. CASE outcome # checkout[c].status
    <3>1. checkout' = [checkout EXCEPT ![c].status = outcome, ![c].version = @ + 1]
      BY <2>1, <2>4 DEF SetStatus
    <3>2. checkout'[c].status = outcome
      <4> HIDE DEF outcome
      <4> QED
        BY <2>2, <3>1, StatusStep
    <3>3. QED
      BY <1>3, <3>2
  <2>5. QED
    BY <2>3, <2>4
<1>4. QED
  BY <1>2, <1>3

\* The payments of c after one of them was recorded or decided.
LEMMA PaysSets ==
    ASSUME Inv, IsFiniteSet(DOMAIN payment), NEW c, NEW p, Pays(p, c)
    PROVE  /\ IsFiniteSet(DOMAIN payment')
           /\ Unvoided(payment, c) \subseteq DOMAIN payment
           /\ Unvoided(payment', c) \subseteq DOMAIN payment'
           /\ Confirmed(c) \subseteq Unvoided(payment, c)
           /\ Confirmed(c)' \subseteq Unvoided(payment', c)
           /\ p \notin Confirmed(c)
           /\ p \in DOMAIN payment => p \in Unvoided(payment, c)
           /\ payment'[p].status = "CONFIRMED" =>
                 p \in DOMAIN payment /\ Confirmed(c)' = Confirmed(c) \cup {p}
           /\ payment'[p].status # "CONFIRMED" => Confirmed(c)' = Confirmed(c)
           /\ p \in DOMAIN payment => Unvoided(payment', c) \subseteq Unvoided(payment, c)
           /\ p \notin DOMAIN payment => Unvoided(payment', c) = Unvoided(payment, c) \cup {p}
           /\ p \in DOMAIN payment'
           /\ \A i \in DOMAIN payment : payment'[i].amount = payment[i].amount
<1>1. IsFiniteSet(DOMAIN payment')
  BY FS_AddElement DEF Pays, Touches
<1>2. \A i \in DOMAIN payment : payment'[i].amount = payment[i].amount
  BY DEF Pays, Touches
<1>3. \A i \in DOMAIN payment : i # p => payment'[i] = payment[i]
  BY DEF Pays, Touches
<1>4. /\ DOMAIN payment' = DOMAIN payment \cup {p}
      /\ payment'[p].checkout = c
      /\ p \in DOMAIN payment =>
            payment[p].checkout = c /\ payment[p].status \in {"RECORDED", "DISPUTED"}
      /\ p \notin DOMAIN payment => payment'[p].status = "RECORDED"
  BY DEF Pays, Touches
<1>5. QED
  BY <1>1, <1>2, <1>3, <1>4 DEF Unvoided, Confirmed, PaymentsOf

\* One payment recorded or decided, and the checkout recalculated: the balance
\* holds, the status is honest, and only a confirmation collects or settles.
LEMMA PaysStep ==
    ASSUME Inv, Balanced, NEW c \in DOMAIN checkout, NEW p \in Payments, Pays(p, c),
           Recalculate(payment', c)
    PROVE  /\ IsFiniteSet(DOMAIN payment')
           /\ AmountSum(payment', Unvoided(payment', c)) <= checkout[c].total
           /\ checkout[c].status \in ActiveStatuses =>
                 /\ checkout'[c].status \in ActiveStatuses \cup {"SETTLED"}
                 /\ checkout'[c].status \in ActiveStatuses =>
                       checkout'[c].status = DeriveSettlement(payment', c, checkout[c].total)
                 /\ checkout'[c].status \in ActiveStatuses /\ checkout[c].total > 0 =>
                       Collected(c)' < checkout[c].total
                 /\ checkout'[c].status = "SETTLED" <=>
                       payment'[p].status = "CONFIRMED" /\ Collected(c)' = checkout[c].total
           /\ Collected(c) \in Nat
           /\ Collected(c)' \in Nat
           /\ Collected(c)' <= checkout[c].total
           /\ IF payment'[p].status = "CONFIRMED" THEN Collected(c) < Collected(c)'
              ELSE Collected(c)' = Collected(c)
<1> DEFINE U == Unvoided(payment, c)
           V == Unvoided(payment', c)
           C == Confirmed(c)
           D == Confirmed(c)'
           total == checkout[c].total
<1>1. /\ IsTable(payment, Payments, PaymentRow)
      /\ IsTable(payment', Payments, PaymentRow)
      /\ IsTable(checkout, Checkouts, CheckoutRow)
      /\ IsFiniteSet(DOMAIN payment)
  BY DEF Inv, TypeOK, Balanced, Pays, Touches
<1>2. /\ IsFiniteSet(DOMAIN payment')
      /\ U \in SUBSET DOMAIN payment
      /\ V \in SUBSET DOMAIN payment'
      /\ C \in SUBSET U
      /\ D \in SUBSET V
      /\ p \notin C
      /\ p \in DOMAIN payment => p \in U
      /\ payment'[p].status = "CONFIRMED" => p \in DOMAIN payment /\ D = C \cup {p}
      /\ payment'[p].status # "CONFIRMED" => D = C
      /\ p \in DOMAIN payment => V \subseteq U
      /\ p \notin DOMAIN payment => V = U \cup {p}
      /\ p \in DOMAIN payment'
      /\ \A i \in DOMAIN payment : payment'[i].amount = payment[i].amount
  BY <1>1, PaysSets
<1>3. DOMAIN payment \subseteq DOMAIN payment'
  BY DEF Pays, Touches
<1>4. total \in Nat /\ payment'[p].amount \in Nat \ {0}
  BY <1>1, <1>2 DEF IsTable, CheckoutRow, PaymentRow
<1>5. AmountSum(payment, U) <= total
  BY DEF Balanced, BalanceNeverExceeded
<1>6. /\ AmountSum(payment, U) \in Nat
      /\ AmountSum(payment, C) \in Nat
      /\ AmountSum(payment, C) <= AmountSum(payment, U)
      /\ C # U => AmountSum(payment, C) < AmountSum(payment, U)
  BY <1>1, <1>2, AmountPart
<1>7. /\ AmountSum(payment', V) \in Nat
      /\ AmountSum(payment', D) \in Nat
      /\ AmountSum(payment', D) <= AmountSum(payment', V)
      /\ D # V => AmountSum(payment', D) < AmountSum(payment', V)
  BY <1>1, <1>2, AmountPart
<1>8. AmountSum(payment', U) = AmountSum(payment, U) /\ AmountSum(payment', C) = AmountSum(payment, C)
  BY <1>2, AmountSame
<1> HIDE DEF U, V, C, D
<1>9. AmountSum(payment', V) <= total
  <2>1. CASE p \in DOMAIN payment
    <3>1. U \in SUBSET DOMAIN payment' /\ V \in SUBSET U
      BY <1>2, <1>3, <2>1
    <3>2. AmountSum(payment', V) <= AmountSum(payment', U)
      BY <1>1, <1>2, <3>1, AmountPart
    <3>3. QED
      BY <1>4, <1>5, <1>6, <1>7, <1>8, <3>2
  <2>2. CASE p \notin DOMAIN payment
    <3>1. V = U \cup {p} /\ p \notin U /\ U \in SUBSET DOMAIN payment'
      BY <1>2, <1>3, <2>2
    <3>2. AmountSum(payment', V) = AmountSum(payment', U) + payment'[p].amount
      BY <1>1, <1>2, <3>1, AmountAdd
    <3>3. AmountSum(payment, U) + payment'[p].amount <= total
      BY <2>2 DEF Pays, U
    <3>4. QED
      BY <1>8, <3>2, <3>3
  <2>3. QED
    BY <2>1, <2>2
<1>10. total > 0
  <2>1. CASE p \in DOMAIN payment
    <3>1. C # U
      BY <1>2, <2>1
    <3>2. QED
      BY <1>4, <1>5, <1>6, <3>1
  <2>2. CASE p \notin DOMAIN payment
    <3>1. AmountSum(payment, U) + payment'[p].amount <= total
      BY <2>2 DEF Pays, U
    <3>2. QED
      BY <1>4, <1>6, <3>1
  <2>3. QED
    BY <2>1, <2>2
<1>11. IF payment'[p].status = "CONFIRMED"
       THEN AmountSum(payment', D) = AmountSum(payment, C) + payment'[p].amount
       ELSE AmountSum(payment', D) = AmountSum(payment, C)
  <2>1. CASE payment'[p].status = "CONFIRMED"
    <3>1. D = C \cup {p} /\ C \in SUBSET DOMAIN payment' /\ p \notin C
      BY <1>2, <1>3, <2>1
    <3>2. AmountSum(payment', D) = AmountSum(payment', C) + payment'[p].amount
      BY <1>1, <1>2, <3>1, AmountAdd
    <3>3. QED
      BY <1>8, <2>1, <3>2
  <2>2. CASE payment'[p].status # "CONFIRMED"
    BY <1>2, <1>8, <2>2
  <2>3. QED
    BY <2>1, <2>2
<1>12. /\ V = D \cup PaymentsOf(payment', c, {"RECORDED"}) \cup PaymentsOf(payment', c, {"DISPUTED"})
       /\ D \cap PaymentsOf(payment', c, {"RECORDED"}) = {}
       /\ D \cap PaymentsOf(payment', c, {"DISPUTED"}) = {}
  BY DEF V, D, Unvoided, Confirmed, PaymentsOf
<1>13. ASSUME checkout[c].status \in ActiveStatuses
       PROVE  /\ checkout'[c].status \in ActiveStatuses \cup {"SETTLED"}
              /\ checkout'[c].status \in ActiveStatuses =>
                    checkout'[c].status = DeriveSettlement(payment', c, total)
              /\ checkout'[c].status \in ActiveStatuses => AmountSum(payment', D) < total
              /\ checkout'[c].status = "SETTLED" <=>
                    payment'[p].status = "CONFIRMED" /\ AmountSum(payment', D) = total
  <2> DEFINE outcome == DeriveSettlement(payment', c, total)
  <2>1. \/ /\ outcome = "READY_TO_SETTLE"
           /\ AmountSum(payment', D) = total
           /\ checkout'[c].status = "SETTLED"
        \/ /\ outcome # "READY_TO_SETTLE"
           /\ checkout'[c].status = outcome
    BY <1>1, <1>13, RecalculatedStatus DEF D, Confirmed
  <2>2. checkout'[c].status \in ActiveStatuses => checkout'[c].status = outcome
    BY <2>1 DEF ActiveStatuses
  <2>3. outcome = IF PaymentsOf(payment', c, {"DISPUTED"}) # {} THEN "DISPUTED"
                  ELSE IF PaymentsOf(payment', c, {"RECORDED"}) # {} THEN "AWAITING_VERIFICATION"
                  ELSE IF AmountSum(payment', D) < total THEN "OPEN"
                  ELSE "READY_TO_SETTLE"
    BY DEF DeriveSettlement, D, Confirmed
  <2> HIDE DEF outcome, total
  <2>4. CASE PaymentsOf(payment', c, {"DISPUTED"}) # {} \/ PaymentsOf(payment', c, {"RECORDED"}) # {}
    <3>1. D # V
      BY <1>12, <2>4
    <3>2. AmountSum(payment', D) < total
      BY <1>4, <1>7, <1>9, <3>1 DEF total
    <3>3. AmountSum(payment', D) # total
      BY <1>4, <1>7, <3>2 DEF total
    <3>4. outcome \in {"DISPUTED", "AWAITING_VERIFICATION"}
      BY <2>3, <2>4
    <3>5. checkout'[c].status = outcome
      BY <2>1, <3>4
    <3>6. QED
      BY <2>2, <3>2, <3>3, <3>4, <3>5 DEF ActiveStatuses, outcome
  <2>5. CASE PaymentsOf(payment', c, {"DISPUTED"}) = {} /\ PaymentsOf(payment', c, {"RECORDED"}) = {}
    <3>2. CASE AmountSum(payment', D) < total
      <4>1. checkout'[c].status = "OPEN" /\ AmountSum(payment', D) # total
        BY <1>4, <1>7, <2>1, <2>3, <2>5, <3>2 DEF total
      <4>2. QED
        BY <2>2, <3>2, <4>1 DEF ActiveStatuses, outcome
    <3>3. CASE ~ (AmountSum(payment', D) < total)
      <4>1. checkout'[c].status = "SETTLED" /\ AmountSum(payment', D) = total
        BY <2>1, <2>3, <2>5, <3>3
      <4>2. payment'[p].status = "CONFIRMED"
        <5>1. SUFFICES ASSUME payment'[p].status # "CONFIRMED" PROVE FALSE
          OBVIOUS
        <5>2. AmountSum(payment, C) = total
          BY <1>11, <4>1, <5>1
        <5>3. AmountSum(payment, C) < total
          BY <1>10, <1>13 DEF Balanced, StatusHonest, C, Confirmed, total
        <5>4. QED
          BY <1>4, <5>2, <5>3 DEF total
      <4>3. QED
        BY <4>1, <4>2 DEF ActiveStatuses
    <3>4. QED
      BY <3>2, <3>3
  <2>6. QED
    BY <2>4, <2>5
<1>14. Collected(c) = AmountSum(payment, C) /\ Collected(c)' = AmountSum(payment', D)
  BY DEF C, D, Collected, Confirmed
<1>15. AmountSum(payment', D) <= total
  BY <1>4, <1>7, <1>9
<1>16. IF payment'[p].status = "CONFIRMED" THEN Collected(c) < Collected(c)'
       ELSE Collected(c)' = Collected(c)
  BY <1>4, <1>6, <1>11, <1>14
<1>17. QED
  BY <1>2, <1>6, <1>7, <1>9, <1>13, <1>14, <1>15, <1>16 DEF V, D
-----------------------------------------------------------------------------
(* The steps of CheckoutLedger.                                            *)

Phases == [c \in Checkouts |-> Phase(c)]
Dues == [c \in Checkouts |-> Due(c)]
Collections == [c \in Checkouts |-> Collected(c)]

\* Any of its actions is a step of CheckoutLedger.
LEMMA LedgerNext ==
    ASSUME NEW c \in Checkouts,
           \/ Ledger!Open(c) \/ Ledger!Reprice(c) \/ Ledger!Collect(c)
           \/ Ledger!CollectAfterCancel(c) \/ Ledger!Cancel(c)
    PROVE  Ledger!Next
  BY Zenon DEF Ledger!Next

\* When the tables move as in its action Open, ...
LEMMA LedgerOpen ==
    ASSUME NEW c \in Checkouts, Phases[c] = "absent",
           Phases' = [Phases EXCEPT ![c] = "collecting"],
           Dues' \in [Checkouts -> Nat], \A d \in Checkouts \ {c} : Dues'[d] = Dues[d],
           Dues'[c] > 0, Collections' = Collections
    PROVE  Ledger!Next
<1>1. Ledger!Open(c)
  BY Zenon DEF Ledger!Open, Ledger!OnlyAt, Phases, Dues, Collections, Phase, StatusPhase,
               Due, Collected, Confirmed
<1>2. QED
  BY <1>1, LedgerNext

\* ... as in Reprice, ...
LEMMA LedgerReprice ==
    ASSUME NEW c \in Checkouts, Phases[c] = "collecting", Collections[c] = 0,
           Dues' \in [Checkouts -> Nat], \A d \in Checkouts \ {c} : Dues'[d] = Dues[d],
           Phases' = Phases, Collections' = Collections
    PROVE  Ledger!Next
<1>1. Ledger!Reprice(c)
  BY Zenon DEF Ledger!Reprice, Ledger!OnlyAt, Phases, Dues, Collections, Phase, StatusPhase,
               Due, Collected, Confirmed
<1>2. QED
  BY <1>1, LedgerNext

\* ... as in Collect, or in CollectAfterCancel, ...
LEMMA LedgerCollect ==
    ASSUME NEW c \in Checkouts, Collections' \in [Checkouts -> Nat],
           \A d \in Checkouts \ {c} : Collections'[d] = Collections[d],
           Collections[c] < Collections'[c], Collections'[c] <= Dues[c], Dues' = Dues,
           \/ /\ Phases[c] = "collecting"
              /\ Phases' = [Phases EXCEPT ![c] =
                               IF Collections'[c] = Dues[c] THEN "settled" ELSE @]
           \/ Phases[c] = "cancelled" /\ Phases' = Phases
    PROVE  Ledger!Next
<1>1. Ledger!Collects(c)
  BY Zenon DEF Ledger!Collects, Ledger!OnlyAt, Dues, Collections, Due, Collected, Confirmed
<1>2. Ledger!Collect(c) \/ Ledger!CollectAfterCancel(c)
  BY <1>1, Zenon DEF Ledger!Collect, Ledger!CollectAfterCancel, Phases, Dues, Collections, Phase,
               StatusPhase, Due, Collected, Confirmed
<1>3. QED
  BY <1>2, LedgerNext

\* ... or as in Cancel.
LEMMA LedgerCancel ==
    ASSUME NEW c \in Checkouts, Phases[c] = "collecting",
           Phases' = [Phases EXCEPT ![c] = "cancelled"], Dues' = Dues, Collections' = Collections
    PROVE  Ledger!Next
<1>1. Ledger!Cancel(c)
  BY Zenon DEF Ledger!Cancel, Phases, Dues, Collections, Phase, StatusPhase, Due, Collected,
               Confirmed
<1>2. QED
  BY <1>1, LedgerNext

\* CheckoutLedger stutters, and starts, as the three tables do.
LEMMA LedgerVars ==
    /\ UNCHANGED Ledger!ledger <=> UNCHANGED <<Phases, Dues, Collections>>
    /\ Ledger!Init <=> /\ Phases = [c \in Checkouts |-> "absent"]
                       /\ Dues = [c \in Checkouts |-> 0]
                       /\ Collections = [c \in Checkouts |-> 0]
  BY Zenon DEF Ledger!ledger, Ledger!Init, Phases, Dues, Collections, Phase, StatusPhase, Due, Collected, Confirmed

\* The phase each status stands for.
LEMMA StatusPhases ==
    /\ \A status \in ActiveStatuses : StatusPhase(status) = "collecting"
    /\ StatusPhase("SETTLED") = "settled"
    /\ StatusPhase("VOIDED") = "cancelled"
<1>1. /\ \A status \in ActiveStatuses : status # "SETTLED" /\ status # "VOIDED"
      /\ "SETTLED" \notin ActiveStatuses /\ "VOIDED" \notin ActiveStatuses
  BY DEF ActiveStatuses
<1>2. QED
  BY <1>1 DEF StatusPhase
-----------------------------------------------------------------------------
(* What each action does to balances, keys and the ledger.                 *)

\* OnePaymentPerKey, and a key answers with a payment that exists.
KeysSound ==
    /\ OnePaymentPerKey
    /\ \A k \in DOMAIN idempotency : idempotency[k] \in DOMAIN payment

\* What every step must do.
Keeps == Balanced' /\ KeysSound' /\ [Ledger!Next]_(Ledger!ledger)

CreatesPaid == \A r \in DOMAIN inflight : inflight[r].op = "create" => inflight[r].subtotal > 0

\* Ending a request leaves the other requests that create as they are.
LEMMA EndCreates ==
    ASSUME IsTable(inflight, Requests, Request), CreatesPaid, NEW r, End(r)
    PROVE  CreatesPaid'
  BY EndInflight DEF CreatesPaid

\* Beginning one is harmless, if it does not create for nothing.
LEMMA BeginCreates ==
    ASSUME CreatesPaid, NEW r, NEW q, Begin(r, q), q.op = "create" => q.subtotal > 0
    PROVE  CreatesPaid'
  BY DEF CreatesPaid, Begin, Insert

\* A step that writes no table keeps them all.
LEMMA ReadKeeps ==
    ASSUME Inv, Balanced, KeysSound, NoTableWritten, CreatesPaid'
    PROVE  Keeps
<1> USE DEF NoTableWritten, paymentTables
<1>1. Balanced'
  <2>1. BalanceNeverExceeded'
    BY DEF Balanced, BalanceNeverExceeded, Unvoided, PaymentsOf, AmountSum
  <2>2. StatusHonest'
    BY DEF Balanced, StatusHonest, NeverPaid, DeriveSettlement, PaymentsOf, AmountSum
  <2>3. QED
    BY <2>1, <2>2 DEF Balanced, CreatesPaid
<1>2. KeysSound'
  BY DEF KeysSound, OnePaymentPerKey
<1>3. UNCHANGED <<Phases, Dues, Collections>>
  BY DEF Phases, Dues, Collections, Phase, Due, Collected, Confirmed, PaymentsOf, AmountSum
<1>4. QED
  BY <1>1, <1>2, <1>3, LedgerVars DEF Keeps

\* Every payment keeps the member who recorded it.
SameRecorders ==
    \A i \in DOMAIN payment : i \in DOMAIN payment' /\ payment'[i].recorder = payment[i].recorder

\* Deciding a payment is one of the steps Pays describes.
LEMMA Decides ==
    ASSUME Inv, NEW p \in DOMAIN payment, payment[p].status \in {"RECORDED", "DISPUTED"},
           NEW row \in PaymentRow, row.checkout = payment[p].checkout,
           row.amount = payment[p].amount, row.recorder = payment[p].recorder,
           payment' = [payment EXCEPT ![p] = row]
    PROVE  /\ Pays(p, payment[p].checkout)
           /\ p \in Payments
           /\ payment[p].checkout \in DOMAIN checkout
           /\ DOMAIN payment' = DOMAIN payment
           /\ SameRecorders
<1>1. /\ Touches(p, payment[p].checkout)
      /\ p \in Payments
      /\ payment[p].checkout \in DOMAIN checkout
      /\ DOMAIN payment' = DOMAIN payment
  BY DecideTouches
<1>2. payment'[p] = row /\ \A i \in DOMAIN payment \ {p} : payment'[i] = payment[i]
  OBVIOUS
<1>3. QED
  BY <1>1, <1>2 DEF Pays, SameRecorders

\* The four commands that decide a payment do no more than that.
LEMMA DecisionCommits ==
    ASSUME Inv, NEW r \in Requests,
           CommitVoidPayment(r) \/ CommitConfirm(r) \/ CommitDispute(r) \/ CommitResolve(r)
    PROVE  /\ \E p \in Payments : LET c == payment[p].checkout IN
                 c \in DOMAIN checkout /\ Pays(p, c) /\ Recalculate(payment', c)
           /\ DOMAIN payment' = DOMAIN payment
           /\ SameRecorders
           /\ idempotency' = idempotency
           /\ End(r)
<1> DEFINE q == inflight[r]
           p == q.payment
<1>1. CASE CommitVoidPayment(r)
  <2> DEFINE row == [payment[p] EXCEPT !.status = "VOIDED"]
  <2>1. p \in DOMAIN payment /\ payment[p] \in PaymentRow
    BY <1>1 DEF CommitVoidPayment, Is, Inv, TypeOK, InflightSound, IsTable
  <2>2. /\ row \in PaymentRow
        /\ row.checkout = payment[p].checkout
        /\ row.amount = payment[p].amount
        /\ row.recorder = payment[p].recorder
    BY <2>1 DEF PaymentRow
  <2>3. /\ payment[p].status = "RECORDED"
        /\ payment' = [payment EXCEPT ![p] = row]
        /\ Recalculate(payment', payment[p].checkout)
        /\ End(r) /\ idempotency' = idempotency
    BY <1>1 DEF CommitVoidPayment
  <2> HIDE DEF row, p
  <2>4. QED
    BY <2>1, <2>2, <2>3, Decides
<1>2. CASE CommitConfirm(r)
  <2> DEFINE row == [payment[p] EXCEPT !.status = "CONFIRMED", !.confirmer = q.member,
                                       !.override = q.override]
  <2>1. p \in DOMAIN payment /\ payment[p] \in PaymentRow /\ q \in Request /\ q.op = "confirm"
    BY <1>2 DEF CommitConfirm, Is, Inv, TypeOK, InflightSound, IsTable
  <2>2. q.member \in Members /\ q.override \in BOOLEAN
    BY <2>1, RequestFields
  <2>3. /\ row \in PaymentRow
        /\ row.checkout = payment[p].checkout
        /\ row.amount = payment[p].amount
        /\ row.recorder = payment[p].recorder
    BY <2>1, <2>2 DEF PaymentRow
  <2>4. /\ payment[p].status = "RECORDED"
        /\ payment' = [payment EXCEPT ![p] = row]
        /\ Recalculate(payment', payment[p].checkout)
        /\ End(r) /\ idempotency' = idempotency
    BY <1>2 DEF CommitConfirm
  <2> HIDE DEF row, p
  <2>5. QED
    BY <2>1, <2>3, <2>4, Decides
<1>3. CASE CommitDispute(r)
  <2> DEFINE row == [payment[p] EXCEPT !.status = "DISPUTED"]
  <2>1. p \in DOMAIN payment /\ payment[p] \in PaymentRow
    BY <1>3 DEF CommitDispute, Is, Inv, TypeOK, InflightSound, IsTable
  <2>2. /\ row \in PaymentRow
        /\ row.checkout = payment[p].checkout
        /\ row.amount = payment[p].amount
        /\ row.recorder = payment[p].recorder
    BY <2>1 DEF PaymentRow
  <2>3. /\ payment[p].status = "RECORDED"
        /\ payment' = [payment EXCEPT ![p] = row]
        /\ Recalculate(payment', payment[p].checkout)
        /\ End(r) /\ idempotency' = idempotency
    BY <1>3 DEF CommitDispute
  <2> HIDE DEF row, p
  <2>4. QED
    BY <2>1, <2>2, <2>3, Decides
<1>4. CASE CommitResolve(r)
  <2> DEFINE row == IF q.confirming
                    THEN [payment[p] EXCEPT !.status = "CONFIRMED", !.confirmer = q.member]
                    ELSE [payment[p] EXCEPT !.status = "VOIDED"]
  <2>1. /\ p \in DOMAIN payment
        /\ payment[p] \in PaymentRow
        /\ q \in Request
        /\ q.op = "resolve"
    BY <1>4 DEF CommitResolve, Is, Inv, TypeOK, InflightSound, IsTable
  <2>2. q.member \in Members
    BY <2>1, RequestFields
  <2>3. /\ row \in PaymentRow
        /\ row.checkout = payment[p].checkout
        /\ row.amount = payment[p].amount
        /\ row.recorder = payment[p].recorder
    <3>1. CASE q.confirming
      BY <2>1, <2>2, <3>1 DEF PaymentRow
    <3>2. CASE ~ q.confirming
      BY <2>1, <3>2 DEF PaymentRow
    <3>3. QED
      BY <3>1, <3>2
  <2>4. /\ payment[p].status = "DISPUTED"
        /\ Recalculate(payment', payment[p].checkout)
        /\ End(r) /\ idempotency' = idempotency
    BY <1>4 DEF CommitResolve
  <2>5. payment' = [payment EXCEPT ![p] = row]
    BY <1>4 DEF CommitResolve
  <2> HIDE DEF row, p
  <2>6. QED
    BY <2>1, <2>3, <2>4, <2>5, Decides
<1>5. QED
  BY <1>1, <1>2, <1>3, <1>4

\* Recording or deciding a payment keeps every balance and status, and is a
\* collection of the ledger or nothing it sees.
LEMMA PaysKeeps ==
    ASSUME Inv, Inv', Balanced, NEW c \in DOMAIN checkout, NEW p \in Payments, Pays(p, c),
           Recalculate(payment', c), NEW r, End(r)
    PROVE  Balanced' /\ [Ledger!Next]_(Ledger!ledger)
<1>1. /\ IsTable(checkout, Checkouts, CheckoutRow)
      /\ TransactionsTyped
      /\ IsTable(payment', Payments, PaymentRow)
      /\ IsTable(inflight, Requests, Request)
      /\ c \in Checkouts
  BY DEF Inv, TypeOK, IsTable, Pays, Touches
<1>2. /\ DOMAIN checkout' = DOMAIN checkout
      /\ \A d \in DOMAIN checkout \ {c} : checkout'[d] = checkout[d]
      /\ checkout'[c].total = checkout[c].total
      /\ checkout[c].status \notin ActiveStatuses => checkout'[c] = checkout[c]
  BY <1>1, RecalculateStep
<1>3. /\ IsFiniteSet(DOMAIN payment')
      /\ AmountSum(payment', Unvoided(payment', c)) <= checkout[c].total
      /\ checkout[c].status \in ActiveStatuses =>
            /\ checkout'[c].status \in ActiveStatuses \cup {"SETTLED"}
            /\ checkout'[c].status \in ActiveStatuses =>
                  checkout'[c].status = DeriveSettlement(payment', c, checkout[c].total)
            /\ checkout'[c].status \in ActiveStatuses /\ checkout[c].total > 0 =>
                  Collected(c)' < checkout[c].total
            /\ checkout'[c].status = "SETTLED" <=>
                  payment'[p].status = "CONFIRMED" /\ Collected(c)' = checkout[c].total
      /\ Collected(c) \in Nat
      /\ Collected(c)' \in Nat
      /\ Collected(c)' <= checkout[c].total
      /\ IF payment'[p].status = "CONFIRMED" THEN Collected(c) < Collected(c)'
         ELSE Collected(c)' = Collected(c)
  BY PaysStep
<1>4. \A d \in Checkouts \ {c} : \A statuses :
         /\ PaymentsOf(payment', d, statuses) = PaymentsOf(payment, d, statuses)
         /\ AmountSum(payment', PaymentsOf(payment', d, statuses))
               = AmountSum(payment, PaymentsOf(payment, d, statuses))
  BY OtherCheckoutsUntouched DEF Pays
<1>5. BalanceNeverExceeded'
  <2>1. ASSUME NEW d \in DOMAIN checkout'
        PROVE  AmountSum(payment', Unvoided(payment', d)) <= checkout'[d].total
    <3>1. CASE d = c
      BY <1>2, <1>3, <3>1
    <3>2. CASE d # c
      <4>1. d \in DOMAIN checkout /\ d \in Checkouts /\ checkout'[d] = checkout[d]
        BY <1>1, <1>2, <3>2 DEF IsTable
      <4>2. AmountSum(payment, Unvoided(payment, d)) <= checkout[d].total
        BY <4>1 DEF Balanced, BalanceNeverExceeded
      <4>3. QED
        BY <1>4, <3>2, <4>1, <4>2 DEF Unvoided
    <3>3. QED
      BY <3>1, <3>2
  <2>2. QED
    BY <2>1 DEF BalanceNeverExceeded
<1>6. StatusHonest'
  <2>1. ASSUME NEW d \in DOMAIN checkout', checkout'[d].status \in ActiveStatuses
        PROVE  /\ checkout'[d].status = IF NeverPaid(d)' THEN "OPEN"
                                       ELSE DeriveSettlement(payment', d, checkout'[d].total)
               /\ checkout'[d].total > 0 =>
                     AmountSum(payment', PaymentsOf(payment', d, {"CONFIRMED"})) < checkout'[d].total
    <3>1. CASE d = c
      <4>1. checkout[c].status \in ActiveStatuses
        BY <1>2, <2>1, <3>1
      <4>2. ~NeverPaid(c)'
        BY DEF Pays, Touches, NeverPaid
      <4>3. QED
        BY <1>2, <1>3, <2>1, <3>1, <4>1, <4>2 DEF Confirmed, Collected
    <3>2. CASE d # c
      <4>1. d \in DOMAIN checkout /\ d \in Checkouts /\ checkout'[d] = checkout[d]
        BY <1>1, <1>2, <3>2 DEF IsTable
      <4>2. /\ checkout[d].status = IF NeverPaid(d) THEN "OPEN"
                                    ELSE DeriveSettlement(payment, d, checkout[d].total)
            /\ checkout[d].total > 0 =>
                  AmountSum(payment, PaymentsOf(payment, d, {"CONFIRMED"})) < checkout[d].total
        BY <2>1, <4>1 DEF Balanced, StatusHonest
      <4>3. NeverPaid(d)' <=> NeverPaid(d)
        BY <3>2 DEF NeverPaid, Pays, Touches
      <4>4. DeriveSettlement(payment', d, checkout[d].total)
               = DeriveSettlement(payment, d, checkout[d].total)
        BY <1>4, <3>2, <4>1 DEF DeriveSettlement
      <4>5. QED
        BY <1>4, <3>2, <4>1, <4>2, <4>3, <4>4
    <3>3. QED
      BY <3>1, <3>2
  <2>2. QED
    BY <2>1 DEF StatusHonest
<1>7. Balanced'
  <2>1. CreatesPaid'
    BY <1>1, EndCreates DEF Balanced, CreatesPaid
  <2>2. QED
    BY <1>3, <1>5, <1>6, <2>1 DEF Balanced, CreatesPaid
<1>8. \A d \in Checkouts : Due(d)' = Due(d)
  BY <1>2 DEF Due
<1>9. \A d \in Checkouts \ {c} : Phase(d)' = Phase(d) /\ Collected(d)' = Collected(d)
  BY <1>2, <1>4 DEF Phase, Collected, Confirmed
<1>10. Phase(c) = "collecting" \/ Phase(c) = "cancelled"
  <2>1. c \notin DOMAIN transaction \/ p \notin DOMAIN payment
    <3>1. SUFFICES ASSUME p \in DOMAIN payment, c \in DOMAIN transaction PROVE FALSE
      OBVIOUS
    <3>2. p \in Unvoided(payment, c) /\ p \notin PaymentsOf(payment, c, {"CONFIRMED"})
      BY <3>1 DEF Pays, Touches, Unvoided, PaymentsOf
    <3>3. QED
      BY <3>1, <3>2 DEF Inv, SettledExactlyPaid
  <2>2. checkout[c].status # "SETTLED"
    <3>1. p \notin DOMAIN payment => checkout[c].status \in ActiveStatuses
      BY DEF Pays, Touches
    <3>2. checkout[c].status = "SETTLED" <=> c \in DOMAIN transaction
      BY DEF Inv, SettledExactlyPaid
    <3>3. QED
      BY <2>1, <3>1, <3>2 DEF ActiveStatuses
  <2>3. checkout[c].status \in ActiveStatuses \cup {"SETTLED", "VOIDED"}
    BY <1>1 DEF IsTable, CheckoutRow
  <2>4. QED
    BY <2>2, <2>3, StatusPhases DEF Phase
<1>11. /\ Phase(c) = "collecting" <=> checkout[c].status \in ActiveStatuses
       /\ checkout'[c].status \in ActiveStatuses => Phase(c)' = "collecting"
       /\ checkout'[c].status = "SETTLED" => Phase(c)' = "settled"
  <2>1. checkout[c].status \in ActiveStatuses \cup {"SETTLED", "VOIDED"}
    BY <1>1 DEF IsTable, CheckoutRow
  <2>2. QED
    BY <1>2, <2>1, StatusPhases DEF Phase
<1>12. Phase(c) = "cancelled" => Phase(c)' = "cancelled"
  BY <1>2, <1>11 DEF Phase
<1>13. CASE payment'[p].status = "CONFIRMED"
  <2>1. Collections' \in [Checkouts -> Nat]
    <3>1. ASSUME NEW d \in Checkouts PROVE Collected(d)' \in Nat
      <4>1. PaymentsOf(payment', d, {"CONFIRMED"}) \in SUBSET DOMAIN payment'
        BY DEF PaymentsOf
      <4>2. QED
        BY <1>1, <1>3, <4>1, AmountPart DEF Collected, Confirmed
    <3>2. QED
      BY <3>1 DEF Collections
  <2>2. \A d \in Checkouts \ {c} : Collections'[d] = Collections[d]
    BY <1>9 DEF Collections
  <2>3. Collections[c] < Collections'[c] /\ Collections'[c] <= Dues[c]
    BY <1>1, <1>3, <1>13 DEF Collections, Dues, Due
  <2>4. Dues' = Dues
    BY <1>8 DEF Dues
  <2>5. CASE Phase(c) = "collecting"
    <3>1. Phase(c)' = IF Collected(c)' = Due(c) THEN "settled" ELSE "collecting"
      BY <1>3, <1>11, <1>13, <2>5 DEF Due
    <3>2. Phases' = [Phases EXCEPT ![c] = IF Collections'[c] = Dues[c] THEN "settled" ELSE @]
      BY <1>1, <1>9, <2>5, <3>1 DEF Phases, Collections, Dues
    <3>3. Phases[c] = "collecting"
      BY <1>1, <2>5 DEF Phases
    <3>4. Ledger!Next
      BY <1>1, <2>1, <2>2, <2>3, <2>4, <3>2, <3>3, LedgerCollect
    <3>5. QED
      BY <1>7, <3>4
  <2>6. CASE Phase(c) = "cancelled"
    <3>1. Phases' = Phases
      BY <1>9, <1>12, <2>6 DEF Phases
    <3>2. Phases[c] = "cancelled"
      BY <1>1, <2>6 DEF Phases
    <3>3. Ledger!Next
      BY <1>1, <2>1, <2>2, <2>3, <2>4, <3>1, <3>2, LedgerCollect
    <3>4. QED
      BY <1>7, <3>3
  <2>7. QED
    BY <1>10, <2>5, <2>6
<1>14. CASE payment'[p].status # "CONFIRMED"
  <2>1. Phase(c)' = Phase(c)
    BY <1>3, <1>10, <1>11, <1>12, <1>14
  <2>2. UNCHANGED <<Phases, Dues, Collections>>
    BY <1>3, <1>8, <1>9, <1>14, <2>1 DEF Phases, Dues, Collections
  <2>3. QED
    BY <1>7, <2>2, LedgerVars
<1>15. QED
  BY <1>13, <1>14

\* Keys stay sound where no key and no payment is new.
LEMMA KeysKept ==
    ASSUME Inv, KeysSound, DOMAIN payment' = DOMAIN payment, SameRecorders,
           idempotency' = idempotency
    PROVE  KeysSound'
  BY DEF KeysSound, OnePaymentPerKey, SameRecorders

\* Voiding, confirming, disputing and resolving.
LEMMA DecisionKeeps ==
    ASSUME Inv, Inv', Balanced, KeysSound, NEW r \in Requests,
           CommitVoidPayment(r) \/ CommitConfirm(r) \/ CommitDispute(r) \/ CommitResolve(r)
    PROVE  Keeps
<1>1. /\ \E p \in Payments : LET c == payment[p].checkout IN
            c \in DOMAIN checkout /\ Pays(p, c) /\ Recalculate(payment', c)
      /\ DOMAIN payment' = DOMAIN payment
      /\ SameRecorders
      /\ idempotency' = idempotency
      /\ End(r)
  BY DecisionCommits
<1>2. Balanced' /\ [Ledger!Next]_(Ledger!ledger)
  BY <1>1, PaysKeeps
<1>3. KeysSound'
  BY <1>1, KeysKept
<1>4. QED
  BY <1>2, <1>3 DEF Keeps

\* Recording a payment, under a key that no payment has.
LEMMA RecordKeeps ==
    ASSUME Inv, Inv', Balanced, KeysSound, NEW r \in Requests, NEW p \in Payments,
           CommitRecord(r, p)
    PROVE  Keeps
<1> DEFINE q == inflight[r]
           c == q.checkout
           key == <<q.member, q.key>>
           row == [checkout |-> c, amount |-> q.amount, status |-> "RECORDED",
                   recorder |-> q.member, assignee |-> checkout[c].operator,
                   confirmer |-> NoMember, override |-> FALSE]
<1>1. q \in Request /\ q.op = "record" /\ c \in DOMAIN checkout /\ c \in Checkouts
  BY DEF CommitRecord, Is, Inv, TypeOK, InflightSound, IsTable
<1>2. /\ p \notin DOMAIN payment
      /\ checkout[c].status \in ActiveStatuses
      /\ HasRoom(q)
      /\ key \notin DOMAIN idempotency
      /\ payment' = Insert(payment, p, row)
      /\ idempotency' = Insert(idempotency, key, p)
      /\ Recalculate(payment', c)
      /\ End(r)
  BY DEF CommitRecord, KeyUnused
<1>3. row.checkout = c /\ row.status = "RECORDED" /\ row.amount = q.amount /\ row.recorder = q.member
  OBVIOUS
<1> HIDE DEF row
<1>4. /\ DOMAIN payment' = DOMAIN payment \cup {p}
      /\ payment'[p] = row
      /\ \A i \in DOMAIN payment : payment'[i] = payment[i]
  BY <1>2 DEF Insert
<1>5. Pays(p, c)
  <2>1. Touches(p, c)
    BY <1>2, <1>3, <1>4 DEF Touches, Inv, TypeOK
  <2>2. AmountSum(payment, Unvoided(payment, c)) + payment'[p].amount <= checkout[c].total
    BY <1>2, <1>3, <1>4 DEF HasRoom
  <2>3. QED
    BY <1>2, <2>1, <2>2 DEF Pays
<1>6. Balanced' /\ [Ledger!Next]_(Ledger!ledger)
  BY <1>1, <1>2, <1>5, PaysKeeps
<1>7. KeysSound'
  <2>1. /\ DOMAIN idempotency' = DOMAIN idempotency \cup {key}
        /\ idempotency'[key] = p
        /\ \A k \in DOMAIN idempotency : idempotency'[k] = idempotency[k] /\ idempotency[k] # p
    BY <1>2 DEF Insert, KeysSound
  <2>2. key[1] = payment'[p].recorder
    BY <1>3, <1>4
  <2> HIDE DEF key
  <2>3. \A k \in DOMAIN idempotency' : idempotency'[k] \in DOMAIN payment'
    BY <1>4, <2>1 DEF KeysSound
  <2>4. ASSUME NEW i \in DOMAIN payment'
        PROVE  /\ \E k \in DOMAIN idempotency' : k[1] = payment'[i].recorder /\ idempotency'[k] = i
               /\ \A k, l \in DOMAIN idempotency' :
                     idempotency'[k] = i /\ idempotency'[l] = i => k = l
    <3>1. CASE i = p
      BY <2>1, <2>2, <3>1
    <3>2. CASE i # p
      <4>1. i \in DOMAIN payment /\ payment'[i] = payment[i]
        BY <1>4, <3>2
      <4>2. /\ \E k \in DOMAIN idempotency : k[1] = payment[i].recorder /\ idempotency[k] = i
            /\ \A k, l \in DOMAIN idempotency : idempotency[k] = i /\ idempotency[l] = i => k = l
        BY <4>1 DEF KeysSound, OnePaymentPerKey
      <4>3. QED
        BY <2>1, <3>2, <4>1, <4>2
    <3>3. QED
      BY <3>1, <3>2
  <2>5. QED
    BY <2>3, <2>4 DEF KeysSound, OnePaymentPerKey
<1>8. QED
  BY <1>6, <1>7 DEF Keeps

\* A step that writes only checkout c, while nothing is unvoided on it or to
\* void it, keeps balances and statuses.
LEMMA CheckoutKeeps ==
    ASSUME Inv, Inv', Balanced, KeysSound, NEW c \in Checkouts,
           DOMAIN checkout' = DOMAIN checkout \cup {c},
           \A d \in DOMAIN checkout \ {c} : checkout'[d] = checkout[d],
           UNCHANGED paymentTables, NEW r, End(r),
           \/ checkout'[c].status = "OPEN" /\ NeverPaid(c)
           \/ /\ checkout'[c].status = "VOIDED" /\ c \in DOMAIN checkout
              /\ checkout'[c].total = checkout[c].total
    PROVE  /\ Balanced' /\ KeysSound'
           /\ Collections' = Collections
           /\ NeverPaid(c) => Collected(c) = 0
           /\ Dues' \in [Checkouts -> Nat]
           /\ \A d \in Checkouts \ {c} : Dues'[d] = Dues[d] /\ Phases'[d] = Phases[d]
           /\ Phases'[c] = IF checkout'[c].status = "OPEN" THEN "collecting" ELSE "cancelled"
<1> USE DEF paymentTables
<1>1. IsTable(checkout', Checkouts, CheckoutRow)
  BY DEF Inv, TypeOK
<1>2. NeverPaid(c) => \A statuses : PaymentsOf(payment, c, statuses) = {}
  BY DEF NeverPaid, PaymentsOf
<1>3. NeverPaid(c) => AmountSum(payment, Unvoided(payment, c)) = 0 /\ Collected(c) = 0
  BY <1>2, AmountNone DEF Unvoided, Collected, Confirmed
<1>4. BalanceNeverExceeded'
  <2>1. ASSUME NEW d \in DOMAIN checkout'
        PROVE  AmountSum(payment, Unvoided(payment, d)) <= checkout'[d].total
    <3>1. CASE d \in DOMAIN checkout /\ checkout'[d].total = checkout[d].total
      BY <3>1 DEF Balanced, BalanceNeverExceeded
    <3>2. CASE d = c /\ NeverPaid(c)
      <4>1. checkout'[c].total \in Nat
        BY <1>1 DEF IsTable, CheckoutRow
      <4>2. QED
        BY <1>3, <3>2, <4>1
    <3>3. QED
      BY <3>1, <3>2
  <2>2. QED
    BY <2>1 DEF BalanceNeverExceeded, Unvoided, PaymentsOf, AmountSum
<1>5. StatusHonest'
  <2>1. ASSUME NEW d \in DOMAIN checkout', checkout'[d].status \in ActiveStatuses
        PROVE  /\ checkout'[d].status = IF NeverPaid(d) THEN "OPEN"
                                       ELSE DeriveSettlement(payment, d, checkout'[d].total)
               /\ checkout'[d].total > 0 =>
                     AmountSum(payment, PaymentsOf(payment, d, {"CONFIRMED"})) < checkout'[d].total
    <3>1. CASE d = c
      <4>1. checkout'[c].status = "OPEN" /\ NeverPaid(c)
        BY <2>1, <3>1 DEF ActiveStatuses
      <4>2. QED
        BY <1>3, <3>1, <4>1 DEF Collected, Confirmed
    <3>2. CASE d # c
      BY <2>1, <3>2 DEF Balanced, StatusHonest
    <3>3. QED
      BY <3>1, <3>2
  <2>2. QED
    BY <2>1 DEF StatusHonest, NeverPaid, DeriveSettlement, PaymentsOf, AmountSum
<1>6. Balanced'
  <2>1. CreatesPaid'
    BY EndCreates DEF Inv, TypeOK, Balanced, CreatesPaid
  <2>2. QED
    BY <1>4, <1>5, <2>1 DEF Balanced, CreatesPaid
<1>7. KeysSound'
  BY DEF KeysSound, OnePaymentPerKey
<1>8. Collections' = Collections
  BY DEF Collections, Collected, Confirmed, PaymentsOf, AmountSum
<1>9. Dues' \in [Checkouts -> Nat]
  BY <1>1 DEF Dues, Due, IsTable, CheckoutRow
<1>10. \A d \in Checkouts \ {c} : Dues'[d] = Dues[d] /\ Phases'[d] = Phases[d]
  BY DEF Dues, Due, Phases, Phase
<1>11. Phases'[c] = IF checkout'[c].status = "OPEN" THEN "collecting" ELSE "cancelled"
  BY StatusPhases DEF Phases, Phase, ActiveStatuses
<1>12. QED
  BY <1>3, <1>6, <1>7, <1>8, <1>9, <1>10, <1>11

\* Creating a checkout opens it in the ledger, or changes nothing.
LEMMA CreateKeeps ==
    ASSUME Inv, Inv', Balanced, KeysSound, NEW r \in Requests, CommitCreate(r)
    PROVE  Keeps
<1> DEFINE q == inflight[r]
           c == q.checkout
           row == [status |-> "OPEN", version |-> 1, subtotal |-> q.subtotal,
                   adjustment |-> 0, total |-> q.subtotal, operator |-> q.operator]
<1>1. /\ q \in Request /\ q.op = "create" /\ c \in Checkouts /\ q.subtotal > 0
      /\ End(r) /\ UNCHANGED <<transaction, paymentTables>>
  BY RequestFields DEF CommitCreate, Is, Inv, TypeOK, IsTable, Balanced
<1>2. CASE c \in DOMAIN checkout
  <2>1. NoTableWritten
    BY <1>1, <1>2 DEF CommitCreate, NoTableWritten
  <2>2. CreatesPaid'
    BY <1>1, EndCreates DEF Inv, TypeOK, Balanced, CreatesPaid
  <2>3. QED
    BY <2>1, <2>2, ReadKeeps
<1>3. CASE c \notin DOMAIN checkout
  <2>1. checkout' = Insert(checkout, c, row)
    BY <1>3 DEF CommitCreate
  <2>2. row.status = "OPEN" /\ row.total = q.subtotal
    OBVIOUS
  <2> HIDE DEF row
  <2>3. /\ DOMAIN checkout' = DOMAIN checkout \cup {c}
        /\ \A d \in DOMAIN checkout \ {c} : checkout'[d] = checkout[d]
        /\ checkout'[c].status = "OPEN" /\ checkout'[c].total > 0
    BY <1>1, <2>1, <2>2 DEF Insert
  <2>4. NeverPaid(c)
    BY <1>3 DEF NeverPaid, Inv, TypeOK
  <2>5. /\ Balanced' /\ KeysSound'
        /\ Collections' = Collections
        /\ Dues' \in [Checkouts -> Nat]
        /\ \A d \in Checkouts \ {c} : Dues'[d] = Dues[d] /\ Phases'[d] = Phases[d]
        /\ Phases'[c] = "collecting"
    BY <1>1, <2>3, <2>4, CheckoutKeeps
  <2>6. Phases[c] = "absent" /\ Phases' = [Phases EXCEPT ![c] = "collecting"] /\ Dues'[c] > 0
    BY <1>1, <1>3, <2>3, <2>5 DEF Phases, Phase, Dues, Due
  <2>7. Ledger!Next
    BY <1>1, <2>5, <2>6, LedgerOpen
  <2>8. QED
    BY <1>1, <2>5, <2>7 DEF Keeps
<1>4. QED
  BY <1>2, <1>3

\* An adjustment reprices: SeenIsCurrent says that nothing was paid.
LEMMA AdjustKeeps ==
    ASSUME Inv, Inv', Balanced, KeysSound, NEW r \in Requests, CommitAdjust(r)
    PROVE  Keeps
<1> DEFINE q == inflight[r]
           c == q.checkout
<1>1. c \in DOMAIN checkout /\ c \in Checkouts /\ q.seen = checkout[c]
  BY SeenIsCurrent DEF CommitAdjust, Is
<1>2. AdjustSound(q) /\ q.counted /\ StillCurrent(c, q.seen)
  BY DEF CommitAdjust, Is, Inv, InflightSound
<1>3. checkout[c].status = "OPEN" /\ NeverPaid(c)
  BY <1>1, <1>2 DEF AdjustSound
<1>4. /\ checkout' = [checkout EXCEPT
              ![c].adjustment = q.seen.adjustment + q.delta,
              ![c].total = q.seen.subtotal + q.seen.adjustment + q.delta,
              ![c].version = @ + 1]
      /\ End(r)
      /\ UNCHANGED <<transaction, paymentTables>>
  BY DEF CommitAdjust
<1>5. /\ DOMAIN checkout' = DOMAIN checkout \cup {c}
      /\ \A d \in DOMAIN checkout \ {c} : checkout'[d] = checkout[d]
      /\ checkout'[c].status = "OPEN"
  <2>1. checkout[c] \in CheckoutRow
    BY <1>1 DEF Inv, TypeOK, IsTable
  <2>2. checkout'[c].status = checkout[c].status
    BY <1>1, <1>4, <2>1 DEF CheckoutRow
  <2> HIDE DEF q, c
  <2>3. QED
    BY <1>1, <1>3, <1>4, <2>2
<1> HIDE DEF q, c
<1>6. /\ Balanced' /\ KeysSound'
      /\ Collections' = Collections
      /\ Collected(c) = 0
      /\ Dues' \in [Checkouts -> Nat]
      /\ \A d \in Checkouts \ {c} : Dues'[d] = Dues[d] /\ Phases'[d] = Phases[d]
      /\ Phases'[c] = "collecting"
  BY <1>1, <1>3, <1>4, <1>5, CheckoutKeeps
<1>7. Phases[c] = "collecting" /\ Collections[c] = 0
  BY <1>1, <1>3, <1>6, StatusPhases DEF Phases, Phase, Collections, ActiveStatuses
<1>8. Phases' = Phases
  BY <1>6, <1>7 DEF Phases
<1>9. Ledger!Next
  BY <1>1, <1>6, <1>7, <1>8, LedgerReprice
<1>10. QED
  BY <1>1, <1>6, <1>9 DEF Keeps

\* Voiding a checkout cancels it, whatever was collected.
LEMMA VoidKeeps ==
    ASSUME Inv, Inv', Balanced, KeysSound, NEW r \in Requests, CommitVoid(r)
    PROVE  Keeps
<1> DEFINE q == inflight[r]
           c == q.checkout
<1>1. /\ c \in DOMAIN checkout
      /\ c \in Checkouts
      /\ checkout[c].status \in ActiveStatuses
  BY SeenIsCurrent DEF CommitVoid, Is
<1>2. /\ checkout' = [checkout EXCEPT ![c].status = "VOIDED", ![c].version = @ + 1]
      /\ End(r)
      /\ UNCHANGED <<adjusted, transaction, paymentTables>>
  BY DEF CommitVoid
<1>3. /\ DOMAIN checkout' = DOMAIN checkout \cup {c}
      /\ checkout'[c].status = "VOIDED"
      /\ checkout'[c].total = checkout[c].total
      /\ \A d \in DOMAIN checkout \ {c} : checkout'[d] = checkout[d]
  <2>1. IsTable(checkout, Checkouts, CheckoutRow)
    BY DEF Inv, TypeOK
  <2> HIDE DEF q, c
  <2>2. /\ DOMAIN checkout' = DOMAIN checkout
        /\ checkout'[c].status = "VOIDED"
        /\ checkout'[c].total = checkout[c].total
        /\ \A d \in DOMAIN checkout \ {c} : checkout'[d] = checkout[d]
    BY <1>1, <1>2, <2>1, StatusStep
  <2>3. QED
    BY <1>1, <2>2
<1> HIDE DEF q, c
<1>4. /\ Balanced' /\ KeysSound'
      /\ Collections' = Collections
      /\ \A d \in Checkouts \ {c} : Dues'[d] = Dues[d] /\ Phases'[d] = Phases[d]
      /\ Phases'[c] = "cancelled"
  BY <1>1, <1>2, <1>3, CheckoutKeeps
<1>5. Phases[c] = "collecting"
  BY <1>1, StatusPhases DEF Phases, Phase
<1>6. Phases' = [Phases EXCEPT ![c] = "cancelled"] /\ Dues' = Dues
  <2>1. Dues'[c] = Dues[c]
    BY <1>1, <1>3 DEF Dues, Due
  <2>2. QED
    BY <1>1, <1>4, <2>1 DEF Phases, Dues
<1>7. Ledger!Next
  BY <1>1, <1>4, <1>5, <1>6, LedgerCancel
<1>8. QED
  BY <1>1, <1>4, <1>7 DEF Keeps

\* Requests that begin only read.
LEMMA BeginKeeps ==
    ASSUME Inv, Balanced, KeysSound, NEW r \in Requests,
           \/ \E c \in Checkouts, s \in Subtotals, m \in Staff : BeginCreate(r, c, s, m)
           \/ \E c \in Checkouts, d \in Deltas : BeginAdjust(r, c, d)
           \/ \E c \in Checkouts : BeginVoid(r, c)
           \/ \E c \in Checkouts, m \in Members, k \in Keys, a \in Amounts : BeginRecord(r, c, m, k, a)
           \/ \E p \in Payments : BeginVoidPayment(r, p)
           \/ \E p \in Payments, m \in Members : BeginConfirm(r, p, m)
           \/ \E p \in Payments, m \in Members : BeginDispute(r, p, m)
           \/ \E p \in Payments, m \in Members, b \in BOOLEAN : BeginResolve(r, p, m, b)
    PROVE  Keeps
<1>1. NoTableWritten /\ \E q : Begin(r, q) /\ (q.op = "create" => q.subtotal > 0)
  <2>1. CASE \E c \in Checkouts, s \in Subtotals, m \in Staff : BeginCreate(r, c, s, m)
    <3>1. PICK c \in Checkouts, s \in Subtotals, m \in Staff : BeginCreate(r, c, s, m)
      BY <2>1
    <3>2. s \in Nat \ {0}
      BY <3>1, MoneyAssumption DEF BeginCreate
    <3>3. QED
      BY <3>1, <3>2 DEF BeginCreate, NoTableWritten
  <2>2. CASE \E c \in Checkouts, d \in Deltas : BeginAdjust(r, c, d)
    BY <2>2 DEF BeginAdjust, NoTableWritten
  <2>3. CASE \E c \in Checkouts : BeginVoid(r, c)
    BY <2>3 DEF BeginVoid, NoTableWritten
  <2>4. CASE \E c \in Checkouts, m \in Members, k \in Keys, a \in Amounts : BeginRecord(r, c, m, k, a)
    BY <2>4 DEF BeginRecord, NoTableWritten
  <2>5. CASE \E p \in Payments : BeginVoidPayment(r, p)
    BY <2>5 DEF BeginVoidPayment, NoTableWritten
  <2>6. CASE \E p \in Payments, m \in Members : BeginConfirm(r, p, m)
    BY <2>6 DEF BeginConfirm, NoTableWritten
  <2>7. CASE \E p \in Payments, m \in Members : BeginDispute(r, p, m)
    BY <2>7 DEF BeginDispute, NoTableWritten
  <2>8. CASE \E p \in Payments, m \in Members, b \in BOOLEAN : BeginResolve(r, p, m, b)
    BY <2>8 DEF BeginResolve, NoTableWritten
  <2>9. QED
    BY <2>1, <2>2, <2>3, <2>4, <2>5, <2>6, <2>7, <2>8
<1>2. CreatesPaid'
  BY <1>1, BeginCreates DEF Balanced, CreatesPaid
<1>3. QED
  BY <1>1, <1>2, ReadKeeps

\* The second read of an adjustment.
LEMMA CountKeeps ==
    ASSUME Inv, Balanced, KeysSound, NEW r \in Requests, CountPayments(r)
    PROVE  Keeps
<1>1. NoTableWritten /\ inflight' = [inflight EXCEPT ![r].counted = TRUE]
      /\ r \in DOMAIN inflight /\ inflight[r].op = "adjust"
  BY DEF CountPayments, NoTableWritten, Is
<1>2. inflight[r] \in Request
  BY <1>1 DEF Inv, TypeOK, IsTable
<1>3. inflight'[r].op = "adjust"
  BY <1>1, <1>2 DEF Request
<1>4. CreatesPaid'
  BY <1>1, <1>3 DEF Balanced, CreatesPaid
<1>5. QED
  BY <1>1, <1>4, ReadKeeps

\* Every step.
LEMMA StepKeeps == Inv /\ Inv' /\ Balanced /\ KeysSound /\ [Next]_vars => Keeps
<1> SUFFICES ASSUME Inv, Inv', Balanced, KeysSound, [Next]_vars
             PROVE  Keeps
  OBVIOUS
<1>1. ASSUME NEW r \in Requests, CheckoutCommand(r)
      PROVE  Keeps
  BY <1>1, BeginKeeps, CreateKeeps, CountKeeps, AdjustKeeps, VoidKeeps DEF CheckoutCommand
<1>2. ASSUME NEW r \in Requests, PaymentCommand(r)
      PROVE  Keeps
  BY <1>2, BeginKeeps, RecordKeeps, DecisionKeeps DEF PaymentCommand
<1>3. ASSUME NEW r \in Requests, Abandon(r)
      PROVE  Keeps
  <2>1. NoTableWritten /\ End(r)
    BY <1>3 DEF Abandon, NoTableWritten
  <2>2. CreatesPaid'
    BY <2>1, EndCreates DEF Inv, TypeOK, Balanced, CreatesPaid
  <2>3. QED
    BY <2>1, <2>2, ReadKeeps
<1>4. CASE UNCHANGED vars
  <2>1. NoTableWritten /\ CreatesPaid'
    BY <1>4 DEF vars, NoTableWritten, paymentTables, Balanced, CreatesPaid
  <2>2. QED
    BY <2>1, ReadKeeps
<1>5. QED
  BY <1>1, <1>2, <1>3, <1>4 DEF Next

\* The empty database.
LEMMA InitKeeps == Init => Balanced /\ KeysSound /\ Ledger!Init
<1> SUFFICES ASSUME Init PROVE Balanced /\ KeysSound /\ Ledger!Init
  OBVIOUS
<1>1. DOMAIN payment = {} /\ DOMAIN checkout = {} /\ DOMAIN inflight = {} /\ DOMAIN idempotency = {}
  BY DEF Init
<1>2. Balanced
  BY <1>1, FS_EmptySet DEF Balanced, BalanceNeverExceeded, StatusHonest
<1>3. KeysSound
  BY <1>1 DEF KeysSound, OnePaymentPerKey
<1>4. \A c \in Checkouts : Collected(c) = 0
  <2>1. \A c \in Checkouts : Confirmed(c) = {}
    BY <1>1 DEF Confirmed, PaymentsOf
  <2>2. QED
    BY <2>1, AmountNone DEF Collected
<1>5. Ledger!Init
  BY <1>1, <1>4, LedgerVars DEF Phases, Phase, Dues, Due, Collections
<1>6. QED
  BY <1>2, <1>3, <1>5

\* The whole invariant, of every reachable state.
LEMMA BalancedAlways == Spec => [](Inv /\ Balanced /\ KeysSound)
<1>1. Inv /\ Balanced /\ KeysSound /\ [Next]_vars => (Inv /\ Balanced /\ KeysSound)'
  BY StepKeepsInv, StepKeeps DEF Keeps
<1>2. QED
  BY <1>1, InitKeepsInv, InitKeeps, PTL DEF Spec

\* No checkout is ever paid more than its total, its status is the one its
\* payments imply, and an active checkout is never paid in full - however records,
\* confirmations, disputes, voids and adjustments interleave.
THEOREM BalanceIsHonest == Spec => []BalanceHonest
<1>1. Inv /\ Balanced => BalanceHonest
  BY DEF Inv, Balanced, BalanceHonest
<1>2. QED
  BY <1>1, BalancedAlways, PTL

\* A key of a member stands for one payment and every payment has its key: a
\* duplicated request is never paid twice.
THEOREM KeysPayOnce == Spec => []OnePaymentPerKey
<1>1. KeysSound => OnePaymentPerKey
  BY DEF KeysSound
<1>2. QED
  BY <1>1, BalancedAlways, PTL

\* The protocol of requests, row locks, versions, disputes and keys implements
\* CheckoutLedger, for any number of checkouts, payments and requests.
THEOREM LedgerImplemented == Spec => ImplementsLedger
<1>1. (Inv /\ Balanced /\ KeysSound) /\ (Inv /\ Balanced /\ KeysSound)' /\ [Next]_vars
        => [Ledger!Next]_(Ledger!ledger)
  BY StepKeeps DEF Keeps
<1>2. QED
  BY <1>1, InitKeeps, BalancedAlways, PTL DEF Spec, ImplementsLedger, Ledger!Spec
=============================================================================
