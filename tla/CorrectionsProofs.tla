-------------------------- MODULE CorrectionsProofs --------------------------
(***************************************************************************)
(* Theorems about Corrections for every sale, every set of members and     *)
(* approvers and every number of corrections and requests in flight.       *)
(*                                                                         *)
(* CInv is inductive.  What the properties say of the tables is Book; what *)
(* carries it through a commit is Tracked - what a request read before it  *)
(* took its locks, or without any, is still true of the row when its       *)
(* version is still the same - and that of two executions only one is past *)
(* each lock.                                                              *)
(***************************************************************************)
EXTENDS Corrections, SumTheorems, TLAPS

BookTyped ==
    /\ DOMAIN correction \subseteq Ids
    /\ \A k \in DOMAIN correction : IsCorrection(correction[k])
    /\ DOMAIN corrective \subseteq DOMAIN correction
    /\ returned \in [ProductLines -> Nat]
    /\ reversed \in [DOMAIN Earned -> Nat]
    /\ DOMAIN idempotency \subseteq {"request", "execute"} \X Members \X Keys
    /\ \A e \in DOMAIN idempotency : idempotency[e] \in DOMAIN correction

\* A reversal gives back the whole sale; every key that executed names an
\* executed correction.
BookSound ==
    /\ approvers \in ApproverSets
    /\ IsFiniteSet(ExecutedIds)
    /\ \A k \in DOMAIN correction : correction[k].type = "REVERSAL" => correction[k].items = WholeSale
    /\ \A e \in DOMAIN idempotency : e[1] = "execute" => idempotency[e] \in ExecutedIds

\* An accrual is a share of a basis, rounded; a fixed one is the whole of itself.
Basis(row) == IF row.rule.type = "PERCENTAGE" THEN row.basisAmount ELSE row.amount
Rate(row) == IF row.rule.type = "PERCENTAGE" THEN row.rule.rate ELSE 1
Unit(row) == IF row.rule.type = "PERCENTAGE" THEN BasisPoints ELSE 1

\* What was taken back of an accrual in n parts keeps pace with what was given back.
RowPaced(row, gross, back, taken, n) ==
    Paced(Basis(row), Rate(row), Unit(row), row.amount, gross, back, taken, n)

\* The commission taken back of each line keeps pace with its money.
CommissionPaced ==
    \A l \in DOMAIN Earned :
        /\ reversed[l] <= Earned[l].amount
        /\ RowPaced(Earned[l], Price[l], TakenBack(ExecutedIds, l), reversed[l],
                    Cardinality(PartsOf(l)))
        /\ PartsOf(l) = {} => TakenBack(ExecutedIds, l) = 0 /\ reversed[l] = 0

Book == /\ BookTyped /\ BookSound
        /\ NeverOverRefunded /\ ReversalStandsAlone
        /\ StockFollowsMoney /\ CommissionPaced
        /\ SeparationOfDuties /\ PostedExactlyOnce /\ OneRequestPerKey

\* What request q relies on.
Tracked(q) ==
    /\ IsRequest(q)
    /\ q.op = "request" => (q.type = "REVERSAL" => q.items = WholeSale)
    /\ q.op = "decide" =>
          /\ q.seen <= correction[q.correction].version
          /\ q.seen = correction[q.correction].version =>
                /\ correction[q.correction].status \in Undecided
                /\ q.status # "CANCELLED" => correction[q.correction].status = "REQUESTED"
          /\ q.status # "CANCELLED" => q.member \in approvers /\ MayDecide(q.member, q.correction)
    /\ q.op = "execute" =>
          /\ DOMAIN q = {"op", "correction", "member", "key", "stage", "others"}
          /\ q.stage # "begun" => correction[q.correction].status = "APPROVED"
          /\ q.stage = "sale locked" => q.others = ExecutedIds

\* Two executions are never past the same lock.
LocksApart(p, q) ==
    p.op = "execute" /\ q.op = "execute" =>
        /\ p.stage # "begun" /\ q.stage # "begun" => p.correction # q.correction
        /\ ~(p.stage = "sale locked" /\ q.stage = "sale locked")

InflightInv ==
    /\ DOMAIN inflight \subseteq Requests
    /\ \A r \in DOMAIN inflight : Tracked(inflight[r])
    /\ \A r, s \in DOMAIN inflight : r # s => LocksApart(inflight[r], inflight[s])

CInv == Book /\ InflightInv
-----------------------------------------------------------------------------
(* Arithmetic of the accruals.                                             *)

\* Rounding half up gives a natural number.
LEMMA RoundNat ==
    ASSUME NEW n \in Nat, NEW d \in Nat \ {0}
    PROVE  RoundHalfUp(n, d) \in Nat
  BY DEF RoundHalfUp

\* Rounding a whole number of units changes nothing.
LEMMA RoundExact ==
    ASSUME NEW b \in Nat, NEW d \in Nat \ {0}
    PROVE  RoundHalfUp(b * d, d) = b
  BY DEF RoundHalfUp

\* A commission is a natural number.
LEMMA CommissionNat ==
    ASSUME NEW rule, rule.type \in {"NONE", "FIXED", "PERCENTAGE"}, rule.rate \in Nat,
           rule.fixed \in Nat, NEW b \in Nat
    PROVE  CommissionAmount(rule, b) \in Nat
<1>1. b * rule.rate \in Nat /\ BasisPoints \in Nat \ {0}
  BY DEF BasisPoints
<1>2. RoundHalfUp(b * rule.rate, BasisPoints) \in Nat
  BY <1>1, RoundNat
<1>3. QED
  BY <1>2 DEF CommissionAmount

\* A row of commission_accruals, with the amount its own policy gives.
AccrualSound(row) ==
    /\ row.rule.type \in {"NONE", "FIXED", "PERCENTAGE"}
    /\ row.rule.rate \in 0 .. BasisPoints /\ row.rule.fixed \in Nat /\ row.basisAmount \in Nat
    /\ row.amount = CommissionAmount(row.rule, row.basisAmount)

\* The numbers of an accrual are what the arithmetic of parts needs.
LEMMA AccrualNumbers ==
    ASSUME NEW row, AccrualSound(row)
    PROVE  /\ Basis(row) \in Nat /\ Rate(row) \in Nat /\ Unit(row) \in Nat \ {0}
           /\ row.amount \in Nat /\ Rate(row) <= Unit(row)
           /\ 2 * Unit(row) * row.amount <= 2 * (Basis(row) * Rate(row)) + Unit(row)
           /\ 2 * (Basis(row) * Rate(row)) <= 2 * Unit(row) * row.amount + Unit(row)
<1>1. /\ row.rule.type \in {"NONE", "FIXED", "PERCENTAGE"}
      /\ row.rule.rate \in Nat /\ row.rule.rate <= BasisPoints
      /\ row.rule.fixed \in Nat /\ row.basisAmount \in Nat
      /\ row.amount = CommissionAmount(row.rule, row.basisAmount)
    <2>1. \A i \in 0 .. BasisPoints : i \in Nat /\ i <= BasisPoints
        BY DEF BasisPoints
    <2>. QED BY <2>1 DEF AccrualSound
<1>2. row.amount \in Nat
    BY <1>1, CommissionNat
<1>3. BasisPoints \in Nat \ {0}
    BY DEF BasisPoints
<1>4. CASE row.rule.type = "PERCENTAGE"
    <2>1. row.amount = (2 * (row.basisAmount * row.rule.rate) + BasisPoints) \div (2 * BasisPoints)
        BY <1>1, <1>4 DEF CommissionAmount, RoundHalfUp
    <2>2. row.basisAmount * row.rule.rate \in Nat
        BY <1>1
    <2>3. /\ 2 * BasisPoints * row.amount <= 2 * (row.basisAmount * row.rule.rate) + BasisPoints
          /\ 2 * (row.basisAmount * row.rule.rate)
                <= 2 * BasisPoints * row.amount + (BasisPoints - 1)
        BY <1>3, <2>1, <2>2, HalfUp
    <2>4. 2 * BasisPoints * row.amount \in Nat
        BY <1>2, <1>3
    <2>. QED BY <1>1, <1>2, <1>3, <1>4, <2>2, <2>3, <2>4 DEF Basis, Rate, Unit
<1>5. CASE row.rule.type # "PERCENTAGE"
    BY <1>1, <1>2, <1>5 DEF Basis, Rate, Unit
<1>. QED BY <1>4, <1>5

\* One more part of the line takes back no more than is left, and keeps pace.
LEMMA AdjustmentPaced ==
    ASSUME NEW row, AccrualSound(row), NEW gross \in Nat \ {0}, NEW back \in Nat,
           NEW already \in Nat, NEW n \in Nat, already <= row.amount,
           RowPaced(row, gross, back, already, n),
           NEW requested \in Nat \ {0}, back + requested <= gross
    PROVE  LET t == Adjustment(row, already, requested, gross) IN
           /\ t \in Nat
           /\ already + t <= row.amount
           /\ RowPaced(row, gross, back + requested, already + t, n + 1)
<1>. DEFINE left == row.amount - already
            t == Adjustment(row, already, requested, gross)
            b == (2 * (Basis(row) * requested) + gross) \div (2 * gross)
            a == (2 * (b * Rate(row)) + Unit(row)) \div (2 * Unit(row))
<1>1. /\ Basis(row) \in Nat /\ Rate(row) \in Nat /\ Unit(row) \in Nat \ {0} /\ row.amount \in Nat
    BY AccrualNumbers
<1>2. left \in Nat /\ Unreversed(row, already) = left
    BY <1>1 DEF Unreversed, AtLeastZero
<1>3. /\ b \in Nat
      /\ 2 * gross * b <= 2 * (Basis(row) * requested) + gross
      /\ 2 * (Basis(row) * requested) <= 2 * gross * b + (gross - 1)
    <2>1. Basis(row) * requested \in Nat
        BY <1>1
    <2>. QED BY <2>1, HalfUp
<1>. HIDE DEF b
<1>4. /\ a \in Nat
      /\ 2 * Unit(row) * a <= 2 * (b * Rate(row)) + Unit(row)
      /\ 2 * (b * Rate(row)) <= 2 * Unit(row) * a + (Unit(row) - 1)
    <2>1. b * Rate(row) \in Nat
        BY <1>1, <1>3
    <2>. QED BY <1>1, <2>1, HalfUp
<1>. HIDE DEF a
<1>5. t = IF a <= left THEN a ELSE left
    <2>1. CASE row.rule.type = "PERCENTAGE"
        <3>1. AdjustmentBasis(row, requested, gross) = b
            BY <2>1 DEF AdjustmentBasis, RoundHalfUp, Basis, b
        <3>2. CommissionAmount(row.rule, b) = a
            BY <2>1 DEF CommissionAmount, RoundHalfUp, Rate, Unit, a
        <3>. QED BY <1>2, <2>1, <3>1, <3>2 DEF Adjustment, PercentageAdjustment, Least
    <2>2. CASE row.rule.type # "PERCENTAGE"
        <3>1. b = RoundHalfUp(row.amount * requested, gross)
            BY <2>2 DEF RoundHalfUp, Basis, b
        <3>2. a = (2 * (b * 1) + 1) \div (2 * 1)
            BY <2>2 DEF Rate, Unit, a
        <3>3. a = b
            BY <1>3, <3>2
        <3>4. CASE row.rule.type = "FIXED"
            <4>1. requested = gross => b = row.amount
                BY <1>1, <3>1, RoundExact
            <4>. QED BY <1>1, <1>2, <3>1, <3>3, <3>4, <4>1 DEF Adjustment, FixedAdjustment, Least
        <3>5. CASE row.rule.type = "NONE"
            <4>1. row.amount = 0
                BY <3>5 DEF AccrualSound, CommissionAmount
            <4>2. left = 0 /\ t = 0
                BY <3>5, <4>1 DEF Adjustment
            <4>. QED BY <1>4, <4>2
        <3>. QED BY <2>2, <3>4, <3>5 DEF AccrualSound
    <2>. QED BY <2>1, <2>2
<1>6. t \in Nat /\ already + t <= row.amount
    BY <1>1, <1>2, <1>4, <1>5
<1>7. Paced(Basis(row), Rate(row), Unit(row), row.amount, gross, back, already, n)
    BY DEF RowPaced
<1>. HIDE DEF t
<1>8. Paced(Basis(row), Rate(row), Unit(row), row.amount, gross, back + requested, already + t, n + 1)
    BY <1>1, <1>3, <1>4, <1>5, <1>6, <1>7, PacedStep
<1>. QED BY <1>6, <1>8 DEF RowPaced, t

\* What keeps pace part by part follows the share of the money.
LEMMA PacedFollows ==
    ASSUME NEW row, AccrualSound(row), NEW gross \in Nat \ {0}, NEW back \in Nat,
           NEW taken \in Nat, NEW n \in Nat, taken <= row.amount, back <= gross,
           RowPaced(row, gross, back, taken, n), n = 0 => back = 0 /\ taken = 0
    PROVE  FollowsShare(row.amount, taken, back, gross, n)
<1>1. /\ Basis(row) \in Nat /\ Rate(row) \in Nat /\ Unit(row) \in Nat \ {0}
      /\ row.amount \in Nat /\ Rate(row) <= Unit(row)
      /\ 2 * Unit(row) * row.amount <= 2 * (Basis(row) * Rate(row)) + Unit(row)
      /\ 2 * (Basis(row) * Rate(row)) <= 2 * Unit(row) * row.amount + Unit(row)
      /\ Paced(Basis(row), Rate(row), Unit(row), row.amount, gross, back, taken, n)
    BY AccrualNumbers DEF RowPaced
<1>2. CASE n = 0
    BY <1>1, <1>2 DEF FollowsShare
<1>3. CASE n # 0
    <2>1. n \in Nat \ {0}
        BY <1>3
    <2>2. /\ row.amount * back - taken * gross <= 2 * n * gross
          /\ taken * gross - row.amount * back <= 2 * n * gross
        BY <1>1, <2>1, PacedShare
    <2>3. back = gross => row.amount - taken < n
        BY <1>1, <2>1, PacedWhole
    <2>. QED BY <2>2, <2>3 DEF FollowsShare
<1>. QED BY <1>2, <1>3
-----------------------------------------------------------------------------
(* What corrections ask back of a line, summed.                            *)

\* The table TakenBack sums, for corrections c.
AskedOf(items, l) == IF l \in DOMAIN items THEN items[l] ELSE 0
Asked(c, S, l) == [k \in S |-> AskedOf(c[k].items, l)]
AskedSum(c, S, l) == SumFunctionOnSet(Asked(c, S, l), S)

\* What is taken back of a line is what the corrections ask of it.
LEMMA TakenBackIs ==
    ASSUME NEW S, NEW l
    PROVE  TakenBack(S, l) = AskedSum(correction, S, l)
BY Zenon DEF TakenBack, AmountOf, AskedOf, Asked, AskedSum, SumFunction

\* The same after the step.
LEMMA TakenBackPrimed ==
    ASSUME NEW l
    PROVE  TakenBack(ExecutedIds, l)' = AskedSum(correction', ExecutedIds', l)
BY Zenon DEF TakenBack, AmountOf, AskedOf, Asked, AskedSum, SumFunction

\* The rows of S ask for natural numbers.
AskNat(c, S) == \A k \in S : \A l \in DOMAIN c[k].items : c[k].items[l] \in Nat

\* What the items ask of a line is a natural number.
LEMMA AskedTyped ==
    ASSUME NEW c, NEW S, IsFiniteSet(S), AskNat(c, S), NEW l
    PROVE  /\ \A k \in S : Asked(c, S, l)[k] \in Nat
           /\ AskedSum(c, S, l) \in Nat
<1>1. \A k \in S : Asked(c, S, l)[k] \in Nat
  BY DEF AskedOf, Asked, AskNat
<1>2. QED
  BY <1>1, SumNat DEF AskedSum

\* It depends on the items alone.
LEMMA AskedSame ==
    ASSUME NEW c, NEW d, NEW S, IsFiniteSet(S), \A k \in S : d[k].items = c[k].items, NEW l
    PROVE  AskedSum(d, S, l) = AskedSum(c, S, l)
<1>1. \A k \in S : Asked(d, S, l)[k] = Asked(c, S, l)[k]
  BY DEF Asked
<1>2. QED
  BY <1>1, SumSame DEF AskedSum

\* One correction asks no more than all of them.
LEMMA AskedPart ==
    ASSUME NEW c, NEW S, IsFiniteSet(S), AskNat(c, S), NEW k \in S, NEW l \in DOMAIN c[k].items
    PROVE  c[k].items[l] <= AskedSum(c, S, l)
<1>1. \A j \in S : Asked(c, S, l)[j] \in Nat
  BY AskedTyped
<1>2. Asked(c, S, l)[k] = c[k].items[l]
  BY DEF AskedOf, Asked
<1>3. SumFunctionOnSet(Asked(c, S, l), {}) = 0
  BY SumEmpty
<1>4. SumFunctionOnSet(Asked(c, S, l), {}) + Asked(c, S, l)[k] <= AskedSum(c, S, l)
  <2>1. {} \in SUBSET S /\ k \in S \ {}
    OBVIOUS
  <2>2. QED
    BY <1>1, <2>1, SumOfPart DEF AskedSum
<1>5. QED
  BY <1>1, <1>2, <1>3, <1>4, AskedTyped

\* A further correction adds what it asks.
LEMMA AskedAdd ==
    ASSUME NEW c, NEW d, NEW S, IsFiniteSet(S), NEW k, k \notin S,
           \A j \in S : d[j].items = c[j].items, AskNat(d, S \cup {k}), NEW l
    PROVE  AskedSum(d, S \cup {k}, l) =
              AskedSum(c, S, l) + AskedOf(d[k].items, l)
<1> DEFINE T == S \cup {k}
           f == Asked(d, T, l)
<1>1. IsFiniteSet(T)
  BY FS_AddElement
<1>2. \A j \in T : f[j] \in Nat
  BY <1>1, AskedTyped
<1>3. f[k] = AskedOf(d[k].items, l)
  BY DEF Asked
<1>4. \A j \in S : f[j] = Asked(c, S, l)[j]
  BY DEF Asked
<1> HIDE DEF f
<1>5. SumFunctionOnSet(f, S) = AskedSum(c, S, l)
  BY <1>4, SumSame DEF AskedSum
<1>6. SumFunctionOnSet(f, T) = f[k] + SumFunctionOnSet(f, S)
  BY <1>2, SumAdd
<1>7. SumFunctionOnSet(f, S) \in Nat
  BY <1>2, SumNat
<1>8. f[k] \in Nat
  BY <1>2
<1>9. QED
  BY <1>3, <1>5, <1>6, <1>7, <1>8 DEF f, AskedSum
-----------------------------------------------------------------------------
(* Requests and the table they are in.                                     *)

\* A request that begins joins those in flight.
LEMMA BeginInflight ==
    ASSUME NEW r, NEW q, Begin(r, q)
    PROVE  /\ r \notin DOMAIN inflight
           /\ DOMAIN inflight' = DOMAIN inflight \cup {r}
           /\ inflight'[r] = q
           /\ \A s \in DOMAIN inflight : inflight'[s] = inflight[s]
  BY DEF Begin, Insert

\* A request that ends is forgotten and the others stay.
LEMMA EndInflight ==
    ASSUME NEW r, End(r)
    PROVE  /\ DOMAIN inflight' = DOMAIN inflight \ {r}
           /\ \A s \in DOMAIN inflight' : inflight'[s] = inflight[s]
  BY DEF End

\* A request goes on relying on what it read while the rows it names stay.
LEMMA TrackedKeeps ==
    ASSUME NEW q, Tracked(q), ExecutedIds' = ExecutedIds, approvers' = approvers,
           DOMAIN correction \subseteq DOMAIN correction',
           q.op \in {"decide", "execute"} => correction'[q.correction] = correction[q.correction]
    PROVE  Tracked(q)'
<1>1. IsRequest(q)'
  BY DEF Tracked, IsRequest, IsItemList
<1>2. CASE q.op = "request"
  BY <1>1, <1>2 DEF Tracked, WholeSale
<1>3. CASE q.op = "decide"
  BY <1>1, <1>3 DEF Tracked, MayDecide, SoloOwner
<1>4. CASE q.op = "execute"
  BY <1>1, <1>4 DEF Tracked
<1>5. QED
  BY <1>2, <1>3, <1>4 DEF Tracked, IsRequest

\* What was taken back depends on the executed corrections alone.
LEMMA CommissionKeeps ==
    ASSUME CommissionPaced, reversed' = reversed, ExecutedIds' = ExecutedIds,
           \A j \in ExecutedIds : correction'[j].items = correction[j].items,
           \A l : TakenBack(ExecutedIds, l)' = TakenBack(ExecutedIds, l)
    PROVE  CommissionPaced'
<1>1. \A l : PartsOf(l)' = PartsOf(l)
  BY DEF PartsOf
<1>2. QED
  BY <1>1 DEF CommissionPaced

\* The tables are as they were.
LEMMA BookKeeps ==
    ASSUME Book, UNCHANGED <<approvers, correction, postings, idempotency>>
    PROVE  Book' /\ ExecutedIds' = ExecutedIds
<1>1. ExecutedIds' = ExecutedIds
  BY DEF ExecutedIds
<1>2. \A l : TakenBack(ExecutedIds, l)' = TakenBack(ExecutedIds, l)
  BY <1>1, TakenBackIs, TakenBackPrimed
<1>3. BookTyped' /\ BookSound'
  <2>1. BookTyped'
    BY DEF Book, BookTyped, IsCorrection, IsItemList, postings
  <2>2. BookSound'
    BY <1>1 DEF Book, BookSound, WholeSale, postings
  <2>3. QED
    BY <2>1, <2>2
<1>4. NeverOverRefunded' /\ StockFollowsMoney'
  BY <1>2 DEF Book, NeverOverRefunded, StockFollowsMoney, postings
<1>5. ReversalStandsAlone' /\ CommissionPaced'
  BY <1>1, <1>2, CommissionKeeps DEF Book, ReversalStandsAlone, postings
<1>6. SeparationOfDuties' /\ PostedExactlyOnce' /\ OneRequestPerKey'
  <2>1. SeparationOfDuties'
    BY DEF Book, SeparationOfDuties, SoloOwner
  <2>2. PostedExactlyOnce'
    BY <1>1 DEF Book, PostedExactlyOnce, postings
  <2>3. OneRequestPerKey'
    BY DEF Book, OneRequestPerKey
  <2>4. QED
    BY <2>1, <2>2, <2>3
<1>7. QED
  BY <1>1, <1>3, <1>4, <1>5, <1>6 DEF Book

\* A request begins: it holds no lock.
LEMMA BeginKeeps ==
    ASSUME CInv, NEW r \in Requests, NEW q, Begin(r, q), Tracked(q),
           q.op = "execute" => q.stage = "begun",
           UNCHANGED <<approvers, correction, postings, idempotency>>
    PROVE  CInv'
<1>1. Book' /\ ExecutedIds' = ExecutedIds
  BY BookKeeps DEF CInv
<1>2. /\ r \notin DOMAIN inflight
      /\ DOMAIN inflight' = DOMAIN inflight \cup {r}
      /\ inflight'[r] = q
      /\ \A s \in DOMAIN inflight : inflight'[s] = inflight[s]
  BY BeginInflight
<1>3. InflightInv'
  <2>1. DOMAIN inflight' \subseteq Requests
    BY <1>2 DEF CInv, InflightInv
  <2>2. \A s \in DOMAIN inflight' : Tracked(inflight'[s])
    BY <1>2 DEF CInv, InflightInv
  <2>3. ASSUME NEW p, Tracked(p) PROVE Tracked(p)'
    BY <1>1, <2>3, TrackedKeeps
  <2>4. \A s \in DOMAIN inflight' : Tracked(inflight[s])'
    BY <2>2, <2>3
  <2>5. \A s, u \in DOMAIN inflight' : s # u => LocksApart(inflight'[s], inflight'[u])
    <3>1. \A s \in DOMAIN inflight : LocksApart(inflight[s], q) /\ LocksApart(q, inflight[s])
      BY DEF LocksApart
    <3>2. QED
      BY <1>2, <3>1 DEF CInv, InflightInv
  <2>6. QED
    BY <2>1, <2>4, <2>5 DEF InflightInv, LocksApart
<1>4. QED
  BY <1>1, <1>3 DEF CInv

\* A request ends without a write.
LEMMA AbandonKeeps ==
    ASSUME CInv, NEW r \in Requests, Abandon(r)
    PROVE  CInv' /\ UNCHANGED <<correction, corrective>>
<1>1. End(r) /\ UNCHANGED <<approvers, correction, postings, idempotency>>
  BY DEF Abandon
<1>2. Book' /\ ExecutedIds' = ExecutedIds
  BY <1>1, BookKeeps DEF CInv
<1>3. /\ DOMAIN inflight' = DOMAIN inflight \ {r}
      /\ \A s \in DOMAIN inflight' : inflight'[s] = inflight[s]
  BY <1>1, EndInflight
<1>4. InflightInv'
  <2>1. DOMAIN inflight' \subseteq Requests
    BY <1>3 DEF CInv, InflightInv
  <2>2. \A s \in DOMAIN inflight' : Tracked(inflight'[s])
    BY <1>3 DEF CInv, InflightInv
  <2>3. ASSUME NEW p, Tracked(p) PROVE Tracked(p)'
    BY <1>1, <1>2, <2>3, TrackedKeeps
  <2>4. \A s \in DOMAIN inflight' : Tracked(inflight[s])'
    BY <2>2, <2>3
  <2>5. \A s, u \in DOMAIN inflight' : s # u => LocksApart(inflight'[s], inflight'[u])
    BY <1>3 DEF CInv, InflightInv
  <2>6. QED
    BY <2>1, <2>4, <2>5 DEF InflightInv, LocksApart
<1>5. QED
  BY <1>1, <1>2, <1>4 DEF CInv, postings

\* An execution gets further: it holds only what no other does.
LEMMA StageKeeps ==
    ASSUME CInv, NEW r \in DOMAIN inflight, NEW p, inflight' = [inflight EXCEPT ![r] = p],
           Tracked(p), \A s \in DOMAIN inflight \ {r} : LocksApart(inflight[s], p),
           UNCHANGED <<approvers, correction, postings, idempotency>>
    PROVE  CInv'
<1>1. Book' /\ ExecutedIds' = ExecutedIds
  BY BookKeeps DEF CInv
<1>2. /\ DOMAIN inflight' = DOMAIN inflight
      /\ inflight'[r] = p
      /\ \A s \in DOMAIN inflight \ {r} : inflight'[s] = inflight[s]
  OBVIOUS
<1>3. InflightInv'
  <2>1. DOMAIN inflight' \subseteq Requests
    BY <1>2 DEF CInv, InflightInv
  <2>2. \A s \in DOMAIN inflight' : Tracked(inflight'[s])
    BY <1>2 DEF CInv, InflightInv
  <2>3. ASSUME NEW q, Tracked(q) PROVE Tracked(q)'
    BY <1>1, <2>3, TrackedKeeps
  <2>4. \A s \in DOMAIN inflight' : Tracked(inflight[s])'
    BY <2>2, <2>3
  <2>5. \A s, u \in DOMAIN inflight' : s # u => LocksApart(inflight'[s], inflight'[u])
    <3>1. \A s \in DOMAIN inflight \ {r} : LocksApart(inflight[s], p) /\ LocksApart(p, inflight[s])
      BY DEF LocksApart
    <3>2. QED
      BY <1>2, <3>1 DEF CInv, InflightInv
  <2>6. QED
    BY <2>1, <2>4, <2>5 DEF InflightInv, LocksApart
<1>4. QED
  BY <1>1, <1>3 DEF CInv
-----------------------------------------------------------------------------
(* The steps that read.                                                    *)

\* A request for a refund begins.
LEMMA BeginRefundStep ==
    ASSUME CInv, NEW r \in Requests, NEW m \in Members, NEW key \in Keys, NEW items \in RefundItems,
           BeginRefund(r, m, key, items)
    PROVE  CInv' /\ UNCHANGED <<correction, corrective>>
<1> DEFINE q == [op |-> "request", member |-> m, key |-> key, type |-> "REFUND", items |-> items]
<1>1. Begin(r, q) /\ UNCHANGED <<approvers, correction, postings, idempotency>>
  BY DEF BeginRefund
<1>2. IsItemList(items)
  BY SaleAssumption DEF IsItemList
<1>3. Tracked(q) /\ q.op # "execute"
  BY <1>2 DEF Tracked, IsRequest
<1> HIDE DEF q
<1>4. QED
  BY <1>1, <1>3, BeginKeeps DEF postings

\* A request for a reversal begins.
LEMMA BeginReversalStep ==
    ASSUME CInv, NEW r \in Requests, NEW m \in Members, NEW key \in Keys, BeginReversal(r, m, key)
    PROVE  CInv' /\ UNCHANGED <<correction, corrective>>
<1> DEFINE q == [op |-> "request", member |-> m, key |-> key, type |-> "REVERSAL",
                 items |-> WholeSale]
<1>1. Begin(r, q) /\ UNCHANGED <<approvers, correction, postings, idempotency>>
  BY DEF BeginReversal
<1>2. IsItemList(WholeSale)
  BY SaleAssumption DEF IsItemList, WholeSale
<1>3. Tracked(q) /\ q.op # "execute"
  BY <1>2 DEF Tracked, IsRequest
<1> HIDE DEF q
<1>4. QED
  BY <1>1, <1>3, BeginKeeps DEF postings

\* A decision begins.
LEMMA BeginDecisionStep ==
    ASSUME CInv, NEW r \in Requests, NEW k, NEW m \in Members, NEW status,
           BeginDecision(r, k, m, status)
    PROVE  CInv' /\ UNCHANGED <<correction, corrective>>
<1> DEFINE q == [op |-> "decide", correction |-> k, member |-> m, status |-> status,
                 seen |-> correction[k].version]
<1>1. /\ Begin(r, q) /\ UNCHANGED <<approvers, correction, postings, idempotency>>
      /\ k \in DOMAIN correction /\ m \in approvers /\ correction[k].status = "REQUESTED"
      /\ MayDecide(m, k) /\ status \in {"APPROVED", "REJECTED"}
  BY DEF BeginDecision
<1>2. correction[k].version \in Nat
  BY <1>1 DEF CInv, Book, BookTyped, IsCorrection
<1>3. Tracked(q) /\ q.op # "execute"
  BY <1>1, <1>2 DEF Tracked, IsRequest, Undecided
<1> HIDE DEF q
<1>4. QED
  BY <1>1, <1>3, BeginKeeps DEF postings

\* A cancellation begins.
LEMMA BeginCancelStep ==
    ASSUME CInv, NEW r \in Requests, NEW k, NEW m \in Members, BeginCancel(r, k, m)
    PROVE  CInv' /\ UNCHANGED <<correction, corrective>>
<1> DEFINE q == [op |-> "decide", correction |-> k, member |-> m, status |-> "CANCELLED",
                 seen |-> correction[k].version]
<1>1. /\ Begin(r, q) /\ UNCHANGED <<approvers, correction, postings, idempotency>>
      /\ k \in DOMAIN correction /\ correction[k].status \in Undecided
  BY DEF BeginCancel
<1>2. correction[k].version \in Nat
  BY <1>1 DEF CInv, Book, BookTyped, IsCorrection
<1>3. Tracked(q) /\ q.op # "execute"
  BY <1>1, <1>2 DEF Tracked, IsRequest
<1> HIDE DEF q
<1>4. QED
  BY <1>1, <1>3, BeginKeeps DEF postings

\* An execution begins.
LEMMA BeginExecuteStep ==
    ASSUME CInv, NEW r \in Requests, NEW k, NEW m \in Members, NEW key \in Keys,
           BeginExecute(r, k, m, key)
    PROVE  CInv' /\ UNCHANGED <<correction, corrective>>
<1> DEFINE q == [op |-> "execute", correction |-> k, member |-> m, key |-> key,
                 stage |-> "begun", others |-> {}]
<1>1. /\ Begin(r, q) /\ UNCHANGED <<approvers, correction, postings, idempotency>>
      /\ k \in DOMAIN correction
  BY DEF BeginExecute
<1>2. Tracked(q) /\ q.stage = "begun"
  BY <1>1 DEF Tracked, IsRequest
<1> HIDE DEF q
<1>3. QED
  BY <1>1, <1>2, BeginKeeps DEF postings

\* An execution takes the row of its correction, which no other holds, and
\* finds it approved.
LEMMA LockCorrectionStep ==
    ASSUME CInv, NEW r \in Requests, LockCorrection(r)
    PROVE  CInv' /\ UNCHANGED <<correction, corrective>>
<1> DEFINE q == inflight[r]
           p == [q EXCEPT !.stage = "row locked"]
<1>1. /\ r \in DOMAIN inflight /\ q.op = "execute" /\ q.stage = "begun"
      /\ ~RowLocked(q.correction) /\ correction[q.correction].status = "APPROVED"
      /\ inflight' = [inflight EXCEPT ![r] = p]
      /\ UNCHANGED <<approvers, correction, postings, idempotency>>
  BY DEF LockCorrection, Is, StillApproved
<1>2. Tracked(q)
  BY <1>1 DEF CInv, InflightInv
<1>3. /\ DOMAIN p = DOMAIN q
      /\ p.op = "execute" /\ p.correction = q.correction /\ p.member = q.member
      /\ p.key = q.key /\ p.stage = "row locked" /\ p.others = q.others
  <2>1. DOMAIN q = {"op", "correction", "member", "key", "stage", "others"}
    BY <1>1, <1>2 DEF Tracked
  <2>2. QED
    BY <1>1, <2>1
<1>4. \A s \in DOMAIN inflight : inflight[s].op = "execute" /\ inflight[s].stage # "begun" =>
            inflight[s].correction # q.correction
  BY <1>1 DEF RowLocked, Is
<1> HIDE DEF p
<1>5. Tracked(p)
  BY <1>1, <1>2, <1>3 DEF Tracked, IsRequest
<1>6. \A s \in DOMAIN inflight \ {r} : LocksApart(inflight[s], p)
  BY <1>3, <1>4 DEF LocksApart
<1>7. QED
  BY <1>1, <1>5, <1>6, StageKeeps DEF postings

\* Then the sale, which no other holds, and reads what was executed.
LEMMA LockSaleStep ==
    ASSUME CInv, NEW r \in Requests, LockSale(r)
    PROVE  CInv' /\ UNCHANGED <<correction, corrective>>
<1> DEFINE q == inflight[r]
           others == ExecutedIds \ {q.correction}
           p == [q EXCEPT !.stage = "sale locked", !.others = others]
<1>1. /\ r \in DOMAIN inflight /\ q.op = "execute" /\ q.stage = "row locked"
      /\ ~SaleLocked
      /\ inflight' = [inflight EXCEPT ![r] = p]
      /\ UNCHANGED <<approvers, correction, postings, idempotency>>
  BY DEF LockSale, Is
<1>2. Tracked(q)
  BY <1>1 DEF CInv, InflightInv
<1>3. /\ DOMAIN p = DOMAIN q
      /\ p.op = "execute" /\ p.correction = q.correction /\ p.member = q.member
      /\ p.key = q.key /\ p.stage = "sale locked" /\ p.others = others
  <2>1. DOMAIN q = {"op", "correction", "member", "key", "stage", "others"}
    BY <1>1, <1>2 DEF Tracked
  <2>2. QED
    BY <1>1, <2>1
<1>4. \A s \in DOMAIN inflight : inflight[s].op = "execute" => inflight[s].stage # "sale locked"
  BY <1>1 DEF SaleLocked, Is
<1>5. others = ExecutedIds /\ others \subseteq Ids
  BY <1>1, <1>2 DEF Tracked, ExecutedIds, CInv, Book, BookTyped
<1> HIDE DEF p, others
<1>6. Tracked(p)
  BY <1>1, <1>2, <1>3, <1>5 DEF Tracked, IsRequest
<1>7. \A s \in DOMAIN inflight \ {r} : LocksApart(inflight[s], p)
  <2>1. \A s \in DOMAIN inflight \ {r} : LocksApart(inflight[s], q)
    BY <1>1 DEF CInv, InflightInv
  <2>2. QED
    BY <1>1, <1>3, <1>4, <2>1 DEF LocksApart
<1>8. QED
  BY <1>1, <1>6, <1>7, StageKeeps DEF postings
-----------------------------------------------------------------------------
(* The steps that write.                                                   *)

\* A correction asks back natural numbers of lines of the sale.
LEMMA ItemsTyped ==
    ASSUME BookTyped, NEW k \in DOMAIN correction
    PROVE  /\ DOMAIN correction[k].items \subseteq Lines /\ DOMAIN correction[k].items # {}
           /\ \A l \in DOMAIN correction[k].items : correction[k].items[l] \in Nat \ {0}
  BY DEF BookTyped, IsCorrection, IsItemList

\* The correction, and the key it was asked for under, are inserted together.
LEMMA CommitRequestStep ==
    ASSUME CInv, NEW r \in Requests, NEW k \in Ids, CommitRequest(r, k)
    PROVE  /\ CInv' /\ UNCHANGED corrective
           /\ \A j \in DOMAIN correction : correction'[j] = correction[j]
<1> DEFINE q == inflight[r]
           row == [type |-> q.type, items |-> q.items, status |-> "REQUESTED", version |-> 1,
                   requester |-> q.member, decider |-> NoMember, override |-> FALSE]
           e == <<"request", q.member, q.key>>
<1>1. /\ r \in DOMAIN inflight /\ q.op = "request" /\ k \notin DOMAIN correction
      /\ e \notin DOMAIN idempotency
      /\ correction' = Insert(correction, k, row) /\ idempotency' = Insert(idempotency, e, k)
      /\ End(r) /\ UNCHANGED <<approvers, postings>>
  BY DEF CommitRequest, Is, KeyFree
<1>2. /\ q.member \in Members /\ q.key \in Keys /\ q.type \in {"REFUND", "REVERSAL"}
      /\ IsItemList(q.items)
      /\ q.type = "REVERSAL" => q.items = WholeSale
  BY <1>1 DEF CInv, InflightInv, Tracked, IsRequest
<1>3. /\ IsCorrection(row) /\ row.status = "REQUESTED" /\ row.type = q.type
      /\ row.items = q.items /\ row.requester = q.member /\ row.decider = NoMember
      /\ row.override = FALSE
  <2>1. /\ row.status = "REQUESTED" /\ row.type = q.type /\ row.items = q.items
        /\ row.requester = q.member /\ row.decider = NoMember /\ row.override = FALSE
        /\ row.version = 1
    OBVIOUS
  <2>2. row = [type |-> row.type, items |-> row.items, status |-> row.status,
               version |-> row.version, requester |-> row.requester,
               decider |-> row.decider, override |-> row.override]
    BY <2>1, Zenon
  <2> HIDE DEF row
  <2>3. /\ row.type \in {"REFUND", "REVERSAL"} /\ IsItemList(row.items)
        /\ row.status \in Statuses /\ row.version \in Nat /\ row.requester \in Members
        /\ row.decider \in Members \cup {NoMember} /\ row.override \in BOOLEAN
    <3>1. row.override \in BOOLEAN /\ IsItemList(row.items)
      BY <1>2, <2>1, Zenon
    <3>2. QED
      BY <1>2, <2>1, <3>1 DEF Statuses, Undecided
  <2>4. IsCorrection(row)
    BY <2>2, <2>3, Zenon DEF IsCorrection
  <2>5. QED
    BY <2>1, <2>4
<1>4. e \in {"request", "execute"} \X Members \X Keys /\ e[1] = "request" /\ e[2] = q.member
  BY <1>2
<1> HIDE DEF row, e
<1>5. /\ DOMAIN correction' = DOMAIN correction \cup {k}
      /\ correction'[k] = row
      /\ \A j \in DOMAIN correction : correction'[j] = correction[j]
  BY <1>1 DEF Insert
<1>6. /\ DOMAIN idempotency' = DOMAIN idempotency \cup {e}
      /\ idempotency'[e] = k
      /\ \A f \in DOMAIN idempotency : idempotency'[f] = idempotency[f]
  BY <1>1 DEF Insert
<1>7. UNCHANGED <<approvers, corrective, returned, reversed>>
  BY <1>1 DEF postings
<1>8. ExecutedIds' = ExecutedIds
  BY <1>3, <1>5 DEF ExecutedIds
<1>9. \A l : TakenBack(ExecutedIds, l)' = TakenBack(ExecutedIds, l)
  <2>1. ASSUME NEW l PROVE AskedSum(correction', ExecutedIds, l) = AskedSum(correction, ExecutedIds, l)
    <3>1. IsFiniteSet(ExecutedIds) /\ \A j \in ExecutedIds : correction'[j].items = correction[j].items
      BY <1>5 DEF CInv, Book, BookSound, ExecutedIds
    <3>2. QED
      BY <3>1, AskedSame
  <2>2. QED
    BY <1>8, <2>1, TakenBackIs, TakenBackPrimed
<1>10. Book'
  <2>1. BookTyped'
    <3>1. \A j \in DOMAIN correction' : IsCorrection(correction'[j])
      BY <1>3, <1>5 DEF CInv, Book, BookTyped
    <3>2. \A f \in DOMAIN idempotency' : idempotency'[f] \in DOMAIN correction'
      BY <1>5, <1>6 DEF CInv, Book, BookTyped
    <3>3. DOMAIN idempotency' \subseteq {"request", "execute"} \X Members \X Keys
      BY <1>4, <1>6 DEF CInv, Book, BookTyped
    <3>4. QED
      <4>1. DOMAIN correction' \subseteq Ids /\ DOMAIN corrective' \subseteq DOMAIN correction'
        BY <1>5, <1>7 DEF CInv, Book, BookTyped
      <4>2. returned' \in [ProductLines -> Nat] /\ reversed' \in [DOMAIN Earned -> Nat]
        BY <1>7 DEF CInv, Book, BookTyped
      <4>3. QED
        BY <3>1, <3>2, <3>3, <4>1, <4>2, Zenon DEF BookTyped
  <2>2. BookSound'
    BY <1>2, <1>3, <1>4, <1>5, <1>6, <1>7, <1>8 DEF CInv, Book, BookSound, WholeSale
  <2>3. NeverOverRefunded' /\ StockFollowsMoney'
    BY <1>7, <1>9 DEF CInv, Book, NeverOverRefunded, StockFollowsMoney
  <2>4. ReversalStandsAlone' /\ CommissionPaced'
    <3>1. \A j \in ExecutedIds : correction'[j] = correction[j]
      BY <1>5 DEF ExecutedIds
    <3>2. QED
      BY <1>7, <1>8, <1>9, <3>1, CommissionKeeps DEF CInv, Book, ReversalStandsAlone
  <2>5. SeparationOfDuties'
    BY <1>2, <1>3, <1>5, <1>7, SaleAssumption DEF CInv, Book, SeparationOfDuties, SoloOwner
  <2>6. PostedExactlyOnce'
    <3>1. \A j \in DOMAIN corrective : j \in DOMAIN correction
      BY DEF CInv, Book, BookTyped
    <3>2. QED
      BY <1>4, <1>5, <1>6, <1>7, <1>8, <3>1 DEF CInv, Book, PostedExactlyOnce
  <2>7. OneRequestPerKey'
    <3>1. \A f \in DOMAIN idempotency : idempotency[f] # k
      BY <1>1 DEF CInv, Book, BookTyped
    <3>2. ASSUME NEW j \in DOMAIN correction
          PROVE  /\ \E f \in DOMAIN idempotency' :
                       f[1] = "request" /\ f[2] = correction'[j].requester /\ idempotency'[f] = j
                 /\ \A f, g \in DOMAIN idempotency' :
                       (f[1] = "request" /\ g[1] = "request" /\ idempotency'[f] = j /\ idempotency'[g] = j)
                           => f = g
      <4>1. j # k /\ correction'[j] = correction[j]
        BY <1>1, <1>5
      <4>2. PICK f \in DOMAIN idempotency :
               f[1] = "request" /\ f[2] = correction[j].requester /\ idempotency[f] = j
        BY DEF CInv, Book, OneRequestPerKey
      <4>3. \A f1, g \in DOMAIN idempotency :
               (f1[1] = "request" /\ g[1] = "request" /\ idempotency[f1] = j /\ idempotency[g] = j)
                   => f1 = g
        BY DEF CInv, Book, OneRequestPerKey
      <4>4. QED
        BY <1>6, <4>1, <4>2, <4>3
    <3>3. /\ e[1] = "request" /\ e[2] = correction'[k].requester /\ idempotency'[e] = k
          /\ \A f \in DOMAIN idempotency' : idempotency'[f] = k => f = e
      BY <1>3, <1>4, <1>5, <1>6, <3>1
    <3>4. QED
      BY <1>5, <1>6, <3>2, <3>3 DEF OneRequestPerKey
  <2>8. QED
    BY <2>1, <2>2, <2>3, <2>4, <2>5, <2>6, <2>7 DEF Book
<1>11. InflightInv'
  <2>1. /\ DOMAIN inflight' = DOMAIN inflight \ {r}
        /\ \A s \in DOMAIN inflight' : inflight'[s] = inflight[s]
    BY <1>1, EndInflight
  <2>2. DOMAIN inflight' \subseteq Requests /\ \A s \in DOMAIN inflight' : Tracked(inflight'[s])
    BY <2>1 DEF CInv, InflightInv
  <2>3. ASSUME NEW p, Tracked(p) PROVE Tracked(p)'
    <3>1. p.op \in {"decide", "execute"} => p.correction \in DOMAIN correction
      BY <2>3 DEF Tracked, IsRequest
    <3>2. QED
      BY <1>5, <1>7, <1>8, <2>3, <3>1, TrackedKeeps
  <2>4. \A s \in DOMAIN inflight' : Tracked(inflight[s])'
    BY <2>2, <2>3
  <2>5. \A s, u \in DOMAIN inflight' : s # u => LocksApart(inflight'[s], inflight'[u])
    BY <2>1 DEF CInv, InflightInv
  <2>6. QED
    BY <2>2, <2>4, <2>5 DEF InflightInv, LocksApart
<1>12. QED
  BY <1>5, <1>7, <1>10, <1>11 DEF CInv

\* A row whose columns are replaced by others of their types.
LEMMA RowTyped ==
    ASSUME NEW row, IsCorrection(row), NEW new, new = [i \in DOMAIN row |-> new[i]],
           new.type = row.type, new.items = row.items, new.status \in Statuses,
           new.version \in Nat, new.requester = row.requester,
           new.decider \in Members \cup {NoMember}, new.override \in BOOLEAN
    PROVE  IsCorrection(new)
<1>1. DOMAIN row = {"type", "items", "status", "version", "requester", "decider", "override"}
  BY DEF IsCorrection
<1>2. new = [type |-> new.type, items |-> new.items, status |-> new.status,
             version |-> new.version, requester |-> new.requester,
             decider |-> new.decider, override |-> new.override]
  BY <1>1
<1>3. /\ new.type \in {"REFUND", "REVERSAL"} /\ new.requester \in Members
      /\ IsItemList(new.items)
  BY DEF IsCorrection
<1>4. QED
  BY <1>2, <1>3, Zenon DEF IsCorrection

\* A decision replaces the row it read, whose version it knows.
LEMMA CommitDecisionStep ==
    ASSUME CInv, NEW r \in Requests, CommitDecision(r)
    PROVE  /\ CInv' /\ UNCHANGED corrective
           /\ \E k \in DOMAIN correction :
                 /\ correction[k].status \in Undecided
                 /\ correction'[k].status # "EXECUTED"
                 /\ \A j \in DOMAIN correction \ {k} : correction'[j] = correction[j]
<1> DEFINE q == inflight[r]
           k == q.correction
           row == correction[k]
           decider == IF q.status = "CANCELLED" THEN row.decider ELSE q.member
           override == IF q.status = "CANCELLED" THEN row.override ELSE IsOverride(q)
           new == [row EXCEPT !.status = q.status, !.version = @ + 1, !.decider = decider,
                              !.override = override]
<1>1. /\ r \in DOMAIN inflight /\ q.op = "decide" /\ ~RowLocked(k) /\ q.seen = row.version
      /\ correction' = [correction EXCEPT ![k] = new]
      /\ End(r) /\ UNCHANGED <<approvers, postings, idempotency>>
  BY DEF CommitDecision, Is, StillCurrent
<1>2. /\ k \in DOMAIN correction /\ q.member \in Members
      /\ q.status \in {"APPROVED", "REJECTED", "CANCELLED"}
      /\ row.status \in Undecided
      /\ q.status # "CANCELLED" => q.member \in approvers /\ MayDecide(q.member, k)
  BY <1>1 DEF CInv, InflightInv, Tracked, IsRequest
<1>3. IsCorrection(row)
  BY <1>2 DEF CInv, Book, BookTyped
<1>4. /\ override \in BOOLEAN /\ decider \in Members \cup {NoMember}
      /\ row.version \in Nat
  BY <1>2, <1>3 DEF IsCorrection, IsOverride
<1>5. /\ new = [i \in DOMAIN row |-> new[i]]
      /\ new.type = row.type /\ new.items = row.items /\ new.requester = row.requester
      /\ new.status = q.status /\ new.version = row.version + 1
      /\ new.decider = decider /\ new.override = override
  <2>1. DOMAIN row = {"type", "items", "status", "version", "requester", "decider", "override"}
    BY <1>3 DEF IsCorrection
  <2> HIDE DEF decider, override
  <2>2. QED
    BY <2>1
<1> HIDE DEF new
<1>6. IsCorrection(new)
  <2>1. new.status \in Statuses /\ new.version \in Nat
    BY <1>2, <1>4, <1>5 DEF Statuses, Undecided
  <2>2. QED
    BY <1>3, <1>4, <1>5, <2>1, RowTyped
<1>7. /\ DOMAIN correction' = DOMAIN correction
      /\ correction'[k] = new
      /\ \A j \in DOMAIN correction \ {k} : correction'[j] = correction[j]
  BY <1>1, <1>2
<1>8. UNCHANGED <<approvers, corrective, returned, reversed, idempotency>>
  BY <1>1 DEF postings
<1>9. k \notin ExecutedIds /\ ExecutedIds' = ExecutedIds
  BY <1>2, <1>5, <1>7 DEF ExecutedIds, Undecided
<1>10. \A l : TakenBack(ExecutedIds, l)' = TakenBack(ExecutedIds, l)
  <2>1. ASSUME NEW l PROVE AskedSum(correction', ExecutedIds, l) = AskedSum(correction, ExecutedIds, l)
    <3>1. IsFiniteSet(ExecutedIds)
      BY DEF CInv, Book, BookSound
    <3>2. \A j \in ExecutedIds : correction'[j].items = correction[j].items
      BY <1>7, <1>9 DEF ExecutedIds
    <3>3. QED
      BY <3>1, <3>2, AskedSame
  <2>2. QED
    BY <1>9, <2>1, TakenBackIs, TakenBackPrimed
<1>11. Book'
  <2>1. BookTyped'
    <3>1. \A j \in DOMAIN correction' : IsCorrection(correction'[j])
      BY <1>6, <1>7 DEF CInv, Book, BookTyped
    <3>2. /\ DOMAIN correction' \subseteq Ids /\ DOMAIN corrective' \subseteq DOMAIN correction'
          /\ returned' \in [ProductLines -> Nat] /\ reversed' \in [DOMAIN Earned -> Nat]
      BY <1>7, <1>8 DEF CInv, Book, BookTyped
    <3>3. /\ DOMAIN idempotency' \subseteq {"request", "execute"} \X Members \X Keys
          /\ \A f \in DOMAIN idempotency' : idempotency'[f] \in DOMAIN correction'
      BY <1>7, <1>8 DEF CInv, Book, BookTyped
    <3>4. QED
      BY <3>1, <3>2, <3>3, Zenon DEF BookTyped
  <2>2. BookSound'
    BY <1>5, <1>7, <1>8, <1>9 DEF CInv, Book, BookSound, WholeSale
  <2>3. NeverOverRefunded' /\ StockFollowsMoney'
    BY <1>8, <1>10 DEF CInv, Book, NeverOverRefunded, StockFollowsMoney
  <2>4. ReversalStandsAlone' /\ CommissionPaced'
    <3>1. \A j \in ExecutedIds : correction'[j] = correction[j]
      BY <1>7, <1>9 DEF ExecutedIds
    <3>2. QED
      BY <1>8, <1>9, <1>10, <3>1, CommissionKeeps DEF CInv, Book, ReversalStandsAlone
  <2>5. SeparationOfDuties'
    <3>1. ASSUME NEW j \in DOMAIN correction, j # k
          PROVE  /\ correction'[j] = correction[j]
                 /\ correction[j].decider = correction[j].requester =>
                       correction[j].override /\ SoloOwner(correction[j].decider)
                 /\ correction[j].override => correction[j].decider = correction[j].requester
                 /\ correction[j].status \in {"APPROVED", "REJECTED", "EXECUTED"} =>
                       correction[j].decider \in approvers
      BY <1>7, <3>1 DEF CInv, Book, SeparationOfDuties
    <3>2. CASE q.status = "CANCELLED"
      <4>1. /\ row.decider = row.requester => row.override /\ SoloOwner(row.decider)
            /\ row.override => row.decider = row.requester
        BY <1>2 DEF CInv, Book, SeparationOfDuties
      <4>2. /\ new.status = "CANCELLED" /\ new.decider = row.decider
            /\ new.override = row.override /\ new.requester = row.requester
        BY <1>5, <3>2
      <4>3. QED
        BY <1>7, <1>8, <3>1, <4>1, <4>2 DEF SeparationOfDuties, SoloOwner
    <3>3. CASE q.status # "CANCELLED"
      <4>1. /\ new.decider = q.member /\ new.requester = row.requester /\ q.member \in approvers
            /\ q.member = row.requester => SoloOwner(q.member)
        BY <1>2, <1>5, <3>3 DEF MayDecide
      <4>2. new.override <=> q.member = row.requester
        BY <1>5, <3>3 DEF IsOverride
      <4>3. QED
        BY <1>7, <1>8, <3>1, <4>1, <4>2 DEF SeparationOfDuties, SoloOwner
    <3>4. QED
      BY <3>2, <3>3
  <2>6. PostedExactlyOnce'
    <3>1. \A j \in DOMAIN corrective : correction'[j] = correction[j]
      BY <1>7, <1>9 DEF CInv, Book, PostedExactlyOnce, ExecutedIds
    <3>2. QED
      BY <1>8, <1>9, <3>1 DEF CInv, Book, PostedExactlyOnce
  <2>7. OneRequestPerKey'
    <3>1. \A j \in DOMAIN correction : correction'[j].requester = correction[j].requester
      BY <1>5, <1>7
    <3>2. QED
      BY <1>7, <1>8, <3>1 DEF CInv, Book, OneRequestPerKey
  <2>8. QED
    BY <2>1, <2>2, <2>3, <2>4, <2>5, <2>6, <2>7 DEF Book
<1>12. InflightInv'
  <2>1. /\ DOMAIN inflight' = DOMAIN inflight \ {r}
        /\ \A s \in DOMAIN inflight' : inflight'[s] = inflight[s]
    BY <1>1, EndInflight
  <2>2. /\ DOMAIN inflight' \subseteq Requests
        /\ \A s \in DOMAIN inflight' : Tracked(inflight'[s])
    BY <2>1 DEF CInv, InflightInv
  <2>3. \A s \in DOMAIN inflight' : inflight'[s].op = "execute" /\ inflight'[s].stage # "begun" =>
                                      inflight'[s].correction # k
    BY <1>1, <2>1 DEF RowLocked, Is
  <2>4. ASSUME NEW p, Tracked(p), p.op = "execute" /\ p.stage # "begun" => p.correction # k
        PROVE  Tracked(p)'
    <3>1. CASE p.op = "request" \/ p.correction # k
      <4>1. p.op \in {"decide", "execute"} => p.correction \in DOMAIN correction
        BY <2>4 DEF Tracked, IsRequest
      <4>2. QED
        BY <1>7, <1>8, <1>9, <2>4, <3>1, <4>1, TrackedKeeps
    <3>2. CASE p.op = "decide" /\ p.correction = k
      <4>1. p.seen \in Nat /\ p.seen <= row.version /\ IsRequest(p)
        BY <2>4, <3>2 DEF Tracked, IsRequest
      <4>2. p.seen <= correction'[k].version /\ p.seen # correction'[k].version
        BY <1>4, <1>5, <1>7, <4>1
      <4>3. (p.status # "CANCELLED" => p.member \in approvers /\ MayDecide(p.member, p.correction))'
        BY <1>5, <1>7, <1>8, <2>4, <3>2 DEF Tracked, MayDecide, SoloOwner
      <4>4. IsRequest(p)'
        BY <1>7, <4>1 DEF IsRequest, IsItemList
      <4>5. QED
        BY <3>2, <4>2, <4>3, <4>4 DEF Tracked
    <3>3. CASE p.op = "execute" /\ p.correction = k
      <4>1. IsRequest(p)'
        BY <1>7, <2>4 DEF Tracked, IsRequest, IsItemList
      <4>2. QED
        BY <2>4, <3>3, <4>1 DEF Tracked
    <3>4. QED
      BY <2>4, <3>1, <3>2, <3>3 DEF Tracked, IsRequest
  <2>5. \A s \in DOMAIN inflight' : Tracked(inflight[s])'
    BY <2>2, <2>3, <2>4
  <2>6. \A s, u \in DOMAIN inflight' : s # u => LocksApart(inflight'[s], inflight'[u])
    BY <2>1 DEF CInv, InflightInv
  <2>7. QED
    BY <2>2, <2>5, <2>6 DEF InflightInv, LocksApart
<1>13. QED
  BY <1>2, <1>5, <1>7, <1>8, <1>11, <1>12 DEF CInv

\* What was taken back of a line is a natural number, and was nothing before
\* the first execution; one that is a reversal leaves no other to be executed.
LEMMA BeforeExecution ==
    ASSUME CInv, NEW k \in DOMAIN correction, k \notin ExecutedIds,
           \A l \in DOMAIN correction[k].items :
              TakenBack(ExecutedIds, l) + correction[k].items[l] <= Price[l]
    PROVE  /\ \A l : TakenBack(ExecutedIds, l) \in Nat
           /\ \A j \in ExecutedIds : correction[j].type # "REVERSAL"
<1>1. BookTyped /\ IsFiniteSet(ExecutedIds) /\ ExecutedIds \subseteq DOMAIN correction
  BY DEF CInv, Book, BookSound, ExecutedIds
<1>2. AskNat(correction, ExecutedIds)
  BY <1>1, ItemsTyped DEF AskNat
<1>3. \A l : AskedSum(correction, ExecutedIds, l) \in Nat
  BY <1>1, <1>2, AskedTyped
<1>4. \A l : TakenBack(ExecutedIds, l) \in Nat
  BY <1>3, TakenBackIs
<1>5. ASSUME NEW j \in ExecutedIds, correction[j].type = "REVERSAL" PROVE FALSE
  <2>1. correction[j].items = WholeSale
    BY <1>1, <1>5 DEF CInv, Book, BookSound
  <2>2. PICK l : l \in DOMAIN correction[k].items
    BY <1>1, ItemsTyped
  <2>3. l \in Lines /\ correction[k].items[l] \in Nat \ {0}
    BY <1>1, <2>2, ItemsTyped
  <2>4. l \in DOMAIN correction[j].items /\ correction[j].items[l] = Price[l] /\ Price[l] \in Nat
    BY <2>1, <2>3, SaleAssumption DEF WholeSale
  <2>5. Price[l] <= TakenBack(ExecutedIds, l)
    BY <1>1, <1>2, <2>4, AskedPart, TakenBackIs
  <2>6. TakenBack(ExecutedIds, l) + correction[k].items[l] <= Price[l]
    BY <2>2
  <2>7. QED
    BY <1>4, <2>3, <2>4, <2>5, <2>6
<1>6. QED
  BY <1>4, <1>5

\* The money, the stock, the commission and the key of an execution.
LEMMA CommitExecuteStep ==
    ASSUME CInv, NEW r \in Requests, CommitExecute(r)
    PROVE  /\ CInv'
           /\ \E k \in DOMAIN correction :
                 /\ correction[k].status = "APPROVED"
                 /\ \A j \in DOMAIN correction \ {k} : correction'[j] = correction[j]
           /\ \A j \in DOMAIN corrective : j \in DOMAIN corrective' /\ corrective'[j] = corrective[j]
<1>1. PICK q, k, row : q = inflight[r] /\ k = q.correction /\ row = correction[k]
  OBVIOUS
<1> DEFINE items == row.items
           e == <<"execute", q.member, q.key>>
           new == [row EXCEPT !.status = "EXECUTED", !.version = @ + 1]
<1>20. /\ r \in DOMAIN inflight /\ q.op = "execute" /\ q.stage = "sale locked"
       /\ ReversalAlone(row.type, q.others) /\ WithinRemaining(items, q.others)
       /\ ProductsWhole(items) /\ KeyFree("execute", q.member, q.key)
  BY <1>1 DEF CommitExecute, Is
<1>2. /\ k \in DOMAIN correction /\ row.status = "APPROVED" /\ IsCorrection(row)
      /\ q.member \in Members /\ q.key \in Keys /\ q.others = ExecutedIds
      /\ q.op = "execute" /\ q.stage = "sale locked" /\ r \in DOMAIN inflight
  <2>1. Tracked(q)
    BY <1>1, <1>20 DEF CInv, InflightInv
  <2>2. /\ k \in DOMAIN correction /\ row.status = "APPROVED" /\ q.others = ExecutedIds
        /\ q.member \in Members /\ q.key \in Keys
    BY <1>1, <1>20, <2>1 DEF Tracked, IsRequest
  <2>3. IsCorrection(row)
    BY <1>1, <2>2 DEF CInv, Book, BookTyped
  <2>4. QED
    BY <1>20, <2>2, <2>3
<1>21. /\ row.type = "REVERSAL" => ExecutedIds = {}
       /\ \A l \in DOMAIN items : TakenBack(ExecutedIds, l) + items[l] <= Price[l]
       /\ \A l \in DOMAIN items \cap ProductLines : items[l] = Price[l]
       /\ e \notin DOMAIN idempotency
  BY <1>2, <1>20 DEF ReversalAlone, WithinRemaining, ProductsWhole, KeyFree
<1>22. /\ corrective' = Insert(corrective, k, [kind |-> row.type, items |-> items])
       /\ returned' = PutBack(items)
       /\ reversed' = TakeBackCommission(items)
       /\ approvers' = approvers
  BY <1>1 DEF CommitExecute
<1>23. /\ correction' = [correction EXCEPT ![k] = new]
       /\ idempotency' = Insert(idempotency, e, k)
       /\ End(r)
  BY <1>1 DEF CommitExecute
<1>3. /\ k \notin ExecutedIds /\ IsFiniteSet(ExecutedIds) /\ ExecutedIds \subseteq DOMAIN correction
      /\ BookTyped
  BY <1>1, <1>2 DEF ExecutedIds, CInv, Book, BookSound
<1>4. /\ \A l : TakenBack(ExecutedIds, l) \in Nat
      /\ \A j \in ExecutedIds : correction[j].type # "REVERSAL"
  BY <1>1, <1>2, <1>21, <1>3, BeforeExecution
<1>5. /\ DOMAIN items \subseteq Lines /\ DOMAIN items # {}
      /\ \A l \in DOMAIN items : items[l] \in Nat \ {0}
      /\ row.type = "REVERSAL" => items = WholeSale
  BY <1>1, <1>2, <1>3, ItemsTyped DEF CInv, Book, BookSound
<1>6. /\ new = [i \in DOMAIN row |-> new[i]]
      /\ new.type = row.type /\ new.items = items /\ new.requester = row.requester
      /\ new.status = "EXECUTED" /\ new.version = row.version + 1
      /\ new.decider = row.decider /\ new.override = row.override
  <2>1. DOMAIN row = {"type", "items", "status", "version", "requester", "decider", "override"}
    BY <1>2 DEF IsCorrection
  <2>2. QED
    BY <2>1
<1> HIDE DEF new
<1>7. IsCorrection(new)
  <2>1. /\ new.status \in Statuses /\ new.version \in Nat /\ new.override \in BOOLEAN
        /\ new.decider \in Members \cup {NoMember}
    <3>1. /\ row.version \in Nat /\ row.override \in BOOLEAN
          /\ row.decider \in Members \cup {NoMember}
      BY <1>2 DEF IsCorrection
    <3>2. QED
      BY <1>6, <3>1 DEF Statuses
  <2>2. QED
    BY <1>2, <1>6, <2>1, RowTyped
<1>8. /\ DOMAIN correction' = DOMAIN correction
      /\ correction'[k] = new
      /\ \A j \in DOMAIN correction \ {k} : correction'[j] = correction[j]
  BY <1>2, <1>23
<1>9. ExecutedIds' = ExecutedIds \cup {k}
  BY <1>2, <1>6, <1>8 DEF ExecutedIds
<1>10. \A j \in ExecutedIds : correction'[j] = correction[j]
  BY <1>3, <1>8
<1>11. /\ DOMAIN corrective' = DOMAIN corrective \cup {k}
       /\ corrective'[k] = [kind |-> row.type, items |-> items]
       /\ \A j \in DOMAIN corrective \ {k} : corrective'[j] = corrective[j]
  BY <1>22 DEF Insert
<1>12. DOMAIN corrective = ExecutedIds
  BY DEF CInv, Book, PostedExactlyOnce
<1>14. e \in {"request", "execute"} \X Members \X Keys /\ e[1] = "execute"
  BY <1>2
<1> HIDE DEF e
<1>13. /\ DOMAIN idempotency' = DOMAIN idempotency \cup {e}
       /\ idempotency'[e] = k
       /\ \A f \in DOMAIN idempotency : idempotency'[f] = idempotency[f]
  BY <1>21, <1>23 DEF Insert
<1>15. \A l : TakenBack(ExecutedIds, l)' =
               TakenBack(ExecutedIds, l) + (IF l \in DOMAIN items THEN items[l] ELSE 0)
  <2>1. AskNat(correction', ExecutedIds \cup {k})
    BY <1>3, <1>5, <1>6, <1>8, <1>10, ItemsTyped DEF AskNat
  <2>2. \A j \in ExecutedIds : correction'[j].items = correction[j].items
    BY <1>10
  <2> HIDE DEF items
  <2>3. ASSUME NEW l
        PROVE  AskedSum(correction', ExecutedIds \cup {k}, l) =
                  AskedSum(correction, ExecutedIds, l) + AskedOf(correction'[k].items, l)
    <3>1. IsFiniteSet(ExecutedIds) /\ k \notin ExecutedIds
      BY <1>3
    <3>2. QED
      BY <3>1, <2>1, <2>2, AskedAdd
  <2>4. correction'[k].items = items
    BY <1>6, <1>8 DEF items
  <2>5. QED
    BY <1>9, <2>3, <2>4, TakenBackIs, TakenBackPrimed DEF AskedOf
<1>16. /\ \A l \in ProductLines : returned'[l] = returned[l] + (IF l \in DOMAIN items THEN Quantity[l] ELSE 0)
       /\ returned' \in [ProductLines -> Nat]
  <2>1. ASSUME NEW l \in ProductLines PROVE returned[l] \in Nat /\ Quantity[l] \in Nat
    BY <1>3, SaleAssumption DEF BookTyped
  <2>2. returned' = [l \in ProductLines |-> returned[l] + (IF l \in DOMAIN items THEN Quantity[l] ELSE 0)]
    BY <1>22 DEF PutBack
  <2> HIDE DEF items
  <2>3. QED
    BY <2>1, <2>2
<1>24. \A l : PartsOf(l)' = IF l \in DOMAIN items THEN PartsOf(l) \cup {k} ELSE PartsOf(l)
  BY <1>6, <1>8, <1>9, <1>10 DEF PartsOf
<1>17. reversed' \in [DOMAIN Earned -> Nat] /\ CommissionPaced'
  <2>0. reversed' = [l \in DOMAIN Earned |->
           reversed[l] + (IF l \in DOMAIN items
                          THEN Adjustment(Earned[l], reversed[l], items[l], Price[l]) ELSE 0)]
    BY <1>22 DEF TakeBackCommission
  <2> HIDE DEF items
  <2>1. ASSUME NEW l \in DOMAIN Earned
        PROVE  /\ reversed'[l] \in Nat /\ reversed'[l] <= Earned[l].amount
               /\ RowPaced(Earned[l], Price[l], TakenBack(ExecutedIds, l)', reversed'[l],
                           Cardinality(PartsOf(l)'))
               /\ PartsOf(l)' = {} => TakenBack(ExecutedIds, l)' = 0 /\ reversed'[l] = 0
    <3> DEFINE back == TakenBack(ExecutedIds, l)
               n == Cardinality(PartsOf(l))
    <3>1. /\ reversed[l] \in Nat /\ reversed[l] <= Earned[l].amount
          /\ RowPaced(Earned[l], Price[l], back, reversed[l], n)
          /\ PartsOf(l) = {} => back = 0 /\ reversed[l] = 0
      BY <1>3 DEF CInv, Book, BookTyped, CommissionPaced
    <3>2. back \in Nat
      BY <1>4
    <3>3. /\ IsFiniteSet(PartsOf(l)) /\ n \in Nat
          /\ Cardinality(PartsOf(l) \cup {k}) = n + 1
      <4>1. PartsOf(l) \in SUBSET ExecutedIds
        BY DEF PartsOf
      <4>2. IsFiniteSet(PartsOf(l)) /\ k \notin PartsOf(l)
        BY <1>3, <4>1, FS_Subset
      <4>3. QED
        BY <4>2, FS_CardinalityType, FS_AddElement
    <3> HIDE DEF back, n
    <3>4. CASE l \notin DOMAIN items
      <4>1. reversed'[l] = reversed[l]
        BY <2>0, <3>1, <3>4
      <4>2. TakenBack(ExecutedIds, l)' = back /\ PartsOf(l)' = PartsOf(l)
        BY <1>15, <1>24, <3>2, <3>4 DEF back
      <4>3. QED
        BY <3>1, <4>1, <4>2 DEF n
    <3>5. CASE l \in DOMAIN items
      <4> DEFINE t == Adjustment(Earned[l], reversed[l], items[l], Price[l])
      <4>1. reversed'[l] = reversed[l] + t
        BY <2>0, <3>5
      <4>2. items[l] \in Nat \ {0} /\ back + items[l] <= Price[l] /\ Price[l] \in Nat \ {0}
        BY <1>5, <1>21, <3>5, SaleAssumption DEF back, items
      <4>3. AccrualSound(Earned[l])
        BY EarnedAssumption DEF AccrualSound
      <4>4. /\ t \in Nat /\ reversed[l] + t <= Earned[l].amount
            /\ RowPaced(Earned[l], Price[l], back + items[l], reversed[l] + t, n + 1)
        BY <3>1, <3>2, <3>3, <4>2, <4>3, AdjustmentPaced
      <4>5. TakenBack(ExecutedIds, l)' = back + items[l] /\ PartsOf(l)' = PartsOf(l) \cup {k}
        BY <1>15, <1>24, <3>5 DEF back
      <4> HIDE DEF t
      <4>6. QED
        BY <3>1, <3>3, <4>1, <4>4, <4>5
    <3>6. QED
      BY <3>4, <3>5
  <2>2. DOMAIN reversed' = DOMAIN Earned /\ reversed' = [l \in DOMAIN Earned |-> reversed'[l]]
    BY <2>0
  <2>3. CommissionPaced'
    BY <2>1 DEF CommissionPaced
  <2>4. QED
    BY <2>1, <2>2, <2>3
<1> HIDE DEF items
<1>18. Book'
  <2>1. BookTyped'
    <3>1. \A j \in DOMAIN correction' : IsCorrection(correction'[j])
      BY <1>7, <1>8 DEF CInv, Book, BookTyped
    <3>2. DOMAIN correction' \subseteq Ids /\ DOMAIN corrective' \subseteq DOMAIN correction'
      BY <1>2, <1>8, <1>11 DEF CInv, Book, BookTyped
    <3>3. /\ DOMAIN idempotency' \subseteq {"request", "execute"} \X Members \X Keys
          /\ \A f \in DOMAIN idempotency' : idempotency'[f] \in DOMAIN correction'
      BY <1>2, <1>8, <1>13, <1>14 DEF CInv, Book, BookTyped
    <3>4. QED
      BY <1>16, <1>17, <3>1, <3>2, <3>3, Zenon DEF BookTyped
  <2>2. BookSound'
    <3>1. IsFiniteSet(ExecutedIds')
      BY <1>3, <1>9, FS_AddElement
    <3>2. \A j \in DOMAIN correction' : correction'[j].type = "REVERSAL" => correction'[j].items = WholeSale
      BY <1>5, <1>6, <1>8 DEF CInv, Book, BookSound, items
    <3>3. \A f \in DOMAIN idempotency' : f[1] = "execute" => idempotency'[f] \in ExecutedIds'
      BY <1>9, <1>13 DEF CInv, Book, BookSound
    <3>4. QED
      BY <1>22, <3>1, <3>2, <3>3 DEF CInv, Book, BookSound, WholeSale
  <2>3. NeverOverRefunded'
    <3>1. ASSUME NEW l \in Lines PROVE TakenBack(ExecutedIds, l)' <= Price[l]
      <4>1. TakenBack(ExecutedIds, l) \in Nat /\ TakenBack(ExecutedIds, l) <= Price[l]
        BY <1>4 DEF CInv, Book, NeverOverRefunded
      <4>2. l \in DOMAIN items => TakenBack(ExecutedIds, l) + items[l] <= Price[l]
        BY <1>21 DEF items
      <4>3. QED
        BY <1>15, <4>1, <4>2
    <3>2. QED
      BY <3>1 DEF NeverOverRefunded
  <2>4. ReversalStandsAlone'
    <3>1. \A j \in ExecutedIds : correction'[j].type # "REVERSAL"
      BY <1>4, <1>10
    <3>2. QED
      BY <1>21, <1>6, <1>8, <1>9, <3>1 DEF ReversalStandsAlone
  <2>5. StockFollowsMoney'
    <3>1. ASSUME NEW l \in ProductLines
          PROVE  /\ TakenBack(ExecutedIds, l)' \in {0, Price[l]}
                 /\ returned'[l] = IF TakenBack(ExecutedIds, l)' = 0 THEN 0 ELSE Quantity[l]
      <4>1. /\ TakenBack(ExecutedIds, l) \in {0, Price[l]}
            /\ returned[l] = IF TakenBack(ExecutedIds, l) = 0 THEN 0 ELSE Quantity[l]
        BY DEF CInv, Book, StockFollowsMoney
      <4>2. Price[l] \in Nat \ {0} /\ Quantity[l] \in Nat \ {0}
        BY SaleAssumption
      <4>3. CASE l \in DOMAIN items
        <5>1. items[l] = Price[l] /\ TakenBack(ExecutedIds, l) + items[l] <= Price[l]
          BY <1>21, <4>3 DEF items
        <5>2. TakenBack(ExecutedIds, l) = 0
          BY <1>4, <4>1, <4>2, <5>1
        <5>3. TakenBack(ExecutedIds, l)' = Price[l] /\ returned'[l] = Quantity[l]
          BY <1>15, <1>16, <4>1, <4>2, <4>3, <5>1, <5>2
        <5>4. QED
          BY <4>2, <5>3
      <4>4. CASE l \notin DOMAIN items
        BY <1>4, <1>15, <1>16, <4>1, <4>2, <4>4
      <4>5. QED
        BY <4>3, <4>4
    <3>2. QED
      BY <3>1 DEF StockFollowsMoney
  <2>6. CommissionPaced'
    BY <1>17
  <2>7. SeparationOfDuties'
    <3>1. \A j \in DOMAIN correction :
            /\ correction'[j].decider = correction[j].decider
            /\ correction'[j].requester = correction[j].requester
            /\ correction'[j].override = correction[j].override
            /\ correction'[j].status \in {"APPROVED", "REJECTED", "EXECUTED"} =>
                  correction[j].status \in {"APPROVED", "REJECTED", "EXECUTED"}
      BY <1>1, <1>2, <1>6, <1>8
    <3>2. QED
      BY <1>22, <1>8, <3>1 DEF CInv, Book, SeparationOfDuties, SoloOwner
  <2>8. PostedExactlyOnce'
    <3>1. \A f \in DOMAIN idempotency : f[1] = "execute" => idempotency[f] # k
      BY <1>3 DEF CInv, Book, BookSound
    <3>2. ASSUME NEW j \in DOMAIN corrective
          PROVE  /\ corrective'[j] = [kind |-> correction'[j].type, items |-> correction'[j].items]
                 /\ \E f \in DOMAIN idempotency' : f[1] = "execute" /\ idempotency'[f] = j
                 /\ \A f, g \in DOMAIN idempotency' :
                       (f[1] = "execute" /\ g[1] = "execute" /\ idempotency'[f] = j /\ idempotency'[g] = j)
                           => f = g
      <4>1. j # k /\ correction'[j] = correction[j] /\ corrective'[j] = corrective[j]
        BY <1>3, <1>10, <1>11, <1>12
      <4>2. corrective[j] = [kind |-> correction[j].type, items |-> correction[j].items]
        BY DEF CInv, Book, PostedExactlyOnce
      <4>3. PICK f \in DOMAIN idempotency : f[1] = "execute" /\ idempotency[f] = j
        BY DEF CInv, Book, PostedExactlyOnce
      <4>4. \A f1, g \in DOMAIN idempotency :
              (f1[1] = "execute" /\ g[1] = "execute" /\ idempotency[f1] = j /\ idempotency[g] = j)
                  => f1 = g
        BY DEF CInv, Book, PostedExactlyOnce
      <4>5. QED
        BY <1>13, <4>1, <4>2, <4>3, <4>4
    <3>3. /\ corrective'[k] = [kind |-> correction'[k].type, items |-> correction'[k].items]
          /\ e \in DOMAIN idempotency' /\ e[1] = "execute" /\ idempotency'[e] = k
          /\ \A f \in DOMAIN idempotency' : f[1] = "execute" /\ idempotency'[f] = k => f = e
      BY <1>6, <1>8, <1>11, <1>13, <1>14, <3>1
    <3>4. DOMAIN corrective' = ExecutedIds'
      BY <1>9, <1>11, <1>12
    <3>5. QED
      BY <1>11, <3>2, <3>3, <3>4 DEF PostedExactlyOnce
  <2>9. OneRequestPerKey'
    <3>1. \A j \in DOMAIN correction : correction'[j].requester = correction[j].requester
      BY <1>1, <1>6, <1>8
    <3>2. \A f \in DOMAIN idempotency' : f[1] = "request" =>
             f \in DOMAIN idempotency /\ idempotency'[f] = idempotency[f]
      BY <1>13, <1>14
    <3>3. \A f \in DOMAIN idempotency : f \in DOMAIN idempotency' /\ idempotency'[f] = idempotency[f]
      BY <1>13
    <3>4. QED
      BY <1>8, <3>1, <3>2, <3>3 DEF CInv, Book, OneRequestPerKey
  <2>10. QED
    BY <2>1, <2>2, <2>3, <2>4, <2>5, <2>6, <2>7, <2>8, <2>9 DEF Book
<1>19. InflightInv'
  <2>1. /\ DOMAIN inflight' = DOMAIN inflight \ {r}
        /\ \A s \in DOMAIN inflight' : inflight'[s] = inflight[s]
    BY <1>23, EndInflight
  <2>2. /\ DOMAIN inflight' \subseteq Requests
        /\ \A s \in DOMAIN inflight' : Tracked(inflight'[s])
    BY <2>1 DEF CInv, InflightInv
  <2>3. \A s \in DOMAIN inflight' : LocksApart(inflight'[s], q)
    BY <1>1, <1>2, <2>1 DEF CInv, InflightInv
  <2>4. ASSUME NEW p, Tracked(p), LocksApart(p, q) PROVE Tracked(p)'
    <3>1. IsRequest(p)'
      BY <1>8, <2>4 DEF Tracked, IsRequest, IsItemList
    <3>2. CASE p.op = "request"
      BY <2>4, <3>1, <3>2 DEF Tracked, WholeSale
    <3>3. CASE p.op = "decide"
      <4>1. /\ p.seen \in Nat /\ p.correction \in DOMAIN correction
            /\ p.seen <= correction[p.correction].version
        BY <2>4, <3>3 DEF Tracked, IsRequest
      <4>2. (p.status # "CANCELLED" => p.member \in approvers /\ MayDecide(p.member, p.correction))'
        <5>1. correction'[p.correction].requester = correction[p.correction].requester
          BY <1>1, <1>6, <1>8, <4>1
        <5>2. QED
          BY <1>22, <2>4, <3>3, <5>1 DEF Tracked, MayDecide, SoloOwner
      <4>3. CASE p.correction # k
        BY <1>8, <2>4, <3>1, <3>3, <4>1, <4>2, <4>3 DEF Tracked
      <4>4. CASE p.correction = k
        <5>1. p.seen < correction'[k].version
          <6>1. row.version \in Nat /\ p.seen <= row.version
            BY <1>1, <1>2, <4>1, <4>4 DEF IsCorrection
          <6>2. QED
            BY <1>6, <1>8, <4>1, <6>1
        <5>2. correction'[k].version \in Nat
          BY <1>7, <1>8 DEF IsCorrection
        <5>3. QED
          BY <3>1, <3>3, <4>1, <4>2, <4>4, <5>1, <5>2 DEF Tracked
      <4>5. QED
        BY <4>3, <4>4
    <3>4. CASE p.op = "execute"
      <4>1. /\ p.stage # "sale locked"
            /\ p.stage # "begun" => p.correction # k
        BY <1>1, <1>2, <2>4, <3>4 DEF LocksApart
      <4>2. p.correction \in DOMAIN correction
        BY <2>4, <3>4 DEF Tracked, IsRequest
      <4>3. QED
        BY <1>8, <2>4, <3>1, <3>4, <4>1, <4>2 DEF Tracked
    <3>5. QED
      BY <2>4, <3>2, <3>3, <3>4 DEF Tracked, IsRequest
  <2>5. \A s \in DOMAIN inflight' : Tracked(inflight[s])'
    BY <2>2, <2>3, <2>4
  <2>6. \A s, u \in DOMAIN inflight' : s # u => LocksApart(inflight'[s], inflight'[u])
    BY <2>1 DEF CInv, InflightInv
  <2>7. QED
    BY <2>2, <2>5, <2>6 DEF InflightInv, LocksApart
<1> QED
  BY <1>1, <1>2, <1>3, <1>8, <1>11, <1>12, <1>18, <1>19 DEF CInv
-----------------------------------------------------------------------------
(* Every step of the system.                                               *)

\* The sale has no correction at first.
LEMMA InitStep == Init => CInv
<1> SUFFICES ASSUME Init PROVE CInv
  OBVIOUS
<1>1. /\ DOMAIN correction = {} /\ DOMAIN corrective = {} /\ DOMAIN idempotency = {}
      /\ DOMAIN inflight = {} /\ approvers \in ApproverSets
      /\ returned = [l \in ProductLines |-> 0] /\ reversed = [l \in DOMAIN Earned |-> 0]
  BY DEF Init
<1>2. ExecutedIds = {}
  BY <1>1 DEF ExecutedIds
<1>3. \A l : TakenBack(ExecutedIds, l) = 0
  BY <1>2, SumEmpty, TakenBackIs DEF AskedSum
<1>4. BookTyped /\ BookSound
  BY <1>1, <1>2, FS_EmptySet DEF BookTyped, BookSound
<1>5. NeverOverRefunded /\ StockFollowsMoney
  BY <1>1, <1>3, SaleAssumption DEF NeverOverRefunded, StockFollowsMoney
<1>6. CommissionPaced
  <2>1. ASSUME NEW l \in DOMAIN Earned
        PROVE  Earned[l].amount \in Nat /\ RowPaced(Earned[l], Price[l], 0, 0, 0)
    <3>1. AccrualSound(Earned[l]) /\ Price[l] \in Nat \ {0}
      BY EarnedAssumption, SaleAssumption DEF AccrualSound
    <3>2. QED
      BY <3>1, AccrualNumbers, PacedStart DEF RowPaced
  <2>2. \A l : PartsOf(l) = {} /\ Cardinality(PartsOf(l)) = 0
    BY <1>2, FS_EmptySet DEF PartsOf
  <2>3. QED
    BY <1>1, <1>3, <2>1, <2>2 DEF CommissionPaced
<1>7. ReversalStandsAlone /\ SeparationOfDuties /\ PostedExactlyOnce /\ OneRequestPerKey
  BY <1>1, <1>2 DEF ReversalStandsAlone, SeparationOfDuties, PostedExactlyOnce, OneRequestPerKey
<1>8. InflightInv
  BY <1>1 DEF InflightInv
<1>9. QED
  BY <1>4, <1>5, <1>6, <1>7, <1>8 DEF CInv, Book

\* What a step may do to rows that are decided and to corrective transactions.
RowsKept ==
    /\ \A k \in DOMAIN correction :
          /\ correction[k].status \notin Undecided => correction'[k] = correction[k]
          /\ correction'[k].status = "EXECUTED" => correction[k].status \in {"APPROVED", "EXECUTED"}
    /\ \A k \in DOMAIN corrective : k \in DOMAIN corrective' /\ corrective'[k] = corrective[k]

\* Every step keeps the invariant and what was decided.
LEMMA NextStep == CInv /\ [Next]_vars => CInv' /\ RowsKept
<1> SUFFICES ASSUME CInv, [Next]_vars PROVE CInv' /\ RowsKept
  OBVIOUS
<1>1. ASSUME UNCHANGED <<correction, corrective>> PROVE RowsKept
  BY <1>1 DEF RowsKept
<1>2. ASSUME NEW r \in Requests, Ask(r) PROVE CInv' /\ RowsKept
  <2>1. ASSUME NEW k \in Ids, CommitRequest(r, k) PROVE CInv' /\ RowsKept
    <3>1. /\ CInv' /\ UNCHANGED corrective
          /\ \A j \in DOMAIN correction : correction'[j] = correction[j]
      BY <2>1, CommitRequestStep
    <3>2. QED
      BY <3>1 DEF RowsKept
  <2>2. ASSUME NEW m \in Members, NEW key \in Keys, NEW items \in RefundItems,
               BeginRefund(r, m, key, items)
        PROVE  CInv' /\ RowsKept
    BY <1>1, <2>2, BeginRefundStep
  <2>3. ASSUME NEW m \in Members, NEW key \in Keys, BeginReversal(r, m, key)
        PROVE  CInv' /\ RowsKept
    BY <1>1, <2>3, BeginReversalStep
  <2>4. QED
    BY <1>2, <2>1, <2>2, <2>3 DEF Ask
<1>3. ASSUME NEW r \in Requests, Decide(r) PROVE CInv' /\ RowsKept
  <2>1. ASSUME CommitDecision(r) PROVE CInv' /\ RowsKept
    <3>1. /\ CInv' /\ UNCHANGED corrective
          /\ \E k \in DOMAIN correction :
                /\ correction[k].status \in Undecided
                /\ correction'[k].status # "EXECUTED"
                /\ \A j \in DOMAIN correction \ {k} : correction'[j] = correction[j]
      BY <2>1, CommitDecisionStep
    <3>2. QED
      BY <3>1 DEF RowsKept
  <2>2. ASSUME NEW k \in Ids, NEW m \in Members, NEW s \in {"APPROVED", "REJECTED"},
               BeginDecision(r, k, m, s)
        PROVE  CInv' /\ RowsKept
    BY <1>1, <2>2, BeginDecisionStep
  <2>3. ASSUME NEW k \in Ids, NEW m \in Members, BeginCancel(r, k, m) PROVE CInv' /\ RowsKept
    BY <1>1, <2>3, BeginCancelStep
  <2>4. QED
    BY <1>3, <2>1, <2>2, <2>3 DEF Decide
<1>4. ASSUME NEW r \in Requests, Execute(r) PROVE CInv' /\ RowsKept
  <2>1. ASSUME CommitExecute(r) PROVE CInv' /\ RowsKept
    <3>1. CInv'
      BY <2>1, CommitExecuteStep
    <3>2. PICK k \in DOMAIN correction :
             /\ correction[k].status = "APPROVED"
             /\ \A j \in DOMAIN correction \ {k} : correction'[j] = correction[j]
      BY <2>1, CommitExecuteStep
    <3>3. \A j \in DOMAIN corrective : j \in DOMAIN corrective' /\ corrective'[j] = corrective[j]
      BY <2>1, CommitExecuteStep
    <3>4. QED
      BY <3>1, <3>2, <3>3 DEF RowsKept, Undecided
  <2>2. ASSUME NEW k \in Ids, NEW m \in Members, NEW key \in Keys, BeginExecute(r, k, m, key)
        PROVE  CInv' /\ RowsKept
    BY <1>1, <2>2, BeginExecuteStep
  <2>3. QED
    BY <1>1, <1>4, <2>1, <2>2, LockCorrectionStep, LockSaleStep DEF Execute
<1>5. ASSUME NEW r \in Requests, Abandon(r) PROVE CInv' /\ RowsKept
  BY <1>1, <1>5, AbandonKeeps
<1>6. CASE UNCHANGED vars
  <2>1. UNCHANGED <<approvers, correction, postings, idempotency>> /\ inflight' = inflight
    BY <1>6 DEF vars, postings
  <2>2. Book' /\ ExecutedIds' = ExecutedIds
    BY <2>1, BookKeeps DEF CInv
  <2>3. InflightInv'
    <3>1. ASSUME NEW p, Tracked(p) PROVE Tracked(p)'
      BY <2>1, <2>2, <3>1, TrackedKeeps
    <3>2. \A s \in DOMAIN inflight' : Tracked(inflight'[s])
      BY <2>1 DEF CInv, InflightInv
    <3>3. \A s \in DOMAIN inflight' : Tracked(inflight[s])'
      BY <3>1, <3>2
    <3>4. QED
      BY <2>1, <3>3 DEF CInv, InflightInv, LocksApart
  <2>4. QED
    BY <1>1, <2>1, <2>2, <2>3 DEF CInv, postings
<1>7. QED
  BY <1>2, <1>3, <1>4, <1>5, <1>6 DEF Next

\* Hence the invariant always holds.
LEMMA CInvAlways == Spec => []CInv
  BY InitStep, NextStep, PTL DEF Spec

\* The invariant implies the types.
LEMMA CInvTypeOK == CInv => TypeOK
<1> SUFFICES ASSUME CInv PROVE TypeOK
  OBVIOUS
<1>1. BookTyped /\ DOMAIN inflight \subseteq Requests
  BY DEF CInv, Book, InflightInv
<1>2. \A r \in DOMAIN inflight : IsRequest(inflight[r])
  BY DEF CInv, InflightInv, Tracked
<1>3. QED
  BY <1>1, <1>2 DEF TypeOK, BookTyped

\* Of any sale, and whatever refunds, reversals, decisions and executions of it
\* are in flight together: no line gives back more than its price, a reversal
\* stands alone, and what an execution read under its locks stays true.
THEOREM MoneyIsReturnedOnce == Spec => []MoneyReturnedOnce
<1>1. CInv => MoneyReturnedOnce
  <2> SUFFICES ASSUME CInv PROVE MoneyReturnedOnce
    OBVIOUS
  <2>1. LocksHold
    BY DEF CInv, InflightInv, Tracked, LocksHold, Is
  <2>2. QED
    BY <2>1, CInvTypeOK DEF CInv, Book, MoneyReturnedOnce
<1>2. QED
  BY <1>1, CInvAlways, PTL

\* What keeps pace follows the share of the money.
LEMMA CommissionIsFollowed == CInv => CommissionFollows
<1> SUFFICES ASSUME CInv, NEW l \in DOMAIN Earned
             PROVE  FollowsShare(Earned[l].amount, reversed[l], TakenBack(ExecutedIds, l), Price[l],
                                 Cardinality(PartsOf(l)))
  BY DEF CommissionFollows
<1>1. /\ reversed[l] <= Earned[l].amount
      /\ RowPaced(Earned[l], Price[l], TakenBack(ExecutedIds, l), reversed[l], Cardinality(PartsOf(l)))
      /\ PartsOf(l) = {} => TakenBack(ExecutedIds, l) = 0 /\ reversed[l] = 0
      /\ reversed[l] \in Nat
  BY DEF CInv, Book, BookTyped, CommissionPaced
<1>2. /\ IsFiniteSet(ExecutedIds) /\ ExecutedIds \subseteq DOMAIN correction /\ BookTyped
  BY DEF CInv, Book, BookSound, ExecutedIds
<1>3. TakenBack(ExecutedIds, l) \in Nat
  <2>1. AskNat(correction, ExecutedIds)
    BY <1>2, ItemsTyped DEF AskNat
  <2>2. QED
    BY <1>2, <2>1, AskedTyped, TakenBackIs
<1>4. Cardinality(PartsOf(l)) \in Nat /\ (Cardinality(PartsOf(l)) = 0 => PartsOf(l) = {})
  <2>1. PartsOf(l) \in SUBSET ExecutedIds
    BY DEF PartsOf
  <2>2. IsFiniteSet(PartsOf(l))
    BY <1>2, <2>1, FS_Subset
  <2>3. QED
    BY <2>2, FS_CardinalityType, FS_EmptySet
<1>5. l \in Lines /\ Price[l] \in Nat \ {0} /\ AccrualSound(Earned[l])
  BY SaleAssumption, EarnedAssumption DEF AccrualSound
<1>6. TakenBack(ExecutedIds, l) <= Price[l]
  BY <1>5 DEF CInv, Book, NeverOverRefunded
<1>7. QED
  BY <1>1, <1>3, <1>4, <1>5, <1>6, PacedFollows

\* Of any sale and any corrections of it executed together: the units of a product
\* line come back with its money, whole and once; and the commission taken back of
\* a service line is never more than was earned, is the share of the money given
\* back to within two minor units a correction, and of a line given back whole in
\* n corrections leaves fewer than n minor units - none after a reversal, which is
\* one correction of every line (transaction-correction-execution.service.ts:307-363).
THEOREM EffectsAreTheMoneys == Spec => []EffectsFollowMoney
<1>1. CInv => EffectsFollowMoney
  BY CommissionIsFollowed DEF CInv, Book, EffectsFollowMoney
<1>2. QED
  BY <1>1, CInvAlways, PTL

\* Nobody decides on their own request but a solo owner, on record as an
\* override, and what was executed was approved by somebody who may approve.
THEOREM DutiesAreSeparate == Spec => []SeparationOfDuties
<1>1. CInv => SeparationOfDuties
  BY DEF CInv, Book
<1>2. QED
  BY <1>1, CInvAlways, PTL

\* An Idempotency-Key asks for one correction and posts one, whatever duplicates
\* are in flight, and exactly the executed corrections were posted.
THEOREM CorrectionKeysActOnce == Spec => []KeysActOnce
<1>1. CInv => KeysActOnce
  BY DEF CInv, Book, KeysActOnce
<1>2. QED
  BY <1>1, CInvAlways, PTL

\* A decided correction is never decided again, only an approved one is executed,
\* and what was posted stays as posted.
THEOREM DecisionsAreFinal == Spec => DecidedOnce
<1>1. CInv /\ [Next]_vars =>
        [/\ \A k \in DOMAIN correction :
               /\ correction[k].status \notin Undecided => correction'[k] = correction[k]
               /\ correction'[k].status = "EXECUTED" => correction[k].status \in {"APPROVED", "EXECUTED"}
         /\ \A k \in DOMAIN corrective :
               k \in DOMAIN corrective' /\ corrective'[k] = corrective[k]]_vars
  BY NextStep DEF RowsKept
<1>2. QED
  BY <1>1, CInvAlways, PTL DEF Spec, DecidedOnce
=============================================================================
