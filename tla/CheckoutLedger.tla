--------------------------- MODULE CheckoutLedger ---------------------------
(***************************************************************************)
(* What a checkout promises, without requests, locks, versions, payment    *)
(* rows or keys: an amount due is collected in parts that never exceed it, *)
(* may be repriced only while nothing has been collected, and is settled   *)
(* at the very step that collects its last part.  CheckoutPayments         *)
(* implements this specification (see its instance Ledger).                *)
(***************************************************************************)
EXTENDS Integers

CONSTANT Checkouts

VARIABLES phase, due, collected

ledger == <<phase, due, collected>>

Init ==
    /\ phase = [c \in Checkouts |-> "absent"]
    /\ due = [c \in Checkouts |-> 0]
    /\ collected = [c \in Checkouts |-> 0]

\* Only the amount of checkout c changes.
OnlyAt(new, old, c) ==
    new \in [Checkouts -> Nat] /\ \A d \in Checkouts \ {c} : new[d] = old[d]

Open(c) ==
    /\ phase[c] = "absent"
    /\ phase' = [phase EXCEPT ![c] = "collecting"]
    /\ OnlyAt(due', due, c) /\ due'[c] > 0
    /\ UNCHANGED collected

Reprice(c) ==
    /\ phase[c] = "collecting"
    /\ collected[c] = 0
    /\ OnlyAt(due', due, c)
    /\ UNCHANGED <<phase, collected>>

Collects(c) ==
    /\ OnlyAt(collected', collected, c)
    /\ collected[c] < collected'[c] /\ collected'[c] <= due[c]
    /\ UNCHANGED due

\* Confirming a part, the last one included.
Collect(c) ==
    /\ phase[c] = "collecting"
    /\ Collects(c)
    /\ phase' = [phase EXCEPT ![c] = IF collected'[c] = due[c] THEN "settled" ELSE @]

\* A payment of a checkout that was voided meanwhile may still be confirmed;
\* it is collected, and nothing is ever posted for it.
CollectAfterCancel(c) == phase[c] = "cancelled" /\ Collects(c) /\ UNCHANGED phase

Cancel(c) ==
    /\ phase[c] = "collecting"
    /\ phase' = [phase EXCEPT ![c] = "cancelled"]
    /\ UNCHANGED <<due, collected>>

Next == \E c \in Checkouts :
    Open(c) \/ Reprice(c) \/ Collect(c) \/ CollectAfterCancel(c) \/ Cancel(c)

Spec == Init /\ [][Next]_ledger
=============================================================================
