----------------------------- MODULE Commissions -----------------------------
(***************************************************************************)
(* The rules of commissions and the commissions of a sale side by side.    *)
(* They share no variable: a sale takes the terms of the rule that was     *)
(* picked, whichever that is.  A behaviour belongs to one of the two       *)
(* components and the other stands still.                                  *)
(***************************************************************************)
EXTENDS CommissionRules

CONSTANTS Lines, Order, Kinds, Prices, Adjustments, Rules, MaxSteps  \* of CommissionAccruals

VARIABLES
    part,      \* the component that moves
    line, adjustment, matched, accrual, refunded, reversed, steps, parts  \* of CommissionAccruals

sale == <<line, adjustment, matched, accrual, refunded, reversed, steps, parts>>

Sale == INSTANCE CommissionAccruals

ASSUME SaleAssumption == Sale!DataSound

\* Rules without any sale: its variables stand still.
SaleAtRest ==
    /\ line = Never /\ adjustment = Never /\ matched = Never
    /\ accrual = Never /\ refunded = Never /\ reversed = Never
    /\ steps = Never /\ parts = Never

RulesAtRest == Init /\ \A c \in Contexts : posted.context = c

EitherInit ==
    \/ part = "rules" /\ Init /\ SaleAtRest
    \/ part = "sale" /\ Sale!Init /\ RulesAtRest

EitherNext ==
    /\ UNCHANGED part
    /\ \/ part = "rules" /\ Next /\ UNCHANGED sale
       \/ part = "sale" /\ Sale!Next /\ UNCHANGED vars

EitherSpec == EitherInit /\ [][EitherNext]_<<part, vars, sale>>
-----------------------------------------------------------------------------
(* Properties of the sale (module CommissionAccruals).                     *)

\* A discount or surcharge is shared out exactly, in the order of the prices, and
\* never blocks a sale of services (commission-adjustment-allocation.util.ts:23-78).
SharesSound == part = "sale" => Sale!SharesSound

\* The commission taken back follows the money given back, part by part, and what
\* the roundings leave is less than one minor unit per part
\* (commission-adjustment.service.ts:59-90).
ReversalsSound == part = "sale" => Sale!ReversalsSound
=============================================================================
