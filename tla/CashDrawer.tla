----------------------------- MODULE CashDrawer -----------------------------
(***************************************************************************)
(* Custody of the cash drawers of one branch in one currency.  A session   *)
(* of a register is opened with a float, collects ledger entries, is       *)
(* closed with a count and then reviewed; a register is archived when it   *)
(* is no longer used.                                                      *)
(*                                                                         *)
(* Entries and closings lock the session's row from the moment they read   *)
(* its status until they commit.  Opening reads the register, and          *)
(* archiving reads the register and its sessions, without any lock.  An    *)
(* entry is a manual movement, or part of the transaction of a CASH        *)
(* payment or refund, which holds its checkout or sale and takes the       *)
(* session second.                                                         *)
(***************************************************************************)
EXTENDS Integers, FiniteSets, Functions

CONSTANTS
    Registers,    \* cash registers of the branch
    Ids,          \* identifiers of sessions
    Entries,      \* identifiers of ledger entries
    Requests,     \* HTTP requests that may be in flight at the same time
    Members,      \* memberships that may open, operate and close sessions
    Reconcilers,  \* those that also hold cash_sessions.reconcile
    Types,        \* types of entries that requests add
    Amounts,      \* amounts of entries, and floats above zero
    Counts        \* amounts counted at closing

ASSUME DrawerAssumption ==
    /\ Reconcilers \subseteq Members
    /\ Types \subseteq {"PAYMENT_RECEIVED", "CASH_IN", "CASH_OUT", "SAFE_DROP", "REFUND_PAID"}
    /\ Amounts \subseteq Nat \ {0}
    /\ Counts \subseteq Nat

VARIABLES
    archived,  \* the registers with an archived_at
    session,   \* table cash_sessions
    entry,     \* table cash_ledger_entries
    review,    \* table cash_session_reviews: the reviewer of each reviewed session
    inflight   \* requests between their first read and their last write

vars == <<archived, session, entry, review, inflight>>
-----------------------------------------------------------------------------
(* Rows and tables.                                                        *)

Inward == {"OPENING_FLOAT", "PAYMENT_RECEIVED", "CASH_IN"}
Outward == {"CASH_OUT", "SAFE_DROP", "REFUND_PAID"}

Insert(table, id, row) ==
    [i \in DOMAIN table \cup {id} |-> IF i = id THEN row ELSE table[i]]

Begin(r, request) == r \notin DOMAIN inflight /\ inflight' = Insert(inflight, r, request)
End(r) == inflight' = [q \in DOMAIN inflight \ {r} |-> inflight[q]]
Is(r, op) == r \in DOMAIN inflight /\ inflight[r].op = op

OpenIds == {s \in DOMAIN session : session[s].status = "OPEN"}
EntriesOf(s) == {e \in DOMAIN entry : entry[e].session = s}

\* calculateExpectedClosingCashMinor, over the committed entries of session s.
Directed(e) == IF entry[e].type \in Inward THEN entry[e].amount ELSE -entry[e].amount
Expected(s) == SumFunction([e \in EntriesOf(s) |-> Directed(e)])

\* assertCanOperate: one's own session, or cash_sessions.reconcile.
CanOperate(member, s) == member = session[s].opener \/ member \in Reconcilers
-----------------------------------------------------------------------------
(* Registers and opening.                                                  *)

BeginOpen(r, member, register, float) ==
    /\ register \notin archived
    /\ Begin(r, [op |-> "open", member |-> member, register |-> register, float |-> float])
    /\ UNCHANGED <<archived, session, entry, review>>

\* Mutant: no index forbids a second open session.
RegisterKnown(register) == register \in Registers

\* The index cash_sessions_one_open_per_register_currency.
RegisterFree(register) == \A s \in OpenIds : session[s].register # register

CommitOpen(r, s, e) ==
    /\ Is(r, "open")
    /\ s \notin DOMAIN session
    /\ e \notin DOMAIN entry
    /\ LET q == inflight[r] IN
       /\ RegisterFree(q.register)
       /\ session' = Insert(session, s,
              [register |-> q.register, opener |-> q.member, status |-> "OPEN", version |-> 1,
               expected |-> 0, counted |-> 0])
       /\ entry' = IF q.float = 0 THEN entry
                   ELSE Insert(entry, e, [session |-> s, type |-> "OPENING_FLOAT",
                                          amount |-> q.float, actor |-> q.member])
    /\ End(r)
    /\ UNCHANGED <<archived, review>>

BeginArchive(r, register) ==
    /\ register \notin archived
    /\ RegisterFree(register)
    /\ Begin(r, [op |-> "archive", register |-> register])
    /\ UNCHANGED <<archived, session, entry, review>>

CommitArchive(r) ==
    /\ Is(r, "archive")
    /\ archived' = archived \cup {inflight[r].register}
    /\ End(r)
    /\ UNCHANGED <<session, entry, review>>
-----------------------------------------------------------------------------
(* Entries and closing.                                                    *)

\* recordMovement, recordPaymentReceivedEntry, recordRefundPaidEntry.
BeginEntry(r, member, s, type, amount) ==
    /\ s \in DOMAIN session
    /\ CanOperate(member, s)
    /\ Begin(r, [op |-> "entry", session |-> s, member |-> member, locked |-> FALSE,
                 type |-> type, amount |-> amount])
    /\ UNCHANGED <<archived, session, entry, review>>

BeginClose(r, member, s, counted) ==
    /\ s \in DOMAIN session
    /\ CanOperate(member, s)
    /\ Begin(r, [op |-> "close", session |-> s, member |-> member, locked |-> FALSE,
                 counted |-> counted, expected |-> 0])
    /\ UNCHANGED <<archived, session, entry, review>>

\* lockCashSession, and the status read behind the lock.
Locks(r, s) == (Is(r, "entry") \/ Is(r, "close")) /\ inflight[r].session = s /\ inflight[r].locked

\* Mutant: the session is used whatever its state, by whoever comes.
SessionKnown(s) == s \in DOMAIN session

SessionFree(s) == \A r \in DOMAIN inflight : ~Locks(r, s)
StillOpen(s) == session[s].status = "OPEN"

LockForEntry(r) ==
    /\ Is(r, "entry") /\ ~inflight[r].locked
    /\ SessionFree(inflight[r].session)
    /\ StillOpen(inflight[r].session)
    /\ inflight' = [inflight EXCEPT ![r].locked = TRUE]
    /\ UNCHANGED <<archived, session, entry, review>>

CommitEntry(r, e) ==
    /\ Is(r, "entry") /\ inflight[r].locked
    /\ e \notin DOMAIN entry
    /\ LET q == inflight[r] IN
       entry' = Insert(entry, e, [session |-> q.session, type |-> q.type,
                                  amount |-> q.amount, actor |-> q.member])
    /\ End(r)
    /\ UNCHANGED <<archived, session, review>>

LockForClose(r) ==
    /\ Is(r, "close") /\ ~inflight[r].locked
    /\ SessionFree(inflight[r].session)
    /\ StillOpen(inflight[r].session)
    /\ inflight' = [inflight EXCEPT ![r].locked = TRUE,
                                    ![r].expected = Expected(inflight[r].session)]
    /\ UNCHANGED <<archived, session, entry, review>>

\* The table refuses a negative expectation: such a session cannot be closed.
CommitClose(r) ==
    /\ Is(r, "close") /\ inflight[r].locked
    /\ inflight[r].expected >= 0
    /\ LET q == inflight[r] IN
       session' = [session EXCEPT ![q.session].status = "CLOSED",
                                  ![q.session].version = @ + 1,
                                  ![q.session].expected = q.expected,
                                  ![q.session].counted = q.counted]
    /\ End(r)
    /\ UNCHANGED <<archived, entry, review>>
-----------------------------------------------------------------------------
(* Reviewing.                                                              *)

BeginReview(r, member, s) ==
    /\ s \in DOMAIN session
    /\ member \in Reconcilers
    /\ session[s].status = "CLOSED"
    /\ Begin(r, [op |-> "review", session |-> s, member |-> member,
                 seen |-> session[s].version])
    /\ UNCHANGED <<archived, session, entry, review>>

SeenBefore(q) == q.seen <= session[q.session].version
StillClosed(q) == session[q.session].status = "CLOSED" /\ q.seen = session[q.session].version

CommitReview(r) ==
    /\ Is(r, "review")
    /\ LET q == inflight[r] IN
       /\ StillClosed(q)
       /\ session' = [session EXCEPT ![q.session].status = "REVIEWED",
                                     ![q.session].version = @ + 1]
       /\ review' = Insert(review, q.session, q.member)
    /\ End(r)
    /\ UNCHANGED <<archived, entry>>

\* A request that fails a check, lost its version, belongs to a payment or a
\* refund that failed, or whose server died: its locks are gone.
Abandon(r) ==
    /\ r \in DOMAIN inflight
    /\ End(r)
    /\ UNCHANGED <<archived, session, entry, review>>

Init ==
    /\ archived = {}
    /\ session = [s \in {} |-> 0]
    /\ entry = [e \in {} |-> 0]
    /\ review = [s \in {} |-> 0]
    /\ inflight = [r \in {} |-> 0]

Enter(r) ==
    \/ \E m \in Members, s \in Ids, t \in Types, a \in Amounts : BeginEntry(r, m, s, t, a)
    \/ LockForEntry(r)
    \/ \E e \in Entries : CommitEntry(r, e)

Next == \E r \in Requests :
    \/ \E m \in Members, g \in Registers, f \in Amounts \cup {0} : BeginOpen(r, m, g, f)
    \/ \E s \in Ids, e \in Entries : CommitOpen(r, s, e)
    \/ \E g \in Registers : BeginArchive(r, g)
    \/ CommitArchive(r)
    \/ Enter(r)
    \/ \E m \in Members, s \in Ids, c \in Counts : BeginClose(r, m, s, c)
    \/ LockForClose(r)
    \/ CommitClose(r)
    \/ \E m \in Members, s \in Ids : BeginReview(r, m, s)
    \/ CommitReview(r)
    \/ Abandon(r)

Spec == Init /\ [][Next]_vars
-----------------------------------------------------------------------------
(* Properties.                                                             *)

\* What a closing wrote down is the sum of all the entries its session ever
\* has: no payment, refund or movement slips in between the sum and the closing
\* or after it.
ExpectedIsLedger ==
    \A s \in DOMAIN session : session[s].status # "OPEN" => session[s].expected = Expected(s)

\* However openings race, a register has one open session at a time.
OneOpenPerRegister ==
    \A s, t \in OpenIds : session[s].register = session[t].register => s = t

\* Entries are append-only; a session that left OPEN keeps its snapshot whatever
\* closings and reviews raced, and is reviewed at most once, by one member.
ClosedIsFrozen ==
    [][/\ \A e \in DOMAIN entry : e \in DOMAIN entry' /\ entry'[e] = entry[e]
       /\ \A s \in DOMAIN session : session[s].status # "OPEN" =>
             /\ session'[s].expected = session[s].expected
             /\ session'[s].counted = session[s].counted
             /\ session'[s].status # session[s].status =>
                   session[s].status = "CLOSED" /\ session'[s].status = "REVIEWED"
       /\ \A s \in DOMAIN review : s \in DOMAIN review' /\ review'[s] = review[s]]_vars

\* What the documents say and the code does not do.

\* docs/DATA_MODEL.md: archiving is rejected while the register has an open
\* session - so no archived register has one.
ArchivedHasNoOpenSession == \A s \in OpenIds : session[s].register \notin archived
=============================================================================
