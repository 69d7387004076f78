--------------------------- MODULE CustodyProofs ---------------------------
(***************************************************************************)
(* Theorems about what a branch keeps: the cash of its drawers             *)
(* (CashDrawer) and the stock of its products (StockLedger), for every set *)
(* of registers, sessions, entries, requests and amounts, and for every    *)
(* set of variants, transactions, product lines and initial quantities.    *)
(*                                                                         *)
(* DrawerInv is inductive.  RequestsSound and OneLock carry the argument:  *)
(* the holder of a session's row lock holds it alone, the session is still *)
(* open under the lock, and a closing that holds it has read the sum of    *)
(* all the entries committed so far.                                       *)
(*                                                                         *)
(* StockInv is inductive.  RunsApart says that no row is held by two       *)
(* running transactions; so the movements a transaction has not committed  *)
(* yet explain what it leaves on top of the committed rows (Exact), and go *)
(* on doing so when others commit.  NumbersSound says that one running     *)
(* transaction at most has taken a receipt number, and that it is the      *)
(* next one.                                                               *)
(***************************************************************************)
EXTENDS CashDrawer, StockLedger, SumTheorems, SequenceTheorems, WellFoundedInduction, TLAPS

(* The cash drawer.                                                        *)

\* Each row has its own columns.
SessionColumns == {"register", "opener", "status", "version", "expected", "counted"}
EntryColumns == {"op", "session", "member", "locked", "type", "amount"}
CloseColumns == {"op", "session", "member", "locked", "counted", "expected"}

IsSession(row) ==
    DOMAIN row = SessionColumns /\ row.status \in {"OPEN", "CLOSED", "REVIEWED"}
IsEntry(q) == DOMAIN q = EntryColumns /\ q.op = "entry" /\ q.locked \in BOOLEAN
IsClose(q) == DOMAIN q = CloseColumns /\ q.op = "close" /\ q.locked \in BOOLEAN

\* Session s is there, and open if its row is held.
SessionSound(q) ==
    /\ q.session \in DOMAIN session
    /\ q.locked => session[q.session].status = "OPEN"
SoundRequest(q) ==
    \/ q.op \in {"open", "archive"}
    \/ q.op = "entry" /\ IsEntry(q) /\ SessionSound(q)
    \/ /\ q.op = "close" /\ IsClose(q) /\ SessionSound(q)
       /\ q.locked => q.expected = Expected(q.session)
    \/ q.op = "review" /\ q.session \in DOMAIN session

Rows ==
    /\ \A s \in DOMAIN session : IsSession(session[s])
    /\ \A e \in DOMAIN entry : entry[e].session \in DOMAIN session
    /\ DOMAIN review = {s \in DOMAIN session : session[s].status = "REVIEWED"}
RequestsSound == \A r \in DOMAIN inflight : SoundRequest(inflight[r])
Holds(r) == (Is(r, "entry") \/ Is(r, "close")) /\ inflight[r].locked
OneLock ==
    \A r, q \in DOMAIN inflight : Holds(q) /\ Locks(r, inflight[q].session) => r = q

DrawerInv == Rows /\ RequestsSound /\ OneLock /\ ExpectedIsLedger /\ OneOpenPerRegister

\* What one step keeps: the body of ClosedIsFrozen.
Frozen ==
    /\ \A e \in DOMAIN entry : e \in DOMAIN entry' /\ entry'[e] = entry[e]
    /\ \A s \in DOMAIN session : session[s].status # "OPEN" =>
          /\ session'[s].expected = session[s].expected
          /\ session'[s].counted = session[s].counted
          /\ session'[s].status # session[s].status =>
                session[s].status = "CLOSED" /\ session'[s].status = "REVIEWED"
    /\ \A s \in DOMAIN review : s \in DOMAIN review' /\ review'[s] = review[s]
-----------------------------------------------------------------------------
(* Tables.                                                                 *)

\* A request that ends is forgotten and the others stay.
LEMMA EndRow ==
    ASSUME NEW r, End(r)
    PROVE  /\ DOMAIN inflight' = DOMAIN inflight \ {r}
           /\ \A q \in DOMAIN inflight' : inflight'[q] = inflight[q]
  BY DEF End

\* The sum a session's entries make is the same as long as the entries are.
LEMMA SameLedger ==
    ASSUME NEW s,
           EntriesOf(s)' = EntriesOf(s),
           \A e \in EntriesOf(s) : entry'[e] = entry[e]
    PROVE  Expected(s)' = Expected(s)
<1>1. \A e \in EntriesOf(s) : Directed(e)' = Directed(e)
  BY DEF Directed
<1>2. [e \in EntriesOf(s)' |-> Directed(e)'] = [e \in EntriesOf(s) |-> Directed(e)]
  BY <1>1
<1>3. QED
  BY <1>2 DEF Expected

\* Sessions and entries untouched: a request is as sound as it was.
LEMMA SoundStays ==
    ASSUME session' = session, entry' = entry, NEW q, SoundRequest(q)
    PROVE  SoundRequest(q)'
<1>1. \A s : Expected(s)' = Expected(s)
  BY DEF Expected, EntriesOf, Directed
<1>2. QED
  BY <1>1 DEF SoundRequest, SessionSound, IsEntry, IsClose

\* What is said of the tables stays true while they stay.
LEMMA TablesStay ==
    ASSUME session' = session, entry' = entry, review' = review,
           Rows, ExpectedIsLedger, OneOpenPerRegister
    PROVE  Rows' /\ ExpectedIsLedger' /\ OneOpenPerRegister' /\ Frozen
<1>1. Rows'
  BY DEF Rows, IsSession
<1>2. ExpectedIsLedger'
  BY DEF ExpectedIsLedger, Expected, EntriesOf, Directed
<1>3. OneOpenPerRegister'
  BY DEF OneOpenPerRegister, OpenIds
<1>4. Frozen
  BY DEF Frozen
<1>5. QED
  BY <1>1, <1>2, <1>3, <1>4
-----------------------------------------------------------------------------
(* Steps that write no table.                                              *)

\* A request that begins holds no lock and has read nothing.
LEMMA BeginStep ==
    ASSUME DrawerInv, session' = session, entry' = entry, review' = review,
           NEW r, NEW q, Begin(r, q), SoundRequest(q),
           q.op \in {"entry", "close"} => q.locked = FALSE
    PROVE  DrawerInv' /\ Frozen
<1>1. /\ r \notin DOMAIN inflight
      /\ DOMAIN inflight' = DOMAIN inflight \cup {r}
      /\ inflight'[r] = q
      /\ \A p \in DOMAIN inflight : inflight'[p] = inflight[p]
  BY DEF Begin, Insert
<1>2. RequestsSound'
  <2>1. \A p \in DOMAIN inflight : SoundRequest(inflight[p])'
    BY SoundStays, <1>1 DEF DrawerInv, RequestsSound
  <2>2. SoundRequest(q)'
    BY SoundStays
  <2>3. SUFFICES ASSUME NEW p \in DOMAIN inflight'
                 PROVE  SoundRequest(inflight[p])'
    BY DEF RequestsSound
  <2>4. QED
    BY <1>1, <2>1, <2>2
<1>3. OneLock'
  <2>1. SUFFICES ASSUME NEW p \in DOMAIN inflight', NEW t \in DOMAIN inflight',
                        Holds(t)', Locks(p, inflight[t].session)'
                 PROVE  p = t
    BY DEF OneLock
  <2>2. p # r /\ t # r
    BY <1>1, <2>1 DEF Holds, Locks, Is
  <2>3. Holds(t) /\ Locks(p, inflight[t].session)
    BY <1>1, <2>1, <2>2 DEF Holds, Locks, Is
  <2>4. QED
    BY <1>1, <2>2, <2>3 DEF DrawerInv, OneLock
<1>4. QED
  BY <1>2, <1>3, TablesStay DEF DrawerInv

\* The end of a request takes no lock.
LEMMA LocksLeft ==
    ASSUME OneLock, NEW r, End(r)
    PROVE  OneLock'
<1>1. /\ DOMAIN inflight' \subseteq DOMAIN inflight
      /\ \A p \in DOMAIN inflight' : inflight'[p] = inflight[p]
  BY EndRow
<1>2. SUFFICES ASSUME NEW p \in DOMAIN inflight', NEW q \in DOMAIN inflight',
                      Holds(q)', Locks(p, inflight[q].session)'
               PROVE  p = q
  BY DEF OneLock
<1>3. Holds(q) /\ Locks(p, inflight[q].session)
  BY <1>1, <1>2 DEF Holds, Locks, Is
<1>4. QED
  BY <1>1, <1>3 DEF OneLock

\* A request that ends without writing keeps the invariant.
LEMMA EndStep ==
    ASSUME DrawerInv, session' = session, entry' = entry, review' = review, NEW r, End(r)
    PROVE  DrawerInv' /\ Frozen
<1>1. RequestsSound'
  BY EndRow, SoundStays DEF DrawerInv, RequestsSound
<1>2. OneLock'
  BY LocksLeft DEF DrawerInv
<1>3. QED
  BY <1>1, <1>2, TablesStay DEF DrawerInv

\* Taking the row lock of a session nobody holds.
LEMMA LockStep ==
    ASSUME DrawerInv, session' = session, entry' = entry, review' = review,
           NEW r \in DOMAIN inflight, NEW q, inflight' = [inflight EXCEPT ![r] = q],
           q.session = inflight[r].session, SoundRequest(q), SessionFree(q.session)
    PROVE  DrawerInv' /\ Frozen
<1>1. /\ DOMAIN inflight' = DOMAIN inflight
      /\ inflight'[r] = q
      /\ \A p \in DOMAIN inflight \ {r} : inflight'[p] = inflight[p]
  OBVIOUS
<1>2. RequestsSound'
  <2>1. \A p \in DOMAIN inflight \ {r} : SoundRequest(inflight[p])'
    BY SoundStays, <1>1 DEF DrawerInv, RequestsSound
  <2>2. SoundRequest(q)'
    BY SoundStays
  <2>3. SUFFICES ASSUME NEW p \in DOMAIN inflight'
                 PROVE  SoundRequest(inflight[p])'
    BY DEF RequestsSound
  <2>4. QED
    BY <1>1, <2>1, <2>2
<1>3. OneLock'
  BY <1>1 DEF DrawerInv, OneLock, Holds, SessionFree, Locks, Is
<1>4. QED
  BY <1>2, <1>3, TablesStay DEF DrawerInv

\* The lock of a session goes to one request, and the session is open.
LEMMA LockForEntryStep ==
    ASSUME DrawerInv, NEW r \in Requests, LockForEntry(r)
    PROVE  DrawerInv' /\ Frozen
<1> DEFINE old == inflight[r]
           q == [old EXCEPT !.locked = TRUE]
<1>1. /\ r \in DOMAIN inflight /\ old.op = "entry"
      /\ SessionFree(old.session) /\ StillOpen(old.session)
      /\ inflight' = [inflight EXCEPT ![r] = q]
      /\ session' = session /\ entry' = entry /\ review' = review
  BY DEF LockForEntry, Is
<1>2. IsEntry(old) /\ SessionSound(old)
  BY <1>1 DEF DrawerInv, RequestsSound, SoundRequest
<1>3. q.op = "entry" /\ q.session = old.session /\ IsEntry(q)
  BY <1>2 DEF IsEntry, EntryColumns
<1>4. SoundRequest(q)
  BY <1>1, <1>2, <1>3 DEF SoundRequest, SessionSound, StillOpen
<1> HIDE DEF q
<1>5. QED
  BY <1>1, <1>3, <1>4, LockStep

\* A closing reads the sum while it holds the lock.
LEMMA LockForCloseStep ==
    ASSUME DrawerInv, NEW r \in Requests, LockForClose(r)
    PROVE  DrawerInv' /\ Frozen
<1> DEFINE old == inflight[r]
           q == [old EXCEPT !.locked = TRUE, !.expected = Expected(old.session)]
<1>1. /\ r \in DOMAIN inflight /\ old.op = "close"
      /\ SessionFree(old.session) /\ StillOpen(old.session)
      /\ inflight' = [inflight EXCEPT ![r] = q]
      /\ session' = session /\ entry' = entry /\ review' = review
  BY DEF LockForClose, Is
<1>2. IsClose(old) /\ SessionSound(old)
  BY <1>1 DEF DrawerInv, RequestsSound, SoundRequest
<1>3. /\ q.op = "close" /\ q.session = old.session /\ IsClose(q)
      /\ q.expected = Expected(old.session)
  BY <1>2 DEF IsClose, CloseColumns
<1>4. SoundRequest(q)
  BY <1>1, <1>2, <1>3 DEF SoundRequest, SessionSound, StillOpen
<1> HIDE DEF q
<1>5. QED
  BY <1>1, <1>3, <1>4, LockStep
-----------------------------------------------------------------------------
(* Steps that write tables.                                                *)

\* What may change so that a request stays sound: a session keeps its row if it
\* is held, and its ledger if a closing holds it.
LEMMA SoundKept ==
    ASSUME NEW q, SoundRequest(q), DOMAIN session \subseteq DOMAIN session',
           q.op \in {"entry", "close"} /\ q.locked =>
               session'[q.session].status = session[q.session].status,
           q.op = "close" /\ q.locked => Expected(q.session)' = Expected(q.session)
    PROVE  SoundRequest(q)'
<1>1. ASSUME q.op \in {"entry", "close"}
      PROVE  SessionSound(q) => SessionSound(q)'
  BY <1>1 DEF SessionSound
<1>2. IsEntry(q)' = IsEntry(q) /\ IsClose(q)' = IsClose(q)
  BY DEF IsEntry, IsClose
<1>3. CASE q.op = "entry"
  BY <1>1, <1>2, <1>3 DEF SoundRequest
<1>4. CASE q.op = "close"
  BY <1>1, <1>2, <1>4 DEF SoundRequest
<1>5. CASE q.op \notin {"entry", "close"}
  BY <1>5 DEF SoundRequest
<1>6. QED
  BY <1>3, <1>4, <1>5

\* An opening adds an open session to a register that has none.
LEMMA CommitOpenStep ==
    ASSUME DrawerInv, NEW r \in Requests, NEW s, NEW e, CommitOpen(r, s, e)
    PROVE  DrawerInv' /\ Frozen
<1> DEFINE q == inflight[r]
           row == [register |-> q.register, opener |-> q.member, status |-> "OPEN",
                   version |-> 1, expected |-> 0, counted |-> 0]
           float == [session |-> s, type |-> "OPENING_FLOAT",
                     amount |-> q.float, actor |-> q.member]
<1>1. /\ s \notin DOMAIN session /\ e \notin DOMAIN entry
      /\ RegisterFree(q.register) /\ End(r)
      /\ session' = Insert(session, s, row)
      /\ entry' = IF q.float = 0 THEN entry ELSE Insert(entry, e, float)
      /\ review' = review
  BY DEF CommitOpen
<1>2. /\ row.status = "OPEN" /\ row.register = q.register /\ IsSession(row)
      /\ float.session = s
  BY DEF IsSession, SessionColumns
<1> HIDE DEF row, float, q
<1>3. /\ DOMAIN session' = DOMAIN session \cup {s} /\ session'[s] = row
      /\ \A t \in DOMAIN session : session'[t] = session[t]
  BY <1>1 DEF Insert
<1>4. /\ DOMAIN entry \subseteq DOMAIN entry'
      /\ \A i \in DOMAIN entry : entry'[i] = entry[i]
      /\ \A i \in DOMAIN entry' \ DOMAIN entry : entry'[i].session = s
  <2>1. CASE q.float = 0
    BY <1>1, <2>1
  <2>2. CASE q.float # 0
    BY <1>1, <1>2, <2>2 DEF Insert
  <2>3. QED
    BY <2>1, <2>2
<1>5. ASSUME NEW t \in DOMAIN session
      PROVE  Expected(t)' = Expected(t)
  <2>1. EntriesOf(t)' = EntriesOf(t)
    BY <1>1, <1>4, <1>5 DEF EntriesOf
  <2>2. \A i \in EntriesOf(t) : entry'[i] = entry[i]
    BY <1>4 DEF EntriesOf
  <2>3. QED
    BY <2>1, <2>2, SameLedger
<1>6. Rows'
  <2>1. \A t \in DOMAIN session' : IsSession(session'[t])
    BY <1>2, <1>3 DEF DrawerInv, Rows
  <2>2. \A i \in DOMAIN entry' : entry'[i].session \in DOMAIN session'
    BY <1>3, <1>4 DEF DrawerInv, Rows
  <2>3. DOMAIN review' = {t \in DOMAIN session' : session'[t].status = "REVIEWED"}
    BY <1>1, <1>2, <1>3 DEF DrawerInv, Rows
  <2>4. QED
    BY <2>1, <2>2, <2>3 DEF Rows, IsSession
<1>7. ExpectedIsLedger'
  <2>1. SUFFICES ASSUME NEW t \in DOMAIN session', session'[t].status # "OPEN"
                 PROVE  session'[t].expected = Expected(t)'
    BY DEF ExpectedIsLedger
  <2>2. t \in DOMAIN session /\ session'[t] = session[t]
    BY <1>2, <1>3, <2>1
  <2>3. QED
    BY <1>5, <2>1, <2>2 DEF DrawerInv, ExpectedIsLedger
<1>8. OneOpenPerRegister'
  BY <1>1, <1>2, <1>3 DEF DrawerInv, OneOpenPerRegister, OpenIds, RegisterFree
<1>9. RequestsSound'
  <2>1. SUFFICES ASSUME NEW p \in DOMAIN inflight'
                 PROVE  SoundRequest(inflight[p])'
    BY DEF RequestsSound
  <2>2. PICK old : old = inflight[p] /\ inflight'[p] = old /\ SoundRequest(old)
    BY <1>1, EndRow DEF DrawerInv, RequestsSound
  <2>3. old.op \in {"entry", "close"} => old.session \in DOMAIN session
    BY <2>2 DEF SoundRequest, SessionSound
  <2>4. SoundRequest(old)'
    BY <1>3, <1>5, <2>2, <2>3, SoundKept
  <2>5. QED
    BY <2>2, <2>4
<1>10. OneLock'
  BY <1>1, LocksLeft DEF DrawerInv
<1>11. Frozen
  BY <1>1, <1>3, <1>4 DEF Frozen
<1>12. QED
  BY <1>6, <1>7, <1>8, <1>9, <1>10, <1>11 DEF DrawerInv

\* A held session is held by nobody else.
LEMMA HeldAlone ==
    ASSUME DrawerInv, NEW r \in DOMAIN inflight, Holds(r), NEW p \in DOMAIN inflight,
           p # r, inflight[p].op \in {"entry", "close"}, inflight[p].locked
    PROVE  inflight[p].session # inflight[r].session
  BY DEF DrawerInv, OneLock, Holds, Locks, Is

\* An entry is added by the holder of the lock, so no closing has a sum.
LEMMA CommitEntryStep ==
    ASSUME DrawerInv, NEW r \in Requests, NEW e, CommitEntry(r, e)
    PROVE  DrawerInv' /\ Frozen
<1> DEFINE q == inflight[r]
           row == [session |-> q.session, type |-> q.type, amount |-> q.amount,
                   actor |-> q.member]
<1>1. /\ r \in DOMAIN inflight /\ q.op = "entry" /\ Holds(r)
      /\ e \notin DOMAIN entry /\ entry' = Insert(entry, e, row)
      /\ End(r) /\ session' = session /\ review' = review
  BY DEF CommitEntry, Holds, Is
<1>2. row.session = q.session
  OBVIOUS
<1>3. q.session \in DOMAIN session /\ session[q.session].status = "OPEN"
  BY <1>1 DEF DrawerInv, RequestsSound, SoundRequest, SessionSound, Holds
<1> HIDE DEF row
<1>4. /\ DOMAIN entry' = DOMAIN entry \cup {e} /\ entry'[e].session = q.session
      /\ \A i \in DOMAIN entry : entry'[i] = entry[i]
  BY <1>1, <1>2 DEF Insert
<1>5. ASSUME NEW t, t # q.session
      PROVE  Expected(t)' = Expected(t)
  <2>1. EntriesOf(t)' = EntriesOf(t)
    BY <1>1, <1>4, <1>5 DEF EntriesOf
  <2>2. \A i \in EntriesOf(t) : entry'[i] = entry[i]
    BY <1>4 DEF EntriesOf
  <2>3. QED
    BY <2>1, <2>2, SameLedger
<1>6. Rows'
  BY <1>1, <1>3, <1>4 DEF DrawerInv, Rows, IsSession
<1>7. ExpectedIsLedger'
  BY <1>1, <1>3, <1>5 DEF DrawerInv, ExpectedIsLedger
<1>8. OneOpenPerRegister'
  BY <1>1 DEF DrawerInv, OneOpenPerRegister, OpenIds
<1>9. RequestsSound'
  <2>1. SUFFICES ASSUME NEW p \in DOMAIN inflight'
                 PROVE  SoundRequest(inflight[p])'
    BY DEF RequestsSound
  <2>2. PICK old : old = inflight[p] /\ inflight'[p] = old /\ SoundRequest(old)
    BY <1>1, EndRow DEF DrawerInv, RequestsSound
  <2>3. p \in DOMAIN inflight /\ p # r
    BY <1>1, EndRow
  <2>4. old.op = "close" /\ old.locked => old.session # q.session
    BY <1>1, <2>2, <2>3, HeldAlone
  <2>5. SoundRequest(old)'
    BY <1>1, <1>5, <2>2, <2>4, SoundKept
  <2>6. QED
    BY <2>2, <2>5
<1>10. OneLock'
  BY <1>1, LocksLeft DEF DrawerInv
<1>11. Frozen
  BY <1>1, <1>4 DEF Frozen
<1>12. QED
  BY <1>6, <1>7, <1>8, <1>9, <1>10, <1>11 DEF DrawerInv

\* Entries untouched: every ledger adds up to what it did.
LEMMA LedgersStay ==
    ASSUME entry' = entry
    PROVE  \A t : Expected(t)' = Expected(t)
  BY DEF Expected, EntriesOf, Directed

\* A closing records the sum it read under the lock.
LEMMA CommitCloseStep ==
    ASSUME DrawerInv, NEW r \in Requests, CommitClose(r)
    PROVE  DrawerInv' /\ Frozen
<1> DEFINE q == inflight[r]
           s == q.session
<1>1. /\ r \in DOMAIN inflight /\ q.op = "close" /\ Holds(r) /\ End(r)
      /\ session' = [session EXCEPT ![s].status = "CLOSED", ![s].version = @ + 1,
                                    ![s].expected = q.expected, ![s].counted = q.counted]
      /\ entry' = entry /\ review' = review
  BY DEF CommitClose, Holds, Is
<1>2. s \in DOMAIN session /\ session[s].status = "OPEN" /\ q.expected = Expected(s)
  BY <1>1 DEF DrawerInv, RequestsSound, SoundRequest, SessionSound, Holds
<1>3. IsSession(session[s])
  BY <1>2 DEF DrawerInv, Rows
<1>4. /\ DOMAIN session' = DOMAIN session
      /\ \A t \in DOMAIN session \ {s} : session'[t] = session[t]
      /\ DOMAIN session'[s] = SessionColumns
      /\ session'[s].status = "CLOSED" /\ session'[s].expected = Expected(s)
  BY <1>1, <1>2, <1>3 DEF IsSession, SessionColumns
<1>5. \A t : Expected(t)' = Expected(t)
  BY <1>1, LedgersStay
<1>6. Rows'
  BY <1>1, <1>2, <1>4 DEF DrawerInv, Rows, IsSession
<1>7. ExpectedIsLedger'
  BY <1>4, <1>5 DEF DrawerInv, ExpectedIsLedger
<1>8. OneOpenPerRegister'
  BY <1>4 DEF DrawerInv, OneOpenPerRegister, OpenIds
<1>9. RequestsSound'
  <2>1. SUFFICES ASSUME NEW p \in DOMAIN inflight'
                 PROVE  SoundRequest(inflight[p])'
    BY DEF RequestsSound
  <2>2. PICK old : old = inflight[p] /\ inflight'[p] = old /\ SoundRequest(old)
    BY <1>1, EndRow DEF DrawerInv, RequestsSound
  <2>3. p \in DOMAIN inflight /\ p # r
    BY <1>1, EndRow
  <2>4. old.op \in {"entry", "close"} /\ old.locked =>
            old.session # s /\ old.session \in DOMAIN session
    BY <1>1, <2>2, <2>3, HeldAlone DEF SoundRequest, SessionSound
  <2>5. SoundRequest(old)'
    BY <1>4, <1>5, <2>2, <2>4, SoundKept
  <2>6. QED
    BY <2>2, <2>5
<1>10. OneLock'
  BY <1>1, LocksLeft DEF DrawerInv
<1>11. Frozen
  BY <1>1, <1>2, <1>4 DEF Frozen
<1>12. QED
  BY <1>6, <1>7, <1>8, <1>9, <1>10, <1>11 DEF DrawerInv

\* A review adds its verdict and changes nothing of the snapshot.
LEMMA CommitReviewStep ==
    ASSUME DrawerInv, NEW r \in Requests, CommitReview(r)
    PROVE  DrawerInv' /\ Frozen
<1> DEFINE q == inflight[r]
           s == q.session
<1>1. /\ r \in DOMAIN inflight /\ q.op = "review" /\ End(r)
      /\ session[s].status = "CLOSED"
      /\ session' = [session EXCEPT ![s].status = "REVIEWED", ![s].version = @ + 1]
      /\ review' = Insert(review, s, q.member)
      /\ entry' = entry
  BY DEF CommitReview, Is, StillClosed
<1>2. s \in DOMAIN session
  BY <1>1 DEF DrawerInv, RequestsSound, SoundRequest
<1>3. IsSession(session[s])
  BY <1>2 DEF DrawerInv, Rows
<1>4. /\ DOMAIN session' = DOMAIN session
      /\ \A t \in DOMAIN session \ {s} : session'[t] = session[t]
      /\ DOMAIN session'[s] = SessionColumns
      /\ session'[s].status = "REVIEWED"
      /\ session'[s].expected = session[s].expected
      /\ session'[s].counted = session[s].counted
  BY <1>1, <1>2, <1>3 DEF IsSession, SessionColumns
<1>5. \A t : Expected(t)' = Expected(t)
  BY <1>1, LedgersStay
<1>6. /\ DOMAIN review' = DOMAIN review \cup {s}
      /\ s \notin DOMAIN review
      /\ \A t \in DOMAIN review : review'[t] = review[t]
  BY <1>1 DEF Insert, DrawerInv, Rows
<1>7. Rows'
  <2>1. \A t \in DOMAIN session' : IsSession(session'[t])
    BY <1>4 DEF DrawerInv, Rows, IsSession
  <2>2. \A i \in DOMAIN entry' : entry'[i].session \in DOMAIN session'
    BY <1>1, <1>4 DEF DrawerInv, Rows
  <2>3. DOMAIN review' = {t \in DOMAIN session' : session'[t].status = "REVIEWED"}
    BY <1>2, <1>4, <1>6 DEF DrawerInv, Rows
  <2>4. QED
    BY <2>1, <2>2, <2>3 DEF Rows, IsSession
<1>8. ExpectedIsLedger'
  BY <1>1, <1>2, <1>4, <1>5 DEF DrawerInv, ExpectedIsLedger
<1>9. OneOpenPerRegister'
  BY <1>4 DEF DrawerInv, OneOpenPerRegister, OpenIds
<1>10. RequestsSound'
  <2>1. SUFFICES ASSUME NEW p \in DOMAIN inflight'
                 PROVE  SoundRequest(inflight[p])'
    BY DEF RequestsSound
  <2>2. PICK old : old = inflight[p] /\ inflight'[p] = old /\ SoundRequest(old)
    BY <1>1, EndRow DEF DrawerInv, RequestsSound
  <2>3. old.op \in {"entry", "close"} /\ old.locked =>
            old.session # s /\ old.session \in DOMAIN session
    BY <1>1, <2>2 DEF SoundRequest, SessionSound
  <2>4. SoundRequest(old)'
    BY <1>4, <1>5, <2>2, <2>3, SoundKept
  <2>5. QED
    BY <2>2, <2>4
<1>11. OneLock'
  BY <1>1, LocksLeft DEF DrawerInv
<1>12. Frozen
  BY <1>1, <1>4, <1>6 DEF Frozen
<1>13. QED
  BY <1>7, <1>8, <1>9, <1>10, <1>11, <1>12 DEF DrawerInv
-----------------------------------------------------------------------------
(* Steps that begin a request.                                             *)

\* A request for an opening begins.
LEMMA BeginOpenStep ==
    ASSUME DrawerInv, NEW r \in Requests, NEW m, NEW g, NEW f, BeginOpen(r, m, g, f)
    PROVE  DrawerInv' /\ Frozen
<1> DEFINE q == [op |-> "open", member |-> m, register |-> g, float |-> f]
<1>1. /\ Begin(r, q) /\ session' = session /\ entry' = entry /\ review' = review
  BY DEF BeginOpen
<1>2. q.op = "open"
  OBVIOUS
<1> HIDE DEF q
<1>3. QED
  BY <1>1, <1>2, BeginStep DEF SoundRequest

\* A request for an archiving begins.
LEMMA BeginArchiveStep ==
    ASSUME DrawerInv, NEW r \in Requests, NEW g, BeginArchive(r, g)
    PROVE  DrawerInv' /\ Frozen
<1> DEFINE q == [op |-> "archive", register |-> g]
<1>1. /\ Begin(r, q) /\ session' = session /\ entry' = entry /\ review' = review
  BY DEF BeginArchive
<1>2. q.op = "archive"
  OBVIOUS
<1> HIDE DEF q
<1>3. QED
  BY <1>1, <1>2, BeginStep DEF SoundRequest

\* A request for an entry begins.
LEMMA BeginEntryStep ==
    ASSUME DrawerInv, NEW r \in Requests, NEW m, NEW s, NEW t, NEW a, BeginEntry(r, m, s, t, a)
    PROVE  DrawerInv' /\ Frozen
<1> DEFINE q == [op |-> "entry", session |-> s, member |-> m, locked |-> FALSE,
                 type |-> t, amount |-> a]
<1>1. /\ s \in DOMAIN session /\ Begin(r, q)
      /\ session' = session /\ entry' = entry /\ review' = review
  BY DEF BeginEntry
<1>2. q.op = "entry" /\ q.session = s /\ q.locked = FALSE /\ IsEntry(q)
  BY DEF IsEntry, EntryColumns
<1> HIDE DEF q
<1>3. SoundRequest(q)
  BY <1>1, <1>2 DEF SoundRequest, SessionSound
<1>4. QED
  BY <1>1, <1>2, <1>3, BeginStep

\* A request for a closing begins.
LEMMA BeginCloseStep ==
    ASSUME DrawerInv, NEW r \in Requests, NEW m, NEW s, NEW c, BeginClose(r, m, s, c)
    PROVE  DrawerInv' /\ Frozen
<1> DEFINE q == [op |-> "close", session |-> s, member |-> m, locked |-> FALSE,
                 counted |-> c, expected |-> 0]
<1>1. /\ s \in DOMAIN session /\ Begin(r, q)
      /\ session' = session /\ entry' = entry /\ review' = review
  BY DEF BeginClose
<1>2. q.op = "close" /\ q.session = s /\ q.locked = FALSE /\ IsClose(q)
  BY DEF IsClose, CloseColumns
<1> HIDE DEF q
<1>3. SoundRequest(q)
  BY <1>1, <1>2 DEF SoundRequest, SessionSound
<1>4. QED
  BY <1>1, <1>2, <1>3, BeginStep

\* A request for a review begins.
LEMMA BeginReviewStep ==
    ASSUME DrawerInv, NEW r \in Requests, NEW m, NEW s, BeginReview(r, m, s)
    PROVE  DrawerInv' /\ Frozen
<1> DEFINE q == [op |-> "review", session |-> s, member |-> m, seen |-> session[s].version]
<1>1. /\ s \in DOMAIN session /\ Begin(r, q)
      /\ session' = session /\ entry' = entry /\ review' = review
  BY DEF BeginReview
<1>2. q.op = "review" /\ q.session = s
  OBVIOUS
<1> HIDE DEF q
<1>3. QED
  BY <1>1, <1>2, BeginStep DEF SoundRequest
-----------------------------------------------------------------------------
(* The invariant.                                                          *)

\* Every step keeps the invariant.
LEMMA StepKeepsInv ==
    ASSUME DrawerInv, [Next]_vars
    PROVE  DrawerInv' /\ (Frozen \/ UNCHANGED vars)
<1>1. CASE UNCHANGED vars
  <2>1. Rows' /\ ExpectedIsLedger' /\ OneOpenPerRegister'
    BY <1>1, TablesStay DEF vars, DrawerInv
  <2>2. RequestsSound'
    BY <1>1, SoundStays DEF vars, DrawerInv, RequestsSound
  <2>3. OneLock'
    BY <1>1 DEF vars, DrawerInv, OneLock, Holds, Locks, Is
  <2>4. QED
    BY <1>1, <2>1, <2>2, <2>3 DEF DrawerInv
<1>2. CASE Next
  <2>1. PICK r \in Requests :
          \/ \E m \in Members, g \in Registers, f \in Amounts \cup {0} : BeginOpen(r, m, g, f)
          \/ \E s \in Ids, e \in Entries : CommitOpen(r, s, e)
          \/ \E g \in Registers : BeginArchive(r, g)
          \/ CommitArchive(r)
          \/ Enter(r)
          \/ \E m \in Members, s \in Ids, c \in Counts : BeginClose(r, m, s, c)
          \/ LockForClose(r)
          \/ CommitClose(r)
          \/ \E m \in Members, s \in Ids : BeginReview(r, m, s)
          \/ CommitReview(r)
          \/ Abandon(r)
    BY <1>2 DEF Next
  <2>2. CASE \E m \in Members, g \in Registers, f \in Amounts \cup {0} : BeginOpen(r, m, g, f)
    BY <2>2, BeginOpenStep
  <2>3. CASE \E s \in Ids, e \in Entries : CommitOpen(r, s, e)
    BY <2>3, CommitOpenStep
  <2>4. CASE \E g \in Registers : BeginArchive(r, g)
    BY <2>4, BeginArchiveStep
  <2>5. CASE CommitArchive(r)
    BY <2>5, EndStep DEF CommitArchive
  <2>6. CASE Enter(r)
    <3>1. CASE \E m \in Members, s \in Ids, t \in Types, a \in Amounts : BeginEntry(r, m, s, t, a)
      BY <3>1, BeginEntryStep
    <3>2. CASE LockForEntry(r)
      BY <3>2, LockForEntryStep
    <3>3. CASE \E e \in Entries : CommitEntry(r, e)
      BY <3>3, CommitEntryStep
    <3>4. QED
      BY <2>6, <3>1, <3>2, <3>3 DEF Enter
  <2>7. CASE \E m \in Members, s \in Ids, c \in Counts : BeginClose(r, m, s, c)
    BY <2>7, BeginCloseStep
  <2>8. CASE LockForClose(r)
    BY <2>8, LockForCloseStep
  <2>9. CASE CommitClose(r)
    BY <2>9, CommitCloseStep
  <2>10. CASE \E m \in Members, s \in Ids : BeginReview(r, m, s)
    BY <2>10, BeginReviewStep
  <2>11. CASE CommitReview(r)
    BY <2>11, CommitReviewStep
  <2>12. CASE Abandon(r)
    BY <2>12, EndStep DEF Abandon
  <2>13. QED
    BY <2>1, <2>2, <2>3, <2>4, <2>5, <2>6, <2>7, <2>8, <2>9, <2>10, <2>11, <2>12
<1>3. QED
  BY <1>1, <1>2

\* No session is open at first.
LEMMA InitKeepsInv ==
    ASSUME Init
    PROVE  DrawerInv
  BY DEF Init, DrawerInv, Rows, RequestsSound, OneLock, ExpectedIsLedger,
         OneOpenPerRegister, OpenIds

\* Hence it always holds.
LEMMA InvAlways == Spec => []DrawerInv
<1>1. Init => DrawerInv
  BY InitKeepsInv
<1>2. DrawerInv /\ [Next]_vars => DrawerInv'
  BY StepKeepsInv
<1>3. QED
  BY <1>1, <1>2, PTL DEF Spec

\* The expected cash of a closed session is the sum of all the entries its
\* ledger ever has, for any number of registers, sessions, entries and requests.
THEOREM ClosingIsExact == Spec => []ExpectedIsLedger
<1>1. DrawerInv => ExpectedIsLedger
  BY DEF DrawerInv
<1>2. QED
  BY <1>1, InvAlways, PTL

\* However openings race, no register has two open sessions.
THEOREM DrawerExclusive == Spec => []OneOpenPerRegister
<1>1. DrawerInv => OneOpenPerRegister
  BY DEF DrawerInv
<1>2. QED
  BY <1>1, InvAlways, PTL

\* Entries are append-only, and a session that left OPEN keeps its snapshot and
\* is reviewed once.
THEOREM SnapshotKept == Spec => ClosedIsFrozen
<1>1. DrawerInv /\ [Next]_vars => [Frozen]_vars
  BY StepKeepsInv
<1>2. QED
  BY <1>1, InvAlways, PTL DEF Spec, ClosedIsFrozen, Frozen
-----------------------------------------------------------------------------
(* The stock ledger: places in lists of movements.                         *)

\* The last of some places of a list.
LEMMA LastPlace ==
    ASSUME NEW n \in Nat, NEW S \in SUBSET (1 .. n), S # {}
    PROVE  Max(S) \in S /\ \A i \in S : i <= Max(S)
<1>1. \E x \in S : \A y \in S : x >= y
  <2> DEFINE R == {z \in Nat \X Nat : z[1] < z[2]}
  <2>1. R = OpToRel(<, Nat)
    BY DEF OpToRel
  <2>2. IsWellFoundedOn(R, Nat)
    BY <2>1, NatLessThanWellFounded
  <2>3. PICK T : T = {n - x : x \in S}
    OBVIOUS
  <2>4. T \subseteq Nat /\ T # {}
    <3>1. \A x \in S : n - x \in Nat
      OBVIOUS
    <3> QED BY <2>3, <3>1
  <2> HIDE DEF R
  <2>5. PICK m \in T : \A y \in T : ~ (<<y, m>> \in R)
    BY <2>2, <2>4, WFMin
  <2>6. \A y \in T : ~ (y < m)
    BY <2>4, <2>5 DEF R
  <2>7. PICK x \in S : m = n - x
    BY <2>3, <2>5
  <2>8. ASSUME NEW y \in S PROVE x >= y
    <3>1. n - y \in T
      BY <2>3
    <3>2. ~ (n - y < n - x)
      BY <2>6, <2>7, <3>1
    <3>3. x \in Nat /\ y \in Nat
      OBVIOUS
    <3> QED BY <3>2, <3>3
  <2> QED BY <2>8
<1>2. Max(S) \in S /\ \A i \in S : Max(S) >= i
  BY <1>1 DEF Max
<1>3. \A i \in S : i \in Nat
  OBVIOUS
<1> QED BY <1>2, <1>3

\* The last place is the one no other of them comes after.
LEMMA LastPlaceIs ==
    ASSUME NEW n \in Nat, NEW S \in SUBSET (1 .. n), NEW x \in S, \A y \in S : y <= x
    PROVE  Max(S) = x
<1>1. Max(S) \in S /\ \A i \in S : i <= Max(S)
  BY LastPlace
<1>2. PICK m : m = Max(S)
  OBVIOUS
<1>3. m \in 1 .. n /\ x \in 1 .. n /\ x <= m /\ m <= x
  BY <1>1, <1>2
<1> QED BY <1>2, <1>3

\* The quantity left by movements of two lists put one after the other.
LEMMA LeftConcat ==
    ASSUME NEW a \in Seq(Move), NEW b \in Seq(Move), NEW start,
           NEW S \in SUBSET DOMAIN a, NEW T \in SUBSET DOMAIN b
    PROVE  Left(a \o b, S \cup Shifted(Len(a), T), start) = Left(b, T, Left(a, S, start))
<1>1. PICK m, n : m = Len(a) /\ n = Len(b)
  OBVIOUS
<1>2. m \in Nat /\ n \in Nat /\ DOMAIN a = 1 .. m /\ DOMAIN b = 1 .. n
  BY <1>1, LenProperties
<1>3. /\ a \o b \in Seq(Move) /\ Len(a \o b) = m + n
      /\ \A i \in 1 .. m + n : (a \o b)[i] = IF i <= m THEN a[i] ELSE b[i - m]
  BY <1>1, ConcatProperties
<1>4. S \cup Shifted(m, T) \subseteq 1 .. m + n
  BY <1>2 DEF Shifted
<1>5. CASE T = {}
  <2>1. S \cup Shifted(m, T) = S
    BY <1>5 DEF Shifted
  <2>2. ASSUME S # {} PROVE (a \o b)[Max(S)] = a[Max(S)]
    <3>1. Max(S) \in 1 .. m
      BY <1>2, <2>2, LastPlace
    <3> QED BY <1>2, <1>3, <3>1
  <2> QED BY <1>1, <1>5, <2>1, <2>2 DEF Left
<1>6. CASE T # {}
  <2>1. PICK x : x = Max(T)
    OBVIOUS
  <2>2. x \in T /\ x \in 1 .. n /\ \A i \in T : i <= x
    BY <1>2, <1>6, <2>1, LastPlace
  <2>3. m + x \in S \cup Shifted(m, T)
    BY <2>2 DEF Shifted
  <2>4. \A y \in S \cup Shifted(m, T) : y <= m + x
    <3>1. ASSUME NEW y \in S PROVE y <= m + x
      <4>1. y \in 1 .. m
        BY <1>2
      <4> QED BY <1>2, <2>2, <4>1
    <3>2. ASSUME NEW i \in T PROVE m + i <= m + x
      <4>1. i \in 1 .. n /\ i <= x
        BY <1>2, <2>2
      <4> QED BY <1>2, <2>2, <4>1
    <3> QED BY <3>1, <3>2 DEF Shifted
  <2>5. Max(S \cup Shifted(m, T)) = m + x
    <3>1. m + n \in Nat
      BY <1>2
    <3> QED BY <1>4, <2>3, <2>4, <3>1, LastPlaceIs
  <2>6. (a \o b)[m + x] = b[x]
    <3>1. m + x \in 1 .. m + n /\ ~ (m + x <= m) /\ (m + x) - m = x
      BY <1>2, <2>2
    <3> QED BY <1>3, <3>1
  <2>7. S \cup Shifted(m, T) # {}
    BY <2>3
  <2> QED BY <1>1, <1>6, <2>1, <2>5, <2>6, <2>7 DEF Left
<1> QED BY <1>5, <1>6

\* The places of a variant in two lists put one after the other, and those of
\* them before a given place.
LEMMA AboutConcat ==
    ASSUME NEW a \in Seq(Move), NEW b \in Seq(Move), NEW v
    PROVE  /\ About(a, v) \in SUBSET DOMAIN a /\ About(b, v) \in SUBSET DOMAIN b
           /\ About(a \o b, v) = About(a, v) \cup Shifted(Len(a), About(b, v))
           /\ \A k \in DOMAIN a :
                 {j \in About(a \o b, v) : j < k} = {j \in About(a, v) : j < k}
           /\ \A k \in DOMAIN b :
                 {j \in About(a \o b, v) : j < Len(a) + k}
                   = About(a, v) \cup Shifted(Len(a), {j \in About(b, v) : j < k})
<1>1. PICK m, n : m = Len(a) /\ n = Len(b)
  OBVIOUS
<1>2. m \in Nat /\ n \in Nat /\ DOMAIN a = 1 .. m /\ DOMAIN b = 1 .. n
  BY <1>1, LenProperties
<1>3. /\ a \o b \in Seq(Move) /\ DOMAIN (a \o b) = 1 .. m + n
      /\ \A i \in 1 .. m + n : (a \o b)[i] = IF i <= m THEN a[i] ELSE b[i - m]
  BY <1>1, ConcatProperties, LenProperties
<1>4. About(a, v) \in SUBSET DOMAIN a /\ About(b, v) \in SUBSET DOMAIN b
  BY DEF About
<1>5. \A i \in 1 .. m : i \in 1 .. m + n /\ (a \o b)[i] = a[i]
  BY <1>2, <1>3
<1>6. \A i \in 1 .. n : m + i \in 1 .. m + n /\ (a \o b)[m + i] = b[i]
  <2>1. ASSUME NEW i \in 1 .. n PROVE m + i \in 1 .. m + n /\ (a \o b)[m + i] = b[i]
    <3>1. m + i \in 1 .. m + n /\ ~ (m + i <= m) /\ (m + i) - m = i
      BY <1>2
    <3> QED BY <1>3, <3>1
  <2> QED BY <2>1
<1>7. \A i \in 1 .. m + n : i \in 1 .. m \/ \E k \in 1 .. n : i = m + k
  <2>1. ASSUME NEW i \in 1 .. m + n, i \notin 1 .. m PROVE \E k \in 1 .. n : i = m + k
    <3>1. i - m \in 1 .. n /\ i = m + (i - m)
      BY <1>2, <2>1
    <3> QED BY <3>1
  <2> QED BY <2>1
<1>8. About(a \o b, v) = About(a, v) \cup Shifted(m, About(b, v))
  <2>1. ASSUME NEW i \in About(a \o b, v)
        PROVE  i \in About(a, v) \cup Shifted(m, About(b, v))
    <3>1. i \in 1 .. m + n /\ (a \o b)[i].variant = v
      BY <1>3, <2>1 DEF About
    <3>2. CASE i \in 1 .. m
      BY <1>2, <1>5, <3>1, <3>2 DEF About
    <3>3. CASE \E k \in 1 .. n : i = m + k
      BY <1>2, <1>6, <3>1, <3>3 DEF About, Shifted
    <3> QED BY <1>7, <3>1, <3>2, <3>3
  <2>2. ASSUME NEW i \in About(a, v) PROVE i \in About(a \o b, v)
    BY <1>2, <1>3, <1>5, <2>2 DEF About
  <2>3. ASSUME NEW i \in Shifted(m, About(b, v)) PROVE i \in About(a \o b, v)
    <3>1. PICK k \in About(b, v) : i = m + k
      BY DEF Shifted
    <3> QED BY <1>2, <1>3, <1>6, <3>1 DEF About
  <2> QED BY <2>1, <2>2, <2>3
<1>9. \A i \in About(a, v) : i \in 1 .. m
  BY <1>2, <1>4
<1>10. \A i \in Shifted(m, About(b, v)) : i > m
  <2>1. ASSUME NEW i \in About(b, v) PROVE m + i > m
    <3>1. i \in 1 .. n
      BY <1>2, <1>4
    <3> QED BY <1>2, <3>1
  <2> QED BY <2>1 DEF Shifted
<1>11. ASSUME NEW k \in DOMAIN a
       PROVE  {j \in About(a \o b, v) : j < k} = {j \in About(a, v) : j < k}
  <2>1. k \in 1 .. m
    BY <1>2
  <2>2. ASSUME NEW i \in Shifted(m, About(b, v)) PROVE ~ (i < k)
    <3>1. i > m /\ i \in Int
      BY <1>2, <1>4, <1>10 DEF Shifted
    <3> QED BY <1>2, <2>1, <3>1
  <2> QED BY <1>8, <2>2
<1>12. ASSUME NEW k \in DOMAIN b
       PROVE  {j \in About(a \o b, v) : j < m + k}
                = About(a, v) \cup Shifted(m, {j \in About(b, v) : j < k})
  <2>1. k \in 1 .. n
    BY <1>2
  <2>2. ASSUME NEW i \in About(a, v) PROVE i < m + k
    <3>1. i \in 1 .. m
      BY <1>9
    <3> QED BY <1>2, <2>1, <3>1
  <2>3. ASSUME NEW i \in About(b, v) PROVE m + i < m + k <=> i < k
    <3>1. i \in 1 .. n
      BY <1>2, <1>4
    <3> QED BY <1>2, <2>1, <3>1
  <2>4. {j \in Shifted(m, About(b, v)) : j < m + k}
          = Shifted(m, {j \in About(b, v) : j < k})
    BY <2>3 DEF Shifted
  <2>5. {j \in About(a, v) : j < m + k} = About(a, v)
    BY <2>2
  <2> QED BY <1>8, <2>4, <2>5
<1> QED BY <1>1, <1>4, <1>8, <1>11, <1>12

\* What two lists put one after the other add up to.
LEMMA TotalConcat ==
    ASSUME NEW a \in Seq(Move), NEW b \in Seq(Move), NEW v
    PROVE  /\ Total(a, v) \in Int /\ Total(b, v) \in Int
           /\ Total(a \o b, v) = Total(a, v) + Total(b, v)
<1>1. PICK m, n : m = Len(a) /\ n = Len(b)
  OBVIOUS
<1>2. /\ m \in Nat /\ n \in Nat /\ DOMAIN a = 1 .. m /\ DOMAIN b = 1 .. n
      /\ a \in [1 .. m -> Move] /\ b \in [1 .. n -> Move]
  BY <1>1, LenProperties
<1>3. /\ a \o b \in Seq(Move) /\ DOMAIN (a \o b) = 1 .. m + n
      /\ \A i \in 1 .. m + n : (a \o b)[i] = IF i <= m THEN a[i] ELSE b[i - m]
  BY <1>1, ConcatProperties, LenProperties
<1>4. PICK f : f = [i \in DOMAIN a |-> a[i].delta]
  OBVIOUS
<1>5. PICK g : g = [i \in DOMAIN b |-> b[i].delta]
  OBVIOUS
<1>6. PICK h : h = [i \in DOMAIN (a \o b) |-> (a \o b)[i].delta]
  OBVIOUS
<1>7. PICK S : S = About(a, v)
  OBVIOUS
<1>8. PICK T : T = About(b, v)
  OBVIOUS
<1>9. /\ S \in SUBSET (1 .. m) /\ T \in SUBSET (1 .. n)
      /\ About(a \o b, v) = S \cup Shifted(m, T)
  BY <1>1, <1>2, <1>7, <1>8, AboutConcat
<1>10. IsFiniteSet(S) /\ IsFiniteSet(T)
  <2>1. IsFiniteSet(1 .. m) /\ IsFiniteSet(1 .. n)
    BY <1>2, FS_Interval
  <2> QED BY <1>9, <2>1, FS_Subset
<1>11. /\ \A i \in S : f[i] \in Int /\ h[i] = f[i]
       /\ \A i \in T : g[i] \in Int /\ h[m + i] = g[i]
  <2>1. ASSUME NEW i \in S PROVE f[i] \in Int /\ h[i] = f[i]
    <3>1. i \in 1 .. m /\ i \in 1 .. m + n /\ i <= m
      BY <1>2, <1>9
    <3>2. a[i] \in Move
      BY <1>2, <3>1
    <3> QED BY <1>2, <1>3, <1>4, <1>6, <3>1, <3>2 DEF Move
  <2>2. ASSUME NEW i \in T PROVE g[i] \in Int /\ h[m + i] = g[i]
    <3>1. i \in 1 .. n /\ m + i \in 1 .. m + n /\ ~ (m + i <= m) /\ (m + i) - m = i
      BY <1>2, <1>9
    <3>2. b[i] \in Move
      BY <1>2, <3>1
    <3> QED BY <1>2, <1>3, <1>5, <1>6, <3>1, <3>2 DEF Move
  <2> QED BY <2>1, <2>2
<1>12. /\ IsFiniteSet(Shifted(m, T))
       /\ SumFunctionOnSet(h, Shifted(m, T)) = SumFunctionOnSet(g, T)
  <2>1. T \in SUBSET Nat
    BY <1>9
  <2> QED BY <1>2, <1>10, <1>11, <2>1, SumShifted
<1>13. SumFunctionOnSet(h, S) = SumFunctionOnSet(f, S)
  BY <1>10, <1>11, SumSame
<1>14. S \cap Shifted(m, T) = {}
  <2>1. ASSUME NEW i \in T PROVE m + i \notin 1 .. m
    <3>1. i \in 1 .. n
      BY <1>9
    <3> QED BY <1>2, <3>1
  <2> QED BY <1>9, <2>1 DEF Shifted
<1>15. \A x \in S \cup Shifted(m, T) : h[x] \in Int
  BY <1>11 DEF Shifted
<1>16. SumFunctionOnSet(h, S \cup Shifted(m, T))
         = SumFunctionOnSet(h, S) + SumFunctionOnSet(h, Shifted(m, T))
  BY <1>10, <1>12, <1>14, <1>15, SumUnion
<1>17. SumFunctionOnSet(f, S) \in Int /\ SumFunctionOnSet(g, T) \in Int
  BY <1>10, <1>11, SumInt
<1>18. /\ Total(a, v) = SumFunctionOnSet(f, S)
       /\ Total(b, v) = SumFunctionOnSet(g, T)
       /\ Total(a \o b, v) = SumFunctionOnSet(h, S \cup Shifted(m, T))
  BY <1>4, <1>5, <1>6, <1>7, <1>8, <1>9 DEF Total
<1> QED BY <1>12, <1>13, <1>16, <1>17, <1>18
-----------------------------------------------------------------------------
(* Movements that explain quantities.                                      *)

\* From the quantities `start', the list leaves what its deltas add to them.
Adds(moves, start) ==
    \A v \in Variants : Left(moves, About(moves, v), start[v]) = start[v] + Total(moves, v)
Explains(moves, start) == Chained(moves, start) /\ Adds(moves, start)

\* The quantities a list of movements leaves.
Balance(moves, start) == [v \in Variants |-> Left(moves, About(moves, v), start[v])]

\* A list that explains what another one left explains it together with it.
THEOREM ExplainsConcat ==
    ASSUME NEW a \in Seq(Move), NEW b \in Seq(Move), NEW start \in [Variants -> Nat],
           Explains(a, start), Explains(b, Balance(a, start))
    PROVE  /\ Explains(a \o b, start)
           /\ Balance(a \o b, start) = Balance(b, Balance(a, start))
<1>1. PICK L : L = Balance(a, start)
  OBVIOUS
<1>2. \A v \in Variants : L[v] = Left(a, About(a, v), start[v])
  BY <1>1 DEF Balance
<1>3. \A v \in Variants :
         Left(a \o b, About(a \o b, v), start[v]) = Left(b, About(b, v), L[v])
  <2>1. ASSUME NEW v \in Variants
        PROVE  Left(a \o b, About(a \o b, v), start[v]) = Left(b, About(b, v), L[v])
    <3>1. /\ About(a, v) \in SUBSET DOMAIN a /\ About(b, v) \in SUBSET DOMAIN b
          /\ About(a \o b, v) = About(a, v) \cup Shifted(Len(a), About(b, v))
      BY AboutConcat
    <3>2. Left(a \o b, About(a, v) \cup Shifted(Len(a), About(b, v)), start[v])
            = Left(b, About(b, v), Left(a, About(a, v), start[v]))
      BY <3>1, LeftConcat
    <3> QED BY <1>2, <3>1, <3>2
  <2> QED BY <2>1
<1>4. Balance(a \o b, start) = Balance(b, L)
  BY <1>3 DEF Balance
<1>5. Adds(a \o b, start)
  <2>1. ASSUME NEW v \in Variants
        PROVE  Left(a \o b, About(a \o b, v), start[v]) = start[v] + Total(a \o b, v)
    <3>1. L[v] = start[v] + Total(a, v)
      BY <1>2 DEF Explains, Adds
    <3>2. Left(b, About(b, v), L[v]) = L[v] + Total(b, v)
      BY <1>1 DEF Explains, Adds
    <3>3. /\ Total(a, v) \in Int /\ Total(b, v) \in Int
          /\ Total(a \o b, v) = Total(a, v) + Total(b, v)
      BY TotalConcat
    <3>4. start[v] \in Int
      OBVIOUS
    <3> QED BY <1>3, <3>1, <3>2, <3>3, <3>4
  <2> QED BY <2>1 DEF Adds
<1>6. PICK m, n : m = Len(a) /\ n = Len(b)
  OBVIOUS
<1>7. /\ m \in Nat /\ n \in Nat /\ DOMAIN a = 1 .. m /\ DOMAIN b = 1 .. n
      /\ a \in [1 .. m -> Move] /\ b \in [1 .. n -> Move]
  BY <1>6, LenProperties
<1>8. /\ a \o b \in Seq(Move) /\ DOMAIN (a \o b) = 1 .. m + n
      /\ \A i \in 1 .. m + n : (a \o b)[i] = IF i <= m THEN a[i] ELSE b[i - m]
  BY <1>6, ConcatProperties, LenProperties
<1>9. ASSUME NEW i \in 1 .. m + n, NEW v, v = (a \o b)[i].variant
      PROVE  (a \o b)[i].before = Left(a \o b, {j \in About(a \o b, v) : j < i}, start[v])
  <2>1. CASE i <= m
    <3>1. i \in 1 .. m /\ (a \o b)[i] = a[i]
      BY <1>7, <1>8, <1>9, <2>1
    <3>2. {j \in About(a \o b, v) : j < i} = {j \in About(a, v) : j < i}
      <4>1. i \in DOMAIN a
        BY <1>7, <3>1
      <4> QED BY <4>1, AboutConcat
    <3>3. a[i].before = Left(a, {j \in About(a, v) : j < i}, start[v])
      BY <1>7, <1>9, <3>1 DEF Explains, Chained
    <3>4. PICK S : S = {j \in About(a, v) : j < i}
      OBVIOUS
    <3>5. S \in SUBSET DOMAIN a
      BY <3>4 DEF About
    <3>6. {} \in SUBSET DOMAIN b /\ S \cup Shifted(m, {}) = S
      BY DEF Shifted
    <3>7. Left(a \o b, S \cup Shifted(Len(a), {}), start[v]) = Left(b, {}, Left(a, S, start[v]))
      BY <1>9, <3>5, <3>6, LeftConcat
    <3>8. Left(a \o b, S, start[v]) = Left(a, S, start[v])
      BY <1>6, <3>6, <3>7 DEF Left
    <3> QED BY <3>1, <3>2, <3>3, <3>4, <3>8
  <2>2. CASE ~ (i <= m)
    <3>1. PICK k : k = i - m
      OBVIOUS
    <3>2. k \in 1 .. n /\ i = m + k /\ (a \o b)[i] = b[k]
      BY <1>7, <1>8, <1>9, <2>2, <3>1
    <3>3. b[k] \in Move /\ v = b[k].variant /\ v \in Variants
      BY <1>7, <1>9, <3>2 DEF Move
    <3>4. PICK T : T = {j \in About(b, v) : j < k}
      OBVIOUS
    <3>5. {j \in About(a \o b, v) : j < i} = About(a, v) \cup Shifted(Len(a), T)
      <4>1. k \in DOMAIN b /\ i = Len(a) + k
        BY <1>6, <1>7, <3>2
      <4>2. {j \in About(a \o b, v) : j < Len(a) + k} = About(a, v) \cup Shifted(Len(a), T)
        BY <3>4, <4>1, AboutConcat
      <4> QED BY <4>1, <4>2
    <3>6. b[k].before = Left(b, T, L[v])
      BY <1>1, <1>7, <3>2, <3>3, <3>4 DEF Explains, Chained
    <3>7. About(a, v) \in SUBSET DOMAIN a /\ T \in SUBSET DOMAIN b
      BY <3>4 DEF About
    <3>8. Left(a \o b, About(a, v) \cup Shifted(Len(a), T), start[v])
            = Left(b, T, Left(a, About(a, v), start[v]))
      BY <1>9, <3>7, LeftConcat
    <3> QED BY <1>2, <3>2, <3>3, <3>5, <3>6, <3>8
  <2> QED BY <2>1, <2>2
<1>10. Chained(a \o b, start)
  BY <1>8, <1>9 DEF Chained
<1> QED BY <1>1, <1>4, <1>5, <1>10 DEF Explains

\* The empty list explains anything, and leaves it as it is.
LEMMA NothingMoved ==
    ASSUME NEW start \in [Variants -> Nat]
    PROVE  Explains(<<>>, start) /\ Balance(<<>>, start) = start
<1>1. \A v : About(<<>>, v) = {}
  BY DEF About
<1>2. \A v : Total(<<>>, v) = 0
  BY <1>1, SumEmpty DEF Total
<1>3. \A v \in Variants : start[v] + 0 = start[v]
  OBVIOUS
<1>4. Adds(<<>>, start)
  BY <1>1, <1>2, <1>3 DEF Adds, Left
<1>5. Chained(<<>>, start)
  BY DEF Chained
<1>6. Balance(<<>>, start) = start
  BY <1>1 DEF Balance, Left
<1> QED BY <1>4, <1>5, <1>6 DEF Explains

\* One movement explains the quantity it adds to.
LEMMA OneMoved ==
    ASSUME NEW start \in [Variants -> Nat], NEW m \in Move,
           m.before = start[m.variant], m.after = m.before + m.delta
    PROVE  /\ Explains(<<m>>, start)
           /\ Balance(<<m>>, start) = [start EXCEPT ![m.variant] = m.after]
<1>1. /\ m.variant \in Variants /\ m.delta \in Int
      /\ start[m.variant] \in Nat
  BY DEF Move
<1>2. PICK b : b = <<m>>
  OBVIOUS
<1>3. DOMAIN b = {1} /\ b[1] = m
  BY <1>2
<1>4. \A v : About(b, v) = IF v = m.variant THEN {1} ELSE {}
  BY <1>3 DEF About
<1>5. Max({1}) = 1
  BY LastPlaceIs
<1>6. \A v : Total(b, v) = IF v = m.variant THEN m.delta ELSE 0
  <2>1. ASSUME NEW f, f = [i \in DOMAIN b |-> b[i].delta]
        PROVE  SumFunctionOnSet(f, {1}) = m.delta /\ SumFunctionOnSet(f, {}) = 0
    <3>1. f[1] = m.delta
      BY <1>3, <2>1
    <3>2. SumFunctionOnSet(f, {}) = 0
      BY SumEmpty
    <3>3. SumFunctionOnSet(f, {} \cup {1}) = f[1] + SumFunctionOnSet(f, {})
      <4>1. \A x \in {} \cup {1} : f[x] \in Int
        BY <1>1, <3>1
      <4>2. IsFiniteSet({}) /\ 1 \notin {}
        BY FS_EmptySet
      <4> QED BY <4>1, <4>2, SumAdd
    <3>4. {} \cup {1} = {1}
      OBVIOUS
    <3> QED BY <1>1, <3>1, <3>2, <3>3, <3>4
  <2> QED BY <1>4, <2>1 DEF Total
<1>7. \A v : Left(b, About(b, v), start[v]) = IF v = m.variant THEN m.after ELSE start[v]
  BY <1>3, <1>4, <1>5 DEF Left
<1>8. Adds(b, start)
  BY <1>1, <1>6, <1>7 DEF Adds
<1>9. Chained(b, start)
  <2>1. {j \in {1} : j < 1} = {}
    OBVIOUS
  <2> QED BY <1>3, <1>4, <2>1 DEF Chained, Left
<1>10. Balance(b, start) = [start EXCEPT ![m.variant] = m.after]
  BY <1>1, <1>7 DEF Balance
<1> QED BY <1>2, <1>8, <1>9, <1>10 DEF Explains

\* Quantities of other variants do not matter to a list of movements.
LEMMA SameStart ==
    ASSUME NEW moves \in Seq(Move), NEW old \in [Variants -> Nat], NEW new \in [Variants -> Nat],
           \A i \in DOMAIN moves : new[moves[i].variant] = old[moves[i].variant],
           Explains(moves, old)
    PROVE  /\ Explains(moves, new)
           /\ \A v \in Variants : new[v] = old[v] => Balance(moves, new)[v] = Balance(moves, old)[v]
<1>1. Chained(moves, new)
  BY DEF Explains, Chained
<1>2. Adds(moves, new)
  <2>1. ASSUME NEW v \in Variants
        PROVE  Left(moves, About(moves, v), new[v]) = new[v] + Total(moves, v)
    <3>1. CASE About(moves, v) = {}
      <4>1. Total(moves, v) = 0
        BY <3>1, SumEmpty DEF Total
      <4>2. new[v] \in Nat
        OBVIOUS
      <4> QED BY <3>1, <4>1, <4>2 DEF Left
    <3>2. CASE About(moves, v) # {}
      <4>1. new[v] = old[v]
        BY <3>2 DEF About
      <4> QED BY <4>1 DEF Explains, Adds
    <3> QED BY <3>1, <3>2
  <2> QED BY <2>1 DEF Adds
<1> QED BY <1>1, <1>2 DEF Explains, Balance
-----------------------------------------------------------------------------
(* The inductive invariant of the stock ledger.                            *)

TxRow ==
    [state : {"idle", "running", "committed", "aborted"}, lines : Seq(Line),
     attempt : 0 .. MaxAttempts, read : Nat \cup {None}, moves : Seq(Move), receipt : Nat,
     snapshot : [Variants -> [quantity : Nat, version : Nat]]]

StockTyped ==
    /\ onHand \in [Variants -> Nat]
    /\ version \in [Variants -> Nat]
    /\ movement \in Seq(Move)
    /\ lastSequence \in Nat
    /\ tx \in [Transactions -> TxRow]
    /\ upsertLocks \in BOOLEAN

\* The variant of the line r is at, and the rows it has a lock on.
Moving(r) == r.lines[Len(r.moves) + 1].variant
HeldBy(r) ==
    {v \in Variants :
        /\ r.state = "running"
        /\ \/ \E i \in DOMAIN r.moves : r.moves[i].variant = v
           \/ upsertLocks /\ r.read # None /\ v = Moving(r)}

\* A transaction has moved no more lines than it has, and reads for a line it has.
AtItsLine(r) ==
    /\ Len(r.moves) <= Len(r.lines)
    /\ r.read # None => Len(r.moves) < Len(r.lines)

\* With locking upserts, its movements explain what it leaves on top of the committed
\* rows, and what it has read is just that.
Exact(r) ==
    /\ Explains(r.moves, onHand)
    /\ r.read # None => r.read = Balance(r.moves, onHand)[Moving(r)]

\* A receive or adjust moves one line; a row that was not updated since its snapshot
\* is as the snapshot has it, and what it writes adds its delta to the committed row.
SnapshotSound(r) ==
    \A v \in Variants :
        /\ r.snapshot[v].version <= version[v]
        /\ r.snapshot[v].version = version[v] => r.snapshot[v].quantity = onHand[v]
SingleLine(r) ==
    /\ Len(r.lines) = 1
    /\ SnapshotSound(r)
    /\ r.read # None => r.read = r.snapshot[r.lines[1].variant].quantity
    /\ r.moves # <<>> =>
          /\ r.moves[1].variant = r.lines[1].variant
          /\ r.moves[1].after = onHand[r.lines[1].variant] + r.lines[1].delta

RunSound(t, r) ==
    r.state = "running" =>
        /\ AtItsLine(r)
        /\ upsertLocks => Exact(r)
        /\ t \notin Settlements => SingleLine(r)
RunsSound == \A t \in Transactions : RunSound(t, tx[t])
RunsApart == \A t, u \in Transactions : t # u => HeldBy(tx[t]) \cap HeldBy(tx[u]) = {}

LedgerSound == upsertLocks => Explains(movement, Stock) /\ onHand = Balance(movement, Stock)

\* One running transaction at most has taken a number, and it is the next one.
Numbered(r) == r.state = "running" /\ r.receipt # 0
Posted == {t \in Settlements : tx[t].state = "committed"}
NumbersSound ==
    /\ \A t \in Transactions : Numbered(tx[t]) =>
          /\ tx[t].receipt = lastSequence + 1
          /\ \A u \in Transactions \ {t} : ~ Numbered(tx[u])
    /\ IsFiniteSet(Posted)
    /\ lastSequence = Cardinality(Posted)
    /\ {tx[t].receipt : t \in Posted} = 1 .. lastSequence

StockInv == StockTyped /\ RunsSound /\ RunsApart /\ LedgerSound /\ NumbersSound
-----------------------------------------------------------------------------
(* Steps of one transaction that leave the tables alone.                   *)

\* The locks of the model are those of the invariant.
LEMMA LockedIsHeld ==
    ASSUME StockInv, NEW t \in Transactions
    PROVE  Locked(t) = HeldBy(tx[t])
<1>1. tx[t] \in TxRow
  BY DEF StockInv, StockTyped
<1>2. \A i \in DOMAIN tx[t].moves : tx[t].moves[i].variant \in Variants
  <2>1. PICK m \in Seq(Move) : m = tx[t].moves
    BY <1>1 DEF TxRow
  <2>2. DOMAIN m = 1 .. Len(m) /\ \A i \in 1 .. Len(m) : m[i] \in Move
    BY LenProperties, ElementOfSeq
  <2> QED BY <2>1, <2>2 DEF Move
<1>3. ASSUME tx[t].state = "running", tx[t].read # None
      PROVE  Moving(tx[t]) \in Variants
  <2>1. /\ tx[t].moves \in Seq(Move) /\ tx[t].lines \in Seq(Line)
        /\ Len(tx[t].moves) < Len(tx[t].lines)
    BY <1>1, <1>3 DEF TxRow, StockInv, RunsSound, RunSound, AtItsLine
  <2>2. PICK n : n = Len(tx[t].moves)
    OBVIOUS
  <2>3. PICK l \in Seq(Line) : l = tx[t].lines
    BY <2>1
  <2>4. n \in Nat /\ Len(l) \in Nat /\ n + 1 \in 1 .. Len(l)
    BY <2>1, <2>2, <2>3, LenProperties
  <2>5. l[n + 1] \in Line
    BY <2>4, ElementOfSeq
  <2> QED BY <2>2, <2>3, <2>5 DEF Line, Moving
<1> QED BY <1>2, <1>3 DEF Locked, HeldBy, Running, Written, ReadLocked, Current, Moving

\* A transaction that is not committed changes, and what it becomes is sound.
LEMMA OwnStep ==
    ASSUME StockInv, NEW t \in Transactions, NEW new \in TxRow,
           tx' = [tx EXCEPT ![t] = new], UNCHANGED <<rows, upsertLocks>>,
           tx[t].state # "committed", new.state # "committed",
           RunSound(t, new),
           \A u \in Transactions \ {t} : HeldBy(new) \cap HeldBy(tx[u]) = {},
           Numbered(new) =>
              \/ Numbered(tx[t]) /\ new.receipt = tx[t].receipt
              \/ /\ new.receipt = lastSequence + 1
                 /\ \A u \in Transactions \ {t} : ~ Numbered(tx[u])
    PROVE  StockInv'
<1>1. /\ tx' \in [Transactions -> TxRow]
      /\ tx'[t] = new
      /\ \A u \in Transactions \ {t} : tx'[u] = tx[u]
  BY DEF StockInv, StockTyped
<1>2. /\ onHand' = onHand /\ version' = version /\ movement' = movement
      /\ lastSequence' = lastSequence /\ upsertLocks' = upsertLocks
  BY DEF rows
<1>3. StockTyped'
  BY <1>1, <1>2 DEF StockInv, StockTyped
<1>4. RunsSound'
  <2>1. \A u, r : RunSound(u, r) => RunSound(u, r)'
    BY <1>2 DEF RunSound, AtItsLine, Exact, SingleLine, SnapshotSound
  <2>2. ASSUME NEW u \in Transactions PROVE RunSound(u, tx'[u])
    BY <1>1 DEF StockInv, RunsSound
  <2>3. ASSUME NEW u \in Transactions PROVE RunSound(u, tx[u])'
    <3>1. PICK r : r = tx'[u]
      OBVIOUS
    <3>2. RunSound(u, r)'
      BY <2>1, <2>2, <3>1
    <3> QED BY <3>1, <3>2 DEF RunSound, AtItsLine, Exact, SingleLine, SnapshotSound
  <2> QED BY <2>3 DEF RunsSound
<1>5. RunsApart'
  <2>1. \A u \in Transactions : HeldBy(tx[u])' = HeldBy(tx'[u])
    BY <1>2 DEF HeldBy
  <2>2. ASSUME NEW p \in Transactions, NEW q \in Transactions, p # q
        PROVE  HeldBy(tx'[p]) \cap HeldBy(tx'[q]) = {}
    BY <1>1, <2>2 DEF StockInv, RunsApart
  <2> QED BY <2>1, <2>2 DEF RunsApart
<1>6. LedgerSound'
  BY <1>2 DEF StockInv, LedgerSound
<1>7. NumbersSound'
  <2>1. Posted' = Posted /\ \A p \in Posted : tx'[p] = tx[p]
    BY <1>1, StockAssumption DEF Posted
  <2>2. {tx'[p].receipt : p \in Posted'} = {tx[p].receipt : p \in Posted}
    BY <2>1
  <2>3. ASSUME NEW p \in Transactions, Numbered(tx'[p])
        PROVE  /\ tx'[p].receipt = lastSequence + 1
               /\ \A u \in Transactions \ {p} : ~ Numbered(tx'[u])
    BY <1>1, <2>3 DEF StockInv, NumbersSound
  <2>4. \A p \in Transactions : Numbered(tx[p])' = Numbered(tx'[p])
    BY DEF Numbered
  <2> QED BY <1>2, <2>1, <2>2, <2>3, <2>4 DEF StockInv, NumbersSound
<1> QED BY <1>3, <1>4, <1>5, <1>6, <1>7 DEF StockInv

\* A transaction that has moved nothing and read nothing yet, in the state of now.
LEMMA FreshStep ==
    ASSUME StockInv, NEW t \in Transactions, NEW new \in TxRow,
           tx' = [tx EXCEPT ![t] = new], UNCHANGED <<rows, upsertLocks>>,
           tx[t].state # "committed", new.state = "running",
           new.moves = <<>>, new.read = None, new.snapshot = Snapshot,
           t \notin Settlements => Len(new.lines) = 1,
           Numbered(new) => Numbered(tx[t]) /\ new.receipt = tx[t].receipt
    PROVE  StockInv'
<1>1. onHand \in [Variants -> Nat] /\ version \in [Variants -> Nat]
  BY DEF StockInv, StockTyped
<1>2. AtItsLine(new)
  <2>1. Len(new.lines) \in Nat /\ Len(new.moves) = 0
    <3>1. new.lines \in Seq(Line)
      BY DEF TxRow
    <3> QED BY <3>1, LenProperties
  <2> QED BY <2>1 DEF AtItsLine
<1>3. Exact(new)
  BY <1>1, NothingMoved DEF Exact
<1>4. SnapshotSound(new)
  BY <1>1 DEF SnapshotSound, Snapshot
<1>5. RunSound(t, new)
  BY <1>2, <1>3, <1>4 DEF RunSound, SingleLine
<1>6. HeldBy(new) = {}
  BY DEF HeldBy
<1> QED BY <1>5, <1>6, OwnStep

\* The line a running transaction is at is one of its lines.
LEMMA TheLine ==
    ASSUME StockInv, NEW t \in Transactions, HasLine(t)
    PROVE  /\ Current(t) \in Line
           /\ Current(t).variant = Moving(tx[t])
           /\ Current(t) = tx[t].lines[Len(tx[t].moves) + 1]
<1>1. PICK m \in Seq(Move), l \in Seq(Line) : m = tx[t].moves /\ l = tx[t].lines
  BY DEF StockInv, StockTyped, TxRow
<1>2. PICK n : n = Len(m)
  OBVIOUS
<1>3. n \in Nat /\ Len(l) \in Nat /\ n + 1 \in 1 .. Len(l)
  BY <1>1, <1>2, LenProperties DEF HasLine
<1>4. l[n + 1] \in Line
  BY <1>3, ElementOfSeq
<1> QED BY <1>1, <1>2, <1>4 DEF Current, Moving

\* A transaction starts with nothing moved, read or numbered.
LEMMA StartStep ==
    ASSUME StockInv, NEW t \in Transactions, NEW lines \in Seq(Line), Start(t, lines),
           t \notin Settlements => Len(lines) = 1
    PROVE  StockInv'
<1>1. PICK new : new = [NotStarted EXCEPT !.state = "running", !.lines = lines,
                                          !.attempt = 1, !.snapshot = Snapshot]
  OBVIOUS
<1>2. /\ new.state = "running" /\ new.moves = <<>> /\ new.read = None
      /\ new.snapshot = Snapshot /\ new.lines = lines /\ new.receipt = 0
  BY <1>1 DEF NotStarted
<1>3. new \in TxRow
  <2>1. Snapshot \in [Variants -> [quantity : Nat, version : Nat]]
    BY DEF StockInv, StockTyped, Snapshot
  <2>2. <<>> \in Seq(Move) /\ 1 \in 0 .. MaxAttempts
    BY EmptySeq DEF MaxAttempts
  <2> QED BY <1>1, <2>1, <2>2 DEF TxRow, NotStarted
<1>4. tx' = [tx EXCEPT ![t] = new] /\ UNCHANGED <<rows, upsertLocks>> /\ tx[t].state = "idle"
  BY <1>1 DEF Start
<1>5. ~ Numbered(new)
  BY <1>2 DEF Numbered
<1> QED BY <1>2, <1>3, <1>4, <1>5, FreshStep

\* Both ways to start.
LEMMA StartsStep ==
    ASSUME StockInv, NEW t \in Transactions, StartSettlement(t) \/ StartStandalone(t)
    PROVE  StockInv'
<1>1. CASE StartSettlement(t)
  <2>1. PICK lines \in LineLists : Start(t, lines)
    BY <1>1 DEF StartSettlement
  <2>2. lines \in Seq(Line) /\ t \in Settlements
    BY <1>1, StockAssumption DEF StartSettlement
  <2> QED BY <2>1, <2>2, StartStep
<1>2. CASE StartStandalone(t)
  <2>1. PICK v \in Variants, d \in Deltas : Start(t, <<[variant |-> v, delta |-> d]>>)
    BY <1>2 DEF StartStandalone
  <2>2. PICK line : line = [variant |-> v, delta |-> d]
    OBVIOUS
  <2>3. line \in Line
    BY <2>2, StockAssumption DEF Line
  <2>4. <<line>> \in Seq(Line) /\ Len(<<line>>) = 1
    BY <2>3
  <2>5. Start(t, <<line>>)
    BY <2>1, <2>2
  <2> QED BY <2>4, <2>5, StartStep
<1> QED BY <1>1, <1>2

\* A receive or adjust that has a line has moved nothing.
LEMMA NothingYet ==
    ASSUME StockInv, NEW t \in Transactions, t \in Running, t \notin Settlements, HasLine(t)
    PROVE  tx[t].moves = <<>>
<1>1. PICK m \in Seq(Move), l \in Seq(Line) : m = tx[t].moves /\ l = tx[t].lines
  BY DEF StockInv, StockTyped, TxRow
<1>2. Len(l) = 1 /\ Len(m) < Len(l)
  BY <1>1 DEF StockInv, RunsSound, RunSound, SingleLine, HasLine, Running
<1>3. Len(m) = 0
  BY <1>2, LenProperties
<1> QED BY <1>1, <1>3, EmptySeq

\* A new attempt forgets what the last one had read.
LEMMA RetryStep ==
    ASSUME StockInv, NEW t \in Transactions, Retry(t)
    PROVE  StockInv'
<1>1. t \in Running /\ t \notin Settlements /\ HasLine(t) /\ tx[t].attempt < MaxAttempts
  BY DEF Retry
<1>2. PICK r \in TxRow : r = tx[t]
  BY DEF StockInv, StockTyped
<1>3. PICK new : new = [r EXCEPT !.attempt = r.attempt + 1, !.read = None, !.snapshot = Snapshot]
  OBVIOUS
<1>4. Snapshot \in [Variants -> [quantity : Nat, version : Nat]]
  BY DEF StockInv, StockTyped, Snapshot
<1>5. r.attempt + 1 \in 0 .. MaxAttempts
  <2>1. r.attempt \in 0 .. MaxAttempts
    BY DEF TxRow
  <2> QED BY <1>1, <1>2, <2>1 DEF MaxAttempts
<1>6. /\ new \in TxRow
      /\ new.state = r.state /\ new.moves = r.moves /\ new.read = None
      /\ new.snapshot = Snapshot /\ new.lines = r.lines /\ new.receipt = r.receipt
  BY <1>3, <1>4, <1>5 DEF TxRow
<1>7. tx' = [tx EXCEPT ![t] = new] /\ UNCHANGED <<rows, upsertLocks>>
  BY <1>2, <1>3 DEF Retry
<1>8. r.state = "running" /\ r.moves = <<>>
  BY <1>1, <1>2, NothingYet DEF Running
<1>9. Len(r.lines) = 1
  BY <1>1, <1>2, <1>8 DEF StockInv, RunsSound, RunSound, SingleLine
<1>10. Numbered(new) => Numbered(r) /\ new.receipt = r.receipt
  BY <1>6 DEF Numbered
<1> QED BY <1>2, <1>6, <1>7, <1>8, <1>9, <1>10, FreshStep

\* A transaction that rolls back lets its rows and its number go.
LEMMA RollBackStep ==
    ASSUME StockInv, NEW t \in Transactions, RollBack(t)
    PROVE  StockInv'
<1>1. PICK r \in TxRow : r = tx[t]
  BY DEF StockInv, StockTyped
<1>2. PICK new : new = [r EXCEPT !.state = "aborted"]
  OBVIOUS
<1>3. new \in TxRow /\ new.state = "aborted"
  BY <1>2 DEF TxRow
<1>4. tx' = [tx EXCEPT ![t] = new] /\ UNCHANGED <<rows, upsertLocks>> /\ r.state = "running"
  BY <1>1, <1>2 DEF RollBack, Running
<1>5. RunSound(t, new) /\ HeldBy(new) = {} /\ ~ Numbered(new)
  BY <1>3 DEF RunSound, HeldBy, Numbered
<1> QED BY <1>1, <1>3, <1>4, <1>5, OwnStep

\* Taking a number while nobody else has one.
LEMMA IssueReceiptStep ==
    ASSUME StockInv, NEW t \in Transactions, IssueReceipt(t)
    PROVE  StockInv'
<1>1. PICK r \in TxRow : r = tx[t]
  BY DEF StockInv, StockTyped
<1>2. PICK new : new = [r EXCEPT !.receipt = lastSequence + 1]
  OBVIOUS
<1>3. /\ new \in TxRow /\ new.receipt = lastSequence + 1
      /\ new.state = r.state /\ new.lines = r.lines /\ new.moves = r.moves
      /\ new.read = r.read /\ new.snapshot = r.snapshot
  <2>1. lastSequence + 1 \in Nat
    BY DEF StockInv, StockTyped
  <2> QED BY <1>2, <2>1 DEF TxRow
<1>4. tx' = [tx EXCEPT ![t] = new] /\ UNCHANGED <<rows, upsertLocks>> /\ r.state = "running"
  BY <1>1, <1>2 DEF IssueReceipt, Running
<1>5. RunSound(t, new)
  BY <1>1, <1>3 DEF StockInv, RunsSound, RunSound, AtItsLine, Exact, SingleLine, SnapshotSound,
                    Moving
<1>6. HeldBy(new) = HeldBy(r)
  BY <1>3 DEF HeldBy, Moving
<1>7. \A u \in Transactions \ {t} : ~ Numbered(tx[u])
  BY DEF IssueReceipt, SequenceFree, Running, Numbered
<1>8. \A u \in Transactions \ {t} : HeldBy(new) \cap HeldBy(tx[u]) = {}
  BY <1>1, <1>6 DEF StockInv, RunsApart
<1> QED BY <1>1, <1>3, <1>4, <1>5, <1>7, <1>8, OwnStep

\* What movements leave is a quantity.
LEMMA LeftNat ==
    ASSUME NEW moves \in Seq(Move), NEW v, NEW start \in Nat
    PROVE  Left(moves, About(moves, v), start) \in Nat
<1>1. PICK places : places = About(moves, v)
  OBVIOUS
<1>2. ASSUME places # {} PROVE moves[Max(places)].after \in Nat
  <2>1. PICK n \in Nat : n = Len(moves) /\ DOMAIN moves = 1 .. n
    BY LenProperties
  <2>2. places \in SUBSET (1 .. n)
    BY <1>1, <2>1 DEF About
  <2>3. PICK x : x = Max(places)
    OBVIOUS
  <2>4. x \in 1 .. n
    BY <1>2, <2>2, <2>3, LastPlace
  <2>5. moves[x] \in Move
    BY <2>1, <2>4, ElementOfSeq
  <2> QED BY <2>3, <2>5 DEF Move
<1> QED BY <1>1, <1>2 DEF Left

\* What a transaction that has a line sees of its row, with locking upserts.
LEMMA SeesTheRow ==
    ASSUME StockInv, NEW t \in Transactions, t \in Running, HasLine(t),
           NEW v, v = Current(t).variant
    PROVE  /\ Visible(t, v) \in Nat
           /\ upsertLocks /\ SnapshotHolds(t, v) => Visible(t, v) = Balance(tx[t].moves, onHand)[v]
           /\ t \notin Settlements => Visible(t, v) = tx[t].snapshot[v].quantity
<1>1. PICK r \in TxRow : r = tx[t]
  BY DEF StockInv, StockTyped
<1>2. v \in Variants /\ onHand[v] \in Nat /\ r.snapshot[v].quantity \in Nat
  BY TheLine DEF Line, TxRow, StockInv, StockTyped
<1>3. PICK places : places = About(r.moves, v)
  OBVIOUS
<1>4. \A start \in Nat : Left(r.moves, places, start) \in Nat
  BY <1>3, LeftNat DEF TxRow
<1>5. Visible(t, v) \in Nat
  BY <1>1, <1>2, <1>3, <1>4 DEF Visible
<1>6. ASSUME t \notin Settlements
      PROVE  /\ Visible(t, v) = r.snapshot[v].quantity
             /\ places = {}
  <2>1. r.moves = <<>>
    BY <1>1, <1>6, NothingYet
  <2>2. places = {}
    BY <1>3, <2>1 DEF About
  <2> QED BY <1>1, <1>3, <1>6, <2>2 DEF Visible, Left
<1>7. ASSUME SnapshotHolds(t, v)
      PROVE  Visible(t, v) = Left(r.moves, places, onHand[v])
  <2>1. CASE t \in Settlements
    BY <1>1, <1>3, <2>1 DEF Visible
  <2>2. CASE t \notin Settlements
    <3>1. r.snapshot[v].version = version[v] /\ SnapshotSound(r)
      BY <1>1, <1>7, <2>2 DEF SnapshotHolds, StockInv, RunsSound, RunSound, SingleLine, Running
    <3>2. r.snapshot[v].quantity = onHand[v]
      BY <1>2, <3>1 DEF SnapshotSound
    <3> QED BY <1>6, <2>2, <3>2 DEF Left
  <2> QED BY <2>1, <2>2
<1>8. Balance(r.moves, onHand)[v] = Left(r.moves, places, onHand[v])
  BY <1>2, <1>3 DEF Balance
<1> QED BY <1>1, <1>5, <1>6, <1>7, <1>8

\* What a transaction reads is what its movements leave, or its snapshot.
LEMMA ReadStep ==
    ASSUME StockInv, NEW t \in Transactions, Read(t)
    PROVE  StockInv'
<1>1. PICK r \in TxRow : r = tx[t]
  BY DEF StockInv, StockTyped
<1>2. t \in Running /\ HasLine(t) /\ r.state = "running" /\ r.read = None
  BY <1>1 DEF Read, Running
<1>3. PICK v \in Variants : v = Current(t).variant /\ v = Moving(r)
  BY <1>1, <1>2, TheLine DEF Line
<1>4. PICK x : x = Visible(t, v)
  OBVIOUS
<1>5. PICK new : new = [r EXCEPT !.read = x]
  OBVIOUS
<1>6. /\ new \in TxRow /\ new.read = x
      /\ new.state = r.state /\ new.lines = r.lines /\ new.moves = r.moves
      /\ new.receipt = r.receipt /\ new.snapshot = r.snapshot
  <2>1. x \in Nat
    BY <1>2, <1>3, <1>4, SeesTheRow
  <2> QED BY <1>5, <2>1 DEF TxRow
<1>7. /\ tx' = [tx EXCEPT ![t] = new] /\ UNCHANGED <<rows, upsertLocks>>
      /\ upsertLocks => RowFree(t, v) /\ SnapshotHolds(t, v)
  BY <1>1, <1>3, <1>4, <1>5 DEF Read
<1>8. RunSound(t, new)
  <2>1. RunSound(t, r)
    BY <1>1 DEF StockInv, RunsSound
  <2>2. AtItsLine(new)
    BY <1>1, <1>2, <1>6, <2>1 DEF RunSound, AtItsLine, HasLine
  <2>3. ASSUME upsertLocks PROVE Exact(new)
    <3>1. x = Balance(r.moves, onHand)[v]
      BY <1>1, <1>2, <1>3, <1>4, <1>7, <2>3, SeesTheRow
    <3>2. Moving(new) = v
      BY <1>3, <1>6 DEF Moving
    <3> QED BY <1>2, <1>6, <2>1, <2>3, <3>1, <3>2 DEF RunSound, Exact
  <2>4. ASSUME t \notin Settlements PROVE SingleLine(new)
    <3>1. r.moves = <<>> /\ x = r.snapshot[v].quantity
      BY <1>1, <1>2, <1>3, <1>4, <2>4, SeesTheRow, NothingYet
    <3>2. v = r.lines[1].variant
      <4>1. Len(r.moves) + 1 = 1
        BY <3>1
      <4> QED BY <1>3, <4>1 DEF Moving
    <3> QED BY <1>2, <1>6, <2>1, <2>4, <3>1, <3>2 DEF RunSound, SingleLine, SnapshotSound
  <2> QED BY <2>2, <2>3, <2>4 DEF RunSound
<1>9. ASSUME NEW u \in Transactions \ {t} PROVE HeldBy(new) \cap HeldBy(tx[u]) = {}
  <2>1. HeldBy(r) \cap HeldBy(tx[u]) = {}
    BY <1>1 DEF StockInv, RunsApart
  <2>2. upsertLocks => v \notin HeldBy(tx[u])
    BY <1>7, LockedIsHeld DEF RowFree
  <2>3. \A w \in HeldBy(new) : w \in HeldBy(r) \/ (upsertLocks /\ w = v)
    BY <1>3, <1>6 DEF HeldBy, Moving
  <2> QED BY <2>1, <2>2, <2>3
<1>10. Numbered(new) => Numbered(r) /\ new.receipt = r.receipt
  BY <1>6 DEF Numbered
<1> QED BY <1>1, <1>2, <1>6, <1>7, <1>8, <1>9, <1>10, OwnStep

\* A movement written on top of what was read.
LEMMA WriteStep ==
    ASSUME StockInv, NEW t \in Transactions, Write(t)
    PROVE  StockInv'
<1>1. PICK r \in TxRow : r = tx[t]
  BY DEF StockInv, StockTyped
<1>2. t \in Running /\ HasLine(t) /\ r.state = "running" /\ r.read # None
  BY <1>1 DEF Write, Running
<1>3. PICK line \in Line : line = Current(t) /\ line = r.lines[Len(r.moves) + 1]
  BY <1>1, <1>2, TheLine
<1>4. PICK v \in Variants, d \in Int : v = line.variant /\ d = line.delta
  BY DEF Line
<1>5. PICK m : m = [by |-> t, variant |-> v, delta |-> d, before |-> r.read, after |-> r.read + d]
  OBVIOUS
<1>6. r.read \in Nat /\ r.read + d \in Nat
  <2>1. r.read \in Nat
    BY <1>2 DEF TxRow
  <2>2. Sufficient(r.read + d)
    BY <1>1, <1>3, <1>4 DEF Write
  <2> QED BY <2>1, <2>2 DEF Sufficient
<1>7. /\ m \in Move /\ m.variant = v /\ m.delta = d /\ m.before = r.read
      /\ m.after = r.read + d
  BY <1>5, <1>6 DEF Move
<1>8. PICK moves \in Seq(Move) : moves = r.moves
  BY DEF TxRow
<1>9. /\ Append(moves, m) \in Seq(Move) /\ Append(moves, m) = moves \o <<m>>
      /\ Len(Append(moves, m)) = Len(moves) + 1 /\ Len(moves) \in Nat
      /\ \A i \in DOMAIN Append(moves, m) :
            \/ i \in DOMAIN moves /\ Append(moves, m)[i] = moves[i]
            \/ Append(moves, m)[i] = m
  <2>1. /\ Append(moves, m) \in Seq(Move) /\ Append(moves, m) = moves \o <<m>>
        /\ Len(Append(moves, m)) = Len(moves) + 1
        /\ \A i \in 1 .. Len(moves) : Append(moves, m)[i] = moves[i]
        /\ Append(moves, m)[Len(moves) + 1] = m
    BY <1>7, AppendProperties, AppendIsConcat
  <2>2. /\ Len(moves) \in Nat /\ DOMAIN moves = 1 .. Len(moves)
        /\ DOMAIN Append(moves, m) = 1 .. Len(moves) + 1
    BY <2>1, LenProperties
  <2> QED BY <2>1, <2>2
<1>10. PICK new : new = [r EXCEPT !.read = None, !.moves = Append(moves, m)]
  OBVIOUS
<1>11. /\ new \in TxRow /\ new.read = None /\ new.moves = Append(moves, m)
       /\ new.state = r.state /\ new.lines = r.lines
       /\ new.receipt = r.receipt /\ new.snapshot = r.snapshot
  BY <1>9, <1>10 DEF TxRow
<1>12. /\ tx' = [tx EXCEPT ![t] = new] /\ UNCHANGED <<rows, upsertLocks>>
       /\ RowFree(t, v) /\ SnapshotHolds(t, v)
  BY <1>1, <1>3, <1>4, <1>5, <1>8, <1>10 DEF Write
<1>13. RunSound(t, r)
  BY <1>1 DEF StockInv, RunsSound
<1>14. onHand \in [Variants -> Nat]
  BY DEF StockInv, StockTyped
<1>15. RunSound(t, new)
  <2>1. AtItsLine(new)
    <3>1. Len(moves) < Len(r.lines) /\ Len(r.lines) \in Nat
      <4>1. r.lines \in Seq(Line)
        BY DEF TxRow
      <4> QED BY <1>1, <1>2, <1>8, <4>1, LenProperties DEF HasLine
    <3> QED BY <1>9, <1>11, <3>1 DEF AtItsLine
  <2>2. ASSUME upsertLocks PROVE Exact(new)
    <3>1. PICK L : L = Balance(moves, onHand)
      OBVIOUS
    <3>2. L \in [Variants -> Nat]
      BY <1>14, <3>1, LeftNat DEF Balance
    <3>3. Explains(moves, onHand) /\ r.read = L[v]
      BY <1>2, <1>3, <1>4, <1>8, <1>13, <2>2, <3>1 DEF RunSound, Exact, Moving
    <3>4. Explains(<<m>>, L)
      BY <1>7, <3>2, <3>3, OneMoved
    <3>5. <<m>> \in Seq(Move)
      BY <1>7
    <3>6. Explains(moves \o <<m>>, onHand)
      BY <1>14, <3>1, <3>3, <3>4, <3>5, ExplainsConcat
    <3> QED BY <1>9, <1>11, <3>6 DEF Exact
  <2>3. ASSUME t \notin Settlements PROVE SingleLine(new)
    <3>1. SingleLine(r) /\ moves = <<>>
      BY <1>1, <1>2, <1>8, <1>13, <2>3, NothingYet DEF RunSound
    <3>2. new.moves[1] = m
      BY <1>7, <1>11, <3>1
    <3>3. line = r.lines[1]
      <4>1. Len(r.moves) + 1 = 1
        BY <1>8, <3>1
      <4> QED BY <1>3, <4>1
    <3>4. r.snapshot[v].version = version[v]
      BY <1>1, <1>12, <2>3 DEF SnapshotHolds
    <3>5. r.read = onHand[v]
      BY <1>2, <1>4, <3>1, <3>3, <3>4 DEF SingleLine, SnapshotSound
    <3> QED BY <1>4, <1>7, <1>11, <3>1, <3>2, <3>3, <3>5 DEF SingleLine, SnapshotSound
  <2> QED BY <2>1, <2>2, <2>3 DEF RunSound
<1>16. ASSUME NEW u \in Transactions \ {t} PROVE HeldBy(new) \cap HeldBy(tx[u]) = {}
  <2>1. HeldBy(r) \cap HeldBy(tx[u]) = {}
    BY <1>1 DEF StockInv, RunsApart
  <2>2. v \notin HeldBy(tx[u])
    BY <1>12, LockedIsHeld DEF RowFree
  <2>3. \A w \in HeldBy(new) : w \in HeldBy(r) \/ w = v
    BY <1>2, <1>7, <1>8, <1>9, <1>11 DEF HeldBy
  <2> QED BY <2>1, <2>2, <2>3
<1>17. Numbered(new) => Numbered(r) /\ new.receipt = r.receipt
  BY <1>11 DEF Numbered
<1> QED BY <1>1, <1>2, <1>11, <1>12, <1>15, <1>16, <1>17, OwnStep

-----------------------------------------------------------------------------
(* The commit.                                                             *)

\* A commit of rows that a transaction does not hold leaves it sound.
LEMMA OthersSound ==
    ASSUME NEW u, NEW q \in TxRow, RunSound(u, q),
           onHand \in [Variants -> Nat], onHand' \in [Variants -> Nat],
           version \in [Variants -> Nat], upsertLocks' = upsertLocks,
           \A v \in HeldBy(q) : onHand'[v] = onHand[v],
           \A v \in Variants :
              \/ version'[v] = version[v] /\ onHand'[v] = onHand[v]
              \/ version'[v] = version[v] + 1
    PROVE  RunSound(u, q)'
<1>1. SUFFICES ASSUME q.state = "running" PROVE RunSound(u, q)'
  BY DEF RunSound
<1>2. PICK moves \in Seq(Move), lines \in Seq(Line) : moves = q.moves /\ lines = q.lines
  BY DEF TxRow
<1>3. /\ Len(moves) \in Nat /\ DOMAIN moves = 1 .. Len(moves)
      /\ Len(lines) \in Nat /\ DOMAIN lines = 1 .. Len(lines)
      /\ \A i \in DOMAIN moves : moves[i] \in Move
      /\ \A i \in DOMAIN lines : lines[i] \in Line
  BY LenProperties, ElementOfSeq
<1>4. \A i \in DOMAIN moves : moves[i].variant \in HeldBy(q)
  BY <1>1, <1>2, <1>3 DEF HeldBy, Move
<1>5. AtItsLine(q)
  BY <1>1 DEF RunSound
<1>6. ASSUME upsertLocks PROVE Exact(q)'
  <2>1. PICK old \in [Variants -> Nat], new \in [Variants -> Nat] : old = onHand /\ new = onHand'
    OBVIOUS
  <2>2. \A i \in DOMAIN moves : new[moves[i].variant] = old[moves[i].variant]
    BY <1>4, <2>1
  <2>3. Explains(moves, old)
    BY <1>1, <1>2, <1>6, <2>1 DEF RunSound, Exact
  <2>4. /\ Explains(moves, new)
        /\ \A v \in Variants : new[v] = old[v] => Balance(moves, new)[v] = Balance(moves, old)[v]
    BY <2>2, <2>3, SameStart
  <2>5. ASSUME q.read # None PROVE q.read = Balance(moves, new)[Moving(q)]
    <3>1. Len(moves) + 1 \in DOMAIN lines
      BY <1>2, <1>3, <1>5, <2>5 DEF AtItsLine
    <3>2. Moving(q) \in Variants
      BY <1>2, <1>3, <3>1 DEF Moving, Line
    <3>3. Moving(q) \in HeldBy(q)
      BY <1>1, <1>6, <2>5, <3>2 DEF HeldBy
    <3>4. q.read = Balance(moves, old)[Moving(q)]
      BY <1>1, <1>2, <1>6, <2>1, <2>5 DEF RunSound, Exact
    <3> QED BY <2>1, <2>4, <3>2, <3>3, <3>4
  <2> QED BY <1>2, <2>1, <2>4, <2>5 DEF Exact
<1>7. ASSUME u \notin Settlements PROVE SingleLine(q)'
  <2>1. SingleLine(q)
    BY <1>1, <1>7 DEF RunSound
  <2>2. SnapshotSound(q)'
    <3>1. ASSUME NEW v \in Variants
          PROVE  /\ q.snapshot[v].version <= version'[v]
                 /\ q.snapshot[v].version = version'[v] => q.snapshot[v].quantity = onHand'[v]
      <4>1. /\ q.snapshot[v].version <= version[v]
            /\ q.snapshot[v].version = version[v] => q.snapshot[v].quantity = onHand[v]
        BY <2>1 DEF SingleLine, SnapshotSound
      <4>2. q.snapshot[v].version \in Nat /\ version[v] \in Nat
        BY DEF TxRow
      <4> QED BY <4>1, <4>2
    <3> QED BY <3>1 DEF SnapshotSound
  <2>3. ASSUME moves # <<>> PROVE onHand'[lines[1].variant] = onHand[lines[1].variant]
    <3>1. 1 \in DOMAIN moves
      BY <1>3, <2>3, EmptySeq
    <3>2. moves[1].variant = lines[1].variant
      BY <1>2, <2>1, <2>3 DEF SingleLine
    <3> QED BY <1>4, <3>1, <3>2
  <2> QED BY <1>2, <2>1, <2>2, <2>3 DEF SingleLine
<1> QED BY <1>5, <1>6, <1>7 DEF RunSound, AtItsLine

\* A commit puts down what the movements of its transaction leave, and touches no
\* row the transaction does not hold.
LEMMA CommitRows ==
    ASSUME StockInv, NEW t \in Transactions, Commit(t)
    PROVE  /\ onHand' = Balance(tx[t].moves, onHand)
           /\ onHand' \in [Variants -> Nat] /\ version' \in [Variants -> Nat]
           /\ \A v \in Variants :
                 \/ version'[v] = version[v] /\ onHand'[v] = onHand[v]
                 \/ version'[v] = version[v] + 1 /\ v \in HeldBy(tx[t])
<1>1. PICK moves \in Seq(Move) : moves = tx[t].moves
  BY DEF StockInv, StockTyped, TxRow
<1>2. onHand \in [Variants -> Nat] /\ version \in [Variants -> Nat]
  BY DEF StockInv, StockTyped
<1>3. tx[t].state = "running"
  BY DEF Commit, Running
<1>4. \A v : v \in Written(t) <=> About(moves, v) # {}
  BY <1>1 DEF Written, About
<1>5. \A v : Left(moves, About(moves, v), onHand[v]) =
                IF v \in Written(t) THEN Visible(t, v) ELSE onHand[v]
  BY <1>1, <1>4 DEF Left, Visible
<1>6. onHand' = Balance(moves, onHand)
  BY <1>5 DEF Commit, Balance
<1>7. \A v \in Variants : Left(moves, About(moves, v), onHand[v]) \in Nat
  BY <1>2, LeftNat
<1>8. onHand' \in [Variants -> Nat]
  BY <1>6, <1>7 DEF Balance
<1>9. \A v \in Variants : v \in Written(t) => v \in HeldBy(tx[t])
  BY <1>3 DEF Written, HeldBy
<1>10. \A v \in Variants :
          /\ version'[v] = IF v \in Written(t) THEN version[v] + 1 ELSE version[v]
          /\ v \notin Written(t) => onHand'[v] = onHand[v]
  BY DEF Commit
<1>11. version' \in [Variants -> Nat]
  BY <1>2 DEF Commit
<1> QED BY <1>1, <1>6, <1>8, <1>9, <1>10, <1>11

\* The number of a settlement that commits is the next one.
LEMMA CommitNumbers ==
    ASSUME StockInv, NEW t \in Transactions, Commit(t)
    PROVE  NumbersSound'
<1>1. /\ tx' = [tx EXCEPT ![t].state = "committed"] /\ tx[t].state = "running"
      /\ t \in Settlements => tx[t].receipt # 0
      /\ lastSequence' = IF t \in Settlements THEN tx[t].receipt ELSE lastSequence
  BY DEF Commit, Running
<1>2. /\ tx \in [Transactions -> TxRow] /\ lastSequence \in Nat
  BY DEF StockInv, StockTyped
<1>3. PICK r \in TxRow : r = tx[t]
  BY <1>2
<1>4. PICK new : new = [r EXCEPT !.state = "committed"]
  OBVIOUS
<1>5. new.state = "committed" /\ new.receipt = r.receipt
  BY <1>4 DEF TxRow
<1>6. tx'[t] = new /\ \A u \in Transactions \ {t} : tx'[u] = tx[u]
  BY <1>1, <1>2, <1>3, <1>4
<1>7. ~ Numbered(tx'[t])
  BY <1>5, <1>6 DEF Numbered
<1>8. \A u \in Transactions : Numbered(tx'[u]) => u # t /\ Numbered(tx[u]) /\ tx'[u] = tx[u]
  BY <1>6, <1>7
<1>9. CASE t \in Settlements
  <2>1. /\ r.receipt = lastSequence + 1
        /\ \A u \in Transactions \ {t} : ~ Numbered(tx[u])
    BY <1>1, <1>3, <1>9 DEF StockInv, NumbersSound, Numbered
  <2>2. \A u \in Transactions : ~ Numbered(tx'[u])
    BY <1>8, <2>1
  <2>3. /\ Posted' = Posted \cup {t} /\ t \notin Posted
        /\ \A u \in Posted : u # t /\ tx'[u] = tx[u]
    BY <1>1, <1>5, <1>6, <1>9, StockAssumption DEF Posted
  <2>4. PICK n \in Nat : n = lastSequence
    BY <1>2
  <2>5. /\ IsFiniteSet(Posted) /\ Cardinality(Posted) = n
        /\ {tx[u].receipt : u \in Posted} = 1 .. n
    BY <2>4 DEF StockInv, NumbersSound
  <2>6. IsFiniteSet(Posted') /\ Cardinality(Posted') = n + 1
    BY <2>3, <2>5, FS_AddElement
  <2>7. {tx'[u].receipt : u \in Posted'} = {tx[u].receipt : u \in Posted} \cup {n + 1}
    BY <1>5, <1>6, <2>1, <2>3, <2>4
  <2>8. (1 .. n) \cup {n + 1} = 1 .. n + 1
    OBVIOUS
  <2>9. lastSequence' = n + 1
    BY <1>1, <1>3, <1>9, <2>1, <2>4
  <2>10. \A u \in Transactions : Numbered(tx[u])' = Numbered(tx'[u])
    BY DEF Numbered
  <2> QED BY <2>2, <2>5, <2>6, <2>7, <2>8, <2>9, <2>10 DEF NumbersSound
<1>10. CASE t \notin Settlements
  <2>1. Posted' = Posted /\ \A u \in Posted : tx'[u] = tx[u]
    BY <1>6, <1>10, StockAssumption DEF Posted
  <2>2. {tx'[u].receipt : u \in Posted'} = {tx[u].receipt : u \in Posted}
    BY <2>1
  <2>3. lastSequence' = lastSequence
    BY <1>1, <1>10
  <2>4. \A u \in Transactions : Numbered(tx[u])' = Numbered(tx'[u])
    BY DEF Numbered
  <2>5. ASSUME NEW p \in Transactions, Numbered(tx'[p])
        PROVE  /\ tx'[p].receipt = lastSequence + 1
               /\ \A u \in Transactions \ {p} : ~ Numbered(tx'[u])
    BY <1>8, <2>5 DEF StockInv, NumbersSound
  <2> QED BY <2>1, <2>2, <2>3, <2>4, <2>5 DEF StockInv, NumbersSound
<1> QED BY <1>9, <1>10

\* A commit appends its movements to the ledger they go on explaining.
LEMMA CommitStep ==
    ASSUME StockInv, NEW t \in Transactions, Commit(t)
    PROVE  StockInv'
<1>1. PICK r \in TxRow : r = tx[t]
  BY DEF StockInv, StockTyped
<1>2. PICK moves \in Seq(Move) : moves = r.moves
  BY DEF TxRow
<1>3. PICK new : new = [r EXCEPT !.state = "committed"]
  OBVIOUS
<1>4. new \in TxRow /\ new.state = "committed" /\ new.receipt = r.receipt
  BY <1>3 DEF TxRow
<1>5. /\ tx' = [tx EXCEPT ![t] = new] /\ r.state = "running"
      /\ movement' = movement \o moves /\ upsertLocks' = upsertLocks
  BY <1>1, <1>2, <1>3 DEF Commit, Running
<1>6. /\ tx' \in [Transactions -> TxRow] /\ tx'[t] = new
      /\ \A u \in Transactions \ {t} : tx'[u] = tx[u]
  BY <1>4, <1>5 DEF StockInv, StockTyped
<1>7. /\ onHand' = Balance(moves, onHand)
      /\ onHand' \in [Variants -> Nat] /\ version' \in [Variants -> Nat]
      /\ \A v \in Variants :
            \/ version'[v] = version[v] /\ onHand'[v] = onHand[v]
            \/ version'[v] = version[v] + 1 /\ v \in HeldBy(r)
  BY <1>1, <1>2, CommitRows
<1>8. onHand \in [Variants -> Nat] /\ version \in [Variants -> Nat] /\ movement \in Seq(Move)
  BY DEF StockInv, StockTyped
<1>9. StockTyped'
  <2>1. movement' \in Seq(Move)
    BY <1>5, <1>8, ConcatProperties
  <2>2. lastSequence' \in Nat
    <3>1. r.receipt \in Nat /\ lastSequence \in Nat
      BY DEF TxRow, StockInv, StockTyped
    <3> QED BY <1>1, <3>1 DEF Commit
  <2> QED BY <1>5, <1>6, <1>7, <2>1, <2>2 DEF StockInv, StockTyped
<1>10. RunsSound'
  <2>1. ASSUME NEW u \in Transactions PROVE RunSound(u, tx[u])'
    <3>1. CASE u = t
      BY <1>4, <1>6, <3>1 DEF RunSound
    <3>2. CASE u # t
      <4>1. PICK q \in TxRow : q = tx[u] /\ q = tx'[u]
        BY <1>6, <3>2 DEF StockInv, StockTyped
      <4>2. RunSound(u, q)
        BY <4>1 DEF StockInv, RunsSound
      <4>3. HeldBy(r) \cap HeldBy(q) = {}
        BY <1>1, <3>2, <4>1 DEF StockInv, RunsApart
      <4>4. \A v \in HeldBy(q) : onHand'[v] = onHand[v]
        BY <1>7, <4>3 DEF HeldBy
      <4>5. RunSound(u, q)'
        BY <1>5, <1>7, <1>8, <4>2, <4>4, OthersSound
      <4> QED BY <4>1, <4>5 DEF RunSound, AtItsLine, Exact, SingleLine, SnapshotSound, Moving
    <3> QED BY <3>1, <3>2
  <2> QED BY <2>1 DEF RunsSound
<1>11. RunsApart'
  <2>1. \A u \in Transactions : HeldBy(tx[u])' = HeldBy(tx'[u])
    BY <1>5 DEF HeldBy
  <2>2. HeldBy(new) = {}
    BY <1>4 DEF HeldBy
  <2>3. ASSUME NEW p \in Transactions, NEW q \in Transactions, p # q
        PROVE  HeldBy(tx'[p]) \cap HeldBy(tx'[q]) = {}
    BY <1>6, <2>2, <2>3 DEF StockInv, RunsApart
  <2> QED BY <2>1, <2>3 DEF RunsApart
<1>12. LedgerSound'
  <2>1. ASSUME upsertLocks
        PROVE  Explains(movement', Stock) /\ onHand' = Balance(movement', Stock)
    <3>1. Explains(movement, Stock) /\ onHand = Balance(movement, Stock)
      BY <2>1 DEF StockInv, LedgerSound
    <3>2. Explains(moves, onHand)
      BY <1>1, <1>2, <1>5, <2>1 DEF StockInv, RunsSound, RunSound, Exact
    <3>3. /\ Explains(movement \o moves, Stock)
          /\ Balance(movement \o moves, Stock) = Balance(moves, Balance(movement, Stock))
      BY <1>8, <3>1, <3>2, ExplainsConcat, StockAssumption
    <3> QED BY <1>5, <1>7, <3>1, <3>3
  <2> QED BY <1>5, <2>1 DEF LedgerSound
<1> QED BY <1>9, <1>10, <1>11, <1>12, CommitNumbers DEF StockInv
-----------------------------------------------------------------------------
(* The theorems about the stock ledger.                                    *)

\* At the start nothing moved.
LEMMA StockStarts == StockInit => StockInv
<1>1. SUFFICES ASSUME StockInit PROVE StockInv
  OBVIOUS
<1>2. /\ onHand = Stock /\ version = [v \in Variants |-> 0] /\ movement = <<>>
      /\ lastSequence = 0 /\ tx = [t \in Transactions |-> NotStarted]
      /\ upsertLocks \in BOOLEAN
  BY <1>1, StockAssumption DEF StockInit
<1>3. NotStarted \in TxRow
  <2>1. <<>> \in Seq(Move) /\ <<>> \in Seq(Line) /\ 0 \in 0 .. MaxAttempts
    BY EmptySeq DEF MaxAttempts
  <2> QED BY <2>1 DEF NotStarted, TxRow
<1>4. NotStarted.state = "idle" /\ NotStarted.receipt = 0
  BY DEF NotStarted
<1>5. StockTyped
  <2>1. <<>> \in Seq(Move)
    BY EmptySeq
  <2> QED BY <1>2, <1>3, <2>1, StockAssumption DEF StockTyped
<1>6. RunsSound
  BY <1>2, <1>4 DEF RunsSound, RunSound
<1>7. RunsApart
  BY <1>2, <1>4 DEF RunsApart, HeldBy
<1>8. LedgerSound
  BY <1>2, NothingMoved, StockAssumption DEF LedgerSound
<1>9. NumbersSound
  <2>1. Posted = {}
    BY <1>2, <1>4, StockAssumption DEF Posted
  <2>2. IsFiniteSet(Posted) /\ Cardinality(Posted) = 0
    BY <2>1, FS_EmptySet
  <2>3. {tx[t].receipt : t \in Posted} = {} /\ 1 .. 0 = {}
    BY <2>1
  <2>4. \A t \in Transactions : ~ Numbered(tx[t])
    BY <1>2, <1>4 DEF Numbered
  <2> QED BY <1>2, <2>2, <2>3, <2>4 DEF NumbersSound
<1> QED BY <1>5, <1>6, <1>7, <1>8, <1>9 DEF StockInv

\* Every step of the stock ledger keeps the invariant.
LEMMA StockSteps == StockInv /\ [StockNext]_stockVars => StockInv'
<1>1. SUFFICES ASSUME StockInv, [StockNext]_stockVars PROVE StockInv'
  OBVIOUS
<1>2. CASE UNCHANGED stockVars
  <2>1. /\ onHand' = onHand /\ version' = version /\ movement' = movement
        /\ lastSequence' = lastSequence /\ tx' = tx /\ upsertLocks' = upsertLocks
    BY <1>2 DEF stockVars
  <2>2. StockTyped'
    BY <1>1, <2>1 DEF StockInv, StockTyped
  <2>3. RunsSound'
    BY <1>1, <2>1 DEF StockInv, RunsSound, RunSound, AtItsLine, Exact, SingleLine, SnapshotSound,
                      Moving
  <2>4. RunsApart'
    BY <1>1, <2>1 DEF StockInv, RunsApart, HeldBy
  <2>5. LedgerSound' /\ NumbersSound'
    BY <1>1, <2>1 DEF StockInv, LedgerSound, NumbersSound, Numbered, Posted
  <2> QED BY <2>2, <2>3, <2>4, <2>5 DEF StockInv
<1>3. CASE StockNext
  <2>1. PICK t \in Transactions :
           \/ StartSettlement(t) \/ StartStandalone(t) \/ Read(t) \/ Write(t)
           \/ IssueReceipt(t) \/ Commit(t) \/ Retry(t) \/ RollBack(t)
    BY <1>3 DEF StockNext
  <2> QED BY <1>1, <2>1, StartsStep, ReadStep, WriteStep, IssueReceiptStep, CommitStep,
             RetryStep, RollBackStep
<1> QED BY <1>1, <1>2, <1>3

\* The invariant of the stock ledger always holds.
LEMMA StockAlways == StockSpec => []StockInv
BY StockStarts, StockSteps, PTL DEF StockSpec

\* The properties follow from the invariant.
LEMMA StockExplained == StockInv => LedgerExplainsStock
<1>1. SUFFICES ASSUME StockInv PROVE LedgerExplainsStock
  OBVIOUS
<1>2. TypeOK
  <2>1. \A i \in DOMAIN movement : movement[i] \in Move
    BY <1>1, LenProperties, ElementOfSeq DEF StockInv, StockTyped
  <2>2. ASSUME NEW t \in Transactions
        PROVE  /\ tx[t].state \in {"idle", "running", "committed", "aborted"}
               /\ tx[t].attempt \in 0 .. MaxAttempts
               /\ \A i \in DOMAIN tx[t].lines : tx[t].lines[i] \in Line
               /\ \A i \in DOMAIN tx[t].moves : tx[t].moves[i] \in Move
               /\ tx[t].read \in Nat \cup {None}
               /\ tx[t].receipt \in Nat
    <3>1. PICK r \in TxRow : r = tx[t]
      BY <1>1 DEF StockInv, StockTyped
    <3>2. PICK m \in Seq(Move), l \in Seq(Line) : m = r.moves /\ l = r.lines
      BY DEF TxRow
    <3>3. /\ \A i \in DOMAIN m : m[i] \in Move
          /\ \A i \in DOMAIN l : l[i] \in Line
      BY LenProperties, ElementOfSeq
    <3> QED BY <3>1, <3>2, <3>3 DEF TxRow
  <2> QED BY <1>1, <2>1, <2>2 DEF TypeOK, StockInv, StockTyped
<1>3. NoDirtyOverwrite
  <2>1. ASSUME NEW t \in Running, NEW u \in Running, t # u
        PROVE  Written(t) \cap Written(u) = {}
    <3>1. t \in Transactions /\ u \in Transactions
      BY DEF Running
    <3>2. Locked(t) \cap Locked(u) = {}
      BY <1>1, <2>1, <3>1, LockedIsHeld DEF StockInv, RunsApart
    <3> QED BY <3>2 DEF Locked
  <2> QED BY <2>1 DEF NoDirtyOverwrite
<1>4. LedgerChains
  <2>1. SUFFICES ASSUME upsertLocks
                 PROVE  /\ Chained(movement, Stock)
                        /\ \A v \in Variants : onHand[v] = Stock[v] + Moved(v)
    BY DEF LedgerChains
  <2>2. Explains(movement, Stock) /\ onHand = Balance(movement, Stock)
    BY <1>1, <2>1 DEF StockInv, LedgerSound
  <2> QED BY <2>2 DEF Explains, Adds, Balance, Moved
<1> QED BY <1>2, <1>3, <1>4 DEF LedgerExplainsStock

\* The stock ledger explains the stock: quantities are natural numbers, no two
\* transactions write a row at the same time, and with locking upserts the movements
\* chain and add up to what is on hand (branch-inventory.service.ts:379-423).
THEOREM StockIsExplained == StockSpec => []LedgerExplainsStock
<1>1. StockInv => LedgerExplainsStock
  BY StockExplained
<1> QED BY <1>1, StockAlways, PTL

\* The receipts of a branch are numbered from one without a gap or a duplicate,
\* whatever rolls back after taking a number (receipt.service.ts:88-109).
THEOREM ReceiptsHaveNoGap == StockSpec => []ReceiptsGapless
<1>1. StockInv => ReceiptsGapless
  BY DEF StockInv, NumbersSound, Posted, ReceiptsGapless
<1> QED BY <1>1, StockAlways, PTL

\* A commit of a receive or adjust adds its delta to what was committed before it.
LEMMA StandaloneCommit ==
    ASSUME StockInv, NEW t \in Transactions, Commit(t), t \notin Settlements
    PROVE  onHand' = [onHand EXCEPT ![tx[t].lines[1].variant] = @ + tx[t].lines[1].delta]
<1>1. PICK r \in TxRow : r = tx[t]
  BY DEF StockInv, StockTyped
<1>2. PICK m \in Seq(Move), l \in Seq(Line) : m = r.moves /\ l = r.lines
  BY DEF TxRow
<1>3. r.state = "running" /\ ~ HasLine(t)
  BY <1>1 DEF Commit, Running
<1>4. AtItsLine(r) /\ SingleLine(r)
  BY <1>1, <1>3 DEF StockInv, RunsSound, RunSound
<1>5. Len(m) = 1 /\ m # <<>> /\ DOMAIN m = {1}
  <2>1. Len(l) = 1 /\ Len(m) \in Nat /\ DOMAIN m = 1 .. Len(m)
    BY <1>2, <1>4, LenProperties DEF SingleLine
  <2>2. Len(m) <= 1 /\ ~ (Len(m) < 1)
    BY <1>1, <1>2, <1>3, <1>4, <2>1 DEF AtItsLine, HasLine
  <2>3. Len(m) = 1 /\ 1 .. 1 = {1}
    BY <2>1, <2>2
  <2>4. m # <<>>
    <3>1. ASSUME m = <<>> PROVE FALSE
      <4>1. Len(m) = 0
        BY <3>1, EmptySeq
      <4> QED BY <2>3, <4>1
    <3> QED BY <3>1
  <2> QED BY <2>1, <2>3, <2>4
<1>6. m[1].variant = l[1].variant /\ m[1].after = onHand[l[1].variant] + l[1].delta
  BY <1>2, <1>4, <1>5 DEF SingleLine
<1>7. \A v : About(m, v) = IF v = l[1].variant THEN {1} ELSE {}
  BY <1>5, <1>6 DEF About
<1>8. Max({1}) = 1
  BY LastPlaceIs
<1>9. onHand' = Balance(m, onHand) /\ onHand \in [Variants -> Nat]
  BY <1>1, <1>2, CommitRows DEF StockInv, StockTyped
<1>10. \A v \in Variants :
          onHand'[v] = IF v = l[1].variant THEN onHand[v] + l[1].delta ELSE onHand[v]
  BY <1>6, <1>7, <1>8, <1>9 DEF Balance, Left
<1>11. onHand' = [onHand EXCEPT ![l[1].variant] = onHand[l[1].variant] + l[1].delta]
  BY <1>9, <1>10 DEF Balance
<1> QED BY <1>1, <1>2, <1>11

\* A receive or adjust counts exactly, on top of what was committed at the instant it
\* commits (branch-inventory.service.ts:441-534).
THEOREM StandaloneCounts == StockSpec => StandaloneExact
<1>1. StockInv /\ [StockNext]_stockVars =>
        [\A t \in Transactions \ Settlements :
            (tx[t].state # "committed" /\ tx'[t].state = "committed") =>
                LET line == tx[t].lines[1] IN
                onHand' = [onHand EXCEPT ![line.variant] = @ + line.delta]]_stockVars
  <2>1. SUFFICES ASSUME StockInv, StockNext, NEW t \in Transactions \ Settlements,
                        tx[t].state # "committed", tx'[t].state = "committed"
                 PROVE  onHand' = [onHand EXCEPT ![tx[t].lines[1].variant] = @ + tx[t].lines[1].delta]
    OBVIOUS
  <2>2. tx \in [Transactions -> TxRow]
    BY <2>1 DEF StockInv, StockTyped
  <2>3. PICK u \in Transactions :
           \/ StartSettlement(u) \/ StartStandalone(u) \/ Read(u) \/ Write(u)
           \/ IssueReceipt(u) \/ Commit(u) \/ Retry(u) \/ RollBack(u)
    BY <2>1 DEF StockNext
  <2>4. Commit(u)
    <3>1. ASSUME \E lines : Start(u, lines) PROVE FALSE
      BY <2>1, <2>2, <3>1 DEF Start, NotStarted
    <3>2. ~ StartSettlement(u) /\ ~ StartStandalone(u)
      BY <3>1 DEF StartSettlement, StartStandalone
    <3>3. ~ Read(u)
      BY <2>1, <2>2 DEF Read, TxRow
    <3>4. ~ Write(u)
      BY <2>1, <2>2 DEF Write, TxRow
    <3>5. ~ IssueReceipt(u)
      BY <2>1, <2>2 DEF IssueReceipt, TxRow
    <3>6. ~ Retry(u)
      <4>1. ASSUME Retry(u) PROVE FALSE
        <5>1. PICK r \in TxRow : r = tx[u]
          BY <2>2
        <5>2. PICK new : new = [r EXCEPT !.attempt = r.attempt + 1, !.read = None,
                                         !.snapshot = Snapshot]
          OBVIOUS
        <5>3. tx' = [tx EXCEPT ![u] = new]
          BY <4>1, <5>1, <5>2 DEF Retry
        <5>4. new.state = r.state
          BY <5>2 DEF TxRow
        <5> QED BY <2>1, <2>2, <5>1, <5>3, <5>4
      <4> QED BY <4>1
    <3>7. ~ RollBack(u)
      BY <2>1, <2>2 DEF RollBack, TxRow
    <3> QED BY <2>3, <3>2, <3>3, <3>4, <3>5, <3>6, <3>7
  <2>5. u = t
    <3>1. tx'[t] = IF t = u THEN [tx[u] EXCEPT !.state = "committed"] ELSE tx[t]
      BY <2>2, <2>4 DEF Commit
    <3> QED BY <2>1, <3>1
  <2> QED BY <2>1, <2>4, <2>5, StandaloneCommit
<1> QED BY <1>1, StockAlways, PTL DEF StockSpec, StandaloneExact
=============================================================================
