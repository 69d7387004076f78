-------------------------- MODULE CommissionsProofs --------------------------
(***************************************************************************)
(* What holds of the commission rules for every set of rules, scopes,      *)
(* requests and instants; and of the commission arithmetic for sales with  *)
(* any number of lines, prices, adjustments and rules, and for any number  *)
(* of corrections.                                                         *)
(***************************************************************************)
EXTENDS Commissions, SumTheorems, TLAPS

-----------------------------------------------------------------------------
(* The inductive invariant.                                                *)

\* Version 1 is current, version 2 was superseded or deactivated, never both.
RowsSound ==
    \A i \in DOMAIN rule :
        /\ rule[i].version = 1 <=> Current(rule[i])
        /\ rule[i].until = Never \/ rule[i].deactivated = Never

\* What a request read of its rule: it was current, hence at version 1.
RequestsSound ==
    \A r \in DOMAIN inflight :
        /\ inflight[r].rule \in DOMAIN rule
        /\ inflight[r].seen = 1
        /\ inflight[r].op = "supersede" => inflight[r].from \in Time /\ inflight[r].currency \in FixedIn

NothingDeactivated == \A i \in DOMAIN rule : rule[i].deactivated = Never

Before(early, late) == early.until # Never /\ early.until <= late.from

\* The line the rules of a scope form as long as nothing was deactivated: of two
\* windows one is over when the other starts, and the last one has no end.
LineUnbroken ==
    NothingDeactivated =>
        \A i, j \in DOMAIN rule : rule[i].scope = rule[j].scope =>
            i = j \/ Before(rule[i], rule[j]) \/ Before(rule[j], rule[i])

LineGoesOn ==
    NothingDeactivated => \A i \in DOMAIN rule : ScopeTaken(rule[i].scope)

RulesInv ==
    /\ TypeOK
    /\ RowsSound
    /\ RequestsSound
    /\ OneCurrentPerScope
    /\ SupersessionSeamless
    /\ LineUnbroken
    /\ LineGoesOn
-----------------------------------------------------------------------------
(* What the commands do to the table of rules.                             *)

\* A rule that is created is the first row of its identifier and is current.
LEMMA CreateTable ==
    ASSUME NEW i, NEW scope, NEW currency, NEW from, Create(i, scope, currency, from)
    PROVE  /\ i \notin DOMAIN rule
           /\ DOMAIN rule' = DOMAIN rule \cup {i}
           /\ rule'[i] = [scope |-> scope, currency |-> currency, from |-> from, until |-> Never,
                          deactivated |-> Never, version |-> 1, supersedes |-> NoRule]
           /\ \A j \in DOMAIN rule : rule'[j] = rule[j]
<1> DEFINE new == [scope |-> scope, currency |-> currency, from |-> from, until |-> Never,
                   deactivated |-> Never, version |-> 1, supersedes |-> NoRule]
<1>1. i \notin DOMAIN rule /\ rule' = Insert(rule, i, new)
  BY DEF Create
<1> HIDE DEF new
<1>2. /\ DOMAIN rule' = DOMAIN rule \cup {i}
      /\ rule'[i] = new
      /\ \A j \in DOMAIN rule \ {i} : rule'[j] = rule[j]
  BY <1>1 DEF Insert
<1> QED BY <1>1, <1>2 DEF new

\* Superseding ends the old rule where the new one starts, and changes no other row.
LEMMA SupersedeTable ==
    ASSUME NEW r, NEW i, TypeOK, RowsSound, RequestsSound, CommitSupersede(r, i), i \in Ids
    PROVE  LET q == inflight[r] old == q.rule IN
           /\ r \in DOMAIN inflight /\ i \notin DOMAIN rule /\ old \in DOMAIN rule
           /\ Current(rule[old]) /\ rule[old].version = 1
           /\ q.from \in Time /\ q.currency \in FixedIn /\ q.from > rule[old].from
           /\ DOMAIN rule' = DOMAIN rule \cup {i}
           /\ rule'[i] = [scope |-> rule[old].scope, currency |-> q.currency, from |-> q.from,
                          until |-> Never, deactivated |-> Never, version |-> 1, supersedes |-> old]
           /\ rule'[old] = [rule[old] EXCEPT !.until = q.from, !.version = 2]
           /\ \A j \in DOMAIN rule \ {old} : rule'[j] = rule[j]
<1> DEFINE q == inflight[r]
           old == q.rule
           ended == [rule EXCEPT ![old].until = q.from, ![old].version = @ + 1]
           new == [scope |-> rule[old].scope, currency |-> q.currency, from |-> q.from,
                   until |-> Never, deactivated |-> Never, version |-> 1, supersedes |-> old]
<1>1. /\ r \in DOMAIN inflight /\ q.op = "supersede" /\ i \notin DOMAIN rule
      /\ q.seen = rule[old].version /\ q.from > rule[old].from
      /\ rule' = Insert(ended, i, new)
  BY DEF CommitSupersede, Is, StillCurrent, WindowProper
<1>2. old \in DOMAIN rule /\ q.seen = 1 /\ q.from \in Time /\ q.currency \in FixedIn
  BY <1>1 DEF RequestsSound
<1>3. rule[old].version = 1 /\ Current(rule[old])
  BY <1>1, <1>2 DEF RowsSound
<1>4. DOMAIN ended = DOMAIN rule /\ \A j \in DOMAIN rule \ {old} : ended[j] = rule[j]
  OBVIOUS
<1>5. ended[old] = [rule[old] EXCEPT !.until = q.from, !.version = 2]
  BY <1>2, <1>3 DEF TypeOK, RuleRow
<1> HIDE DEF ended, new
<1>6. /\ DOMAIN rule' = DOMAIN ended \cup {i}
      /\ rule'[i] = new
      /\ \A j \in DOMAIN ended \ {i} : rule'[j] = ended[j]
  BY <1>1 DEF Insert
<1> QED BY <1>1, <1>2, <1>3, <1>4, <1>5, <1>6 DEF new

\* Deactivating closes one current row and changes no other.
LEMMA DeactivateTable ==
    ASSUME NEW r, TypeOK, RowsSound, RequestsSound, CommitDeactivate(r)
    PROVE  LET old == inflight[r].rule IN
           /\ r \in DOMAIN inflight /\ old \in DOMAIN rule
           /\ Current(rule[old]) /\ rule[old].version = 1
           /\ DOMAIN rule' = DOMAIN rule
           /\ rule'[old] = [rule[old] EXCEPT !.deactivated = now, !.version = 2]
           /\ \A j \in DOMAIN rule \ {old} : rule'[j] = rule[j]
<1> DEFINE q == inflight[r]
           old == q.rule
<1>1. /\ r \in DOMAIN inflight /\ q.seen = rule[old].version
      /\ rule' = [rule EXCEPT ![old].deactivated = now, ![old].version = @ + 1]
  BY DEF CommitDeactivate, Is, StillCurrent
<1>2. old \in DOMAIN rule /\ q.seen = 1
  BY <1>1 DEF RequestsSound
<1>3. rule[old].version = 1 /\ Current(rule[old])
  BY <1>1, <1>2 DEF RowsSound
<1>4. rule'[old] = [rule[old] EXCEPT !.deactivated = now, !.version = 2]
  BY <1>1, <1>2, <1>3 DEF TypeOK, RuleRow
<1> QED BY <1>1, <1>2, <1>3, <1>4

\* A request that ends leaves the other requests as they are.
LEMMA EndKeepsRequests ==
    ASSUME NEW r, End(r)
    PROVE  /\ DOMAIN inflight' = DOMAIN inflight \ {r}
           /\ \A p \in DOMAIN inflight' : inflight'[p] = inflight[p]
BY DEF End

\* A request that begins is recorded and leaves the others as they are.
LEMMA BeginKeepsRequests ==
    ASSUME NEW r, NEW request, Begin(r, request)
    PROVE  /\ DOMAIN inflight' = DOMAIN inflight \cup {r}
           /\ inflight'[r] = request
           /\ \A p \in DOMAIN inflight : inflight'[p] = inflight[p]
BY DEF Begin, Insert
-----------------------------------------------------------------------------
(* Every action keeps the invariant.                                       *)

\* A row the table may hold.
RowOK(row) == row \in RuleRow /\ (row.until # Never => row.from < row.until)

\* Creating a rule keeps the invariant.
LEMMA CreateStep ==
    ASSUME RulesInv, NEW i \in Ids, NEW scope \in Scopes, NEW currency \in FixedIn,
           NEW from \in Time, Create(i, scope, currency, from)
    PROVE  RulesInv'
<1> USE DEF RulesInv
<1> DEFINE new == [scope |-> scope, currency |-> currency, from |-> from, until |-> Never,
                   deactivated |-> Never, version |-> 1, supersedes |-> NoRule]
<1>1. /\ i \notin DOMAIN rule /\ DOMAIN rule' = DOMAIN rule \cup {i} /\ rule'[i] = new
      /\ \A j \in DOMAIN rule : rule'[j] = rule[j]
  BY CreateTable
<1>2. ~ScopeTaken(scope) /\ inflight' = inflight /\ now' = now
  BY DEF Create, ScopeFree
<1>3. RowOK(new) /\ Current(new)
  BY DEF RowOK, RuleRow, Current
<1>4. NoRule \notin DOMAIN rule'
  BY <1>1, TimeAssumption DEF TypeOK
<1>5. TypeOK'
  BY <1>1, <1>2, <1>3 DEF TypeOK, RowOK
<1>6. RowsSound'
  BY <1>1, <1>3 DEF RowsSound, Current
<1>7. RequestsSound'
  BY <1>1, <1>2 DEF RequestsSound
<1>8. CurrentIds' = CurrentIds \cup {i}
  BY <1>1, <1>3 DEF CurrentIds
<1>9. OneCurrentPerScope'
  BY <1>1, <1>2, <1>8 DEF OneCurrentPerScope, ScopeTaken, CurrentIds
<1>10. SupersessionSeamless'
  <2> SUFFICES ASSUME NEW j \in DOMAIN rule', rule'[j].supersedes # NoRule
               PROVE  LET old == rule'[j].supersedes IN
                      /\ rule'[old].until = rule'[j].from
                      /\ rule'[old].scope = rule'[j].scope
                      /\ rule'[old].deactivated = Never
                      /\ \A k \in DOMAIN rule' : rule'[k].supersedes = old => k = j
    BY DEF SupersessionSeamless
  <2>1. j \in DOMAIN rule /\ rule'[j] = rule[j] /\ rule[j].supersedes \in DOMAIN rule
    BY <1>1 DEF TypeOK
  <2> QED BY <1>1, <2>1 DEF SupersessionSeamless
<1>11. NothingDeactivated' => \A j \in DOMAIN rule : rule[j].scope # scope
  BY <1>1, <1>2 DEF NothingDeactivated, LineGoesOn
<1>12. LineUnbroken'
  BY <1>1, <1>11 DEF LineUnbroken, NothingDeactivated
<1>13. LineGoesOn'
  BY <1>1, <1>8 DEF LineGoesOn, NothingDeactivated, ScopeTaken, CurrentIds
<1> QED BY <1>5, <1>6, <1>7, <1>9, <1>10, <1>12, <1>13

\* A supersession keeps the invariant.
LEMMA SupersedeStep ==
    ASSUME RulesInv, NEW r, NEW i \in Ids, CommitSupersede(r, i)
    PROVE  RulesInv'
<1> DEFINE q == inflight[r]
           old == q.rule
           new == [scope |-> rule[old].scope, currency |-> q.currency, from |-> q.from,
                   until |-> Never, deactivated |-> Never, version |-> 1, supersedes |-> old]
           ended == [rule[old] EXCEPT !.until = q.from, !.version = 2]
<1>0. TypeOK /\ RowsSound /\ RequestsSound /\ OneCurrentPerScope /\ SupersessionSeamless
      /\ LineUnbroken /\ LineGoesOn
  BY DEF RulesInv
<1>1. /\ r \in DOMAIN inflight /\ i \notin DOMAIN rule /\ old \in DOMAIN rule
      /\ Current(rule[old]) /\ rule[old].version = 1
      /\ q.from \in Time /\ q.currency \in FixedIn /\ q.from > rule[old].from
      /\ DOMAIN rule' = DOMAIN rule \cup {i}
      /\ rule'[i] = new
      /\ rule'[old] = ended
      /\ \A j \in DOMAIN rule \ {old} : rule'[j] = rule[j]
  BY <1>0, SupersedeTable
<1>2. rule[old] \in RuleRow /\ old # i /\ NoRule \notin DOMAIN rule'
  BY <1>0, <1>1, TimeAssumption DEF TypeOK
<1>3. now' = now /\ DOMAIN inflight' \subseteq DOMAIN inflight
      /\ \A p \in DOMAIN inflight' : inflight'[p] = inflight[p]
  BY EndKeepsRequests DEF CommitSupersede
<1>4. RowOK(new) /\ Current(new)
  <2>1. rule[old].scope \in Scopes /\ old \in Ids
    BY <1>0, <1>1, <1>2 DEF RuleRow, TypeOK
  <2>2. new \in RuleRow
    BY <1>1, <2>1 DEF RuleRow
  <2> QED BY <2>2 DEF RowOK, Current
<1>5. /\ ended.scope = rule[old].scope /\ ended.from = rule[old].from /\ ended.until = q.from
      /\ ended.deactivated = Never /\ ended.version = 2 /\ ended.supersedes = rule[old].supersedes
  BY <1>1, <1>2 DEF RuleRow, Current
<1>6. q.from # Never /\ q.from \in Nat
  BY <1>1, TimeAssumption DEF Time
<1>7. RowOK(ended)
  <2>1. ended \in RuleRow
    <3>1. rule[old].scope \in Scopes /\ rule[old].currency \in FixedIn /\ rule[old].from \in Time
          /\ rule[old].until \in Time \cup {Never} /\ rule[old].supersedes \in Ids \cup {NoRule}
          /\ DOMAIN rule[old] = {"scope", "currency", "from", "until", "deactivated", "version", "supersedes"}
      BY <1>2 DEF RuleRow
    <3>2. ended = [scope |-> rule[old].scope, currency |-> rule[old].currency, from |-> rule[old].from,
                    until |-> q.from, deactivated |-> Never, version |-> 2,
                    supersedes |-> rule[old].supersedes]
      BY <1>1, <1>2, <3>1 DEF RuleRow, Current
    <3> QED BY <1>1, <1>2, <3>1, <3>2 DEF RuleRow
  <2> QED BY <1>1, <1>5, <2>1 DEF RowOK
<1>8. /\ new.scope = rule[old].scope /\ new.from = q.from /\ new.until = Never
      /\ new.deactivated = Never /\ new.version = 1 /\ new.supersedes = old
  OBVIOUS
<1> HIDE DEF new, ended
<1>9. TypeOK'
  <2>1. \A j \in DOMAIN rule' : RowOK(rule'[j]) /\ rule'[j].supersedes \in DOMAIN rule' \cup {NoRule}
    BY <1>0, <1>1, <1>4, <1>5, <1>7, <1>8 DEF TypeOK, RowOK
  <2>2. \A p \in DOMAIN inflight' : inflight'[p].rule \in DOMAIN rule' /\ inflight'[p].seen = 1
    BY <1>0, <1>1, <1>3 DEF RequestsSound
  <2>3. \A j \in DOMAIN rule' : rule'[j].version >= 1
    BY <2>1 DEF RowOK, RuleRow
  <2> QED BY <1>0, <1>1, <1>3, <2>1, <2>2, <2>3 DEF TypeOK, RowOK
<1>10. RowsSound'
  BY <1>0, <1>1, <1>4, <1>5, <1>6, <1>8 DEF RowsSound, Current
<1>11. RequestsSound'
  BY <1>0, <1>1, <1>3 DEF RequestsSound
<1>12. CurrentIds' = (CurrentIds \ {old}) \cup {i} /\ old \in CurrentIds
  BY <1>1, <1>4, <1>5, <1>6 DEF CurrentIds, Current
<1>13. OneCurrentPerScope'
  BY <1>0, <1>1, <1>8, <1>12 DEF OneCurrentPerScope, CurrentIds
<1>14. \A j \in DOMAIN rule : rule[j].supersedes # old
  <2>1. old # NoRule /\ rule[old].until = Never
    BY <1>0, <1>1, TimeAssumption DEF TypeOK, Current
  <2>2. \A j \in DOMAIN rule : rule[j].from # Never
    BY <1>0, TimeAssumption DEF TypeOK, RuleRow, Time
  <2> QED BY <1>0, <2>1, <2>2 DEF SupersessionSeamless
<1>15. SupersessionSeamless'
  <2> SUFFICES ASSUME NEW j \in DOMAIN rule', rule'[j].supersedes # NoRule
               PROVE  LET o == rule'[j].supersedes IN
                      /\ rule'[o].until = rule'[j].from
                      /\ rule'[o].scope = rule'[j].scope
                      /\ rule'[o].deactivated = Never
                      /\ \A k \in DOMAIN rule' : rule'[k].supersedes = o => k = j
    BY DEF SupersessionSeamless
  <2>1. CASE j = i
    BY <1>1, <1>5, <1>8, <1>14, <2>1
  <2>2. CASE j # i
    <3>1. j \in DOMAIN rule /\ rule'[j].supersedes = rule[j].supersedes
          /\ rule'[j].from = rule[j].from /\ rule'[j].scope = rule[j].scope
      BY <1>1, <1>5, <2>2
    <3>2. rule[j].supersedes \in DOMAIN rule \ {old}
      BY <1>0, <1>14, <3>1 DEF TypeOK
    <3>3. \A k \in DOMAIN rule' : rule'[k].supersedes = rule[j].supersedes
                => k \in DOMAIN rule /\ rule[k].supersedes = rule[j].supersedes
      BY <1>1, <1>5, <1>8, <3>2
    <3> QED BY <1>0, <1>1, <3>1, <3>2, <3>3 DEF SupersessionSeamless
  <2> QED BY <2>1, <2>2
<1>16. NothingDeactivated' => NothingDeactivated
  BY <1>1, <1>5 DEF NothingDeactivated, Current
<1>17. LineUnbroken'
  <2> SUFFICES ASSUME NothingDeactivated', NEW j \in DOMAIN rule', NEW k \in DOMAIN rule',
                      rule'[j].scope = rule'[k].scope, j # k
               PROVE  Before(rule'[j], rule'[k]) \/ Before(rule'[k], rule'[j])
    BY DEF LineUnbroken
  <2>1. \A m \in DOMAIN rule \ {old} : rule[m].scope = rule[old].scope =>
            rule'[m].until # Never /\ rule'[m].until \in Time /\ rule'[m].until <= rule[old].from
    <3> SUFFICES ASSUME NEW m \in DOMAIN rule \ {old}, rule[m].scope = rule[old].scope
                 PROVE  rule[m].until # Never /\ rule[m].until \in Time
                        /\ rule[m].until <= rule[old].from
      BY <1>1
    <3>1. rule[m] \in RuleRow /\ rule[old].until = Never
      BY <1>0, <1>1 DEF TypeOK, Current
    <3> QED BY <1>0, <1>1, <1>16, <3>1 DEF LineUnbroken, Before, RuleRow
  <2>2. rule[old].from \in Nat
    BY <1>2 DEF RuleRow, Time
  <2>3. \A m \in DOMAIN rule \ {old} : rule[m].scope = rule[old].scope =>
            Before(rule'[m], new) /\ Before(rule'[m], ended)
    BY <1>1, <1>5, <1>6, <1>8, <2>1, <2>2 DEF Before, Time
  <2>4. Before(ended, new)
    BY <1>5, <1>6, <1>8 DEF Before
  <2>5. CASE j \in {old, i} \/ k \in {old, i}
    BY <1>1, <1>5, <1>8, <2>3, <2>4, <2>5
  <2>6. CASE j \notin {old, i} /\ k \notin {old, i}
    BY <1>0, <1>1, <1>16, <2>6 DEF LineUnbroken
  <2> QED BY <2>5, <2>6
<1>18. LineGoesOn'
  <2> SUFFICES ASSUME NothingDeactivated', NEW j \in DOMAIN rule'
               PROVE  \E k \in CurrentIds' : rule'[k].scope = rule'[j].scope
    BY DEF LineGoesOn, ScopeTaken
  <2>1. CASE rule'[j].scope = rule[old].scope
    BY <1>1, <1>8, <1>12, <2>1
  <2>2. CASE rule'[j].scope # rule[old].scope
    <3>1. j \in DOMAIN rule \ {old} /\ rule'[j] = rule[j]
      BY <1>1, <1>5, <1>8, <2>2
    <3>2. PICK k \in CurrentIds : rule[k].scope = rule[j].scope
      BY <1>0, <1>16, <3>1 DEF LineGoesOn, ScopeTaken
    <3> QED BY <1>1, <1>12, <2>2, <3>1, <3>2 DEF CurrentIds
  <2> QED BY <2>1, <2>2
<1> QED BY <1>9, <1>10, <1>11, <1>13, <1>15, <1>17, <1>18 DEF RulesInv

\* A deactivation keeps the invariant.
LEMMA DeactivateStep ==
    ASSUME RulesInv, NEW r, CommitDeactivate(r)
    PROVE  RulesInv'
<1> DEFINE old == inflight[r].rule
           closed == [rule[old] EXCEPT !.deactivated = now, !.version = 2]
<1>0. TypeOK /\ RowsSound /\ RequestsSound /\ OneCurrentPerScope /\ SupersessionSeamless
  BY DEF RulesInv
<1>1. /\ r \in DOMAIN inflight /\ old \in DOMAIN rule
      /\ Current(rule[old]) /\ rule[old].version = 1
      /\ DOMAIN rule' = DOMAIN rule
      /\ rule'[old] = closed
      /\ \A j \in DOMAIN rule \ {old} : rule'[j] = rule[j]
  BY <1>0, DeactivateTable
<1>2. rule[old] \in RuleRow /\ now \in Time /\ now # Never
  BY <1>0, <1>1, TimeAssumption DEF TypeOK, Time
<1>3. now' = now /\ DOMAIN inflight' \subseteq DOMAIN inflight
      /\ \A p \in DOMAIN inflight' : inflight'[p] = inflight[p]
  BY EndKeepsRequests DEF CommitDeactivate
<1>4. /\ closed.scope = rule[old].scope /\ closed.from = rule[old].from /\ closed.until = Never
      /\ closed.deactivated = now /\ closed.version = 2 /\ closed.supersedes = rule[old].supersedes
  BY <1>1, <1>2 DEF RuleRow, Current
<1>5. RowOK(closed)
  <2>1. closed \in RuleRow
    <3>1. rule[old].scope \in Scopes /\ rule[old].currency \in FixedIn /\ rule[old].from \in Time
          /\ rule[old].until \in Time \cup {Never} /\ rule[old].supersedes \in Ids \cup {NoRule}
          /\ DOMAIN rule[old] = {"scope", "currency", "from", "until", "deactivated", "version", "supersedes"}
      BY <1>2 DEF RuleRow
    <3>2. closed = [scope |-> rule[old].scope, currency |-> rule[old].currency, from |-> rule[old].from,
                    until |-> Never, deactivated |-> now, version |-> 2,
                    supersedes |-> rule[old].supersedes]
      BY <1>1, <1>2, <3>1 DEF RuleRow, Current
    <3> QED BY <1>1, <1>2, <3>1, <3>2 DEF RuleRow
  <2> QED BY <1>4, <2>1 DEF RowOK
<1> HIDE DEF closed
<1>6. TypeOK'
  <2>1. \A j \in DOMAIN rule' : RowOK(rule'[j]) /\ rule'[j].supersedes \in DOMAIN rule' \cup {NoRule}
    BY <1>0, <1>1, <1>4, <1>5 DEF TypeOK, RowOK
  <2>2. \A p \in DOMAIN inflight' : inflight'[p].rule \in DOMAIN rule' /\ inflight'[p].seen = 1
    BY <1>0, <1>1, <1>3 DEF RequestsSound
  <2>3. \A j \in DOMAIN rule' : rule'[j].version >= 1
    BY <2>1 DEF RowOK, RuleRow
  <2> QED BY <1>0, <1>1, <1>3, <2>1, <2>2, <2>3 DEF TypeOK, RowOK
<1>7. RowsSound'
  BY <1>0, <1>1, <1>2, <1>4 DEF RowsSound, Current
<1>8. RequestsSound'
  BY <1>0, <1>1, <1>3 DEF RequestsSound
<1>9. OneCurrentPerScope'
  BY <1>0, <1>1, <1>2, <1>4 DEF OneCurrentPerScope, CurrentIds, Current
<1>10. \A j \in DOMAIN rule : rule[j].supersedes # old
  <2>1. old # NoRule /\ rule[old].until = Never
    BY <1>0, <1>1, TimeAssumption DEF TypeOK, Current
  <2>2. \A j \in DOMAIN rule : rule[j].from # Never
    BY <1>0, TimeAssumption DEF TypeOK, RuleRow, Time
  <2> QED BY <1>0, <2>1, <2>2 DEF SupersessionSeamless
<1>11. SupersessionSeamless'
  <2>1. \A j \in DOMAIN rule : /\ rule'[j].supersedes = rule[j].supersedes
                               /\ rule'[j].from = rule[j].from /\ rule'[j].scope = rule[j].scope
    BY <1>1, <1>4
  <2>2. \A j \in DOMAIN rule : rule[j].supersedes \in (DOMAIN rule \ {old}) \cup {NoRule}
    BY <1>0, <1>10 DEF TypeOK
  <2> QED BY <1>0, <1>1, <2>1, <2>2 DEF SupersessionSeamless
<1>12. ~NothingDeactivated'
  BY <1>1, <1>2, <1>4 DEF NothingDeactivated
<1> QED BY <1>6, <1>7, <1>8, <1>9, <1>11, <1>12 DEF RulesInv, LineUnbroken, LineGoesOn

\* Beginning and abandoning a request, posting and the clock leave the rules alone.
LEMMA QuietStep ==
    ASSUME RulesInv, rule' = rule, now' \in Time,
           DOMAIN inflight' \subseteq Requests,
           \A r \in DOMAIN inflight' :
               \/ r \in DOMAIN inflight /\ inflight'[r] = inflight[r]
               \/ /\ inflight'[r].rule \in CurrentIds
                  /\ inflight'[r].seen = rule[inflight'[r].rule].version
                  /\ inflight'[r].op = "supersede" =>
                        inflight'[r].from \in Time /\ inflight'[r].currency \in FixedIn
    PROVE  RulesInv'
<1>1. RequestsSound'
  <2> SUFFICES ASSUME NEW r \in DOMAIN inflight'
               PROVE  /\ inflight'[r].rule \in DOMAIN rule
                      /\ inflight'[r].seen = 1
                      /\ inflight'[r].op = "supersede" =>
                            inflight'[r].from \in Time /\ inflight'[r].currency \in FixedIn
    BY DEF RequestsSound
  <2> QED BY DEF RulesInv, RequestsSound, RowsSound, CurrentIds
<1>2. TypeOK'
  <2>1. \A r \in DOMAIN inflight' : inflight'[r].rule \in DOMAIN rule /\ inflight'[r].seen = 1
    BY <1>1 DEF RequestsSound
  <2>2. \A i \in DOMAIN rule : rule[i].version >= 1
    BY DEF RulesInv, TypeOK, RuleRow
  <2> QED BY <2>1, <2>2 DEF RulesInv, TypeOK
<1>3. RowsSound' /\ OneCurrentPerScope' /\ SupersessionSeamless' /\ LineUnbroken' /\ LineGoesOn'
  BY DEF RulesInv, RowsSound, OneCurrentPerScope, SupersessionSeamless, LineUnbroken,
         LineGoesOn, NothingDeactivated, ScopeTaken, CurrentIds
<1> QED BY <1>1, <1>2, <1>3 DEF RulesInv

\* Every step keeps the invariant.
LEMMA NextKeepsRules == RulesInv /\ [Next]_vars => RulesInv'
<1> SUFFICES ASSUME RulesInv, [Next]_vars PROVE RulesInv'
  OBVIOUS
<1>0. DOMAIN inflight \subseteq Requests /\ now \in Time
  BY DEF RulesInv, TypeOK
<1>1. ASSUME NEW i \in Ids, NEW s \in Scopes, NEW c \in FixedIn, NEW t \in Time, Create(i, s, c, t)
      PROVE  RulesInv'
  BY <1>1, CreateStep
<1>2. ASSUME NEW r \in Requests, NEW i \in Ids, NEW c \in FixedIn, NEW t \in Time,
             BeginSupersede(r, i, c, t)
      PROVE  RulesInv'
  <2> DEFINE request == [op |-> "supersede", rule |-> i, seen |-> rule[i].version,
                         from |-> t, currency |-> c]
  <2>1. i \in CurrentIds /\ Begin(r, request) /\ rule' = rule /\ now' = now
    BY <1>2 DEF BeginSupersede
  <2>2. /\ DOMAIN inflight' = DOMAIN inflight \cup {r}
        /\ inflight'[r] = request
        /\ \A p \in DOMAIN inflight : inflight'[p] = inflight[p]
    BY <2>1, BeginKeepsRequests
  <2> QED BY <1>0, <2>1, <2>2, QuietStep
<1>3. ASSUME NEW r \in Requests, NEW i \in Ids, BeginDeactivate(r, i)
      PROVE  RulesInv'
  <2> DEFINE request == [op |-> "deactivate", rule |-> i, seen |-> rule[i].version]
  <2>1. i \in CurrentIds /\ Begin(r, request) /\ rule' = rule /\ now' = now
    BY <1>3 DEF BeginDeactivate
  <2>2. /\ DOMAIN inflight' = DOMAIN inflight \cup {r}
        /\ inflight'[r] = request
        /\ \A p \in DOMAIN inflight : inflight'[p] = inflight[p]
    BY <2>1, BeginKeepsRequests
  <2> QED BY <1>0, <2>1, <2>2, QuietStep
<1>4. ASSUME NEW r \in Requests, NEW i \in Ids, CommitSupersede(r, i)
      PROVE  RulesInv'
  BY <1>4, SupersedeStep
<1>5. ASSUME NEW r \in Requests, CommitDeactivate(r)
      PROVE  RulesInv'
  BY <1>5, DeactivateStep
<1>6. ASSUME NEW r \in Requests, Abandon(r)
      PROVE  RulesInv'
  <2>1. End(r) /\ rule' = rule /\ now' = now
    BY <1>6 DEF Abandon
  <2>2. /\ DOMAIN inflight' = DOMAIN inflight \ {r}
        /\ \A p \in DOMAIN inflight' : inflight'[p] = inflight[p]
    BY <2>1, EndKeepsRequests
  <2> QED BY <1>0, <2>1, <2>2, QuietStep
<1>7. ASSUME NEW c \in Contexts, Post(c)
      PROVE  RulesInv'
  BY <1>0, <1>7, QuietStep DEF Post
<1>8. CASE Tick
  <2>1. now' \in Time
    BY <1>0, <1>8, TimeAssumption DEF Tick, Time
  <2> QED BY <1>0, <1>8, <2>1, QuietStep DEF Tick
<1>9. CASE UNCHANGED vars
  BY <1>0, <1>9, QuietStep DEF vars
<1> QED BY <1>1, <1>2, <1>3, <1>4, <1>5, <1>6, <1>7, <1>8, <1>9 DEF Next

\* The invariant implies what the run checks.  Two rules of a scope that apply at
\* one instant would have overlapping windows.
LEMMA RulesInvSuffices == RulesInv => RulesFormOneLine
<1> SUFFICES ASSUME RulesInv PROVE RulesFormOneLine
  OBVIOUS
<1>1. ChoiceUnambiguous
  <2> SUFFICES ASSUME NothingDeactivated, NEW t \in Time, NEW i \in DOMAIN rule, NEW j \in DOMAIN rule,
                      EffectiveAt(rule[i], t), EffectiveAt(rule[j], t), rule[i].scope = rule[j].scope
               PROVE  i = j
    BY DEF ChoiceUnambiguous, NothingDeactivated
  <2>1. rule[i] \in RuleRow /\ rule[j] \in RuleRow
    BY DEF RulesInv, TypeOK
  <2>2. i = j \/ Before(rule[i], rule[j]) \/ Before(rule[j], rule[i])
    BY DEF RulesInv, LineUnbroken
  <2>3. /\ rule[i].from \in Nat /\ rule[j].from \in Nat /\ t \in Nat
        /\ rule[i].until \in Nat \cup {Never} /\ rule[j].until \in Nat \cup {Never}
    BY <2>1 DEF RuleRow, Time
  <2> QED BY <2>2, <2>3 DEF Before, EffectiveAt
<1> QED BY <1>1 DEF RulesInv, RulesFormOneLine

\* The invariant holds in every reachable state.
LEMMA RulesInvariant == Spec => []RulesInv
<1>1. Init => RulesInv
  <2> SUFFICES ASSUME Init PROVE RulesInv
    OBVIOUS
  <2>1. DOMAIN rule = {} /\ DOMAIN inflight = {} /\ now \in Time
    BY TimeAssumption DEF Init, Time
  <2> QED BY <2>1 DEF RulesInv, TypeOK, RowsSound, RequestsSound, OneCurrentPerScope, CurrentIds,
                      SupersessionSeamless, LineUnbroken, LineGoesOn
<1>2. RulesInv /\ [Next]_vars => RulesInv'
  BY NextKeepsRules
<1> QED BY <1>1, <1>2, PTL DEF Spec

\* At every instant, whatever requests race, a scope has at most one current rule,
\* supersession leaves neither gap nor overlap nor fork, and as long as nothing was
\* deactivated a posting has one rule of a scope to choose
\* (commission-rules.service.ts:94-200).
THEOREM RulesStayOneLine == Spec => []RulesFormOneLine
BY RulesInvariant, RulesInvSuffices, PTL
-----------------------------------------------------------------------------
(* The choice among the rules that match.                                  *)

\* A score is at most 7, so among any candidates one has the highest.
LEMMA SomeScoreIsHighest ==
    ASSUME NEW context, Candidates(context) # {}
    PROVE  MostSpecific(context) # {}
<1> DEFINE C == Candidates(context)
           s(i) == Score(rule[i].scope)
<1>1. \A i \in C : s(i) \in 0 .. 7
  BY DEF Score
<1> SUFFICES ASSUME \A i \in C : \E j \in C : s(j) > s(i) PROVE FALSE
  BY <1>1 DEF MostSpecific
<1> HIDE DEF C, s
<1>2. \A i \in C : \E j \in C : s(j) >= s(i) + 1
  BY <1>1
<1>3. \E i \in C : s(i) >= 0
  BY <1>1 DEF C
<1>4. \E i \in C : s(i) >= 2
  <2>1. \E i \in C : s(i) >= 1
    BY <1>1, <1>2, <1>3
  <2> QED BY <1>1, <1>2, <2>1
<1>5. \E i \in C : s(i) >= 4
  <2>1. \E i \in C : s(i) >= 3
    BY <1>1, <1>2, <1>4
  <2> QED BY <1>1, <1>2, <2>1
<1>6. \E i \in C : s(i) >= 6
  <2>1. \E i \in C : s(i) >= 5
    BY <1>1, <1>2, <1>5
  <2> QED BY <1>1, <1>2, <2>1
<1>7. PICK i \in C : s(i) >= 7
  BY <1>1, <1>2, <1>6
<1>8. PICK j \in C : s(j) > s(i)
  BY <1>2, <1>1
<1> QED BY <1>1, <1>7, <1>8

\* The weights 4, 2 and 1 order scopes as the precedence of the columns does.
LEMMA ScoreIsPrecedence ==
    ASSUME NEW won, NEW lost, Score(lost) <= Score(won)
    PROVE  NoLessSpecific(won, lost)
BY DEF Score, NoLessSpecific

\* Whatever rules race, the rule a posted line is paid by beats every rule that
\* matched it in the order staff member, service, branch; and a line some rule
\* matches is never posted without one (selectMostSpecificRule,
\* commission-rule-precedence.util.ts:59).
THEOREM PostingKeepsPrecedence == Spec => PrecedenceKept
<1>1. ASSUME RulesInv, [Next]_vars, posted' # posted, NEW j \in Candidates(posted'.context)
      PROVE  posted'.rule # NoRule /\ NoLessSpecific(rule[posted'.rule].scope, rule[j].scope)
  <2>1. PICK c \in Contexts : Post(c)
    BY <1>1 DEF Next, vars, Create, BeginSupersede, BeginDeactivate, CommitSupersede, CommitDeactivate,
           Abandon, Tick
  <2>2. PICK i \in IF MostSpecific(c) = {} THEN {NoRule} ELSE MostSpecific(c) :
            posted' = [context |-> c, at |-> now, rule |-> i]
    BY <2>1 DEF Post
  <2>3. j \in Candidates(c)
    BY <1>1, <2>2
  <2>4. MostSpecific(c) # {}
    BY <2>3, SomeScoreIsHighest
  <2>5. i \in MostSpecific(c) /\ posted'.rule = i
    BY <2>2, <2>4
  <2>6. i \in DOMAIN rule /\ Score(rule[j].scope) <= Score(rule[i].scope)
    BY <2>3, <2>5 DEF MostSpecific, Candidates
  <2>7. i # NoRule
    BY <1>1, <2>6, TimeAssumption DEF RulesInv, TypeOK
  <2> QED BY <2>5, <2>6, <2>7, ScoreIsPrecedence
<1>2. RulesInv /\ [Next]_vars =>
        [posted' # posted =>
           \A j \in Candidates(posted'.context) :
               posted'.rule # NoRule /\ NoLessSpecific(rule[posted'.rule].scope, rule[j].scope)]_vars
  BY <1>1
<1> QED BY <1>2, RulesInvariant, PTL DEF Spec, PrecedenceKept
-----------------------------------------------------------------------------
(* A sale and its commissions.                                             *)

\* The instance has its own copies of the library's operators; they are the same.
LEMMA SaleSets ==
    ASSUME NEW S
    PROVE  (Sale!IsFiniteSet(S) <=> IsFiniteSet(S)) /\ Sale!Cardinality(S) = Cardinality(S)
<1>1. Sale!IsFiniteSet(S) <=> IsFiniteSet(S)
    BY DEF IsFiniteSet, Sale!IsFiniteSet
<1>. QED BY <1>1 DEF Cardinality, Sale!Cardinality

\* The same of the sums.
LEMMA SaleSums ==
    ASSUME NEW f
    PROVE  Sale!SumFunction(f) = SumFunction(f)
BY DEF SumFunction, Sale!SumFunction, SumFunctionOnSet, Sale!SumFunctionOnSet, FoldFunctionOnSet,
       Sale!FoldFunctionOnSet, MapThenFoldSet, Sale!MapThenFoldSet

-----------------------------------------------------------------------------
(* Ranks in a finite set that is totally ordered.                           *)

\* R orders S strictly and totally.
StrictlyOrders(R, S) ==
    /\ \A x, y \in S : x = y \/ <<x, y>> \in R \/ <<y, x>> \in R
    /\ \A x, y \in S : ~(<<x, y>> \in R /\ <<y, x>> \in R)
    /\ \A x, y, z \in S : <<x, y>> \in R /\ <<y, z>> \in R => <<x, z>> \in R

\* How many elements of S come before x.
RankIn(R, S, x) == Cardinality({y \in S : <<y, x>> \in R})

\* A finite set that is not empty has a last element.
LEMMA SomeLast ==
    ASSUME NEW S, IsFiniteSet(S), S # {}, NEW R, StrictlyOrders(R, S)
    PROVE  \E e \in S : \A y \in S \ {e} : <<y, e>> \in R
<1>. DEFINE D == {t \in SUBSET S : t # {} /\ ~ \E e \in t : \A y \in t \ {e} : <<y, e>> \in R}
<1>1. SUFFICES ASSUME D # {} PROVE FALSE
    OBVIOUS
<1>2. PICK t \in D : \A u \in SUBSET t : u # t => u \notin D
    <2>. D \in SUBSET SUBSET S
        OBVIOUS
    <2>. HIDE DEF D
    <2>. QED BY <1>1, MinimalSubset
<1>3. t \in SUBSET S /\ t # {} /\ ~ \E e \in t : \A y \in t \ {e} : <<y, e>> \in R
    OBVIOUS
<1>4. PICK x \in t : TRUE
    BY <1>3
<1>5. t \ {x} # {}
    BY <1>3, <1>4
<1>6. PICK z \in t \ {x} : \A y \in (t \ {x}) \ {z} : <<y, z>> \in R
    <2>. DEFINE u == t \ {x}
    <2>1. u \in SUBSET t /\ u # t /\ u \in SUBSET S /\ u # {}
        BY <1>3, <1>4, <1>5
    <2>2. u \notin D
        BY <1>2, <2>1
    <2>. HIDE DEF u
    <2>3. \E z \in u : \A y \in u \ {z} : <<y, z>> \in R
        BY <2>1, <2>2
    <2>. QED BY <2>3 DEF u
<1>7. CASE <<x, z>> \in R
    BY <1>3, <1>4, <1>6, <1>7
<1>8. CASE <<z, x>> \in R
    <2>1. ASSUME NEW y \in t \ {x} PROVE <<y, x>> \in R
        BY <1>3, <1>4, <1>6, <1>8, <2>1 DEF StrictlyOrders
    <2>. QED BY <1>3, <1>4, <2>1
<1>. QED BY <1>3, <1>4, <1>6, <1>7, <1>8 DEF StrictlyOrders

\* For every k up to the size of S exactly k elements have a rank below k.
LEMMA RanksBelow ==
    ASSUME NEW S, IsFiniteSet(S), NEW R, StrictlyOrders(R, S), NEW n \in 0 .. Cardinality(S)
    PROVE  Cardinality({x \in S : RankIn(R, S, x) < n}) = n
<1>. DEFINE Below(s, k) == {x \in s : RankIn(R, s, x) < k}
            D == {s \in SUBSET S : \E k \in 0 .. Cardinality(s) : Cardinality(Below(s, k)) # k}
<1>1. SUFFICES ASSUME D # {} PROVE FALSE
    <2>1. IsFiniteSet(S) /\ S \in SUBSET S
        OBVIOUS
    <2>. QED BY <2>1
<1>2. PICK m \in D : \A u \in SUBSET m : u # m => u \notin D
    <2>. D \in SUBSET SUBSET S
        OBVIOUS
    <2>. HIDE DEF D
    <2>. QED BY <1>1, MinimalSubset
<1>3. PICK k \in 0 .. Cardinality(m) : Cardinality(Below(m, k)) # k
    BY <1>2
<1>4. m \in SUBSET S /\ IsFiniteSet(m) /\ Cardinality(m) \in Nat /\ k \in Nat
    BY <1>3, FS_Subset, FS_CardinalityType
<1>5. m # {}
    <2>1. SUFFICES ASSUME m = {} PROVE FALSE
        OBVIOUS
    <2>2. Cardinality(m) = 0 /\ Below(m, k) = {} /\ k = 0
        BY <2>1, <1>3, FS_EmptySet
    <2>. QED BY <1>3, <2>2, FS_EmptySet
<1>6. PICK e \in m : \A y \in m \ {e} : <<y, e>> \in R
    <2>1. StrictlyOrders(R, m)
        BY <1>4 DEF StrictlyOrders
    <2>. QED BY <1>4, <1>5, <2>1, SomeLast
<1>. DEFINE r == m \ {e}
<1>7. IsFiniteSet(r) /\ Cardinality(r) = Cardinality(m) - 1 /\ Cardinality(r) \in Nat
    BY <1>4, <1>6, FS_RemoveElement, FS_CardinalityType
<1>8. \A j \in 0 .. Cardinality(r) : Cardinality(Below(r, j)) = j
    BY <1>2, <1>4, <1>6
<1>9. \A x \in r : RankIn(R, m, x) = RankIn(R, r, x)
    <2>1. ASSUME NEW x \in r PROVE {y \in m : <<y, x>> \in R} = {y \in r : <<y, x>> \in R}
        BY <1>4, <1>6, <2>1 DEF StrictlyOrders
    <2>. QED BY <2>1 DEF RankIn
<1>10. RankIn(R, m, e) = Cardinality(r)
    <2>1. {y \in m : <<y, e>> \in R} = r
        BY <1>4, <1>6 DEF StrictlyOrders
    <2>. QED BY <2>1 DEF RankIn
<1>11. \A x \in r : RankIn(R, r, x) \in Nat /\ RankIn(R, r, x) < Cardinality(r)
    <2> SUFFICES ASSUME NEW x \in r
                 PROVE  RankIn(R, r, x) \in Nat /\ RankIn(R, r, x) < Cardinality(r)
        OBVIOUS
    <2>. DEFINE earlier == {y \in r : <<y, x>> \in R}
    <2>1. earlier \in SUBSET r /\ x \notin earlier
        BY <1>4 DEF StrictlyOrders
    <2>. HIDE DEF earlier, r
    <2>2. IsFiniteSet(earlier) /\ Cardinality(earlier) <= Cardinality(r) /\ Cardinality(earlier) # Cardinality(r)
        BY <1>7, <2>1, FS_Subset
    <2>3. Cardinality(earlier) \in Nat
        BY <2>2, FS_CardinalityType
    <2>. QED BY <1>7, <2>2, <2>3 DEF RankIn, earlier
<1>12. CASE k <= Cardinality(r)
    <2>1. Below(m, k) = Below(r, k)
        BY <1>6, <1>7, <1>9, <1>10, <1>12
    <2>2. Cardinality(Below(r, k)) = k
        BY <1>4, <1>7, <1>8, <1>12
    <2>. QED BY <1>3, <2>1, <2>2
<1>13. CASE k = Cardinality(m)
    <2>1. Below(m, k) = m
        BY <1>4, <1>6, <1>7, <1>9, <1>10, <1>11, <1>13
    <2>. QED BY <1>3, <1>13, <2>1
<1>. QED BY <1>3, <1>4, <1>7, <1>12, <1>13
-----------------------------------------------------------------------------
(* Division and rounding.                                                  *)

\* Division rounds down, whatever the sign of what is divided.
LEMMA DivisionFloors ==
    ASSUME NEW n \in Int, NEW d \in Nat \ {0}
    PROVE  /\ n \div d \in Int
           /\ n - (n \div d) * d >= 0
           /\ n - (n \div d) * d <= d - 1
BY SMT

\* Multiples of d are ordered as the factors are.
LEMMA MultiplesOrdered ==
    ASSUME NEW m \in Int, NEW n \in Int, NEW d \in Nat \ {0}, m < n
    PROVE  m * d + d <= n * d
<1>1. (n - m - 1) * d >= 0
    OBVIOUS
<1>2. (n - m - 1) * d = n * d - m * d - d
    OBVIOUS
<1>3. m * d \in Int /\ n * d \in Int
    OBVIOUS
<1>. QED BY <1>1, <1>2, <1>3

\* Rounding half up gives a natural number.
LEMMA RoundNat ==
    ASSUME NEW n \in Nat, NEW d \in Nat \ {0}
    PROVE  Sale!RoundHalfUp(n, d) \in Nat
BY DEF Sale!RoundHalfUp

\* Rounding a whole number of units changes nothing.
LEMMA RoundExact ==
    ASSUME NEW b \in Nat, NEW d \in Nat \ {0}
    PROVE  Sale!RoundHalfUp(b * d, d) = b
BY DEF Sale!RoundHalfUp
-----------------------------------------------------------------------------
(* The shares of an adjustment.                                            *)

\* What the lines of a sale are: at least one, with a price and a place of its own.
LinesSound(table, S) ==
    /\ IsFiniteSet(S) /\ S # {}
    /\ \A l \in S : table[l].gross \in Nat \ {0} /\ table[l].order \in Nat
    /\ \A k, l \in S : table[k].order = table[l].order => k = l

\* SumFunction is the sum over the whole domain.
LEMMA SumFunctionIs ==
    ASSUME NEW f
    PROVE  SumFunction(f) = SumFunctionOnSet(f, DOMAIN f)
BY Zenon DEF SumFunction, SumFunctionOnSet, FoldFunction

\* Lines with a price have a positive gross total.
LEMMA GrossPositive ==
    ASSUME NEW table, NEW S, LinesSound(table, S)
    PROVE  /\ Sale!GrossOf(table, S) = SumFunctionOnSet([l \in S |-> table[l].gross], S)
           /\ Sale!GrossOf(table, S) \in Nat \ {0}
<1>. DEFINE f == [l \in S |-> table[l].gross]
<1>1. IsFiniteSet(S) /\ \A l \in S : f[l] \in Nat /\ f[l] >= 1
    BY DEF LinesSound
<1>2. PICK e \in S : TRUE
    BY DEF LinesSound
<1>3. Sale!GrossOf(table, S) = SumFunctionOnSet(f, S)
    BY SumFunctionIs, SaleSums DEF Sale!GrossOf
<1>4. f[e] + SumFunctionOnSet(f, S \ {e}) = SumFunctionOnSet(f, S)
    BY <1>1, SumRemove
<1>5. SumFunctionOnSet(f, S \ {e}) \in Nat
    <2>1. IsFiniteSet(S \ {e}) /\ \A l \in S \ {e} : f[l] \in Nat
        BY <1>1, FS_RemoveElement
    <2>. QED BY <2>1, SumNat
<1>. HIDE DEF f
<1>6. SumFunctionOnSet(f, S) \in Nat \ {0}
    BY <1>1, <1>2, <1>4, <1>5
<1>. QED BY <1>3, <1>6 DEF f

\* The floor and the remainder of a share: what a line keeps before the units that
\* are left over go out, times the gross total, is its part of the new total.
LEMMA ShareIs ==
    ASSUME NEW table, NEW S, LinesSound(table, S), NEW a \in Int, NEW l \in S
    PROVE  LET G == Sale!GrossOf(table, S)
               g == table[l].gross
               F == Sale!FloorShare(table, S, a, l)
               R == Sale!Remainder(table, S, a, l)
           IN  /\ F \in Int
               /\ R \in 0 .. G - 1
               /\ R = g * a - F * G
               /\ g * (G + a) = (g + F) * G + R
<1>. DEFINE G == Sale!GrossOf(table, S)
            g == table[l].gross
            F == Sale!FloorShare(table, S, a, l)
            R == Sale!Remainder(table, S, a, l)
<1>1. G \in Nat \ {0} /\ g \in Nat /\ g * a \in Int
    <2>1. G \in Nat \ {0}
        BY GrossPositive
    <2>2. g \in Nat
        BY DEF LinesSound
    <2>. QED BY <2>1, <2>2
<1>2. F = (g * a) \div G /\ R = g * a - F * G
    BY DEF Sale!FloorShare, Sale!Remainder
<1>. HIDE DEF G, g, F, R
<1>3. F \in Int /\ g * a - F * G >= 0 /\ g * a - F * G <= G - 1
    BY <1>1, <1>2, DivisionFloors
<1>4. g * (G + a) = g * G + g * a /\ (g + F) * G = g * G + F * G
    BY <1>1, <1>3
<1>5. g * G \in Int /\ F * G \in Int
    BY <1>1, <1>3
<1>6. R \in 0 .. G - 1 /\ g * (G + a) = (g + F) * G + R
    BY <1>1, <1>2, <1>3, <1>4, <1>5
<1>. QED BY <1>2, <1>3, <1>6 DEF G, g, F, R

\* RanksBefore orders the lines strictly and totally.
RankPairs(table, S, a) == {p \in S \X S : Sale!RanksBefore(table, S, a, p[1], p[2])}

\* The ranking of the lines is a strict total order.
LEMMA RanksOrder ==
    ASSUME NEW table, NEW S, LinesSound(table, S), NEW a \in Int
    PROVE  /\ StrictlyOrders(RankPairs(table, S, a), S)
           /\ \A l \in S : {m \in S : Sale!RanksBefore(table, S, a, m, l)}
                             = {m \in S : <<m, l>> \in RankPairs(table, S, a)}
<1>1. \A k, l \in S : <<k, l>> \in RankPairs(table, S, a) <=> Sale!RanksBefore(table, S, a, k, l)
    BY DEF RankPairs
<1>2. \A l \in S : Sale!Remainder(table, S, a, l) \in Int /\ table[l].order \in Nat
    <2> SUFFICES ASSUME NEW l \in S
                 PROVE  Sale!Remainder(table, S, a, l) \in Int /\ table[l].order \in Nat
        OBVIOUS
    <2>1. Sale!GrossOf(table, S) \in Nat
        BY GrossPositive
    <2>2. Sale!Remainder(table, S, a, l) \in 0 .. Sale!GrossOf(table, S) - 1
        BY ShareIs
    <2>. QED BY <2>1, <2>2 DEF LinesSound
<1>3. \A k, l \in S : table[k].order = table[l].order => k = l
    BY DEF LinesSound
<1>4. \A k, l \in S : Sale!RanksBefore(table, S, a, k, l) <=>
          \/ Sale!Remainder(table, S, a, k) > Sale!Remainder(table, S, a, l)
          \/ /\ Sale!Remainder(table, S, a, k) = Sale!Remainder(table, S, a, l)
             /\ table[k].order < table[l].order
    BY DEF Sale!RanksBefore
<1>5. StrictlyOrders(RankPairs(table, S, a), S)
    BY <1>1, <1>2, <1>3, <1>4 DEF StrictlyOrders
<1>6. \A l \in S : {m \in S : Sale!RanksBefore(table, S, a, m, l)}
                             = {m \in S : <<m, l>> \in RankPairs(table, S, a)}
    BY <1>1
<1>. QED BY <1>5, <1>6

\* The units that are left over: as many as a whole number of lines may get one.
LEMMA UnitsAreFew ==
    ASSUME NEW table, NEW S, LinesSound(table, S), NEW a \in Int
    PROVE  /\ Sale!UnitsLeft(table, S, a) \in 0 .. Cardinality(S)
           /\ Sale!UnitsLeft(table, S, a) =
                 a - SumFunctionOnSet([l \in S |-> Sale!FloorShare(table, S, a, l)], S)
<1>. DEFINE G == Sale!GrossOf(table, S)
            gross == [l \in S |-> table[l].gross]
            exact == [l \in S |-> table[l].gross * a]
            floors == [l \in S |-> Sale!FloorShare(table, S, a, l)]
            down == [l \in S |-> Sale!FloorShare(table, S, a, l) * G]
            rest == [l \in S |-> Sale!Remainder(table, S, a, l)]
            U == Sale!UnitsLeft(table, S, a)
            F == SumFunctionOnSet(floors, S)
            R == SumFunctionOnSet(rest, S)
<1>1. IsFiniteSet(S) /\ G \in Nat \ {0} /\ G = SumFunctionOnSet(gross, S)
    BY GrossPositive DEF LinesSound
<1>2. U = a - F
    BY SumFunctionIs, SaleSums DEF Sale!UnitsLeft
<1>3. \A l \in S : /\ gross[l] \in Int /\ exact[l] = gross[l] * a /\ exact[l] \in Int
                   /\ floors[l] \in Int /\ down[l] = floors[l] * G /\ down[l] \in Int
                   /\ rest[l] \in Nat /\ rest[l] <= G
                   /\ exact[l] = down[l] + rest[l]
    <2> SUFFICES ASSUME NEW l \in S
                 PROVE  /\ gross[l] \in Int /\ exact[l] = gross[l] * a /\ exact[l] \in Int
                        /\ floors[l] \in Int /\ down[l] = floors[l] * G /\ down[l] \in Int
                        /\ rest[l] \in Nat /\ rest[l] <= G
                        /\ exact[l] = down[l] + rest[l]
        OBVIOUS
    <2>. DEFINE fl == Sale!FloorShare(table, S, a, l)
                rm == Sale!Remainder(table, S, a, l)
    <2>1. fl \in Int /\ rm \in 0 .. G - 1 /\ rm = table[l].gross * a - fl * G
        BY ShareIs
    <2>2. table[l].gross \in Nat
        BY DEF LinesSound
    <2>3. gross[l] = table[l].gross /\ exact[l] = table[l].gross * a /\ floors[l] = fl
          /\ down[l] = fl * G /\ rest[l] = rm
        OBVIOUS
    <2>. HIDE DEF gross, exact, floors, down, rest, G, fl, rm
    <2>4. table[l].gross * a \in Int /\ fl * G \in Int
        BY <1>1, <2>1, <2>2
    <2>. QED BY <1>1, <2>1, <2>2, <2>3, <2>4
<1>. HIDE DEF gross, exact, floors, down, rest, G, U
<1>4. SumFunctionOnSet(exact, S) = G * a
    <2>1. SumFunctionOnSet(exact, S) = SumFunctionOnSet(gross, S) * a
        BY <1>1, <1>3, SumScaled
    <2>. QED BY <1>1, <2>1
<1>5. SumFunctionOnSet(down, S) = F * G
    BY <1>1, <1>3, SumScaled
<1>6. SumFunctionOnSet(exact, S) = SumFunctionOnSet(down, S) + R
    BY <1>1, <1>3, SumPlus
<1>7. F \in Int /\ R \in Nat
    BY <1>1, <1>3, SumInt, SumNat
<1>8. R <= Cardinality(S) * G /\ Cardinality(S) \in Nat
    <2>1. \A l \in S : rest[l] \in Int /\ rest[l] <= G
        BY <1>3
    <2>2. R <= Cardinality(S) * G
        BY <1>1, <2>1, SumBelow
    <2>. QED BY <1>1, <2>2, FS_CardinalityType
<1>. HIDE DEF F, R
<1>9. R = U * G /\ U \in Int
    <2>1. (a - F) * G = G * a - F * G
        BY <1>1, <1>7
    <2>2. G * a \in Int /\ F * G \in Int
        BY <1>1, <1>7
    <2>. QED BY <1>2, <1>4, <1>5, <1>6, <1>7, <2>1, <2>2
<1>10. U >= 0
    <2> SUFFICES ASSUME U < 0 PROVE FALSE
        BY <1>9
    <2>1. U * G + G <= 0 * G
        BY <1>1, <1>9, MultiplesOrdered
    <2>. QED BY <1>1, <1>7, <1>9, <2>1
<1>11. U <= Cardinality(S)
    <2> SUFFICES ASSUME Cardinality(S) < U PROVE FALSE
        BY <1>8, <1>9
    <2>1. Cardinality(S) * G + G <= U * G
        BY <1>1, <1>8, <1>9, MultiplesOrdered
    <2>2. Cardinality(S) * G \in Int
        BY <1>1, <1>8
    <2>. QED BY <1>1, <1>7, <1>8, <1>9, <2>1, <2>2
<1>. QED BY <1>2, <1>8, <1>9, <1>10, <1>11 DEF U, F, floors

\* A line gets an extra unit when fewer lines rank before it than units are left.
LEMMA ExtraIs ==
    ASSUME NEW table, NEW S, LinesSound(table, S), NEW a \in Int, NEW l \in S
    PROVE  Sale!ExtraUnit(table, S, a, l)
             <=> RankIn(RankPairs(table, S, a), S, l) < Sale!UnitsLeft(table, S, a)
<1>1. {m \in S : Sale!RanksBefore(table, S, a, m, l)} = {m \in S : <<m, l>> \in RankPairs(table, S, a)}
    BY RanksOrder
<1>. QED BY <1>1, SaleSets DEF Sale!ExtraUnit, RankIn

\* The net amount of a line, and the parts it is made of.
LEMMA NetIs ==
    ASSUME NEW table, NEW S, LinesSound(table, S), NEW a \in Int, NEW l \in S
    PROVE  LET extra == IF Sale!ExtraUnit(table, S, a, l) THEN 1 ELSE 0
           IN  Sale!NetAmount(table, S, a, l) = table[l].gross + Sale!FloorShare(table, S, a, l) + extra
<1>1. Sale!GrossOf(table, S) # 0
    BY GrossPositive
<1>. QED BY <1>1 DEF Sale!NetAmount

\* The net amounts add up exactly to the adjusted total: the floors leave over as
\* many units as there are lines ranked below that number.
THEOREM SharesAreExact ==
    ASSUME NEW table, NEW S, LinesSound(table, S), NEW a \in Int
    PROVE  SumFunction([l \in S |-> Sale!NetAmount(table, S, a, l)]) = Sale!GrossOf(table, S) + a
<1>. DEFINE extra(l) == IF Sale!ExtraUnit(table, S, a, l) THEN 1 ELSE 0
            gross == [l \in S |-> table[l].gross]
            floors == [l \in S |-> Sale!FloorShare(table, S, a, l)]
            extras == [l \in S |-> extra(l)]
            both == [l \in S |-> table[l].gross + Sale!FloorShare(table, S, a, l)]
            net == [l \in S |-> Sale!NetAmount(table, S, a, l)]
            U == Sale!UnitsLeft(table, S, a)
<1>1. IsFiniteSet(S) /\ Sale!GrossOf(table, S) = SumFunctionOnSet(gross, S)
    BY GrossPositive DEF LinesSound
<1>2. U \in 0 .. Cardinality(S) /\ U = a - SumFunctionOnSet(floors, S)
    BY UnitsAreFew
<1>3. \A l \in S : /\ gross[l] \in Int /\ floors[l] \in Int /\ extras[l] \in {0, 1}
                   /\ both[l] = gross[l] + floors[l]
                   /\ net[l] = both[l] + extras[l]
    <2> SUFFICES ASSUME NEW l \in S
                 PROVE  /\ gross[l] \in Int /\ floors[l] \in Int /\ extras[l] \in {0, 1}
                        /\ both[l] = gross[l] + floors[l]
                        /\ net[l] = both[l] + extras[l]
        OBVIOUS
    <2>1. Sale!FloorShare(table, S, a, l) \in Int
        BY ShareIs
    <2>2. table[l].gross \in Int
        BY DEF LinesSound
    <2>3. Sale!NetAmount(table, S, a, l) = table[l].gross + Sale!FloorShare(table, S, a, l) + extra(l)
        BY NetIs
    <2>. QED BY <2>1, <2>2, <2>3
<1>4. SumFunctionOnSet(extras, S) = U
    <2>. DEFINE R == RankPairs(table, S, a)
    <2>1. {l \in S : extras[l] = 1} = {l \in S : RankIn(R, S, l) < U}
        <3>1. \A l \in S : extras[l] = 1 <=> RankIn(R, S, l) < U
            BY ExtraIs
        <3>. QED BY <3>1
    <2>2. StrictlyOrders(R, S)
        BY RanksOrder
    <2>. HIDE DEF R, U, extras
    <2>3. Cardinality({l \in S : RankIn(R, S, l) < U}) = U
        BY <1>1, <1>2, <2>2, RanksBelow
    <2>4. SumFunctionOnSet(extras, S) = Cardinality({l \in S : extras[l] = 1})
        BY <1>1, <1>3, SumCounts
    <2>. QED BY <2>1, <2>3, <2>4
<1>5. SumFunction(net) = SumFunctionOnSet(net, S)
    BY SumFunctionIs
<1>. HIDE DEF gross, floors, extras, both, net, U
<1>6. \A l \in S : both[l] \in Int /\ extras[l] \in Int
    BY <1>3
<1>7. SumFunctionOnSet(net, S) = SumFunctionOnSet(both, S) + SumFunctionOnSet(extras, S)
    BY <1>1, <1>3, <1>6, SumPlus
<1>8. SumFunctionOnSet(both, S) = SumFunctionOnSet(gross, S) + SumFunctionOnSet(floors, S)
    BY <1>1, <1>3, SumPlus
<1>9. SumFunctionOnSet(gross, S) \in Int /\ SumFunctionOnSet(floors, S) \in Int
    BY <1>1, <1>3, SumInt
<1>10. SumFunction(net) = Sale!GrossOf(table, S) + a
    BY <1>1, <1>2, <1>4, <1>5, <1>7, <1>8, <1>9
<1>. QED BY <1>10 DEF net

\* No line of a sale worth its discount has a negative net amount.
LEMMA NetNotNegative ==
    ASSUME NEW table, NEW S, LinesSound(table, S), NEW a \in Int,
           Sale!GrossOf(table, S) + a >= 0, NEW l \in S
    PROVE  Sale!NetAmount(table, S, a, l) \in Nat
<1>. DEFINE G == Sale!GrossOf(table, S)
            K == table[l].gross + Sale!FloorShare(table, S, a, l)
            R == Sale!Remainder(table, S, a, l)
            g == table[l].gross
<1>1. G \in Nat \ {0}
    BY GrossPositive
<1>2. g \in Nat
    BY DEF LinesSound
<1>3. K \in Int /\ R \in 0 .. G - 1 /\ g * (G + a) = K * G + R
    BY <1>2, ShareIs
<1>4. K >= 0
    <2> SUFFICES ASSUME K < 0 PROVE FALSE
        BY <1>3
    <2>. HIDE DEF K, G, R, g
    <2>1. K * G + G <= 0 * G
        BY <1>1, <1>3, MultiplesOrdered
    <2>2. g * (G + a) >= 0
        BY <1>1, <1>2 DEF G
    <2>3. K * G \in Int
        BY <1>1, <1>3
    <2>. QED BY <1>1, <1>3, <2>1, <2>2, <2>3
<1>5. Sale!NetAmount(table, S, a, l) \in {K, K + 1}
    BY <1>3, NetIs
<1>. HIDE DEF K
<1>. QED BY <1>3, <1>4, <1>5

\* Whoever ranks before a line that gets an extra unit gets one too.
LEMMA EarlierGetsExtra ==
    ASSUME NEW table, NEW S, LinesSound(table, S), NEW a \in Int, NEW k \in S, NEW l \in S,
           Sale!RanksBefore(table, S, a, k, l), Sale!ExtraUnit(table, S, a, l)
    PROVE  Sale!ExtraUnit(table, S, a, k)
<1>. DEFINE P == RankPairs(table, S, a)
            before(x) == {m \in S : <<m, x>> \in P}
<1>1. StrictlyOrders(P, S) /\ <<k, l>> \in P
    BY RanksOrder DEF RankPairs
<1>2. before(k) \in SUBSET before(l)
    BY <1>1 DEF StrictlyOrders
<1>3. IsFiniteSet(before(l)) /\ IsFiniteSet(before(k))
    <2>1. IsFiniteSet(S) /\ before(l) \in SUBSET S /\ before(k) \in SUBSET S
        BY DEF LinesSound
    <2>. HIDE DEF before
    <2>. QED BY <2>1, FS_Subset
<1>. HIDE DEF before
<1>4. /\ Cardinality(before(k)) <= Cardinality(before(l))
      /\ Cardinality(before(k)) \in Nat /\ Cardinality(before(l)) \in Nat
    BY <1>2, <1>3, FS_Subset, FS_CardinalityType
<1>5. Sale!UnitsLeft(table, S, a) \in Int
    <2>1. Cardinality(S) \in Nat
        BY FS_CardinalityType DEF LinesSound
    <2>2. Sale!UnitsLeft(table, S, a) \in 0 .. Cardinality(S)
        BY UnitsAreFew
    <2>. QED BY <2>1, <2>2
<1>6. Cardinality(before(l)) < Sale!UnitsLeft(table, S, a)
    BY ExtraIs DEF RankIn, before
<1>7. Cardinality(before(k)) < Sale!UnitsLeft(table, S, a)
    BY <1>4, <1>5, <1>6
<1>. QED BY <1>7, ExtraIs DEF RankIn, before

\* Where the discount eats up the whole sale, no line keeps anything.
LEMMA NothingKept ==
    ASSUME NEW table, NEW S, LinesSound(table, S), NEW a \in Int,
           Sale!GrossOf(table, S) + a = 0, NEW l \in S
    PROVE  Sale!NetAmount(table, S, a, l) = 0
<1>. DEFINE net == [k \in S |-> Sale!NetAmount(table, S, a, k)]
<1>1. IsFiniteSet(S) /\ \A k \in S : net[k] \in Nat
    BY NetNotNegative DEF LinesSound
<1>2. SumFunctionOnSet(net, S) = 0
    BY SharesAreExact, SumFunctionIs
<1>3. net[l] = Sale!NetAmount(table, S, a, l)
    OBVIOUS
<1>. HIDE DEF net
<1>4. SumFunctionOnSet(net, S) = net[l] + SumFunctionOnSet(net, S \ {l})
    BY <1>1, SumRemove
<1>5. SumFunctionOnSet(net, S \ {l}) \in Nat
    <2>1. IsFiniteSet(S \ {l}) /\ \A k \in S \ {l} : net[k] \in Nat
        BY <1>1, FS_RemoveElement
    <2>. QED BY <2>1, SumNat
<1>. QED BY <1>1, <1>2, <1>3, <1>4, <1>5

\* The larger line keeps more.
LEMMA LargerKeepsMore ==
    ASSUME NEW table, NEW S, LinesSound(table, S), NEW a \in Int,
           Sale!GrossOf(table, S) + a >= 0, NEW k \in S, NEW l \in S,
           table[k].gross >= table[l].gross
    PROVE  \/ Sale!NetAmount(table, S, a, k) >= Sale!NetAmount(table, S, a, l)
           \/ table[k].gross = table[l].gross /\ table[k].order > table[l].order
<1>. DEFINE G == Sale!GrossOf(table, S)
            T == G + a
            g(x) == table[x].gross
            K(x) == table[x].gross + Sale!FloorShare(table, S, a, x)
            R(x) == Sale!Remainder(table, S, a, x)
            e(x) == IF Sale!ExtraUnit(table, S, a, x) THEN 1 ELSE 0
            N(x) == Sale!NetAmount(table, S, a, x)
<1>1. G \in Nat \ {0} /\ T \in Nat
    <2>1. G \in Nat \ {0}
        BY GrossPositive
    <2>2. T >= 0
        OBVIOUS
    <2>. HIDE DEF G
    <2>. QED BY <2>1, <2>2
<1>2. \A x \in S : /\ g(x) \in Nat /\ K(x) \in Int /\ R(x) \in 0 .. G - 1
                   /\ g(x) * T = K(x) * G + R(x)
    <2> SUFFICES ASSUME NEW x \in S
                 PROVE  /\ g(x) \in Nat /\ K(x) \in Int /\ R(x) \in 0 .. G - 1
                        /\ g(x) * T = K(x) * G + R(x)
        OBVIOUS
    <2>1. g(x) \in Nat
        BY DEF LinesSound
    <2>2. Sale!FloorShare(table, S, a, x) \in Int /\ R(x) \in 0 .. G - 1 /\ g(x) * T = K(x) * G + R(x)
        BY ShareIs
    <2>. QED BY <2>1, <2>2
<1>3. \A x \in S : N(x) = K(x) + e(x) /\ e(x) \in {0, 1}
    BY NetIs
<1>4. Sale!RanksBefore(table, S, a, k, l) => e(l) <= e(k)
    BY EarlierGetsExtra
<1>5. Sale!RanksBefore(table, S, a, k, l)
        <=> R(k) > R(l) \/ (R(k) = R(l) /\ table[k].order < table[l].order)
    BY DEF Sale!RanksBefore
<1>6. /\ table[k].order \in Nat /\ table[l].order \in Nat
      /\ table[k].order = table[l].order => k = l
    BY DEF LinesSound
<1>7. T = 0 => N(k) = 0 /\ N(l) = 0
    BY NothingKept
<1>8. g(k) >= g(l)
    OBVIOUS
<1>. SUFFICES N(k) >= N(l) \/ (g(k) = g(l) /\ table[k].order > table[l].order)
    OBVIOUS
<1>. HIDE DEF G, T, g, K, R, e, N
<1>9. K(k) * G \in Int /\ K(l) * G \in Int /\ g(k) * T \in Int /\ g(l) * T \in Int
    BY <1>1, <1>2
<1>10. g(k) * T >= g(l) * T /\ (g(k) * T = g(l) * T => g(k) = g(l) \/ T = 0)
    <2>1. (g(k) - g(l)) * T = g(k) * T - g(l) * T
        BY <1>1, <1>2
    <2>2. (g(k) - g(l)) * T >= 0
        BY <1>1, <1>2, <1>8
    <2>3. (g(k) - g(l)) * T = 0 => g(k) = g(l) \/ T = 0
        BY <1>1, <1>2, <1>8
    <2>. QED BY <1>9, <2>1, <2>2, <2>3
<1>11. CASE K(l) < K(k)
    BY <1>2, <1>3, <1>11
<1>12. ~(K(k) < K(l))
    <2>. SUFFICES ASSUME K(k) < K(l) PROVE FALSE
        OBVIOUS
    <2>1. K(k) * G + G <= K(l) * G
        BY <1>1, <1>2, MultiplesOrdered
    <2>. QED BY <1>1, <1>2, <1>9, <1>10, <2>1
<1>13. CASE K(l) = K(k)
    <2>1. R(k) >= R(l) /\ (R(k) = R(l) => g(k) = g(l) \/ T = 0)
        BY <1>1, <1>2, <1>9, <1>10, <1>13
    <2>2. Sale!RanksBefore(table, S, a, k, l) => N(k) >= N(l)
        BY <1>2, <1>3, <1>4, <1>13
    <2>3. CASE R(k) > R(l)
        BY <1>5, <2>2, <2>3
    <2>4. CASE R(k) = R(l) /\ g(k) = g(l)
        <3>1. CASE k = l
            BY <1>2, <1>3, <3>1
        <3>2. CASE k # l
            BY <1>5, <1>6, <2>2, <2>4, <3>2
        <3>. QED BY <3>1, <3>2
    <2>5. CASE T = 0
        BY <1>7, <2>5
    <2>6. R(k) \in Int /\ R(l) \in Int
        BY <1>1, <1>2
    <2>. QED BY <2>1, <2>3, <2>4, <2>5, <2>6
<1>. QED BY <1>2, <1>11, <1>12, <1>13
-----------------------------------------------------------------------------
(* What one corrective line item takes back of an accrual.                 *)

\* A row of commission_accruals, with the amount its own policy gives.
AccrualSound(row) ==
    /\ row.rule.type \in {"NONE", "FIXED", "PERCENTAGE"}
    /\ row.rule.rate \in 0 .. Sale!BasisPoints /\ row.rule.fixed \in Nat /\ row.basisAmount \in Nat
    /\ row.amount = Sale!CommissionAmount(row.rule, row.basisAmount)

\* A commission is a natural number.
LEMMA CommissionNat ==
    ASSUME NEW terms, terms.type \in {"NONE", "FIXED", "PERCENTAGE"}, terms.rate \in Nat,
           terms.fixed \in Nat, NEW b \in Nat
    PROVE  Sale!CommissionAmount(terms, b) \in Nat
<1>1. b * terms.rate \in Nat /\ Sale!BasisPoints \in Nat \ {0}
    BY DEF Sale!BasisPoints
<1>2. Sale!RoundHalfUp(b * terms.rate, Sale!BasisPoints) \in Nat
    BY <1>1, RoundNat
<1>. QED BY <1>2 DEF Sale!CommissionAmount

\* An accrual is a share of a basis, rounded; a fixed one is the whole of itself.
Basis(row) == IF row.rule.type = "PERCENTAGE" THEN row.basisAmount ELSE row.amount
Rate(row) == IF row.rule.type = "PERCENTAGE" THEN row.rule.rate ELSE 1
Unit(row) == IF row.rule.type = "PERCENTAGE" THEN Sale!BasisPoints ELSE 1

\* What was taken back of an accrual in n parts keeps pace with what was given back.
RowPaced(row, gross, back, taken, n) ==
    Paced(Basis(row), Rate(row), Unit(row), row.amount, gross, back, taken, n)

\* The numbers of an accrual are what the arithmetic of parts needs.
LEMMA AccrualNumbers ==
    ASSUME NEW row, AccrualSound(row)
    PROVE  /\ Basis(row) \in Nat /\ Rate(row) \in Nat /\ Unit(row) \in Nat \ {0}
           /\ row.amount \in Nat /\ Rate(row) <= Unit(row)
           /\ 2 * Unit(row) * row.amount <= 2 * (Basis(row) * Rate(row)) + Unit(row)
           /\ 2 * (Basis(row) * Rate(row)) <= 2 * Unit(row) * row.amount + Unit(row)
<1>1. /\ row.rule.type \in {"NONE", "FIXED", "PERCENTAGE"}
      /\ row.rule.rate \in Nat /\ row.rule.rate <= Sale!BasisPoints
      /\ row.rule.fixed \in Nat /\ row.basisAmount \in Nat
      /\ row.amount = Sale!CommissionAmount(row.rule, row.basisAmount)
    <2>1. \A i \in 0 .. Sale!BasisPoints : i \in Nat /\ i <= Sale!BasisPoints
        BY DEF Sale!BasisPoints
    <2>. QED BY <2>1 DEF AccrualSound
<1>2. row.amount \in Nat
    BY <1>1, CommissionNat
<1>3. Sale!BasisPoints \in Nat \ {0}
    BY DEF Sale!BasisPoints
<1>4. CASE row.rule.type = "PERCENTAGE"
    <2>1. row.amount = (2 * (row.basisAmount * row.rule.rate) + Sale!BasisPoints) \div (2 * Sale!BasisPoints)
        BY <1>1, <1>4 DEF Sale!CommissionAmount, Sale!RoundHalfUp
    <2>2. row.basisAmount * row.rule.rate \in Nat
        BY <1>1
    <2>3. /\ 2 * Sale!BasisPoints * row.amount <= 2 * (row.basisAmount * row.rule.rate) + Sale!BasisPoints
          /\ 2 * (row.basisAmount * row.rule.rate)
                <= 2 * Sale!BasisPoints * row.amount + (Sale!BasisPoints - 1)
        BY <1>3, <2>1, <2>2, HalfUp
    <2>4. 2 * Sale!BasisPoints * row.amount \in Nat
        BY <1>2, <1>3
    <2>. QED BY <1>1, <1>2, <1>3, <1>4, <2>2, <2>3, <2>4 DEF Basis, Rate, Unit
<1>5. CASE row.rule.type # "PERCENTAGE"
    BY <1>1, <1>2, <1>5 DEF Basis, Rate, Unit
<1>. QED BY <1>4, <1>5

\* One more part of the line takes back no more than is left, and keeps pace.
LEMMA AdjustmentPaced ==
    ASSUME NEW row, AccrualSound(row), NEW gross \in Nat \ {0}, NEW back \in Nat,
           NEW already \in Nat, NEW n \in Nat, already <= row.amount,
           RowPaced(row, gross, back, already, n),
           NEW requested \in Nat \ {0}, back + requested <= gross
    PROVE  LET t == Sale!Adjustment(row, already, requested, gross) IN
           /\ t \in Nat
           /\ already + t <= row.amount
           /\ RowPaced(row, gross, back + requested, already + t, n + 1)
<1>. DEFINE left == row.amount - already
            t == Sale!Adjustment(row, already, requested, gross)
            b == (2 * (Basis(row) * requested) + gross) \div (2 * gross)
            a == (2 * (b * Rate(row)) + Unit(row)) \div (2 * Unit(row))
<1>1. /\ Basis(row) \in Nat /\ Rate(row) \in Nat /\ Unit(row) \in Nat \ {0} /\ row.amount \in Nat
    BY AccrualNumbers
<1>2. left \in Nat /\ Sale!Unreversed(row, already) = left
    BY <1>1 DEF Sale!Unreversed, Sale!AtLeastZero
<1>3. /\ b \in Nat
      /\ 2 * gross * b <= 2 * (Basis(row) * requested) + gross
      /\ 2 * (Basis(row) * requested) <= 2 * gross * b + (gross - 1)
    <2>1. Basis(row) * requested \in Nat
        BY <1>1
    <2>. QED BY <2>1, HalfUp
<1>. HIDE DEF b
<1>4. /\ a \in Nat
      /\ 2 * Unit(row) * a <= 2 * (b * Rate(row)) + Unit(row)
      /\ 2 * (b * Rate(row)) <= 2 * Unit(row) * a + (Unit(row) - 1)
    <2>1. b * Rate(row) \in Nat
        BY <1>1, <1>3
    <2>. QED BY <1>1, <2>1, HalfUp
<1>. HIDE DEF a
<1>5. t = IF a <= left THEN a ELSE left
    <2>1. CASE row.rule.type = "PERCENTAGE"
        <3>1. Sale!AdjustmentBasis(row, requested, gross) = b
            BY <2>1 DEF Sale!AdjustmentBasis, Sale!RoundHalfUp, Basis, b
        <3>2. Sale!CommissionAmount(row.rule, b) = a
            BY <2>1 DEF Sale!CommissionAmount, Sale!RoundHalfUp, Rate, Unit, a
        <3>. QED BY <1>2, <2>1, <3>1, <3>2 DEF Sale!Adjustment, Sale!PercentageAdjustment, Sale!Least
    <2>2. CASE row.rule.type # "PERCENTAGE"
        <3>1. b = Sale!RoundHalfUp(row.amount * requested, gross)
            BY <2>2 DEF Sale!RoundHalfUp, Basis, b
        <3>2. a = (2 * (b * 1) + 1) \div (2 * 1)
            BY <2>2 DEF Rate, Unit, a
        <3>3. a = b
            BY <1>3, <3>2
        <3>4. CASE row.rule.type = "FIXED"
            <4>1. requested = gross => b = row.amount
                BY <1>1, <3>1, RoundExact
            <4>. QED BY <1>1, <1>2, <3>1, <3>3, <3>4, <4>1 DEF Sale!Adjustment, Sale!FixedAdjustment, Sale!Least
        <3>5. CASE row.rule.type = "NONE"
            <4>1. row.amount = 0
                BY <3>5 DEF AccrualSound, Sale!CommissionAmount
            <4>2. left = 0 /\ t = 0
                BY <3>5, <4>1 DEF Sale!Adjustment
            <4>. QED BY <1>4, <4>2
        <3>. QED BY <2>2, <3>4, <3>5 DEF AccrualSound
    <2>. QED BY <2>1, <2>2
<1>6. t \in Nat /\ already + t <= row.amount
    BY <1>1, <1>2, <1>4, <1>5
<1>7. Paced(Basis(row), Rate(row), Unit(row), row.amount, gross, back, already, n)
    BY DEF RowPaced
<1>. HIDE DEF t
<1>8. Paced(Basis(row), Rate(row), Unit(row), row.amount, gross, back + requested, already + t, n + 1)
    BY <1>1, <1>3, <1>4, <1>5, <1>6, <1>7, PacedStep
<1>. QED BY <1>6, <1>8 DEF RowPaced, t

\* What keeps pace part by part follows the share of the money.
LEMMA PacedFollows ==
    ASSUME NEW row, AccrualSound(row), NEW gross \in Nat \ {0}, NEW back \in Nat,
           NEW taken \in Nat, NEW n \in Nat, taken <= row.amount, back <= gross,
           RowPaced(row, gross, back, taken, n), n = 0 => back = 0 /\ taken = 0
    PROVE  Sale!FollowsShare(row.amount, taken, back, gross, n)
<1>1. /\ Basis(row) \in Nat /\ Rate(row) \in Nat /\ Unit(row) \in Nat \ {0}
      /\ row.amount \in Nat /\ Rate(row) <= Unit(row)
      /\ 2 * Unit(row) * row.amount <= 2 * (Basis(row) * Rate(row)) + Unit(row)
      /\ 2 * (Basis(row) * Rate(row)) <= 2 * Unit(row) * row.amount + Unit(row)
      /\ Paced(Basis(row), Rate(row), Unit(row), row.amount, gross, back, taken, n)
    BY AccrualNumbers DEF RowPaced
<1>2. CASE n = 0
    BY <1>1, <1>2 DEF Sale!FollowsShare
<1>3. CASE n # 0
    <2>1. n \in Nat \ {0}
        BY <1>3
    <2>2. /\ row.amount * back - taken * gross <= 2 * n * gross
          /\ taken * gross - row.amount * back <= 2 * n * gross
        BY <1>1, <2>1, PacedShare
    <2>3. back = gross => row.amount - taken < n
        BY <1>1, <2>1, PacedWhole
    <2>. QED BY <2>2, <2>3 DEF Sale!FollowsShare
<1>. QED BY <1>2, <1>3
-----------------------------------------------------------------------------
(* The inductive invariant.                                                *)

\* The sale is one that can be paid, and no step changes it.
SaleSound ==
    /\ \A l \in Lines : line[l].gross \in Prices /\ line[l].order = Order[l]
    /\ adjustment \in Adjustments
    /\ Sale!GrossOf(line, Lines) + adjustment > 0
    /\ \A l \in Lines : matched[l] \in Rules

AccrualsSound ==
    /\ DOMAIN accrual \subseteq Lines
    /\ \A l \in DOMAIN accrual : accrual[l].rule \in Rules /\ AccrualSound(accrual[l])

\* Corrections follow the accruals; what no part of was given back is untouched.
Progress ==
    /\ refunded \in [Lines -> Nat]
    /\ reversed \in [Lines -> Nat]
    /\ parts \in [Lines -> Nat]
    /\ DOMAIN accrual = {} => \A l \in Lines : parts[l] = 0
    /\ \A l \in Lines : refunded[l] <= line[l].gross
    /\ \A l \in Lines : parts[l] = 0 => refunded[l] = 0 /\ reversed[l] = 0

\* What was taken back of each accrual keeps pace with what was given back.
ReversalsPaced ==
    \A l \in Lines :
        IF l \in DOMAIN accrual
        THEN /\ reversed[l] <= accrual[l].amount
             /\ RowPaced(accrual[l], line[l].gross, refunded[l], reversed[l], parts[l])
        ELSE reversed[l] = 0

SaleInv == SaleSound /\ AccrualsSound /\ Progress /\ ReversalsPaced

\* The facts about the lines that the arithmetic needs.
LEMMA LinesAreSound ==
    ASSUME Sale!DataSound, SaleSound
    PROVE  /\ LinesSound(line, Lines)
           /\ Sale!ServiceLines # {} => LinesSound(line, Sale!ServiceLines)
           /\ Sale!ServiceLines \subseteq Lines
           /\ adjustment \in Int
<1>1. LinesSound(line, Lines)
    <2>1. IsFiniteSet(Lines) /\ Lines # {} /\ Prices \subseteq Nat \ {0}
          /\ Order \in [Lines -> Nat] /\ \A k, l \in Lines : Order[k] = Order[l] => k = l
        BY SaleSets DEF Sale!DataSound
    <2>2. \A l \in Lines : line[l].gross \in Prices /\ line[l].order = Order[l]
        BY DEF SaleSound
    <2>. QED BY <2>1, <2>2 DEF LinesSound
<1>2. Sale!ServiceLines \in SUBSET Lines
    BY DEF Sale!ServiceLines
<1>3. Sale!ServiceLines # {} => LinesSound(line, Sale!ServiceLines)
    <2>1. IsFiniteSet(Sale!ServiceLines)
        BY <1>1, <1>2, FS_Subset DEF LinesSound
    <2>. QED BY <1>1, <1>2, <2>1 DEF LinesSound
<1>4. adjustment \in Int
    BY DEF Sale!DataSound, SaleSound
<1>. QED BY <1>1, <1>2, <1>3, <1>4

\* What a rule that matched a line is made of.
LEMMA RuleIs ==
    ASSUME Sale!DataSound, NEW terms \in Rules
    PROVE  /\ terms.type \in {"NONE", "FIXED", "PERCENTAGE"}
           /\ terms.rate \in 0 .. Sale!BasisPoints /\ terms.fixed \in Nat
<1>1. /\ terms.type \in {"PERCENTAGE", "FIXED", "NONE"}
      /\ terms.rate \in 0 .. Sale!BasisPoints
      /\ terms.fixed \in Nat
    BY Zenon DEF Sale!DataSound
<1>. QED BY <1>1

\* Nothing is posted at first.
LEMMA InitSound == Sale!DataSound /\ Sale!Init => SaleInv
<1> SUFFICES ASSUME Sale!DataSound, Sale!Init PROVE SaleInv
    OBVIOUS
<1>1. PICK kind \in [Lines -> Kinds], gross \in [Lines -> Prices] :
          line = [l \in Lines |-> [kind |-> kind[l], gross |-> gross[l], order |-> Order[l]]]
    BY DEF Sale!Init
<1>2. SaleSound
    BY <1>1 DEF Sale!Init, SaleSound
<1>3. /\ DOMAIN accrual = {} /\ refunded = [l \in Lines |-> 0] /\ reversed = [l \in Lines |-> 0]
      /\ parts = [l \in Lines |-> 0]
    BY DEF Sale!Init
<1>4. \A l \in Lines : line[l].gross \in Nat
    BY <1>2 DEF SaleSound, Sale!DataSound
<1>. QED BY <1>2, <1>3, <1>4 DEF SaleInv, AccrualsSound, Progress, ReversalsPaced

\* Posting a sale keeps the invariant.
LEMMA PostStep == Sale!DataSound /\ SaleInv /\ Sale!Post => SaleInv'
<1> SUFFICES ASSUME Sale!DataSound, SaleInv, Sale!Post PROVE SaleInv'
    OBVIOUS
<1>1. /\ DOMAIN accrual = {}
      /\ \A l \in Sale!ServiceLines : Sale!BasisOf(l) >= 0
      /\ accrual' = [l \in Sale!ServiceLines |->
              [rule |-> matched[l], basisAmount |-> Sale!BasisOf(l),
               amount |-> Sale!CommissionAmount(matched[l], Sale!BasisOf(l))]]
      /\ line' = line /\ adjustment' = adjustment /\ matched' = matched
      /\ refunded' = refunded /\ reversed' = reversed /\ parts' = parts
    BY DEF Sale!Post, Sale!sale, Sale!Accruable
<1>2. SaleSound /\ AccrualsSound /\ Progress
    BY DEF SaleInv
<1>3. SaleSound'
    BY <1>1, <1>2 DEF SaleSound, Sale!GrossOf
<1>4. Sale!ServiceLines \subseteq Lines /\ (Sale!ServiceLines # {} => LinesSound(line, Sale!ServiceLines)) /\ adjustment \in Int
    BY <1>2, LinesAreSound
<1>5. ASSUME NEW l \in Sale!ServiceLines
      PROVE  Sale!BasisOf(l) \in Nat
    <2>1. line[l].gross \in Nat
        BY <1>4 DEF LinesSound
    <2>2. Sale!NetAmount(line, Sale!ServiceLines, adjustment, l) \in Int
        <3>1. Sale!FloorShare(line, Sale!ServiceLines, adjustment, l) \in Int
            BY <1>4, ShareIs
        <3>2. LinesSound(line, Sale!ServiceLines)
            BY <1>4
        <3>. DEFINE extra == IF Sale!ExtraUnit(line, Sale!ServiceLines, adjustment, l) THEN 1 ELSE 0
        <3>3. Sale!NetAmount(line, Sale!ServiceLines, adjustment, l)
                = line[l].gross + Sale!FloorShare(line, Sale!ServiceLines, adjustment, l) + extra
            BY <1>4, <3>2, NetIs
        <3>. QED BY <2>1, <3>1, <3>3
    <2>. QED BY <1>1, <2>1, <2>2 DEF Sale!BasisOf
<1>6. AccrualsSound'
    <2>1. DOMAIN accrual' = Sale!ServiceLines
        BY <1>1
    <2>2. ASSUME NEW l \in Sale!ServiceLines
          PROVE  accrual'[l].rule \in Rules /\ AccrualSound(accrual'[l])
        <3>1. matched[l] \in Rules
            BY <1>2, <1>4 DEF SaleSound
        <3>2. /\ accrual'[l].rule = matched[l] /\ accrual'[l].basisAmount = Sale!BasisOf(l)
              /\ accrual'[l].amount = Sale!CommissionAmount(matched[l], Sale!BasisOf(l))
            BY <1>1
        <3>. QED BY <1>5, <3>1, <3>2, RuleIs DEF AccrualSound
    <2>. QED BY <1>4, <2>1, <2>2 DEF AccrualsSound
<1>7. \A l \in Lines : parts[l] = 0 /\ refunded[l] = 0 /\ reversed[l] = 0
    BY <1>1, <1>2 DEF Progress
<1>8. Progress'
    BY <1>1, <1>2, <1>7 DEF Progress
<1>9. ReversalsPaced'
    <2> SUFFICES ASSUME NEW l \in Lines, l \in DOMAIN accrual'
                 PROVE  /\ reversed'[l] <= accrual'[l].amount
                        /\ RowPaced(accrual'[l], line'[l].gross, refunded'[l], reversed'[l], parts'[l])
        BY <1>1, <1>7 DEF ReversalsPaced
    <2>1. AccrualSound(accrual'[l])
        BY <1>6 DEF AccrualsSound
    <2>2. line'[l].gross \in Nat \ {0}
        BY <1>3 DEF SaleSound, Sale!DataSound
    <2>3. RowPaced(accrual'[l], line'[l].gross, 0, 0, 0) /\ 0 <= accrual'[l].amount
        BY <2>1, <2>2, AccrualNumbers, PacedStart DEF RowPaced
    <2>. QED BY <1>1, <1>7, <2>3
<1>. QED BY <1>3, <1>6, <1>8, <1>9 DEF SaleInv

\* A correction keeps the invariant.
LEMMA CorrectStep ==
    ASSUME Sale!DataSound, SaleInv, NEW amounts, DOMAIN amounts \subseteq Lines,
           \A l \in DOMAIN amounts : amounts[l] \in 1 .. line[l].gross,
           Sale!Correct(amounts)
    PROVE  SaleInv'
<1>1. /\ DOMAIN accrual # {}
      /\ refunded' = [l \in Lines |->
              IF l \in DOMAIN amounts THEN refunded[l] + amounts[l] ELSE refunded[l]]
      /\ reversed' = [l \in DOMAIN reversed |->
              IF l \in DOMAIN amounts \cap DOMAIN accrual
              THEN reversed[l] + Sale!Adjustment(accrual[l], reversed[l], amounts[l], line[l].gross)
              ELSE reversed[l]]
      /\ parts' = [l \in Lines |-> IF l \in DOMAIN amounts THEN parts[l] + 1 ELSE parts[l]]
      /\ \A l \in DOMAIN amounts : refunded[l] + amounts[l] <= line[l].gross
      /\ line' = line /\ adjustment' = adjustment /\ matched' = matched /\ accrual' = accrual
    BY DEF Sale!Correct, Sale!sale
<1>2. SaleSound /\ AccrualsSound /\ Progress /\ ReversalsPaced
    BY DEF SaleInv
<1>3. SaleSound'
    BY <1>1, <1>2 DEF SaleSound, Sale!GrossOf
<1>4. AccrualsSound'
    BY <1>1, <1>2 DEF AccrualsSound
<1>5. \A l \in Lines : line[l].gross \in Nat \ {0}
    BY <1>2 DEF SaleSound, Sale!DataSound
<1>6. \A l \in DOMAIN amounts : amounts[l] \in Nat \ {0}
    BY <1>5
<1>7. ASSUME NEW l \in DOMAIN amounts \cap DOMAIN accrual
      PROVE  LET taken == Sale!Adjustment(accrual[l], reversed[l], amounts[l], line[l].gross)
             IN  /\ taken \in Nat
                 /\ reversed[l] + taken <= accrual[l].amount
                 /\ RowPaced(accrual[l], line[l].gross, refunded[l] + amounts[l],
                             reversed[l] + taken, parts[l] + 1)
    <2>1. l \in Lines /\ AccrualSound(accrual[l])
        BY <1>2 DEF AccrualsSound
    <2>2. /\ reversed[l] <= accrual[l].amount
          /\ RowPaced(accrual[l], line[l].gross, refunded[l], reversed[l], parts[l])
        BY <1>2, <2>1 DEF ReversalsPaced
    <2>3. reversed[l] \in Nat /\ refunded[l] \in Nat /\ parts[l] \in Nat
        BY <1>2, <2>1 DEF Progress
    <2>4. line[l].gross \in Nat \ {0} /\ amounts[l] \in Nat \ {0} /\ refunded[l] + amounts[l] <= line[l].gross
        BY <1>1, <1>5, <1>6, <2>1
    <2>. QED BY <2>1, <2>2, <2>3, <2>4, AdjustmentPaced
<1>8. Progress'
    <2>1. refunded' \in [Lines -> Nat]
        BY <1>1, <1>2, <1>6 DEF Progress
    <2>2. reversed' \in [Lines -> Nat]
        BY <1>1, <1>2, <1>7 DEF Progress
    <2>3. parts' \in [Lines -> Nat]
        BY <1>1, <1>2 DEF Progress
    <2>4. \A l \in Lines : refunded'[l] <= line'[l].gross
        BY <1>1, <1>2 DEF Progress
    <2>5. \A l \in Lines : parts'[l] = 0 => refunded'[l] = 0 /\ reversed'[l] = 0
        BY <1>1, <1>2 DEF Progress
    <2>. QED BY <1>1, <2>1, <2>2, <2>3, <2>4, <2>5 DEF Progress
<1>9. ReversalsPaced'
    <2> SUFFICES ASSUME NEW l \in Lines
                 PROVE  IF l \in DOMAIN accrual
                        THEN /\ reversed'[l] <= accrual[l].amount
                             /\ RowPaced(accrual[l], line[l].gross, refunded'[l], reversed'[l], parts'[l])
                        ELSE reversed'[l] = 0
        BY <1>1 DEF ReversalsPaced
    <2>1. DOMAIN reversed = Lines
        BY <1>2 DEF Progress
    <2>2. CASE l \in DOMAIN amounts \cap DOMAIN accrual
        BY <1>1, <1>7, <2>1, <2>2
    <2>3. CASE l \in DOMAIN amounts /\ l \notin DOMAIN accrual
        BY <1>1, <1>2, <2>1, <2>3 DEF ReversalsPaced
    <2>4. CASE l \notin DOMAIN amounts
        BY <1>1, <1>2, <2>1, <2>4 DEF ReversalsPaced
    <2>. QED BY <2>2, <2>3, <2>4
<1>. QED BY <1>3, <1>4, <1>8, <1>9 DEF SaleInv

\* Every step keeps the invariant.
LEMMA NextKeepsSale == Sale!DataSound /\ SaleInv /\ [Sale!Next]_Sale!vars => SaleInv'
<1> SUFFICES ASSUME Sale!DataSound, SaleInv, [Sale!Next]_Sale!vars PROVE SaleInv'
    OBVIOUS
<1>1. CASE Sale!Post
    BY <1>1, PostStep
<1>2. CASE Sale!Correct(Sale!Whole)
    <2>1. \A l \in Lines : line[l].gross \in Nat \ {0}
        BY DEF SaleInv, SaleSound, Sale!DataSound
    <2>2. DOMAIN Sale!Whole = Lines /\ \A l \in DOMAIN Sale!Whole : Sale!Whole[l] \in 1 .. line[l].gross
        BY <2>1 DEF Sale!Whole
    <2>. QED BY <1>2, <2>2, CorrectStep
<1>3. ASSUME NEW l \in Lines, NEW a \in 1 .. line[l].gross, Sale!Correct([k \in {l} |-> a])
      PROVE  SaleInv'
    <2>. DEFINE amounts == [k \in {l} |-> a]
    <2>1. DOMAIN amounts \subseteq Lines /\ \A k \in DOMAIN amounts : amounts[k] \in 1 .. line[k].gross
        OBVIOUS
    <2>2. Sale!Correct(amounts)
        BY <1>3
    <2>. HIDE DEF amounts
    <2>. QED BY <2>1, <2>2, CorrectStep
<1>4. CASE UNCHANGED Sale!vars
    BY <1>4 DEF Sale!vars, SaleInv, SaleSound, Sale!GrossOf, AccrualsSound, Progress, ReversalsPaced
<1>. QED BY <1>1, <1>2, <1>3, <1>4 DEF Sale!Next

\* The shares are sound in every state of a sound sale.
LEMMA SharesFollow == Sale!DataSound /\ SaleInv => Sale!SharesSound
<1> SUFFICES ASSUME Sale!DataSound, SaleInv PROVE Sale!SharesSound
    OBVIOUS
<1>1. SaleSound /\ AccrualsSound /\ Progress
    BY DEF SaleInv
<1>2. /\ LinesSound(line, Lines)
      /\ Sale!ServiceLines # {} => LinesSound(line, Sale!ServiceLines)
      /\ Sale!ServiceLines \subseteq Lines
      /\ adjustment \in Int
    BY <1>1, LinesAreSound
<1>3. Sale!TypeOK
    <2>1. \A l \in DOMAIN accrual : accrual[l].basisAmount \in Nat /\ accrual[l].amount \in Nat
        BY <1>1, CommissionNat DEF AccrualsSound, AccrualSound
    <2>. QED BY <1>1, <2>1 DEF Sale!TypeOK, AccrualsSound, Progress
<1>4. Sale!SharesAddUp
    <2> SUFFICES ASSUME Sale!ServiceLines = Lines
                 PROVE  SumFunction([l \in Lines |-> Sale!NetAmount(line, Lines, adjustment, l)])
                          = Sale!GrossOf(line, Lines) + adjustment
        BY SaleSums DEF Sale!SharesAddUp, Sale!ServicesOnly, Sale!Net
    <2>. QED BY <1>2, SharesAreExact
<1>5. Sale!LargerLineKeepsMore
    <2> SUFFICES ASSUME NEW k \in Sale!ServiceLines, NEW l \in Sale!ServiceLines,
                        Sale!GrossOf(line, Sale!ServiceLines) + adjustment >= 0, line[k].gross >= line[l].gross
                 PROVE  \/ Sale!Net(k) >= Sale!Net(l)
                        \/ line[k].gross = line[l].gross /\ line[k].order > line[l].order
        BY DEF Sale!LargerLineKeepsMore
    <2>1. LinesSound(line, Sale!ServiceLines)
        BY <1>2
    <2>. QED BY <1>2, <2>1, LargerKeepsMore DEF Sale!Net
<1>6. Sale!ServiceSalesPost
    <2> SUFFICES ASSUME Sale!ServiceLines = Lines, NEW l \in Lines
                 PROVE  Sale!BasisOf(l) >= 0
        BY DEF Sale!ServiceSalesPost, Sale!ServicesOnly, Sale!Accruable
    <2>1. Sale!GrossOf(line, Lines) \in Nat /\ Sale!GrossOf(line, Lines) + adjustment > 0
        BY <1>1, <1>2, GrossPositive DEF SaleSound
    <2>2. Sale!GrossOf(line, Lines) + adjustment >= 0
        BY <1>2, <2>1
    <2>3. Sale!NetAmount(line, Lines, adjustment, l) \in Nat
        BY <1>2, <2>2, NetNotNegative
    <2>4. line[l].gross \in Nat
        BY <1>2 DEF LinesSound
    <2>. QED BY <2>3, <2>4 DEF Sale!BasisOf
<1>. QED BY <1>3, <1>4, <1>5, <1>6 DEF Sale!SharesSound

\* So does what was taken back follow what was given back.
LEMMA ReversalsFollow == Sale!DataSound /\ SaleInv => Sale!ReversalsSound
<1> SUFFICES ASSUME Sale!DataSound, SaleInv, NEW l \in Lines
             PROVE  IF l \in DOMAIN accrual
                    THEN Sale!FollowsShare(accrual[l].amount, reversed[l], refunded[l], line[l].gross, parts[l])
                    ELSE reversed[l] = 0
    BY DEF Sale!ReversalsSound
<1>1. CASE l \in DOMAIN accrual
    <2>1. AccrualSound(accrual[l])
        BY <1>1 DEF SaleInv, AccrualsSound
    <2>2. line[l].gross \in Nat \ {0}
        BY DEF SaleInv, SaleSound, Sale!DataSound
    <2>3. /\ refunded[l] \in Nat /\ reversed[l] \in Nat /\ parts[l] \in Nat
          /\ refunded[l] <= line[l].gross
          /\ parts[l] = 0 => refunded[l] = 0 /\ reversed[l] = 0
        BY DEF SaleInv, Progress
    <2>4. /\ reversed[l] <= accrual[l].amount
          /\ RowPaced(accrual[l], line[l].gross, refunded[l], reversed[l], parts[l])
        BY <1>1 DEF SaleInv, ReversalsPaced
    <2>. QED BY <1>1, <2>1, <2>2, <2>3, <2>4, PacedFollows
<1>2. CASE l \notin DOMAIN accrual
    BY <1>2 DEF SaleInv, ReversalsPaced
<1>. QED BY <1>1, <1>2

-----------------------------------------------------------------------------
(* The two components side by side.                                        *)

\* While a sale moves, its invariant holds.
SaleMoves == part \in {"rules", "sale"} /\ (part = "sale" => SaleInv)

\* Hence it always holds.
LEMMA SaleInvariant == EitherSpec => []SaleMoves
<1>1. EitherInit => SaleMoves
    BY InitSound, SaleAssumption DEF EitherInit, SaleMoves
<1>2. SaleMoves /\ [EitherNext]_<<part, vars, sale>> => SaleMoves'
    <2> SUFFICES ASSUME SaleMoves, [EitherNext]_<<part, vars, sale>> PROVE SaleMoves'
        OBVIOUS
    <2>1. CASE part = "sale" /\ Sale!Next
        <3>1. part' = part /\ SaleInv'
            BY <2>1, NextKeepsSale, SaleAssumption DEF SaleMoves, EitherNext
        <3> QED BY <3>1 DEF SaleMoves
    <2>2. CASE part = "sale" /\ UNCHANGED sale
        <3>1. part' = part /\ UNCHANGED Sale!vars
            BY <2>2 DEF EitherNext, sale, Sale!vars
        <3>2. SaleInv'
            BY <2>2, <3>1, NextKeepsSale, SaleAssumption DEF SaleMoves
        <3> QED BY <3>1, <3>2 DEF SaleMoves
    <2>3. CASE part = "rules"
        BY <2>3 DEF SaleMoves, EitherNext
    <2> QED BY <2>1, <2>2, <2>3 DEF SaleMoves, EitherNext, sale
<1>. QED BY <1>1, <1>2, PTL DEF EitherSpec

\* A discount or surcharge of any size is shared out to the last unit among any
\* number of service lines, never turns the order of two prices around, and never
\* blocks the posting of a sale of services
\* (commission-adjustment-allocation.util.ts:23-78).
THEOREM AdjustmentsAreShared == EitherSpec => []SharesSound
<1>1. SaleMoves => SharesSound
    BY SharesFollow, SaleAssumption DEF SaleMoves, SharesSound
<1>. QED BY <1>1, SaleInvariant, PTL

\* However many corrections take back however much of a sale, in whatever parts,
\* the commission reversed of each line is never more than the one earned, is the
\* share of the money given back to within two minor units a part, and once the
\* line was given back whole in n parts fewer than n minor units of it are left:
\* none, when it was given back at once (commission-adjustment.service.ts:59-90).
THEOREM ReversalsStayWithin == EitherSpec => []ReversalsSound
<1>1. SaleMoves => ReversalsSound
    BY ReversalsFollow, SaleAssumption DEF SaleMoves, ReversalsSound
<1>. QED BY <1>1, SaleInvariant, PTL

\* A behaviour of the two is one of the rules, whose theorems therefore hold of it.
THEOREM RulesAreThere == EitherSpec => Spec
<1>1. EitherInit => Init
    BY DEF EitherInit, RulesAtRest
<1>2. [EitherNext]_<<part, vars, sale>> => [Next]_vars
    BY DEF EitherNext
<1>. QED BY <1>1, <1>2, PTL DEF EitherSpec, Spec
=============================================================================
