-------------------------- MODULE CommissionRules --------------------------
(***************************************************************************)
(* The versioned commission rules of an organization, and which of them    *)
(* the posting of a sale applies.  A rule is created at a scope, and stops *)
(* being current when it is superseded or deactivated; both commands read  *)
(* the row without a lock and commit one conditional UPDATE on its version.*)
(* A sale is posted at the current time and matches the rules whose        *)
(* window [from, until) contains it.                                       *)
(*                                                                         *)
(* A scope is a record of a branch, a staff profile and a service, each of *)
(* which may be Wildcard; the context of a sale's line names all three.    *)
(* Of a rule's terms only its currency decides whether it can apply: a     *)
(* FIXED rule has one, every other rule has Wildcard.                      *)
(***************************************************************************)
EXTENDS Integers, FiniteSets

CONSTANTS
    Ids,       \* identifiers of commission rules
    Requests,  \* HTTP requests that may be in flight at the same time
    Branches, Staff, Services,  \* what a scope may name
    Scopes,    \* scopes rules are created at
    Currencies,  \* currencies of sales
    FixedIn,     \* currencies of the rules created (Wildcard: not a FIXED rule)
    MaxTime,   \* bound: the last instant considered
    Wildcard,    \* a null scope column
    Never,     \* a null effective_until or deactivated_at
    NoRule     \* no rule: a null supersedes_rule_id, or no policy at all

ASSUME ScopeAssumption ==
    /\ Wildcard \notin Branches \cup Staff \cup Services \cup Currencies
    /\ Scopes \subseteq [branch : Branches \cup {Wildcard}, staff : Staff \cup {Wildcard},
                         service : Services \cup {Wildcard}]

\* The null values are no identifiers and no instants.
ASSUME TimeAssumption == MaxTime \in Nat /\ Never \notin Nat /\ NoRule \notin Ids

VARIABLES
    rule,      \* table commission_rules
    inflight,  \* supersede and deactivate requests between read and update
    now,       \* the clock
    posted     \* the last line posted: its context, when, and the rule applied

vars == <<rule, inflight, now, posted>>
-----------------------------------------------------------------------------
Time == 0 .. MaxTime
RuleRow == [scope : Scopes, currency : FixedIn, from : Time, until : Time \cup {Never},
            deactivated : Time \cup {Never}, version : 1 .. 2, supersedes : Ids \cup {NoRule}]
Contexts == [branch : Branches, staff : Staff, service : Services, currency : Currencies]

Insert(table, id, row) ==
    [i \in DOMAIN table \cup {id} |-> IF i = id THEN row ELSE table[i]]

Begin(r, request) == r \notin DOMAIN inflight /\ inflight' = Insert(inflight, r, request)
End(r) == inflight' = [q \in DOMAIN inflight \ {r} |-> inflight[q]]
Is(r, op) == r \in DOMAIN inflight /\ inflight[r].op = op

\* Neither superseded nor deactivated: what the partial unique index covers.
Current(row) == row.until = Never /\ row.deactivated = Never
CurrentIds == {i \in DOMAIN rule : Current(rule[i])}

ScopeTaken(scope) == \E i \in CurrentIds : rule[i].scope = scope
-----------------------------------------------------------------------------
(* CommissionRulesService.                                                 *)

\* Mutant: no index forbids a second rule of a scope.
ScopeValid(scope) == scope \in Scopes

\* The index commission_rules_current_scope_key.
ScopeFree(scope) == ~ScopeTaken(scope)

Create(i, scope, currency, from) ==
    /\ i \notin DOMAIN rule
    /\ ScopeFree(scope)
    /\ rule' = Insert(rule, i, [scope |-> scope, currency |-> currency, from |-> from, until |-> Never,
                  deactivated |-> Never, version |-> 1, supersedes |-> NoRule])
    /\ UNCHANGED <<inflight, now, posted>>

BeginSupersede(r, i, currency, from) ==
    /\ i \in CurrentIds
    /\ Begin(r, [op |-> "supersede", rule |-> i, seen |-> rule[i].version,
                from |-> from, currency |-> currency])
    /\ UNCHANGED <<rule, now, posted>>

BeginDeactivate(r, i) ==
    /\ i \in CurrentIds
    /\ Begin(r, [op |-> "deactivate", rule |-> i, seen |-> rule[i].version])
    /\ UNCHANGED <<rule, now, posted>>

\* updateMany ... where version; and the CHECK on the effective window.
StillCurrent(q) == q.seen = rule[q.rule].version
WindowProper(q) == q.from > rule[q.rule].from

\* The old rule ends at the instant the new one starts.
CommitSupersede(r, i) ==
    /\ Is(r, "supersede")
    /\ i \notin DOMAIN rule
    /\ LET q == inflight[r] old == q.rule IN
       /\ StillCurrent(q)
       /\ WindowProper(q)
       /\ rule' = Insert([rule EXCEPT ![old].until = q.from, ![old].version = @ + 1], i,
              [scope |-> rule[old].scope, currency |-> q.currency, from |-> q.from, until |-> Never,
               deactivated |-> Never, version |-> 1, supersedes |-> old])
    /\ End(r)
    /\ UNCHANGED <<now, posted>>

CommitDeactivate(r) ==
    /\ Is(r, "deactivate")
    /\ LET q == inflight[r] IN
       /\ StillCurrent(q)
       /\ rule' = [rule EXCEPT ![q.rule].deactivated = now, ![q.rule].version = @ + 1]
    /\ End(r)
    /\ UNCHANGED <<now, posted>>

\* A request that lost its version, met a constraint, or whose server died.
Abandon(r) ==
    /\ r \in DOMAIN inflight
    /\ End(r)
    /\ UNCHANGED <<rule, now, posted>>
-----------------------------------------------------------------------------
(* Posting a line (accrueForTransaction, selectMostSpecificRule).          *)

EffectiveAt(row, t) == row.from <= t /\ (row.until = Never \/ row.until > t)

Matches(row, context) ==
    /\ row.scope.branch \in {Wildcard, context.branch}
    /\ row.scope.staff \in {Wildcard, context.staff}
    /\ row.scope.service \in {Wildcard, context.service}
    /\ row.currency \in {Wildcard, context.currency}

\* Mutant: every column counts the same.
FewestColumns(scope) ==
    (IF scope.staff # Wildcard THEN 1 ELSE 0) + (IF scope.service # Wildcard THEN 1 ELSE 0)
      + (IF scope.branch # Wildcard THEN 1 ELSE 0)

Score(scope) ==
    (IF scope.staff # Wildcard THEN 4 ELSE 0) + (IF scope.service # Wildcard THEN 2 ELSE 0)
      + (IF scope.branch # Wildcard THEN 1 ELSE 0)

Candidates(context) ==
    {i \in DOMAIN rule : EffectiveAt(rule[i], now) /\ Matches(rule[i], context)}

\* The first candidate with the highest score; the query that lists them has
\* no order, so of two as specific either may come first.
MostSpecific(context) ==
    {i \in Candidates(context) :
        \A j \in Candidates(context) : Score(rule[j].scope) <= Score(rule[i].scope)}

Post(context) ==
    /\ \E i \in IF MostSpecific(context) = {} THEN {NoRule} ELSE MostSpecific(context) :
          posted' = [context |-> context, at |-> now, rule |-> i]
    /\ UNCHANGED <<rule, inflight, now>>

Tick == now < MaxTime /\ now' = now + 1 /\ UNCHANGED <<rule, inflight, posted>>

Init ==
    /\ rule = [i \in {} |-> 0]
    /\ inflight = [r \in {} |-> 0]
    /\ now = 0
    /\ posted \in [context : Contexts, at : {0}, rule : {NoRule}]

Next ==
    \/ \E i \in Ids, s \in Scopes, c \in FixedIn, t \in Time : Create(i, s, c, t)
    \/ \E r \in Requests, i \in Ids, c \in FixedIn, t \in Time : BeginSupersede(r, i, c, t)
    \/ \E r \in Requests, i \in Ids : BeginDeactivate(r, i) \/ CommitSupersede(r, i)
    \/ \E r \in Requests : CommitDeactivate(r) \/ Abandon(r)
    \/ \E c \in Contexts : Post(c)
    \/ Tick

Spec == Init /\ [][Next]_vars
-----------------------------------------------------------------------------
(* Properties.                                                             *)

\* Every row has the columns of its table and a proper window.
TypeOK ==
    /\ DOMAIN rule \subseteq Ids
    /\ \A i \in DOMAIN rule :
          /\ rule[i] \in RuleRow
          /\ rule[i].until # Never => rule[i].from < rule[i].until
          /\ rule[i].supersedes \in DOMAIN rule \cup {NoRule}
    /\ DOMAIN inflight \subseteq Requests
    /\ \A r \in DOMAIN inflight :
          /\ inflight[r].rule \in DOMAIN rule
          /\ inflight[r].seen <= rule[inflight[r].rule].version
    /\ now \in Time

\* However requests race, a scope never has two current rules.
OneCurrentPerScope ==
    \A i, j \in CurrentIds : rule[i].scope = rule[j].scope => i = j

\* The windows of a rule and of the one that superseded it meet without gap or
\* overlap, at the same scope; a rule is superseded at most once, and never
\* after it was deactivated.
SupersessionSeamless ==
    \A i \in DOMAIN rule : rule[i].supersedes # NoRule =>
        LET old == rule[i].supersedes IN
        /\ rule[old].until = rule[i].from
        /\ rule[old].scope = rule[i].scope
        /\ rule[old].deactivated = Never
        /\ \A j \in DOMAIN rule : rule[j].supersedes = old => j = i

\* As long as nothing was deactivated, at most one rule of a scope applies at any
\* instant: the choice made by a posting depends on no order of rows.
ChoiceUnambiguous ==
    (\A i \in DOMAIN rule : rule[i].deactivated = Never) =>
        \A t \in Time : \A i, j \in DOMAIN rule :
            (EffectiveAt(rule[i], t) /\ EffectiveAt(rule[j], t) /\ rule[i].scope = rule[j].scope)
                => i = j

\* At every instant of any race the rules of a scope form one line without gap,
\* overlap or fork, from which a posting can choose one
\* (commission-rules.service.ts:94-200).
RulesFormOneLine ==
    TypeOK /\ OneCurrentPerScope /\ SupersessionSeamless /\ ChoiceUnambiguous

\* Scope s names a column where t does not, at the first of staff, service and
\* branch in which they differ, or differs in none.
NoLessSpecific(s, t) ==
    LET Names(scope, column) == scope[column] # Wildcard
        Same(column) == Names(s, column) = Names(t, column) IN
    /\ Names(t, "staff") => Names(s, "staff")
    /\ Same("staff") /\ Names(t, "service") => Names(s, "service")
    /\ Same("staff") /\ Same("service") /\ Names(t, "branch") => Names(s, "branch")

\* The eight levels of precedence: a rule for the line's staff member beats every
\* rule that is not, then one for its service, then one for its branch; and a
\* line some rule matches is never posted without one.
PrecedenceKept ==
    [][posted' # posted =>
         \A j \in Candidates(posted'.context) :
             posted'.rule # NoRule /\ NoLessSpecific(rule[posted'.rule].scope, rule[j].scope)]_vars

\* What the documents say and the code does not do.

\* docs/API_SPEC.md section 20: deactivate closes the rule with no replacement - so
\* no sale posted later is paid by it.
DeactivatedNotApplied ==
    posted.rule # NoRule =>
        (rule[posted.rule].deactivated = Never \/ rule[posted.rule].deactivated >= posted.at)
=============================================================================
