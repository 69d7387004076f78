---------------------------- MODULE AccessProofs ----------------------------
(***************************************************************************)
(* What holds of the two ways in, for every value of the constants: of     *)
(* signing in by a code sent by email (EmailOtp) and of becoming a member  *)
(* of an organization (Memberships).  No statement of the first runs in a  *)
(* transaction and the second counts seats in two statements, so the       *)
(* limits hold up to what may race: the invariants count it at the steps   *)
(* where it does.                                                          *)
(***************************************************************************)
EXTENDS EmailOtp, Memberships, FiniteSetTheorems, TLAPS

-----------------------------------------------------------------------------
(* EmailOtp: the inductive invariant.                                      *)

\* The rows of the tables, as TypeOK has them.
CodeRow == [email : Email \cup {None}, attempts : Nat, delivered : BOOLEAN, lapsed : BOOLEAN,
            status : {"none", "ACTIVE", "CONSUMED", "INVALIDATED", "LOCKED"}]
ReqRow == [pc : {"idle", "find", "replace", "create", "send", "consume", "user", "save",
                 "identity", "session", "wrong", "lock"},
           email : Email \cup {None}, challenge : Challenge \cup {None},
           seen : Challenge \cup {None} \cup BOOLEAN]

\* The challenges created.
Created == {c \in Challenge : challenge[c].status # "none"}

\* What a request that knows the challenges K relies on.
AskSound(x, K) ==
    /\ x.pc \in {"find", "replace", "create", "consume", "user", "save", "identity", "session"} =>
          x.email \in Email
    /\ x.pc = "replace" => x.seen \in K
    /\ x.pc \in {"send", "consume", "user", "save", "identity", "session", "wrong", "lock"} =>
          x.challenge \in K

AsksSound == \A r \in Request : AskSound(req[r], Created)

CodesSound == \A c \in Challenge :
    /\ challenge[c].status = "none" => challenge[c] = Absent
    /\ challenge[c].status # "none" => challenge[c].email \in Email

\* The requests past the consumption of a code.
Past == {"user", "save", "identity", "session"}
Holders(c) == {r \in Request : req[r].pc \in Past /\ req[r].challenge = c}

\* A code that was not consumed signed nobody in and nobody is being signed in
\* with it; one that was is the business of one request, until that one is done.
UsedSoundly == \A c \in Challenge :
    /\ challenge[c].status \in {"none", "ACTIVE"} => signIns[c] = 0 /\ Holders(c) = {}
    /\ \/ signIns[c] = 0 /\ \A r, q \in Holders(c) : r = q
       \/ signIns[c] = 1 /\ Holders(c) = {}

\* Every attempt past the last one allowed left a request about to lock the
\* code; a request counts one attempt at a time.
AttemptsSound == \A c \in Challenge :
    /\ Active(c) => challenge[c].attempts < MaxAttempts + Cardinality(At("lock", c))
    /\ challenge[c].attempts + Cardinality(At("wrong", c)) < MaxAttempts + Cardinality(Request)

\* The requests between the count of the codes of an address and the next code.
Asking(e) == {r \in Request : req[r].pc \in {"find", "replace", "create"} /\ req[r].email = e}
LimitsSound == \A e \in Email :
    Cardinality(CodesOf(e)) + Cardinality(Asking(e)) < EmailLimit + Cardinality(Request)

OtpInv == TypeOK /\ AsksSound /\ CodesSound /\ UsedSoundly /\ AttemptsSound /\ LimitsSound
-----------------------------------------------------------------------------
(* EmailOtp: the sets of requests.                                         *)

\* Where the requests are after one of them moved.
LEMMA HoldersAfter ==
    ASSUME TypeOK, NEW r \in Request, NEW new, req' = [req EXCEPT ![r] = new], NEW c
    PROVE  Holders(c)' = (Holders(c) \ {r})
                 \cup (IF new.pc \in Past /\ new.challenge = c THEN {r} ELSE {})
<1>1. req'[r] = new /\ \A q \in Request \ {r} : req'[q] = req[q]
  BY DEF TypeOK
<1> QED BY <1>1 DEF Holders

\* Likewise the requests at one of the two steps of a wrong code.
LEMMA AtAfter ==
    ASSUME TypeOK, NEW r \in Request, NEW new, req' = [req EXCEPT ![r] = new], NEW c
    PROVE  /\ At("wrong", c)' = (At("wrong", c) \ {r})
                 \cup (IF new.pc = "wrong" /\ new.challenge = c THEN {r} ELSE {})
           /\ At("lock", c)' = (At("lock", c) \ {r})
                 \cup (IF new.pc = "lock" /\ new.challenge = c THEN {r} ELSE {})
<1>1. req'[r] = new /\ \A q \in Request \ {r} : req'[q] = req[q]
  BY DEF TypeOK
<1> QED BY <1>1 DEF At

\* Likewise the requests for a code of an address.
LEMMA AskingAfter ==
    ASSUME TypeOK, NEW r \in Request, NEW new, req' = [req EXCEPT ![r] = new], NEW e
    PROVE  Asking(e)' = (Asking(e) \ {r})
                 \cup (IF new.pc \in {"find", "replace", "create"} /\ new.email = e THEN {r} ELSE {})
<1>1. req'[r] = new /\ \A q \in Request \ {r} : req'[q] = req[q]
  BY DEF TypeOK
<1> QED BY <1>1 DEF Asking

\* The sets counted are finite.
LEMMA SetsFinite ==
    /\ \A c : /\ IsFiniteSet(At("wrong", c)) /\ IsFiniteSet(At("lock", c))
              /\ Cardinality(At("wrong", c)) \in Nat /\ Cardinality(At("lock", c)) \in Nat
    /\ \A e : /\ IsFiniteSet(Asking(e)) /\ Cardinality(Asking(e)) \in Nat
              /\ IsFiniteSet(CodesOf(e)) /\ Cardinality(CodesOf(e)) \in Nat
    /\ IsFiniteSet(Request) /\ Cardinality(Request) \in Nat \ {0}
<1>1. IsFiniteSet(Request) /\ IsFiniteSet(Challenge) /\ Request # {}
  BY OtpAssumption
<1>2. \A c : At("wrong", c) \in SUBSET Request /\ At("lock", c) \in SUBSET Request
  BY DEF At
<1>3. \A e : Asking(e) \in SUBSET Request /\ CodesOf(e) \in SUBSET Challenge
  BY DEF Asking, CodesOf
<1>4. \A S \in SUBSET Request : IsFiniteSet(S) /\ Cardinality(S) \in Nat
  BY <1>1, FS_Subset, FS_CardinalityType
<1>5. \A S \in SUBSET Challenge : IsFiniteSet(S) /\ Cardinality(S) \in Nat
  BY <1>1, FS_Subset, FS_CardinalityType
<1>6. Cardinality(Request) \in Nat \ {0}
  BY <1>1, <1>4, FS_EmptySet
<1> QED BY <1>1, <1>2, <1>3, <1>4, <1>5, <1>6

\* Two sets of requests that have none in common.
LEMMA DisjointWithin ==
    ASSUME NEW R, IsFiniteSet(R), NEW W \in SUBSET R, NEW L \in SUBSET R, W \cap L = {}
    PROVE  /\ Cardinality(W) \in Nat /\ Cardinality(L) \in Nat
           /\ Cardinality(W) + Cardinality(L) <= Cardinality(R)
<1>1. IsFiniteSet(W) /\ IsFiniteSet(L)
  BY FS_Subset
<1>2. Cardinality(W \cup L) = Cardinality(W) + Cardinality(L) - Cardinality(W \cap L)
  BY <1>1, FS_Union
<1>3. Cardinality(W \cap L) = 0
  BY FS_EmptySet
<1>4. Cardinality(W \cup L) <= Cardinality(R)
  BY FS_Subset
<1>5. Cardinality(W) \in Nat /\ Cardinality(L) \in Nat
  BY <1>1, FS_CardinalityType
<1> QED BY <1>2, <1>3, <1>4, <1>5

\* A set that lost or gained one element.
LEMMA FewerOrMore ==
    ASSUME NEW S, NEW T, IsFiniteSet(S), IsFiniteSet(T)
    PROVE  /\ T \subseteq S => Cardinality(T) <= Cardinality(S)
           /\ \A x : x \in S /\ T = S \ {x} => Cardinality(T) = Cardinality(S) - 1
           /\ \A x : x \notin S /\ T = S \cup {x} => Cardinality(T) = Cardinality(S) + 1
<1>1. T \subseteq S => Cardinality(T) <= Cardinality(S)
  BY FS_Subset
<1>2. ASSUME NEW x \in S, T = S \ {x} PROVE Cardinality(T) = Cardinality(S) - 1
  BY <1>2, FS_RemoveElement
<1>3. ASSUME NEW x, x \notin S, T = S \cup {x} PROVE Cardinality(T) = Cardinality(S) + 1
  BY <1>3, FS_AddElement
<1> QED BY <1>1, <1>2, <1>3
-----------------------------------------------------------------------------
(* EmailOtp: what most steps keep.                                         *)

\* Requests stay sound when one of them moves soundly and no code disappears.
LEMMA AsksKept ==
    ASSUME TypeOK, AsksSound, NEW r \in Request, NEW new \in ReqRow, req' = [req EXCEPT ![r] = new],
           Created \subseteq Created', NEW K, K = Created', AskSound(new, K)
    PROVE  req' \in [Request -> ReqRow] /\ AsksSound'
<1>1. req \in [Request -> ReqRow]
  BY DEF TypeOK, ReqRow
<1>2. req' \in [Request -> ReqRow]
  BY <1>1
<1>3. \A q \in Request : req'[q] = new \/ req'[q] = req[q]
  BY <1>1
<1>4. \A q \in Request : AskSound(req[q], Created)
  BY DEF AsksSound
<1>5. \A q \in Request : AskSound(req'[q], K)
  BY <1>3, <1>4 DEF AskSound
<1>6. \A q \in Request : AskSound(req'[q], Created')
  BY <1>5
<1>7. AsksSound'
  BY <1>6 DEF AsksSound
<1> QED BY <1>2, <1>7

\* The rows of the codes after an update or a creation of one.
LEMMA CodesKept ==
    ASSUME TypeOK, CodesSound, NEW c \in Challenge, NEW row \in CodeRow,
           challenge' = [challenge EXCEPT ![c] = row], row.status # "none", row.email \in Email
    PROVE  /\ challenge' \in [Challenge -> CodeRow] /\ CodesSound'
           /\ challenge'[c] = row /\ \A d \in Challenge \ {c} : challenge'[d] = challenge[d]
           /\ Created' = Created \cup {c}
<1>1. challenge \in [Challenge -> CodeRow]
  BY DEF TypeOK, CodeRow
<1>2. /\ challenge' \in [Challenge -> CodeRow]
      /\ challenge'[c] = row /\ \A d \in Challenge \ {c} : challenge'[d] = challenge[d]
  BY <1>1
<1>3. CodesSound'
  BY <1>2 DEF CodesSound, Absent
<1>4. Created' = Created \cup {c}
  BY <1>2 DEF Created
<1> QED BY <1>2, <1>3, <1>4

\* A code stays used once when no request moves past its consumption.
LEMMA UsedKept ==
    ASSUME TypeOK, UsedSoundly, NEW r \in Request, NEW new, req' = [req EXCEPT ![r] = new],
           signIns' = signIns,
           new.pc \in Past => req[r].pc \in Past /\ new.challenge = req[r].challenge,
           \A c \in Challenge : challenge'[c].status \in {"none", "ACTIVE"} =>
                                   challenge[c].status \in {"none", "ACTIVE"}
    PROVE  UsedSoundly'
<1>1. \A c : Holders(c)' \subseteq Holders(c)
  BY HoldersAfter DEF Holders
<1>2. ASSUME NEW c \in Challenge
      PROVE  /\ challenge'[c].status \in {"none", "ACTIVE"} => signIns'[c] = 0 /\ Holders(c)' = {}
             /\ \/ signIns'[c] = 0 /\ \A x, y \in Holders(c)' : x = y
                \/ signIns'[c] = 1 /\ Holders(c)' = {}
  <2>1. /\ challenge[c].status \in {"none", "ACTIVE"} => signIns[c] = 0 /\ Holders(c) = {}
        /\ \/ signIns[c] = 0 /\ \A x, y \in Holders(c) : x = y
           \/ signIns[c] = 1 /\ Holders(c) = {}
    BY DEF UsedSoundly
  <2>2. Holders(c)' \subseteq Holders(c)
    BY <1>1
  <2> QED BY <2>1, <2>2
<1> QED BY <1>2 DEF UsedSoundly

\* The attempts stay within their limit when no attempt is counted.
LEMMA AttemptsKept ==
    ASSUME TypeOK, AttemptsSound, NEW r \in Request, NEW new, req' = [req EXCEPT ![r] = new],
           \A c \in Challenge :
              /\ challenge'[c].attempts = challenge[c].attempts
              /\ challenge[c].attempts \in Nat
              /\ challenge'[c].status = "ACTIVE" => challenge[c].status = "ACTIVE"
                                                    \/ challenge[c].attempts = 0
              /\ challenge'[c].status = "ACTIVE" /\ req[r].pc = "lock" /\ req[r].challenge = c =>
                    new.pc = "lock" /\ new.challenge = c,
           new.pc = "wrong" => req[r].pc = "wrong" /\ new.challenge = req[r].challenge
    PROVE  AttemptsSound'
<1> SUFFICES ASSUME NEW c \in Challenge
             PROVE  /\ challenge'[c].status = "ACTIVE" =>
                         challenge'[c].attempts < MaxAttempts + Cardinality(At("lock", c)')
                    /\ challenge'[c].attempts + Cardinality(At("wrong", c)')
                         < MaxAttempts + Cardinality(Request)
  BY DEF AttemptsSound, Active
<1>1. /\ challenge[c].status = "ACTIVE" =>
                         challenge[c].attempts < MaxAttempts + Cardinality(At("lock", c))
      /\ challenge[c].attempts + Cardinality(At("wrong", c)) < MaxAttempts + Cardinality(Request)
  BY DEF AttemptsSound, Active
<1>2. /\ At("wrong", c)' = (At("wrong", c) \ {r})
               \cup (IF new.pc = "wrong" /\ new.challenge = c THEN {r} ELSE {})
      /\ At("lock", c)' = (At("lock", c) \ {r})
               \cup (IF new.pc = "lock" /\ new.challenge = c THEN {r} ELSE {})
  <2>1. req'[r] = new /\ \A q \in Request \ {r} : req'[q] = req[q]
    BY DEF TypeOK
  <2> QED BY <2>1 DEF At
<1>3. /\ At("wrong", c)' \subseteq At("wrong", c)
      /\ challenge'[c].status = "ACTIVE" => At("lock", c) \subseteq At("lock", c)'
  BY <1>2 DEF At
<1>4. /\ \A S \in SUBSET Request : IsFiniteSet(S) /\ Cardinality(S) \in Nat
      /\ IsFiniteSet(Request) /\ MaxAttempts \in Nat \ {0} /\ Cardinality(Request) \in Nat
  BY OtpAssumption, FS_Subset, FS_CardinalityType
<1>5. /\ At("wrong", c)' \in SUBSET Request /\ At("lock", c)' \in SUBSET Request
      /\ At("wrong", c) \in SUBSET Request /\ At("lock", c) \in SUBSET Request
  BY DEF At
<1>6. /\ Cardinality(At("wrong", c)') <= Cardinality(At("wrong", c))
      /\ challenge'[c].status = "ACTIVE" => Cardinality(At("lock", c)) <= Cardinality(At("lock", c)')
  BY <1>3, <1>4, <1>5, FewerOrMore
<1>7. /\ Cardinality(At("wrong", c)') \in Nat /\ Cardinality(At("lock", c)') \in Nat
      /\ Cardinality(At("wrong", c)) \in Nat /\ Cardinality(At("lock", c)) \in Nat
  BY <1>4, <1>5
<1>8. challenge'[c].attempts = challenge[c].attempts /\ challenge[c].attempts \in Nat
  OBVIOUS
<1> QED BY <1>1, <1>4, <1>6, <1>7, <1>8

\* The codes stay within their limit when none is created.
LEMMA LimitsKept ==
    ASSUME TypeOK, LimitsSound, NEW r \in Request, NEW new, req' = [req EXCEPT ![r] = new],
           \A c \in Challenge : challenge'[c].email = challenge[c].email,
           new.pc \in {"find", "replace", "create"} =>
              req[r].pc \in {"find", "replace", "create"} /\ new.email = req[r].email
    PROVE  LimitsSound'
<1> SUFFICES ASSUME NEW e \in Email
             PROVE  Cardinality(CodesOf(e)') + Cardinality(Asking(e)') < EmailLimit + Cardinality(Request)
  BY DEF LimitsSound
<1>1. Cardinality(CodesOf(e)) + Cardinality(Asking(e)) < EmailLimit + Cardinality(Request)
  BY DEF LimitsSound
<1>2. CodesOf(e)' = CodesOf(e)
  BY DEF CodesOf
<1>3. Asking(e)' \subseteq Asking(e)
  BY AskingAfter DEF Asking
<1>4. Cardinality(CodesOf(e)) \in Nat /\ IsFiniteSet(Asking(e)) /\ EmailLimit \in Nat
      /\ Cardinality(Request) \in Nat
  BY SetsFinite, OtpAssumption
<1>5. Cardinality(Asking(e)') <= Cardinality(Asking(e)) /\ Cardinality(Asking(e)') \in Nat
      /\ Cardinality(Asking(e)) \in Nat
  BY <1>3, <1>4, FS_Subset, FS_CardinalityType
<1> QED BY <1>1, <1>2, <1>4, <1>5
-----------------------------------------------------------------------------
(* EmailOtp: the rows.                                                     *)

PCs == {"idle", "find", "replace", "create", "send", "consume", "user", "save",
        "identity", "session", "wrong", "lock"}

\* A request at its next step, with what it saw or the code it is about.
Go(x, p) == [x EXCEPT !.pc = p]
GoSeeing(x, p, s) == [x EXCEPT !.pc = p, !.seen = s]
GoWith(x, p, c) == [x EXCEPT !.pc = p, !.challenge = c]

\* A record with a request's fields is a request.
LEMMA ReqRows ==
    ASSUME NEW y, DOMAIN y = {"pc", "email", "challenge", "seen"}, y = [f \in DOMAIN y |-> y[f]],
           y.pc \in PCs, y.email \in Email \cup {None}, y.challenge \in Challenge \cup {None},
           y.seen \in Challenge \cup {None} \cup BOOLEAN
    PROVE  y \in ReqRow
<1>1. y = [pc |-> y.pc, email |-> y.email, challenge |-> y.challenge, seen |-> y.seen]
  OBVIOUS
<1> QED BY <1>1 DEF ReqRow, PCs

\* The fields of a request.
LEMMA ReqFields ==
    ASSUME NEW x \in ReqRow
    PROVE  /\ DOMAIN x = {"pc", "email", "challenge", "seen"}
           /\ x.email \in Email \cup {None} /\ x.challenge \in Challenge \cup {None}
           /\ x.seen \in Challenge \cup {None} \cup BOOLEAN
BY DEF ReqRow

\* A request that moves on.
LEMMA GoRow ==
    ASSUME NEW x \in ReqRow, NEW p \in PCs
    PROVE  /\ Go(x, p) \in ReqRow /\ Go(x, p).pc = p /\ Go(x, p).email = x.email
           /\ Go(x, p).challenge = x.challenge /\ Go(x, p).seen = x.seen
<1> DEFINE y == Go(x, p)
<1>1. /\ DOMAIN y = DOMAIN x /\ y = [f \in DOMAIN y |-> y[f]] /\ y.pc = p /\ y.seen = x.seen
      /\ y.email = x.email /\ y.challenge = x.challenge
  BY ReqFields DEF Go
<1> HIDE DEF y
<1>2. y \in ReqRow
  BY <1>1, ReqFields, ReqRows
<1> QED BY <1>1, <1>2 DEF y

\* A request that moves on with what it has read.
LEMMA GoSeeingRow ==
    ASSUME NEW x \in ReqRow, NEW p \in PCs, NEW s \in Challenge \cup {None} \cup BOOLEAN
    PROVE  /\ GoSeeing(x, p, s) \in ReqRow /\ GoSeeing(x, p, s).pc = p /\ GoSeeing(x, p, s).seen = s
           /\ GoSeeing(x, p, s).email = x.email /\ GoSeeing(x, p, s).challenge = x.challenge
<1> DEFINE y == GoSeeing(x, p, s)
<1>1. /\ DOMAIN y = DOMAIN x /\ y = [f \in DOMAIN y |-> y[f]] /\ y.pc = p /\ y.seen = s
      /\ y.email = x.email /\ y.challenge = x.challenge
  BY ReqFields DEF GoSeeing
<1> HIDE DEF y
<1>2. y \in ReqRow
  BY <1>1, ReqFields, ReqRows
<1> QED BY <1>1, <1>2 DEF y

\* A request that moves on with a code.
LEMMA GoWithRow ==
    ASSUME NEW x \in ReqRow, NEW p \in PCs, NEW c \in Challenge
    PROVE  /\ GoWith(x, p, c) \in ReqRow /\ GoWith(x, p, c).pc = p /\ GoWith(x, p, c).challenge = c
           /\ GoWith(x, p, c).email = x.email
<1> DEFINE y == GoWith(x, p, c)
<1>1. /\ DOMAIN y = DOMAIN x /\ y = [f \in DOMAIN y |-> y[f]] /\ y.pc = p /\ y.seen = x.seen
      /\ y.email = x.email /\ y.challenge = c
  BY ReqFields DEF GoWith
<1> HIDE DEF y
<1>2. y \in ReqRow
  BY <1>1, ReqFields, ReqRows
<1> QED BY <1>1, <1>2 DEF y

\* A request that is over.
LEMMA IdleRow == Idle \in ReqRow /\ Idle.pc = "idle" /\ Idle.email = None /\ Idle.challenge = None
BY DEF Idle, ReqRow

\* The row of a code, written out.
LEMMA CodeRows ==
    ASSUME NEW x \in CodeRow
    PROVE  /\ DOMAIN x = {"email", "attempts", "delivered", "lapsed", "status"}
           /\ x.email \in Email \cup {None} /\ x.attempts \in Nat /\ x.delivered \in BOOLEAN
           /\ x.lapsed \in BOOLEAN
           /\ x.status \in {"none", "ACTIVE", "CONSUMED", "INVALIDATED", "LOCKED"}
BY DEF CodeRow

\* An update of a code's row keeps it a row; what it does not set stays.
LEMMA CodeUpdate ==
    ASSUME NEW x \in CodeRow, NEW y, DOMAIN y = DOMAIN x, y = [f \in DOMAIN y |-> y[f]],
           y.email \in Email \cup {None}, y.attempts \in Nat, y.delivered \in BOOLEAN,
           y.lapsed \in BOOLEAN, y.status \in {"none", "ACTIVE", "CONSUMED", "INVALIDATED", "LOCKED"}
    PROVE  y \in CodeRow
<1>1. DOMAIN y = {"email", "attempts", "delivered", "lapsed", "status"}
  BY CodeRows
<1>2. y = [email |-> y.email, attempts |-> y.attempts, delivered |-> y.delivered,
           lapsed |-> y.lapsed, status |-> y.status]
  BY <1>1
<1> QED BY <1>2 DEF CodeRow
-----------------------------------------------------------------------------
(* EmailOtp: the steps that neither ask, count, consume nor sign in.       *)

\* One request moves on, and no code but one that exists changes, which becomes
\* none the more active.
Quiet(r, new) ==
    /\ req' = [req EXCEPT ![r] = new]
    /\ signIns' = signIns
    /\ AskSound(new, Created)
    /\ new.pc \in Past => req[r].pc \in Past /\ new.challenge = req[r].challenge
    /\ new.pc = "wrong" => req[r].pc = "wrong" /\ new.challenge = req[r].challenge
    /\ new.pc \in {"find", "replace", "create"} =>
          req[r].pc \in {"find", "replace", "create"} /\ new.email = req[r].email
    /\ \A c \in Challenge :
          challenge'[c].status = "ACTIVE" /\ req[r].pc = "lock" /\ req[r].challenge = c =>
              new.pc = "lock" /\ new.challenge = c

Becomes(c, row) ==
    /\ challenge' = [challenge EXCEPT ![c] = row]
    /\ row.email = challenge[c].email
    /\ row.attempts = challenge[c].attempts
    /\ row.status # "none"
    /\ row.status = "ACTIVE" => challenge[c].status = "ACTIVE"

\* A step that moves one request and leaves what is counted alone keeps the invariant.
LEMMA QuietKeeps ==
    ASSUME OtpInv, NEW r \in Request, NEW new \in ReqRow, Quiet(r, new),
           challenge' = challenge \/ \E c \in Created, row \in CodeRow : Becomes(c, row),
           cooling' \subseteq Email, user' \in [Email -> BOOLEAN], identity' \in [Email -> BOOLEAN]
    PROVE  OtpInv'
<1>1. TypeOK /\ AsksSound /\ CodesSound /\ UsedSoundly /\ AttemptsSound /\ LimitsSound
  BY DEF OtpInv
<1>2. challenge \in [Challenge -> CodeRow]
  BY <1>1 DEF TypeOK, CodeRow
<1>3. /\ challenge' \in [Challenge -> CodeRow] /\ CodesSound' /\ Created' = Created
      /\ \A c \in Challenge :
            /\ challenge'[c].email = challenge[c].email
            /\ challenge'[c].attempts = challenge[c].attempts
            /\ challenge'[c].status = "none" => challenge[c].status = "none"
            /\ challenge'[c].status = "ACTIVE" => challenge[c].status = "ACTIVE"
  <2>1. CASE challenge' = challenge
    BY <1>1, <1>2, <2>1 DEF CodesSound, Created
  <2>2. CASE \E c \in Created, row \in CodeRow : Becomes(c, row)
    <3>1. PICK c \in Created, row \in CodeRow : Becomes(c, row)
      BY <2>2
    <3>2. c \in Challenge /\ challenge[c].email \in Email
      BY <1>1 DEF Created, CodesSound
    <3>3. /\ challenge' \in [Challenge -> CodeRow] /\ CodesSound'
          /\ challenge'[c] = row /\ \A d \in Challenge \ {c} : challenge'[d] = challenge[d]
          /\ Created' = Created \cup {c}
      BY <1>1, <3>1, <3>2, CodesKept DEF Becomes
    <3>4. Created' = Created
      BY <3>1, <3>3
    <3> QED BY <3>1, <3>3, <3>4 DEF Becomes
  <2> QED BY <2>1, <2>2
<1>4. req' = [req EXCEPT ![r] = new]
  BY DEF Quiet
<1>5. req' \in [Request -> ReqRow] /\ AsksSound'
  BY <1>1, <1>3, <1>4, AsksKept DEF Quiet
<1>6. UsedSoundly'
  BY <1>1, <1>3, <1>4, UsedKept DEF Quiet
<1>7. AttemptsSound'
  <2>1. \A c \in Challenge : challenge[c].attempts \in Nat
    BY <1>2, CodeRows
  <2>2. \A c \in Challenge :
              /\ challenge'[c].attempts = challenge[c].attempts
              /\ challenge[c].attempts \in Nat
              /\ challenge'[c].status = "ACTIVE" => challenge[c].status = "ACTIVE"
                                                    \/ challenge[c].attempts = 0
              /\ challenge'[c].status = "ACTIVE" /\ req[r].pc = "lock" /\ req[r].challenge = c =>
                    new.pc = "lock" /\ new.challenge = c
    BY <1>3, <2>1 DEF Quiet
  <2>3. new.pc = "wrong" => req[r].pc = "wrong" /\ new.challenge = req[r].challenge
    BY DEF Quiet
  <2> QED BY <1>1, <1>4, <2>2, <2>3, AttemptsKept
<1>8. LimitsSound'
  BY <1>1, <1>3, <1>4, LimitsKept DEF Quiet
<1>9. TypeOK'
  BY <1>1, <1>3, <1>5 DEF TypeOK, CodeRow, ReqRow, Quiet
<1> QED BY <1>3, <1>5, <1>6, <1>7, <1>8, <1>9 DEF OtpInv
-----------------------------------------------------------------------------
(* EmailOtp: the steps.                                                    *)

\* What the invariant says of a request and the tables.
LEMMA Known ==
    ASSUME OtpInv, NEW r \in Request
    PROVE  /\ req[r] \in ReqRow /\ AskSound(req[r], Created)
           /\ challenge \in [Challenge -> CodeRow]
           /\ Created \subseteq Challenge
           /\ \A c \in Created : /\ challenge[c] \in CodeRow /\ challenge[c].status # "none"
                                 /\ challenge[c].email \in Email
           /\ cooling \subseteq Email /\ user \in [Email -> BOOLEAN] /\ identity \in [Email -> BOOLEAN]
<1>1. req \in [Request -> ReqRow] /\ challenge \in [Challenge -> CodeRow]
  BY DEF OtpInv, TypeOK, ReqRow, CodeRow
<1>2. Created \subseteq Challenge /\ \A c \in Created : challenge[c].status # "none"
  BY DEF Created
<1>3. AskSound(req[r], Created)
  BY DEF OtpInv, AsksSound
<1>4. \A c \in Created : challenge[c].email \in Email
  BY <1>2 DEF OtpInv, CodesSound
<1>5. cooling \subseteq Email /\ user \in [Email -> BOOLEAN] /\ identity \in [Email -> BOOLEAN]
  BY DEF OtpInv, TypeOK
<1> QED BY <1>1, <1>2, <1>3, <1>4, <1>5

\* Finding the code in use keeps the invariant.
LEMMA FindKeeps ==
    ASSUME OtpInv, NEW r \in Request, FindActive(r)
    PROVE  OtpInv'
<1>1. /\ req[r] \in ReqRow /\ AskSound(req[r], Created) /\ cooling \subseteq Email
      /\ user \in [Email -> BOOLEAN] /\ identity \in [Email -> BOOLEAN] /\ Created \subseteq Challenge
  BY Known
<1>2. /\ req[r].pc = "find" /\ challenge' = challenge /\ cooling' = cooling /\ user' = user
      /\ identity' = identity /\ signIns' = signIns
  BY DEF FindActive
<1>3. CASE req' = [req EXCEPT ![r].pc = "create"]
  <2> DEFINE new == Go(req[r], "create")
  <2>1. new \in ReqRow /\ new.pc = "create" /\ new.email = req[r].email
    BY <1>1, GoRow DEF PCs
  <2>2. req' = [req EXCEPT ![r] = new]
    BY <1>3 DEF Go
  <2> HIDE DEF new
  <2>3. Quiet(r, new)
    BY <1>1, <1>2, <2>1, <2>2 DEF Quiet, AskSound, Past
  <2> QED BY <1>1, <1>2, <2>1, <2>3, QuietKeeps
<1>4. ASSUME NEW c \in {d \in CodesOf(req[r].email) : Active(d)},
             req' = [req EXCEPT ![r].pc = "replace", ![r].seen = c]
      PROVE  OtpInv'
  <2> DEFINE new == GoSeeing(req[r], "replace", c)
  <2>1. c \in Created /\ c \in Challenge \cup {None} \cup BOOLEAN
    BY DEF CodesOf, Active, Created
  <2>2. new \in ReqRow /\ new.pc = "replace" /\ new.email = req[r].email /\ new.seen = c
    <3>1. "replace" \in PCs /\ req[r] \in ReqRow
      BY <1>1 DEF PCs
    <3> QED BY <2>1, <3>1, GoSeeingRow
  <2>3. req' = [req EXCEPT ![r] = new]
    BY <1>4 DEF GoSeeing
  <2> HIDE DEF new
  <2>4. Quiet(r, new)
    BY <1>1, <1>2, <2>1, <2>2, <2>3 DEF Quiet, AskSound, Past
  <2> QED BY <1>1, <1>2, <2>2, <2>4, QuietKeeps
<1> QED BY <1>3, <1>4 DEF FindActive

\* Withdrawing the code in use keeps the invariant.
LEMMA ReplaceKeeps ==
    ASSUME OtpInv, NEW r \in Request, Replace(r)
    PROVE  OtpInv'
<1> DEFINE new == Go(req[r], "create")
           c == req[r].seen
           row == [challenge[c] EXCEPT !.status = "INVALIDATED"]
<1>1. /\ req[r].pc = "replace" /\ cooling' = cooling /\ user' = user
      /\ identity' = identity /\ signIns' = signIns
  BY DEF Replace
<1>2. /\ req[r] \in ReqRow /\ c \in Created /\ req[r].email \in Email
      /\ cooling \subseteq Email /\ user \in [Email -> BOOLEAN] /\ identity \in [Email -> BOOLEAN]
      /\ challenge[c] \in CodeRow
  BY <1>1, Known DEF AskSound
<1>3. new \in ReqRow /\ new.pc = "create" /\ new.email = req[r].email
  BY <1>2, GoRow DEF PCs
<1>4. req' = [req EXCEPT ![r] = new] /\ challenge' = [challenge EXCEPT ![c] = row]
  BY DEF Replace, Go
<1>5. row \in CodeRow /\ row.email = challenge[c].email /\ row.attempts = challenge[c].attempts
        /\ row.status = "INVALIDATED"
  BY <1>2, CodeRows, CodeUpdate
<1> HIDE DEF new, row, c
<1>6. Quiet(r, new)
  BY <1>1, <1>2, <1>3, <1>4 DEF Quiet, AskSound, Past
<1>7. Becomes(c, row)
  BY <1>4, <1>5 DEF Becomes
<1> QED BY <1>1, <1>2, <1>3, <1>5, <1>6, <1>7, QuietKeeps

\* A request that ends, whether or not it did something to its code.
LEMMA EndKeeps ==
    ASSUME OtpInv, NEW r \in Request, req' = [req EXCEPT ![r] = Idle], signIns' = signIns,
           cooling' = cooling, user' \in [Email -> BOOLEAN], identity' = identity,
           challenge' = challenge \/ \E c \in Created, row \in CodeRow : Becomes(c, row),
           req[r].pc = "lock" => challenge'[req[r].challenge].status # "ACTIVE"
    PROVE  OtpInv'
<1>1. Quiet(r, Idle)
  BY IdleRow DEF Quiet, AskSound, Past
<1>2. cooling \subseteq Email /\ identity \in [Email -> BOOLEAN]
  BY Known
<1> QED BY <1>1, <1>2, IdleRow, QuietKeeps

\* Sending a code, or failing to, keeps the invariant.
LEMMA SendKeeps ==
    ASSUME OtpInv, NEW r \in Request, SendSucceeds(r) \/ SendFails(r)
    PROVE  OtpInv'
<1> DEFINE c == req[r].challenge
<1>1. /\ req[r].pc = "send" /\ cooling' = cooling /\ user' = user
      /\ identity' = identity /\ signIns' = signIns /\ req' = [req EXCEPT ![r] = Idle]
  BY DEF SendSucceeds, SendFails
<1>2. c \in Created /\ challenge[c] \in CodeRow /\ challenge[c].status # "none" /\ user \in [Email -> BOOLEAN]
  BY <1>1, Known DEF AskSound
<1>3. \E row \in CodeRow : Becomes(c, row)
  <2>1. CASE SendSucceeds(r)
    <3> DEFINE row == [challenge[c] EXCEPT !.delivered = TRUE]
    <3>1. /\ DOMAIN row = DOMAIN challenge[c] /\ row = [f \in DOMAIN row |-> row[f]]
          /\ row.email = challenge[c].email /\ row.attempts = challenge[c].attempts
          /\ row.lapsed = challenge[c].lapsed /\ row.status = challenge[c].status
          /\ row.delivered \in BOOLEAN
      BY <1>2, CodeRows
    <3>2. challenge' = [challenge EXCEPT ![c] = row]
      BY <2>1 DEF SendSucceeds
    <3> HIDE DEF row, c
    <3>4. row \in CodeRow
      BY <1>2, <3>1, CodeRows, CodeUpdate
    <3>3. Becomes(c, row)
      BY <1>2, <3>1, <3>2 DEF Becomes
    <3> QED BY <3>3, <3>4
  <2>2. CASE SendFails(r)
    <3>1. PICK arrived \in BOOLEAN :
             challenge' = [challenge EXCEPT
               ![c].delivered = arrived,
               ![c].status = IF @ = "ACTIVE" THEN "INVALIDATED" ELSE @]
      BY <2>2 DEF SendFails
    <3> DEFINE status == IF challenge[c].status = "ACTIVE" THEN "INVALIDATED" ELSE challenge[c].status
               row == [challenge[c] EXCEPT !.delivered = arrived, !.status = status]
    <3>2. status \in {"CONSUMED", "INVALIDATED", "LOCKED"}
      BY <1>2, CodeRows
    <3>3. challenge' = [challenge EXCEPT ![c] = row]
      BY <3>1
    <3> HIDE DEF status
    <3>4. /\ DOMAIN row = DOMAIN challenge[c] /\ row = [f \in DOMAIN row |-> row[f]]
          /\ row.email = challenge[c].email /\ row.attempts = challenge[c].attempts
          /\ row.lapsed = challenge[c].lapsed /\ row.status = status
          /\ row.delivered \in BOOLEAN
      BY <1>2, CodeRows
    <3> HIDE DEF row, c
    <3>5. row \in CodeRow
      BY <1>2, <3>2, <3>4, CodeRows, CodeUpdate
    <3>6. Becomes(c, row)
      BY <1>2, <3>2, <3>3, <3>4 DEF Becomes
    <3> QED BY <3>5, <3>6
  <2> QED BY <2>1, <2>2
<1> HIDE DEF c
<1> QED BY <1>1, <1>2, <1>3, EndKeeps

\* Locking a code keeps the invariant.
LEMMA LockKeeps ==
    ASSUME OtpInv, NEW r \in Request, LockChallenge(r)
    PROVE  OtpInv'
<1> DEFINE c == req[r].challenge
           status == IF challenge[c].status = "ACTIVE" THEN "LOCKED" ELSE challenge[c].status
           row == [challenge[c] EXCEPT !.status = status]
<1>1. /\ req[r].pc = "lock" /\ cooling' = cooling /\ user' = user
      /\ identity' = identity /\ signIns' = signIns /\ req' = [req EXCEPT ![r] = Idle]
  BY DEF LockChallenge
<1>2. /\ c \in Created /\ challenge[c] \in CodeRow /\ challenge[c].status # "none"
      /\ user \in [Email -> BOOLEAN] /\ challenge \in [Challenge -> CodeRow] /\ c \in Challenge
  BY <1>1, Known DEF AskSound
<1>3. status \in {"CONSUMED", "INVALIDATED", "LOCKED"}
  BY <1>2, CodeRows
<1>4. challenge' = [challenge EXCEPT ![c] = row]
  BY DEF LockChallenge
<1> HIDE DEF status
<1>5. row \in CodeRow /\ row.email = challenge[c].email /\ row.attempts = challenge[c].attempts
        /\ row.status = status
  BY <1>2, <1>3, CodeRows, CodeUpdate
<1> HIDE DEF row
<1>6. Becomes(c, row)
  BY <1>3, <1>4, <1>5 DEF Becomes
<1>7. challenge'[c].status # "ACTIVE"
  BY <1>2, <1>3, <1>4, <1>5
<1> QED BY <1>1, <1>2, <1>5, <1>6, <1>7, EndKeeps

\* Time passes.
LEMMA TimeKeeps ==
    ASSUME OtpInv, (\E e \in Email : CooldownEnds(e)) \/ \E c \in Challenge : Expire(c)
    PROVE  OtpInv'
<1>1. PICK r \in Request : TRUE
  BY OtpAssumption
<1> DEFINE new == req[r]
<1>2. /\ req' = req /\ user' = user /\ identity' = identity /\ signIns' = signIns
      /\ cooling' \subseteq cooling
  BY DEF CooldownEnds, Expire
<1>3. /\ new \in ReqRow /\ AskSound(new, Created) /\ challenge \in [Challenge -> CodeRow]
      /\ cooling \subseteq Email /\ user \in [Email -> BOOLEAN] /\ identity \in [Email -> BOOLEAN]
  BY Known
<1>4. req' = [req EXCEPT ![r] = new]
  BY <1>2 DEF OtpInv, TypeOK
<1>5. challenge' = challenge \/ \E c \in Created, row \in CodeRow : Becomes(c, row)
  <2>1. CASE \E e \in Email : CooldownEnds(e)
    BY <2>1 DEF CooldownEnds
  <2>2. CASE \E c \in Challenge : Expire(c)
    <3>1. PICK c \in Challenge : Expire(c)
      BY <2>2
    <3> DEFINE row == [challenge[c] EXCEPT !.lapsed = TRUE]
    <3>2. challenge[c] \in CodeRow /\ challenge[c].status = "ACTIVE" /\ c \in Created
      BY <1>3, <3>1 DEF Expire, Active, Created
    <3>3. /\ DOMAIN row = DOMAIN challenge[c] /\ row = [f \in DOMAIN row |-> row[f]]
          /\ row.email = challenge[c].email /\ row.attempts = challenge[c].attempts
          /\ row.delivered = challenge[c].delivered /\ row.status = challenge[c].status
          /\ row.lapsed \in BOOLEAN
      BY <3>2, CodeRows
    <3>4. challenge' = [challenge EXCEPT ![c] = row]
      BY <3>1 DEF Expire
    <3> HIDE DEF row
    <3>5. row \in CodeRow
      BY <3>2, <3>3, CodeRows, CodeUpdate
    <3>6. Becomes(c, row)
      BY <3>2, <3>3, <3>4 DEF Becomes
    <3> QED BY <3>2, <3>5, <3>6
  <2> QED BY <2>1, <2>2
<1>6. \A c \in Challenge :
          challenge'[c].status = "ACTIVE" /\ req[r].pc = "lock" /\ req[r].challenge = c =>
              new.pc = "lock" /\ new.challenge = c
  OBVIOUS
<1>7. Quiet(r, new)
  BY <1>2, <1>3, <1>4, <1>6 DEF Quiet
<1> HIDE DEF new
<1> QED BY <1>1, <1>2, <1>3, <1>5, <1>7, QuietKeeps

\* The right code, the user, the identity.
LEMMA SignInKeeps ==
    ASSUME OtpInv, NEW r \in Request,
           \/ \E c \in Challenge : SubmitRight(r, c)
           \/ FindUser(r) \/ SaveUser(r) \/ SaveIdentity(r)
    PROVE  OtpInv'
<1>1. /\ req[r] \in ReqRow /\ AskSound(req[r], Created) /\ cooling \subseteq Email
      /\ user \in [Email -> BOOLEAN] /\ identity \in [Email -> BOOLEAN] /\ Created \subseteq Challenge
      /\ \A c \in Created : challenge[c].email \in Email
  BY Known
<1>2. ASSUME NEW c \in Challenge, SubmitRight(r, c) PROVE OtpInv'
  <2> DEFINE new == [Idle EXCEPT !.pc = "consume", !.challenge = c, !.email = challenge[c].email]
  <2>1. c \in Created
    BY <1>2 DEF SubmitRight, Submit, Active, Created
  <2>2. /\ DOMAIN new = {"pc", "email", "challenge", "seen"} /\ new = [f \in DOMAIN new |-> new[f]]
        /\ new.pc = "consume" /\ new.email = challenge[c].email /\ new.challenge = c /\ new.seen = None
    BY DEF Idle
  <2>3. /\ req' = [req EXCEPT ![r] = new] /\ req[r].pc = "idle" /\ challenge' = challenge
        /\ cooling' = cooling /\ user' = user /\ identity' = identity /\ signIns' = signIns
    BY <1>2 DEF SubmitRight, Submit
  <2> HIDE DEF new
  <2>4. new \in ReqRow
    BY <1>1, <2>1, <2>2, ReqRows DEF PCs
  <2>5. Quiet(r, new)
    BY <1>1, <2>1, <2>2, <2>3 DEF Quiet, AskSound, Past
  <2> QED BY <1>1, <2>3, <2>4, <2>5, QuietKeeps
<1>3. ASSUME FindUser(r) PROVE OtpInv'
  <2> DEFINE new == GoSeeing(req[r], "save", user[req[r].email])
  <2>1. /\ req[r].pc = "user" /\ challenge' = challenge
        /\ cooling' = cooling /\ user' = user /\ identity' = identity /\ signIns' = signIns
    BY <1>3 DEF FindUser
  <2>2. /\ req[r].email \in Email /\ req[r].challenge \in Created
        /\ user[req[r].email] \in Challenge \cup {None} \cup BOOLEAN
    BY <1>1, <2>1 DEF AskSound
  <2>3. /\ new \in ReqRow /\ new.pc = "save" /\ new.email = req[r].email
        /\ new.challenge = req[r].challenge
    <3>1. "save" \in PCs /\ req[r] \in ReqRow
      BY <1>1 DEF PCs
    <3> QED BY <2>2, <3>1, GoSeeingRow
  <2>4. req' = [req EXCEPT ![r] = new]
    BY <1>3 DEF FindUser, GoSeeing
  <2> HIDE DEF new
  <2>5. Quiet(r, new)
    BY <1>1, <2>1, <2>2, <2>3, <2>4 DEF Quiet, AskSound, Past
  <2> QED BY <1>1, <2>1, <2>3, <2>5, QuietKeeps
<1>4. ASSUME SaveUser(r) PROVE OtpInv'
  <2>1. /\ req[r].pc = "save" /\ challenge' = challenge
        /\ cooling' = cooling /\ identity' = identity /\ signIns' = signIns
        /\ user' = [user EXCEPT ![req[r].email] = TRUE]
    BY <1>4 DEF SaveUser
  <2>2. req[r].email \in Email /\ req[r].challenge \in Created /\ user' \in [Email -> BOOLEAN]
    BY <1>1, <2>1 DEF AskSound
  <2>3. CASE req' = [req EXCEPT ![r] = Idle]
    BY <1>1, <2>1, <2>2, <2>3, EndKeeps
  <2>4. CASE req' = [req EXCEPT ![r].pc = "identity"]
    <3> DEFINE new == Go(req[r], "identity")
    <3>1. /\ new \in ReqRow /\ new.pc = "identity" /\ new.email = req[r].email
          /\ new.challenge = req[r].challenge
      BY <1>1, <2>2, GoRow DEF PCs
    <3>2. req' = [req EXCEPT ![r] = new]
      BY <2>4 DEF Go
    <3> HIDE DEF new
    <3>3. Quiet(r, new)
      BY <1>1, <2>1, <2>2, <3>1, <3>2 DEF Quiet, AskSound, Past
    <3> QED BY <1>1, <2>1, <2>2, <3>1, <3>3, QuietKeeps
  <2> QED BY <1>4, <2>3, <2>4 DEF SaveUser
<1>5. ASSUME SaveIdentity(r) PROVE OtpInv'
  <2> DEFINE new == Go(req[r], "session")
  <2>1. /\ req[r].pc = "identity" /\ challenge' = challenge
        /\ cooling' = cooling /\ user' = user /\ signIns' = signIns
        /\ identity' = [identity EXCEPT ![req[r].email] = TRUE]
    BY <1>5 DEF SaveIdentity
  <2>2. req[r].email \in Email /\ req[r].challenge \in Created /\ identity' \in [Email -> BOOLEAN]
    BY <1>1, <2>1 DEF AskSound
  <2>3. /\ new \in ReqRow /\ new.pc = "session" /\ new.email = req[r].email
        /\ new.challenge = req[r].challenge
    BY <1>1, <2>2, GoRow DEF PCs
  <2>4. req' = [req EXCEPT ![r] = new]
    BY <1>5 DEF SaveIdentity, Go
  <2> HIDE DEF new
  <2>5. Quiet(r, new)
    BY <1>1, <2>1, <2>2, <2>3, <2>4 DEF Quiet, AskSound, Past
  <2> QED BY <1>1, <2>1, <2>2, <2>3, <2>5, QuietKeeps
<1> QED BY <1>2, <1>3, <1>4, <1>5
-----------------------------------------------------------------------------
(* EmailOtp: the steps that ask, consume, sign in and count.               *)

\* A request is admitted while the codes of the address are below the limit.
LEMMA AskKeeps ==
    ASSUME OtpInv, NEW r \in Request, NEW e \in Email, AskCode(r, e)
    PROVE  OtpInv'
<1> DEFINE new == [Idle EXCEPT !.pc = "find", !.email = e]
<1>1. TypeOK /\ AsksSound /\ CodesSound /\ UsedSoundly /\ AttemptsSound /\ LimitsSound
  BY DEF OtpInv
<1>2. /\ req' = [req EXCEPT ![r] = new] /\ req[r].pc = "idle" /\ challenge' = challenge
      /\ cooling' = cooling /\ user' = user /\ identity' = identity /\ signIns' = signIns
      /\ Cardinality(CodesOf(e)) < EmailLimit
  BY DEF AskCode
<1>3. /\ DOMAIN new = {"pc", "email", "challenge", "seen"} /\ new = [f \in DOMAIN new |-> new[f]]
      /\ new.pc = "find" /\ new.email = e /\ new.challenge = None /\ new.seen = None
  BY DEF Idle
<1> HIDE DEF new
<1>4. new \in ReqRow
  BY <1>3, ReqRows DEF PCs
<1>5. AskSound(new, Created) /\ Created' = Created
  BY <1>2, <1>3 DEF AskSound, Created
<1>6. req' \in [Request -> ReqRow] /\ AsksSound'
  BY <1>1, <1>2, <1>4, <1>5, AsksKept
<1>7. CodesSound'
  BY <1>1, <1>2 DEF CodesSound
<1>8. UsedSoundly'
  BY <1>1, <1>2, <1>3, UsedKept DEF Past
<1>9. AttemptsSound'
  <2>1. \A c \in Challenge : challenge[c].attempts \in Nat
    BY <1>1 DEF TypeOK
  <2>2. req[r].pc # "lock" /\ new.pc # "wrong"
    BY <1>2, <1>3
  <2>3. \A c \in Challenge :
              /\ challenge'[c].attempts = challenge[c].attempts
              /\ challenge[c].attempts \in Nat
              /\ challenge'[c].status = "ACTIVE" => challenge[c].status = "ACTIVE"
                                                    \/ challenge[c].attempts = 0
              /\ challenge'[c].status = "ACTIVE" /\ req[r].pc = "lock" /\ req[r].challenge = c =>
                    new.pc = "lock" /\ new.challenge = c
    BY <1>2, <2>1, <2>2
  <2> QED BY <1>1, <1>2, <2>2, <2>3, AttemptsKept
<1>10. LimitsSound'
  <2>1. SUFFICES ASSUME NEW f \in Email
                 PROVE  Cardinality(CodesOf(f)') + Cardinality(Asking(f)') < EmailLimit + Cardinality(Request)
    BY DEF LimitsSound
  <2>2. CodesOf(f)' = CodesOf(f)
    BY <1>2 DEF CodesOf
  <2>3. Cardinality(CodesOf(f)) \in Nat /\ EmailLimit \in Nat /\ Cardinality(Request) \in Nat
        /\ IsFiniteSet(Request) /\ IsFiniteSet(Asking(f)) /\ Cardinality(Asking(f)) \in Nat
    BY SetsFinite, OtpAssumption
  <2>4. CASE f = e
    <3>1. Asking(f)' \subseteq Request
      BY DEF Asking
    <3>2. Cardinality(Asking(f)') <= Cardinality(Request) /\ Cardinality(Asking(f)') \in Nat
      BY <2>3, <3>1, FS_Subset, FS_CardinalityType
    <3> QED BY <1>2, <2>2, <2>3, <2>4, <3>2
  <2>5. CASE f # e
    <3>1. Asking(f)' = (Asking(f) \ {r})
                 \cup (IF new.pc \in {"find", "replace", "create"} /\ new.email = f THEN {r} ELSE {})
      BY <1>1, <1>2, AskingAfter
    <3>2. Asking(f)' \subseteq Asking(f)
      BY <1>3, <2>5, <3>1
    <3>3. Cardinality(Asking(f)') <= Cardinality(Asking(f)) /\ Cardinality(Asking(f)') \in Nat
      BY <2>3, <3>2, FS_Subset, FS_CardinalityType
    <3>4. Cardinality(CodesOf(f)) + Cardinality(Asking(f)) < EmailLimit + Cardinality(Request)
      BY <1>1 DEF LimitsSound
    <3> QED BY <2>2, <2>3, <3>3, <3>4
  <2> QED BY <2>4, <2>5
<1>11. TypeOK'
  BY <1>1, <1>2, <1>6 DEF TypeOK, CodeRow, ReqRow
<1> QED BY <1>6, <1>7, <1>8, <1>9, <1>10, <1>11 DEF OtpInv

\* A code is created by a request that was counted.
LEMMA CreateKeeps ==
    ASSUME OtpInv, NEW r \in Request, NEW c \in Challenge, Create(r, c)
    PROVE  OtpInv'
<1> DEFINE new == GoWith(req[r], "send", c)
           e == req[r].email
           row == [challenge[c] EXCEPT !.email = e, !.status = "ACTIVE"]
<1>1. TypeOK /\ AsksSound /\ CodesSound /\ UsedSoundly /\ AttemptsSound /\ LimitsSound
  BY DEF OtpInv
<1>2. /\ req[r].pc = "create" /\ challenge[c] = Absent
      /\ cooling' = cooling \cup {e} /\ user' = user /\ identity' = identity /\ signIns' = signIns
  BY DEF Create
<1>3. /\ req[r] \in ReqRow /\ e \in Email /\ challenge \in [Challenge -> CodeRow]
      /\ challenge[c] \in CodeRow
  BY <1>2, Known DEF AskSound
<1>4. req' = [req EXCEPT ![r] = new] /\ challenge' = [challenge EXCEPT ![c] = row]
  BY DEF Create, GoWith
<1>5. new \in ReqRow /\ new.pc = "send" /\ new.email = e /\ new.challenge = c
  <2>1. "send" \in PCs /\ req[r] \in ReqRow
    BY <1>3 DEF PCs
  <2> QED BY <2>1, GoWithRow
<1>6. /\ DOMAIN row = DOMAIN challenge[c] /\ row = [f \in DOMAIN row |-> row[f]]
      /\ row.email = e /\ row.attempts = challenge[c].attempts /\ challenge[c].attempts = 0
      /\ row.delivered = challenge[c].delivered /\ row.status = "ACTIVE"
      /\ row.lapsed = challenge[c].lapsed
  <2>1. challenge[c].attempts = 0
    BY <1>2 DEF Absent
  <2> QED BY <1>3, <2>1, CodeRows
<1>7. challenge[c].status = "none" /\ challenge[c].email = None /\ None \notin Email
  BY <1>2, OtpAssumption DEF Absent
<1> HIDE DEF new, row
<1>8. row \in CodeRow
  BY <1>3, <1>6, CodeRows, CodeUpdate
<1> HIDE DEF e
<1>9. /\ challenge' \in [Challenge -> CodeRow] /\ CodesSound'
      /\ challenge'[c] = row /\ \A d \in Challenge \ {c} : challenge'[d] = challenge[d]
      /\ Created' = Created \cup {c}
  BY <1>1, <1>3, <1>4, <1>6, <1>8, CodesKept
<1>10. req' \in [Request -> ReqRow] /\ AsksSound'
  <2>1. AskSound(new, Created \cup {c}) /\ Created \subseteq Created'
    BY <1>5, <1>9 DEF AskSound
  <2> QED BY <1>1, <1>4, <1>5, <1>9, <2>1, AsksKept
<1>11. UsedSoundly'
  <2>1. \A d \in Challenge : challenge'[d].status \in {"none", "ACTIVE"} =>
                                challenge[d].status \in {"none", "ACTIVE"}
    BY <1>7, <1>9
  <2> QED BY <1>1, <1>2, <1>4, <1>5, <2>1, UsedKept DEF Past
<1>12. AttemptsSound'
  <2>1. \A d \in Challenge : challenge[d].attempts \in Nat
    BY <1>1 DEF TypeOK
  <2>2. req[r].pc # "lock" /\ new.pc # "wrong"
    BY <1>2, <1>5
  <2>3. \A d \in Challenge :
              /\ challenge'[d].attempts = challenge[d].attempts
              /\ challenge[d].attempts \in Nat
              /\ challenge'[d].status = "ACTIVE" => challenge[d].status = "ACTIVE"
                                                    \/ challenge[d].attempts = 0
              /\ challenge'[d].status = "ACTIVE" /\ req[r].pc = "lock" /\ req[r].challenge = d =>
                    new.pc = "lock" /\ new.challenge = d
    BY <1>6, <1>9, <2>1, <2>2
  <2> QED BY <1>1, <1>4, <2>2, <2>3, AttemptsKept
<1>13. LimitsSound'
  <2>1. SUFFICES ASSUME NEW f \in Email
                 PROVE  Cardinality(CodesOf(f)') + Cardinality(Asking(f)') < EmailLimit + Cardinality(Request)
    BY DEF LimitsSound
  <2>2. Cardinality(CodesOf(f)) \in Nat /\ EmailLimit \in Nat /\ Cardinality(Request) \in Nat
        /\ IsFiniteSet(CodesOf(f)) /\ IsFiniteSet(Asking(f)) /\ Cardinality(Asking(f)) \in Nat
    BY SetsFinite, OtpAssumption
  <2>3. Cardinality(CodesOf(f)) + Cardinality(Asking(f)) < EmailLimit + Cardinality(Request)
    BY <1>1 DEF LimitsSound
  <2>4. Asking(f)' = Asking(f) \ {r}
    <3>1. Asking(f)' = (Asking(f) \ {r})
                 \cup (IF new.pc \in {"find", "replace", "create"} /\ new.email = f THEN {r} ELSE {})
      BY <1>1, <1>4, AskingAfter
    <3> QED BY <1>5, <3>1
  <2>5. CASE f = e
    <3>1. CodesOf(f)' = CodesOf(f) \cup {c} /\ c \notin CodesOf(f)
      BY <1>6, <1>7, <1>9, <2>5 DEF CodesOf
    <3>2. r \in Asking(f)
      BY <1>2, <2>5 DEF Asking, e
    <3>3. Cardinality(CodesOf(f)') = Cardinality(CodesOf(f)) + 1
      BY <2>2, <3>1, FS_AddElement
    <3>4. Cardinality(Asking(f)') = Cardinality(Asking(f)) - 1
      BY <2>2, <2>4, <3>2, FS_RemoveElement
    <3> QED BY <2>2, <2>3, <3>3, <3>4
  <2>6. CASE f # e
    <3>1. CodesOf(f)' = CodesOf(f)
      BY <1>6, <1>7, <1>9, <2>6 DEF CodesOf
    <3>2. Asking(f)' \subseteq Asking(f)
      BY <2>4
    <3>3. Cardinality(Asking(f)') <= Cardinality(Asking(f)) /\ Cardinality(Asking(f)') \in Nat
      BY <2>2, <3>2, FS_Subset, FS_CardinalityType
    <3> QED BY <2>2, <2>3, <3>1, <3>3
  <2> QED BY <2>5, <2>6
<1>14. TypeOK'
  BY <1>1, <1>2, <1>3, <1>9, <1>10 DEF TypeOK, CodeRow, ReqRow
<1> QED BY <1>9, <1>10, <1>11, <1>12, <1>13, <1>14 DEF OtpInv

\* A wrong code for one that is active: the attempt will count.
LEMMA WrongKeeps ==
    ASSUME OtpInv, NEW r \in Request, NEW c \in Challenge, SubmitWrong(r, c)
    PROVE  OtpInv'
<1> DEFINE new == [Idle EXCEPT !.pc = "wrong", !.challenge = c, !.email = challenge[c].email]
<1>1. TypeOK /\ AsksSound /\ CodesSound /\ UsedSoundly /\ AttemptsSound /\ LimitsSound
  BY DEF OtpInv
<1>2. /\ req' = [req EXCEPT ![r] = new] /\ req[r].pc = "idle" /\ challenge' = challenge
      /\ cooling' = cooling /\ user' = user /\ identity' = identity /\ signIns' = signIns
      /\ Active(c)
  BY DEF SubmitWrong, Submit
<1>3. c \in Created /\ challenge[c].email \in Email /\ challenge[c].attempts \in Nat
  BY <1>1, <1>2 DEF Active, Created, CodesSound, TypeOK
<1>4. /\ DOMAIN new = {"pc", "email", "challenge", "seen"} /\ new = [f \in DOMAIN new |-> new[f]]
      /\ new.pc = "wrong" /\ new.email = challenge[c].email /\ new.challenge = c /\ new.seen = None
  BY DEF Idle
<1> HIDE DEF new
<1>5. new \in ReqRow
  BY <1>3, <1>4, ReqRows DEF PCs
<1>6. AskSound(new, Created) /\ Created' = Created
  BY <1>2, <1>3, <1>4 DEF AskSound, Created
<1>7. req' \in [Request -> ReqRow] /\ AsksSound'
  BY <1>1, <1>2, <1>5, <1>6, AsksKept
<1>8. CodesSound'
  BY <1>1, <1>2 DEF CodesSound
<1>9. UsedSoundly'
  BY <1>1, <1>2, <1>4, UsedKept DEF Past
<1>10. LimitsSound'
  BY <1>1, <1>2, <1>4, LimitsKept
<1>11. AttemptsSound'
  <2>1. SUFFICES ASSUME NEW d \in Challenge
                 PROVE  /\ Active(d) => challenge[d].attempts < MaxAttempts + Cardinality(At("lock", d)')
                        /\ challenge[d].attempts + Cardinality(At("wrong", d)')
                             < MaxAttempts + Cardinality(Request)
    BY <1>2 DEF AttemptsSound, Active
  <2>2. /\ At("wrong", d)' = (At("wrong", d) \ {r})
                 \cup (IF new.pc = "wrong" /\ new.challenge = d THEN {r} ELSE {})
        /\ At("lock", d)' = (At("lock", d) \ {r})
                 \cup (IF new.pc = "lock" /\ new.challenge = d THEN {r} ELSE {})
    <3>1. TypeOK
      BY <1>1
    <3>2. req' = [req EXCEPT ![r] = new]
      BY <1>2
    <3> QED BY <3>1, <3>2, AtAfter
  <2>3. /\ At("lock", d)' = At("lock", d)
        /\ d # c => At("wrong", d)' = At("wrong", d)
    BY <1>2, <1>4, <2>2 DEF At
  <2>4. /\ Active(d) => challenge[d].attempts < MaxAttempts + Cardinality(At("lock", d))
        /\ challenge[d].attempts + Cardinality(At("wrong", d)) < MaxAttempts + Cardinality(Request)
    BY <1>1 DEF AttemptsSound
  <2>5. CASE d # c
    BY <2>3, <2>4, <2>5
  <2>6. CASE d = c
    <3>1. /\ At("wrong", d)' \in SUBSET Request /\ At("lock", d)' \in SUBSET Request
          /\ At("wrong", d)' \cap At("lock", d)' = {}
      BY DEF At
    <3>2. IsFiniteSet(Request) /\ Cardinality(Request) \in Nat /\ MaxAttempts \in Nat
      BY SetsFinite, OtpAssumption
    <3>3. /\ Cardinality(At("wrong", d)') \in Nat /\ Cardinality(At("lock", d)') \in Nat
          /\ Cardinality(At("wrong", d)') + Cardinality(At("lock", d)') <= Cardinality(Request)
      BY <3>1, <3>2, DisjointWithin
    <3> QED BY <1>2, <1>3, <2>3, <2>4, <2>6, <3>2, <3>3
  <2> QED BY <2>5, <2>6
<1>12. TypeOK'
  BY <1>1, <1>2, <1>7 DEF TypeOK, CodeRow, ReqRow
<1> QED BY <1>7, <1>8, <1>9, <1>10, <1>11, <1>12 DEF OtpInv

\* The attempt counts, and the one that fills the count goes on to lock the code.
LEMMA CountKeeps ==
    ASSUME OtpInv, NEW r \in Request, CountAttempt(r)
    PROVE  OtpInv'
<1> DEFINE c == req[r].challenge
           full == challenge[c].attempts + 1 >= MaxAttempts
           new == IF full THEN Go(req[r], "lock") ELSE Idle
           row == [challenge[c] EXCEPT !.attempts = @ + 1]
<1>1. TypeOK /\ AsksSound /\ CodesSound /\ UsedSoundly /\ AttemptsSound /\ LimitsSound
  BY DEF OtpInv
<1>2. /\ req[r].pc = "wrong" /\ cooling' = cooling /\ user' = user /\ identity' = identity
      /\ signIns' = signIns
  BY DEF CountAttempt
<1>3. /\ req[r] \in ReqRow /\ c \in Created /\ c \in Challenge /\ challenge[c] \in CodeRow
      /\ challenge \in [Challenge -> CodeRow]
      /\ challenge[c].status # "none" /\ challenge[c].email \in Email /\ challenge[c].attempts \in Nat
  BY <1>2, Known, CodeRows DEF AskSound
<1>4. req' = [req EXCEPT ![r] = new] /\ challenge' = [challenge EXCEPT ![c] = row]
  BY DEF CountAttempt, Go
<1>5. /\ new \in ReqRow /\ new.pc = IF full THEN "lock" ELSE "idle"
      /\ full => new.challenge = c
  <2>1. /\ Go(req[r], "lock") \in ReqRow /\ Go(req[r], "lock").pc = "lock"
        /\ Go(req[r], "lock").challenge = c
    BY <1>3, GoRow DEF PCs
  <2> HIDE DEF full
  <2> QED BY <2>1, IdleRow
<1>6. /\ DOMAIN row = DOMAIN challenge[c] /\ row = [f \in DOMAIN row |-> row[f]]
      /\ row.email = challenge[c].email /\ row.attempts = challenge[c].attempts + 1
      /\ row.delivered = challenge[c].delivered /\ row.status = challenge[c].status
      /\ row.lapsed = challenge[c].lapsed
  BY <1>3, CodeRows
<1> HIDE DEF new, row
<1>7. row \in CodeRow
  BY <1>3, <1>6, CodeRows, CodeUpdate
<1>8. /\ challenge' \in [Challenge -> CodeRow] /\ CodesSound'
      /\ challenge'[c] = row /\ \A d \in Challenge \ {c} : challenge'[d] = challenge[d]
      /\ Created' = Created \cup {c}
  <2> HIDE DEF c
  <2> QED BY <1>1, <1>3, <1>4, <1>6, <1>7, CodesKept
<1>9. req' \in [Request -> ReqRow] /\ AsksSound'
  <2>1. AskSound(new, Created) /\ Created' = Created
    BY <1>3, <1>5, <1>8 DEF AskSound
  <2> QED BY <1>1, <1>4, <1>5, <2>1, AsksKept
<1>10. UsedSoundly'
  <2>1. new.pc \notin Past
    BY <1>5 DEF Past
  <2>2. \A d \in Challenge : challenge'[d].status \in {"none", "ACTIVE"} =>
                                challenge[d].status \in {"none", "ACTIVE"}
    BY <1>6, <1>8
  <2> QED BY <1>1, <1>2, <1>4, <2>1, <2>2, UsedKept
<1>11. LimitsSound'
  <2>1. new.pc \notin {"find", "replace", "create"}
    BY <1>5
  <2>2. \A d \in Challenge : challenge'[d].email = challenge[d].email
    BY <1>6, <1>8
  <2> QED BY <1>1, <1>4, <2>1, <2>2, LimitsKept
<1>12. AttemptsSound'
  <2>1. SUFFICES ASSUME NEW d \in Challenge
                 PROVE  /\ challenge'[d].status = "ACTIVE" =>
                             challenge'[d].attempts < MaxAttempts + Cardinality(At("lock", d)')
                        /\ challenge'[d].attempts + Cardinality(At("wrong", d)')
                             < MaxAttempts + Cardinality(Request)
    BY DEF AttemptsSound, Active
  <2>2. /\ At("wrong", d)' = (At("wrong", d) \ {r})
                 \cup (IF new.pc = "wrong" /\ new.challenge = d THEN {r} ELSE {})
        /\ At("lock", d)' = (At("lock", d) \ {r})
                 \cup (IF new.pc = "lock" /\ new.challenge = d THEN {r} ELSE {})
    <3>1. TypeOK
      BY <1>1
    <3>2. req' = [req EXCEPT ![r] = new]
      BY <1>4
    <3> QED BY <3>1, <3>2, AtAfter
  <2>3. /\ challenge[d].status = "ACTIVE" =>
              challenge[d].attempts < MaxAttempts + Cardinality(At("lock", d))
        /\ challenge[d].attempts + Cardinality(At("wrong", d)) < MaxAttempts + Cardinality(Request)
    BY <1>1 DEF AttemptsSound, Active
  <2>4. /\ IsFiniteSet(At("wrong", d)) /\ IsFiniteSet(At("lock", d))
        /\ Cardinality(At("wrong", d)) \in Nat /\ Cardinality(At("lock", d)) \in Nat
        /\ Cardinality(Request) \in Nat /\ MaxAttempts \in Nat \ {0}
    BY SetsFinite, OtpAssumption
  <2>5. CASE d # c
    <3>1. At("lock", d)' = At("lock", d) /\ At("wrong", d)' = At("wrong", d)
      BY <1>2, <1>5, <2>2, <2>5 DEF At
    <3> QED BY <1>8, <2>3, <2>5, <3>1
  <2>6. CASE d = c
    <3>1. At("wrong", d)' = At("wrong", d) \ {r} /\ r \in At("wrong", d)
      BY <1>2, <1>5, <2>2, <2>6 DEF At
    <3>2. Cardinality(At("wrong", d)') = Cardinality(At("wrong", d)) - 1
      BY <2>4, <3>1, FS_RemoveElement
    <3>3. challenge'[d].attempts = challenge[d].attempts + 1 /\ challenge'[d].status = challenge[d].status
          /\ challenge[d].attempts \in Nat
      BY <1>3, <1>6, <1>8, <2>6
    <3>4. CASE full
      <4>1. At("lock", d)' = At("lock", d) \cup {r} /\ r \notin At("lock", d)
        BY <1>2, <1>5, <2>2, <2>6, <3>4 DEF At
      <4>2. Cardinality(At("lock", d)') = Cardinality(At("lock", d)) + 1
        BY <2>4, <4>1, FS_AddElement
      <4> QED BY <2>3, <2>4, <3>2, <3>3, <4>2
    <3>5. CASE ~full
      <4>1. At("lock", d)' = At("lock", d)
        BY <1>2, <1>5, <2>2, <2>6, <3>5 DEF At
      <4> QED BY <2>3, <2>4, <2>6, <3>2, <3>3, <3>5, <4>1
    <3> QED BY <3>4, <3>5
  <2> QED BY <2>5, <2>6
<1>13. TypeOK'
  BY <1>1, <1>2, <1>8, <1>9 DEF TypeOK, CodeRow, ReqRow
<1> QED BY <1>8, <1>9, <1>10, <1>11, <1>12, <1>13 DEF OtpInv

\* The code is consumed by one request, or was.
LEMMA ConsumeKeeps ==
    ASSUME OtpInv, NEW r \in Request, Consume(r)
    PROVE  OtpInv'
<1> DEFINE c == req[r].challenge
           new == Go(req[r], "user")
           row == [challenge[c] EXCEPT !.status = "CONSUMED"]
<1>1. TypeOK /\ AsksSound /\ CodesSound /\ UsedSoundly /\ AttemptsSound /\ LimitsSound
  BY DEF OtpInv
<1>2. /\ req[r].pc = "consume" /\ cooling' = cooling /\ user' = user /\ identity' = identity
      /\ signIns' = signIns
  BY DEF Consume
<1>3. /\ req[r] \in ReqRow /\ c \in Created /\ c \in Challenge /\ challenge[c] \in CodeRow
      /\ challenge \in [Challenge -> CodeRow] /\ req[r].email \in Email
      /\ challenge[c].status # "none" /\ challenge[c].email \in Email
      /\ user \in [Email -> BOOLEAN]
  BY <1>2, Known DEF AskSound
<1>4. CASE req' = [req EXCEPT ![r] = Idle] /\ challenge' = challenge
  BY <1>2, <1>3, <1>4, EndKeeps
<1>5. CASE /\ challenge[c].status = "ACTIVE" /\ req' = [req EXCEPT ![r].pc = "user"]
           /\ challenge' = [challenge EXCEPT ![c].status = "CONSUMED"]
  <2>1. req' = [req EXCEPT ![r] = new] /\ challenge' = [challenge EXCEPT ![c] = row]
    BY <1>5 DEF Go
  <2>2. new \in ReqRow /\ new.pc = "user" /\ new.challenge = c /\ new.email = req[r].email
    BY <1>3, GoRow DEF PCs
  <2>3. /\ DOMAIN row = DOMAIN challenge[c] /\ row = [f \in DOMAIN row |-> row[f]]
        /\ row.email = challenge[c].email /\ row.attempts = challenge[c].attempts
        /\ row.delivered = challenge[c].delivered /\ row.status = "CONSUMED"
        /\ row.lapsed = challenge[c].lapsed
    BY <1>3, CodeRows
  <2> HIDE DEF new, row
  <2>4. row \in CodeRow
    BY <1>3, <2>3, CodeRows, CodeUpdate
  <2>5. /\ challenge' \in [Challenge -> CodeRow] /\ CodesSound'
        /\ challenge'[c] = row /\ \A d \in Challenge \ {c} : challenge'[d] = challenge[d]
        /\ Created' = Created \cup {c}
    <3> HIDE DEF c
    <3> QED BY <1>1, <1>3, <2>1, <2>3, <2>4, CodesKept
  <2>6. req' \in [Request -> ReqRow] /\ AsksSound'
    <3>1. AskSound(new, Created) /\ Created' = Created
      BY <1>3, <2>2, <2>5 DEF AskSound
    <3> QED BY <1>1, <2>1, <2>2, <3>1, AsksKept
  <2>7. UsedSoundly'
    <3>1. SUFFICES ASSUME NEW d \in Challenge
                   PROVE  /\ challenge'[d].status \in {"none", "ACTIVE"} =>
                                signIns[d] = 0 /\ Holders(d)' = {}
                          /\ \/ signIns[d] = 0 /\ \A x, y \in Holders(d)' : x = y
                             \/ signIns[d] = 1 /\ Holders(d)' = {}
      BY <1>2 DEF UsedSoundly
    <3>2. Holders(d)' = (Holders(d) \ {r})
                 \cup (IF new.pc \in Past /\ new.challenge = d THEN {r} ELSE {})
      BY <1>1, <2>1, HoldersAfter
    <3>3. /\ challenge[d].status \in {"none", "ACTIVE"} => signIns[d] = 0 /\ Holders(d) = {}
          /\ \/ signIns[d] = 0 /\ \A x, y \in Holders(d) : x = y
             \/ signIns[d] = 1 /\ Holders(d) = {}
      BY <1>1 DEF UsedSoundly
    <3>4. CASE d = c
      <4>1. Holders(d)' = {r} /\ signIns[d] = 0
        BY <1>5, <2>2, <3>2, <3>3, <3>4 DEF Past
      <4> QED BY <2>3, <2>5, <3>4, <4>1
    <3>5. CASE d # c
      <4>1. Holders(d)' \subseteq Holders(d)
        BY <2>2, <3>2, <3>5
      <4> QED BY <2>5, <3>3, <3>5, <4>1
    <3> QED BY <3>4, <3>5
  <2>8. AttemptsSound'
    <3>1. \A d \in Challenge : challenge[d].attempts \in Nat
      BY <1>1 DEF TypeOK
    <3>2. req[r].pc # "lock" /\ new.pc # "wrong"
      BY <1>2, <2>2
    <3>3. \A d \in Challenge :
              /\ challenge'[d].attempts = challenge[d].attempts
              /\ challenge[d].attempts \in Nat
              /\ challenge'[d].status = "ACTIVE" => challenge[d].status = "ACTIVE"
                                                    \/ challenge[d].attempts = 0
              /\ challenge'[d].status = "ACTIVE" /\ req[r].pc = "lock" /\ req[r].challenge = d =>
                    new.pc = "lock" /\ new.challenge = d
      BY <2>3, <2>5, <3>1, <3>2
    <3> QED BY <1>1, <2>1, <3>2, <3>3, AttemptsKept
  <2>9. LimitsSound'
    <3>1. \A d \in Challenge : challenge'[d].email = challenge[d].email
      BY <2>3, <2>5
    <3>2. new.pc \notin {"find", "replace", "create"}
      BY <2>2
    <3> QED BY <1>1, <2>1, <3>1, <3>2, LimitsKept
  <2>10. TypeOK'
    BY <1>1, <1>2, <2>5, <2>6 DEF TypeOK, CodeRow, ReqRow
  <2> QED BY <2>5, <2>6, <2>7, <2>8, <2>9, <2>10 DEF OtpInv
<1> QED BY <1>4, <1>5 DEF Consume, Active

\* The request that consumed the code signs in with it, and is done.
LEMMA IssueKeeps ==
    ASSUME OtpInv, NEW r \in Request, IssueSession(r)
    PROVE  OtpInv'
<1> DEFINE c == req[r].challenge
<1>1. TypeOK /\ AsksSound /\ CodesSound /\ UsedSoundly /\ AttemptsSound /\ LimitsSound
  BY DEF OtpInv
<1>2. /\ req[r].pc = "session" /\ cooling' = cooling /\ user' = user /\ identity' = identity
      /\ challenge' = challenge /\ signIns' = [signIns EXCEPT ![c] = @ + 1]
      /\ req' = [req EXCEPT ![r] = Idle]
  BY DEF IssueSession
<1>3. /\ c \in Created /\ c \in Challenge /\ signIns \in [Challenge -> Nat] /\ Created' = Created
      /\ challenge \in [Challenge -> CodeRow]
  BY <1>1, <1>2, Known DEF AskSound, TypeOK, Created
<1>4. req' \in [Request -> ReqRow] /\ AsksSound'
  <2>1. AskSound(Idle, Created)
    BY IdleRow DEF AskSound
  <2> QED BY <1>1, <1>2, <1>3, <2>1, IdleRow, AsksKept
<1>5. CodesSound'
  BY <1>1, <1>2 DEF CodesSound
<1>6. UsedSoundly'
  <2>1. SUFFICES ASSUME NEW d \in Challenge
                 PROVE  /\ challenge[d].status \in {"none", "ACTIVE"} =>
                              signIns'[d] = 0 /\ Holders(d)' = {}
                        /\ \/ signIns'[d] = 0 /\ \A x, y \in Holders(d)' : x = y
                           \/ signIns'[d] = 1 /\ Holders(d)' = {}
    BY <1>2 DEF UsedSoundly
  <2>2. Holders(d)' = (Holders(d) \ {r})
                 \cup (IF Idle.pc \in Past /\ Idle.challenge = d THEN {r} ELSE {})
    BY <1>1, <1>2, HoldersAfter
  <2>3. Holders(d)' = Holders(d) \ {r}
    BY <2>2, IdleRow DEF Past
  <2>4. /\ challenge[d].status \in {"none", "ACTIVE"} => signIns[d] = 0 /\ Holders(d) = {}
        /\ \/ signIns[d] = 0 /\ \A x, y \in Holders(d) : x = y
           \/ signIns[d] = 1 /\ Holders(d) = {}
    BY <1>1 DEF UsedSoundly
  <2>5. CASE d = c
    <3>1. r \in Holders(d)
      BY <1>2, <2>5 DEF Holders, Past
    <3>2. signIns[d] = 0 /\ \A x, y \in Holders(d) : x = y
      BY <2>4, <3>1
    <3>3. Holders(d)' = {} /\ signIns'[d] = 1
      BY <1>2, <1>3, <2>3, <2>5, <3>1, <3>2
    <3> QED BY <2>4, <3>1, <3>3
  <2>6. CASE d # c
    <3>1. signIns'[d] = signIns[d]
      BY <1>2, <1>3, <2>6
    <3> QED BY <2>3, <2>4, <3>1
  <2> QED BY <2>5, <2>6
<1>7. AttemptsSound'
  <2>1. \A d \in Challenge : challenge[d].attempts \in Nat
    BY <1>1 DEF TypeOK
  <2>2. req[r].pc # "lock" /\ Idle.pc # "wrong"
    BY <1>2, IdleRow
  <2>3. \A d \in Challenge :
              /\ challenge'[d].attempts = challenge[d].attempts
              /\ challenge[d].attempts \in Nat
              /\ challenge'[d].status = "ACTIVE" => challenge[d].status = "ACTIVE"
                                                    \/ challenge[d].attempts = 0
              /\ challenge'[d].status = "ACTIVE" /\ req[r].pc = "lock" /\ req[r].challenge = d =>
                    Idle.pc = "lock" /\ Idle.challenge = d
    BY <1>2, <2>1, <2>2
  <2> QED BY <1>1, <1>2, <2>2, <2>3, AttemptsKept
<1>8. LimitsSound'
  BY <1>1, <1>2, IdleRow, LimitsKept
<1>9. TypeOK'
  <2>1. signIns' \in [Challenge -> Nat]
    BY <1>2, <1>3
  <2> QED BY <1>1, <1>2, <1>4, <2>1 DEF TypeOK, CodeRow, ReqRow
<1> QED BY <1>4, <1>5, <1>6, <1>7, <1>8, <1>9 DEF OtpInv

\* No code exists at first.
LEMMA InitOtp == Init => OtpInv
<1> SUFFICES ASSUME Init PROVE OtpInv
  OBVIOUS
<1>1. Absent.status = "none" /\ Absent.email = None /\ Absent.attempts = 0 /\ Absent \in CodeRow
  BY DEF Absent, CodeRow
<1>2. /\ \A c \in Challenge : challenge[c] = Absent /\ signIns[c] = 0
      /\ \A r \in Request : req[r] = Idle
      /\ challenge \in [Challenge -> CodeRow] /\ req \in [Request -> ReqRow]
      /\ signIns \in [Challenge -> Nat]
  BY <1>1, IdleRow DEF Init
<1>3. TypeOK
  BY <1>2 DEF Init, TypeOK, CodeRow, ReqRow
<1>4. AsksSound
  BY <1>2, IdleRow DEF AsksSound, AskSound
<1>5. CodesSound
  BY <1>1, <1>2 DEF CodesSound
<1>6. UsedSoundly
  <2>1. \A c : Holders(c) = {}
    BY <1>2, IdleRow DEF Holders, Past
  <2> QED BY <1>2, <2>1 DEF UsedSoundly
<1>7. AttemptsSound
  <2>1. \A c : At("wrong", c) = {} /\ At("lock", c) = {}
    BY <1>2, IdleRow DEF At
  <2>2. Cardinality({}) = 0 /\ Cardinality(Request) \in Nat \ {0} /\ MaxAttempts \in Nat \ {0}
    BY FS_EmptySet, SetsFinite, OtpAssumption
  <2> QED BY <1>1, <1>2, <2>1, <2>2 DEF AttemptsSound, Active
<1>8. LimitsSound
  <2>1. \A e \in Email : Asking(e) = {} /\ CodesOf(e) = {}
    BY <1>1, <1>2, IdleRow, OtpAssumption DEF Asking, CodesOf
  <2>2. Cardinality({}) = 0 /\ Cardinality(Request) \in Nat \ {0} /\ EmailLimit \in Nat
    BY FS_EmptySet, SetsFinite, OtpAssumption
  <2> QED BY <2>1, <2>2 DEF LimitsSound
<1> QED BY <1>3, <1>4, <1>5, <1>6, <1>7, <1>8 DEF OtpInv

\* A step that changes nothing keeps the invariant.
LEMMA StutterKeeps ==
    ASSUME OtpInv, UNCHANGED vars
    PROVE  OtpInv'
<1>1. PICK r \in Request : TRUE
  BY OtpAssumption
<1> DEFINE new == req[r]
<1>2. /\ req' = req /\ user' = user /\ identity' = identity /\ signIns' = signIns
      /\ cooling' = cooling /\ challenge' = challenge
  BY DEF vars
<1>3. /\ new \in ReqRow /\ AskSound(new, Created)
      /\ cooling \subseteq Email /\ user \in [Email -> BOOLEAN] /\ identity \in [Email -> BOOLEAN]
  BY Known
<1>4. req' = [req EXCEPT ![r] = new]
  BY <1>2 DEF OtpInv, TypeOK
<1>5. Quiet(r, new)
  BY <1>2, <1>3, <1>4 DEF Quiet
<1> HIDE DEF new
<1> QED BY <1>1, <1>2, <1>3, <1>5, QuietKeeps

\* Every step keeps the invariant.
LEMMA NextKeepsOtp == OtpInv /\ [Next]_vars => OtpInv'
<1> SUFFICES ASSUME OtpInv, [Next]_vars PROVE OtpInv'
  OBVIOUS
<1>1. ASSUME NEW r \in Request, Step(r) PROVE OtpInv'
  <2>1. CASE FindActive(r)
    BY <2>1, FindKeeps
  <2>2. CASE Replace(r)
    BY <2>2, ReplaceKeeps
  <2>3. CASE SendSucceeds(r) \/ SendFails(r)
    BY <2>3, SendKeeps
  <2>4. CASE \E c \in Challenge : Create(r, c)
    BY <2>4, CreateKeeps
  <2>5. CASE Consume(r)
    BY <2>5, ConsumeKeeps
  <2>6. CASE FindUser(r) \/ SaveUser(r) \/ SaveIdentity(r)
    BY <2>6, SignInKeeps
  <2>7. CASE IssueSession(r)
    BY <2>7, IssueKeeps
  <2>8. CASE CountAttempt(r)
    BY <2>8, CountKeeps
  <2>9. CASE LockChallenge(r)
    BY <2>9, LockKeeps
  <2> QED BY <1>1, <2>1, <2>2, <2>3, <2>4, <2>5, <2>6, <2>7, <2>8, <2>9 DEF Step
<1>2. ASSUME NEW e \in Email, CooldownEnds(e) \/ \E r \in Request : AskCode(r, e) PROVE OtpInv'
  BY <1>2, TimeKeeps, AskKeeps
<1>3. ASSUME NEW c \in Challenge,
             Expire(c) \/ \E r \in Request : SubmitRight(r, c) \/ SubmitWrong(r, c)
      PROVE  OtpInv'
  BY <1>3, TimeKeeps, SignInKeeps, WrongKeeps
<1>4. CASE UNCHANGED vars
  BY <1>4, StutterKeeps
<1> QED BY <1>1, <1>2, <1>3, <1>4 DEF Next

\* Hence it always holds.
LEMMA OtpHolds == Spec => []OtpInv
BY InitOtp, NextKeepsOtp, PTL DEF Spec

\* One code signs in at most once.
THEOREM CodesSignInOnce == Spec => []CodeUsedOnce
<1>1. OtpInv => CodeUsedOnce
  <2> SUFFICES ASSUME OtpInv PROVE CodeUsedOnce
    OBVIOUS
  <2>1. TypeOK /\ \A c \in Challenge : signIns[c] = 0 \/ signIns[c] = 1
    BY DEF OtpInv, UsedSoundly
  <2>2. \A c \in Challenge : signIns[c] <= 1
    BY <2>1
  <2> QED BY <2>1, <2>2 DEF CodeUsedOnce
<1> QED BY <1>1, OtpHolds, PTL

\* The limits on attempts and on codes are passed by no more than the requests
\* that race.
THEOREM LimitsAreKept == Spec => []LimitsHold
<1>1. OtpInv => LimitsHold
  <2> SUFFICES ASSUME OtpInv PROVE LimitsHold
    OBVIOUS
  <2>1. AttemptsBounded
    <3>1. SUFFICES ASSUME NEW c \in Challenge
                   PROVE  /\ challenge[c].attempts < MaxAttempts + Cardinality(Request)
                          /\ challenge[c].attempts >= MaxAttempts /\ Active(c) => At("lock", c) # {}
      BY DEF AttemptsBounded
    <3>2. /\ Active(c) => challenge[c].attempts < MaxAttempts + Cardinality(At("lock", c))
          /\ challenge[c].attempts + Cardinality(At("wrong", c)) < MaxAttempts + Cardinality(Request)
          /\ challenge[c].attempts \in Nat
      BY DEF OtpInv, AttemptsSound, TypeOK
    <3>3. Cardinality(At("wrong", c)) \in Nat /\ Cardinality(Request) \in Nat /\ MaxAttempts \in Nat
      BY SetsFinite, OtpAssumption
    <3>4. At("lock", c) = {} => Cardinality(At("lock", c)) = 0
      BY FS_EmptySet
    <3> QED BY <3>2, <3>3, <3>4
  <2>2. CodesBounded
    <3>1. SUFFICES ASSUME NEW e \in Email
                   PROVE  Cardinality(CodesOf(e)) < EmailLimit + Cardinality(Request)
      BY DEF CodesBounded
    <3>2. Cardinality(CodesOf(e)) + Cardinality(Asking(e)) < EmailLimit + Cardinality(Request)
      BY DEF OtpInv, LimitsSound
    <3>3. Cardinality(CodesOf(e)) \in Nat /\ Cardinality(Asking(e)) \in Nat
          /\ Cardinality(Request) \in Nat /\ EmailLimit \in Nat
      BY SetsFinite, OtpAssumption
    <3> QED BY <3>2, <3>3
  <2> QED BY <2>1, <2>2 DEF LimitsHold
<1> QED BY <1>1, OtpHolds, PTL
-----------------------------------------------------------------------------
(* Memberships: the inductive invariant.                                   *)

\* What a slot holds at each step of a request.
OnboardTask == [pc : {"onboard"}, user : User, key : Key, organization : Organization]
CreateTask == [pc : {"count", "insert"}, organization : Organization,
               target : User \cup {Nobody}, role : Role, members : Nat]
SendTask == [pc : {"attempt", "send"}, id : Nat]
LookupTask == [pc : {"lookup"}, id : Nat, user : User]
JoinTask == [pc : {"join"}, id : Nat, user : User, roles : SUBSET (Role \cup {Owner})]
DecideTask == [pc : {"decide"}, id : Nat, to : {"DECLINED", "REVOKED"}]
Tasks == {NoTask} \cup OnboardTask \cup CreateTask \cup SendTask \cup LookupTask
         \cup JoinTask \cup DecideTask

\* The steps of a request that knows an invitation, and of one that counts seats.
Knows == {"attempt", "send", "lookup", "join", "decide"}
Counts == {"count", "insert"}

Tables ==
    /\ owner \in [Organization -> User \cup {Nobody}]
    /\ key \in [User \X Key -> Organization \cup {Nobody}]
    /\ member \in [Organization -> [User -> SUBSET (Role \cup {Owner})]]
    /\ invitation \in Seq(Row)
    /\ unseen \in [Organization -> Nat]
    /\ task \in [Task -> Tasks]

\* A request relies on its invitation being there and on being meant by it; one
\* about to join relies on the roles it has looked up not being taken away.
Relies(c) ==
    /\ c.pc \in Knows => c.id \in DOMAIN invitation
    /\ c.pc \in {"lookup", "join"} => Addressed(c.id, c.user)
    /\ c.pc = "join" => c.roles \subseteq member[invitation[c.id].organization][c.user]
    /\ c.pc \in Counts => owner[c.organization] # Nobody
TasksRely == \A r \in Task : Relies(task[r])

\* Nobody is a member of, or invited to, an organization before it is onboarded.
Rooted ==
    /\ \A i \in DOMAIN invitation : owner[invitation[i].organization] # Nobody
    /\ \A o \in Organization : owner[o] = Nobody => Members(o) = {}

KeysOf(o) == {k \in Key : key[<<owner[o], k>>] = o}
KeysSound ==
    /\ \A u \in User, k \in Key : key[<<u, k>>] # Nobody => owner[key[<<u, k>>]] = u
    /\ \A o \in Organization : owner[o] # Nobody =>
          /\ Owner \in member[o][owner[o]]
          /\ \E k \in Key : KeysOf(o) = {k}

\* The lock of the subscription row: one create at a time counts an organization's seats.
LockHolds == \A r, q \in Task :
    /\ task[r].pc \in Counts /\ task[q].pc \in Counts
    /\ task[r].organization = task[q].organization
    => r = q

\* A create between its counts is short of the members by those it could not see;
\* past them, its seat is still free but for what it could not see.
SeatFree(c) ==
    /\ c.pc = "count" =>
          Cardinality(Members(c.organization)) <= c.members + unseen[c.organization]
    /\ c.pc = "insert" => Seats(c.organization) + 1 <= StaffMax + unseen[c.organization]
SeatsSound ==
    /\ \A o \in Organization : IsFiniteSet(Members(o)) /\ Seats(o) <= StaffMax + unseen[o]
    /\ \A r \in Task : SeatFree(task[r])

MembershipsInv ==
    Tables /\ TasksRely /\ Rooted /\ KeysSound /\ MembersWereInvited /\ LockHolds /\ SeatsSound
-----------------------------------------------------------------------------
(* Memberships: steps.                                                     *)

\* A slot's fields follow from its step.
LEMMA TaskKinds ==
    ASSUME NEW c \in Tasks
    PROVE  /\ c.pc = "onboard" => c \in OnboardTask
           /\ c.pc \in Counts => c \in CreateTask
           /\ c.pc \in {"attempt", "send"} => c \in SendTask
           /\ c.pc = "lookup" => c \in LookupTask
           /\ c.pc = "join" => c \in JoinTask
           /\ c.pc = "decide" => c \in DecideTask
           /\ c.pc \in {"idle", "onboard"} \cup Counts \cup Knows
BY DEF Tasks, NoTask, OnboardTask, CreateTask, SendTask, LookupTask, JoinTask, DecideTask,
       Counts, Knows

\* One slot is written, the others stay.
LEMMA SlotWritten ==
    ASSUME Tables, NEW r \in Task, NEW c \in Tasks, task' = [task EXCEPT ![r] = c]
    PROVE  /\ task' \in [Task -> Tasks]
           /\ task'[r] = c
           /\ \A q \in Task \ {r} : task'[q] = task[q]
BY DEF Tables

\* The rows are typed one by one.
LEMMA RowsTyped ==
    ASSUME NEW rows \in Seq(Row)
    PROVE  /\ Len(rows) \in Nat /\ DOMAIN rows = 1 .. Len(rows)
           /\ \A i \in DOMAIN rows : rows[i] \in Row
OBVIOUS

\* The invitations counted are finitely many.
LEMMA HeldFinite ==
    ASSUME NEW rows \in Seq(Row), NEW o
    PROVE  IsFiniteSet(Held(rows, o)) /\ Cardinality(Held(rows, o)) \in Nat
<1>1. IsFiniteSet(1 .. Len(rows))
  BY RowsTyped, FS_Interval
<1>2. Held(rows, o) \in SUBSET (1 .. Len(rows))
  BY RowsTyped DEF Held
<1> QED BY <1>1, <1>2, FS_Subset, FS_CardinalityType

\* A step of one request that leaves the tables alone: the invariant holds of the
\* others as it did, and it is enough that it holds of this one.
LEMMA OwnStep ==
    ASSUME MembershipsInv, NEW r \in Task, NEW c \in Tasks,
           task' = [task EXCEPT ![r] = c],
           UNCHANGED <<owner, key, member, invitation, unseen>>,
           Relies(c), SeatFree(c),
           c.pc \in Counts => \A q \in Task \ {r} :
               task[q].pc \in Counts => task[q].organization # c.organization
    PROVE  MembershipsInv'
<1>1. /\ task' \in [Task -> Tasks]
      /\ task'[r] = c
      /\ \A q \in Task \ {r} : task'[q] = task[q]
  BY SlotWritten DEF MembershipsInv
<1>2. Tables'
  BY <1>1 DEF MembershipsInv, Tables
<1>3. TasksRely'
  BY <1>1 DEF MembershipsInv, TasksRely, Relies, Addressed
<1>4. Rooted' /\ KeysSound' /\ MembersWereInvited'
  BY DEF MembershipsInv, Rooted, KeysSound, KeysOf, Members, MembersWereInvited
<1>5. LockHolds'
  BY <1>1 DEF MembershipsInv, LockHolds
<1>6. /\ \A o : Members(o)' = Members(o) /\ Seats(o)' = Seats(o)
  BY DEF Members, Seats, Held
<1>7. SeatsSound'
  BY <1>1, <1>6 DEF MembershipsInv, SeatsSound, SeatFree
<1> QED BY <1>2, <1>3, <1>4, <1>5, <1>7 DEF MembershipsInv

\* The steps that write the tables end a request, or let it go on to send.
Tidy ==
    /\ task' \in [Task -> Tasks]
    /\ \A q \in Task : \/ task'[q] = task[q]
                       \/ task'[q] = NoTask
                       \/ task'[q] \in SendTask /\ task'[q].id \in DOMAIN invitation'

\* What no step takes back: an organization's owner, a member's roles, and whom an
\* invitation is for and what it grants.
Grows ==
    /\ DOMAIN invitation \subseteq DOMAIN invitation'
    /\ \A i \in DOMAIN invitation :
          /\ invitation'[i].organization = invitation[i].organization
          /\ invitation'[i].target = invitation[i].target
          /\ invitation'[i].role = invitation[i].role
    /\ \A o \in Organization, u \in User : member[o][u] \subseteq member'[o][u]
    /\ \A o \in Organization : owner[o] # Nobody => owner'[o] = owner[o]

\* With these, what the requests rely on lasts, and the lock holds.
LEMMA TidyStep ==
    ASSUME MembershipsInv, Tidy, Grows
    PROVE  TasksRely' /\ LockHolds'
<1>1. TasksRely'
  <2> SUFFICES ASSUME NEW q \in Task PROVE Relies(task[q])'
    BY DEF TasksRely
  <2>1. CASE task'[q] = task[q]
    <3>1. task[q] \in Tasks /\ Relies(task[q])
      BY DEF MembershipsInv, Tables, TasksRely
    <3>2. task[q].pc \in Knows => invitation[task[q].id].organization \in Organization
      BY <3>1, RowsTyped DEF MembershipsInv, Tables, Relies, Row
    <3>3. task[q].pc \in Counts => task[q].organization \in Organization
      BY <3>1, TaskKinds DEF CreateTask
    <3>4. task[q].pc = "join" => task[q].user \in User
      BY <3>1, TaskKinds DEF JoinTask
    <3> QED BY <2>1, <3>1, <3>2, <3>3, <3>4 DEF Relies, Addressed, Grows, Knows
  <2>2. CASE task'[q] = NoTask
    BY <2>2 DEF Relies, NoTask, Knows, Counts
  <2>3. CASE task'[q] \in SendTask /\ task'[q].id \in DOMAIN invitation'
    BY <2>3 DEF Relies, SendTask, Counts
  <2> QED BY <2>1, <2>2, <2>3 DEF Tidy
<1>2. \A q \in Task : task'[q].pc \in Counts => task'[q] = task[q]
  BY DEF Tidy, NoTask, SendTask, Counts
<1>3. LockHolds'
  BY <1>2 DEF LockHolds, MembershipsInv
<1> QED BY <1>1, <1>3

\* Seats taken past the check are counted: if every seat more is, the limit and
\* what the creates rely on last.
LEMMA TidySeats ==
    ASSUME MembershipsInv, Tables', Tidy,
           \A o \in Organization : owner[o] # Nobody =>
               /\ IsFiniteSet(Members(o)')
               /\ unseen'[o] >= unseen[o]
               /\ Seats(o)' - unseen'[o] <= Seats(o) - unseen[o]
               /\ \/ Cardinality(Members(o)') - unseen'[o]
                        <= Cardinality(Members(o)) - unseen[o]
                  \/ \A q \in Task : task[q].pc = "count" => task[q].organization # o,
           \A o \in Organization : owner[o] = Nobody =>
               IsFiniteSet(Members(o)') /\ Seats(o)' <= StaffMax + unseen'[o]
    PROVE  SeatsSound'
<1>1. \A q \in Task : task'[q].pc \in Counts => task'[q] = task[q]
  BY DEF Tidy, NoTask, SendTask, Counts
<1>2. \A o \in Organization : IsFiniteSet(Members(o)) /\ Seats(o) <= StaffMax + unseen[o]
  BY DEF MembershipsInv, SeatsSound
<1>3. \A o : Cardinality(Held(invitation, o)) \in Nat /\ Cardinality(Held(invitation', o)) \in Nat
  BY HeldFinite DEF MembershipsInv, Tables
<1>4. \A o \in Organization : IsFiniteSet(Members(o)')
  OBVIOUS
<1>5. \A o \in Organization :
        /\ Cardinality(Members(o)) \in Nat /\ Cardinality(Members(o)') \in Nat
        /\ Seats(o) \in Nat /\ Seats(o)' \in Nat
  BY <1>2, <1>3, <1>4, FS_CardinalityType DEF Seats
<1>6. StaffMax \in Nat /\ unseen \in [Organization -> Nat] /\ unseen' \in [Organization -> Nat]
  BY MembershipsAssumption DEF MembershipsInv, Tables
<1>7. \A o \in Organization : Seats(o)' <= StaffMax + unseen'[o]
  BY <1>2, <1>5, <1>6
<1>8. ASSUME NEW q \in Task PROVE SeatFree(task[q])'
  <2>1. CASE task'[q].pc \in Counts
    <3>1. task'[q] = task[q] /\ task[q] \in CreateTask /\ SeatFree(task[q]) /\ Relies(task[q])
      BY <1>1, <2>1, TaskKinds DEF MembershipsInv, Tables, SeatsSound, TasksRely
    <3> DEFINE o == task[q].organization
    <3>2. o \in Organization /\ owner[o] # Nobody /\ task[q].members \in Nat
      BY <2>1, <3>1 DEF CreateTask, Relies
    <3>3. CASE task[q].pc = "count"
      BY <1>5, <1>6, <3>1, <3>2, <3>3 DEF SeatFree
    <3>4. CASE task[q].pc = "insert"
      BY <1>5, <1>6, <3>1, <3>2, <3>4 DEF SeatFree
    <3> QED BY <2>1, <3>1, <3>3, <3>4 DEF Counts
  <2>2. CASE task'[q].pc \notin Counts
    BY <2>2 DEF SeatFree, Counts
  <2> QED BY <2>1, <2>2
<1> QED BY <1>4, <1>7, <1>8 DEF SeatsSound

\* A roster that changes nobody's roles leaves every membership justified.
LEMMA MembersStay ==
    ASSUME MembershipsInv, Grows, UNCHANGED member
    PROVE  MembersWereInvited'
<1> SUFFICES ASSUME NEW o \in Organization, NEW u \in User, NEW role \in member[o][u]
             PROVE  IF role = Owner THEN u = owner'[o]
                    ELSE \E i \in DOMAIN invitation' :
                           /\ invitation'[i].organization = o
                           /\ invitation'[i].role = role
                           /\ invitation'[i].target \in {u, Nobody}
  BY DEF MembersWereInvited
<1>1. role \in member[o][u] => owner[o] # Nobody
  BY DEF MembershipsInv, Rooted, Members
<1>2. IF role = Owner THEN u = owner[o]
      ELSE \E i \in DOMAIN invitation :
             /\ invitation[i].organization = o
             /\ invitation[i].role = role
             /\ invitation[i].target \in {u, Nobody}
  BY DEF MembershipsInv, MembersWereInvited
<1> QED BY <1>1, <1>2 DEF Grows

\* One invitation is rewritten.
LEMMA RowRewritten ==
    ASSUME NEW rows \in Seq(Row), NEW i \in DOMAIN rows, NEW row \in Row,
           NEW after, after = [rows EXCEPT ![i] = row]
    PROVE  /\ after \in Seq(Row)
           /\ DOMAIN after = DOMAIN rows
           /\ after[i] = row /\ \A j \in DOMAIN rows \ {i} : after[j] = rows[j]
OBVIOUS

\* The invitations held after that.
LEMMA HeldAfter ==
    ASSUME NEW rows \in Seq(Row), NEW i \in DOMAIN rows, NEW row \in Row,
           row.organization = rows[i].organization, NEW o,
           NEW after \in Seq(Row), DOMAIN after = DOMAIN rows,
           after[i] = row, \A j \in DOMAIN rows \ {i} : after[j] = rows[j]
    PROVE  /\ Cardinality(Held(after, o)) <= Cardinality(Held(rows, o))
                 + (IF o = row.organization /\ Holds(row) /\ ~Holds(rows[i]) THEN 1 ELSE 0)
           /\ o = row.organization /\ ~Holds(row) /\ Holds(rows[i]) =>
                 Cardinality(Held(after, o)) + 1 = Cardinality(Held(rows, o))
<1>2. /\ IsFiniteSet(Held(rows, o)) /\ Cardinality(Held(rows, o)) \in Nat
      /\ IsFiniteSet(Held(after, o)) /\ Cardinality(Held(after, o)) \in Nat
  BY HeldFinite
<1>3. CASE o = row.organization /\ Holds(row) /\ ~Holds(rows[i])
  <2>1. Held(after, o) = Held(rows, o) \cup {i} /\ i \notin Held(rows, o)
    BY <1>3 DEF Held
  <2> QED BY <1>2, <1>3, <2>1, FS_AddElement
<1>4. CASE o = row.organization /\ ~Holds(row) /\ Holds(rows[i])
  <2>1. Held(after, o) = Held(rows, o) \ {i} /\ i \in Held(rows, o)
    BY <1>4 DEF Held
  <2> QED BY <1>2, <1>4, <2>1, FS_RemoveElement
<1>5. CASE ~(o = row.organization /\ (Holds(row) <=> ~Holds(rows[i])))
  <2>1. Held(after, o) = Held(rows, o)
    BY <1>5 DEF Held
  <2> QED BY <1>2, <1>5, <2>1
<1> QED BY <1>3, <1>4, <1>5

\* An invitation is rewritten, its organization, target and role kept.
LEMMA UpdateStep ==
    ASSUME MembershipsInv, NEW i \in DOMAIN invitation, NEW row \in Row,
           row.organization = invitation[i].organization,
           row.target = invitation[i].target,
           row.role = invitation[i].role,
           Update(i, row), Tidy
    PROVE  MembershipsInv'
<1>1. /\ invitation \in Seq(Row) /\ invitation[i] \in Row
      /\ row.organization \in Organization
  BY RowsTyped DEF MembershipsInv, Tables, Row
<1>1a. /\ invitation' \in Seq(Row)
      /\ DOMAIN invitation' = DOMAIN invitation
      /\ invitation'[i] = row /\ \A j \in DOMAIN invitation \ {i} : invitation'[j] = invitation[j]
  BY <1>1, RowRewritten DEF Update
<1>2. \A o :
      /\ invitation' \in Seq(Row)
      /\ DOMAIN invitation' = DOMAIN invitation
      /\ invitation'[i] = row /\ \A j \in DOMAIN invitation \ {i} : invitation'[j] = invitation[j]
      /\ Cardinality(Held(invitation', o)) <= Cardinality(Held(invitation, o))
            + (IF o = row.organization /\ Holds(row) /\ ~Holds(invitation[i]) THEN 1 ELSE 0)
  BY <1>1, <1>1a, HeldAfter
<1>3. UNCHANGED <<owner, key, member>>
  BY DEF Update
<1>4. Grows
  BY <1>2, <1>3 DEF Grows
<1>5. /\ unseen \in [Organization -> Nat] /\ unseen' \in [Organization -> Nat]
      /\ \A o \in Organization :
           unseen'[o] = unseen[o]
             + (IF o = row.organization /\ Holds(row) /\ ~Holds(invitation[i]) THEN 1 ELSE 0)
  BY <1>1 DEF Update, MembershipsInv, Tables
<1>6. Tables'
  BY <1>2, <1>3, <1>5 DEF MembershipsInv, Tables, Tidy
<1>7. Rooted' /\ KeysSound'
  BY <1>2, <1>3 DEF MembershipsInv, Rooted, KeysSound, KeysOf, Members
<1>8. SeatsSound'
  <2>1. \A o : Members(o)' = Members(o)
    BY <1>3 DEF Members
  <2>2. ASSUME NEW o \in Organization
        PROVE  /\ IsFiniteSet(Members(o)) /\ Cardinality(Members(o)) \in Nat
               /\ Seats(o) <= StaffMax + unseen[o]
               /\ Seats(o) \in Nat /\ Seats(o)' \in Nat
               /\ unseen'[o] >= unseen[o]
               /\ Seats(o)' - unseen'[o] <= Seats(o) - unseen[o]
    <3>1. /\ IsFiniteSet(Members(o)) /\ Seats(o) <= StaffMax + unseen[o]
          /\ Cardinality(Members(o)) \in Nat
      BY FS_CardinalityType DEF MembershipsInv, SeatsSound
    <3>2. Cardinality(Held(invitation, o)) \in Nat /\ Cardinality(Held(invitation', o)) \in Nat
      BY <1>1, <1>2, HeldFinite
    <3>3. /\ Seats(o) = Cardinality(Members(o)) + Cardinality(Held(invitation, o))
          /\ Seats(o)' = Cardinality(Members(o)) + Cardinality(Held(invitation', o))
      BY <2>1 DEF Seats
    <3> DEFINE more == o = row.organization /\ Holds(row) /\ ~Holds(invitation[i])
    <3>4. /\ Cardinality(Held(invitation', o)) <= Cardinality(Held(invitation, o))
                                                    + (IF more THEN 1 ELSE 0)
          /\ unseen'[o] = unseen[o] + (IF more THEN 1 ELSE 0)
          /\ unseen[o] \in Nat
      BY <1>2, <1>5
    <3> HIDE DEF more
    <3>5. /\ unseen'[o] >= unseen[o]
          /\ Seats(o)' - unseen'[o] <= Seats(o) - unseen[o]
      <4> DEFINE a == Cardinality(Members(o))
                 b == Cardinality(Held(invitation, o))
                 d == Cardinality(Held(invitation', o))
      <4>1. a \in Nat /\ b \in Nat /\ d \in Nat /\ Seats(o) = a + b /\ Seats(o)' = a + d
        BY <3>1, <3>2, <3>3
      <4>2. d <= b + (IF more THEN 1 ELSE 0)
        BY <3>4
      <4> HIDE DEF a, b, d
      <4> QED BY <3>4, <4>1, <4>2
    <3> QED BY <3>1, <3>2, <3>3, <3>5
  <2>3. StaffMax \in Nat
    BY MembershipsAssumption
  <2>4. \A o \in Organization : Cardinality(Members(o)') - unseen'[o]
                               <= Cardinality(Members(o)) - unseen[o]
    BY <1>5, <2>1, <2>2
  <2>5. \A o \in Organization : Seats(o)' <= StaffMax + unseen'[o]
    BY <1>5, <2>2, <2>3
  <2> QED BY <1>6, <2>1, <2>2, <2>4, <2>5, TidySeats
<1> QED BY <1>3, <1>4, <1>6, <1>7, <1>8, TidyStep, MembersStay DEF MembershipsInv

\* A request that ends, or goes on to send, is tidy.
LEMMA TidySlot ==
    ASSUME Tables, NEW r \in Task, NEW c, task' = [task EXCEPT ![r] = c],
           c = NoTask \/ (c \in SendTask /\ c.id \in DOMAIN invitation')
    PROVE  Tidy
<1>1. c \in Tasks
  BY DEF Tasks
<1> QED BY <1>1, SlotWritten DEF Tidy

\* An organization is onboarded: it had no members, no invitations and no key.
LEMMA FoundStep ==
    ASSUME MembershipsInv, NEW u \in User, NEW k \in Key, NEW o \in Organization,
           owner[o] = Nobody, key[<<u, k>>] = Nobody,
           owner' = [owner EXCEPT ![o] = u],
           key' = [key EXCEPT ![<<u, k>>] = o],
           member' = [member EXCEPT ![o][u] = {Owner}],
           UNCHANGED <<invitation, unseen>>, Tidy
    PROVE  MembershipsInv'
<1>1. /\ owner' \in [Organization -> User \cup {Nobody}]
      /\ owner'[o] = u /\ \A p \in Organization \ {o} : owner'[p] = owner[p]
  BY DEF MembershipsInv, Tables
<1>2. /\ key' \in [User \X Key -> Organization \cup {Nobody}]
      /\ key'[<<u, k>>] = o
      /\ \A v \in User, j \in Key : <<v, j>> # <<u, k>> => key'[<<v, j>>] = key[<<v, j>>]
  BY DEF MembershipsInv, Tables
<1>3. /\ member' \in [Organization -> [User -> SUBSET (Role \cup {Owner})]]
      /\ member'[o][u] = {Owner}
      /\ \A p \in Organization, v \in User :
            <<p, v>> # <<o, u>> => member'[p][v] = member[p][v]
  BY DEF MembershipsInv, Tables
<1>4. u # Nobody /\ o # Nobody /\ \A v \in User : v # Nobody
  BY MembershipsAssumption
<1>5. \A v \in User : member[o][v] = {}
  BY DEF MembershipsInv, Rooted, Members
<1>6. Tables'
  BY <1>1, <1>2, <1>3 DEF MembershipsInv, Tables, Tidy
<1>7. Grows
  BY <1>1, <1>3, <1>5 DEF Grows
<1>8. Rooted'
  <2>1. \A p \in Organization : owner'[p] = Nobody => p # o /\ Members(p)' = Members(p)
    BY <1>1, <1>3, <1>4 DEF Members
  <2>2. \A i \in DOMAIN invitation : invitation[i].organization \in Organization
    BY RowsTyped DEF MembershipsInv, Tables, Row
  <2> QED BY <1>1, <1>4, <2>1, <2>2 DEF Rooted, MembershipsInv
<1>9. KeysSound'
  <2>1. \A v \in User, j \in Key : key[<<v, j>>] # Nobody =>
            owner[key[<<v, j>>]] = v /\ key[<<v, j>>] \in Organization \ {o}
    BY <1>4 DEF MembershipsInv, Tables, KeysSound
  <2>2. \A v \in User, j \in Key : key'[<<v, j>>] # Nobody => owner'[key'[<<v, j>>]] = v
    BY <1>1, <1>2, <2>1
  <2>3. Owner \in member'[o][owner'[o]] /\ KeysOf(o)' = {k}
    <3>1. \A j \in Key : key'[<<u, j>>] = o <=> j = k
      BY <1>2, <1>4, <2>1
    <3> QED BY <1>1, <1>3, <3>1 DEF KeysOf
  <2>4. ASSUME NEW p \in Organization \ {o}, owner'[p] # Nobody
        PROVE  Owner \in member'[p][owner'[p]] /\ \E j \in Key : KeysOf(p)' = {j}
    <3>1. owner'[p] = owner[p] /\ owner[p] \in User
      BY <1>1, <2>4 DEF MembershipsInv, Tables
    <3>2. Owner \in member[p][owner[p]] /\ \E j \in Key : KeysOf(p) = {j}
      BY <2>4, <3>1 DEF MembershipsInv, KeysSound
    <3>3. \A j \in Key : key'[<<owner[p], j>>] = p <=> key[<<owner[p], j>>] = p
      BY <1>2, <1>4, <3>1, MembershipsAssumption
    <3>4. KeysOf(p)' = KeysOf(p)
      BY <3>1, <3>3 DEF KeysOf
    <3> QED BY <1>3, <3>1, <3>2, <3>4
  <2> QED BY <2>2, <2>3, <2>4 DEF KeysSound
<1>10. MembersWereInvited'
  <2> SUFFICES ASSUME NEW p \in Organization, NEW v \in User, NEW role \in member'[p][v]
               PROVE  IF role = Owner THEN v = owner'[p]
                      ELSE \E i \in DOMAIN invitation :
                             /\ invitation[i].organization = p
                             /\ invitation[i].role = role
                             /\ invitation[i].target \in {v, Nobody}
    BY DEF MembersWereInvited
  <2>1. CASE p = o
    BY <1>1, <1>3, <1>5, <2>1
  <2>2. CASE p # o
    <3>1. role \in member[p][v] /\ owner'[p] = owner[p]
      BY <1>1, <1>3, <2>2
    <3> QED BY <3>1 DEF MembershipsInv, MembersWereInvited
  <2> QED BY <2>1, <2>2
<1>11. SeatsSound'
  <2>1. \A p : Held(invitation', p) = Held(invitation, p)
    BY DEF Held
  <2>2. \A p \in Organization \ {o} : Members(p)' = Members(p) /\ Seats(p)' = Seats(p)
    BY <1>3, <2>1 DEF Members, Seats
  <2>3. Members(o)' = {u}
    BY <1>3, <1>5 DEF Members
  <2>4. Held(invitation, o) = {}
    BY DEF Held, MembershipsInv, Rooted
  <2>5. IsFiniteSet(Members(o)') /\ Seats(o)' = 1
    <3>1. IsFiniteSet({u}) /\ Cardinality({u}) = 1 /\ Cardinality({}) = 0
      BY FS_Singleton, FS_EmptySet
    <3>2. Held(invitation', o) = {}
      BY <2>1, <2>4
    <3>3. Seats(o)' = Cardinality(Members(o)') + Cardinality(Held(invitation', o))
      BY DEF Seats
    <3> QED BY <2>3, <3>1, <3>2, <3>3
  <2>6. \A p \in Organization :
          /\ IsFiniteSet(Members(p)) /\ Cardinality(Members(p)) \in Nat
          /\ Seats(p) \in Nat /\ Seats(p) <= StaffMax + unseen[p]
          /\ unseen[p] \in Nat
    BY HeldFinite, FS_CardinalityType DEF MembershipsInv, Tables, SeatsSound, Seats
  <2>7. StaffMax \in Nat /\ StaffMax > 0
    BY MembershipsAssumption
  <2>8. \A p \in Organization : owner[p] # Nobody =>
               /\ IsFiniteSet(Members(p)')
               /\ unseen'[p] >= unseen[p]
               /\ Seats(p)' - unseen'[p] <= Seats(p) - unseen[p]
               /\ Cardinality(Members(p)') - unseen'[p] <= Cardinality(Members(p)) - unseen[p]
    BY <2>2, <2>6
  <2>9. \A p \in Organization : IsFiniteSet(Members(p)') /\ Seats(p)' <= StaffMax + unseen'[p]
    BY <2>2, <2>5, <2>6, <2>7
  <2> QED BY <1>6, <2>8, <2>9, TidySeats
<1> QED BY <1>6, <1>7, <1>8, <1>9, <1>10, <1>11, TidyStep DEF MembershipsInv

\* A create takes the seat it found free.
LEMMA CreateStep ==
    ASSUME MembershipsInv, NEW r \in Task, CommitCreate(r)
    PROVE  MembershipsInv'
<1>1. PICK o \in Organization :
      /\ o = task[r].organization
      /\ task[r] \in CreateTask /\ task[r].pc = "insert"
      /\ owner[o] # Nobody
      /\ Seats(o) + 1 <= StaffMax + unseen[o]
  <2>1. task[r] \in Tasks /\ task[r].pc = "insert" /\ task[r].pc \in Counts
    BY DEF CommitCreate, MembershipsInv, Tables, Counts
  <2>2. Relies(task[r]) /\ SeatFree(task[r])
    BY DEF MembershipsInv, TasksRely, SeatsSound
  <2> QED BY <2>1, <2>2, TaskKinds DEF Relies, SeatFree, CreateTask
<1> DEFINE n == Len(invitation) + 1
           row == NewInvitation(task[r])
<1>2. row \in Row /\ row.organization = o
  BY <1>1, MembershipsAssumption DEF NewInvitation, Row, CreateTask
<1>3. /\ invitation \in Seq(Row) /\ Len(invitation) \in Nat
      /\ DOMAIN invitation = 1 .. Len(invitation)
  BY DEF MembershipsInv, Tables
<1>4. /\ invitation' \in Seq(Row)
      /\ DOMAIN invitation' = DOMAIN invitation \cup {n} /\ n \notin DOMAIN invitation
      /\ invitation'[n] = row /\ \A i \in DOMAIN invitation : invitation'[i] = invitation[i]
  <2>1. invitation' = Append(invitation, row)
    BY DEF CommitCreate
  <2> HIDE DEF row
  <2> QED BY <1>2, <1>3, <2>1
<1> HIDE DEF row
<1>5. UNCHANGED <<owner, key, member, unseen>>
  BY DEF CommitCreate
<1>6. Grows
  BY <1>4, <1>5 DEF Grows
<1>7. Tidy /\ task'[r].pc \notin Counts
  <2> DEFINE attempt == [pc |-> "attempt", id |-> n]
  <2>1. attempt \in SendTask /\ attempt.id \in DOMAIN invitation'
    BY <1>3, <1>4 DEF SendTask
  <2>2. PICK c : task' = [task EXCEPT ![r] = c] /\ c \in {NoTask, attempt}
    BY DEF CommitCreate
  <2> HIDE DEF attempt
  <2>4. c = NoTask \/ (c \in SendTask /\ c.id \in DOMAIN invitation')
    BY <2>1, <2>2
  <2>5. c \in Tasks /\ c.pc \notin Counts
    BY <2>4 DEF Tasks, NoTask, SendTask, Counts
  <2> QED BY <2>2, <2>4, <2>5, TidySlot, SlotWritten DEF MembershipsInv
<1>8. Tables'
  BY <1>4, <1>5, <1>7 DEF MembershipsInv, Tables, Tidy
<1>9. Rooted' /\ KeysSound'
  BY <1>1, <1>2, <1>4, <1>5 DEF MembershipsInv, Rooted, KeysSound, KeysOf, Members
<1>10. SeatsSound'
  <2>1. \A p : Members(p)' = Members(p)
    BY <1>5 DEF Members
  <2>2. \A p \in Organization \ {o} : Held(invitation', p) = Held(invitation, p)
    BY <1>2, <1>4 DEF Held
  <2>3. \A p \in Organization \ {o} : Seats(p)' = Seats(p)
    BY <2>1, <2>2 DEF Seats
  <2>4. Seats(o)' <= Seats(o) + 1 /\ Seats(o) \in Nat /\ Seats(o)' \in Nat
    <3>1. IsFiniteSet(Held(invitation, o)) /\ Cardinality(Held(invitation, o)) \in Nat
      BY <1>3, HeldFinite
    <3>2. Held(invitation', o) \in SUBSET (Held(invitation, o) \cup {n})
      BY <1>4 DEF Held
    <3>3. /\ IsFiniteSet(Held(invitation, o) \cup {n})
          /\ Cardinality(Held(invitation, o) \cup {n}) <= Cardinality(Held(invitation, o)) + 1
      <4>1. Cardinality(Held(invitation, o) \cup {n})
              = IF n \in Held(invitation, o) THEN Cardinality(Held(invitation, o))
                ELSE Cardinality(Held(invitation, o)) + 1
        BY <3>1, FS_AddElement
      <4>2. IsFiniteSet(Held(invitation, o) \cup {n})
        BY <3>1, FS_AddElement
      <4> QED BY <3>1, <4>1, <4>2
    <3>4. /\ Cardinality(Held(invitation', o)) <= Cardinality(Held(invitation, o) \cup {n})
          /\ Cardinality(Held(invitation', o)) \in Nat
          /\ Cardinality(Held(invitation, o) \cup {n}) \in Nat
      BY <3>2, <3>3, FS_Subset, FS_CardinalityType
    <3>5. Cardinality(Members(o)) \in Nat
      BY <1>1, FS_CardinalityType DEF MembershipsInv, SeatsSound
    <3>6. /\ Seats(o) = Cardinality(Members(o)) + Cardinality(Held(invitation, o))
          /\ Seats(o)' = Cardinality(Members(o)) + Cardinality(Held(invitation', o))
      BY <2>1 DEF Seats
    <3> QED BY <3>1, <3>3, <3>4, <3>5, <3>6
  <2>5. StaffMax \in Nat /\ unseen[o] \in Nat
    BY <1>1, MembershipsAssumption DEF MembershipsInv, Tables
  <2>6. \A p \in Organization : IsFiniteSet(Members(p)') /\ Seats(p)' <= StaffMax + unseen'[p]
    <3>1. \A p \in Organization : IsFiniteSet(Members(p)) /\ Seats(p) <= StaffMax + unseen[p]
      BY DEF MembershipsInv, SeatsSound
    <3>2. Seats(o)' <= StaffMax + unseen'[o]
      BY <1>1, <1>5, <2>4, <2>5
    <3> QED BY <1>5, <2>1, <2>3, <3>1, <3>2
  <2>7. ASSUME NEW q \in Task PROVE SeatFree(task[q])'
    <3>1. CASE task'[q].pc \in Counts
      <4>1. task'[q] = task[q] /\ task[q].pc \in Counts
        BY <1>7, <3>1 DEF Tidy, NoTask, SendTask, Counts
      <4>2. q # r
        BY <1>7, <3>1
      <4>3. task[q].organization # o
        BY <1>1, <4>1, <4>2 DEF MembershipsInv, LockHolds, Counts
      <4>4. task[q] \in CreateTask
        BY <4>1, TaskKinds DEF MembershipsInv, Tables
      <4>5. task[q].organization \in Organization \ {o}
        BY <4>3, <4>4 DEF CreateTask
      <4>6. SeatFree(task[q])
        BY DEF MembershipsInv, SeatsSound
      <4> QED BY <1>5, <2>1, <2>3, <4>1, <4>5, <4>6 DEF SeatFree
    <3>2. CASE task'[q].pc \notin Counts
      BY <3>2 DEF SeatFree, Counts
    <3> QED BY <3>1, <3>2
  <2> QED BY <2>6, <2>7 DEF SeatsSound
<1> QED BY <1>5, <1>6, <1>7, <1>8, <1>9, <1>10, TidyStep, MembersStay DEF MembershipsInv

\* One member's roles are rewritten.
LEMMA RolesWritten ==
    ASSUME Tables, NEW o \in Organization, NEW u \in User,
           NEW new \in SUBSET (Role \cup {Owner}), member' = [member EXCEPT ![o][u] = new]
    PROVE  /\ member' \in [Organization -> [User -> SUBSET (Role \cup {Owner})]]
           /\ member'[o][u] = new
           /\ \A p \in Organization, v \in User :
                 <<p, v>> # <<o, u>> => member'[p][v] = member[p][v]
BY DEF Tables

\* A user joins by an invitation that was meant for them.
LEMMA JoinStep ==
    ASSUME MembershipsInv, NEW r \in Task, CommitAccept(r),
           ~UNCHANGED <<member, invitation, unseen>>
    PROVE  MembershipsInv'
<1>1. PICK i, u, o, roles, row :
      /\ i = task[r].id /\ i \in DOMAIN invitation
      /\ u = task[r].user /\ u \in User
      /\ roles = task[r].roles /\ roles \subseteq member[o][u]
      /\ row = invitation[i] /\ row \in Row
      /\ o = row.organization /\ o \in Organization
      /\ row.target \in {u, Nobody}
  <2>1. task[r] \in JoinTask /\ Relies(task[r]) /\ task[r].pc = "join"
    BY TaskKinds DEF CommitAccept, MembershipsInv, Tables, TasksRely
  <2>2. task[r].user \in User /\ task[r].id \in DOMAIN invitation
        /\ invitation[task[r].id].target \in {task[r].user, Nobody}
        /\ task[r].roles \subseteq member[invitation[task[r].id].organization][task[r].user]
    BY <2>1 DEF JoinTask, Relies, Addressed, Knows
  <2>3. invitation[task[r].id] \in Row
    BY <2>2, RowsTyped DEF MembershipsInv, Tables
  <2>4. invitation[task[r].id].organization \in Organization
    BY <2>3 DEF Row
  <2> QED BY <2>2, <2>3, <2>4
<1>2. /\ ~(roles = {} /\ member[o][u] # {})
      /\ member' = [member EXCEPT ![o][u] = member[o][u] \cup {row.role}]
      /\ invitation' = [invitation EXCEPT ![i].status = "ACCEPTED"]
      /\ unseen' = IF roles = {} /\ Unseen(row) THEN [unseen EXCEPT ![o] = @ + 1] ELSE unseen
      /\ task' = [task EXCEPT ![r] = NoTask]
      /\ UNCHANGED <<owner, key>>
  BY <1>1 DEF CommitAccept, End
<1>3. /\ member' \in [Organization -> [User -> SUBSET (Role \cup {Owner})]]
      /\ member'[o][u] = member[o][u] \cup {row.role}
      /\ \A p \in Organization, v \in User :
            <<p, v>> # <<o, u>> => member'[p][v] = member[p][v]
  <2>0. o \in Organization /\ u \in User
    BY <1>1
  <2>1. row.role \in Role
    BY <1>1 DEF Row
  <2>2. PICK new \in SUBSET (Role \cup {Owner}) : new = member[o][u] \cup {row.role}
    BY <2>0, <2>1 DEF MembershipsInv, Tables
  <2>3. Tables /\ member' = [member EXCEPT ![o][u] = new]
    BY <1>2, <2>2 DEF MembershipsInv
  <2>4. /\ member' \in [Organization -> [User -> SUBSET (Role \cup {Owner})]]
        /\ member'[o][u] = new
        /\ \A p \in Organization, v \in User :
              <<p, v>> # <<o, u>> => member'[p][v] = member[p][v]
    BY <2>0, <2>3, RolesWritten
  <2> QED BY <2>2, <2>4
<1> DEFINE accepted == [row EXCEPT !.status = "ACCEPTED"]
<1>4. /\ accepted \in Row /\ ~Holds(accepted)
      /\ accepted.organization = o /\ accepted.target = row.target /\ accepted.role = row.role
  BY <1>1 DEF Row, Holds
<1>5. invitation' = [invitation EXCEPT ![i] = accepted] /\ invitation \in Seq(Row)
  BY <1>1, <1>2 DEF MembershipsInv, Tables
<1> HIDE DEF accepted
<1>5a. /\ invitation' \in Seq(Row)
      /\ DOMAIN invitation' = DOMAIN invitation
      /\ invitation'[i] = accepted
      /\ \A j \in DOMAIN invitation \ {i} : invitation'[j] = invitation[j]
  BY <1>1, <1>4, <1>5, RowRewritten
<1>6. \A p :
      /\ Cardinality(Held(invitation', p)) <= Cardinality(Held(invitation, p))
      /\ p = o /\ Holds(row) =>
            Cardinality(Held(invitation', p)) + 1 = Cardinality(Held(invitation, p))
  <2> TAKE p
  <2>0. /\ i \in DOMAIN invitation /\ accepted \in Row /\ invitation \in Seq(Row)
        /\ accepted.organization = invitation[i].organization
    BY <1>1, <1>4, <1>5
  <2>1. /\ Cardinality(Held(invitation', p)) <= Cardinality(Held(invitation, p))
              + (IF p = accepted.organization /\ Holds(accepted) /\ ~Holds(invitation[i])
                 THEN 1 ELSE 0)
        /\ p = accepted.organization /\ ~Holds(accepted) /\ Holds(invitation[i]) =>
              Cardinality(Held(invitation', p)) + 1 = Cardinality(Held(invitation, p))
    BY <2>0, <1>5a, HeldAfter
  <2>2. Cardinality(Held(invitation, p)) \in Nat
    BY <1>5, HeldFinite
  <2> QED BY <1>1, <1>4, <2>1, <2>2
<1>7. Tidy /\ Grows
  <2>1. Tidy
    BY <1>2, TidySlot DEF MembershipsInv
  <2>2. Grows
    BY <1>1, <1>2, <1>3, <1>4, <1>5a DEF Grows
  <2> QED BY <2>1, <2>2
<1>8. /\ unseen \in [Organization -> Nat] /\ unseen' \in [Organization -> Nat]
      /\ \A p \in Organization \ {o} : unseen'[p] = unseen[p]
      /\ unseen'[o] = unseen[o] + (IF roles = {} /\ Unseen(row) THEN 1 ELSE 0)
  BY <1>1, <1>2 DEF MembershipsInv, Tables
<1>9. Tables'
  BY <1>2, <1>3, <1>7, <1>8, <1>5a DEF MembershipsInv, Tables, Tidy
<1>10. owner[o] # Nobody
  BY <1>1 DEF MembershipsInv, Rooted
<1>11. \A p \in Organization \ {o} : Members(p)' = Members(p)
  BY <1>3 DEF Members
<1>12. Rooted' /\ KeysSound'
  <2>1. Rooted'
    BY <1>2, <1>7, <1>10, <1>11, <1>5a DEF MembershipsInv, Rooted, Grows
  <2>2. \A p \in Organization : owner[p] # Nobody => owner[p] \in User
    BY DEF MembershipsInv, Tables
  <2>3. KeysSound'
    BY <1>2, <1>7, <2>2 DEF MembershipsInv, KeysSound, KeysOf, Grows
  <2> QED BY <2>1, <2>3
<1>13. MembersWereInvited'
  <2> SUFFICES ASSUME NEW p \in Organization, NEW v \in User, NEW role \in member'[p][v]
               PROVE  IF role = Owner THEN v = owner[p]
                      ELSE \E j \in DOMAIN invitation' :
                             /\ invitation'[j].organization = p
                             /\ invitation'[j].role = role
                             /\ invitation'[j].target \in {v, Nobody}
    BY <1>2 DEF MembersWereInvited
  <2>1. CASE role \in member[p][v]
    <3>1. IF role = Owner THEN v = owner[p]
          ELSE \E j \in DOMAIN invitation :
                 /\ invitation[j].organization = p
                 /\ invitation[j].role = role
                 /\ invitation[j].target \in {v, Nobody}
      BY <2>1 DEF MembershipsInv, MembersWereInvited
    <3> QED BY <1>7, <3>1 DEF Grows
  <2>2. CASE role \notin member[p][v]
    <3>1. p = o /\ v = u /\ role = row.role
      BY <1>3, <2>2
    <3>2. role # Owner
      BY <1>1, <3>1, MembershipsAssumption DEF Row
    <3> QED BY <1>1, <1>4, <1>5a, <3>1, <3>2
  <2> QED BY <2>1, <2>2
<1>14. SeatsSound'
  <2>1. \A p \in Organization :
          /\ IsFiniteSet(Members(p)) /\ Cardinality(Members(p)) \in Nat
          /\ Cardinality(Held(invitation, p)) \in Nat /\ Cardinality(Held(invitation', p)) \in Nat
          /\ Seats(p) = Cardinality(Members(p)) + Cardinality(Held(invitation, p))
          /\ Seats(p)' = Cardinality(Members(p)') + Cardinality(Held(invitation', p))
          /\ Seats(p) <= StaffMax + unseen[p]
    BY <1>5, <1>5a, HeldFinite, FS_CardinalityType DEF MembershipsInv, SeatsSound, Seats
  <2>2. /\ IsFiniteSet(Members(o)')
        /\ Cardinality(Members(o)') = Cardinality(Members(o)) + (IF roles = {} THEN 1 ELSE 0)
    <3>1. Members(o)' = Members(o) \cup {u}
      BY <1>1, <1>3 DEF Members
    <3>2. u \in Members(o) <=> roles # {}
      BY <1>1, <1>2 DEF Members
    <3>3. /\ IsFiniteSet(Members(o) \cup {u})
          /\ Cardinality(Members(o) \cup {u})
               = IF u \in Members(o) THEN Cardinality(Members(o)) ELSE Cardinality(Members(o)) + 1
      BY <1>1, <2>1, FS_AddElement
    <3>4. Cardinality(Members(o)) \in Nat
      BY <1>1, <2>1
    <3> QED BY <3>1, <3>2, <3>3, <3>4
  <2>3. ~Unseen(row) => Holds(row) /\ \A q \in Task : task[q].pc = "count" => task[q].organization # o
    BY <1>1 DEF Unseen
  <2>4. /\ unseen'[o] >= unseen[o]
        /\ Seats(o)' - unseen'[o] <= Seats(o) - unseen[o]
        /\ \/ Cardinality(Members(o)') - unseen'[o] <= Cardinality(Members(o)) - unseen[o]
           \/ \A q \in Task : task[q].pc = "count" => task[q].organization # o
    <3>1. PICK m, n, h, k, s, t :
            /\ m = Cardinality(Members(o)) /\ n = Cardinality(Members(o)')
            /\ h = Cardinality(Held(invitation, o)) /\ k = Cardinality(Held(invitation', o))
            /\ s = unseen[o] /\ t = unseen'[o]
      OBVIOUS
    <3>2. m \in Nat /\ h \in Nat /\ k \in Nat /\ s \in Nat /\ Seats(o) = m + h /\ Seats(o)' = n + k
      BY <1>1, <1>8, <2>1, <3>1
    <3>3. k <= h /\ (Holds(row) => k + 1 = h)
      BY <1>6, <3>1
    <3>4. n = m + (IF roles = {} THEN 1 ELSE 0)
      BY <2>2, <3>1
    <3>5. t = s + (IF roles = {} /\ Unseen(row) THEN 1 ELSE 0)
      BY <1>8, <3>1
    <3>6. t >= s /\ (n + k) - t <= (m + h) - s
      BY <2>3, <3>2, <3>3, <3>4, <3>5
    <3>7. \/ n - t <= m - s
          \/ \A q \in Task : task[q].pc = "count" => task[q].organization # o
      BY <2>3, <3>2, <3>4, <3>5
    <3> QED BY <3>1, <3>2, <3>6, <3>7
  <2>5. StaffMax \in Nat
    BY MembershipsAssumption
  <2>6. \A p \in Organization :
          /\ IsFiniteSet(Members(p)')
          /\ unseen'[p] >= unseen[p]
          /\ Seats(p)' - unseen'[p] <= Seats(p) - unseen[p]
          /\ \/ Cardinality(Members(p)') - unseen'[p] <= Cardinality(Members(p)) - unseen[p]
             \/ \A q \in Task : task[q].pc = "count" => task[q].organization # p
    <3> TAKE p \in Organization
    <3>1. CASE p = o
      BY <2>2, <2>4, <3>1
    <3>2. CASE p # o
      <4>1. Members(p)' = Members(p) /\ unseen'[p] = unseen[p] /\ unseen[p] \in Nat
        BY <1>8, <1>11, <3>2
      <4>2. Cardinality(Held(invitation', p)) <= Cardinality(Held(invitation, p))
        BY <1>6
      <4> QED BY <2>1, <4>1, <4>2
    <3> QED BY <3>1, <3>2
  <2>7. \A p \in Organization : owner[p] = Nobody =>
          IsFiniteSet(Members(p)') /\ Seats(p)' <= StaffMax + unseen'[p]
    <3> TAKE p \in Organization
    <3> HAVE owner[p] = Nobody
    <3>1. Members(p)' = Members(p) /\ unseen'[p] = unseen[p] /\ unseen[p] \in Nat
      BY <1>8, <1>10, <1>11
    <3>2. Cardinality(Held(invitation', p)) <= Cardinality(Held(invitation, p))
      BY <1>6
    <3> QED BY <2>1, <2>5, <3>1, <3>2
  <2> QED BY <1>7, <1>9, <2>6, <2>7, TidySeats
<1> QED BY <1>7, <1>9, <1>12, <1>13, <1>14, TidyStep DEF MembershipsInv

\* Requests that begin, and those that end in nothing.
LEMMA BeginStep ==
    ASSUME MembershipsInv, NEW r \in Task, NEW c \in Tasks, Begin(r, c), Relies(c), SeatFree(c),
           c.pc \in Counts => \A q \in Task \ {r} :
               task[q].pc \in Counts => task[q].organization # c.organization
    PROVE  MembershipsInv'
BY OwnStep DEF Begin

\* A request ends and the tables stay.
LEMMA EndStep ==
    ASSUME MembershipsInv, NEW r \in Task, End(r),
           UNCHANGED <<owner, key, member, invitation, unseen>>
    PROVE  MembershipsInv'
<1>1. NoTask \in Tasks /\ Relies(NoTask) /\ SeatFree(NoTask) /\ NoTask.pc \notin Counts
  BY DEF Tasks, NoTask, Relies, SeatFree, Knows, Counts
<1> QED BY <1>1, OwnStep DEF End

\* A request rewrites the invitation it knows and ends, or sends it.
LEMMA RewriteStep ==
    ASSUME MembershipsInv, NEW r \in Task, NEW i \in DOMAIN invitation, NEW row \in Row,
           row.organization = invitation[i].organization,
           row.target = invitation[i].target,
           row.role = invitation[i].role,
           Update(i, row), NEW c, task' = [task EXCEPT ![r] = c],
           c = NoTask \/ (c \in SendTask /\ c.id \in DOMAIN invitation)
    PROVE  MembershipsInv'
<1>1. DOMAIN invitation' = DOMAIN invitation
  BY DEF Update, MembershipsInv, Tables
<1>2. Tidy
  BY <1>1, TidySlot DEF MembershipsInv
<1> QED BY <1>2, UpdateStep

\* What the fields of an invitation may be rewritten to.
LEMMA RowFields ==
    ASSUME NEW row \in Row
    PROVE  /\ \A token \in 1 .. MaxToken :
                 /\ Sending(row, token) \in Row
                 /\ Sending(row, token).organization = row.organization
                 /\ Sending(row, token).target = row.target
                 /\ Sending(row, token).role = row.role
           /\ \A status \in {"DECLINED", "REVOKED"} :
                 LET new == [row EXCEPT !.status = status]
                 IN  /\ new \in Row /\ new.organization = row.organization
                     /\ new.target = row.target /\ new.role = row.role
           /\ LET new == [row EXCEPT !.expired = TRUE]
              IN  /\ new \in Row /\ new.organization = row.organization
                  /\ new.target = row.target /\ new.role = row.role
           /\ row.token \in 1 .. MaxToken
<1>1. MaxToken \in Nat
  BY MembershipsAssumption
<1> QED BY <1>1 DEF Row, Sending

\* Likewise the outcome of sending it.
LEMMA DeliveryFields ==
    ASSUME NEW row \in Row, NEW delivery \in {"DELIVERED", "FAILED"}, NEW retryable \in BOOLEAN,
           NEW new, new = [row EXCEPT !.delivery = delivery, !.retryable = retryable]
    PROVE  /\ new \in Row /\ new.organization = row.organization
           /\ new.target = row.target /\ new.role = row.role
BY DEF Row

\* Every operation keeps the invariant.
LEMMA MembershipsInductive ==
    MembershipsInv /\ [MembershipsNext]_membershipVars => MembershipsInv'
<1> SUFFICES ASSUME MembershipsInv, [MembershipsNext]_membershipVars PROVE MembershipsInv'
  OBVIOUS
<1>t. /\ \A r \in Task : task[r] \in Tasks /\ Relies(task[r]) /\ SeatFree(task[r])
      /\ \A i \in DOMAIN invitation : invitation[i] \in Row /\ i \in Nat
      /\ task \in [Task -> Tasks]
  BY RowsTyped DEF MembershipsInv, Tables, TasksRely, SeatsSound
<1>1. ASSUME NEW r \in Task, NEW u \in Founder, NEW k \in Key, NEW o \in Organization,
             Onboard(r, u, k, o)
      PROVE  MembershipsInv'
  <2> DEFINE c == [pc |-> "onboard", user |-> u, key |-> k, organization |-> o]
  <2>1. c \in Tasks /\ Relies(c) /\ SeatFree(c) /\ c.pc \notin Counts
    BY MembershipsAssumption DEF Tasks, OnboardTask, Relies, SeatFree, Knows, Counts
  <2>2. Begin(r, c)
    BY <1>1 DEF Onboard
  <2> HIDE DEF c
  <2> QED BY <2>1, <2>2, BeginStep
<1>2. ASSUME NEW r \in Task, NEW o \in Organization, NEW target \in User \cup {Nobody},
             NEW role \in Role, Invite(r, o, target, role)
      PROVE  MembershipsInv'
  <2> DEFINE c == [pc |-> "count", organization |-> o, target |-> target, role |-> role,
                   members |-> Cardinality(Members(o))]
  <2>1. Cardinality(Members(o)) \in Nat /\ unseen[o] \in Nat
    BY FS_CardinalityType DEF MembershipsInv, Tables, SeatsSound
  <2>2. c \in Tasks
    BY <2>1 DEF Tasks, CreateTask
  <2>3. Relies(c)
    BY <1>2 DEF Invite, Relies, Knows
  <2>4. SeatFree(c)
    BY <2>1 DEF SeatFree
  <2>5. Begin(r, c)
    BY <1>2 DEF Invite
  <2>6. \A q \in Task \ {r} : task[q].pc \in Counts => task[q].organization # c.organization
    BY <1>2 DEF Invite, SubscriptionFree, Counts
  <2> HIDE DEF c
  <2> QED BY <2>2, <2>3, <2>4, <2>5, <2>6, BeginStep
<1>3. ASSUME NEW r \in Task, NEW i \in DOMAIN invitation, Resend(r, i) PROVE MembershipsInv'
  <2> DEFINE c == [pc |-> "send", id |-> i]
             row == Sending(invitation[i], invitation[i].token + 1)
  <2>1. c \in SendTask /\ c.id \in DOMAIN invitation
    BY <1>t DEF SendTask
  <2>2. invitation[i].token + 1 \in 1 .. MaxToken
    BY <1>3, <1>t, MembershipsAssumption DEF Resend, Row
  <2>3. /\ row \in Row /\ row.organization = invitation[i].organization
        /\ row.target = invitation[i].target /\ row.role = invitation[i].role
    BY <1>t, <2>2, RowFields
  <2>4. Update(i, row) /\ task' = [task EXCEPT ![r] = c]
    BY <1>3 DEF Resend
  <2> HIDE DEF c, row
  <2> QED BY <2>1, <2>3, <2>4, RewriteStep
<1>4. ASSUME NEW r \in Task, NEW i \in DOMAIN invitation, Reject(r, i) \/ Revoke(r, i)
      PROVE  MembershipsInv'
  <2> PICK to \in {"DECLINED", "REVOKED"} : Begin(r, [pc |-> "decide", id |-> i, to |-> to])
    BY <1>4 DEF Reject, Revoke
  <2> DEFINE c == [pc |-> "decide", id |-> i, to |-> to]
  <2>1. c \in Tasks /\ Relies(c) /\ SeatFree(c) /\ c.pc \notin Counts
    BY <1>t DEF Tasks, DecideTask, Relies, SeatFree, Knows, Counts
  <2>2. Begin(r, c)
    OBVIOUS
  <2> HIDE DEF c
  <2> QED BY <2>1, <2>2, BeginStep
<1>5. ASSUME NEW r \in Task, NEW i \in DOMAIN invitation, NEW u \in User, Accept(r, i, u)
      PROVE  MembershipsInv'
  <2> DEFINE c == [pc |-> "lookup", id |-> i, user |-> u]
  <2>1. c \in Tasks /\ SeatFree(c) /\ c.pc \notin Counts
    BY <1>t DEF Tasks, LookupTask, SeatFree, Counts
  <2>2. Relies(c)
    BY <1>5 DEF Accept, Relies, Counts
  <2>3. Begin(r, c)
    BY <1>5 DEF Accept
  <2> HIDE DEF c
  <2> QED BY <2>1, <2>2, <2>3, BeginStep
<1>6. ASSUME NEW r \in Task, CommitOnboard(r) PROVE MembershipsInv'
  <2>1. CASE owner[task[r].organization] = Nobody /\ key[<<task[r].user, task[r].key>>] = Nobody
    <3>1. PICK u \in User, k \in Key, o \in Organization :
               u = task[r].user /\ k = task[r].key /\ o = task[r].organization
      BY <1>6, <1>t, TaskKinds DEF CommitOnboard, OnboardTask
    <3>2. /\ owner[o] = Nobody /\ key[<<u, k>>] = Nobody
          /\ owner' = [owner EXCEPT ![o] = u]
          /\ key' = [key EXCEPT ![<<u, k>>] = o]
          /\ member' = [member EXCEPT ![o][u] = {Owner}]
          /\ task' = [task EXCEPT ![r] = NoTask]
          /\ UNCHANGED <<invitation, unseen>>
      BY <1>6, <2>1, <3>1 DEF CommitOnboard, KeyFree, End
    <3>3. Tidy
      BY <3>2, TidySlot DEF MembershipsInv
    <3> QED BY <3>2, <3>3, FoundStep
  <2>2. CASE ~(owner[task[r].organization] = Nobody /\ key[<<task[r].user, task[r].key>>] = Nobody)
    BY <1>6, <2>2, EndStep DEF CommitOnboard, KeyFree
  <2> QED BY <2>1, <2>2
<1>7. ASSUME NEW r \in Task, CountInvitations(r) PROVE MembershipsInv'
  <2>1. CASE End(r)
    BY <1>7, <2>1, EndStep DEF CountInvitations
  <2>2. CASE ~End(r)
    <3>1. PICK o \in Organization : o = task[r].organization
      BY <1>7, <1>t, TaskKinds DEF CountInvitations, CreateTask, Counts
    <3> DEFINE c == [task[r] EXCEPT !.pc = "insert"]
    <3>2. task[r] \in CreateTask /\ task[r].pc = "count"
      BY <1>7, <1>t, TaskKinds DEF CountInvitations, Counts
    <3>3. c \in Tasks /\ c.pc = "insert" /\ c.organization = o
      BY <3>1, <3>2 DEF Tasks, CreateTask
    <3>4. /\ task' = [task EXCEPT ![r] = c]
          /\ task[r].members + Cardinality(Held(invitation, o)) < StaffMax
          /\ UNCHANGED <<owner, key, member, invitation, unseen>>
      BY <1>7, <2>2, <3>1, <3>2 DEF CountInvitations
    <3> HIDE DEF c
    <3>5. Relies(c)
      BY <1>t, <3>1, <3>2, <3>3 DEF Relies, Knows, Counts
    <3>6. SeatFree(c)
      <4>1. /\ Cardinality(Members(o)) <= task[r].members + unseen[o]
            /\ Cardinality(Members(o)) \in Nat /\ unseen[o] \in Nat
            /\ Cardinality(Held(invitation, o)) \in Nat
        BY <1>t, <3>1, <3>2, HeldFinite, FS_CardinalityType
        DEF SeatFree, MembershipsInv, Tables, SeatsSound
      <4>2. task[r].members \in Nat /\ StaffMax \in Nat
        BY <3>2, MembershipsAssumption DEF CreateTask
      <4>3. Cardinality(Members(o)) + Cardinality(Held(invitation, o)) + 1 <= StaffMax + unseen[o]
        BY <3>4, <4>1, <4>2
      <4> QED BY <3>3, <4>3 DEF SeatFree, Seats
    <3>7. \A q \in Task \ {r} : task[q].pc \in Counts => task[q].organization # c.organization
      BY <3>1, <3>2, <3>3 DEF MembershipsInv, LockHolds, Counts
    <3> QED BY <3>3, <3>4, <3>5, <3>6, <3>7, OwnStep
  <2> QED BY <2>1, <2>2
<1>8. ASSUME NEW r \in Task, CommitCreate(r) PROVE MembershipsInv'
  BY <1>8, CreateStep
<1>9. ASSUME NEW r \in Task, BeginAttempt(r) PROVE MembershipsInv'
  <2>1. PICK i \in DOMAIN invitation : i = task[r].id
    BY <1>9, <1>t DEF BeginAttempt, Relies, Knows
  <2> DEFINE c == [task[r] EXCEPT !.pc = "send"]
             row == Sending(invitation[i], invitation[i].token)
  <2>2. task[r] \in SendTask
    BY <1>9, <1>t, TaskKinds DEF BeginAttempt
  <2>3. c \in SendTask /\ c.id \in DOMAIN invitation
    BY <2>1, <2>2 DEF SendTask
  <2>4. /\ row \in Row /\ row.organization = invitation[i].organization
        /\ row.target = invitation[i].target /\ row.role = invitation[i].role
    BY <1>t, <2>1, RowFields
  <2>5. Update(i, row) /\ task' = [task EXCEPT ![r] = c]
    BY <1>9, <2>1 DEF BeginAttempt
  <2> HIDE DEF c, row
  <2> QED BY <2>1, <2>3, <2>4, <2>5, RewriteStep
<1>10. ASSUME NEW r \in Task, MarkDelivered(r) \/ MarkFailed(r) PROVE MembershipsInv'
  <2>1. PICK i \in DOMAIN invitation : i = task[r].id
    BY <1>10, <1>t DEF MarkDelivered, MarkFailed, Relies, Knows
  <2>2. PICK delivery \in {"DELIVERED", "FAILED"}, retryable \in BOOLEAN :
             /\ Update(i, [invitation[i] EXCEPT !.delivery = delivery, !.retryable = retryable])
             /\ task' = [task EXCEPT ![r] = NoTask]
    BY <1>10, <2>1 DEF MarkDelivered, MarkFailed, End
  <2> PICK row : row = [invitation[i] EXCEPT !.delivery = delivery, !.retryable = retryable]
    OBVIOUS
  <2>3. /\ row \in Row /\ row.organization = invitation[i].organization
        /\ row.target = invitation[i].target /\ row.role = invitation[i].role
    BY <1>t, <2>2, DeliveryFields
  <2>4. Update(i, row)
    BY <2>2
  <2> QED BY <2>2, <2>3, <2>4, RewriteStep
<1>11. ASSUME NEW r \in Task, LookUp(r) PROVE MembershipsInv'
  <2>1. task[r] \in LookupTask /\ Relies(task[r])
    BY <1>11, <1>t, TaskKinds DEF LookUp
  <2>2. PICK i, u, o : /\ i = task[r].id /\ i \in DOMAIN invitation
                       /\ u = task[r].user /\ u \in User
                       /\ o = invitation[i].organization /\ o \in Organization
    BY <1>11, <1>t, <2>1 DEF LookUp, LookupTask, Relies, Knows, Row
  <2>3. PICK roles \in SUBSET (Role \cup {Owner}) : roles = member[o][u]
    BY <2>2 DEF MembershipsInv, Tables
  <2> DEFINE c == [pc |-> "join", id |-> i, user |-> u, roles |-> roles]
  <2>4. task' = [task EXCEPT ![r] = c] /\ UNCHANGED <<owner, key, member, invitation, unseen>>
    BY <1>11, <2>2, <2>3 DEF LookUp
  <2>5. c \in Tasks /\ SeatFree(c) /\ c.pc \notin Counts
    BY <1>t, <2>2, <2>3 DEF Tasks, JoinTask, SeatFree, Counts
  <2>6. Relies(c)
    BY <1>11, <2>1, <2>2, <2>3 DEF LookUp, Relies, Knows, Counts
  <2> HIDE DEF c
  <2> QED BY <2>4, <2>5, <2>6, OwnStep
<1>12. ASSUME NEW r \in Task, CommitAccept(r) PROVE MembershipsInv'
  <2>1. CASE UNCHANGED <<member, invitation, unseen>>
    BY <1>12, <2>1, EndStep DEF CommitAccept
  <2>2. CASE ~UNCHANGED <<member, invitation, unseen>>
    BY <1>12, <2>2, JoinStep
  <2> QED BY <2>1, <2>2
<1>13. ASSUME NEW r \in Task, CommitDecision(r) PROVE MembershipsInv'
  <2>1. task[r] \in DecideTask /\ Relies(task[r])
    BY <1>13, <1>t, TaskKinds DEF CommitDecision
  <2>2. PICK i \in DOMAIN invitation, to \in {"DECLINED", "REVOKED"} :
             i = task[r].id /\ to = task[r].to
    BY <1>13, <2>1 DEF CommitDecision, DecideTask, Relies, Knows
  <2> DEFINE row == [invitation[i] EXCEPT !.status = to]
  <2>3. /\ row \in Row /\ row.organization = invitation[i].organization
        /\ row.target = invitation[i].target /\ row.role = invitation[i].role
    BY <1>t, <2>2, RowFields
  <2>4. Update(i, row) /\ task' = [task EXCEPT ![r] = NoTask]
    BY <1>13, <2>2 DEF CommitDecision, End
  <2> HIDE DEF row
  <2> QED BY <2>2, <2>3, <2>4, RewriteStep
<1>14. ASSUME NEW i \in DOMAIN invitation, Lapse(i) PROVE MembershipsInv'
  <2> DEFINE row == [invitation[i] EXCEPT !.expired = TRUE]
  <2>1. /\ row \in Row /\ row.organization = invitation[i].organization
        /\ row.target = invitation[i].target /\ row.role = invitation[i].role
    BY <1>t, RowFields
  <2>2. Update(i, row) /\ UNCHANGED task
    BY <1>14 DEF Lapse
  <2> HIDE DEF row
  <2>3. Tidy
    BY <1>t, <2>2 DEF Tidy
  <2> QED BY <2>1, <2>2, <2>3, UpdateStep
<1>15. CASE UNCHANGED membershipVars
  <2> USE <1>15 DEF membershipVars, MembershipsInv
  <2>1. Tables'
    BY DEF Tables
  <2>2. TasksRely'
    BY DEF TasksRely, Relies, Addressed
  <2>3. Rooted' /\ KeysSound' /\ MembersWereInvited' /\ LockHolds'
    BY DEF Rooted, Members, KeysSound, KeysOf, MembersWereInvited, LockHolds
  <2>4. \A o : Members(o)' = Members(o) /\ Seats(o)' = Seats(o)
    BY DEF Members, Seats, Held
  <2>5. SeatsSound'
    BY <2>4 DEF SeatsSound, SeatFree
  <2> QED BY <2>1, <2>2, <2>3, <2>5
<1> QED BY <1>1, <1>2, <1>3, <1>4, <1>5, <1>6, <1>7, <1>8, <1>9, <1>10, <1>11, <1>12, <1>13,
           <1>14, <1>15 DEF MembershipsNext

\* It holds of the empty tables.
LEMMA MembershipsInitially == MembershipsInit => MembershipsInv
<1> SUFFICES ASSUME MembershipsInit PROVE MembershipsInv
  OBVIOUS
<1> USE DEF MembershipsInit
<1>1. Tables
  BY DEF Tables, Tasks
<1>2. TasksRely /\ LockHolds
  BY DEF TasksRely, Relies, LockHolds, NoTask, Knows, Counts
<1>3. Rooted /\ KeysSound /\ MembersWereInvited
  BY DEF Rooted, Members, KeysSound, MembersWereInvited
<1>4. SeatsSound
  <2>1. \A o \in Organization : Members(o) = {} /\ Held(invitation, o) = {}
    BY DEF Members, Held
  <2> HIDE DEF MembershipsInit
  <2>2. ASSUME NEW o \in Organization PROVE Seats(o) = 0 /\ IsFiniteSet(Members(o))
    <3>1. IsFiniteSet({}) /\ Cardinality({}) = 0
      BY FS_EmptySet
    <3>2. Seats(o) = Cardinality(Members(o)) + Cardinality(Held(invitation, o))
      BY DEF Seats
    <3> QED BY <2>1, <3>1, <3>2
  <2>3. \A r \in Task : SeatFree(task[r])
    BY DEF SeatFree, NoTask, MembershipsInit
  <2>4. StaffMax \in Nat /\ \A o \in Organization : unseen[o] = 0
    BY MembershipsAssumption DEF MembershipsInit
  <2> QED BY <2>2, <2>3, <2>4 DEF SeatsSound
<1> QED BY <1>1, <1>2, <1>3, <1>4 DEF MembershipsInv

\* The invariant holds in every reachable state.
LEMMA MembershipsInvariant == MembershipsSpec => []MembershipsInv
BY MembershipsInitially, MembershipsInductive, PTL DEF MembershipsSpec

\* For every number of users, invitations and requests, and every plan: an
\* organization passes its plan's limit by the seats the check could not see and
\* by no others (staff-invitation.service.ts:455-493).
THEOREM SeatsAreLimited == MembershipsSpec => []SeatsWithinLimit
<1>1. MembershipsInv => SeatsWithinLimit
  <2> SUFFICES ASSUME MembershipsInv PROVE SeatsWithinLimit
    OBVIOUS
  <2>1. \A r \in Task : task[r].pc \in {"idle", "onboard"} \cup Counts \cup Knows
    BY TaskKinds DEF MembershipsInv, Tables
  <2>2. MembershipsTypeOK
    BY <2>1 DEF MembershipsTypeOK, MembershipsInv, Tables, Counts, Knows
  <2> QED BY <2>2 DEF SeatsWithinLimit, MembershipsInv, SeatsSound
<1> QED BY <1>1, MembershipsInvariant, PTL

\* However the requests race, every membership is accounted for by an onboarding
\* or an invitation, and a key by one organization (onboarding.service.ts:285-309,
\* staff-invitation.service.ts:527-652).
THEOREM MembershipsAreJustified == MembershipsSpec => []MembershipsJustified
<1>1. MembershipsInv => MembershipsJustified
  <2> SUFFICES ASSUME MembershipsInv, NEW o \in Organization, owner[o] # Nobody
               PROVE  /\ Owner \in member[o][owner[o]]
                      /\ Cardinality({k \in Key : key[<<owner[o], k>>] = o}) = 1
    BY DEF MembershipsJustified, OneOrganizationPerKey, MembershipsInv
  <2>1. Owner \in member[o][owner[o]] /\ \E k \in Key : KeysOf(o) = {k}
    BY DEF MembershipsInv, KeysSound
  <2> QED BY <2>1, FS_Singleton DEF KeysOf
<1> QED BY <1>1, MembershipsInvariant, PTL
=============================================================================
