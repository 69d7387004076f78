---------------------------- MODULE SessionFamily ----------------------------
(***************************************************************************)
(* What the API promises about a signed-in session: the refresh tokens it  *)
(* issues form one chain of which only the last is good, each rotation     *)
(* replaces it by the next one, and a revoked session never issues another *)
(* (docs/SECURITY.md, section 7).  AuthSessions implements it with row     *)
(* locks; MobileSession and WebSession talk to it as their server.         *)
(***************************************************************************)
EXTENDS SessionTokens

VARIABLES
    family,   \* "none" before sign-in, then "open", then "revoked" for good
    current   \* position in its chain of the refresh token last issued

familyVars == <<family, current>>

FamilyTypeOK ==
    /\ family \in [Session -> {"none", "open", "revoked"}]
    /\ current \in [Session -> Nat]

FamilyInit ==
    /\ family = [s \in Session |-> "none"]
    /\ current = [s \in Session |-> 0]

Open(s) ==
    /\ family[s] = "none"
    /\ family' = [family EXCEPT ![s] = "open"]
    /\ current' = [current EXCEPT ![s] = 1]

\* The holder of the current token trades it for the next.
Rotate(s) ==
    /\ family[s] = "open"
    /\ current' = [current EXCEPT ![s] = @ + 1]
    /\ UNCHANGED family

Revoke(S) ==
    /\ \A s \in S : family[s] # "none"
    /\ family' = [s \in Session |-> IF s \in S THEN "revoked" ELSE family[s]]
    /\ UNCHANGED current

FamilyNext ==
    \/ \E s \in Session : Open(s) \/ Rotate(s)
    \/ \E S \in SUBSET Session : Revoke(S)

FamilySpec == FamilyInit /\ [][FamilyNext]_familyVars
=============================================================================
