---------------------------- MODULE SessionTokens ----------------------------
(***************************************************************************)
(* The names of sessions and of their refresh tokens, as the server and    *)
(* its clients use them: the tokens a session is issued form one chain,    *)
(* and a token is named by its session and its position in the chain.      *)
(***************************************************************************)
EXTENDS Naturals

CONSTANTS
    Session,   \* session ids
    MaxChain,  \* bound: refresh tokens per session
    None       \* no session, no token, no reason

ASSUME ChainAssumption == MaxChain \in Nat \ {0}

Token == Session \X (1 .. MaxChain)
=============================================================================
