------------------------------ MODULE CodeGrant ------------------------------
(***************************************************************************)
(* What an authorization code promises (oauth_token_store.py,              *)
(* get_auth_code: "one-time use, atomic"; .wiki/how-to-contribute/         *)
(* debugging.md:69: "Codes are single-use"): a code is open for a while    *)
(* and then either one token pair was issued for it or it is void for      *)
(* good.  OAuthTokens is shown to implement it.                            *)
(***************************************************************************)
CONSTANT Consents       \* one code per consent
VARIABLE grant

Init == grant = [c \in Consents |-> "none"]

Become(c, from, to) == grant[c] = from /\ grant' = [grant EXCEPT ![c] = to]

Offer(c) == Become(c, "none", "open")
Use(c)   == Become(c, "open", "used")

(* Codes may become void together: a restart empties the in-memory cache.  *)
Void(lost) == /\ \A c \in lost : grant[c] = "open"
              /\ grant' = [c \in Consents |-> IF c \in lost THEN "void" ELSE grant[c]]

Next == \/ \E c \in Consents : Offer(c) \/ Use(c)
        \/ \E lost \in SUBSET Consents : Void(lost)

Spec == Init /\ [][Next]_grant
=============================================================================
