---------------------------- MODULE MCOAuthTokens ----------------------------
(* Instances of OAuthTokens for TLC. *)
EXTENDS OAuthTokens, TLC

CONSTANTS s1, q1, q2, x1, x2, x3, f1, f2, v1

MCNone       == {}
MCSession    == {s1}
MCConsent    == {q1}
MCConsents   == {q1, q2}
MCExchange   == {x1}
MCExchanges == {x1, x2, x3}
MCRefreshes  == {f1, f2}
MCRevocation == {v1}
=============================================================================
