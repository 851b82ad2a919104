------------------------------- MODULE Verifier --------------------------------
(***************************************************************************)
(* Verifier.Verify (src/internal/auth/jwt.go) up to its call of the nonce  *)
(* store: the checks of a token that depend on nothing but the token, the  *)
(* configuration and one reading of the clock, in the order of the code.   *)
(*                                                                         *)
(* A token is a record with the fields                                     *)
(*   header   TRUE: three segments, a header that decodes                  *)
(*   alg, kid from the header                                              *)
(*   sig      the key that made the signature, Garbled if it does not      *)
(*            decode                                                       *)
(*   payload  TRUE: the payload decodes                                    *)
(*   iss, aud, iat, exp, jti, scope    the claims, scope as a set          *)
(***************************************************************************)
EXTENDS Integers, Sequences, FiniteSetsExt

CONSTANTS
    Kids,        \* the registered keys
    Issuer,      \* "" accepts every issuer
    Audience,
    ClockSkew

Garbled == "garbled"

AlgPinned(tok) == tok.alg = "EdDSA"

\* Mutant: any registered key may have signed.
SignedByAnyone(tok) == tok.sig \in Kids

SignedByKid(tok) == tok.sig = tok.kid

Checks(tok, t) == <<
    [holds |-> tok.header,                               reason |-> "bad_claims"],
    [holds |-> AlgPinned(tok),                           reason |-> "bad_claims"],
    [holds |-> tok.kid \in Kids,                         reason |-> "unknown_kid"],
    [holds |-> tok.sig # Garbled,                        reason |-> "bad_claims"],
    [holds |-> SignedByKid(tok),                         reason |-> "bad_signature"],
    [holds |-> tok.payload,                              reason |-> "bad_claims"],
    [holds |-> Issuer = "" \/ tok.iss = Issuer,          reason |-> "wrong_issuer"],
    [holds |-> tok.aud = Audience,                       reason |-> "wrong_audience"],
    [holds |-> tok.exp # 0 /\ t <= tok.exp,              reason |-> "expired"],
    [holds |-> tok.iat = 0 \/ t + ClockSkew >= tok.iat,  reason |-> "not_yet_valid"],
    [holds |-> tok.jti # "",                             reason |-> "bad_claims"] >>

\* The reason of the first check that fails, "ok" when none does.
Verify(tok, t) ==
    LET checks == Checks(tok, t)
        failed == {i \in DOMAIN checks : ~checks[i].holds}
    IN  IF failed = {} THEN "ok" ELSE checks[Min(failed)].reason

\* An empty requirement is "any authenticated caller".
HasScope(tok, required) == required = "" \/ required \in tok.scope
================================================================================
