--------------------------- MODULE MCKeyMaterial ---------------------------
(***************************************************************************)
(* The instances of MCJWKSProvider, with keys that are replaced.           *)
(***************************************************************************)
EXTENDS KeyMaterial, TLC

CONSTANTS k1, k2, t1, t2, t3

MCKids == {k1, k2}

Key(k) == [kid |-> k, kty |-> "RSA", use |-> "sig", alg |-> "RS256"]
EcKey(k) == [Key(k) EXCEPT !.kty = "EC", !.alg = "ES256"]
Body(ks) == [shape |-> "jwks", keys |-> ks]

\* One good body and one with a duplicate kid, which the parse refuses.
MCDuplicate == {Body(<<Key(k1)>>), Body(<<Key(k1), EcKey(k2), Key(k1)>>)}

MCKeyTypes == {"RSA", "EC"}
MCKeyUses == {"sig", "enc"}
MCAlgorithms == {"RS256", "ES256"}
MCAllowedKeyTypes == {"RSA"}
MCAllowedKeyUses == {"sig"}
MCAllowedAlgorithms == {"RS256"}

TaskSymmetry == Permutations(Tasks)
============================================================================
