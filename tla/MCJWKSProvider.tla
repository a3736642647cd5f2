-------------------------- MODULE MCJWKSProvider --------------------------
(***************************************************************************)
(* Instances of JWKSProvider for TLC: the key ids k1 and k2 of which the   *)
(* provider may list either or both (a rotation goes through both), so     *)
(* that each is at times unknown, new, current and withdrawn; and bodies   *)
(* that the parse rejects for each reason it has.                          *)
(***************************************************************************)
EXTENDS JWKSProvider, TLC

CONSTANTS k1, k2, t1, t2, t3

MCKids == {k1, k2}

Key(k)    == [kid |-> k, kty |-> "RSA", use |-> "sig", alg |-> "RS256"]
EncKey(k) == [Key(k) EXCEPT !.use = "enc"]
EcKey(k)  == [Key(k) EXCEPT !.kty = "EC", !.alg = "ES256"]
Anonymous == [Key(k1) EXCEPT !.kid = NoKid]
Body(ks)  == [shape |-> "jwks", keys |-> ks]

\* Before a rotation and during it, a set without any usable key, and a body
\* that raises what no except clause names.
MCDocuments ==
    {Body(<<Key(k1), Anonymous>>), Body(<<Key(k1), EncKey(k1), Key(k2)>>),
     Body(<<EncKey(k1), EcKey(k2)>>), [shape |-> "alien", keys |-> <<>>]}

\* A rotation from k1 to k2 that no body of both eases, and the body that
\* raises what no except clause names.
MCRotation ==
    {Body(<<Key(k1)>>), Body(<<EncKey(k1), Key(k2)>>), [shape |-> "alien", keys |-> <<>>]}

MCKeyTypes == {"RSA", "EC"}
MCKeyUses == {"sig", "enc"}
MCAlgorithms == {"RS256", "ES256"}
MCAllowedKeyTypes == {"RSA"}
MCAllowedKeyUses == {"sig"}
MCAllowedAlgorithms == {"RS256"}

TaskSymmetry == Permutations(Tasks)
===========================================================================
