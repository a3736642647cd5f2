------------------------- MODULE MCAuthentication -------------------------
(***************************************************************************)
(* An instance of Authentication for TLC: a good token, and tokens that    *)
(* differ from it in one respect each, presented to an endpoint that needs *)
(* no scope and to one that needs "write".                                 *)
(***************************************************************************)
EXTENDS Authentication, TLC

CONSTANTS k1, k2, t1, t2, api, spa, write

Key(k)    == [kid |-> k, kty |-> "RSA", use |-> "sig", alg |-> "RS256"]
EncKey(k) == [Key(k) EXCEPT !.use = "enc"]
Body(ks)  == [shape |-> "jwks", keys |-> ks]

MCKids == {k1, k2}
MCDocuments == {Body(<<Key(k1)>>), Body(<<EncKey(k1), Key(k2)>>),
                [shape |-> "alien", keys |-> <<>>]}

GoodToken ==
    [parses |-> TRUE, kid |-> k1, alg |-> "RS256", genuine |-> TRUE, mature |-> TRUE,
     issuer |-> TRUE, claims |-> TRUE, profile |-> TRUE, aud |-> {api}, azp |-> Absent,
     scope |-> {write}, scp |-> {}]

MCTokens ==
    {GoodToken,
     [GoodToken EXCEPT !.genuine = FALSE],
     [GoodToken EXCEPT !.aud = {spa}, !.azp = spa],
     [GoodToken EXCEPT !.scope = {}, !.scp = {write}],
     [GoodToken EXCEPT !.alg = "ES256"],
     NoToken}

MCRequests == [token : MCTokens, needs : {{write}}]

MCKeyTypes == {"RSA"}
MCKeyUses == {"sig", "enc"}
MCAlgorithms == {"RS256", "ES256"}
MCAllowedKeyTypes == {"RSA"}
MCAllowedKeyUses == {"sig"}
MCAllowedAlgorithms == {"RS256"}
MCClients == {api, spa}
MCAudiences == {api}
MCScopes == {write}

TaskSymmetry == Permutations(Tasks)
===========================================================================
