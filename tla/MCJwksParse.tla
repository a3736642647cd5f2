---------------------------- MODULE MCJwksParse ----------------------------
(***************************************************************************)
(* Instances of JwksParse for TLC: every body of up to three entries, of   *)
(* two key ids, none and one no map can hold, with one key of each kind a  *)
(* filter drops.                                                           *)
(***************************************************************************)
EXTENDS JwksParse

CONSTANTS k1, k2

Key(k) == [kid |-> k, kty |-> "RSA", use |-> "sig", alg |-> "RS256"]
Plain(k) == [Key(k) EXCEPT !.use = Absent]

MCEntries == {Key(k1), Plain(k1), Key(k2), Key(NoKid), [Key(k1) EXCEPT !.kty = "EC"],
              [Key(k2) EXCEPT !.use = "enc"], [Key(k2) EXCEPT !.alg = Absent],
              Key(UnhashableKid), [Key(UnhashableKid) EXCEPT !.use = "enc"]}

Lists == UNION {[1..n -> MCEntries] : n \in 0..3}

MCBodies == [shape : {"jwks"}, keys : Lists]
            \cup [shape : {"malformed", "alien"}, keys : {<<>>}]

MCKids == {k1, k2}
MCKeyTypes == {"RSA", "EC"}
MCKeyUses == {"sig", "enc"}
MCAlgorithms == {"RS256", "ES256"}
MCAllowedKeyTypes == {"RSA"}
MCAllowedKeyUses == {"sig"}
MCAllowedAlgorithms == {"RS256"}
============================================================================
