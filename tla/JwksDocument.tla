--------------------------- MODULE JwksDocument ---------------------------
(***************************************************************************)
(* What the provider makes of one JWKS payload: the parse that every       *)
(* refresh of the cache runs on the body of the provider's answer          *)
(* (src/pet/infra/auth/jwks.py).  A payload has a shape:                    *)
(*                                                                         *)
(*   "jwks"      a JSON object PyJWT reads as a set of keys;               *)
(*   "malformed" anything the code answers with JwksProviderUnavailable:   *)
(*               a body that is no JSON, no object, or that PyJWKSet       *)
(*               refuses with PyJWTError, KeyError, TypeError, ValueError; *)
(*   "alien"     a body on which PyJWKSet raises something else (an entry  *)
(*               of "keys" that is no object raises AttributeError), which *)
(*               no except clause of the provider names.                   *)
(*                                                                         *)
(* PyJWKSet looks at no key id: one that is a JSON array or object is met  *)
(* by the loop over the entries, which cannot look it up in its map.       *)
(***************************************************************************)
EXTENDS Naturals, Sequences

CONSTANTS
    Kids,          \* the key ids that occur
    NoKid,         \* an entry (or a call slot) without a key id
    UnhashableKid, \* a key id that is an array or an object
    KeyTypes,      \* the values of "kty"
    KeyUses,       \* the values of "use"
    Algorithms,    \* the algorithm names PyJWT derives for a key
    Absent,        \* a missing "use", or an algorithm PyJWT cannot derive
    AllowedKeyTypes, AllowedKeyUses, AllowedAlgorithms

ASSUME KidsAssumption == NoKid \notin Kids /\ UnhashableKid \notin Kids \cup {NoKid}
ASSUME AllowedAssumption ==
    /\ AllowedKeyTypes \subseteq KeyTypes
    /\ AllowedKeyUses \subseteq KeyUses
    /\ AllowedAlgorithms \subseteq Algorithms
    /\ Absent \notin KeyUses \cup Algorithms

\* One entry of the set, reduced to the attributes the filters look at.
Jwk == [kid : Kids \cup {NoKid, UnhashableKid}, kty : KeyTypes,
        use : KeyUses \cup {Absent}, alg : Algorithms \cup {Absent}]

Payload == [shape : {"jwks", "malformed", "alien"}, keys : Seq(Jwk)]

\* An empty set of allowed values switches its filter off.  A key without a
\* "use" passes the use filter; one without an algorithm fails the last one.
IsUsableSigningKey(key) ==
    /\ AllowedKeyTypes # {} => key.kty \in AllowedKeyTypes
    /\ (key.use # Absent /\ AllowedKeyUses # {}) => key.use \in AllowedKeyUses
    /\ AllowedAlgorithms # {} => key.alg \in AllowedAlgorithms

\* Faulty variant: entries without a key id are not skipped.
UsableAtAny(payload) ==
    {i \in DOMAIN payload.keys : IsUsableSigningKey(payload.keys[i])}

\* The positions of the entries that reach the map of keys.
UsableAt(payload) ==
    {i \in DOMAIN payload.keys : /\ payload.keys[i].kid \in Kids
                                 /\ IsUsableSigningKey(payload.keys[i])}

KeysByKid(payload) == {payload.keys[i].kid : i \in UsableAt(payload)}

HasDuplicateKids(payload) ==
    \E i, j \in UsableAt(payload) :
        i # j /\ payload.keys[i].kid = payload.keys[j].kid

\* An entry that no filter drops before its key id is looked up.
HasUnhashableKid(payload) ==
    \E i \in DOMAIN payload.keys : /\ payload.keys[i].kid = UnhashableKid
                                   /\ IsUsableSigningKey(payload.keys[i])

\* How the parse ends: with a map, with JwksProviderUnavailable, or with an
\* exception that is neither.
Parses(payload) ==
    /\ payload.shape = "jwks"
    /\ ~ HasUnhashableKid(payload)
    /\ ~ HasDuplicateKids(payload)
    /\ KeysByKid(payload) # {}

ParseRaisesOther(payload) ==
    \/ payload.shape = "alien"
    \/ payload.shape = "jwks" /\ HasUnhashableKid(payload)

ParseUnavailable(payload) == ~ Parses(payload) /\ ~ ParseRaisesOther(payload)

\* The keys a provider that serves this payload makes available.
ListedIn(payload) == IF Parses(payload) THEN KeysByKid(payload) ELSE {}
===========================================================================
