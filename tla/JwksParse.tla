----------------------------- MODULE JwksParse -----------------------------
(***************************************************************************)
(* _parse_jwks of src/pet/infra/auth/jwks.py as the loop it is: one pass   *)
(* over the entries of a payload that fills a map and notes the key ids it *)
(* meets again.  JwksDocument says without a loop what the parse yields.   *)
(***************************************************************************)
EXTENDS JwksDocument

CONSTANT Bodies        \* the payloads that may arrive

ASSUME BodiesAssumption == Bodies \subseteq Payload

VARIABLES
    payload,
    at,                \* the position of the entry to look at
    keys_by_kid,       \* the map: a function on the key ids met so far
    duplicate_kids,
    result             \* "none", "map", "unavailable" or "other"

vars == <<payload, at, keys_by_kid, duplicate_kids, result>>

Init ==
    /\ payload \in Bodies
    /\ at = 1
    /\ keys_by_kid = [k \in {} |-> 0]
    /\ duplicate_kids = {}
    /\ result = "none"

\* JwksProviderUnavailable, or what no except clause names, before the loop.
Raises ==
    /\ result = "none" /\ payload.shape # "jwks"
    /\ result' = IF payload.shape = "malformed" THEN "unavailable" ELSE "other"
    /\ UNCHANGED <<payload, at, keys_by_kid, duplicate_kids>>

key == payload.keys[at]

Looping == result = "none" /\ payload.shape = "jwks" /\ at \in DOMAIN payload.keys

Advance == at' = at + 1 /\ UNCHANGED <<payload, result>>

\* Both continue statements in front of the look at the map.
Skip ==
    /\ Looping
    /\ key.kid = NoKid \/ ~ IsUsableSigningKey(key)
    /\ Advance
    /\ UNCHANGED <<keys_by_kid, duplicate_kids>>

\* `kid in keys_by_kid` raises TypeError, outside the try.
LookupRaises ==
    /\ Looping
    /\ key.kid = UnhashableKid /\ IsUsableSigningKey(key)
    /\ result' = "other"
    /\ UNCHANGED <<payload, at, keys_by_kid, duplicate_kids>>

Takes == Looping /\ key.kid \in Kids /\ IsUsableSigningKey(key)

\* Faulty variant: the map keeps the last entry of a kid and says nothing.
NoteOverwrites ==
    /\ Takes /\ key.kid \in DOMAIN keys_by_kid
    /\ keys_by_kid' = [keys_by_kid EXCEPT ![key.kid] = key]
    /\ Advance
    /\ UNCHANGED duplicate_kids

Note ==
    /\ Takes /\ key.kid \in DOMAIN keys_by_kid
    /\ duplicate_kids' = duplicate_kids \cup {key.kid}
    /\ Advance
    /\ UNCHANGED keys_by_kid

Keep ==
    /\ Takes /\ key.kid \notin DOMAIN keys_by_kid
    /\ keys_by_kid' = [k \in DOMAIN keys_by_kid \cup {key.kid} |->
                           IF k = key.kid THEN key ELSE keys_by_kid[k]]
    /\ Advance
    /\ UNCHANGED duplicate_kids

End ==
    /\ result = "none" /\ payload.shape = "jwks" /\ at \notin DOMAIN payload.keys
    /\ result' = IF duplicate_kids # {} \/ DOMAIN keys_by_kid = {}
                 THEN "unavailable" ELSE "map"
    /\ UNCHANGED <<payload, at, keys_by_kid, duplicate_kids>>

Next == Raises \/ Skip \/ LookupRaises \/ Note \/ Keep \/ End

Spec == Init /\ [][Next]_vars

---------------------------------------------------------------------------
\* The entries the loop has let pass.
Taken == {i \in UsableAt(payload) : i < at}

\* What the loop knows of the entries it has seen: the map holds the first
\* usable entry of each of their key ids, duplicate_kids the key ids of which
\* there was another (jwks.py, _parse_jwks, the loop).
LoopInv ==
    /\ payload \in Bodies /\ at \in 1..(Len(payload.keys) + 1)
    /\ result \in {"none", "map", "unavailable", "other"}
    /\ DOMAIN keys_by_kid = {payload.keys[i].kid : i \in Taken}
    /\ \A k \in DOMAIN keys_by_kid : \E i \in Taken :
          /\ keys_by_kid[k] = payload.keys[i] /\ payload.keys[i].kid = k
          /\ \A j \in Taken : payload.keys[j].kid = k => i <= j
    /\ duplicate_kids = {payload.keys[i].kid : i \in
                            {j \in Taken : \E h \in Taken : h < j /\ payload.keys[h].kid = payload.keys[j].kid}}

\* The parse ends as JwksDocument says, and its map takes each kid to the only
\* entry it can mean: an ambiguous body is refused, never resolved by the order
\* of its entries (jwks.py, _parse_jwks).
ParseCorrect ==
    /\ result = "map" =>
          /\ Parses(payload) /\ DOMAIN keys_by_kid = KeysByKid(payload)
          /\ \A i \in UsableAt(payload) : keys_by_kid[payload.keys[i].kid] = payload.keys[i]
    /\ result = "unavailable" => ParseUnavailable(payload)
    /\ result = "other" => ParseRaisesOther(payload)
===========================================================================
