---------------------------- MODULE KeyMaterial ----------------------------
(***************************************************************************)
(* The signing-key cache when the identity provider replaces a key behind  *)
(* an unchanged kid.  JWKSProvider lets a kid stand for its key; here the  *)
(* map, and the answer in flight, also know which of their kids carry a    *)
(* key the provider has replaced.  get_signing_key looks up kids and never *)
(* compares keys (src/pet/infra/auth/jwks.py, 92-94), so nothing in the    *)
(* code but the age of the map ends the use of a replaced key.             *)
(***************************************************************************)
EXTENDS JWKSProvider

VARIABLES
    outdated,        \* the kids of the map whose key is replaced
    outdatedAnswer,  \* the same for the answer in flight
    sinceReplaced    \* sinceReplaced[k]: ticks since k's key was replaced

materialVars == <<outdated, outdatedAnswer, sinceReplaced>>

MaterialInit ==
    /\ Init
    /\ outdated = {} /\ outdatedAnswer = {}
    /\ sinceReplaced = [k \in Kids |-> SinceCap]

---------------------------------------------------------------------------
\* The provider replaces the key of a kid some document lists.
Replace(k) ==
    /\ \E d \in Documents : k \in KeysByKid(d)
    /\ outdated' = outdated \cup ({k} \cap keys)
    /\ outdatedAnswer' = IF answer = NoAnswer THEN {}
                         ELSE outdatedAnswer \cup ({k} \cap KeysByKid(answer))
    /\ sinceReplaced' = [sinceReplaced EXCEPT ![k] = 0]
    /\ UNCHANGED vars

\* Faulty variant: a kid that is in the map keeps its key.
TakesUnknownOnly ==
    /\ outdated' = (outdated \cap KeysByKid(answer)) \cup (outdatedAnswer \ keys)
    /\ outdatedAnswer' = {}
    /\ UNCHANGED sinceReplaced

\* The new map is built from the answer alone, whatever the old one held.
TakesAll ==
    /\ outdated' = outdatedAnswer
    /\ outdatedAnswer' = {}
    /\ UNCHANGED sinceReplaced

\* A refresh that fails leaves the map and its keys alone.
TakesNothing ==
    /\ outdatedAnswer' = {}
    /\ UNCHANGED <<outdated, sinceReplaced>>

Ages ==
    /\ sinceReplaced' = [k \in Kids |-> Older(sinceReplaced[k], SinceCap)]
    /\ UNCHANGED <<outdated, outdatedAnswer>>

Adopts == StartServing \/ \E t \in Tasks : RefreshAdopts(t)

Fails == StartFails \/ \E t \in Tasks : RefreshFails(t) \/ RefreshErrors(t)

\* The steps that leave every key where it is; the answer the provider gives
\* carries the keys of the moment.
Keeps ==
    \/ StartFetch \/ Restart
    \/ \E t \in Tasks : (\E k \in Kids : Call(t, k)) \/ Wakes(t) \/ Collect(t)
    \/ ProviderAnswers
    \/ \E d \in Documents : Publish(d)
    \/ \E b \in BOOLEAN : SetUp(b)

MaterialNext ==
    \/ Adopts /\ TakesAll
    \/ Fails /\ TakesNothing
    \/ Keeps /\ UNCHANGED materialVars
    \/ Tick /\ Ages
    \/ \E k \in Kids : Replace(k)

MaterialSpec == MaterialInit /\ [][MaterialNext]_<<vars, materialVars>>

---------------------------------------------------------------------------
\* Which keys are out of date, and since when: no longer than the map is old,
\* plus the time its answer travelled (jwks.py, _refresh).
MaterialInv ==
    /\ outdated \subseteq keys
    /\ outdatedAnswer \subseteq Kids
    /\ sinceReplaced \in [Kids -> 0..SinceCap]
    /\ outdatedAnswer \subseteq IF answer = NoAnswer THEN {} ELSE KeysByKid(answer)
    /\ age # Never => \A k \in outdated : sinceReplaced[k] <= age + MaxTransit
    /\ \A k \in outdatedAnswer : sinceReplaced[k] <= transit

\* A key replaced behind its kid is found in the map, and the signature check
\* that then fails, or succeeds for the old key's owner, asks for no refresh:
\* still it is handed out for no longer than the cache lives, CacheTtl (and
\* the transit) after it was replaced, and MaxStale more only to a call whose
\* own refresh failed (jwks.py, get_signing_key).
ReplacementWindow ==
    [][\A t \in Tasks : (Ends(t, "key") /\ kid'[t] \in outdated') =>
         \/ sinceReplaced[kid'[t]] < CacheTtl + MaxTransit
         \/ /\ pc[t] = "fetching" /\ Unavailable
            /\ sinceReplaced[kid'[t]] <= CacheTtl + MaxStale + MaxTransit
      ]_<<vars, materialVars>>

============================================================================
