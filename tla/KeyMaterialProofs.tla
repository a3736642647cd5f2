------------------------- MODULE KeyMaterialProofs -------------------------
(***************************************************************************)
(* Proofs about KeyMaterial, for any tasks, kids, documents and bounds:    *)
(* it adds keys to JWKSProvider without changing it, and a replaced key is *)
(* used no longer than a withdrawn one.                                    *)
(***************************************************************************)
EXTENDS KeyMaterial, JWKSProviderProofs

\* The steps of the cache and the provider are those of JWKSProvider.
LEMMA MaterialSteps ==
    [MaterialNext]_<<vars, materialVars>> => [Next]_vars
<1> SUFFICES ASSUME [MaterialNext]_<<vars, materialVars>> PROVE [Next]_vars
  OBVIOUS
<1>1. CASE Adopts
  BY <1>1 DEF Adopts, Next, Refreshed
<1>2. CASE Fails
  BY <1>2 DEF Fails, Next, Refreshed
<1>3. CASE Keeps
  BY <1>3 DEF Keeps, Next
<1>4. CASE Tick
  BY <1>4 DEF Next
<1>5. ASSUME NEW k \in Kids, Replace(k) PROVE UNCHANGED vars
  BY <1>5 DEF Replace
<1> QED
  BY <1>1, <1>2, <1>3, <1>4, <1>5 DEF MaterialNext

\* Keys that are replaced are nothing the cache reacts to: whatever is proved
\* of JWKSProvider holds here (jwks.py, get_signing_key compares kids).
THEOREM ImplementsProvider == MaterialSpec => Spec
  BY MaterialSteps, PTL DEF MaterialSpec, MaterialInit, Spec

LEMMA ProviderInvariants == MaterialSpec => [](TypeOK /\ LockInv)
  BY ImplementsProvider, TypeCorrect, LockSafe, PTL

\* At the start no key has been replaced.
LEMMA MaterialInvInit == MaterialInit => MaterialInv
  BY BoundsNat, NamesAssumption DEF MaterialInit, Init, MaterialInv

\* The steps that leave the keys alone keep the map, and its age, and the
\* answer in flight, unless it is the answer that arrives.
LEMMA KeepsSame ==
    ASSUME Keeps
    PROVE  /\ UNCHANGED <<keys, age, transit>>
           /\ answer # NoAnswer => answer' = answer
<1> USE DEF cacheVars, lockVars, callVars, sourceVars, flightVars, forcedVars
<1>1. ASSUME NEW t \in Tasks, NEW k \in Kids,
             \/ FastPath(t, k) \/ Enqueue(t, k) \/ RecheckHit(t, k)
             \/ RateLimited(t, k) \/ ForceRefresh(t, k) \/ RefreshStale(t, k)
      PROVE  UNCHANGED <<keys, age, transit, answer>>
  BY <1>1 DEF FastPath, Enqueue, RecheckHit, RateLimited, ForceRefresh, RefreshStale,
     BeginFetch
<1>2. ASSUME NEW t \in Tasks, (\E k \in Kids : Call(t, k)) \/ Wakes(t)
      PROVE  UNCHANGED <<keys, age, transit, answer>>
  BY <1>1, <1>2 DEF Call, Wakes
<1>3. ASSUME NEW t \in Tasks, Collect(t) PROVE UNCHANGED <<keys, age, transit, answer>>
  BY <1>3 DEF Collect
<1>4. CASE StartFetch \/ Restart
  BY <1>4 DEF StartFetch, Restart
<1>5. CASE ProviderAnswers
  BY <1>5 DEF ProviderAnswers
<1>6. ASSUME NEW d \in Documents, Publish(d) PROVE UNCHANGED <<keys, age, transit, answer>>
  BY <1>6 DEF Publish
<1>7. ASSUME NEW b \in BOOLEAN, SetUp(b) PROVE UNCHANGED <<keys, age, transit, answer>>
  BY <1>7 DEF SetUp
<1> QED
  BY <1>2, <1>3, <1>4, <1>5, <1>6, <1>7 DEF Keeps

\* What an adopted answer holds that is out of date was replaced while the
\* answer travelled.
LEMMA AdoptsFresh ==
    ASSUME TypeOK, MaterialInv, Adopts
    PROVE  /\ answer # NoAnswer /\ keys' = KeysByKid(answer) /\ age' = 0
           /\ answer' = NoAnswer
           /\ \A k \in outdatedAnswer : sinceReplaced[k] <= MaxTransit
<1>1. Adopted /\ Release
  BY DEF Adopts, StartServing, RefreshAdopts
<1>2. \A k \in outdatedAnswer : sinceReplaced[k] <= transit
  BY DEF MaterialInv
<1>3. transit \in 0..MaxTransit /\ outdatedAnswer \subseteq Kids
  BY DEF TypeOK, MaterialInv
<1>4. \A k \in outdatedAnswer : sinceReplaced[k] \in 0..SinceCap
  BY <1>3 DEF MaterialInv
<1> QED
  BY <1>1, <1>2, <1>3, <1>4, BoundsNat, BoundsAssumption DEF Adopted, Release

LEMMA MaterialInvAdopts ==
    ASSUME TypeOK, MaterialInv, Adopts, TakesAll
    PROVE  MaterialInv'
<1>1. outdated' = outdatedAnswer /\ outdatedAnswer' = {} /\ sinceReplaced' = sinceReplaced
  BY DEF TakesAll
<1>2. outdatedAnswer \subseteq KeysByKid(answer)
  BY AdoptsFresh DEF MaterialInv
<1> QED
  BY <1>1, <1>2, AdoptsFresh, BoundsAssumption DEF MaterialInv

LEMMA MaterialInvFails ==
    ASSUME MaterialInv, Fails, TakesNothing
    PROVE  MaterialInv'
<1>1. UNCHANGED <<keys, age>> /\ answer' = NoAnswer
  BY DEF Fails, StartFails, RefreshFails, RefreshErrors, Release, cacheVars
<1> QED
  BY <1>1 DEF TakesNothing, MaterialInv

LEMMA MaterialInvTick ==
    ASSUME TypeOK, MaterialInv, Tick, Ages
    PROVE  MaterialInv'
<1>1. /\ keys' = keys /\ answer' = answer
      /\ outdated' = outdated /\ outdatedAnswer' = outdatedAnswer
  BY DEF Tick, Ages
<1>2. \A k \in Kids : /\ sinceReplaced'[k] = Older(sinceReplaced[k], SinceCap)
                      /\ sinceReplaced[k] \in 0..SinceCap
  BY DEF Ages, MaterialInv
<1>3. sinceReplaced' \in [Kids -> 0..SinceCap]
  BY <1>2, OlderTyped, BoundsNat DEF Ages
<1>4. ASSUME age' # Never, NEW k \in outdated PROVE sinceReplaced'[k] <= age' + MaxTransit
  <2>1. age \in 0..AgeCap /\ age' = Older(age, AgeCap) /\ age # Never
    BY <1>4 DEF Tick, TypeOK
  <2>2. sinceReplaced[k] <= age + MaxTransit /\ k \in Kids
    BY <2>1 DEF MaterialInv, TypeOK
  <2> QED
    BY <1>2, <2>1, <2>2, BoundsNat, BoundsAssumption DEF Older
<1>5. ASSUME NEW k \in outdatedAnswer PROVE sinceReplaced'[k] <= transit'
  <2>1. answer # NoAnswer /\ k \in Kids /\ sinceReplaced[k] <= transit
    BY DEF MaterialInv
  <2>2. transit' = transit + 1 /\ transit \in Nat
    BY <2>1, BoundsAssumption DEF Tick, TypeOK
  <2> QED
    BY <1>2, <2>1, <2>2, BoundsNat DEF Older
<1> QED
  BY <1>1, <1>3, <1>4, <1>5 DEF MaterialInv

LEMMA MaterialInvReplace ==
    ASSUME TypeOK, MaterialInv, NEW k \in Kids, Replace(k)
    PROVE  MaterialInv'
<1>1. UNCHANGED <<keys, age, answer, transit>>
  BY DEF Replace, vars, cacheVars, flightVars
<1>2. /\ sinceReplaced' \in [Kids -> 0..SinceCap]
      /\ \A j \in Kids : sinceReplaced'[j] = 0 \/ (j # k /\ sinceReplaced'[j] = sinceReplaced[j])
  BY BoundsNat DEF Replace, MaterialInv
<1>3. outdated' \subseteq keys /\ \A j \in outdated' : j # k => j \in outdated
  BY DEF Replace, MaterialInv
<1>4. /\ outdatedAnswer' \subseteq IF answer = NoAnswer THEN {} ELSE KeysByKid(answer)
      /\ outdatedAnswer' \subseteq Kids
      /\ \A j \in outdatedAnswer' : j # k => j \in outdatedAnswer
  BY DEF Replace, MaterialInv
<1>5. keys \subseteq Kids /\ transit >= 0 /\ (age # Never => age + MaxTransit >= 0)
  BY BoundsNat, BoundsAssumption DEF TypeOK
<1> QED
  BY <1>1, <1>2, <1>3, <1>4, <1>5 DEF MaterialInv

LEMMA MaterialInvNext ==
    TypeOK /\ MaterialInv /\ [MaterialNext]_<<vars, materialVars>> => MaterialInv'
<1> SUFFICES ASSUME TypeOK, MaterialInv, [MaterialNext]_<<vars, materialVars>>
             PROVE  MaterialInv'
  OBVIOUS
<1>1. CASE Keeps /\ UNCHANGED materialVars
  <2>1. /\ UNCHANGED <<keys, age, transit, materialVars>>
        /\ answer = NoAnswer \/ answer' = answer
    BY <1>1, KeepsSame
  <2>2. outdatedAnswer' \subseteq IF answer' = NoAnswer THEN {} ELSE KeysByKid(answer')
    BY <2>1 DEF MaterialInv, materialVars
  <2> QED
    BY <2>1, <2>2 DEF MaterialInv, materialVars
<1>2. CASE UNCHANGED <<vars, materialVars>>
  BY <1>2 DEF vars, cacheVars, flightVars, materialVars, MaterialInv
<1> QED
  BY <1>1, <1>2, MaterialInvAdopts, MaterialInvFails, MaterialInvTick, MaterialInvReplace
     DEF MaterialNext

\* The keys the map holds are never further out of date than the map is old
\* and its answer travelled (jwks.py 126-139).
THEOREM MaterialSafe == MaterialSpec => []MaterialInv
<1>1. MaterialInv /\ TypeOK /\ [MaterialNext]_<<vars, materialVars>> => MaterialInv'
  BY MaterialInvNext
<1> QED
  BY <1>1, MaterialInvInit, ProviderInvariants, PTL DEF MaterialSpec

---------------------------------------------------------------------------

\* A call that ends with a key, and without a refresh of its own, found the
\* map fresh.
LEMMA KeepsEndsFresh ==
    ASSUME TypeOK, Keeps, NEW t \in Tasks, Ends(t, "key")
    PROVE  kid'[t] \in Kids /\ Fresh(kid'[t])
<1> USE DEF cacheVars, lockVars, callVars, sourceVars, flightVars, forcedVars
<1>1. ASSUME NEW u \in Tasks, NEW k \in Kids, FastPath(u, k) \/ RecheckHit(u, k)
      PROVE  kid'[t] \in Kids /\ Fresh(kid'[t])
  <2>1. u = t /\ kid'[t] = k
    BY <1>1 DEF FastPath, RecheckHit, Returns, Ends, TypeOK
  <2> QED
    BY <1>1, <2>1 DEF FastPath, RecheckHit
<1>2. ASSUME NEW u \in Tasks, NEW k \in Kids,
             Enqueue(u, k) \/ ForceRefresh(u, k) \/ RefreshStale(u, k)
      PROVE  FALSE
  BY <1>2 DEF Enqueue, ForceRefresh, RefreshStale, BeginFetch, Ends, TypeOK
<1>3. ASSUME NEW u \in Tasks, NEW k \in Kids, RateLimited(u, k) PROVE FALSE
  BY <1>3 DEF RateLimited, Returns, Ends, TypeOK
<1>4. ASSUME NEW u \in Tasks, Collect(u) PROVE FALSE
  BY <1>4 DEF Collect, Ends, TypeOK
<1>5. ~ (StartFetch \/ Restart \/ ProviderAnswers)
  BY DEF StartFetch, Restart, ProviderAnswers, Ends
<1>6. ~ (\E d \in Documents : Publish(d)) /\ ~ (\E b \in BOOLEAN : SetUp(b))
  BY DEF Publish, SetUp, Ends
<1> QED
  BY <1>1, <1>2, <1>3, <1>4, <1>5, <1>6 DEF Keeps, Call, Wakes

LEMMA ReplacementStep ==
    ASSUME TypeOK, LockInv, MaterialInv, MaterialNext, NEW t \in Tasks, Ends(t, "key"),
           kid'[t] \in outdated'
    PROVE  \/ sinceReplaced[kid'[t]] < CacheTtl + MaxTransit
           \/ /\ pc[t] = "fetching" /\ Unavailable
              /\ sinceReplaced[kid'[t]] <= CacheTtl + MaxStale + MaxTransit
<1>1. CASE Adopts /\ TakesAll
  <2>1. kid'[t] \in outdatedAnswer /\ kid'[t] \in Kids
    BY <1>1 DEF TakesAll, MaterialInv
  <2>2. sinceReplaced[kid'[t]] <= MaxTransit /\ sinceReplaced[kid'[t]] \in 0..SinceCap
    BY <1>1, <2>1, AdoptsFresh DEF MaterialInv
  <2> QED
    BY <2>2, BoundsNat, BoundsAssumption
<1>2. CASE Fails /\ TakesNothing
  <2>1. PICK u \in Tasks : RefreshFails(u) \/ RefreshErrors(u)
    BY <1>2 DEF Fails, StartFails, Ends, callVars
  <2>2. u = t /\ RefreshFails(t)
    BY <2>1 DEF RefreshFails, RefreshErrors, Returns, Ends, TypeOK
  <2>3. pc[t] = "fetching" /\ Unavailable /\ IsStaleUsable
    BY <2>2 DEF RefreshFails, Returns, Ends, TypeOK
  <2>4. kid'[t] \in outdated /\ kid'[t] \in Kids
    BY <1>2 DEF TakesNothing, MaterialInv, TypeOK
  <2>5. age # Never /\ age \in 0..AgeCap /\ age <= CacheTtl + MaxStale
    BY <2>3, BoundsAssumption, BoundsNat DEF IsStaleUsable, TypeOK
  <2>6. /\ sinceReplaced[kid'[t]] <= age + MaxTransit
        /\ sinceReplaced[kid'[t]] \in 0..SinceCap
    BY <2>4, <2>5 DEF MaterialInv
  <2> QED
    BY <2>3, <2>5, <2>6, BoundsAssumption, BoundsNat
<1>3. CASE Keeps /\ UNCHANGED materialVars
  <2>1. kid'[t] \in Kids /\ ~ IsStale
    BY <1>3, KeepsEndsFresh DEF Fresh
  <2>2. age # Never /\ age \in 0..AgeCap /\ age < CacheTtl
    BY <2>1, BoundsAssumption, BoundsNat DEF IsStale, TypeOK
  <2>3. kid'[t] \in outdated
    BY <1>3 DEF materialVars
  <2>4. /\ sinceReplaced[kid'[t]] <= age + MaxTransit
        /\ sinceReplaced[kid'[t]] \in 0..SinceCap
    BY <2>1, <2>2, <2>3 DEF MaterialInv
  <2> QED
    BY <2>2, <2>4, BoundsAssumption, BoundsNat
<1>4. CASE Tick
  BY <1>4 DEF Tick, Ends, callVars
<1>5. ASSUME NEW k \in Kids, Replace(k) PROVE FALSE
  BY <1>5 DEF Replace, vars, callVars, Ends
<1> QED
  BY <1>1, <1>2, <1>3, <1>4, <1>5 DEF MaterialNext

\* Whoever replaces a key behind its kid can count on the life of the cache,
\* although nothing in the code notices the replacement (jwks.py 92-118).
THEOREM ReplacementSafe == MaterialSpec => ReplacementWindow
<1>1. TypeOK /\ LockInv /\ MaterialInv /\ [MaterialNext]_<<vars, materialVars>> =>
        [\A t \in Tasks : (Ends(t, "key") /\ kid'[t] \in outdated') =>
           \/ sinceReplaced[kid'[t]] < CacheTtl + MaxTransit
           \/ /\ pc[t] = "fetching" /\ Unavailable
              /\ sinceReplaced[kid'[t]] <= CacheTtl + MaxStale + MaxTransit
        ]_<<vars, materialVars>>
  BY ReplacementStep
<1> QED
  BY <1>1, ProviderInvariants, MaterialSafe, PTL DEF MaterialSpec, ReplacementWindow
============================================================================
