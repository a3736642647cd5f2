----------------------- MODULE AuthenticationProofs -----------------------
(***************************************************************************)
(* Authentication runs the cache of signing keys as it is: whatever is     *)
(* proved of JWKSProvider holds of it.  From there, for every set of       *)
(* tokens, endpoints, tasks and keys and every choice of the bounds, who   *)
(* is admitted deserved it and who is refused is told why.                 *)
(***************************************************************************)
EXTENDS Authentication, JWKSProviderProofs

\* Every step of a request is a step of the cache, or none.
LEMMA AuthStepIsCacheStep == [AuthNext]_allVars => [Next]_vars
<1> SUFFICES ASSUME [AuthNext]_allVars PROVE [Next]_vars
  OBVIOUS
<1>1. CASE UNCHANGED allVars
  BY <1>1 DEF allVars
<1>2. ASSUME NEW t \in Tasks, NEW q \in Requests, RefuseAtOnce(t, q) PROVE [Next]_vars
  BY <1>2 DEF RefuseAtOnce
<1>3. ASSUME NEW t \in Tasks, NEW q \in Requests, NEW left \in 0..MaxLife,
             Present(t, q, left)
      PROVE  [Next]_vars
  <2>1. q.token \in Token /\ q.token.kid \in Kids
    BY <1>3, AuthenticationAssumption DEF Present, HeaderAccepted, Token
  <2> QED
    BY <1>3, <2>1 DEF Present, Next
<1>4. ASSUME NEW t \in Tasks, Resume(t) PROVE [Next]_vars
  BY <1>4 DEF Resume, Next
<1>5. ASSUME NEW t \in Tasks, Finish(t) PROVE [Next]_vars
  BY <1>5 DEF Finish, Next
<1>6. CASE Passes
  BY <1>6 DEF Passes, Next
<1>7. CASE Around
  BY <1>7 DEF Around, Next
<1> QED
  BY <1>1, <1>2, <1>3, <1>4, <1>5, <1>6, <1>7 DEF AuthNext

\* The composition implements the cache it is built on, so the windows, the
\* rate limit and the lock hold under authentication as they do alone
\* (verify calls get_signing_key and nothing else of the provider).
THEOREM AuthenticationImplementsCache == AuthSpec => Spec
<1>1. AuthInit => Init
  BY DEF AuthInit
<1> QED
  BY <1>1, AuthStepIsCacheStep, PTL DEF AuthSpec, Spec

---------------------------------------------------------------------------
\* The requests and their lookups.

\* A call for k leaves t waiting, fetching or done with k, and nobody else
\* moves; so do a wakeup and a refresh, with the kid t has.
LEMMA CallFrame ==
    ASSUME TypeOK, NEW t \in Tasks, NEW k \in Kids, Call(t, k)
    PROVE  /\ pc'[t] \in {"waiting", "fetching", "done"} /\ kid'[t] = k
           /\ \A u \in Tasks : u # t => pc'[u] = pc[u] /\ kid'[u] = kid[u]
  BY DEF Call, FastPath, Enqueue, RateLimited, ForceRefresh, RefreshStale, BeginFetch,
         Returns, TypeOK

LEMMA ResumeFrame ==
    ASSUME TypeOK, NEW t \in Tasks, Wakes(t) \/ Refreshed(t)
    PROVE  /\ pc[t] \in {"waiting", "fetching"}
           /\ pc'[t] \in {"fetching", "done"} /\ kid'[t] = kid[t]
           /\ \A u \in Tasks : u # t => pc'[u] = pc[u] /\ kid'[u] = kid[u]
<1>1. CASE Refreshed(t)
  BY <1>1 DEF Refreshed, RefreshAdopts, RefreshFails, RefreshErrors, Returns, TypeOK
<1>2. ASSUME NEW k \in Kids, pc[t] = "waiting",
             \/ RecheckHit(t, k) \/ RateLimited(t, k)
             \/ ForceRefresh(t, k) \/ RefreshStale(t, k)
      PROVE  /\ pc'[t] \in {"fetching", "done"} /\ kid'[t] = kid[t]
             /\ \A u \in Tasks : u # t => pc'[u] = pc[u] /\ kid'[u] = kid[u]
  <2>1. kid[t] = k
    BY <1>2 DEF RecheckHit, RateLimited, ForceRefresh, RefreshStale, Obtains, CanCall
  <2> QED
    BY <1>2, <2>1 DEF RecheckHit, RateLimited, ForceRefresh, RefreshStale, BeginFetch,
       Returns, TypeOK
<1> QED
  BY <1>1, <1>2 DEF Wakes

LEMMA CollectFrame ==
    ASSUME TypeOK, NEW t \in Tasks, Collect(t)
    PROVE  pc'[t] = "idle" /\ \A u \in Tasks : u # t => pc'[u] = pc[u] /\ kid'[u] = kid[u]
  BY DEF Collect, TypeOK

LEMMA DecisionTyped ==
    ASSUME NEW q, NEW out, NEW left
    PROVE  Decision(q, out, left) \in {"admitted", "insufficient_scope",
                                       "temporarily_unavailable", "invalid_token"}
  BY DEF Decision

\* A request in the hands of a task.
LEMMA RequestFacts ==
    ASSUME AuthTypeOK, NEW t \in Tasks, request[t] # NoRequest
    PROVE  request[t] \in Requests /\ request[t].token \in Token \cup {NoToken}
  BY AuthenticationAssumption DEF AuthTypeOK

LEMMA AuthTypeInit == AuthInit => AuthTypeOK
  BY AuthenticationAssumption DEF AuthInit, Init, AuthTypeOK

LEMMA AuthTypeNext == TypeOK /\ AuthTypeOK /\ [AuthNext]_allVars => AuthTypeOK'
<1> SUFFICES ASSUME TypeOK, AuthTypeOK, [AuthNext]_allVars PROVE AuthTypeOK'
  OBVIOUS
<1>1. CASE UNCHANGED allVars
  BY <1>1 DEF allVars, vars, callVars, authVars, AuthTypeOK
<1>2. ASSUME NEW t \in Tasks, NEW q \in Requests, RefuseAtOnce(t, q) PROVE AuthTypeOK'
  <2>1. pc[t] = "idle" /\ pc' = pc /\ kid' = kid
    BY <1>2 DEF RefuseAtOnce, Idle, AuthTypeOK, vars, callVars
  <2> QED
    BY <1>2, <2>1, AuthenticationAssumption DEF RefuseAtOnce, Idle, AuthTypeOK, Refusals
<1>3. ASSUME NEW t \in Tasks, NEW q \in Requests, NEW left \in 0..MaxLife,
             Present(t, q, left)
      PROVE  AuthTypeOK'
  <2>1. q.token \in Token /\ q.token.kid \in Kids
    BY <1>3, AuthenticationAssumption DEF Present, HeaderAccepted, Token
  <2>2. /\ pc'[t] \in {"waiting", "fetching", "done"} /\ kid'[t] = q.token.kid
        /\ \A u \in Tasks : u # t => pc'[u] = pc[u] /\ kid'[u] = kid[u]
    BY <1>3, <2>1, CallFrame DEF Present
  <2>3. reply[t] = "none"
    BY <1>3 DEF Present, Idle, AuthTypeOK
  <2> QED
    BY <1>3, <2>1, <2>2, <2>3, DecisionTyped, AuthenticationAssumption
    DEF Present, Decides, AuthTypeOK, Refusals
<1>4. ASSUME NEW t \in Tasks, Resume(t) PROVE AuthTypeOK'
  <2>1. /\ pc[t] \in {"waiting", "fetching"}
        /\ pc'[t] \in {"fetching", "done"} /\ kid'[t] = kid[t]
        /\ \A u \in Tasks : u # t => pc'[u] = pc[u] /\ kid'[u] = kid[u]
    BY <1>4, ResumeFrame DEF Resume
  <2>2. reply[t] = "none" /\ request[t] # NoRequest
    BY <2>1 DEF AuthTypeOK
  <2> QED
    BY <1>4, <2>1, <2>2, DecisionTyped DEF Resume, Decides, AuthTypeOK, Refusals
<1>5. ASSUME NEW t \in Tasks, Finish(t) PROVE AuthTypeOK'
  <2>1. pc'[t] = "idle" /\ \A u \in Tasks : u # t => pc'[u] = pc[u] /\ kid'[u] = kid[u]
    <3>1. CASE pc[t] = "done"
      BY <1>5, <3>1, CollectFrame DEF Finish
    <3>2. CASE pc[t] # "done"
      BY <1>5, <3>2 DEF Finish, AuthTypeOK, TypeOK, vars, callVars
    <3> QED
      BY <3>1, <3>2
  <2> QED
    BY <1>5, <2>1, AuthenticationAssumption DEF Finish, AuthTypeOK
<1>6. CASE Passes
  BY <1>6, AuthenticationAssumption DEF Passes, Tick, AuthTypeOK, callVars
<1>7. CASE Around
  <2>1. pc' = pc /\ kid' = kid
    BY <1>7 DEF Around, StartFetch, StartServing, StartFails, Restart, ProviderAnswers,
       Publish, SetUp, callVars
  <2> QED
    BY <1>7, <2>1 DEF Around, authVars, AuthTypeOK
<1> QED
  BY <1>1, <1>2, <1>3, <1>4, <1>5, <1>6, <1>7 DEF AuthNext

\* Requests and lookups stay in step: a task decides exactly when its lookup
\* ends, and looks up the kid of the token it was given.
THEOREM AuthTypeCorrect == AuthSpec => []AuthTypeOK
<1>1. AuthSpec => []TypeOK
  BY AuthenticationImplementsCache, TypeCorrect
<1> QED
  BY <1>1, AuthTypeInit, AuthTypeNext, PTL DEF AuthSpec

---------------------------------------------------------------------------
\* Admissions and refusals.

LEMMA DecisionAdmits ==
    ASSUME NEW q, NEW out, NEW left, Decision(q, out, left) = "admitted"
    PROVE  out = "key" /\ Verified(q.token, left) /\ q.needs \subseteq ScopesOf(q.token)
  BY Zenon DEF Decision

LEMMA DecisionRefuses ==
    ASSUME NEW q, NEW out, NEW left
    PROVE  /\ Decision(q, out, left) = "invalid_token" =>
                  out # "unavailable" /\ ~ (out = "key" /\ Verified(q.token, left))
           /\ Decision(q, out, left) = "temporarily_unavailable" => out = "unavailable"
  BY DEF Decision

\* A reply other than the two of RefuseAtOnce is given as a lookup ends.
LEMMA DecidedInStep ==
    ASSUME TypeOK, AuthTypeOK, AuthNext, NEW t \in Tasks,
           reply'[t] # reply[t], reply'[t] # "none"
    PROVE  \/ \E q \in Requests : RefuseAtOnce(t, q)
           \/ /\ Next /\ pc[t] # "done" /\ pc'[t] = "done"
              /\ kid'[t] = request'[t].token.kid
              /\ reply'[t] = Decision(request'[t], outcome'[t], life'[t])
              /\ pc[t] # "idle" => request'[t] = request[t] /\ kid'[t] = kid[t]
<1>1. CASE Passes \/ Around
  BY <1>1 DEF Passes, Around, authVars
<1>2. ASSUME NEW u \in Tasks, NEW q \in Requests, RefuseAtOnce(u, q)
      PROVE  RefuseAtOnce(t, q)
  BY <1>2 DEF RefuseAtOnce, AuthTypeOK
<1>3. ASSUME NEW u \in Tasks, Finish(u) PROVE FALSE
  BY <1>3 DEF Finish, AuthTypeOK
<1>4. ASSUME NEW u \in Tasks, NEW q \in Requests, NEW left \in 0..MaxLife,
             Present(u, q, left)
      PROVE  /\ Next /\ pc[t] = "idle" /\ pc'[t] = "done"
             /\ request'[t] = q /\ kid'[t] = q.token.kid
             /\ reply'[t] = Decision(q, outcome'[t], left) /\ life'[t] = left
  <2>1. q.token \in Token /\ q.token.kid \in Kids
    BY <1>4, AuthenticationAssumption DEF Present, HeaderAccepted, Token
  <2>2. u = t /\ pc'[u] = "done"
    BY <1>4 DEF Present, Decides, AuthTypeOK
  <2>3. kid'[t] = q.token.kid
    BY <1>4, <2>1, <2>2, CallFrame DEF Present
  <2>4. pc[t] = "idle"
    BY <1>4, <2>2 DEF Present, Idle, AuthTypeOK
  <2> QED
    BY <1>4, <2>1, <2>2, <2>3, <2>4 DEF Present, Decides, AuthTypeOK, Next
<1>5. ASSUME NEW u \in Tasks, Resume(u)
      PROVE  /\ Next /\ pc[t] \in {"waiting", "fetching"} /\ pc'[t] = "done"
             /\ request'[t] = request[t] /\ kid'[t] = kid[t]
             /\ kid[t] = request[t].token.kid
             /\ reply'[t] = Decision(request'[t], outcome'[t], life'[t])
  <2>1. u = t /\ pc'[u] = "done"
    BY <1>5 DEF Resume, Decides, AuthTypeOK
  <2>2. pc[t] \in {"waiting", "fetching"} /\ kid'[t] = kid[t]
    BY <1>5, <2>1, ResumeFrame DEF Resume
  <2> QED
    BY <1>5, <2>1, <2>2 DEF Resume, Decides, AuthTypeOK, Next
<1> QED
  BY <1>1, <1>2, <1>3, <1>4, <1>5 DEF AuthNext

\* Nobody is admitted on a token that expired during the lookup, with a scope
\* the token does not grant, or under a key withdrawn longer ago than the
\* cache lives (keycloak_verifier.py 64-100, auth.py 51-60).
THEOREM AdmissionSafe == AuthSpec => AdmissionSound
<1> DEFINE Admission ==
      \A t \in Tasks : Admits(t) =>
         LET tok == request'[t].token IN
         /\ tok.genuine /\ tok.issuer /\ life'[t] > 0
         /\ \E c \in tok.aud \cup {tok.azp} : Audiences # {} => c \in Audiences
         /\ \A s \in request'[t].needs :
               \/ tok.scope # Absent /\ s \in tok.scope
               \/ tok.scope = Absent /\ s \in tok.scp
         /\ \/ IsListed(tok.kid)
            \/ since[tok.kid] <= CacheTtl + MaxStale + MaxTransit
<1>1. TypeOK /\ LockInv /\ SnapshotInv /\ AuthTypeOK /\ [AuthNext]_allVars
        => [Admission]_allVars
  <2> SUFFICES ASSUME TypeOK, LockInv, SnapshotInv, AuthTypeOK, AuthNext,
                      NEW t \in Tasks, Admits(t)
               PROVE  LET tok == request'[t].token IN
                      /\ tok.genuine /\ tok.issuer /\ life'[t] > 0
                      /\ \E c \in tok.aud \cup {tok.azp} : Audiences # {} => c \in Audiences
                      /\ \A s \in request'[t].needs :
                            \/ tok.scope # Absent /\ s \in tok.scope
                            \/ tok.scope = Absent /\ s \in tok.scp
                      /\ \/ IsListed(tok.kid)
                         \/ since[tok.kid] <= CacheTtl + MaxStale + MaxTransit
    OBVIOUS
  <2>1. ~ \E q \in Requests : RefuseAtOnce(t, q)
    BY DEF Admits, RefuseAtOnce, AuthTypeOK
  <2>2. /\ Next /\ pc[t] # "done" /\ pc'[t] = "done"
        /\ kid'[t] = request'[t].token.kid
        /\ Decision(request'[t], outcome'[t], life'[t]) = "admitted"
    BY <2>1, DecidedInStep DEF Admits
  <2>3. /\ outcome'[t] = "key" /\ Verified(request'[t].token, life'[t])
        /\ request'[t].needs \subseteq ScopesOf(request'[t].token)
    BY <2>2, DecisionAdmits
  <2>4. \/ IsListed(kid'[t])
        \/ since[kid'[t]] < CacheTtl + MaxTransit
        \/ since[kid'[t]] <= CacheTtl + MaxStale + MaxTransit
    BY <2>2, <2>3, RevocationStep DEF Ends
  <2>5. \/ IsListed(kid'[t])
        \/ since[kid'[t]] <= CacheTtl + MaxStale + MaxTransit
    <3>1. kid'[t] \in Kids
      BY <2>2, <2>3, EndsCases DEF RefreshAdopts, RefreshFails, RefreshErrors, Returns,
         LockInv, HolderInv, TypeOK
    <3>2. since[kid'[t]] \in 0..SinceCap
      BY <3>1 DEF TypeOK
    <3> QED
      BY <2>4, <3>2, BoundsAssumption, BoundsNat
  <2> QED
    BY <2>2, <2>3, <2>5 DEF Verified, Decodes, AudienceAccepted, ScopesOf
<1>2. AuthSpec => [](TypeOK /\ LockInv /\ SnapshotInv)
  BY AuthenticationImplementsCache, TypeCorrect, LockSafe, SnapshotSafe, PTL
<1> QED
  BY <1>1, <1>2, AuthTypeCorrect, PTL DEF AuthSpec, AdmissionSound

\* A lookup that ends unavailable is a refresh that failed while the map could
\* not stand in.
LEMMA UnavailableStep ==
    ASSUME TypeOK, LockInv, Next, NEW t \in Tasks, Ends(t, "unavailable")
    PROVE  /\ pc[t] = "fetching" /\ Unavailable
           /\ kid[t] \notin keys \/ age > CacheTtl + MaxStale
<1>1. RefreshFails(t)
  BY EndsCases DEF Ends, FastPath, RecheckHit, RateLimited, RefreshAdopts, RefreshErrors,
     Returns, TypeOK
<1>2. ~ (IsStaleUsable /\ seen[t]) /\ pc[t] = "fetching"
  BY <1>1 DEF RefreshFails, Returns, Ends, TypeOK
<1>3. age # Never /\ age \in 0..AgeCap /\ (seen[t] <=> kid[t] \in keys)
  BY <1>2 DEF LockInv, HolderInv, TypeOK
<1> QED
  BY <1>1, <1>2, <1>3, BoundsAssumption, BoundsNat DEF IsStaleUsable, RefreshFails

LEMMA EndsSomehow ==
    ASSUME TypeOK, Next, NEW t \in Tasks, pc[t] # "done", pc'[t] = "done"
    PROVE  outcome'[t] \in {"key", "not_found", "unavailable", "error"}
  BY EndsCases DEF FastPath, RecheckHit, RateLimited, RefreshAdopts, RefreshFails,
     RefreshErrors, Returns, TypeOK

\* A refusal that rests on an answer of the cache has its cause in the token, in
\* a key that is withdrawn or new, or in an outage the map cannot bridge
\* (keycloak_verifier.py 64-96).
THEOREM CacheRefusalSafe == AuthSpec => CacheRefusalJustified
<1> DEFINE Invalid(t) ==
             \/ ~ Good(t)
             \/ ~ IsListed(request'[t].token.kid)
             \/ since[request'[t].token.kid] < CacheTtl + MaxTransit
           Blocked(t) ==
             /\ Unavailable
             /\ request[t].token.kid \notin keys \/ age > CacheTtl + MaxStale
           Justified ==
             \A t \in Tasks :
               /\ (Refuses(t, "invalid_token") /\ outcome'[t] # "error") => Invalid(t)
               /\ Refuses(t, "temporarily_unavailable") => Blocked(t)
<1>1. TypeOK /\ LockInv /\ SnapshotInv /\ AuthTypeOK /\ [AuthNext]_allVars
        => [Justified]_allVars
  <2> SUFFICES ASSUME TypeOK, LockInv, SnapshotInv, AuthTypeOK, AuthNext, NEW t \in Tasks
               PROVE  /\ (Refuses(t, "invalid_token") /\ outcome'[t] # "error") => Invalid(t)
                      /\ Refuses(t, "temporarily_unavailable") => Blocked(t)
    OBVIOUS
  <2>1. ASSUME Refuses(t, "invalid_token"), outcome'[t] # "error" PROVE Invalid(t)
    <3>1. CASE \E q \in Requests : RefuseAtOnce(t, q)
      <4>1. ~ HeaderAccepted(request'[t].token)
        BY <3>1, <2>1 DEF RefuseAtOnce, Refuses, AuthTypeOK
      <4> QED
        BY <4>1 DEF Good
    <3>2. CASE ~ \E q \in Requests : RefuseAtOnce(t, q)
      <4>1. /\ Next /\ pc[t] # "done" /\ pc'[t] = "done"
            /\ kid'[t] = request'[t].token.kid
            /\ Decision(request'[t], outcome'[t], life'[t]) = "invalid_token"
        BY <3>2, <2>1, DecidedInStep DEF Refuses
      <4>2. CASE outcome'[t] = "key"
        <5>1. ~ Verified(request'[t].token, life'[t])
          BY <4>1, <4>2, DecisionRefuses
        <5> QED
          BY <5>1 DEF Good
      <4>3. CASE outcome'[t] = "not_found"
        BY <4>1, <4>3, DiscoveryStep DEF Ends
      <4>4. outcome'[t] # "unavailable"
        BY <4>1, DecisionRefuses
      <4> QED
        BY <2>1, <4>1, <4>2, <4>3, <4>4, EndsSomehow
    <3> QED
      BY <3>1, <3>2
  <2>2. ASSUME Refuses(t, "temporarily_unavailable") PROVE Blocked(t)
    <3>1. ~ \E q \in Requests : RefuseAtOnce(t, q)
      BY <2>2 DEF Refuses, RefuseAtOnce, AuthTypeOK
    <3>2. /\ Next /\ pc[t] # "done" /\ pc'[t] = "done"
          /\ Decision(request'[t], outcome'[t], life'[t]) = "temporarily_unavailable"
      BY <3>1, <2>2, DecidedInStep DEF Refuses
    <3>3. Ends(t, "unavailable")
      BY <3>2, DecisionRefuses DEF Ends
    <3>4. /\ pc[t] = "fetching" /\ Unavailable
          /\ kid[t] \notin keys \/ age > CacheTtl + MaxStale
      BY <3>2, <3>3, UnavailableStep
    <3> QED
      BY <3>4 DEF AuthTypeOK
  <2> QED
    BY <2>1, <2>2
<1>2. AuthSpec => [](TypeOK /\ LockInv /\ SnapshotInv)
  BY AuthenticationImplementsCache, TypeCorrect, LockSafe, SnapshotSafe, PTL
<1> QED
  BY <1>1, <1>2, AuthTypeCorrect, PTL DEF AuthSpec, CacheRefusalJustified

\* The requests of the API, which may end while their lookup is open, read one
\* snapshot of the provider's keys (keycloak_verifier.py, verify).
THEOREM AuthenticationImplementsWindow == AuthSpec => ImplementsKeyWindow
  BY AuthenticationImplementsCache, ImplementsWindow
---------------------------------------------------------------------------
\* The four kinds of credentials RequestPipeline tells apart.

\* What comes with q, judged by a clock that leaves its token left ticks.
CredentialOf(q, left) ==
    CASE q.token = NoToken -> "missing"
      [] q.token # NoToken /\ ~ (HeaderAccepted(q.token) /\ Verified(q.token, left)) -> "flawed"
      [] q.token # NoToken /\ HeaderAccepted(q.token) /\ Verified(q.token, left) ->
             IF q.needs \subseteq ScopesOf(q.token) THEN "good" ELSE "unscoped"

\* Nobody awaits a key whose token was not read and accepted up to its claims.
HeadersChecked ==
    \A t \in Tasks : pc[t] # "idle" => /\ request[t].token # NoToken
                                      /\ HeaderAccepted(request[t].token)

LEMMA HeadersInit == AuthInit => HeadersChecked
  BY DEF AuthInit, Init, HeadersChecked

LEMMA HeadersNext == TypeOK /\ AuthTypeOK /\ HeadersChecked /\ [AuthNext]_allVars => HeadersChecked'
<1> SUFFICES ASSUME TypeOK, AuthTypeOK, HeadersChecked, [AuthNext]_allVars
             PROVE  HeadersChecked'
  OBVIOUS
<1>1. CASE UNCHANGED allVars
  BY <1>1 DEF allVars, vars, callVars, authVars, HeadersChecked
<1>2. ASSUME NEW t \in Tasks, NEW q \in Requests, RefuseAtOnce(t, q) PROVE HeadersChecked'
  <2>1. pc[t] = "idle" /\ pc' = pc
    BY <1>2 DEF RefuseAtOnce, Idle, AuthTypeOK, vars, callVars
  <2> QED
    BY <1>2, <2>1 DEF RefuseAtOnce, AuthTypeOK, HeadersChecked
<1>3. ASSUME NEW t \in Tasks, NEW q \in Requests, NEW left \in 0..MaxLife,
             Present(t, q, left)
      PROVE  HeadersChecked'
  <2>1. q.token.kid \in Kids
    BY <1>3, AuthenticationAssumption DEF Present, HeaderAccepted, Token
  <2>2. \A u \in Tasks : u # t => pc'[u] = pc[u]
    BY <1>3, <2>1, CallFrame DEF Present
  <2> QED
    BY <1>3, <2>2 DEF Present, AuthTypeOK, HeadersChecked
<1>4. ASSUME NEW t \in Tasks, Resume(t) PROVE HeadersChecked'
  <2>1. pc[t] # "idle" /\ \A u \in Tasks : u # t => pc'[u] = pc[u]
    BY <1>4, ResumeFrame DEF Resume
  <2> QED
    BY <1>4, <2>1 DEF Resume, HeadersChecked
<1>5. ASSUME NEW t \in Tasks, Finish(t) PROVE HeadersChecked'
  <2>1. pc'[t] = "idle" /\ \A u \in Tasks : u # t => pc'[u] = pc[u]
    <3>1. CASE pc[t] = "done"
      BY <1>5, <3>1, CollectFrame DEF Finish
    <3>2. CASE pc[t] # "done"
      BY <1>5, <3>2 DEF Finish, AuthTypeOK, TypeOK, vars, callVars
    <3> QED
      BY <3>1, <3>2
  <2> QED
    BY <1>5, <2>1 DEF Finish, AuthTypeOK, HeadersChecked
<1>6. CASE Passes
  BY <1>6 DEF Passes, Tick, HeadersChecked, callVars
<1>7. CASE Around
  <2>1. pc' = pc
    BY <1>7 DEF Around, StartFetch, StartServing, StartFails, Restart, ProviderAnswers,
       Publish, SetUp, callVars
  <2> QED
    BY <1>7, <2>1 DEF Around, authVars, HeadersChecked
<1> QED
  BY <1>1, <1>2, <1>3, <1>4, <1>5, <1>6, <1>7 DEF AuthNext

\* The replies that are given to each kind: the token's own faults decide, and
\* an endpoint's scopes only once there are none; a verifier without a key may
\* refuse any token, and admits or forbids none (api/auth.py).
RepliesTo(cred) ==
    CASE cred = "missing"  -> {"invalid_request"}
      [] cred = "flawed"   -> {"invalid_token", "temporarily_unavailable"}
      [] cred = "unscoped" -> {"invalid_token", "temporarily_unavailable", "insufficient_scope"}
      [] cred = "good"     -> {"invalid_token", "temporarily_unavailable", "admitted"}

ReplyFits(t) ==
    (reply[t] = "none" /\ reply'[t] # "none") =>
        reply'[t] \in RepliesTo(CredentialOf(request'[t], life'[t]))

LEMMA DecisionFits ==
    ASSUME NEW q, NEW out, NEW left, q.token # NoToken, HeaderAccepted(q.token)
    PROVE  Decision(q, out, left) \in RepliesTo(CredentialOf(q, left))
<1>1. CASE ~ Verified(q.token, left)
  <2>1. CredentialOf(q, left) = "flawed"
    BY <1>1 DEF CredentialOf
  <2>2. Decision(q, out, left) \in {"invalid_token", "temporarily_unavailable"}
    BY <1>1 DEF Decision
  <2> QED
    BY <2>1, <2>2 DEF RepliesTo
<1>2. CASE Verified(q.token, left) /\ q.needs \subseteq ScopesOf(q.token)
  <2>1. CredentialOf(q, left) = "good"
    BY <1>2 DEF CredentialOf
  <2>2. Decision(q, out, left) \in {"invalid_token", "temporarily_unavailable", "admitted"}
    BY <1>2 DEF Decision
  <2> QED
    BY <2>1, <2>2 DEF RepliesTo
<1>3. CASE Verified(q.token, left) /\ ~ (q.needs \subseteq ScopesOf(q.token))
  <2>1. CredentialOf(q, left) = "unscoped"
    BY <1>3 DEF CredentialOf
  <2>2. Decision(q, out, left)
           \in {"invalid_token", "temporarily_unavailable", "insufficient_scope"}
    BY <1>3 DEF Decision
  <2> QED
    BY <2>1, <2>2 DEF RepliesTo
<1> QED
  BY <1>1, <1>2, <1>3

\* What RequestPipeline takes from here: each kind of credential, judged when
\* the reply is given, gets only the replies of its kind, although the header,
\* the key and the claims are looked at in different steps
\* (keycloak_verifier.py, verify; api/auth.py).
THEOREM RepliesFitCredentials == AuthSpec => [][\A t \in Tasks : ReplyFits(t)]_allVars
<1> DEFINE Fits == \A t \in Tasks : ReplyFits(t)
<1>1. TypeOK /\ AuthTypeOK /\ HeadersChecked /\ [AuthNext]_allVars => [Fits]_allVars
  <2> SUFFICES ASSUME TypeOK, AuthTypeOK, HeadersChecked, AuthNext, NEW t \in Tasks,
                      reply[t] = "none", reply'[t] # "none"
               PROVE  reply'[t] \in RepliesTo(CredentialOf(request'[t], life'[t]))
    BY DEF ReplyFits
  <2>0. HeadersChecked'
    BY HeadersNext
  <2>1. ASSUME NEW q \in Requests, RefuseAtOnce(t, q)
        PROVE  reply'[t] \in RepliesTo(CredentialOf(request'[t], life'[t]))
    <3>1. request'[t] = q
      BY <2>1 DEF RefuseAtOnce, AuthTypeOK
    <3>2. CASE q.token = NoToken /\ reply'[t] = "invalid_request"
      BY <3>1, <3>2 DEF CredentialOf, RepliesTo
    <3>3. CASE q.token # NoToken /\ ~ HeaderAccepted(q.token) /\ reply'[t] = "invalid_token"
      <4>1. CredentialOf(q, life'[t]) = "flawed"
        BY <3>3 DEF CredentialOf
      <4> QED
        BY <3>1, <3>3, <4>1 DEF RepliesTo
    <3> QED
      BY <2>1, <3>2, <3>3 DEF RefuseAtOnce, AuthTypeOK
  <2>2. CASE ~ \E q \in Requests : RefuseAtOnce(t, q)
    <3>1. pc'[t] = "done" /\ reply'[t] = Decision(request'[t], outcome'[t], life'[t])
      BY <2>2, DecidedInStep
    <3>2. request'[t].token # NoToken /\ HeaderAccepted(request'[t].token)
      BY <2>0, <3>1 DEF HeadersChecked
    <3> QED
      BY <3>1, <3>2, DecisionFits
  <2> QED
    BY <2>1, <2>2
<1>2. AuthSpec => []HeadersChecked
  <2>1. AuthSpec => []TypeOK
    BY AuthenticationImplementsCache, TypeCorrect
  <2> QED
    BY <2>1, AuthTypeCorrect, HeadersInit, HeadersNext, PTL DEF AuthSpec
<1>3. AuthSpec => []TypeOK
  BY AuthenticationImplementsCache, TypeCorrect
<1> QED
  BY <1>1, <1>2, <1>3, AuthTypeCorrect, PTL DEF AuthSpec
==============================================================================
