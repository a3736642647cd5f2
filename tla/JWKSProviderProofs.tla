------------------------ MODULE JWKSProviderProofs ------------------------
(***************************************************************************)
(* What JWKSProvider guarantees for every set of tasks and key ids, every  *)
(* set of bodies the provider may publish and every choice of the bounds.  *)
(***************************************************************************)
EXTENDS JWKSProvider, TLAPS

\* What a body lists are key ids, so a map only ever holds key ids.
LEMMA ListedAreKids ==
    ASSUME NEW d \in Documents
    PROVE  /\ KeysByKid(d) \in SUBSET Kids
           /\ ListedIn(d) \in SUBSET Kids
           /\ Parses(d) => ListedIn(d) = KeysByKid(d)
<1>1. d \in Payload
  BY NamesAssumption
<1>2. \A i \in DOMAIN d.keys : d.keys[i] \in Jwk
  BY <1>1 DEF Payload
<1>3. KeysByKid(d) \subseteq Kids
  BY <1>2 DEF KeysByKid, UsableAt, Jwk
<1> QED
  BY <1>3 DEF ListedIn

\* The queue operations of the lock keep the queue a sequence of tasks.
LEMMA QueueTyped ==
    ASSUME NEW q \in Seq(Tasks)
    PROVE  /\ \A t \in Tasks : Append(q, t) \in Seq(Tasks)
           /\ q # <<>> => Tail(q) \in Seq(Tasks)
  OBVIOUS

LEMMA BoundsNat ==
    /\ AgeCap \in Nat /\ SinceCap \in Nat /\ AgeCap = CacheTtl + MaxStale + 1
    /\ SinceCap = AgeCap + MaxTransit
    /\ 0 \in 0..AgeCap /\ 0 \in 0..MinForced /\ 0 \in 0..SinceCap
    /\ 0 \in 0..MaxTransit /\ SinceCap \in 0..SinceCap
    /\ MinForced \in 0..MinForced
  BY BoundsAssumption DEF AgeCap, SinceCap

LEMMA OlderTyped ==
    ASSUME NEW cap \in Nat, NEW n \in 0..cap
    PROVE  Older(n, cap) \in 0..cap
  BY DEF Older

\* The steps of Next, one by one.
LEMMA NextCases ==
    ASSUME Next
    PROVE  \/ StartFetch \/ StartServing \/ StartFails \/ Restart
           \/ \E t \in Tasks, k \in Kids :
                \/ FastPath(t, k) \/ Enqueue(t, k) \/ RecheckHit(t, k)
                \/ RateLimited(t, k) \/ ForceRefresh(t, k) \/ RefreshStale(t, k)
           \/ \E t \in Tasks : \/ RefreshAdopts(t) \/ RefreshFails(t)
                               \/ RefreshErrors(t) \/ Collect(t)
           \/ ProviderAnswers
           \/ \E d \in Documents : Publish(d)
           \/ \E b \in BOOLEAN : SetUp(b)
           \/ Tick
  BY DEF Next, Call, Wakes, Refreshed

---------------------------------------------------------------------------

LEMMA TypeInit == Init => TypeOK
  BY BoundsNat DEF Init, TypeOK, Outcomes

LEMMA ReturnsTyped ==
    ASSUME TypeOK, NEW t \in Tasks, NEW k \in Kids \cup {NoKid}, NEW out \in Outcomes,
           Returns(t, k, out)
    PROVE  /\ pc' \in [Tasks -> {"idle", "waiting", "fetching", "done"}]
           /\ kid' \in [Tasks -> Kids \cup {NoKid}]
           /\ seen' \in [Tasks -> BOOLEAN]
           /\ outcome' \in [Tasks -> Outcomes]
  BY DEF TypeOK, Returns

LEMMA TypeNext == TypeOK /\ [Next]_vars => TypeOK'
<1> SUFFICES ASSUME TypeOK, [Next]_vars PROVE TypeOK'
  OBVIOUS
<1> USE BoundsNat DEF cacheVars, lockVars, callVars, sourceVars, flightVars, forcedVars
<1>1. CASE UNCHANGED vars
  BY <1>1 DEF TypeOK, vars
<1>2. CASE StartFetch
  BY <1>2 DEF StartFetch, TypeOK
<1>3. CASE StartServing
  BY <1>3, ListedAreKids DEF StartServing, Adopted, Release, TypeOK
<1>4. CASE StartFails
  BY <1>4 DEF StartFails, Release, TypeOK
<1>5. CASE Restart
  BY <1>5 DEF Restart, TypeOK
<1>6. ASSUME NEW t \in Tasks, NEW k \in Kids, FastPath(t, k) PROVE TypeOK'
  BY <1>6, ReturnsTyped DEF FastPath, TypeOK, Outcomes
<1>7. ASSUME NEW t \in Tasks, NEW k \in Kids, Enqueue(t, k) PROVE TypeOK'
  BY <1>7, QueueTyped DEF Enqueue, TypeOK
<1>8. ASSUME NEW t \in Tasks, NEW k \in Kids, Obtains(t, k)
      PROVE  waiters' \in Seq(Tasks)
  BY <1>8, QueueTyped DEF Obtains, TypeOK
<1>9. ASSUME NEW t \in Tasks, NEW k \in Kids, RecheckHit(t, k) PROVE TypeOK'
  BY <1>8, <1>9, ReturnsTyped DEF RecheckHit, TypeOK, Outcomes
<1>10. ASSUME NEW t \in Tasks, NEW k \in Kids, RateLimited(t, k) PROVE TypeOK'
  BY <1>8, <1>10, ReturnsTyped DEF RateLimited, TypeOK, Outcomes
<1>11. ASSUME NEW t \in Tasks, NEW k \in Kids, ForceRefresh(t, k) PROVE TypeOK'
  BY <1>8, <1>11 DEF ForceRefresh, BeginFetch, TypeOK
<1>12. ASSUME NEW t \in Tasks, NEW k \in Kids, RefreshStale(t, k) PROVE TypeOK'
  BY <1>8, <1>12 DEF RefreshStale, BeginFetch, TypeOK
<1>13. ASSUME NEW t \in Tasks, RefreshAdopts(t) PROVE TypeOK'
  <2>1. /\ keys' \in SUBSET Kids /\ age' \in (0..AgeCap) \cup {Never}
    BY <1>13, ListedAreKids DEF RefreshAdopts, Adopted, TypeOK
  <2>2. kid[t] \in Kids \cup {NoKid}
    BY DEF TypeOK
  <2> QED
    BY <1>13, <2>1, <2>2, ReturnsTyped DEF RefreshAdopts, Release, ForcedEnds, TypeOK, Outcomes
<1>14. ASSUME NEW t \in Tasks, RefreshFails(t) PROVE TypeOK'
  <2>2. kid[t] \in Kids \cup {NoKid}
    BY DEF TypeOK
  <2> QED
    BY <1>14, <2>2, ReturnsTyped DEF RefreshFails, Release, ForcedEnds, TypeOK, Outcomes
<1>15. ASSUME NEW t \in Tasks, RefreshErrors(t) PROVE TypeOK'
  <2>2. kid[t] \in Kids \cup {NoKid}
    BY DEF TypeOK
  <2> QED
    BY <1>15, <2>2, ReturnsTyped DEF RefreshErrors, Release, ForcedEnds, TypeOK, Outcomes
<1>16. ASSUME NEW t \in Tasks, Collect(t) PROVE TypeOK'
  BY <1>16 DEF Collect, TypeOK, Outcomes
<1>17. CASE ProviderAnswers
  BY <1>17 DEF ProviderAnswers, TypeOK
<1>18. ASSUME NEW d \in Documents, Publish(d) PROVE TypeOK'
  BY <1>18 DEF Publish, TypeOK
<1>19. ASSUME NEW b \in BOOLEAN, SetUp(b) PROVE TypeOK'
  BY <1>19 DEF SetUp, TypeOK
<1>20. CASE Tick
  <2>1. age' \in (0..AgeCap) \cup {Never}
    BY <1>20, OlderTyped DEF Tick, TypeOK
  <2>2. elapsed' \in 0..MinForced /\ sinceForced' \in 0..MinForced
    BY <1>20, OlderTyped, BoundsAssumption DEF Tick, TypeOK
  <2>3. since' \in [Kids -> 0..SinceCap]
    BY <1>20, OlderTyped DEF Tick, TypeOK
  <2>4. transit' \in 0..MaxTransit
    BY <1>20, BoundsAssumption DEF Tick, TypeOK
  <2> QED
    BY <1>20, <2>1, <2>2, <2>3, <2>4 DEF Tick, TypeOK
<1> QED
  BY <1>1, <1>2, <1>3, <1>4, <1>5, <1>6, <1>7, <1>9, <1>10, <1>11, <1>12, <1>13,
     <1>14, <1>15, <1>16, <1>17, <1>18, <1>19, <1>20, NextCases

\* The state stays within its type (jwks.py, the fields of JWKSProvider).
THEOREM TypeCorrect == Spec => []TypeOK
  BY TypeInit, TypeNext, PTL DEF Spec

---------------------------------------------------------------------------
\* The lock.

LEMMA QueueAppend ==
    ASSUME NEW q \in Seq(Tasks), NEW t \in Tasks, t \notin Range(q),
           \A i, j \in DOMAIN q : q[i] = q[j] => i = j
    PROVE  /\ Range(Append(q, t)) = Range(q) \cup {t}
           /\ \A i, j \in DOMAIN Append(q, t) :
                  Append(q, t)[i] = Append(q, t)[j] => i = j
<1> DEFINE r == Append(q, t)
<1>1. DOMAIN q = 1..Len(q) /\ DOMAIN r = 1..(Len(q) + 1) /\ Len(q) \in Nat
  OBVIOUS
<1>2. r[Len(q) + 1] = t /\ \A i \in 1..Len(q) : r[i] = q[i]
  OBVIOUS
<1> HIDE DEF r
<1>3. \A i \in 1..Len(q) : q[i] # t
  BY <1>1 DEF Range
<1>4. Range(r) = Range(q) \cup {t}
  BY <1>1, <1>2 DEF Range
<1>5. ASSUME NEW i \in DOMAIN r, NEW j \in DOMAIN r, r[i] = r[j] PROVE i = j
  BY <1>1, <1>2, <1>3, <1>5
<1> QED
  BY <1>4, <1>5 DEF r

LEMMA QueueTail ==
    ASSUME NEW q \in Seq(Tasks), q # <<>>,
           \A i, j \in DOMAIN q : q[i] = q[j] => i = j
    PROVE  /\ Head(q) \in Tasks
           /\ Range(Tail(q)) = Range(q) \ {Head(q)}
           /\ \A i, j \in DOMAIN Tail(q) : Tail(q)[i] = Tail(q)[j] => i = j
<1> DEFINE r == Tail(q)
<1>1. /\ DOMAIN q = 1..Len(q) /\ Len(q) \in Nat /\ Len(q) > 0
      /\ DOMAIN r = 1..(Len(q) - 1)
      /\ Head(q) = q[1] /\ Head(q) \in Tasks
  OBVIOUS
<1>2. \A i \in 1..(Len(q) - 1) : r[i] = q[i + 1]
  OBVIOUS
<1> HIDE DEF r
<1>3. \A i, j \in DOMAIN r : r[i] = r[j] => i = j
  BY <1>1, <1>2
<1>4. Range(r) \subseteq Range(q) \ {Head(q)}
  <2> SUFFICES ASSUME NEW i \in DOMAIN r PROVE r[i] \in Range(q) \ {Head(q)}
    BY DEF Range
  <2>1. i + 1 \in DOMAIN q /\ 1 \in DOMAIN q /\ i + 1 # 1 /\ r[i] = q[i + 1]
    BY <1>1, <1>2
  <2> QED
    BY <1>1, <2>1 DEF Range
<1>5. Range(q) \ {Head(q)} \subseteq Range(r)
  <2> SUFFICES ASSUME NEW i \in DOMAIN q, q[i] # Head(q) PROVE q[i] \in Range(r)
    BY DEF Range
  <2>1. i - 1 \in DOMAIN r /\ r[i - 1] = q[i]
    BY <1>1, <1>2
  <2> QED
    BY <2>1 DEF Range
<1> QED
  BY <1>1, <1>3, <1>4, <1>5 DEF r

LEMMA LockInit == Init => LockInv
  BY NamesAssumption DEF Init, LockInv, HolderInv, QueueInv, Range

\* A task that obtains the lock was serving and not queued twice; afterwards
\* it is in the queue no more and everybody else still is.
LEMMA ObtainsFacts ==
    ASSUME TypeOK, LockInv, NEW t \in Tasks, NEW k \in Kids, Obtains(t, k)
    PROVE  /\ pc[t] \in {"idle", "waiting"}
           /\ phase = "serving" /\ holder = NoTask /\ answer = NoAnswer
           /\ age # Never
           /\ \A u \in Tasks : pc[u] # "fetching"
           /\ \A u \in Tasks : u # t => (pc[u] = "waiting" <=> u \in Range(waiters'))
           /\ t \notin Range(waiters')
           /\ \A i, j \in DOMAIN waiters' : waiters'[i] = waiters'[j] => i = j
<1>1. pc[t] \in {"idle", "waiting"} /\ phase = "serving" /\ holder = NoTask
  BY DEF Obtains, CanCall, LockInv, HolderInv, TypeOK
<1>2. answer = NoAnswer /\ age # Never /\ \A u \in Tasks : pc[u] # "fetching"
  BY <1>1, NamesAssumption DEF LockInv, HolderInv
<1>3. CASE waiters = <<>> /\ waiters' = <<>> /\ pc[t] = "idle"
  BY <1>1, <1>2, <1>3 DEF LockInv, QueueInv, Range
<1>4. CASE /\ pc[t] = "waiting" /\ waiters # <<>> /\ Head(waiters) = t
           /\ waiters' = Tail(waiters)
  <2>1. /\ Range(waiters') = Range(waiters) \ {t}
        /\ \A i, j \in DOMAIN waiters' : waiters'[i] = waiters'[j] => i = j
    BY <1>4, QueueTail DEF TypeOK, LockInv, QueueInv
  <2> QED
    BY <1>1, <1>2, <2>1 DEF LockInv, QueueInv
<1> QED
  BY <1>3, <1>4 DEF Obtains, CanCall

LEMMA LockNext == TypeOK /\ LockInv /\ [Next]_vars => LockInv'
<1> SUFFICES ASSUME TypeOK, LockInv, [Next]_vars PROVE LockInv'
  OBVIOUS
<1> USE NamesAssumption
    DEF cacheVars, lockVars, callVars, sourceVars, flightVars, forcedVars
<1>1. CASE UNCHANGED vars
  BY <1>1 DEF LockInv, HolderInv, QueueInv, vars
<1>2. CASE StartFetch
  BY <1>2 DEF StartFetch, TypeOK, LockInv, HolderInv, QueueInv
<1>3. CASE StartServing
  <2>1. age' # Never
    BY <1>3 DEF StartServing, Adopted
  <2> QED
    BY <1>3, <2>1 DEF StartServing, Release, TypeOK, LockInv, HolderInv, QueueInv
<1>4. CASE StartFails
  BY <1>4 DEF StartFails, Release, TypeOK, LockInv, HolderInv, QueueInv
<1>5. CASE Restart
  BY <1>5 DEF Restart, TypeOK, LockInv, HolderInv, QueueInv
<1>6. ASSUME NEW t \in Tasks, NEW k \in Kids, FastPath(t, k) PROVE LockInv'
  BY <1>6 DEF FastPath, CanCall, Returns, TypeOK, LockInv, HolderInv, QueueInv
<1>7. ASSUME NEW t \in Tasks, NEW k \in Kids, Enqueue(t, k) PROVE LockInv'
  <2>1. pc[t] = "idle" /\ phase = "serving" /\ t \notin Range(waiters)
    BY <1>7 DEF Enqueue, CanCall, LockInv, QueueInv
  <2>2. /\ Range(waiters') = Range(waiters) \cup {t}
        /\ \A i, j \in DOMAIN waiters' : waiters'[i] = waiters'[j] => i = j
    BY <1>7, <2>1, QueueAppend DEF Enqueue, TypeOK, LockInv, QueueInv
  <2>3. HolderInv'
    BY <1>7, <2>1 DEF Enqueue, TypeOK, LockInv, HolderInv
  <2>4. QueueInv'
    BY <1>7, <2>1, <2>2 DEF Enqueue, TypeOK, LockInv, QueueInv
  <2> QED
    BY <2>3, <2>4 DEF LockInv
<1>8. ASSUME NEW t \in Tasks, NEW k \in Kids, NEW out \in Outcomes, Obtains(t, k),
             Returns(t, k, out), UNCHANGED <<phase, keys, age, holder, answer>>
      PROVE  LockInv'
  <2>1. HolderInv'
    BY <1>8, ObtainsFacts DEF Returns, TypeOK, LockInv, HolderInv
  <2>2. QueueInv'
    BY <1>8, ObtainsFacts DEF Returns, TypeOK, QueueInv
  <2> QED
    BY <2>1, <2>2 DEF LockInv
<1>9. ASSUME NEW t \in Tasks, NEW k \in Kids, RecheckHit(t, k) PROVE LockInv'
  BY <1>8, <1>9 DEF RecheckHit, Outcomes
<1>10. ASSUME NEW t \in Tasks, NEW k \in Kids, RateLimited(t, k) PROVE LockInv'
  BY <1>8, <1>10 DEF RateLimited, Outcomes
<1>11. ASSUME NEW t \in Tasks, NEW k \in Kids, Obtains(t, k), BeginFetch(t, k)
       PROVE  LockInv'
  <2>1. HolderInv'
    BY <1>11, ObtainsFacts DEF BeginFetch, TypeOK, LockInv, HolderInv
  <2>2. QueueInv'
    BY <1>11, ObtainsFacts DEF BeginFetch, TypeOK, QueueInv
  <2> QED
    BY <2>1, <2>2 DEF LockInv
<1>12. ASSUME NEW t \in Tasks, NEW k \in Kids, ForceRefresh(t, k) PROVE LockInv'
  BY <1>11, <1>12 DEF ForceRefresh
<1>13. ASSUME NEW t \in Tasks, NEW k \in Kids, RefreshStale(t, k) PROVE LockInv'
  BY <1>11, <1>13 DEF RefreshStale
<1>14. ASSUME NEW t \in Tasks, NEW out \in Outcomes, pc[t] = "fetching", Release,
              Returns(t, kid[t], out), age' # Never, UNCHANGED <<phase, waiters>>
       PROVE  LockInv'
  <2>1. phase = "serving" /\ holder = t /\ \A u \in Tasks : u # t => pc[u] # "fetching"
    BY <1>14 DEF TypeOK, LockInv, HolderInv
  <2>2. HolderInv'
    BY <1>14, <2>1 DEF Release, Returns, TypeOK, HolderInv
  <2>3. QueueInv'
    BY <1>14 DEF Returns, TypeOK, LockInv, QueueInv
  <2> QED
    BY <2>2, <2>3 DEF LockInv
<1>15. ASSUME NEW t \in Tasks, RefreshAdopts(t) PROVE LockInv'
  BY <1>14, <1>15 DEF RefreshAdopts, Adopted, Outcomes
<1>16. ASSUME NEW t \in Tasks, pc[t] = "fetching" PROVE age # Never
  BY <1>16 DEF LockInv, HolderInv, TypeOK
<1>17. ASSUME NEW t \in Tasks, RefreshFails(t) PROVE LockInv'
  BY <1>14, <1>16, <1>17 DEF RefreshFails, Outcomes
<1>18. ASSUME NEW t \in Tasks, RefreshErrors(t) PROVE LockInv'
  BY <1>14, <1>16, <1>18 DEF RefreshErrors, Outcomes
<1>19. ASSUME NEW t \in Tasks, Collect(t) PROVE LockInv'
  BY <1>19 DEF Collect, TypeOK, LockInv, HolderInv, QueueInv
<1>20. CASE ProviderAnswers
  BY <1>20 DEF ProviderAnswers, TypeOK, LockInv, HolderInv, QueueInv
<1>21. ASSUME NEW d \in Documents, Publish(d) PROVE LockInv'
  BY <1>21 DEF Publish, LockInv, HolderInv, QueueInv
<1>22. ASSUME NEW b \in BOOLEAN, SetUp(b) PROVE LockInv'
  BY <1>22 DEF SetUp, LockInv, HolderInv, QueueInv
<1>23. CASE Tick
  <2>1. age' = Never <=> age = Never
    BY <1>23, OlderTyped, BoundsNat DEF Tick, TypeOK
  <2> QED
    BY <1>23, <2>1 DEF Tick, LockInv, HolderInv, QueueInv
<1> QED
  BY <1>1, <1>2, <1>3, <1>4, <1>5, <1>6, <1>7, <1>9, <1>10, <1>12, <1>13, <1>15,
     <1>17, <1>18, <1>19, <1>20, <1>21, <1>22, <1>23, NextCases

\* One refresh at a time, and the key read before a refresh is valid after it
\* (jwks.py 96-118).
THEOREM LockSafe == Spec => []LockInv
  BY TypeInit, TypeNext, LockInit, LockNext, PTL DEF Spec

---------------------------------------------------------------------------
\* The map as a snapshot of the provider.

LEMMA SnapshotInit == Init => SnapshotInv
  BY DEF Init, SnapshotInv

\* Steps that touch neither the map, nor the answer, nor the provider.
LEMMA SnapshotSame ==
    ASSUME UNCHANGED <<keys, age, answer, transit, published, since>>
    PROVE  /\ SnapshotInv => SnapshotInv'
           /\ \A k \in Kids : IsListed(k)' <=> IsListed(k)
  BY DEF SnapshotInv, IsListed

\* An adopted answer is what the provider listed at most MaxTransit ago.
LEMMA SnapshotAdopts ==
    ASSUME TypeOK, SnapshotInv, Adopted, Release, UNCHANGED <<published, since>>
    PROVE  /\ SnapshotInv'
           /\ keys' = ListedIn(answer)
           /\ \A k \in Kids : ~ (k \in keys' <=> IsListed(k)) => since[k] <= MaxTransit
<1>1. answer \in Documents /\ keys' = ListedIn(answer)
  BY ListedAreKids DEF Adopted, TypeOK
<1>2. \A k \in Kids : ~ (k \in keys' <=> IsListed(k)) => since[k] <= transit
  BY <1>1 DEF SnapshotInv, Adopted
<1>3. \A k \in Kids : ~ (k \in keys' <=> IsListed(k)) => since[k] <= MaxTransit
  BY <1>2, BoundsAssumption, BoundsNat DEF TypeOK
<1>4. \A k \in Kids : IsListed(k)' <=> IsListed(k)
  BY DEF IsListed
<1> QED
  BY <1>1, <1>3, <1>4, BoundsAssumption DEF SnapshotInv, Adopted, Release

\* A failed refresh drops the answer and keeps the map.
LEMMA SnapshotDrops ==
    ASSUME SnapshotInv, Release, UNCHANGED <<keys, age, published, since>>
    PROVE  SnapshotInv'
  BY DEF SnapshotInv, Release, IsListed

LEMMA SnapshotNext == TypeOK /\ SnapshotInv /\ [Next]_vars => SnapshotInv'
<1> SUFFICES ASSUME TypeOK, SnapshotInv, [Next]_vars PROVE SnapshotInv'
  OBVIOUS
<1> USE DEF cacheVars, lockVars, callVars, sourceVars, flightVars, forcedVars
<1>1. CASE UNCHANGED vars
  BY <1>1, SnapshotSame DEF vars
<1>2. CASE StartFetch
  BY <1>2, SnapshotSame DEF StartFetch
<1>3. CASE StartServing
  BY <1>3, SnapshotAdopts DEF StartServing
<1>4. CASE StartFails
  BY <1>4, SnapshotDrops DEF StartFails
<1>5. CASE Restart
  BY <1>5, SnapshotSame DEF Restart
<1>6. ASSUME NEW t \in Tasks, NEW k \in Kids,
             \/ FastPath(t, k) \/ Enqueue(t, k) \/ RecheckHit(t, k)
             \/ RateLimited(t, k) \/ ForceRefresh(t, k) \/ RefreshStale(t, k)
      PROVE  SnapshotInv'
  BY <1>6, SnapshotSame DEF FastPath, Enqueue, RecheckHit, RateLimited, ForceRefresh,
     RefreshStale, BeginFetch
<1>7. ASSUME NEW t \in Tasks, RefreshAdopts(t) PROVE SnapshotInv'
  BY <1>7, SnapshotAdopts DEF RefreshAdopts
<1>8. ASSUME NEW t \in Tasks, RefreshFails(t) \/ RefreshErrors(t) PROVE SnapshotInv'
  BY <1>8, SnapshotDrops DEF RefreshFails, RefreshErrors
<1>9. ASSUME NEW t \in Tasks, Collect(t) PROVE SnapshotInv'
  BY <1>9, SnapshotSame DEF Collect
<1>10. CASE ProviderAnswers
  <2>1. \A k \in Kids : k \in ListedIn(answer') <=> IsListed(k)'
    BY <1>10 DEF ProviderAnswers, IsListed
  <2> QED
    BY <1>10, <2>1 DEF ProviderAnswers, SnapshotInv, IsListed
<1>11. ASSUME NEW d \in Documents, Publish(d) PROVE SnapshotInv'
  <2>1. \A k \in Kids : since'[k] = 0 \/ (since'[k] = since[k] /\ (IsListed(k)' <=> IsListed(k)))
    BY <1>11 DEF Publish, IsListed
  <2>2. age' = age /\ keys' = keys /\ answer' = answer /\ transit' = transit
    BY <1>11 DEF Publish
  <2>3. age # Never => 0 <= age + MaxTransit
    BY BoundsAssumption, BoundsNat DEF TypeOK
  <2>4. 0 <= transit
    BY BoundsAssumption DEF TypeOK
  <2> QED
    BY <2>1, <2>2, <2>3, <2>4 DEF SnapshotInv
<1>12. ASSUME NEW b \in BOOLEAN, SetUp(b) PROVE SnapshotInv'
  BY <1>12, SnapshotSame DEF SetUp
<1>13. CASE Tick
  <2>1. /\ \A k \in Kids : IsListed(k)' <=> IsListed(k)
        /\ keys' = keys /\ answer' = answer
    BY <1>13 DEF Tick, IsListed
  <2>2. \A k \in Kids : since'[k] = Older(since[k], SinceCap) /\ since[k] \in 0..SinceCap
    BY <1>13 DEF Tick, TypeOK
  <2>3. ASSUME age' # Never, NEW k \in Kids, ~ (k \in keys' <=> IsListed(k)')
        PROVE  since'[k] <= age' + MaxTransit
    <3>1. age \in 0..AgeCap /\ age' = Older(age, AgeCap) /\ age # Never
      BY <1>13, <2>3 DEF Tick, TypeOK
    <3>2. since[k] <= age + MaxTransit
      BY <2>1, <2>3, <3>1 DEF SnapshotInv
    <3> QED
      BY <2>2, <3>1, <3>2, BoundsNat, BoundsAssumption DEF Older
  <2>4. ASSUME answer' # NoAnswer, NEW k \in Kids, ~ (k \in ListedIn(answer') <=> IsListed(k)')
        PROVE  since'[k] <= transit'
    <3>1. transit' = transit + 1 /\ transit \in Nat
      BY <1>13, <2>4, BoundsAssumption DEF Tick, TypeOK
    <3>2. since[k] <= transit
      BY <2>1, <2>4 DEF SnapshotInv
    <3> QED
      BY <2>2, <3>1, <3>2, BoundsNat DEF Older
  <2> QED
    BY <2>3, <2>4 DEF SnapshotInv
<1> QED
  BY <1>1, <1>2, <1>3, <1>4, <1>5, <1>6, <1>7, <1>8, <1>9, <1>10, <1>11, <1>12,
     <1>13, NextCases

\* The map is never further behind the provider than its age and the transit
\* of its answer (jwks.py 126-139, 290-294).
THEOREM SnapshotSafe == Spec => []SnapshotInv
  BY TypeInit, TypeNext, SnapshotInit, SnapshotNext, PTL DEF Spec

---------------------------------------------------------------------------
\* The windows. Each call that ends in this step is one of these.

LEMMA EndsCases ==
    ASSUME TypeOK, Next, NEW t \in Tasks, pc[t] # "done", pc'[t] = "done"
    PROVE  \/ /\ kid'[t] \in Kids
              /\ \/ FastPath(t, kid'[t]) \/ RecheckHit(t, kid'[t])
                 \/ RateLimited(t, kid'[t])
           \/ RefreshAdopts(t) \/ RefreshFails(t) \/ RefreshErrors(t)
<1> USE DEF cacheVars, lockVars, callVars, sourceVars, flightVars, forcedVars
<1>1. ASSUME NEW u \in Tasks, NEW k \in Kids,
             FastPath(u, k) \/ RecheckHit(u, k) \/ RateLimited(u, k)
      PROVE  u = t /\ kid'[t] = k
  BY <1>1 DEF FastPath, RecheckHit, RateLimited, Returns, TypeOK
<1>2. ASSUME NEW u \in Tasks, RefreshAdopts(u) \/ RefreshFails(u) \/ RefreshErrors(u)
      PROVE  u = t
  BY <1>2 DEF RefreshAdopts, RefreshFails, RefreshErrors, Returns, TypeOK
<1>3. ASSUME NEW u \in Tasks, NEW k \in Kids,
             Enqueue(u, k) \/ ForceRefresh(u, k) \/ RefreshStale(u, k)
      PROVE  FALSE
  BY <1>3 DEF Enqueue, ForceRefresh, RefreshStale, BeginFetch, TypeOK
<1>4. ASSUME NEW u \in Tasks, Collect(u) PROVE FALSE
  BY <1>4 DEF Collect, TypeOK
<1>5. ~ (StartFetch \/ StartServing \/ StartFails \/ Restart \/ ProviderAnswers \/ Tick)
  BY DEF StartFetch, StartServing, StartFails, Restart, ProviderAnswers, Tick
<1>6. ~ (\E d \in Documents : Publish(d)) /\ ~ (\E b \in BOOLEAN : SetUp(b))
  BY DEF Publish, SetUp
<1> QED
  BY <1>1, <1>2, <1>3, <1>4, <1>5, <1>6, NextCases

\* A map that is not stale is less than CacheTtl + MaxTransit behind.
LEMMA FreshWindow ==
    ASSUME TypeOK, SnapshotInv, NEW k \in Kids, ~ IsStale, ~ (k \in keys <=> IsListed(k))
    PROVE  since[k] < CacheTtl + MaxTransit
<1>1. age # Never /\ age \in 0..AgeCap /\ age < CacheTtl
  BY BoundsAssumption, BoundsNat DEF IsStale, TypeOK
<1>2. since[k] <= age + MaxTransit /\ since[k] \in 0..SinceCap
  BY <1>1 DEF SnapshotInv, TypeOK
<1> QED
  BY <1>1, <1>2, BoundsAssumption, BoundsNat

LEMMA AdoptedWindow ==
    ASSUME TypeOK, LockInv, SnapshotInv, NEW t \in Tasks, RefreshAdopts(t),
           ~ (kid[t] \in keys' <=> IsListed(kid[t]))
    PROVE  since[kid[t]] < CacheTtl + MaxTransit
<1>1. kid[t] \in Kids
  BY DEF RefreshAdopts, LockInv, HolderInv
<1>2. since[kid[t]] <= MaxTransit /\ since[kid[t]] \in 0..SinceCap
  BY <1>1, SnapshotAdopts DEF RefreshAdopts, TypeOK, sourceVars
<1> QED
  BY <1>2, BoundsAssumption, BoundsNat

\* The form of all windows: TypeOK, LockInv and SnapshotInv hold before.
LEMMA RevocationStep ==
    ASSUME TypeOK, LockInv, SnapshotInv, Next, NEW t \in Tasks, Ends(t, "key")
    PROVE  \/ IsListed(kid'[t])
           \/ since[kid'[t]] < CacheTtl + MaxTransit
           \/ /\ pc[t] = "fetching" /\ Unavailable
              /\ since[kid'[t]] <= CacheTtl + MaxStale + MaxTransit
<1>1. CASE /\ kid'[t] \in Kids
           /\ FastPath(t, kid'[t]) \/ RecheckHit(t, kid'[t])
  BY <1>1, FreshWindow DEF FastPath, RecheckHit, Fresh
<1>2. CASE RefreshAdopts(t)
  <2>1. kid'[t] = kid[t] /\ kid[t] \in keys'
    BY <1>2 DEF RefreshAdopts, Returns, Ends, TypeOK
  <2> QED
    BY <1>2, <2>1, AdoptedWindow
<1>3. CASE RefreshFails(t)
  <2>1. /\ kid'[t] = kid[t] /\ pc[t] = "fetching" /\ Unavailable
        /\ IsStaleUsable /\ seen[t]
    BY <1>3 DEF RefreshFails, Returns, Ends, TypeOK
  <2>2. kid[t] \in keys /\ kid[t] \in Kids
    BY <2>1 DEF LockInv, HolderInv
  <2>3. age # Never /\ age \in 0..AgeCap /\ age <= CacheTtl + MaxStale
    BY <2>1, BoundsAssumption, BoundsNat DEF IsStaleUsable, TypeOK
  <2>4. IsListed(kid[t]) \/ since[kid[t]] <= age + MaxTransit
    BY <2>2, <2>3 DEF SnapshotInv
  <2>5. since[kid[t]] \in 0..SinceCap
    BY <2>2 DEF TypeOK
  <2> QED
    BY <2>1, <2>3, <2>4, <2>5, BoundsAssumption, BoundsNat
<1>4. ~ RefreshErrors(t) /\ ~ RateLimited(t, kid'[t])
  BY DEF RefreshErrors, RateLimited, Returns, Ends, TypeOK
<1> QED
  BY <1>1, <1>2, <1>3, <1>4, EndsCases DEF Ends

\* A withdrawn key stops working within the life of the cache, whatever the
\* interleaving of calls, refreshes and failures (jwks.py 92-118, 274-288).
THEOREM RevocationSafe == Spec => RevocationWindow
<1>1. TypeOK /\ LockInv /\ SnapshotInv /\ [Next]_vars =>
        [\A t \in Tasks : Ends(t, "key") =>
           \/ IsListed(kid'[t])
           \/ since[kid'[t]] < CacheTtl + MaxTransit
           \/ /\ pc[t] = "fetching" /\ Unavailable
              /\ since[kid'[t]] <= CacheTtl + MaxStale + MaxTransit]_vars
  BY RevocationStep
<1> QED
  BY <1>1, TypeCorrect, LockSafe, SnapshotSafe, PTL DEF Spec, RevocationWindow

LEMMA DiscoveryStep ==
    ASSUME TypeOK, LockInv, SnapshotInv, Next, NEW t \in Tasks, Ends(t, "not_found")
    PROVE  ~ IsListed(kid'[t]) \/ since[kid'[t]] < CacheTtl + MaxTransit
<1>1. CASE kid'[t] \in Kids /\ RateLimited(t, kid'[t])
  BY <1>1, FreshWindow DEF RateLimited
<1>2. CASE RefreshAdopts(t)
  <2>1. kid'[t] = kid[t] /\ kid[t] \notin keys'
    BY <1>2 DEF RefreshAdopts, Returns, Ends, TypeOK
  <2> QED
    BY <1>2, <2>1, AdoptedWindow
<1>3. /\ ~ FastPath(t, kid'[t]) /\ ~ RecheckHit(t, kid'[t])
      /\ ~ RefreshFails(t) /\ ~ RefreshErrors(t)
  BY DEF FastPath, RecheckHit, RefreshFails, RefreshErrors, Returns, Ends, TypeOK
<1> QED
  BY <1>1, <1>2, <1>3, EndsCases DEF Ends

\* A key the provider lists is accepted once it has been listed for the life
\* of the cache, however many unknown kids use up the forced refreshes
\* (jwks.py 103-104, 120-122, 296-310).
THEOREM DiscoverySafe == Spec => DiscoveryWindow
<1>1. TypeOK /\ LockInv /\ SnapshotInv /\ [Next]_vars =>
        [\A t \in Tasks : Ends(t, "not_found") =>
           \/ ~ IsListed(kid'[t])
           \/ since[kid'[t]] < CacheTtl + MaxTransit]_vars
  BY DiscoveryStep
<1> QED
  BY <1>1, TypeCorrect, LockSafe, SnapshotSafe, PTL DEF Spec, DiscoveryWindow

---------------------------------------------------------------------------
\* The rate limit of forced refreshes.

LEMMA ForcedInit == Init => ForcedInv
  BY DEF Init, ForcedInv

LEMMA ForcedSame ==
    ASSUME ForcedInv, UNCHANGED <<keys, published, since, forcedVars>>,
           answer' = answer \/ answer' = NoAnswer
    PROVE  ForcedInv'
  BY DEF ForcedInv, forcedVars, IsListed

\* The end of a refresh keeps the invariant: an adopted answer was fetched
\* after the last forced refresh began, or that refresh had failed.
LEMMA ForcedAdopts ==
    ASSUME TypeOK, ForcedInv, Adopted, Release, ForcedEnds("adopted"),
           UNCHANGED <<published, since>>
    PROVE  ForcedInv'
<1>1. keys' = ListedIn(answer) /\ answer # NoAnswer /\ answer' = NoAnswer
  BY ListedAreKids DEF Adopted, Release, TypeOK
<1>2. /\ lastForced' # "pending"
      /\ lastForced' = "adopted" => lastForced \in {"pending", "adopted"}
      /\ lastForced' = "none" <=> lastForced = "none"
      /\ UNCHANGED <<elapsed, sinceForced>>
  BY DEF ForcedEnds
<1> QED
  BY <1>1, <1>2 DEF ForcedInv, IsListed

LEMMA ForcedDrops ==
    ASSUME ForcedInv, Release, ForcedEnds("failed"), UNCHANGED <<keys, published, since>>
    PROVE  ForcedInv'
<1>1. /\ lastForced' # "pending" /\ (lastForced' = "adopted" => lastForced = "adopted")
      /\ lastForced' = "none" <=> lastForced = "none"
      /\ UNCHANGED <<elapsed, sinceForced>> /\ answer' = NoAnswer
  BY DEF ForcedEnds, Release
<1> QED
  BY <1>1 DEF ForcedInv, IsListed

LEMMA ForcedNext == TypeOK /\ LockInv /\ ForcedInv /\ [Next]_vars => ForcedInv'
<1> SUFFICES ASSUME TypeOK, LockInv, ForcedInv, [Next]_vars PROVE ForcedInv'
  OBVIOUS
<1> USE DEF cacheVars, lockVars, callVars, sourceVars, flightVars
<1>1. CASE UNCHANGED vars
  BY <1>1, ForcedSame DEF vars
<1>2. CASE StartFetch \/ Restart
  BY <1>2, ForcedSame DEF StartFetch, Restart
<1>3. CASE StartServing
  <2>1. keys' = ListedIn(answer) /\ answer # NoAnswer /\ answer' = NoAnswer
    BY <1>3, ListedAreKids DEF StartServing, Adopted, Release, TypeOK
  <2> QED
    BY <1>3, <2>1 DEF StartServing, ForcedInv, IsListed, forcedVars
<1>4. CASE StartFails
  BY <1>4, ForcedSame DEF StartFails, Release
<1>5. ASSUME NEW t \in Tasks, NEW k \in Kids,
             \/ FastPath(t, k) \/ Enqueue(t, k) \/ RecheckHit(t, k)
             \/ RateLimited(t, k) \/ RefreshStale(t, k)
      PROVE  ForcedInv'
  BY <1>5, ForcedSame DEF FastPath, Enqueue, RecheckHit, RateLimited, RefreshStale,
     BeginFetch
<1>6. ASSUME NEW t \in Tasks, NEW k \in Kids, ForceRefresh(t, k) PROVE ForcedInv'
  <2>1. answer' = NoAnswer
    BY <1>6, ObtainsFacts DEF ForceRefresh, BeginFetch
  <2> QED
    BY <1>6, <2>1 DEF ForceRefresh, ForcedInv
<1>7. ASSUME NEW t \in Tasks, RefreshAdopts(t) PROVE ForcedInv'
  BY <1>7, ForcedAdopts DEF RefreshAdopts
<1>8. ASSUME NEW t \in Tasks, RefreshFails(t) \/ RefreshErrors(t) PROVE ForcedInv'
  BY <1>8, ForcedDrops DEF RefreshFails, RefreshErrors
<1>9. ASSUME NEW t \in Tasks, Collect(t) PROVE ForcedInv'
  BY <1>9, ForcedSame DEF Collect
<1>10. CASE ProviderAnswers
  <2>1. \A k \in Kids : IsListed(k)' => k \in ListedIn(answer')
    BY <1>10 DEF ProviderAnswers, IsListed
  <2> QED
    BY <1>10, <2>1 DEF ProviderAnswers, ForcedInv, IsListed, forcedVars
<1>11. ASSUME NEW d \in Documents, Publish(d) PROVE ForcedInv'
  <2>1. \A k \in Kids : since'[k] = 0 \/ (since'[k] = since[k] /\ (IsListed(k)' <=> IsListed(k)))
    BY <1>11 DEF Publish, IsListed
  <2>2. UNCHANGED <<keys, answer, elapsed, sinceForced, lastForced>>
    BY <1>11 DEF Publish, forcedVars
  <2>3. 0 <= sinceForced
    BY BoundsAssumption DEF TypeOK
  <2> QED
    BY <2>1, <2>2, <2>3 DEF ForcedInv
<1>12. ASSUME NEW b \in BOOLEAN, SetUp(b) PROVE ForcedInv'
  BY <1>12, ForcedSame DEF SetUp
<1>13. CASE Tick
  <2>1. /\ \A k \in Kids : IsListed(k)' <=> IsListed(k)
        /\ keys' = keys /\ answer' = answer /\ lastForced' = lastForced
    BY <1>13 DEF Tick, IsListed
  <2>2. /\ elapsed' = Older(elapsed, MinForced) /\ elapsed \in 0..MinForced
        /\ sinceForced' = Older(sinceForced, MinForced) /\ sinceForced \in 0..MinForced
    BY <1>13 DEF Tick, TypeOK
  <2>3. IF lastForced' = "none" THEN sinceForced' = MinForced ELSE elapsed' = sinceForced'
    BY <2>1, <2>2, BoundsAssumption DEF ForcedInv, Older
  <2>4. ASSUME NEW k \in Kids, sinceForced' < MinForced, since[k] <= sinceForced
        PROVE  since'[k] <= sinceForced'
    <3>1. since'[k] = Older(since[k], SinceCap) /\ since[k] \in 0..SinceCap
      BY <1>13 DEF Tick, TypeOK
    <3> QED
      BY <2>2, <2>4, <3>1, BoundsNat, BoundsAssumption DEF Older
  <2>5. sinceForced' < MinForced => sinceForced < MinForced
    BY <2>2, BoundsAssumption DEF Older
  <2> QED
    BY <2>1, <2>3, <2>4, <2>5 DEF ForcedInv
<1> QED
  BY <1>1, <1>2, <1>3, <1>4, <1>5, <1>6, <1>7, <1>8, <1>9, <1>10, <1>11, <1>12,
     <1>13, NextCases

\* What is known of the last forced refresh (jwks.py 296-310).
LEMMA ForcedSafe == Spec => []ForcedInv
  BY TypeInit, TypeNext, LockInit, LockNext, ForcedInit, ForcedNext, PTL DEF Spec

LEMMA RateLimitStep ==
    ASSUME TypeOK, ForcedInv, Next, NEW t \in Tasks, Ends(t, "not_found"),
           pc[t] # "fetching"
    PROVE  \/ ~ IsListed(kid'[t])
           \/ since[kid'[t]] <= sinceForced
           \/ lastForced # "adopted"
<1>1. CASE kid'[t] \in Kids /\ RateLimited(t, kid'[t])
  BY <1>1 DEF RateLimited, ForcedInv
<1>2. /\ ~ FastPath(t, kid'[t]) /\ ~ RecheckHit(t, kid'[t]) /\ ~ RefreshAdopts(t)
      /\ ~ RefreshFails(t) /\ ~ RefreshErrors(t)
  BY DEF FastPath, RecheckHit, RefreshAdopts, RefreshFails, RefreshErrors, Returns,
     Ends, TypeOK
<1> QED
  BY <1>1, <1>2, EndsCases DEF Ends

\* The rate limit hides a listed key only if no completed forced refresh could
\* have brought it (jwks.py 103-104, 296-310).
THEOREM RateLimitSafe == Spec => RateLimitHidesOnlyNews
<1>1. TypeOK /\ ForcedInv /\ [Next]_vars =>
        [\A t \in Tasks : (Ends(t, "not_found") /\ pc[t] # "fetching") =>
           \/ ~ IsListed(kid'[t])
           \/ since[kid'[t]] <= sinceForced
           \/ lastForced # "adopted"]_vars
  BY RateLimitStep
<1> QED
  BY <1>1, TypeCorrect, ForcedSafe, PTL DEF Spec, RateLimitHidesOnlyNews

LEMMA FetchStep ==
    ASSUME TypeOK, LockInv, ForcedInv, Next, NEW t \in Tasks,
           pc[t] # "fetching", pc'[t] = "fetching"
    PROVE  \/ age >= CacheTtl
           \/ kid'[t] \notin keys /\ sinceForced >= MinForced
<1> USE DEF cacheVars, lockVars, callVars, sourceVars, flightVars, forcedVars
<1>1. ASSUME NEW u \in Tasks, NEW k \in Kids, ForceRefresh(u, k)
      PROVE  kid'[t] \notin keys /\ sinceForced >= MinForced
  <2>1. u = t /\ kid'[t] = k
    BY <1>1 DEF ForceRefresh, BeginFetch, TypeOK
  <2>2. k \notin keys /\ elapsed >= MinForced
    BY <1>1 DEF ForceRefresh
  <2> QED
    BY <2>1, <2>2, BoundsAssumption DEF ForcedInv
<1>2. ASSUME NEW u \in Tasks, NEW k \in Kids, RefreshStale(u, k)
      PROVE  age >= CacheTtl
  <2>1. age # Never /\ IsStale
    BY <1>2, ObtainsFacts DEF RefreshStale
  <2> QED
    BY <2>1 DEF IsStale
<1>3. ASSUME NEW u \in Tasks, NEW k \in Kids,
             FastPath(u, k) \/ Enqueue(u, k) \/ RecheckHit(u, k) \/ RateLimited(u, k)
      PROVE  FALSE
  BY <1>3 DEF FastPath, Enqueue, RecheckHit, RateLimited, Returns, TypeOK
<1>4. ASSUME NEW u \in Tasks,
             RefreshAdopts(u) \/ RefreshFails(u) \/ RefreshErrors(u) \/ Collect(u)
      PROVE  FALSE
  BY <1>4 DEF RefreshAdopts, RefreshFails, RefreshErrors, Collect, Returns, TypeOK
<1>5. ~ (StartFetch \/ StartServing \/ StartFails \/ Restart \/ ProviderAnswers \/ Tick)
  BY DEF StartFetch, StartServing, StartFails, Restart, ProviderAnswers, Tick
<1>6. ~ (\E d \in Documents : Publish(d)) /\ ~ (\E b \in BOOLEAN : SetUp(b))
  BY DEF Publish, SetUp
<1> QED
  BY <1>1, <1>2, <1>3, <1>4, <1>5, <1>6, NextCases

\* Nobody fetches what a refresh it waited for has just brought, and unknown
\* kids cost the provider one request per MinForced (jwks.py 97-104).
THEOREM FetchSafe == Spec => FetchJustified
<1>1. TypeOK /\ LockInv /\ ForcedInv /\ [Next]_vars =>
        [\A t \in Tasks : (pc[t] # "fetching" /\ pc'[t] = "fetching") =>
           \/ age >= CacheTtl
           \/ kid'[t] \notin keys /\ sinceForced >= MinForced]_vars
  BY FetchStep
<1> QED
  BY <1>1, TypeCorrect, LockSafe, ForcedSafe, PTL DEF Spec, FetchJustified

LEMMA OutageStep ==
    ASSUME TypeOK, LockInv, Next, NEW t \in Tasks, Ends(t, "unavailable") \/ Ends(t, "error")
    PROVE  \/ kid[t] \notin keys
           \/ age > CacheTtl + MaxStale
           \/ answer # NoAnswer /\ ParseRaisesOther(answer)
<1>1. CASE RefreshFails(t)
  <2>1. ~ (IsStaleUsable /\ seen[t]) /\ pc[t] = "fetching"
    BY <1>1 DEF RefreshFails, Returns, Ends, TypeOK
  <2>2. age # Never /\ age \in 0..AgeCap
    BY <2>1 DEF LockInv, HolderInv, TypeOK
  <2>3. seen[t] <=> kid[t] \in keys
    BY <2>1 DEF LockInv, HolderInv
  <2> QED
    BY <2>1, <2>2, <2>3, BoundsAssumption, BoundsNat DEF IsStaleUsable
<1>2. CASE RefreshErrors(t)
  BY <1>2 DEF RefreshErrors, RaisesOther
<1>3. /\ ~ FastPath(t, kid'[t]) /\ ~ RecheckHit(t, kid'[t])
      /\ ~ RateLimited(t, kid'[t]) /\ ~ RefreshAdopts(t)
  BY DEF FastPath, RecheckHit, RateLimited, RefreshAdopts, Returns, Ends, TypeOK
<1> QED
  BY <1>1, <1>2, <1>3, EndsCases DEF Ends

\* A known key survives an outage for CacheTtl + MaxStale (jwks.py 106-118).
THEOREM OutageSafe == Spec => OutageTolerated
<1>1. TypeOK /\ LockInv /\ [Next]_vars =>
        [\A t \in Tasks : (Ends(t, "unavailable") \/ Ends(t, "error")) =>
           \/ kid[t] \notin keys
           \/ age > CacheTtl + MaxStale
           \/ answer # NoAnswer /\ ParseRaisesOther(answer)]_vars
  BY OutageStep
<1> QED
  BY <1>1, TypeCorrect, LockSafe, PTL DEF Spec, OutageTolerated

---------------------------------------------------------------------------
\* The refinement of KeyWindow.

Views == [t \in Tasks |-> ViewOf(t)]
Listed == ListedIn(published)
OnItsWay == IF answer = NoAnswer THEN {} ELSE {ListedIn(answer)}
windowVars == <<Views, age, keys, transit, OnItsWay, Listed>>

LEMMA WindowInit == Init => Window!Init
<1> SUFFICES ASSUME Init PROVE Window!Init
  OBVIOUS
<1>1. ListedIn(published) \in SUBSET Kids
  BY ListedAreKids DEF Init
<1>2. Views = [t \in Tasks |-> Window!NoCall]
  BY DEF Init, Views, ViewOf, Window!NoCall
<1> QED
  BY <1>1, <1>2 DEF Init, Window!Init, Views

\* A step of t's call changes what is seen of t only.
LEMMA ViewChanges ==
    ASSUME NEW t \in Tasks,
           \A u \in Tasks \ {t} : UNCHANGED <<pc[u], kid[u], outcome[u]>>
    PROVE  /\ Views' = [Views EXCEPT ![t] = ViewOf(t)']
           /\ Views[t] = ViewOf(t)
<1>1. \A u \in Tasks \ {t} : ViewOf(u)' = ViewOf(u)
  BY DEF ViewOf
<1> QED
  BY <1>1 DEF Views

LEMMA ViewsStay == ASSUME UNCHANGED callVars PROVE Views' = Views
  BY DEF callVars, Views, ViewOf

\* A call that ends is an answer to the call t makes now, or has made before.
LEMMA ReturnsAnswers ==
    ASSUME TypeOK, NEW t \in Tasks, NEW k \in Kids \cup {NoKid}, NEW out \in Outcomes,
           Returns(t, k, out),
           pc[t] = "idle" \/ (pc[t] \in {"waiting", "fetching"} /\ kid[t] = k)
    PROVE  Window!Answers(t, k, out)
<1>1. Views' = [Views EXCEPT ![t] = ViewOf(t)'] /\ Views[t] = ViewOf(t)
  BY ViewChanges DEF Returns, TypeOK
<1>2. ViewOf(t)' = [at |-> "done", kid |-> k, out |-> out]
  BY DEF Returns, TypeOK, ViewOf
<1>3. \/ ViewOf(t) = Window!NoCall
      \/ ViewOf(t).at = "asked" /\ ViewOf(t).kid = k
  BY DEF ViewOf, Window!NoCall
<1> QED
  BY <1>1, <1>2, <1>3 DEF Window!Answers, Views

\* A call that has to wait, for the lock or for its refresh, is asked.
LEMMA WaitingAsks ==
    ASSUME TypeOK, NEW t \in Tasks, NEW k \in Kids, age # Never,
           pc[t] = "idle" \/ (pc[t] = "waiting" /\ kid[t] = k),
           \E at \in {"waiting", "fetching"} : pc' = [pc EXCEPT ![t] = at],
           kid' = [kid EXCEPT ![t] = k], outcome' = outcome,
           UNCHANGED <<age, keys, transit, answer, published>>
    PROVE  Window!Ask(t, k) \/ UNCHANGED windowVars
<1>1. Views' = [Views EXCEPT ![t] = ViewOf(t)'] /\ Views[t] = ViewOf(t)
  BY ViewChanges DEF TypeOK
<1>2. ViewOf(t)' = [at |-> "asked", kid |-> k, out |-> "none"]
  BY DEF TypeOK, ViewOf
<1>3. UNCHANGED <<age, keys, transit, OnItsWay, Listed>>
  BY DEF OnItsWay, Listed
<1>4. CASE pc[t] = "idle"
  <2>1. ViewOf(t) = Window!NoCall
    BY <1>4 DEF ViewOf, Window!NoCall
  <2> QED
    BY <1>1, <1>2, <1>3, <2>1 DEF Window!Ask, Views, OnItsWay, Listed
<1>5. CASE pc[t] = "waiting" /\ kid[t] = k
  <2>1. ViewOf(t)' = ViewOf(t)
    BY <1>2, <1>5 DEF ViewOf
  <2>2. Views' = Views
    BY <1>1, <2>1 DEF Views
  <2> QED
    BY <1>3, <2>2 DEF windowVars
<1> QED
  BY <1>4, <1>5

\* Every refresh ends with the snapshot on its way consumed: adopted as the
\* new one, or lost.
LEMMA RefreshLands ==
    ASSUME TypeOK, Release, UNCHANGED sourceVars
    PROVE  /\ Window!Lands
           /\ Adopted => Window!Arrives
           /\ UNCHANGED cacheVars => Window!Lost
<1>1. Window!Lands
  BY DEF Release, sourceVars, Window!Lands
<1>2. ASSUME Adopted PROVE Window!Arrives
  <2>1. answer \in Documents /\ answer # NoAnswer /\ keys' = ListedIn(answer) /\ keys' # {}
    BY <1>2, ListedAreKids DEF Adopted, TypeOK, Parses
  <2> QED
    BY <1>2, <2>1 DEF Adopted, Window!Arrives
<1> QED
  BY <1>1, <1>2 DEF cacheVars, Window!Lost

\* An answer read off the map is read off a fresh snapshot.
LEMMA HitIsRead ==
    ASSUME TypeOK, LockInv, NEW t \in Tasks, NEW k \in Kids,
           FastPath(t, k) \/ RecheckHit(t, k) \/ RateLimited(t, k)
    PROVE  \E out \in {"key", "not_found", "unavailable", "error"} : Window!Read(t, k, out)
<1> USE DEF cacheVars, lockVars, sourceVars, flightVars
<1>1. pc[t] = "idle" \/ (pc[t] = "waiting" /\ kid[t] = k)
  BY DEF FastPath, RecheckHit, RateLimited, Obtains, CanCall
<1>2. UNCHANGED <<age, keys, transit, answer, published>>
  BY DEF FastPath, RecheckHit, RateLimited
<1>3. ~ IsStale
  BY DEF FastPath, RecheckHit, RateLimited, Fresh
<1>4. age # Never /\ age < CacheTtl
  BY <1>3, BoundsAssumption, BoundsNat DEF IsStale, TypeOK
<1>5. CASE FastPath(t, k) \/ RecheckHit(t, k)
  <2>1. k \in keys /\ Returns(t, k, "key")
    BY <1>5 DEF FastPath, RecheckHit, Fresh
  <2>2. Window!Answers(t, k, "key")
    BY <1>1, <2>1, ReturnsAnswers DEF Outcomes
  <2>3. Window!Read(t, k, "key")
    BY <1>2, <1>4, <2>1, <2>2 DEF Window!Read, Window!Fresh
  <2> QED
    BY <2>3
<1>6. CASE RateLimited(t, k)
  <2>1. k \notin keys /\ Returns(t, k, "not_found")
    BY <1>6 DEF RateLimited
  <2>2. Window!Answers(t, k, "not_found")
    BY <1>1, <2>1, ReturnsAnswers DEF Outcomes
  <2>3. Window!Read(t, k, "not_found")
    BY <1>2, <1>4, <2>1, <2>2 DEF Window!Read, Window!Fresh
  <2> QED
    BY <2>3
<1> QED
  BY <1>5, <1>6

\* The end of a call's refresh reads the answer off the snapshot that arrived,
\* or off the one before, or gives none.
LEMMA RefreshIsRead ==
    ASSUME TypeOK, LockInv, NEW t \in Tasks, Refreshed(t)
    PROVE  \E k \in Kids, out \in {"key", "not_found", "unavailable", "error"} :
               Window!ReadArrived(t, k, out) \/ Window!ReadStale(t, k, out)
<1>0. pc[t] = "fetching" /\ Release /\ UNCHANGED sourceVars
  BY DEF Refreshed, RefreshAdopts, RefreshFails, RefreshErrors
<1>1. kid[t] \in Kids /\ (seen[t] <=> kid[t] \in keys) /\ age # Never
  BY <1>0 DEF LockInv, HolderInv, TypeOK
<1>2. ViewOf(t).at = "asked" /\ Views[t] = ViewOf(t)
  BY <1>0 DEF ViewOf, Views
<1>3. CASE RefreshAdopts(t)
  <2> DEFINE out == IF kid[t] \in keys' THEN "key" ELSE "not_found"
  <2>1. Window!Answers(t, kid[t], out)
    BY <1>0, <1>1, <1>3, ReturnsAnswers DEF RefreshAdopts, Outcomes
  <2>2. Window!Arrives /\ Window!Lands
    BY <1>0, <1>3, RefreshLands DEF RefreshAdopts
  <2>3. age' = 0 /\ 0 # Never /\ 0 < CacheTtl
    BY <1>3, BoundsAssumption, NamesAssumption DEF RefreshAdopts, Adopted
  <2>4. Window!ReadArrived(t, kid[t], out)
    BY <1>2, <2>1, <2>2, <2>3 DEF Window!ReadArrived, Window!Fresh, Views
  <2> QED
    BY <1>1, <2>4
<1>4. CASE RefreshFails(t)
  <2> DEFINE out == IF IsStaleUsable /\ seen[t] THEN "key" ELSE "unavailable"
  <2>1. Window!Answers(t, kid[t], out)
    BY <1>0, <1>1, <1>4, ReturnsAnswers DEF RefreshFails, Outcomes
  <2>2. Window!Lost /\ Window!Lands
    BY <1>0, <1>4, RefreshLands DEF RefreshFails
  <2>3. age \in 0..AgeCap
    BY <1>1 DEF TypeOK
  <2>4. Window!Stale(kid[t], out)
    BY <1>1, <2>3, BoundsAssumption, BoundsNat DEF Window!Stale, IsStaleUsable
  <2>5. Window!ReadStale(t, kid[t], out)
    BY <1>2, <2>1, <2>2, <2>4 DEF Window!ReadStale, Views
  <2> QED
    BY <1>1, <2>5
<1>5. CASE RefreshErrors(t)
  <2>1. Window!Answers(t, kid[t], "error")
    BY <1>0, <1>1, <1>5, ReturnsAnswers DEF RefreshErrors, Outcomes
  <2>2. Window!Lost /\ Window!Lands
    BY <1>0, <1>5, RefreshLands DEF RefreshErrors
  <2>3. Window!ReadStale(t, kid[t], "error")
    BY <1>1, <1>2, <2>1, <2>2 DEF Window!ReadStale, Window!Stale, Views
  <2> QED
    BY <1>1, <2>3
<1> QED
  BY <1>3, <1>4, <1>5 DEF Refreshed

LEMMA CollectIsCollect ==
    ASSUME TypeOK, NEW t \in Tasks, Collect(t)
    PROVE  Window!Collect(t)
<1>1. Views' = [Views EXCEPT ![t] = ViewOf(t)'] /\ Views[t] = ViewOf(t)
  BY ViewChanges DEF Collect, TypeOK
<1>2. ViewOf(t)' = Window!NoCall /\ ViewOf(t).at = "done"
  BY DEF Collect, TypeOK, ViewOf, Window!NoCall
<1> QED
  BY <1>1, <1>2 DEF Collect, Window!Collect, Views, cacheVars, sourceVars, flightVars

LEMMA TickIsTick ==
    ASSUME TypeOK, Tick
    PROVE  Window!Tick
<1>1. Views' = Views
  BY ViewsStay DEF Tick
<1>2. age' = Window!Older(age)
  <2>1. CASE age = Never
    BY <2>1 DEF Tick, Window!Older
  <2>2. CASE age # Never
    <3>1. age \in 0..AgeCap /\ age' = Older(age, AgeCap)
      BY <2>2 DEF Tick, TypeOK
    <3>2. Older(age, AgeCap) = IF age <= CacheTtl + MaxStale THEN age + 1 ELSE age
      BY <3>1, BoundsAssumption, BoundsNat DEF Older
    <3> QED
      BY <2>2, <3>1, <3>2 DEF Window!Older
  <2> QED
    BY <2>1, <2>2
<1>3. OnItsWay = {} <=> answer = NoAnswer
  BY DEF OnItsWay
<1> QED
  BY <1>1, <1>2, <1>3 DEF Tick, Window!Tick, Views, OnItsWay, sourceVars

LEMMA WindowStep == TypeOK /\ LockInv /\ [Next]_vars => [Window!Next]_(Window!vars)
<1> SUFFICES ASSUME TypeOK, LockInv, [Next]_vars
             PROVE  Window!Next \/ UNCHANGED windowVars
  BY DEF Window!vars, windowVars, Views, OnItsWay, Listed
<1> USE DEF cacheVars, lockVars, sourceVars, flightVars
<1>1. ASSUME UNCHANGED <<callVars, age, keys, transit, answer, published>>
      PROVE  UNCHANGED windowVars
  BY <1>1, ViewsStay DEF windowVars, OnItsWay, Listed
<1>2. CASE UNCHANGED vars
  BY <1>1, <1>2 DEF vars
<1>3. CASE StartFetch \/ Restart \/ \E b \in BOOLEAN : SetUp(b)
  BY <1>1, <1>3 DEF StartFetch, Restart, SetUp
<1>4. CASE StartServing \/ StartFails
  <2>1. phase = "starting" /\ Release /\ UNCHANGED <<callVars, sourceVars>>
    BY <1>4 DEF StartServing, StartFails
  <2>2. age = Never
    BY <2>1 DEF LockInv, HolderInv
  <2>3. Window!Lands /\ (Window!Arrives \/ Window!Lost)
    BY <1>4, <2>1, RefreshLands DEF StartServing, StartFails
  <2>4. Window!Start
    BY <2>1, <2>2, <2>3, ViewsStay DEF Window!Start, Views
  <2> QED
    BY <2>4 DEF Window!Next
<1>5. ASSUME NEW t \in Tasks, NEW k \in Kids,
             FastPath(t, k) \/ RecheckHit(t, k) \/ RateLimited(t, k)
      PROVE  Window!Next
  BY <1>5, HitIsRead DEF Window!Next, Window!Call
<1>6. ASSUME NEW t \in Tasks, NEW k \in Kids, Enqueue(t, k)
      PROVE  Window!Next \/ UNCHANGED windowVars
  <2>1. pc[t] = "idle" /\ age # Never
    BY <1>6 DEF Enqueue, CanCall, LockInv, HolderInv
  <2>2. Window!Ask(t, k) \/ UNCHANGED windowVars
    BY <1>6, <2>1, WaitingAsks DEF Enqueue
  <2> QED
    BY <2>2 DEF Window!Next, Window!Call
<1>7. ASSUME NEW t \in Tasks, NEW k \in Kids, ForceRefresh(t, k) \/ RefreshStale(t, k)
      PROVE  Window!Next \/ UNCHANGED windowVars
  <2>1. Obtains(t, k) /\ BeginFetch(t, k)
    BY <1>7 DEF ForceRefresh, RefreshStale
  <2>2. age # Never /\ (pc[t] = "idle" \/ (pc[t] = "waiting" /\ kid[t] = k))
    BY <2>1, ObtainsFacts DEF Obtains, CanCall
  <2>3. Window!Ask(t, k) \/ UNCHANGED windowVars
    BY <2>1, <2>2, WaitingAsks DEF BeginFetch
  <2> QED
    BY <2>3 DEF Window!Next, Window!Call
<1>8. ASSUME NEW t \in Tasks, Refreshed(t) PROVE Window!Next
  BY <1>8, RefreshIsRead DEF Window!Next, Window!Call
<1>9. ASSUME NEW t \in Tasks, Collect(t) PROVE Window!Next
  BY <1>9, CollectIsCollect DEF Window!Next
<1>10. CASE ProviderAnswers
  <2>1. Views' = Views
    BY <1>10, ViewsStay DEF ProviderAnswers
  <2>2. answer = NoAnswer /\ answer' # NoAnswer /\ answer' = published
    BY <1>10, NamesAssumption DEF ProviderAnswers, TypeOK
  <2>3. Window!Take
    BY <1>10, <2>1, <2>2 DEF ProviderAnswers, Window!Take, Views
  <2> QED
    BY <2>3 DEF Window!Next
<1>11. ASSUME NEW d \in Documents, Publish(d) PROVE Window!Next
  <2>1. Views' = Views
    BY <1>11, ViewsStay DEF Publish
  <2>2. ListedIn(published') \in SUBSET Kids
    BY <1>11, ListedAreKids DEF Publish
  <2>3. Window!Publish
    BY <1>11, <2>1, <2>2 DEF Publish, Window!Publish, Views
  <2> QED
    BY <2>3 DEF Window!Next
<1>12. CASE Tick
  BY <1>12, TickIsTick DEF Window!Next
<1> QED
  BY <1>2, <1>3, <1>4, <1>5, <1>6, <1>7, <1>8, <1>9, <1>10, <1>11, <1>12, NextCases
  DEF Refreshed

\* All callers read one snapshot of the provider, replaced as a whole and as
\* young as they are told (jwks.py 84-139).
THEOREM ImplementsWindow == Spec => ImplementsKeyWindow
  BY WindowInit, WindowStep, TypeInit, TypeNext, LockInit, LockNext, PTL
  DEF Spec, ImplementsKeyWindow, Window!Spec

===========================================================================
