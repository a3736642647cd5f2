--------------------------- MODULE JWKSProvider ---------------------------
(***************************************************************************)
(* The signing-key cache of the token verifier: class JWKSProvider of      *)
(* src/pet/infra/auth/jwks.py.  Tasks of one event loop ask it for the     *)
(* key of a kid; it answers from a map that is at most CacheTtl old, or    *)
(* refreshes the map under an asyncio.Lock, or falls back on the old map   *)
(* when the refresh fails and the map is at most CacheTtl + MaxStale old.  *)
(*                                                                         *)
(* A step of a task is the code between two awaits that can suspend (the   *)
(* lock while it is taken or awaited by others, the HTTP request).  The    *)
(* code compares time.monotonic() readings with thresholds only, so time   *)
(* is kept as ages that a clock tick increments and that saturate past     *)
(* their largest threshold.                                                *)
(***************************************************************************)
EXTENDS JwksDocument, Functions

CONSTANTS
    Tasks,       \* the asyncio tasks that may call get_signing_key
    NoTask,      \* nobody holds the lock
    Starter,     \* the lifespan task that runs start()
    Documents,   \* the bodies the identity provider may publish
    NoAnswer,    \* no HTTP answer is in flight
    Never,       \* the map has never been fetched
    CacheTtl,    \* cache_ttl_seconds
    MaxStale,    \* max_stale_seconds
    MinForced,   \* min_forced_refresh_interval_seconds
    MaxTransit   \* ticks between the provider reading its keys and the
                 \* answer reaching the task: an assumption, the timeout of
                 \* the HTTP client being one for each of its operations

\* __init__ raises ValueError on any other bounds.
ASSUME BoundsAssumption ==
    /\ CacheTtl \in Nat \ {0}
    /\ MaxStale \in Nat
    /\ MinForced \in Nat \ {0}
    /\ MaxTransit \in Nat

ASSUME NamesAssumption ==
    /\ Documents \subseteq Payload
    /\ NoAnswer \notin Payload
    /\ Never \notin Nat
    /\ NoTask \notin Tasks \cup {Starter}
    /\ Starter \notin Tasks

AgeCap   == CacheTtl + MaxStale + 1
SinceCap == AgeCap + MaxTransit

VARIABLES
    phase,       \* of the process: "new", "starting", "serving", "failed"
    keys,        \* _keys_by_kid: the kids of the map
    age,         \* now - _fetched_at_monotonic, Never before the first fetch
    elapsed,     \* now - _last_forced_refresh_at_monotonic
    holder,      \* the task that holds _lock
    waiters,     \* the tasks queued on _lock, first come first served
    pc,          \* pc[t]: "idle", "waiting", "fetching", "done"
    kid,         \* kid[t]: the argument of t's call
    seen,        \* seen[t]: local `key` is not None across t's refresh
    outcome      \* outcome[t]: how t's call ended

VARIABLES
    published,   \* the body the provider serves now
    up,          \* whether a request to it succeeds now
    answer,      \* the body of the answer in flight
    transit      \* ticks since the provider produced it

VARIABLES        \* history, read by the properties only
    since,       \* since[k]: ticks since k was last listed or withdrawn
    sinceForced, \* ticks since a forced refresh last began
    lastForced   \* how it went: "none", "pending", "adopted", "failed"

cacheVars  == <<keys, age>>
lockVars   == <<holder, waiters>>
callVars   == <<pc, kid, seen, outcome>>
sourceVars == <<published, up>>
flightVars == <<answer, transit>>
forcedVars == <<elapsed, sinceForced, lastForced>>
vars == <<phase, cacheVars, lockVars, callVars, sourceVars, flightVars,
          since, forcedVars>>

Outcomes == {"none", "key", "not_found", "unavailable", "error"}

IsListed(k) == k \in ListedIn(published)

\* Faulty variant: a map exactly CacheTtl old still counts as fresh.
IsStaleLate == age = Never \/ age > CacheTtl

IsStale == age = Never \/ age >= CacheTtl

\* Faulty variants: the fallback has no limit, or loses its last tick.
IsStaleUsableForever == age # Never
IsStaleUsableShort == age # Never /\ age < MaxStale + CacheTtl

IsStaleUsable == age # Never /\ age <= MaxStale + CacheTtl

Fresh(k) == k \in keys /\ ~ IsStale

Older(n, cap) == IF n < cap THEN n + 1 ELSE cap

---------------------------------------------------------------------------
\* _last_forced_refresh_at_monotonic starts as 0.0, the origin of the host's
\* monotonic clock, so what has elapsed since depends on the host's uptime.
Init ==
    /\ phase = "new"
    /\ keys = {}
    /\ age = Never
    /\ elapsed \in 0..MinForced
    /\ holder = NoTask
    /\ waiters = <<>>
    /\ pc = [t \in Tasks |-> "idle"]
    /\ kid = [t \in Tasks |-> NoKid]
    /\ seen = [t \in Tasks |-> FALSE]
    /\ outcome = [t \in Tasks |-> "none"]
    /\ published \in Documents
    /\ up \in BOOLEAN
    /\ answer = NoAnswer
    /\ transit = 0
    /\ since = [k \in Kids |-> SinceCap]
    /\ sinceForced = MinForced
    /\ lastForced = "none"

---------------------------------------------------------------------------
\* start(): the first fetch, under the lock, before any request is served.

StartFetch ==
    /\ phase = "new"
    /\ phase' = "starting"
    /\ holder' = Starter
    /\ UNCHANGED <<cacheVars, waiters, callVars, sourceVars, flightVars,
                   since, forcedVars>>

\* Faulty variants: the new map is merged into the old, or never replaces it.
AdoptedMerged ==
    /\ answer # NoAnswer /\ Parses(answer)
    /\ keys' = keys \cup KeysByKid(answer) /\ age' = 0

AdoptedOnce ==
    /\ answer # NoAnswer /\ Parses(answer)
    /\ keys' = (IF keys = {} THEN KeysByKid(answer) ELSE keys) /\ age' = 0

\* _refresh adopts the map of an answer that parses ...
Adopted ==
    /\ answer # NoAnswer
    /\ Parses(answer)
    /\ keys' = KeysByKid(answer)
    /\ age' = 0

\* ... and otherwise raises, leaving the map and its age alone: the request
\* failed, or the parse raised JwksProviderUnavailable.
Unavailable == IF answer = NoAnswer THEN ~ up ELSE ~ up \/ ParseUnavailable(answer)

RaisesOther == answer # NoAnswer /\ ParseRaisesOther(answer)

\* Faulty variant: the lock is not released.
ReleaseForgotten == holder' = holder /\ answer' = NoAnswer /\ transit' = 0

\* The end of every refresh: the lock is released and the answer consumed.
Release ==
    /\ holder' = NoTask
    /\ answer' = NoAnswer
    /\ transit' = 0

StartServing ==
    /\ phase = "starting"
    /\ Adopted
    /\ phase' = "serving"
    /\ Release
    /\ UNCHANGED <<waiters, callVars, sourceVars, since, forcedVars>>

\* Faulty variant: start() swallows the failure.
StartFailsSilently ==
    /\ phase = "starting"
    /\ Unavailable \/ RaisesOther
    /\ Release
    /\ UNCHANGED <<phase, cacheVars, waiters, callVars, sourceVars, since, forcedVars>>

StartFails ==
    /\ phase = "starting"
    /\ Unavailable \/ RaisesOther
    /\ phase' = "failed"
    /\ Release
    /\ UNCHANGED <<cacheVars, waiters, callVars, sourceVars, since, forcedVars>>

\* The container's restart policy starts the process again.
Restart ==
    /\ phase = "failed"
    /\ phase' = "new"
    /\ UNCHANGED <<cacheVars, lockVars, callVars, sourceVars, flightVars,
                   since, forcedVars>>

---------------------------------------------------------------------------
\* get_signing_key

\* A call by t for k ends with out.
Returns(t, k, out) ==
    /\ pc' = [pc EXCEPT ![t] = "done"]
    /\ kid' = [kid EXCEPT ![t] = k]
    /\ seen' = [seen EXCEPT ![t] = FALSE]
    /\ outcome' = [outcome EXCEPT ![t] = out]

CanCall(t) == phase = "serving" /\ pc[t] = "idle"

FastPath(t, k) ==
    /\ CanCall(t)
    /\ Fresh(k)
    /\ Returns(t, k, "key")
    /\ UNCHANGED <<phase, cacheVars, lockVars, sourceVars, flightVars, since,
                   forcedVars>>

\* asyncio.Lock makes a newcomer queue when the lock is taken and also when
\* it is free but others already wait for it.
Enqueue(t, k) ==
    /\ CanCall(t)
    /\ ~ Fresh(k)
    /\ holder # NoTask \/ waiters # <<>>
    /\ waiters' = Append(waiters, t)
    /\ pc' = [pc EXCEPT ![t] = "waiting"]
    /\ kid' = [kid EXCEPT ![t] = k]
    /\ UNCHANGED <<phase, cacheVars, holder, seen, outcome, sourceVars,
                   flightVars, since, forcedVars>>

\* Faulty variant: the body runs without the lock.
ObtainsUnlocked(t, k) ==
    \/ CanCall(t) /\ ~ Fresh(k) /\ waiters = <<>> /\ waiters' = <<>>
    \/ /\ pc[t] = "waiting" /\ kid[t] = k
       /\ waiters # <<>> /\ Head(waiters) = t /\ waiters' = Tail(waiters)

\* t, calling for k, obtains the lock: at once, or woken as the first waiter.
Obtains(t, k) ==
    /\ holder = NoTask
    /\ \/ CanCall(t) /\ ~ Fresh(k) /\ waiters = <<>> /\ waiters' = <<>>
       \/ /\ pc[t] = "waiting" /\ kid[t] = k
          /\ waiters # <<>> /\ Head(waiters) = t /\ waiters' = Tail(waiters)

\* The second look at the map, under the lock.
RecheckHit(t, k) ==
    /\ Obtains(t, k)
    /\ Fresh(k)
    /\ Returns(t, k, "key")
    /\ UNCHANGED <<phase, cacheVars, holder, sourceVars, flightVars, since,
                   forcedVars>>

\* Faulty variant: a refused call moves the window on.
RateLimitedSliding(t, k) ==
    /\ Obtains(t, k)
    /\ k \notin keys /\ ~ IsStale
    /\ elapsed < MinForced
    /\ elapsed' = 0
    /\ Returns(t, k, "not_found")
    /\ UNCHANGED <<phase, cacheVars, holder, sourceVars, flightVars, since,
                   sinceForced, lastForced>>

RateLimited(t, k) ==
    /\ Obtains(t, k)
    /\ k \notin keys /\ ~ IsStale
    /\ elapsed < MinForced
    /\ Returns(t, k, "not_found")
    /\ UNCHANGED <<phase, cacheVars, holder, sourceVars, flightVars, since,
                   forcedVars>>

BeginFetch(t, k) ==
    /\ holder' = t
    /\ pc' = [pc EXCEPT ![t] = "fetching"]
    /\ kid' = [kid EXCEPT ![t] = k]
    /\ seen' = [seen EXCEPT ![t] = k \in keys]
    /\ UNCHANGED <<phase, cacheVars, outcome, sourceVars, flightVars, since>>

\* The time of the forced refresh is recorded before the request is made.
ForceRefresh(t, k) ==
    /\ Obtains(t, k)
    /\ k \notin keys /\ ~ IsStale
    /\ elapsed >= MinForced
    /\ elapsed' = 0
    /\ sinceForced' = 0
    /\ lastForced' = "pending"
    /\ BeginFetch(t, k)

\* Faulty variant: no second look under the lock.
RefreshStaleUnchecked(t, k) ==
    /\ Obtains(t, k)
    /\ BeginFetch(t, k)
    /\ UNCHANGED forcedVars

RefreshStale(t, k) ==
    /\ Obtains(t, k)
    /\ IsStale
    /\ BeginFetch(t, k)
    /\ UNCHANGED forcedVars

\* How the refresh t ran went, if it was the forced one.
ForcedEnds(how) ==
    /\ lastForced' = IF lastForced = "pending" THEN how ELSE lastForced
    /\ UNCHANGED <<elapsed, sinceForced>>

RefreshAdopts(t) ==
    /\ pc[t] = "fetching"
    /\ Adopted
    /\ Returns(t, kid[t], IF kid[t] \in keys' THEN "key" ELSE "not_found")
    /\ Release
    /\ ForcedEnds("adopted")
    /\ UNCHANGED <<phase, waiters, sourceVars, since>>

\* except JwksProviderUnavailable: the key seen before the request is the
\* answer if the map is not too old now.
RefreshFails(t) ==
    /\ pc[t] = "fetching"
    /\ Unavailable
    /\ Returns(t, kid[t], IF IsStaleUsable /\ seen[t] THEN "key" ELSE "unavailable")
    /\ Release
    /\ ForcedEnds("failed")
    /\ UNCHANGED <<phase, cacheVars, waiters, sourceVars, since>>

\* Any other exception passes through get_signing_key.
RefreshErrors(t) ==
    /\ pc[t] = "fetching"
    /\ RaisesOther
    /\ Returns(t, kid[t], "error")
    /\ Release
    /\ ForcedEnds("failed")
    /\ UNCHANGED <<phase, cacheVars, waiters, sourceVars, since>>

\* The caller takes the outcome; the task is free for another request.
Collect(t) ==
    /\ pc[t] = "done"
    /\ pc' = [pc EXCEPT ![t] = "idle"]
    /\ kid' = [kid EXCEPT ![t] = NoKid]
    /\ outcome' = [outcome EXCEPT ![t] = "none"]
    /\ UNCHANGED <<phase, cacheVars, lockVars, seen, sourceVars, flightVars,
                   since, forcedVars>>

---------------------------------------------------------------------------
\* The identity provider, the network and the clock.

ProviderAnswers ==
    /\ holder # NoTask
    /\ answer = NoAnswer
    /\ up
    /\ answer' = published
    /\ UNCHANGED <<phase, cacheVars, lockVars, callVars, sourceVars, transit,
                   since, forcedVars>>

Publish(d) ==
    /\ d # published
    /\ published' = d
    /\ since' = [k \in Kids |-> IF IsListed(k) = (k \in ListedIn(d))
                                THEN since[k] ELSE 0]
    /\ UNCHANGED <<phase, cacheVars, lockVars, callVars, up, flightVars,
                   forcedVars>>

SetUp(b) ==
    /\ up # b
    /\ up' = b
    /\ UNCHANGED <<phase, cacheVars, lockVars, callVars, published, flightVars,
                   since, forcedVars>>

Tick ==
    /\ answer # NoAnswer => transit < MaxTransit
    /\ age' = IF age = Never THEN Never ELSE Older(age, AgeCap)
    /\ elapsed' = Older(elapsed, MinForced)
    /\ transit' = IF answer = NoAnswer THEN 0 ELSE transit + 1
    /\ since' = [k \in Kids |-> Older(since[k], SinceCap)]
    /\ sinceForced' = Older(sinceForced, MinForced)
    /\ UNCHANGED <<phase, keys, lockVars, callVars, sourceVars, answer,
                   lastForced>>

---------------------------------------------------------------------------
\* The steps of t's call once it waits for the lock, and of the refresh.
Wakes(t) ==
    \E k \in Kids : /\ pc[t] = "waiting"
                    /\ \/ RecheckHit(t, k) \/ RateLimited(t, k)
                       \/ ForceRefresh(t, k) \/ RefreshStale(t, k)

Refreshed(t) == RefreshAdopts(t) \/ RefreshFails(t) \/ RefreshErrors(t)

Call(t, k) ==
    /\ pc[t] = "idle"
    /\ \/ FastPath(t, k) \/ Enqueue(t, k) \/ RateLimited(t, k)
       \/ ForceRefresh(t, k) \/ RefreshStale(t, k)

Next ==
    \/ StartFetch \/ StartServing \/ StartFails \/ Restart
    \/ \E t \in Tasks : \/ \E k \in Kids : Call(t, k)
                        \/ Wakes(t) \/ Refreshed(t) \/ Collect(t)
    \/ ProviderAnswers
    \/ \E d \in Documents : Publish(d)
    \/ \E b \in BOOLEAN : SetUp(b)
    \/ Tick

Spec == Init /\ [][Next]_vars

---------------------------------------------------------------------------
\* What has to hold

\* Type correctness of the state of JWKSProvider (jwks.py, __init__).
TypeOK ==
    /\ phase \in {"new", "starting", "serving", "failed"}
    /\ keys \in SUBSET Kids
    /\ age \in (0..AgeCap) \cup {Never}
    /\ elapsed \in 0..MinForced
    /\ holder \in Tasks \cup {Starter, NoTask}
    /\ waiters \in Seq(Tasks)
    /\ pc \in [Tasks -> {"idle", "waiting", "fetching", "done"}]
    /\ kid \in [Tasks -> Kids \cup {NoKid}]
    /\ seen \in [Tasks -> BOOLEAN]
    /\ outcome \in [Tasks -> Outcomes]
    /\ published \in Documents
    /\ up \in BOOLEAN
    /\ answer \in Documents \cup {NoAnswer}
    /\ transit \in 0..MaxTransit
    /\ since \in [Kids -> 0..SinceCap]
    /\ sinceForced \in 0..MinForced
    /\ lastForced \in {"none", "pending", "adopted", "failed"}

\* The refresh belongs to the holder of the lock; nobody is served before the
\* first map is there; the key a refresher looked up before its request is
\* still what the map says when the request ends.
HolderInv ==
    /\ \A t \in Tasks : pc[t] = "fetching" <=> holder = t
    /\ \A t \in Tasks : pc[t] = "fetching" =>
                            kid[t] \in Kids /\ (seen[t] <=> kid[t] \in keys)
    /\ phase = "starting" <=> holder = Starter
    /\ phase # "serving" => age = Never /\ \A t \in Tasks : pc[t] = "idle"
    /\ phase = "serving" => age # Never
    /\ answer # NoAnswer => holder # NoTask

\* A task waits in the queue of the lock once or not at all.
QueueInv ==
    /\ \A t \in Tasks : pc[t] = "waiting" <=> t \in Range(waiters)
    /\ \A i, j \in DOMAIN waiters : waiters[i] = waiters[j] => i = j

\* The lock protects the refresh: at most one fetch is in flight, and the
\* fallback never returns a key the map has dropped meanwhile
\* (get_signing_key reads `key` before `await self._refresh()` and uses it
\* after).
LockInv == HolderInv /\ QueueInv

\* The map is a snapshot of the provider: where it disagrees with what the
\* provider lists now, the change is not older than the map plus the time its
\* answer travelled.
SnapshotInv ==
    /\ age # Never => \A k \in Kids :
           ~ (k \in keys <=> IsListed(k)) => since[k] <= age + MaxTransit
    /\ answer # NoAnswer => \A k \in Kids :
           ~ (k \in ListedIn(answer) <=> IsListed(k)) => since[k] <= transit

\* What a map knows that was fetched since the last forced refresh began: it
\* lacks a listed key only if that key came later.
ForcedInv ==
    /\ IF lastForced = "none" THEN sinceForced = MinForced ELSE elapsed = sinceForced
    /\ (lastForced = "adopted" /\ sinceForced < MinForced) => \A k \in Kids :
           (IsListed(k) /\ k \notin keys) => since[k] <= sinceForced
    /\ (lastForced \in {"pending", "adopted"} /\ sinceForced < MinForced /\ answer # NoAnswer)
           => \A k \in Kids : (IsListed(k) /\ k \notin ListedIn(answer))
                                  => since[k] <= sinceForced

\* t's call ends in this step with out.
Ends(t, out) == pc[t] # "done" /\ pc'[t] = "done" /\ outcome'[t] = out

\* A key the provider withdrew is not handed out for longer than the cache
\* lives: CacheTtl (and the transit) after the withdrawal, and MaxStale more
\* only to a call whose own refresh failed.
RevocationWindow ==
    [][\A t \in Tasks : Ends(t, "key") =>
         \/ IsListed(kid'[t])
         \/ since[kid'[t]] < CacheTtl + MaxTransit
         \/ /\ pc[t] = "fetching" /\ Unavailable
            /\ since[kid'[t]] <= CacheTtl + MaxStale + MaxTransit]_vars

\* A key the provider lists is not reported unknown once it has been listed
\* for the lifetime of the cache.
DiscoveryWindow ==
    [][\A t \in Tasks : Ends(t, "not_found") =>
         \/ ~ IsListed(kid'[t])
         \/ since[kid'[t]] < CacheTtl + MaxTransit]_vars

\* The rate limit refuses a listed kid only when nobody could have seen it:
\* it was listed after the last forced refresh began, or that refresh failed
\* (its slot is spent before the request, jwks.py 310), or there was none
\* (_last_forced_refresh_at_monotonic starts at the clock's origin).
RateLimitHidesOnlyNews ==
    [][\A t \in Tasks : (Ends(t, "not_found") /\ pc[t] # "fetching") =>
         \/ ~ IsListed(kid'[t])
         \/ since[kid'[t]] <= sinceForced
         \/ lastForced # "adopted"]_vars

\* The provider is not hammered: a task that queued behind a refresh does not
\* repeat it, and refreshes for unknown kids begin MinForced apart.
FetchJustified ==
    [][\A t \in Tasks : (pc[t] # "fetching" /\ pc'[t] = "fetching") =>
         \/ age >= CacheTtl
         \/ kid'[t] \notin keys /\ sinceForced >= MinForced]_vars

\* An outage or a broken body costs nobody a known key before the map is
\* CacheTtl + MaxStale old, except a body on which the parse raises what no
\* except clause of jwks.py names: for that one the fallback that the docstring
\* of get_signing_key announces ("if refresh fails and stale key exists") is
\* passed by.
OutageTolerated ==
    [][\A t \in Tasks : (Ends(t, "unavailable") \/ Ends(t, "error")) =>
         \/ kid[t] \notin keys
         \/ age > CacheTtl + MaxStale
         \/ answer # NoAnswer /\ ParseRaisesOther(answer)]_vars

\* The abstract view: a call is asked until it ends, an answer is the keys it
\* lists, and locks, queues and forced refreshes are hidden.
ViewOf(t) ==
    [at  |-> IF pc[t] \in {"waiting", "fetching"} THEN "asked" ELSE pc[t],
     kid |-> IF pc[t] = "idle" THEN NoKid ELSE kid[t],
     out |-> IF pc[t] = "done" THEN outcome[t] ELSE "none"]

Window == INSTANCE KeyWindow WITH
    listed   <- ListedIn(published),
    snapshot <- keys,
    taken    <- IF answer = NoAnswer THEN {} ELSE {ListedIn(answer)},
    call     <- [t \in Tasks |-> ViewOf(t)]

\* All callers read one snapshot of the provider, which only a later and whole
\* one replaces, and which is as young as its readers are told, however their
\* calls, refreshes and failures interleave (jwks.py, get_signing_key).
ImplementsKeyWindow == Window!Spec

---------------------------------------------------------------------------
\* Fairness and liveness

\* The HTTP request ends, in an answer or in the timeout, and is processed.
RequestEnds ==
    \/ ProviderAnswers \/ StartServing \/ StartFails
    \/ \E t \in Tasks : Refreshed(t)

Fairness ==
    /\ WF_vars(Tick)
    /\ WF_vars(RequestEnds)
    /\ \A t \in Tasks : WF_vars(Wakes(t)) /\ WF_vars(Collect(t))
    /\ WF_vars(StartFetch) /\ WF_vars(Restart)

LiveSpec == Spec /\ Fairness

\* Clients that hold a token signed with k keep presenting it.
ClientsRetry == \A k \in Kids : SF_vars(\E t \in Tasks : Call(t, k))

\* No call is stuck: whatever the provider does, the lock is handed on after
\* every outcome of a refresh and each call returns.
EveryCallReturns ==
    \A t \in Tasks : pc[t] \in {"waiting", "fetching"} ~> pc[t] = "done"

\* start() is fail-fast and the container restarts: once the provider stays
\* reachable with a usable body, the service comes up.
EventuallyServes ==
    <>[](up /\ Parses(published)) => <>(phase = "serving")

\* A rotation reaches clients that try again: a key that stays listed by a
\* reachable provider is in the map for good, although calls for unknown kids
\* may use up every forced refresh (a cache that nobody calls fetches nothing).
RotationReachesClients ==
    ClientsRetry =>
        \A k \in Kids : <>[](up /\ IsListed(k)) => <>[](k \in keys)

===========================================================================
