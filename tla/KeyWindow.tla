----------------------------- MODULE KeyWindow -----------------------------
(***************************************************************************)
(* What the verifier may rely on when it asks for a signing key, with no   *)
(* lock, refresh or rate limit in sight: one snapshot of what the provider *)
(* listed, the same for all callers, replaced as a whole by a later one;   *)
(* every answer is read off it, with an age that is bounded.               *)
(***************************************************************************)
EXTENDS Naturals

CONSTANTS
    Kids, NoKid, Tasks,
    Never,           \* the age of the first, empty snapshot
    CacheTtl, MaxStale, MaxTransit

VARIABLES
    listed,          \* the kids the provider lists now
    snapshot,        \* the kids it listed when the snapshot was taken
    age,             \* ticks since the snapshot arrived
    taken,           \* the snapshot on its way: a set of one, or none
    transit,         \* ticks since it was taken
    call             \* call[t]: the call of t, its kid, and how it ended

vars == <<call, age, snapshot, transit, taken, listed>>

NoCall == [at |-> "idle", kid |-> NoKid, out |-> "none"]

Init ==
    /\ listed \in SUBSET Kids
    /\ snapshot = {} /\ age = Never
    /\ taken = {} /\ transit = 0
    /\ call = [t \in Tasks |-> NoCall]

Publish ==
    /\ UNCHANGED <<call, age, snapshot, transit, taken>>
    /\ listed' \in SUBSET Kids

Take ==
    /\ taken = {}
    /\ taken' = {listed}
    /\ UNCHANGED <<call, age, snapshot, transit, listed>>

\* A snapshot on its way arrives, if it lists anything, or is lost.
Arrives == snapshot' \in taken \ {{}} /\ age' = 0

Lost == UNCHANGED <<snapshot, age>>

Lands == transit' = 0 /\ taken' = {} /\ UNCHANGED listed

Ask(t, k) ==
    /\ age # Never /\ call[t] = NoCall
    /\ call' = [call EXCEPT ![t] = [at |-> "asked", kid |-> k, out |-> "none"]]
    /\ UNCHANGED <<age, snapshot, transit, taken, listed>>

\* t may end with out a call for k that it makes now, or has made before.
Answers(t, k, out) ==
    /\ call[t] = NoCall \/ (call[t].at = "asked" /\ call[t].kid = k)
    /\ call' = [call EXCEPT ![t] = [at |-> "done", kid |-> k, out |-> out]]

\* Read off a snapshot: one that is younger than CacheTtl ...
Fresh(ks, n, k, out) ==
    n # Never /\ n < CacheTtl /\ out = IF k \in ks THEN "key" ELSE "not_found"

\* ... or, to a call that waited for a later one in vain, at most MaxStale older;
\* only a kid that such a snapshot lacks is without an answer.
Stale(k, out) ==
    /\ age # Never
    /\ \/ out = "key" /\ k \in snapshot /\ age <= CacheTtl + MaxStale
       \/ out = "unavailable" /\ (k \notin snapshot \/ age > CacheTtl + MaxStale)
       \/ out = "error"

Read(t, k, out) ==
    /\ Fresh(snapshot, age, k, out) /\ Answers(t, k, out)
    /\ UNCHANGED <<age, snapshot, transit, taken, listed>>

ReadArrived(t, k, out) ==
    /\ call[t].at = "asked" /\ Arrives /\ Lands
    /\ Fresh(snapshot', age', k, out) /\ Answers(t, k, out)

ReadStale(t, k, out) ==
    /\ call[t].at = "asked" /\ Lost /\ Lands
    /\ Stale(k, out) /\ Answers(t, k, out)

\* The first snapshot, which nobody asked for.
Start == age = Never /\ UNCHANGED call /\ (Arrives \/ Lost) /\ Lands

Collect(t) ==
    /\ call[t].at = "done"
    /\ call' = [call EXCEPT ![t] = NoCall]
    /\ UNCHANGED <<age, snapshot, transit, taken, listed>>

Older(n) == IF n = Never THEN Never ELSE IF n <= CacheTtl + MaxStale THEN n + 1 ELSE n

Tick ==
    /\ UNCHANGED <<call, snapshot, taken, listed>>
    /\ age' = Older(age)
    /\ taken # {} => transit < MaxTransit
    /\ transit' = IF taken = {} THEN 0 ELSE transit + 1

Call(t, k) ==
    \/ Ask(t, k)
    \/ \E out \in {"key", "not_found", "unavailable", "error"} :
          Read(t, k, out) \/ ReadArrived(t, k, out) \/ ReadStale(t, k, out)

Next ==
    \/ Publish \/ Take \/ Start \/ Tick
    \/ \E t \in Tasks : Collect(t) \/ \E k \in Kids : Call(t, k)

Spec == Init /\ [][Next]_vars
============================================================================
