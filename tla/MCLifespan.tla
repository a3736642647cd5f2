---------------------------- MODULE MCLifespan ----------------------------
(***************************************************************************)
(* Instances of Lifespan for TLC: a configuration that works, and ones     *)
(* that Settings accepts and some constructor, or the first fetch, does    *)
(* not.                                                                    *)
(***************************************************************************)
EXTENDS Lifespan

Works == [driver |-> TRUE, ttl |-> 300, timeout |-> 5, algorithms |-> {"RS256"},
          signing |-> "RS256"]

MCConfigurations ==
    {Works,
     [Works EXCEPT !.driver = FALSE],
     [Works EXCEPT !.ttl = 0],
     [Works EXCEPT !.algorithms = {"ES256"}, !.signing = "ES256"],
     [Works EXCEPT !.algorithms = {"RS256", "none"}]}

\* At the lower bound Settings declares for the durations.
MCLowest == {Works, [Works EXCEPT !.ttl = 0], [Works EXCEPT !.timeout = 0]}

MCCacheAlgorithms == {"RS256"}
===========================================================================
