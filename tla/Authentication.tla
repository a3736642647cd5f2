-------------------------- MODULE Authentication --------------------------
(***************************************************************************)
(* Who gets past the bearer-token dependency of the API, and how everybody *)
(* else is told: get_current_principal and required_scopes                 *)
(* (src/pet/api/auth.py) over KeycloakVerifier.verify                      *)
(* (src/pet/infra/auth/keycloak_verifier.py), composed with the cache of   *)
(* signing keys.  Each task of JWKSProvider serves one request at a time.  *)
(*                                                                         *)
(* The verifier checks the header, awaits the key, and then decodes the    *)
(* token without another await: whatever time the lookup took, the claims  *)
(* are judged in the step in which it ends.                                *)
(***************************************************************************)
EXTENDS JWKSProvider

CONSTANTS
    Clients,             \* what "aud" and "azp" may name
    Audiences,           \* the audiences the verifier accepts
    VerifierAlgorithms,  \* settings.allowed_algorithms
    Scopes,              \* the scopes a token may carry
    Requests,            \* what may be presented: a token, and the scopes
                         \* the endpoint asks for
    NoToken,             \* no "Authorization: Bearer" header
    NoRequest,           \* the task serves no request
    MaxLife              \* ticks a token may have left when it is presented

\* A token, reduced to what the code reads off it.
Token ==
    [parses  : BOOLEAN,                    \* the header can be decoded
     kid     : Kids \cup {NoKid},
     alg     : Algorithms,
     genuine : BOOLEAN,                    \* signed with the key named kid
     mature  : BOOLEAN,                    \* iat and nbf have come
     issuer  : BOOLEAN,                    \* "iss" is the configured issuer
     claims  : BOOLEAN,                    \* sub, iss, iat, exp are there
     profile : BOOLEAN,                    \* so are username and email, and
                                           \* the names are strings if given
     aud     : SUBSET Clients,
     azp     : Clients \cup {Absent},
     scope   : (SUBSET Scopes) \cup {Absent},  \* Absent also for an empty string
     scp     : SUBSET Scopes]

ASSUME AuthenticationAssumption ==
    /\ Absent \notin Clients
    /\ Audiences \subseteq Clients
    /\ VerifierAlgorithms \subseteq Algorithms
    /\ \A q \in Requests : q.token \in Token \cup {NoToken} /\ q.needs \subseteq Scopes
    /\ NoRequest \notin Requests
    /\ NoToken \notin Token
    /\ MaxLife \in Nat

VARIABLES
    request,     \* request[t]: the request t serves
    life,        \* life[t]: ticks until exp + leeway of its token has passed
    reply        \* reply[t]: "none", "admitted", or the code of the refusal

authVars == <<request, life, reply>>
allVars == <<vars, authVars>>

\* MissingToken; InvalidToken; TokenVerificationUnavailable;
\* InsufficientPermissions (src/pet/app/auth/exc.py).
Refusals == {"invalid_request", "invalid_token", "temporarily_unavailable",
             "insufficient_scope"}

AuthInit ==
    /\ Init
    /\ request = [t \in Tasks |-> NoRequest]
    /\ life = [t \in Tasks |-> 0]
    /\ reply = [t \in Tasks |-> "none"]

---------------------------------------------------------------------------
\* KeycloakVerifier

\* Before the key is looked up.
HeaderAccepted(tok) ==
    tok.parses /\ tok.kid # NoKid /\ tok.alg \in VerifierAlgorithms

\* Faulty variant: the expiry is not among the claims that are verified.
DecodesExpired(tok, left) ==
    tok.genuine /\ tok.claims /\ tok.mature /\ tok.issuer

\* jwt.decode, given the key named tok.kid.
Decodes(tok, left) ==
    tok.genuine /\ tok.claims /\ tok.mature /\ tok.issuer /\ left > 0

\* _validate_audience: azp counts as an audience; no audience, no check.
AudienceAccepted(tok) ==
    Audiences # {} => Audiences \cap (tok.aud \cup {tok.azp}) # {}

Verified(tok, left) == Decodes(tok, left) /\ AudienceAccepted(tok) /\ tok.profile

\* _extract_scopes: "scp" counts only without a "scope".
ScopesOf(tok) == IF tok.scope = Absent THEN tok.scp ELSE tok.scope

\* Faulty variant: an unreachable provider is blamed on the token.
DecisionBlamesToken(q, out, left) ==
    CASE out = "key" /\ Verified(q.token, left) ->
             IF q.needs \subseteq ScopesOf(q.token) THEN "admitted" ELSE "insufficient_scope"
      [] OTHER -> "invalid_token"

\* How a request ends whose lookup ended with out.  An exception of the lookup
\* that the verifier does not know becomes InvalidToken in the dependency.
Decision(q, out, left) ==
    CASE out = "key" /\ Verified(q.token, left) ->
             IF q.needs \subseteq ScopesOf(q.token) THEN "admitted" ELSE "insufficient_scope"
      [] out = "unavailable" -> "temporarily_unavailable"
      [] OTHER -> "invalid_token"

---------------------------------------------------------------------------
\* The steps of a request

Idle(t) == phase = "serving" /\ request[t] = NoRequest

\* No token, or one whose header is refused before any lookup.
RefuseAtOnce(t, q) ==
    /\ Idle(t)
    /\ \/ /\ q.token = NoToken
          /\ reply' = [reply EXCEPT ![t] = "invalid_request"]
       \/ /\ q.token # NoToken /\ ~ HeaderAccepted(q.token)
          /\ reply' = [reply EXCEPT ![t] = "invalid_token"]
    /\ request' = [request EXCEPT ![t] = q]
    /\ UNCHANGED <<vars, life>>

\* The reply of t in the step in which its lookup may end.
Decides(t, q, left) ==
    reply' = IF pc'[t] = "done" THEN [reply EXCEPT ![t] = Decision(q, outcome'[t], left)]
                                ELSE reply

Present(t, q, left) ==
    /\ Idle(t)
    /\ q.token # NoToken /\ HeaderAccepted(q.token)
    /\ Call(t, q.token.kid)
    /\ request' = [request EXCEPT ![t] = q]
    /\ life' = [life EXCEPT ![t] = left]
    /\ Decides(t, q, left)

Resume(t) ==
    /\ Wakes(t) \/ Refreshed(t)
    /\ Decides(t, request[t], life[t])
    /\ UNCHANGED <<request, life>>

\* Faulty variant: the reply is sent and the lookup's outcome kept.
FinishKeeps(t) ==
    /\ reply[t] # "none"
    /\ request' = [request EXCEPT ![t] = NoRequest]
    /\ life' = [life EXCEPT ![t] = 0]
    /\ reply' = [reply EXCEPT ![t] = "none"]
    /\ UNCHANGED vars

\* The response is sent, or the endpoint has run; the task is free again.
Finish(t) ==
    /\ reply[t] # "none"
    /\ request' = [request EXCEPT ![t] = NoRequest]
    /\ life' = [life EXCEPT ![t] = 0]
    /\ reply' = [reply EXCEPT ![t] = "none"]
    /\ IF pc[t] = "done" THEN Collect(t) ELSE UNCHANGED vars

Passes ==
    /\ Tick
    /\ life' = [t \in Tasks |-> IF life[t] = 0 THEN 0 ELSE life[t] - 1]
    /\ UNCHANGED <<request, reply>>

Around ==
    /\ \/ StartFetch \/ StartServing \/ StartFails \/ Restart
       \/ ProviderAnswers
       \/ \E d \in Documents : Publish(d)
       \/ \E b \in BOOLEAN : SetUp(b)
    /\ UNCHANGED authVars

AuthNext ==
    \/ \E t \in Tasks : \/ \E q \in Requests : \/ RefuseAtOnce(t, q)
                                               \/ \E left \in 0..MaxLife : Present(t, q, left)
                        \/ Resume(t) \/ Finish(t)
    \/ Passes \/ Around

AuthSpec == AuthInit /\ [][AuthNext]_allVars

---------------------------------------------------------------------------
\* What has to hold

\* Type correctness of the requests in service, and their link with the cache:
\* a lookup under way is for the kid of the request's token.
AuthTypeOK ==
    /\ request \in [Tasks -> Requests \cup {NoRequest}]
    /\ life \in [Tasks -> 0..MaxLife]
    /\ reply \in [Tasks -> Refusals \cup {"none", "admitted"}]
    /\ \A t \in Tasks :
          /\ request[t] = NoRequest => pc[t] = "idle" /\ reply[t] = "none"
          /\ (pc[t] = "idle" /\ request[t] # NoRequest) => reply[t] # "none"
          /\ pc[t] # "idle" => /\ request[t].token \in Token
                               /\ kid[t] = request[t].token.kid
          /\ pc[t] \in {"waiting", "fetching"} => reply[t] = "none"
          /\ pc[t] = "done" => reply[t] # "none"

Admits(t) == reply[t] # "admitted" /\ reply'[t] = "admitted"
Refuses(t, code) == reply[t] = "none" /\ reply'[t] = code

\* A token with nothing wrong in it at the end of the step.
Good(t) ==
    LET tok == request'[t].token IN
    /\ tok # NoToken /\ HeaderAccepted(tok) /\ Verified(tok, life'[t])

\* Whoever is let in holds, at that moment and not only when the request came,
\* an unexpired genuine token for this audience with the scopes the endpoint
\* needs, and a key that was not withdrawn longer ago than the cache lives
\* (verify awaits the key between reading the header and judging the claims).
AdmissionSound ==
    [][\A t \in Tasks : Admits(t) =>
         LET tok == request'[t].token IN
         /\ tok.genuine /\ tok.issuer /\ life'[t] > 0
         /\ \E c \in tok.aud \cup {tok.azp} : Audiences # {} => c \in Audiences
         /\ \A s \in request'[t].needs :
               \/ tok.scope # Absent /\ s \in tok.scope
               \/ tok.scope = Absent /\ s \in tok.scp
         /\ \/ IsListed(tok.kid)
            \/ since[tok.kid] <= CacheTtl + MaxStale + MaxTransit]_allVars

\* A refusal that rests on an answer of the cache has its cause there: a good
\* token is called invalid only when its key is not listed, or has been listed
\* for less than the cache lives; and the verifier is called unavailable only
\* while the provider gives no usable answer and the map cannot stand in for it.
\* It says nothing of a lookup that ends in an exception the verifier does not
\* know (get_current_principal, `except Exception`).
CacheRefusalJustified ==
    [][\A t \in Tasks :
         /\ (Refuses(t, "invalid_token") /\ outcome'[t] # "error") =>
              \/ ~ Good(t)
              \/ ~ IsListed(request'[t].token.kid)
              \/ since[request'[t].token.kid] < CacheTtl + MaxTransit
         /\ Refuses(t, "temporarily_unavailable") =>
              /\ Unavailable
              /\ request[t].token.kid \notin keys \/ age > CacheTtl + MaxStale]_allVars

\* The refresh that t waits for ends without a map: the keys could not be
\* fetched, or the answer could not be parsed.
LookupFails(t) == pc[t] = "fetching" /\ (answer = NoAnswer \/ ~ Parses(answer))


===========================================================================
