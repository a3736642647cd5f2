-------------------------- MODULE RequestPipeline --------------------------
(***************************************************************************)
(* A write request from its arrival to the status its client sees: the     *)
(* body is read, the bearer token verified, the scopes checked and the     *)
(* name validated, in the order of FastAPI's dependencies                  *)
(* (src/pet/api/routers, src/pet/api/auth.py), before the executor runs    *)
(* its transaction; exceptions of every stage become the statuses of       *)
(* src/pet/api/exception_handlers.py.                                      *)
(*                                                                         *)
(* What the verifier says of a credential is taken from Authentication,    *)
(* reduced to its outcome: whoever comes with a flawed one is refused, and *)
(* anybody with a token may be, while the keys cannot be fetched.          *)
(***************************************************************************)
EXTENDS Transactions, OrganizationName

CONSTANTS
    Requests,      \* [op, id, cred, body]: what a client may send
    NoRequest,     \* a request that has not come
    Unreadable,    \* a body that is no JSON
    Nameless,      \* a JSON body without a string for a name
    Refused        \* any name the checks of the table refuse

Credentials == {"missing", "flawed", "unscoped", "good"}

\* POST /users/me has no body parameter, so its body is never read.
HasBody(q) == q.op = "create_org"

BodyAccepted(q) == HasBody(q) => q.body \in Text /\ Accepts(q.body)

\* What the table makes of the name: it counts by its canonical form, unless a
\* check refuses the row before the unique constraint is looked at.
RowName(body) ==
    IF RowAccepts(NameOf(body)) THEN name_canonical(NameOf(body)) ELSE Refused

\* What the executor is asked for.
CallOf(q) ==
    [op |-> q.op, id |-> q.id, name |-> IF HasBody(q) THEN RowName(q.body) ELSE Nameless]

ASSUME PipelineAssumption ==
    /\ Unreadable \notin Text /\ Nameless \notin Text /\ Refused \notin Text
    /\ NoRequest \notin Requests
    /\ \A q \in Requests :
          /\ q.op \in {"create_org", "login"}
          /\ q.cred \in Credentials
          /\ q.body \in Text \cup {Unreadable, Nameless}
          /\ BodyAccepted(q) => CallOf(q) \in Calls
    /\ RejectedNames = {Refused}

VARIABLES
    request,       \* request[r]: what came
    stage,         \* stage[r]: "idle", "received", "verified", "running", "sent"
    status         \* status[r]: the status the client sees, 0 before

pipeVars == <<request, stage, status>>
allVars == <<vars, pipeVars>>

PipelineInit ==
    /\ Init
    /\ request = [r \in Reqs |-> NoRequest]
    /\ stage = [r \in Reqs |-> "idle"]
    /\ status = [r \in Reqs |-> 0]

---------------------------------------------------------------------------
\* The logging middleware hands the request on.
Receive(r, q) ==
    /\ stage[r] = "idle"
    /\ request' = [request EXCEPT ![r] = q]
    /\ stage' = [stage EXCEPT ![r] = "received"]
    /\ UNCHANGED <<vars, status>>

\* Faulty variant: what should raise answers and goes on.
RefusesAndGoesOn(r, s) ==
    /\ stage' = [stage EXCEPT ![r] = "verified"]
    /\ status' = [status EXCEPT ![r] = s]
    /\ UNCHANGED <<vars, request>>

\* An exception handler answers before the endpoint runs.
Refuses(r, s) ==
    /\ stage' = [stage EXCEPT ![r] = "sent"]
    /\ status' = [status EXCEPT ![r] = s]
    /\ UNCHANGED <<vars, request>>

Parses(q) == HasBody(q) => q.body # Unreadable

\* FastAPI decodes the body before it solves any dependency, so a request with
\* a broken body is told so whoever sent it: 422 for text that is no JSON, 400
\* for bytes that are no text.
MalformedBody(r) ==
    /\ stage[r] = "received" /\ ~ Parses(request[r])
    /\ \E s \in {400, 422} : Refuses(r, s)

\* MissingToken, InvalidToken; or TokenVerificationUnavailable for any token.
Unauthenticated(r) ==
    /\ stage[r] = "received" /\ Parses(request[r])
    /\ Refuses(r, 401)

Verify(r) ==
    /\ stage[r] = "received" /\ Parses(request[r])
    /\ request[r].cred \in {"unscoped", "good"}
    /\ stage' = [stage EXCEPT ![r] = "verified"]
    /\ UNCHANGED <<vars, request, status>>

\* Faulty variant: the endpoint asks for no scope.
ScopesAny(q) == TRUE

\* required_scopes("organizations:write") guards POST /orgs/ only.
ScopesGranted(q) == q.op = "create_org" => q.cred = "good"

Unauthorized(r) ==
    /\ stage[r] = "verified" /\ ~ ScopesGranted(request[r])
    /\ Refuses(r, 403)

\* RequestValidationError: the body is validated after all dependencies.
InvalidName(r) ==
    /\ stage[r] = "verified" /\ ScopesGranted(request[r])
    /\ ~ BodyAccepted(request[r])
    /\ Refuses(r, 422)

\* The endpoint calls executor.run.
Run(r) ==
    /\ stage[r] = "verified" /\ ScopesGranted(request[r])
    /\ BodyAccepted(request[r])
    /\ Begin(r, CallOf(request[r]))
    /\ stage' = [stage EXCEPT ![r] = "running"]
    /\ UNCHANGED <<request, status>>

\* The transaction goes on, and the server with it after the answer.
Works(r) ==
    /\ Proceeds(r) \/ LinkBreaks(r) \/ ServerCommits(r) \/ ServerDrops(r)
    /\ UNCHANGED pipeVars

\* Faulty variant: an unhandled error is rendered like a name that is taken.
RenderGuess(r) ==
    /\ stage[r] = "running" /\ pc[r] = "answered"
    /\ status' = [status EXCEPT ![r] = IF reply[r] \in {500, 503} THEN 409 ELSE reply[r]]
    /\ stage' = [stage EXCEPT ![r] = "sent"]
    /\ UNCHANGED <<vars, request>>

\* The result, the problem of an AppError, or 500 for any other exception.
Render(r) ==
    /\ stage[r] = "running" /\ pc[r] = "answered"
    /\ status' = [status EXCEPT ![r] = reply[r]]
    /\ stage' = [stage EXCEPT ![r] = "sent"]
    /\ UNCHANGED <<vars, request>>

Handles(r) ==
    \/ MalformedBody(r) \/ Unauthenticated(r) \/ Verify(r) \/ Unauthorized(r)
    \/ InvalidName(r) \/ Run(r) \/ Render(r)

PipelineNext ==
    \E r \in Reqs : (\E q \in Requests : Receive(r, q)) \/ Handles(r) \/ Works(r)

PipelineSpec == PipelineInit /\ [][PipelineNext]_allVars

\* Every dependency and every await of the transaction ends.
PipelineFairness ==
    \A r \in Reqs : /\ WF_allVars(Handles(r))
                    /\ WF_allVars(Proceeds(r) /\ UNCHANGED pipeVars)
                    /\ WF_allVars(ServerCommits(r) /\ UNCHANGED pipeVars)
                    /\ WF_allVars(ServerDrops(r) /\ UNCHANGED pipeVars)

PipelineLiveSpec == PipelineSpec /\ PipelineFairness

---------------------------------------------------------------------------
\* What has to hold

\* Type correctness of the stages, and how they fit the executor's.
PipelineTypeOK ==
    /\ request \in [Reqs -> Requests \cup {NoRequest}]
    /\ stage \in [Reqs -> {"idle", "received", "verified", "running", "sent"}]
    /\ status \in [Reqs -> {0, 200, 201, 400, 401, 403, 404, 409, 422, 500, 503}]
    /\ \A r \in Reqs :
          /\ stage[r] = "idle" <=> request[r] = NoRequest
          /\ stage[r] = "sent" <=> status[r] # 0
          /\ stage[r] \in {"idle", "received", "verified"} => pc[r] = "idle"
          /\ stage[r] = "running" => pc[r] # "idle"
          /\ stage[r] = "sent" => pc[r] \in {"idle", "answered"}

\* No request costs a connection or leaves a row, and none waits for one,
\* before its sender was authenticated, had the scope the endpoint asks for
\* and sent a valid name, although one dependency chain serves both endpoints
\* and the body is read before and judged after it (routers; api/auth.py).
EffectNeedsAdmission ==
    \A r \in Reqs :
        (pc[r] # "idle" \/ link[r] # "none" \/ staged[r] # {} \/ r \in applied) =>
            /\ request[r] # NoRequest
            /\ request[r].cred = "good"
                  \/ (request[r].cred = "unscoped" /\ request[r].op = "login")
            /\ request[r].op = "create_org" => request[r].body \in Text /\ Accepts(request[r].body)
            /\ call[r] = CallOf(request[r])

\* What the client may conclude from the status, whatever stage it came from:
\* a success happened, and a client error neither happened nor ever will, so
\* that repeating the request after correcting it cannot do things twice; and
\* a conflict is with an organization of somebody else that is there to stay,
\* not with a transaction that came to nothing
\* (exception_handlers.py; transaction_executor.py, run).
StatusTellsEffect ==
    \A r \in Reqs :
        /\ status[r] \in {200, 201} => r \in applied
        /\ status[r] \in {400, 401, 403, 404, 409, 422} => r \notin applied /\ srv[r] # "committing"
        /\ status[r] = 409 => \E o \in orgs \ {r} : call[o].name = call[r].name

\* No two organizations carry one name in two spellings: what the application
\* takes for the same name, however it was spaced, composed or capitalised when
\* it was sent, the table refuses to store twice, although each decides by a
\* form of its own.  Only characters on which their Unicode tables differ can
\* tell two such names apart (value_objects.py, canonicalize_org_name and
\* ORG_NAME_DESCRIPTION; models.py, uq_organizations_name_canonical).
OneSpellingStored ==
    \A o, p \in orgs :
        LET m == NameOf(request[o].body)
            n == NameOf(request[p].body) IN
        (TablesAgree(m) /\ TablesAgree(n) /\ canonicalize_org_name(m) = canonicalize_org_name(n))
            => o = p

\* A name that passed the validator is refused by the table's checks only if
\* the Unicode tables of Python and PostgreSQL differ on it (value_objects.py,
\* validate_org_name; models.py, the CHECK constraints).
TableRefusesOddNamesOnly ==
    \A r \in Reqs :
        exc[r] = "validation_error" => ~ TablesAgree(NameOf(request[r].body))

\* Every request that comes is answered.
EveryRequestSent == \A r \in Reqs : stage[r] = "received" ~> stage[r] = "sent"
============================================================================
