----------------------------- MODULE Lifespan -----------------------------
(***************************************************************************)
(* The life of the service's process: the lifespan of the application      *)
(* (src/pet/main.py) with build_auth_components (src/pet/di/auth.py), the  *)
(* settings it reads, and around them the deployment of compose.yaml: the  *)
(* migration job, the order in which containers start, the restart policy. *)
(*                                                                         *)
(* A step of the process is the code between two awaits.  The first map of *)
(* keys is fetched in one step; JWKSProvider opens it up.                  *)
(***************************************************************************)
EXTENDS Naturals

CONSTANTS
    Configurations,    \* the environments a container may be given
    CacheAlgorithms,   \* allowed_algorithms of the cache, its default
    MaxRequests,       \* requests in flight at once
    MaxKills           \* how often the process is killed

\* What pydantic lets through: Field(ge=0) for both durations.
SettingsAccept(c) == c.ttl \in Nat /\ c.timeout \in Nat

ASSUME LifespanAssumption ==
    /\ \A c \in Configurations :
          /\ SettingsAccept(c)
          /\ c.driver \in BOOLEAN    \* create_engine knows the driver
    /\ MaxRequests \in Nat
    /\ MaxKills \in Nat

VARIABLES            \* the process
    phase,           \* "absent", "down", or the await it is at
    engine,          \* "none", "open", "closed", or "raised" on closing
    client,          \* the HTTP client, likewise
    appState,        \* the attributes of app.state that are set
    requests,        \* requests in flight
    exit             \* how the process ended: "none", "failed", "stopped",
                     \* "killed"

VARIABLES            \* the deployment (external)
    config,          \* the environment of the container
    job,             \* the migration: "waiting", "running", "done", "failed"
    migrated,        \* the schema is there
    dbUp, idpUp,     \* the database and the identity provider answer
    wanted,          \* the operator wants the service to run
    kills

processVars == <<phase, engine, client, appState, requests, exit>>
sourceVars == <<dbUp, idpUp>>
deployVars == <<config, job, migrated, sourceVars, wanted, kills>>
vars == <<processVars, deployVars>>

AppState == {"engine", "session_factory", "token_verifier", "issuer_url"}

Init ==
    /\ phase = "absent" /\ engine = "none" /\ client = "none"
    /\ appState = {} /\ requests = 0 /\ exit = "none"
    /\ config \in Configurations
    /\ job = "waiting" /\ migrated = FALSE
    /\ dbUp \in BOOLEAN /\ idpUp \in BOOLEAN
    /\ wanted = TRUE /\ kills = 0

---------------------------------------------------------------------------
\* The configuration

\* JWKSProvider.__init__ raises ValueError on anything else.
ProviderAccepts(c) == c.ttl > 0 /\ c.timeout > 0

\* The first fetch finds a usable key: build_auth_components leaves the
\* algorithms of the cache at their default.
FindsKeys(c) == c.signing \in CacheAlgorithms

\* KeycloakVerifier.__init__ raises ValueError on "none"; the audiences are
\* never empty, the client's id is among them.
VerifierAccepts(c) == "none" \notin c.algorithms

Workable(c) == c.driver /\ ProviderAccepts(c) /\ FindsKeys(c) /\ VerifierAccepts(c)

---------------------------------------------------------------------------
\* Startup

Fails == phase' = "cleaning"

\* create_engine does not connect.
OpenEngine ==
    /\ phase = "opening"
    /\ IF config.driver
       THEN /\ engine' = "open"
            /\ appState' = {"engine", "session_factory"}
            /\ phase' = "checking"
       ELSE Fails /\ UNCHANGED <<engine, appState>>
    /\ UNCHANGED <<client, requests, exit, deployVars>>

\* check_db_connection returns, and build_auth_components runs up to its
\* await: the client is made before the provider looks at its arguments.
CheckSucceeds ==
    /\ phase = "checking" /\ dbUp
    /\ client' = "open"
    /\ IF ProviderAccepts(config) THEN phase' = "fetching" ELSE Fails
    /\ UNCHANGED <<engine, appState, requests, exit, deployVars>>

CheckFails ==
    /\ phase = "checking" /\ ~ dbUp
    /\ Fails
    /\ UNCHANGED <<engine, client, appState, requests, exit, deployVars>>

\* start() of the cache returns, and the rest runs without an await.
FetchSucceeds ==
    /\ phase = "fetching" /\ idpUp /\ FindsKeys(config)
    /\ IF VerifierAccepts(config)
       THEN appState' = AppState /\ phase' = "serving"
       ELSE Fails /\ UNCHANGED appState
    /\ UNCHANGED <<engine, client, requests, exit, deployVars>>

FetchFails ==
    /\ phase = "fetching" /\ (~ idpUp \/ ~ FindsKeys(config))
    /\ Fails
    /\ UNCHANGED <<engine, client, appState, requests, exit, deployVars>>

\* How closing r ends: closed, or with an exception.
Closes(r) == IF r = "open" THEN {"closed", "raised"} ELSE {r}

\* Faulty variants of the except clause: the engine is disposed of without
\* asking whether there is one, and the exception is not raised again, so that
\* the lifespan goes on to its yield.
CleanUpUnguarded ==
    /\ phase = "cleaning"
    /\ engine' \in IF engine = "none" THEN {"raised"} ELSE Closes(engine)
    /\ phase' = "down" /\ exit' = "failed"
    /\ UNCHANGED <<client, appState, requests, deployVars>>

CleanUpSwallows ==
    /\ phase = "cleaning"
    /\ engine' \in Closes(engine)
    /\ phase' = "serving"
    /\ UNCHANGED <<client, appState, requests, exit, deployVars>>

\* The except clause.  Whatever failed, http_client is still None: its name
\* is bound only when build_auth_components returns, and nothing raises after.
CleanUp ==
    /\ phase = "cleaning"
    /\ engine' \in Closes(engine)
    /\ phase' = "down" /\ exit' = "failed"
    /\ UNCHANGED <<client, appState, requests, deployVars>>

---------------------------------------------------------------------------
\* Serving and shutdown

Arrives ==
    /\ phase = "serving" /\ requests < MaxRequests
    /\ requests' = requests + 1
    /\ UNCHANGED <<phase, engine, client, appState, exit, deployVars>>

Answered ==
    /\ requests > 0
    /\ requests' = requests - 1
    /\ UNCHANGED <<phase, engine, client, appState, exit, deployVars>>

\* The server answers the requests it has before it ends the lifespan.
Drained ==
    /\ phase = "draining" /\ requests = 0
    /\ phase' = "disposing"
    /\ UNCHANGED <<engine, client, appState, requests, exit, deployVars>>

\* Faulty variant: an engine that cannot be disposed of ends the shutdown.
DisposeEnds ==
    /\ phase = "disposing"
    /\ engine' \in Closes(engine)
    /\ IF engine' = "raised" THEN phase' = "down" /\ exit' = "stopped"
                             ELSE phase' = "closing" /\ UNCHANGED exit
    /\ UNCHANGED <<client, appState, requests, deployVars>>

\* engine.dispose(), whose failure is logged ...
Dispose ==
    /\ phase = "disposing"
    /\ engine' \in Closes(engine)
    /\ phase' = "closing"
    /\ UNCHANGED <<client, appState, requests, exit, deployVars>>

\* ... and http_client.aclose() in the finally clause.
CloseClient ==
    /\ phase = "closing"
    /\ client' \in Closes(client)
    /\ phase' = "down" /\ exit' = "stopped"
    /\ UNCHANGED <<engine, appState, requests, deployVars>>

Startup == OpenEngine \/ CheckSucceeds \/ CheckFails \/ FetchSucceeds \/ FetchFails \/ CleanUp

Shutdown == Drained \/ Dispose \/ CloseClient

---------------------------------------------------------------------------
\* The deployment

NewProcess ==
    /\ phase' = "opening" /\ engine' = "none" /\ client' = "none"
    /\ appState' = {} /\ requests' = 0 /\ exit' = "none"

\* Faulty variant: depends_on waits for the migration to start only.
AppCreatedEarly ==
    /\ phase = "absent" /\ wanted
    /\ dbUp /\ job \in {"running", "done"} /\ idpUp
    /\ NewProcess
    /\ UNCHANGED deployVars

\* depends_on: database and provider healthy, the migration completed.
AppCreated ==
    /\ phase = "absent" /\ wanted
    /\ dbUp /\ job = "done" /\ idpUp
    /\ NewProcess
    /\ UNCHANGED deployVars

\* Faulty variant: only a crash is restarted, a failed start is not.
RestartsWhenKilled ==
    /\ phase = "down" /\ wanted /\ exit = "killed"
    /\ NewProcess
    /\ UNCHANGED deployVars

\* restart: unless-stopped, whatever the dependencies do.
Restarts ==
    /\ phase = "down" /\ wanted
    /\ NewProcess
    /\ UNCHANGED deployVars

MigrationStarts ==
    /\ job = "waiting" /\ wanted /\ dbUp
    /\ job' = "running"
    /\ UNCHANGED <<processVars, config, migrated, sourceVars, wanted, kills>>

\* The upgrade is one transaction; on a schema that is there it does nothing.
MigrationEnds ==
    /\ job = "running"
    /\ IF dbUp THEN job' = "done" /\ migrated' = TRUE /\ UNCHANGED wanted
               ELSE job' = "failed" /\ wanted' = FALSE /\ UNCHANGED migrated
    /\ UNCHANGED <<processVars, config, sourceVars, kills>>

\* The operator runs "docker compose up" again, or stops the service.
ComposeUp ==
    /\ ~ wanted /\ phase \in {"absent", "down"}
    /\ wanted' = TRUE /\ job' = "waiting" /\ phase' = "absent"
    /\ UNCHANGED <<engine, client, appState, requests, exit, config, migrated,
                   sourceVars, kills>>

Stop ==
    /\ phase = "serving" /\ wanted
    /\ wanted' = FALSE /\ phase' = "draining"
    /\ UNCHANGED <<engine, client, appState, requests, exit, config, job, migrated,
                   sourceVars, kills>>

Kill ==
    /\ phase \notin {"absent", "down"} /\ kills < MaxKills
    /\ kills' = kills + 1
    /\ phase' = "down" /\ exit' = "killed" /\ requests' = 0
    /\ UNCHANGED <<engine, client, appState, config, job, migrated, sourceVars, wanted>>

Outage ==
    /\ \/ dbUp' = ~ dbUp /\ UNCHANGED idpUp
       \/ idpUp' = ~ idpUp /\ UNCHANGED dbUp
    /\ UNCHANGED <<processVars, config, job, migrated, wanted, kills>>

Deployment ==
    AppCreated \/ Restarts \/ MigrationStarts \/ MigrationEnds

Next ==
    \/ Startup \/ Arrives \/ Answered \/ Shutdown \/ Deployment
    \/ ComposeUp \/ Stop \/ Kill \/ Outage

Spec == Init /\ [][Next]_vars

\* Every await of the process ends, requests are answered, and the container
\* engine does its part; nothing is assumed of the operator, the database and
\* the provider.
Fairness ==
    /\ WF_vars(Startup) /\ WF_vars(Answered) /\ WF_vars(Shutdown)
    /\ WF_vars(AppCreated \/ Restarts)
    /\ WF_vars(MigrationStarts \/ MigrationEnds)

LiveSpec == Spec /\ Fairness

---------------------------------------------------------------------------
\* What has to hold

\* Type correctness of the process and of its deployment, and the engine with the
\* attribute that shows it: only an engine that was made is ever closed
\* (main.py, lifespan).
TypeOK ==
    /\ phase \in {"absent", "down", "opening", "checking", "fetching", "cleaning",
                  "serving", "draining", "disposing", "closing"}
    /\ engine \in {"none", "open", "closed", "raised"}
    /\ client \in {"none", "open", "closed", "raised"}
    /\ appState \in SUBSET AppState
    /\ engine # "none" <=> "engine" \in appState
    /\ requests \in 0..MaxRequests
    /\ exit \in {"none", "failed", "stopped", "killed"}
    /\ config \in Configurations
    /\ job \in {"waiting", "running", "done", "failed"}
    /\ migrated \in BOOLEAN /\ dbUp \in BOOLEAN /\ idpUp \in BOOLEAN /\ wanted \in BOOLEAN
    /\ kills \in 0..MaxKills

\* Nobody is served by half a service: while the process serves, or still has
\* requests to answer, the engine and the client are open, everything the
\* endpoints read from app.state is there, and so is the schema, although
\* neither the lifespan nor /readyz looks at it and a restart waits for nothing
\* (main.py, the order of lifespan; compose.yaml, depends_on).
ServingIsComplete ==
    (phase \in {"serving", "draining"} \/ requests > 0) =>
        /\ engine = "open" /\ client = "open"
        /\ appState = AppState
        /\ migrated
        /\ Workable(config)

\* A process that ends on its own has tried to close what the lifespan holds,
\* also when closing something else raised.  All it may leave open is the
\* client of a startup that failed inside build_auth_components, which nobody
\* else ever saw (main.py, except and finally; di/auth.py).
ReleasedOnExit ==
    /\ exit = "stopped" => engine \in {"closed", "raised"} /\ client \in {"closed", "raised"}
    /\ exit = "failed" =>
          /\ engine # "open"
          /\ client = "open" => "token_verifier" \notin appState

\* Once the dependencies stay up and the operator wants it, the service comes
\* up and stays up: after failed starts, crashes, and outages during the
\* migration (compose.yaml, restart; jwks.py, fail-fast start).
ServesWhenDependenciesStay ==
    Workable(config) /\ <>[](dbUp /\ idpUp /\ wanted) => <>[](phase = "serving")

\* A start that failed ends the process instead of serving with what it has, a
\* stopped service gets to its end whatever raises while it closes, and a start
\* does not hang (main.py, the raise of the except clause and the finally).
ProcessEnds ==
    /\ phase = "cleaning" ~> phase = "down"
    /\ phase = "draining" ~> phase = "down"
    /\ phase = "opening" ~> phase \in {"serving", "down"}

\* The bounds Settings declares are the bounds of the service: with any
\* configuration they let through it comes up (settings.py, Field(ge=0)).
AcceptedSettingsServe ==
    <>[](dbUp /\ idpUp /\ wanted) => <>(phase = "serving")

===========================================================================
