-------------------------- MODULE LifespanProofs --------------------------
(***************************************************************************)
(* Proofs about Lifespan for any set of configurations: types, what a      *)
(* serving process has, and what a process that ended has given back.      *)
(***************************************************************************)
EXTENDS Lifespan, TLAPS

Opened == {"engine", "session_factory"}

\* What each await of the lifespan finds: main.py's two try statements, read
\* as a table from the place to what is open and set there.
StartupInv ==
    /\ phase = "opening" => engine = "none" /\ client = "none" /\ appState = {}
    /\ phase = "checking" => engine = "open" /\ client = "none" /\ appState = Opened
    /\ phase = "fetching" =>
          /\ engine = "open" /\ client = "open" /\ appState = Opened
          /\ config.driver /\ ProviderAccepts(config)
    /\ phase = "checking" => config.driver
    /\ phase = "cleaning" => "token_verifier" \notin appState

ServiceInv ==
    /\ phase \in {"serving", "draining", "disposing", "closing"} =>
          /\ client = "open" /\ appState = AppState /\ Workable(config)
    /\ phase \in {"serving", "draining", "disposing"} => engine = "open"
    /\ phase = "closing" => engine \in {"closed", "raised"}
    /\ requests > 0 => phase \in {"serving", "draining"}

\* The containers' order survives restarts, which wait for nothing.
OrderInv ==
    /\ job = "done" => migrated
    /\ phase # "absent" => migrated

ExitInv ==
    /\ exit # "none" => phase \in {"absent", "down"}
    /\ ReleasedOnExit

IInv == TypeOK /\ StartupInv /\ ServiceInv /\ OrderInv /\ ExitInv

\* The initial states satisfy the invariant (an absent process holds nothing).
LEMMA InitIInv == Init => IInv
<1> SUFFICES ASSUME Init PROVE IInv
  OBVIOUS
<1>1. TypeOK
  <2>1. migrated \in BOOLEAN /\ wanted \in BOOLEAN
    BY Zenon DEF Init
  <2>2. MaxRequests \in Nat /\ MaxKills \in Nat
    BY LifespanAssumption
  <2> QED
    BY <2>1, <2>2 DEF Init, TypeOK
<1>2. StartupInv /\ ServiceInv
  BY DEF Init, StartupInv, ServiceInv
<1>3. OrderInv
  BY DEF Init, OrderInv
<1>4. ExitInv
  BY DEF Init, ExitInv, ReleasedOnExit
<1> QED
  BY <1>1, <1>2, <1>3, <1>4 DEF IInv

\* Every step of the lifespan's startup keeps it (main.py, first try).
LEMMA StartupIInv == IInv /\ Startup => IInv'
<1> SUFFICES ASSUME IInv, Startup PROVE IInv'
  OBVIOUS
<1> USE DEF IInv, TypeOK, StartupInv, ServiceInv, OrderInv, ExitInv, ReleasedOnExit,
            deployVars, sourceVars, Fails
<1>1. CASE OpenEngine
  BY <1>1 DEF OpenEngine, AppState, Opened
<1>2. CASE CheckSucceeds
  BY <1>2 DEF CheckSucceeds, Opened
<1>3. CASE CheckFails
  BY <1>3 DEF CheckFails, Opened
<1>4. CASE FetchSucceeds
  BY <1>4 DEF FetchSucceeds, Workable, AppState, Opened
<1>5. CASE FetchFails
  BY <1>5 DEF FetchFails, Opened
<1>6. CASE CleanUp
  BY <1>6 DEF CleanUp, Closes
<1> QED
  BY <1>1, <1>2, <1>3, <1>4, <1>5, <1>6 DEF Startup

\* Serving requests and shutting down keep it (main.py, yield and finally).
LEMMA ServiceIInv == IInv /\ (Arrives \/ Answered \/ Shutdown) => IInv'
<1> SUFFICES ASSUME IInv, Arrives \/ Answered \/ Shutdown PROVE IInv'
  OBVIOUS
<1> USE DEF IInv, TypeOK, StartupInv, ServiceInv, OrderInv, ExitInv, ReleasedOnExit,
            deployVars, sourceVars
<1>0. MaxRequests \in Nat
  BY LifespanAssumption
<1>1. CASE Arrives
  BY <1>0, <1>1 DEF Arrives
<1>2. CASE Answered
  BY <1>0, <1>2 DEF Answered
<1>3. CASE Drained
  BY <1>3 DEF Drained
<1>4. CASE Dispose
  BY <1>4 DEF Dispose, Closes
<1>5. CASE CloseClient
  BY <1>5 DEF CloseClient, Closes
<1> QED
  BY <1>1, <1>2, <1>3, <1>4, <1>5 DEF Shutdown

\* So do the container engine, the operator and the outages (compose.yaml).
LEMMA DeploymentIInv ==
    IInv /\ (Deployment \/ ComposeUp \/ Stop \/ Kill \/ Outage) => IInv'
<1> SUFFICES ASSUME IInv, Deployment \/ ComposeUp \/ Stop \/ Kill \/ Outage PROVE IInv'
  OBVIOUS
<1> USE DEF IInv, TypeOK, StartupInv, ServiceInv, OrderInv, ExitInv, ReleasedOnExit,
            deployVars, sourceVars, processVars
<1>0. MaxRequests \in Nat /\ MaxKills \in Nat
  BY LifespanAssumption
<1>1. CASE AppCreated
  BY <1>0, <1>1 DEF AppCreated, NewProcess, AppState
<1>2. CASE Restarts
  BY <1>0, <1>2 DEF Restarts, NewProcess, AppState
<1>3. CASE MigrationStarts
  BY <1>3 DEF MigrationStarts
<1>4. CASE MigrationEnds
  <2>1. migrated' \in BOOLEAN /\ wanted' \in BOOLEAN
    BY <1>4, Zenon DEF MigrationEnds
  <2>2. TypeOK'
    BY <1>4, <2>1 DEF MigrationEnds
  <2>3. migrated => migrated'
    BY <1>4, Zenon DEF MigrationEnds
  <2>4. job' = "done" => migrated'
    BY <1>4, Zenon DEF MigrationEnds
  <2>5. OrderInv'
    BY <1>4, <2>3, <2>4 DEF MigrationEnds
  <2>6. StartupInv' /\ ServiceInv' /\ ExitInv'
    BY <1>4 DEF MigrationEnds
  <2> QED
    BY <2>2, <2>5, <2>6
<1>5. CASE ComposeUp
  BY <1>5 DEF ComposeUp
<1>6. CASE Stop
  BY <1>6 DEF Stop
<1>7. CASE Kill
  BY <1>0, <1>7 DEF Kill
<1>8. CASE Outage
  <2>1. dbUp' \in BOOLEAN /\ idpUp' \in BOOLEAN
    BY <1>8, Zenon DEF Outage
  <2>2. UNCHANGED <<processVars, config, job, migrated, wanted, kills>>
    BY <1>8 DEF Outage
  <2> QED
    BY <2>1, <2>2
<1> QED
  BY <1>1, <1>2, <1>3, <1>4, <1>5, <1>6, <1>7, <1>8 DEF Deployment

\* The table is an invariant of the process's whole life (main.py, lifespan).
LEMMA Inductive == Spec => []IInv
<1>1. IInv /\ [Next]_vars => IInv'
  <2> SUFFICES ASSUME IInv, [Next]_vars PROVE IInv'
    OBVIOUS
  <2>1. CASE Next
    BY <2>1, StartupIInv, ServiceIInv, DeploymentIInv DEF Next
  <2>2. CASE UNCHANGED vars
    BY <2>2 DEF vars, processVars, deployVars, sourceVars, IInv, TypeOK, StartupInv,
       ServiceInv, OrderInv, ExitInv, ReleasedOnExit
  <2> QED
    BY <2>1, <2>2
<1> QED
  BY <1>1, InitIInv, PTL DEF Spec

\* Type correctness of the process and its deployment (main.py, lifespan).
THEOREM LifespanTypeCorrect == Spec => []TypeOK
  BY Inductive, PTL DEF IInv

\* Nobody is served by half a service, whichever configuration, outage,
\* failed start or restart came before (main.py, lifespan; compose.yaml).
THEOREM ServesComplete == Spec => []ServingIsComplete
<1>1. IInv => ServingIsComplete
  BY DEF IInv, TypeOK, ServiceInv, OrderInv, ServingIsComplete
<1> QED
  BY <1>1, Inductive, PTL

\* A process that ended on its own has given back what the lifespan holds,
\* whatever raised on the way (main.py, except and finally).
THEOREM ReleasesOnExit == Spec => []ReleasedOnExit
  BY Inductive, PTL DEF IInv, ExitInv
===========================================================================
