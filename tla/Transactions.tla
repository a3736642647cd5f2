--------------------------- MODULE Transactions ---------------------------
(***************************************************************************)
(* The two write requests of the API over one PostgreSQL database:         *)
(* TransactionExecutor.run (src/pet/app/transaction_executor.py) around    *)
(* SQLAlchemyUnitOfWork (src/pet/infra/sqla/uow.py), with the use cases    *)
(* create_organization_cmd and provision_user_from_claims and the          *)
(* statements their repositories send (src/pet/infra/sqla/db/repos.py).    *)
(*                                                                         *)
(* Each await of the code that reaches the database is a step.  The        *)
(* requests run concurrently, share the connection pool, and lose their    *)
(* connections at any moment; the server goes on without the client: it    *)
(* may still execute a COMMIT it received, or drop the transaction.        *)
(***************************************************************************)
EXTENDS DbErrors, FiniteSets

CONSTANTS
    Reqs,            \* the requests, each made once
    Ids,             \* the identities: pairs of issuer and subject
    Calls,           \* what a request may ask for: [op, id, name]
    NoCall,          \* a request that has not been made
    RejectedNames,   \* names the validator accepts and a CHECK constraint rejects
    OversizedIds,    \* identities with a profile field longer than its column
    PoolSize         \* pool_size + max_overflow

ASSUME TransactionsAssumption ==
    /\ \A c \in Calls : c.op \in {"create_org", "login"} /\ c.id \in Ids
    /\ NoCall \notin Calls
    /\ OversizedIds \subseteq Ids
    /\ PoolSize \in Nat \ {0}

VARIABLES
    call,        \* call[r]: what r asks for
    pc,          \* pc[r]: the await r is at
    exc,         \* exc[r]: the AppError in flight in run(), "none" without
    rolledBack,  \* rolledBack[r]: uow._rolled_back
    created,     \* created[r]: the upsert returned xmax = 0
    reply,       \* reply[r]: the HTTP status sent, 0 before
    link         \* link[r]: the session's connection: "none", "up", "broken",
                 \* or "invalid" once SQLAlchemy knows that it is broken

VARIABLES        \* the database server (external)
    users,       \* committed rows of users
    orgs,        \* committed rows of organizations, named by their request
    members,     \* committed rows of memberships: <<organization, user>>
    srv,         \* srv[r]: r's transaction: "none", "open", "aborted", "committing"
    staged,      \* staged[r]: the rows it wrote: "org", "member", "user"
    applied      \* history: the requests whose transaction committed

dbVars == <<users, orgs, members, applied>>
txVars == <<srv, staged>>
vars == <<call, pc, exc, rolledBack, created, reply, link, dbVars, txVars>>

Init ==
    /\ call = [r \in Reqs |-> NoCall]
    /\ pc = [r \in Reqs |-> "idle"]
    /\ exc = [r \in Reqs |-> "none"]
    /\ rolledBack = [r \in Reqs |-> FALSE]
    /\ created = [r \in Reqs |-> FALSE]
    /\ reply = [r \in Reqs |-> 0]
    /\ link = [r \in Reqs |-> "none"]
    /\ users \in SUBSET Ids
    /\ orgs = {}
    /\ members = {}
    /\ srv = [r \in Reqs |-> "none"]
    /\ staged = [r \in Reqs |-> {}]
    /\ applied = {}

---------------------------------------------------------------------------
\* The request reaches the executor; __aenter__ makes a session, which takes
\* no connection yet.
Begin(r, c) ==
    /\ pc[r] = "idle"
    /\ call' = [call EXCEPT ![r] = c]
    /\ pc' = [pc EXCEPT ![r] = "checkout"]
    /\ UNCHANGED <<exc, rolledBack, created, reply, link, dbVars, txVars>>

InUse == {r \in Reqs : link[r] # "none"}

\* The first statement takes a connection and opens the transaction.
Checkout(r) ==
    /\ pc[r] = "checkout"
    /\ Cardinality(InUse) < PoolSize
    /\ link' = [link EXCEPT ![r] = "up"]
    /\ srv' = [srv EXCEPT ![r] = "open"]
    /\ pc' = [pc EXCEPT ![r] = IF call[r].op = "login" THEN "upsert" ELSE "select"]
    /\ UNCHANGED <<call, exc, rolledBack, created, reply, staged, dbVars>>

\* A PersistenceError leaves the handler and run() translates it.
Raises(r, e) ==
    /\ exc' = [exc EXCEPT ![r] = AppErrorOf(e)]
    /\ pc' = [pc EXCEPT ![r] = "exit"]

\* No connection in time: the pool stayed empty or the server is unreachable.
CheckoutFails(r) ==
    /\ pc[r] = "checkout"
    /\ IF Cardinality(InUse) < PoolSize THEN Raises(r, ConnectRefused)
                                        ELSE Raises(r, PoolExhausted)
    /\ UNCHANGED <<call, rolledBack, created, reply, link, dbVars, txVars>>

Executes(r, at) == pc[r] = at /\ link[r] = "up" /\ srv[r] = "open"

\* A statement that violates a constraint aborts the transaction, which frees
\* its locks at once.
Aborts(r) ==
    /\ srv' = [srv EXCEPT ![r] = "aborted"]
    /\ staged' = [staged EXCEPT ![r] = {}]

\* get_by_auth_identity; without a user the use case raises not_found.
SelectUser(r) ==
    /\ Executes(r, "select")
    /\ IF call[r].id \in users
       THEN pc' = [pc EXCEPT ![r] = "insert_org"] /\ UNCHANGED exc
       ELSE /\ exc' = [exc EXCEPT ![r] = "not_found"]
            /\ pc' = [pc EXCEPT ![r] = "exit"]
    /\ UNCHANGED <<call, rolledBack, created, reply, link, dbVars, txVars>>

\* Another transaction holds the unique key r needs, and the server makes r
\* wait for its end.
NameLocked(r) ==
    \E q \in Reqs \ {r} : "org" \in staged[q] /\ call[q].name = call[r].name
UserLocked(r) ==
    \E q \in Reqs \ {r} : "user" \in staged[q] /\ call[q].id = call[r].id

NameTaken(n) == \E o \in orgs : call[o].name = n

\* Faulty variant: the use case forgets the owner's membership.
InsertOrgOnly(r) ==
    /\ Executes(r, "insert_org")
    /\ ~ NameLocked(r)
    /\ call[r].name \notin RejectedNames /\ ~ NameTaken(call[r].name)
    /\ staged' = [staged EXCEPT ![r] = @ \cup {"org"}]
    /\ pc' = [pc EXCEPT ![r] = "commit"]
    /\ UNCHANGED <<call, exc, rolledBack, created, reply, link, srv, dbVars>>

\* orgs.create only adds to the session; the execute of memberships.create
\* flushes it first (autoflush).
InsertOrg(r) ==
    /\ Executes(r, "insert_org")
    /\ ~ NameLocked(r)
    /\ \/ /\ call[r].name \in RejectedNames
          /\ Aborts(r)
          /\ Raises(r, Violation("23514", "none"))
       \/ /\ call[r].name \notin RejectedNames /\ NameTaken(call[r].name)
          /\ Aborts(r)
          /\ Raises(r, Violation("23505", "uq_organizations_name_canonical"))
       \/ /\ call[r].name \notin RejectedNames /\ ~ NameTaken(call[r].name)
          /\ staged' = [staged EXCEPT ![r] = @ \cup {"org"}]
          /\ pc' = [pc EXCEPT ![r] = "insert_member"]
          /\ UNCHANGED <<srv, exc>>
    /\ UNCHANGED <<call, rolledBack, created, reply, link, dbVars>>

\* Both ids come from scalar subqueries, NULL for a row that is not there.
InsertMember(r) ==
    /\ Executes(r, "insert_member")
    /\ IF "org" \in staged[r] /\ call[r].id \in users
       THEN /\ staged' = [staged EXCEPT ![r] = @ \cup {"member"}]
            /\ pc' = [pc EXCEPT ![r] = "commit"]
            /\ UNCHANGED <<srv, exc>>
       ELSE Aborts(r) /\ Raises(r, Violation("23502", "none"))
    /\ UNCHANGED <<call, rolledBack, created, reply, link, dbVars>>

\* Faulty variant: every upsert says that it created the row.
UpsertAlwaysCreates(r) ==
    /\ Executes(r, "upsert")
    /\ call[r].id \notin OversizedIds /\ ~ UserLocked(r)
    /\ staged' = [staged EXCEPT ![r] = @ \cup {"user"}]
    /\ created' = [created EXCEPT ![r] = TRUE]
    /\ pc' = [pc EXCEPT ![r] = "commit"]
    /\ UNCHANGED <<call, exc, rolledBack, reply, link, srv, dbVars>>

\* users.upsert: INSERT ... ON CONFLICT DO UPDATE ... RETURNING xmax = 0.
Upsert(r) ==
    /\ Executes(r, "upsert")
    /\ \/ /\ call[r].id \in OversizedIds
          /\ Aborts(r)
          /\ Raises(r, StringTooLong)
          /\ UNCHANGED created
       \/ /\ call[r].id \notin OversizedIds
          /\ ~ UserLocked(r)
          /\ staged' = [staged EXCEPT ![r] = @ \cup {"user"}]
          /\ created' = [created EXCEPT ![r] = call[r].id \notin users]
          /\ pc' = [pc EXCEPT ![r] = "commit"]
          /\ UNCHANGED <<srv, exc>>
    /\ UNCHANGED <<call, rolledBack, reply, link, dbVars>>

\* The driver finds the connection broken; SQLAlchemy may recognise it.
Discovers(r, e) ==
    /\ link[r] = "broken"
    /\ Raises(r, e)
    /\ link' = IF e.invalidated THEN [link EXCEPT ![r] = "invalid"] ELSE link

StatementFails(r) ==
    /\ pc[r] \in {"select", "insert_org", "insert_member", "upsert"}
    /\ \E e \in LinkErrors : Discovers(r, e)
    /\ UNCHANGED <<call, rolledBack, created, reply, dbVars, txVars>>

---------------------------------------------------------------------------
\* uow.commit

\* Faulty variant: the use case returns without a commit.
SendCommitForgotten(r) ==
    /\ Executes(r, "commit")
    /\ pc' = [pc EXCEPT ![r] = "exit"]
    /\ UNCHANGED <<call, exc, rolledBack, created, reply, link, dbVars, txVars>>

SendCommit(r) ==
    /\ Executes(r, "commit")
    /\ srv' = [srv EXCEPT ![r] = "committing"]
    /\ pc' = [pc EXCEPT ![r] = "commit_sent"]
    /\ UNCHANGED <<call, exc, rolledBack, created, reply, link, staged, dbVars>>

CommitReturns(r) ==
    /\ pc[r] = "commit_sent" /\ link[r] = "up" /\ srv[r] = "none"
    /\ pc' = [pc EXCEPT ![r] = "exit"]
    /\ UNCHANGED <<call, exc, rolledBack, created, reply, link, dbVars, txVars>>

\* Faulty variant: a failed commit is only logged.
CommitFailsQuietly(r) ==
    /\ pc[r] \in {"commit", "commit_sent"}
    /\ link[r] = "broken"
    /\ pc' = [pc EXCEPT ![r] = "exit"]
    /\ UNCHANGED <<call, exc, rolledBack, created, reply, link, dbVars, txVars>>

\* The connection fails before or after the server has the COMMIT; the rollback
\* of _rollback_after_failure may fail too, which is only logged.
CommitFails(r) ==
    /\ pc[r] \in {"commit", "commit_sent"}
    /\ \E e \in LinkErrors, ok \in BOOLEAN :
          /\ Discovers(r, e)
          /\ e.invalidated => ok
          /\ rolledBack' = [rolledBack EXCEPT ![r] = ok]
    /\ UNCHANGED <<call, created, reply, dbVars, txVars>>

---------------------------------------------------------------------------
\* __aexit__ and the answer

NeedsRollback(r) == exc[r] # "none" /\ ~ rolledBack[r]

\* Faulty variant: the created flag of the upsert is ignored.
SuccessAlways201(r) == 201

Success(r) == IF call[r].op = "create_org" \/ created[r] THEN 201 ELSE 200

\* Faulty variants: the session is not closed; or only a live one is.
ExitKeepsSession(r) ==
    /\ pc[r] = "exit"
    /\ reply' = [reply EXCEPT ![r] = IF exc[r] = "none" THEN Success(r)
                                     ELSE get_http_status_for_error(exc[r])]
    /\ pc' = [pc EXCEPT ![r] = "answered"]
    /\ UNCHANGED <<call, exc, rolledBack, created, link, dbVars, txVars>>

ExitNeedsLink(r) ==
    /\ pc[r] = "exit" /\ link[r] = "up"
    /\ reply' = [reply EXCEPT ![r] = IF exc[r] = "none" THEN Success(r)
                                     ELSE get_http_status_for_error(exc[r])]
    /\ link' = [link EXCEPT ![r] = "none"]
    /\ pc' = [pc EXCEPT ![r] = "answered"]
    /\ UNCHANGED <<call, exc, rolledBack, created, dbVars, txVars>>

\* The rollback succeeds, or there is none, or the session knows that its
\* connection is gone; then the session is closed.
Exit(r) ==
    /\ pc[r] = "exit"
    /\ reply' = [reply EXCEPT ![r] = IF exc[r] = "none" THEN Success(r)
                                     ELSE get_http_status_for_error(exc[r])]
    /\ IF NeedsRollback(r) /\ link[r] = "up"
       THEN /\ srv' = [srv EXCEPT ![r] = "none"]
            /\ staged' = [staged EXCEPT ![r] = {}]
       ELSE UNCHANGED txVars
    /\ link' = [link EXCEPT ![r] = "none"]
    /\ rolledBack' = [rolledBack EXCEPT ![r] = FALSE]
    /\ pc' = [pc EXCEPT ![r] = "answered"]
    /\ UNCHANGED <<call, exc, created, dbVars>>

\* The rollback fails: __aexit__ closes the session and raises a
\* PersistenceError of its own, outside the try block of run(), so nothing
\* translates it and the request is answered as an unhandled exception.
ExitRaises(r) ==
    /\ pc[r] = "exit"
    /\ NeedsRollback(r) /\ link[r] = "broken"
    /\ reply' = [reply EXCEPT ![r] = 500]
    /\ link' = [link EXCEPT ![r] = "none"]
    /\ rolledBack' = [rolledBack EXCEPT ![r] = FALSE]
    /\ pc' = [pc EXCEPT ![r] = "answered"]
    /\ UNCHANGED <<call, exc, created, dbVars, txVars>>

---------------------------------------------------------------------------
\* The network and the server

LinkBreaks(r) ==
    /\ link[r] = "up"
    /\ link' = [link EXCEPT ![r] = "broken"]
    /\ UNCHANGED <<call, pc, exc, rolledBack, created, reply, dbVars, txVars>>

ServerCommits(r) ==
    /\ srv[r] = "committing"
    /\ orgs' = IF "org" \in staged[r] THEN orgs \cup {r} ELSE orgs
    /\ members' = IF "member" \in staged[r] THEN members \cup {<<r, call[r].id>>}
                                            ELSE members
    /\ users' = IF "user" \in staged[r] THEN users \cup {call[r].id} ELSE users
    /\ applied' = applied \cup {r}
    /\ srv' = [srv EXCEPT ![r] = "none"]
    /\ staged' = [staged EXCEPT ![r] = {}]
    /\ UNCHANGED <<call, pc, exc, rolledBack, created, reply, link>>

\* The server notices that the client is gone and rolls back.
ServerDrops(r) ==
    /\ srv[r] # "none" /\ link[r] # "up"
    /\ srv' = [srv EXCEPT ![r] = "none"]
    /\ staged' = [staged EXCEPT ![r] = {}]
    /\ UNCHANGED <<call, pc, exc, rolledBack, created, reply, link, dbVars>>

---------------------------------------------------------------------------
Proceeds(r) ==
    \/ Checkout(r) \/ CheckoutFails(r)
    \/ SelectUser(r) \/ InsertOrg(r) \/ InsertMember(r) \/ Upsert(r) \/ StatementFails(r)
    \/ SendCommit(r) \/ CommitReturns(r) \/ CommitFails(r)
    \/ Exit(r) \/ ExitRaises(r)

Next ==
    \E r \in Reqs : \/ \E c \in Calls : Begin(r, c)
                    \/ Proceeds(r)
                    \/ LinkBreaks(r) \/ ServerCommits(r) \/ ServerDrops(r)

Spec == Init /\ [][Next]_vars

\* Every await ends: the driver and the pool time out, the server answers a
\* COMMIT it received and notices a client that is gone.
Fairness ==
    \A r \in Reqs : /\ WF_vars(Proceeds(r))
                    /\ WF_vars(ServerCommits(r))
                    /\ WF_vars(ServerDrops(r))

LiveSpec == Spec /\ Fairness

---------------------------------------------------------------------------
\* What has to hold

Creates(r) == call[r] # NoCall /\ call[r].op = "create_org"
Logins(r)  == call[r] # NoCall /\ call[r].op = "login"

\* Type correctness of a run of the executor and of the server's rows.
TypeOK ==
    /\ call \in [Reqs -> Calls \cup {NoCall}]
    /\ pc \in [Reqs -> {"idle", "checkout", "select", "insert_org", "insert_member",
                        "upsert", "commit", "commit_sent", "exit", "answered"}]
    /\ exc \in [Reqs -> (AppErrorCodes \ {"conflict"}) \cup {"none"}]
    /\ rolledBack \in [Reqs -> BOOLEAN]
    /\ created \in [Reqs -> BOOLEAN]
    /\ reply \in [Reqs -> {0, 200, 201, 404, 409, 422, 500, 503}]
    /\ link \in [Reqs -> {"none", "up", "broken", "invalid"}]
    /\ users \in SUBSET Ids
    /\ orgs \in SUBSET Reqs
    /\ members \in SUBSET (Reqs \X Ids)
    /\ srv \in [Reqs -> {"none", "open", "aborted", "committing"}]
    /\ staged \in [Reqs -> SUBSET {"org", "member", "user"}]
    /\ applied \in SUBSET Reqs

\* No half-made organization: each committed organization has exactly one
\* membership, its creator's, who is a user; each membership belongs to an
\* organization; and no two organizations share a canonical name (the two
\* inserts of create_organization_cmd commit together or not at all).
OrgInv ==
    /\ \A o \in orgs : /\ {m \in members : m[1] = o} = {<<o, call[o].id>>}
                       /\ call[o].id \in users
    /\ \A m \in members : m[1] \in orgs
    /\ \A o, p \in orgs : call[o].name = call[p].name => o = p

\* Of all logins of one identity, however they overlap, at most one is told
\* that it was the first (users.py: created -> 201).
FirstLoginOnce ==
    \A r, q \in Reqs :
        (/\ Logins(r) /\ Logins(q) /\ call[r].id = call[q].id
         /\ reply[r] = 201 /\ reply[q] = 201) => r = q

\* A request that has been answered has given its connection back, whichever
\* way it failed, and the pool never hands out more than it has (__aexit__
\* closes the session in its finally clause).
ConnectionsReturned ==
    /\ \A r \in Reqs : pc[r] \in {"idle", "checkout", "answered"} => link[r] = "none"
    /\ Cardinality(InUse) <= PoolSize

\* The rows r writes if nothing fails.
Writes(r) == IF Creates(r) THEN {"org", "member"} ELSE {"user"}

Consistent(r) ==
    /\ pc[r] = "idle" <=> call[r] = NoCall
    /\ pc[r] \in {"select", "insert_org", "insert_member"} => Creates(r)
    /\ pc[r] = "upsert" => Logins(r)
    /\ pc[r] \in {"insert_org", "insert_member"} => call[r].id \in users
    /\ pc[r] \in {"idle", "checkout"} => srv[r] = "none"
    /\ srv[r] \in {"none", "aborted"} => staged[r] = {}
    /\ srv[r] = "aborted" => pc[r] \in {"exit", "answered"}
    /\ srv[r] = "open" =>
          /\ pc[r] # "commit_sent"
          /\ pc[r] \in {"select", "insert_org", "upsert"} => staged[r] = {}
          /\ pc[r] = "insert_member" => staged[r] = {"org"}
          /\ pc[r] = "commit" => staged[r] = Writes(r)
          /\ staged[r] \subseteq Writes(r)
    /\ srv[r] = "committing" =>
          /\ staged[r] = Writes(r)
          /\ pc[r] = "commit_sent" \/ (pc[r] \in {"exit", "answered"} /\ link[r] # "up")
    /\ (pc[r] = "commit_sent" /\ link[r] = "up" /\ srv[r] = "none") => r \in applied
    /\ r \in applied => srv[r] = "none" /\ pc[r] \in {"commit_sent", "exit", "answered"}
    /\ exc[r] # "none" => pc[r] \in {"exit", "answered"}
    /\ (exc[r] = "none" /\ pc[r] \in {"exit", "answered"}) => r \in applied
    /\ exc[r] \in {"not_found", "organization_name_taken", "validation_error"} =>
          r \notin applied /\ srv[r] # "committing"
    /\ created[r] => Logins(r)
    /\ reply[r] = 0 <=> pc[r] # "answered"
    /\ reply[r] \in {200, 201} => exc[r] = "none"
    /\ (reply[r] = 201 /\ Logins(r)) => created[r]

\* Nobody waits for somebody who waits: whoever wrote a row that others need
\* wrote its last one or is about to insert a membership, which needs no lock,
\* or has its commit with the server, or lost its link and is dropped (the
\* order of the statements in the two use cases).
HoldersProceed ==
    \A r \in Reqs : staged[r] # {} =>
        \/ pc[r] \in {"insert_member", "commit"}
        \/ srv[r] = "committing"
        \/ link[r] # "up"

\* Where a request is, what its transaction wrote, whether it took effect and
\* what its caller is told agree: in particular nobody is told of a success
\* that did not commit, and nothing that was refused can commit any more (the
\* order of commit, __aexit__ and the answer around TransactionExecutor.run).
RequestInv == \A r \in Reqs : Consistent(r)

\* The rows are those of the requests that took effect, and of the logins of an
\* identity that took effect at most one created its row (repos.py, the xmax
\* the upsert returns).
RowsInv ==
    /\ orgs = {r \in applied : Creates(r)}
    /\ members = {<<r, call[r].id>> : r \in orgs}
    /\ \A r \in applied : call[r].id \in users
    /\ \A r, q \in orgs : call[r].name = call[q].name => r = q
    /\ \A r, q \in applied : (created[r] /\ created[q] /\ call[r].id = call[q].id) => r = q

\* What is written and not yet committed collides neither with the rows nor
\* with what another transaction wrote, and its creator is a user (the reads
\* and inserts of create_organization_cmd are several awaits apart).
LocksInv ==
    /\ \A r \in Reqs : "org" \in staged[r] =>
          /\ call[r].id \in users
          /\ call[r].name \notin RejectedNames /\ ~ NameTaken(call[r].name)
    /\ \A r \in Reqs : "user" \in staged[r] => (created[r] <=> call[r].id \notin users)
    /\ \A r, q \in Reqs :
          ("org" \in staged[r] /\ "org" \in staged[q] /\ call[r].name = call[q].name) => r = q
    /\ \A r, q \in Reqs :
          ("user" \in staged[r] /\ "user" \in staged[q] /\ call[r].id = call[q].id) => r = q

\* The requests are atomic: with rows, connections and locks hidden, every
\* behaviour is one of the abstract service, in which a request takes effect
\* as a whole at one moment, a refused one never, and the answer fits.
Verdict(r) ==
    CASE exc[r] = "not_found"               -> "unknown"
      [] exc[r] = "organization_name_taken" -> "taken"
      [] exc[r] = "validation_error"        -> "rejected"
      [] OTHER                              -> "open"

Service == INSTANCE PetService WITH
    done    <- applied,
    firsts  <- {r \in applied : created[r]},
    verdict <- [r \in Reqs |-> Verdict(r)]

ImplementsService == Service!Spec

\* Every request is answered, whatever fails and whoever holds the locks.
EveryRequestAnswered ==
    \A r \in Reqs : pc[r] = "checkout" ~> pc[r] = "answered"

\* No transaction outlives its request for good: its locks are freed.
EveryTransactionEnds ==
    \A r \in Reqs : srv[r] # "none" ~> srv[r] = "none"

\* The error run() made of a PersistenceError is what the client is told
\* (transaction_executor.py: raise translate_db_error(e) from e).
TranslatedErrorReachesClient ==
    \A r \in Reqs :
        (/\ pc[r] = "answered"
         /\ exc[r] \in {"organization_name_taken", "validation_error", "service_unavailable"})
        => reply[r] = get_http_status_for_error(exc[r])

===========================================================================
