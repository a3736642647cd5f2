---------------------- MODULE RequestPipelineProofs ----------------------
(***************************************************************************)
(* Proofs about RequestPipeline, for any requests, texts, bounds on names  *)
(* and size of the pool.  The stages before the executor add nothing to    *)
(* what it does, so the invariants of Transactions hold; what they say of  *)
(* calls and replies carries over to bodies, credentials and statuses.     *)
(***************************************************************************)
EXTENDS RequestPipeline, TransactionsProofs, OrganizationNameProofs

LEMMA RequestFacts ==
    ASSUME NEW q \in Requests
    PROVE  /\ q # NoRequest /\ q.op \in {"create_org", "login"} /\ q.cred \in Credentials
           /\ BodyAccepted(q) => CallOf(q) \in Calls
  BY PipelineAssumption

\* Every step of the pipeline is one of Transactions, or none.
LEMMA PipelineSteps ==
    ASSUME request \in [Reqs -> Requests \cup {NoRequest}],
           \A r \in Reqs : stage[r] = "idle" <=> request[r] = NoRequest,
           [PipelineNext]_allVars
    PROVE  [Next]_vars
<1>1. CASE UNCHANGED allVars
  BY <1>1 DEF allVars
<1>2. ASSUME NEW r \in Reqs, NEW q \in Requests, Receive(r, q) PROVE UNCHANGED vars
  BY <1>2 DEF Receive
<1>3. ASSUME NEW r \in Reqs, Run(r) PROVE Next
  <2>1. request[r] \in Requests
    BY <1>3 DEF Run
  <2>2. CallOf(request[r]) \in Calls
    BY <1>3, <2>1, RequestFacts DEF Run
  <2> QED
    BY <1>3, <2>2 DEF Run, Next
<1>4. ASSUME NEW r \in Reqs, Handles(r), ~ Run(r) PROVE UNCHANGED vars
  BY <1>4 DEF Handles, MalformedBody, Unauthenticated, Verify, Unauthorized, InvalidName,
     Render, Refuses
<1>5. ASSUME NEW r \in Reqs, Works(r) PROVE Next
  BY <1>5 DEF Works, Next
<1> QED
  BY <1>1, <1>2, <1>3, <1>4, <1>5 DEF PipelineNext

---------------------------------------------------------------------------
\* The state of one request, through all stages.
Admitted(q) ==
    /\ q \in Requests
    /\ q.cred = "good" \/ (q.cred = "unscoped" /\ q.op = "login")
    /\ BodyAccepted(q)

Staged(r) ==
    /\ stage[r] = "idle" <=> request[r] = NoRequest
    /\ stage[r] = "sent" <=> status[r] # 0
    /\ stage[r] \in {"idle", "received", "verified"} => pc[r] = "idle"
    /\ stage[r] = "verified" => request[r].cred \in {"unscoped", "good"}
    /\ stage[r] = "running" => pc[r] # "idle"
    /\ stage[r] = "sent" /\ pc[r] = "idle" => status[r] \in {400, 401, 403, 422}
    /\ stage[r] = "sent" /\ pc[r] # "idle" => pc[r] = "answered" /\ status[r] = reply[r]
    /\ pc[r] # "idle" => Admitted(request[r]) /\ call[r] = CallOf(request[r])

StagesInv ==
    /\ request \in [Reqs -> Requests \cup {NoRequest}]
    /\ stage \in [Reqs -> {"idle", "received", "verified", "running", "sent"}]
    /\ status \in [Reqs -> {0, 200, 201, 400, 401, 403, 404, 409, 422, 500, 503}]
    /\ \A r \in Reqs : Staged(r)

\* What the table made of the names it was given.
NamesInv ==
    /\ \A r \in Reqs : exc[r] = "validation_error" =>
           Creates(r) /\ call[r].name \in RejectedNames
    /\ \A o \in orgs : call[o].name \notin RejectedNames

\* A client error is the translation of what the transaction was refused for.
Refusal(r) ==
    /\ reply[r] \in {404, 409, 422} =>
          exc[r] \in {"not_found", "organization_name_taken", "validation_error"}
    /\ reply[r] = 409 => exc[r] = "organization_name_taken"

RefusalsInv == \A r \in Reqs : Refusal(r)

PipelineInv == IInv /\ StagesInv /\ NamesInv /\ RefusalsInv

---------------------------------------------------------------------------
LEMMA PipelineInvInit == PipelineInit => PipelineInv
<1> SUFFICES ASSUME PipelineInit PROVE PipelineInv
  OBVIOUS
<1>1. IInv
  BY InitIInv DEF PipelineInit
<1>2. StagesInv
  BY DEF PipelineInit, Init, StagesInv, Staged
<1>3. NamesInv
  BY DEF PipelineInit, Init, NamesInv
<1>4. RefusalsInv
  BY DEF PipelineInit, Init, RefusalsInv, Refusal
<1> QED
  BY <1>1, <1>2, <1>3, <1>4 DEF PipelineInv

\* The executor and the server change neither the call nor an answer given.
LEMMA WorkSteps ==
    ASSUME TypeOK, NEW r \in Reqs, Works(r)
    PROVE  /\ call' = call
           /\ \/ pc'[r] = pc[r] /\ reply' = reply
              \/ pc[r] \notin {"idle", "answered"} /\ pc'[r] # "idle"
<1> USE DEF TypeOK
<1>1. CASE Checkout(r) \/ CheckoutFails(r)
  BY <1>1 DEF Checkout, CheckoutFails, Raises
<1>2. CASE SelectUser(r) \/ InsertOrg(r) \/ InsertMember(r)
  BY <1>2 DEF SelectUser, InsertOrg, InsertMember, Executes, Raises
<1>3. CASE Upsert(r) \/ StatementFails(r)
  BY <1>3 DEF Upsert, StatementFails, Executes, Discovers, Raises
<1>4. CASE SendCommit(r) \/ CommitReturns(r) \/ CommitFails(r)
  BY <1>4 DEF SendCommit, CommitReturns, CommitFails, Executes, Discovers, Raises
<1>5. CASE Exit(r) \/ ExitRaises(r)
  BY <1>5 DEF Exit, ExitRaises
<1>6. CASE LinkBreaks(r) \/ ServerCommits(r) \/ ServerDrops(r)
  BY <1>6 DEF LinkBreaks, ServerCommits, ServerDrops
<1> QED
  BY <1>1, <1>2, <1>3, <1>4, <1>5, <1>6 DEF Works, Proceeds

\* A request whose variables stay keeps its state.
LEMMA SameStaged ==
    ASSUME NEW q \in Reqs, Staged(q), request'[q] = request[q], stage'[q] = stage[q],
           status'[q] = status[q], pc'[q] = pc[q], reply'[q] = reply[q], call'[q] = call[q]
    PROVE  Staged(q)'
  BY DEF Staged, Admitted

\* Whose step it is, the others keep their state.
LEMMA PipelineOthersStay ==
    ASSUME TypeOK, StagesInv, NEW r \in Reqs, NEW q \in Reqs \ {r},
           (\E p \in Requests : Receive(r, p)) \/ Handles(r) \/ Works(r)
    PROVE  Staged(q)'
<1>0. Staged(q)
  BY DEF StagesInv
<1>1. ASSUME UNCHANGED vars PROVE pc'[q] = pc[q] /\ reply'[q] = reply[q] /\ call'[q] = call[q]
  BY <1>1 DEF vars
<1>2. ASSUME StepOf(r) PROVE pc'[q] = pc[q] /\ reply'[q] = reply[q] /\ call'[q] = call[q]
  BY <1>2, OthersStay DEF Same
<1>3. CASE \E p \in Requests : Receive(r, p)
  <2>1. request'[q] = request[q] /\ stage'[q] = stage[q] /\ status'[q] = status[q]
    BY <1>3 DEF Receive, StagesInv
  <2> QED
    BY <1>0, <1>1, <1>3, <2>1, SameStaged DEF Receive
<1>4. CASE Handles(r) /\ ~ Run(r)
  <2>1. request'[q] = request[q] /\ stage'[q] = stage[q] /\ status'[q] = status[q]
        /\ UNCHANGED vars
    BY <1>4 DEF Handles, MalformedBody, Unauthenticated, Verify, Unauthorized, InvalidName,
       Render, Refuses, StagesInv
  <2> QED
    BY <1>0, <1>1, <2>1, SameStaged
<1>5. CASE Run(r)
  <2>1. request'[q] = request[q] /\ stage'[q] = stage[q] /\ status'[q] = status[q]
    BY <1>5 DEF Run, StagesInv
  <2>2. request[r] \in Requests /\ BodyAccepted(request[r]) /\ Begin(r, CallOf(request[r]))
    BY <1>5 DEF Run, StagesInv, Staged
  <2>3. StepOf(r)
    BY <2>2, RequestFacts DEF StepOf
  <2> QED
    BY <1>0, <1>2, <2>1, <2>3, SameStaged
<1>6. CASE Works(r)
  <2>1. request'[q] = request[q] /\ stage'[q] = stage[q] /\ status'[q] = status[q]
    BY <1>6 DEF Works, pipeVars
  <2>2. StepOf(r)
    BY <1>6 DEF Works, StepOf
  <2> QED
    BY <1>0, <1>2, <2>1, <2>2, SameStaged
<1> QED
  BY <1>3, <1>4, <1>5, <1>6

---------------------------------------------------------------------------
\* A handler that answers before the endpoint runs.
LEMMA RefusesStaged ==
    ASSUME TypeOK, StagesInv, NEW r \in Reqs, NEW s \in {400, 401, 403, 422},
           stage[r] \in {"received", "verified"}, Refuses(r, s)
    PROVE  StagesInv'
<1>1. Staged(r)'
  <2>1. Staged(r) /\ pc[r] = "idle" /\ request[r] # NoRequest
    BY DEF StagesInv, Staged
  <2>2. stage'[r] = "sent" /\ status'[r] = s /\ request' = request /\ UNCHANGED vars
    BY DEF Refuses, StagesInv
  <2>3. pc' = pc
    BY <2>2 DEF vars
  <2> QED
    BY <2>1, <2>2, <2>3 DEF Staged
<1>2. \A q \in Reqs \ {r} : Staged(q)'
  <2> SUFFICES ASSUME NEW q \in Reqs \ {r} PROVE Staged(q)'
    OBVIOUS
  <2>1. /\ request'[q] = request[q] /\ stage'[q] = stage[q] /\ status'[q] = status[q]
        /\ pc'[q] = pc[q] /\ reply'[q] = reply[q] /\ call'[q] = call[q]
    BY DEF Refuses, StagesInv, vars
  <2> QED
    BY <2>1, SameStaged DEF StagesInv
<1>3. /\ request' \in [Reqs -> Requests \cup {NoRequest}]
      /\ stage' \in [Reqs -> {"idle", "received", "verified", "running", "sent"}]
      /\ status' \in [Reqs -> {0, 200, 201, 400, 401, 403, 404, 409, 422, 500, 503}]
  BY DEF Refuses, StagesInv
<1> QED
  BY <1>1, <1>2, <1>3 DEF StagesInv

LEMMA StagesNext ==
    ASSUME TypeOK, RequestInv, StagesInv, [PipelineNext]_allVars
    PROVE  StagesInv'
<1>1. CASE UNCHANGED allVars
  BY <1>1 DEF allVars, vars, pipeVars, StagesInv, Staged, Admitted
<1>2. ASSUME NEW r \in Reqs, NEW q \in Requests, Receive(r, q) PROVE StagesInv'
  <2>1. Staged(r)'
    <3>1. Staged(r) /\ pc' = pc /\ q # NoRequest
      BY <1>2, RequestFacts DEF StagesInv, Receive, vars
    <3> QED
      BY <1>2, <3>1 DEF Receive, Staged, StagesInv
  <2>2. \A p \in Reqs \ {r} : Staged(p)'
    BY <1>2, PipelineOthersStay
  <2> QED
    BY <1>2, <2>1, <2>2 DEF Receive, StagesInv
<1>3. ASSUME NEW r \in Reqs,
             MalformedBody(r) \/ Unauthenticated(r) \/ Unauthorized(r) \/ InvalidName(r)
      PROVE  StagesInv'
  BY <1>3, RefusesStaged DEF MalformedBody, Unauthenticated, Unauthorized, InvalidName
<1>4. ASSUME NEW r \in Reqs, Verify(r) PROVE StagesInv'
  <2>1. Staged(r)'
    <3>1. Staged(r) /\ pc' = pc
      BY <1>4 DEF StagesInv, Verify, vars
    <3> QED
      BY <1>4, <3>1 DEF Verify, Staged, StagesInv
  <2>2. \A p \in Reqs \ {r} : Staged(p)'
    BY <1>4, PipelineOthersStay DEF Handles
  <2> QED
    BY <1>4, <2>1, <2>2 DEF Verify, StagesInv
<1>5. ASSUME NEW r \in Reqs, Run(r) PROVE StagesInv'
  <2>1. Staged(r)'
    <3>1. Staged(r) /\ stage[r] = "verified" /\ request[r] \in Requests
      BY <1>5 DEF StagesInv, Run, Staged
    <3>2. Admitted(request[r])
      BY <1>5, <3>1, RequestFacts DEF Admitted, Run, ScopesGranted, Staged
    <3>3. /\ pc'[r] = "checkout" /\ call'[r] = CallOf(request[r]) /\ stage'[r] = "running"
          /\ request' = request /\ status' = status
      BY <1>5 DEF Run, Begin, StagesInv, TypeOK
    <3> QED
      BY <3>1, <3>2, <3>3 DEF Staged
  <2>2. \A p \in Reqs \ {r} : Staged(p)'
    BY <1>5, PipelineOthersStay DEF Handles
  <2> QED
    BY <1>5, <2>1, <2>2 DEF Run, StagesInv
<1>6. ASSUME NEW r \in Reqs, Works(r) PROVE StagesInv'
  <2>1. Staged(r)'
    <3>1. Staged(r) /\ request' = request /\ stage' = stage /\ status' = status
      BY <1>6 DEF StagesInv, Works, pipeVars
    <3>2. CASE pc'[r] = pc[r] /\ reply' = reply
      BY <1>6, <3>1, <3>2, WorkSteps, SameStaged
    <3>3. CASE pc[r] \notin {"idle", "answered"} /\ pc'[r] # "idle"
      <4>1. stage[r] = "running" /\ call' = call
        BY <1>6, <3>1, <3>3, WorkSteps DEF StagesInv, Staged
      <4> QED
        BY <3>1, <3>3, <4>1 DEF Staged
    <3> QED
      BY <1>6, <3>2, <3>3, WorkSteps
  <2>2. \A p \in Reqs \ {r} : Staged(p)'
    BY <1>6, PipelineOthersStay
  <2> QED
    BY <1>6, <2>1, <2>2 DEF Works, pipeVars, StagesInv
<1>7. ASSUME NEW r \in Reqs, Render(r) PROVE StagesInv'
  <2>1. reply[r] \in {200, 201, 404, 409, 422, 500, 503}
    BY <1>7 DEF Render, TypeOK, RequestInv, Consistent
  <2>2. Staged(r)'
    <3>1. /\ Staged(r) /\ stage[r] = "running" /\ pc[r] = "answered"
          /\ UNCHANGED <<pc, reply, call, request>>
          /\ stage'[r] = "sent" /\ status'[r] = reply[r]
      BY <1>7 DEF StagesInv, Render, vars
    <3> QED
      BY <2>1, <3>1 DEF Staged
  <2>3. \A p \in Reqs \ {r} : Staged(p)'
    BY <1>7, PipelineOthersStay DEF Handles
  <2> QED
    BY <1>7, <2>1, <2>2, <2>3 DEF Render, StagesInv
<1> QED
  BY <1>1, <1>2, <1>3, <1>4, <1>5, <1>6, <1>7 DEF PipelineNext, Handles

---------------------------------------------------------------------------
\* A request is refused as invalid for its name only, and a name is inserted
\* only if it is not.
LEMMA NamesStep ==
    ASSUME IInv, NamesInv, NEW r \in Reqs, StepOf(r)
    PROVE  /\ exc'[r] = "validation_error" => Creates(r)' /\ call'[r].name \in RejectedNames
           /\ \A o \in orgs' : call'[o].name \notin RejectedNames
<1> USE DEF IInv
<1>0. Consistent(r) /\ (exc[r] = "validation_error" => Creates(r) /\ call[r].name \in RejectedNames)
  BY DEF RequestInv, NamesInv
<1>1. ASSUME ~ ServerCommits(r)
      PROVE  \A o \in orgs' : call'[o].name \notin RejectedNames
  BY <1>1, RowsStay DEF RowsInv, NamesInv
<1>2. ASSUME NEW c \in Calls, Begin(r, c)
      PROVE  exc'[r] # "validation_error" /\ ~ ServerCommits(r)
  BY <1>0, <1>2 DEF Begin, Consistent, ServerCommits
<1>3. ASSUME Checkout(r) \/ SendCommit(r) \/ CommitReturns(r) \/ Exit(r) \/ ExitRaises(r)
                \/ LinkBreaks(r) \/ ServerDrops(r) \/ ServerCommits(r)
      PROVE  exc'[r] = exc[r] /\ call' = call
  BY <1>3 DEF Checkout, SendCommit, CommitReturns, Exit, ExitRaises, LinkBreaks, ServerDrops,
     ServerCommits
<1>4. ASSUME CheckoutFails(r) \/ StatementFails(r) \/ CommitFails(r)
      PROVE  exc'[r] = "service_unavailable"
  BY <1>4, Translations DEF CheckoutFails, StatementFails, CommitFails, Discovers, Raises, TypeOK
<1>5. ASSUME SelectUser(r) \/ Upsert(r) PROVE exc'[r] # "validation_error"
  BY <1>0, <1>5, Translations DEF SelectUser, Upsert, Executes, Raises, Aborts, TypeOK, Consistent
<1>6. ASSUME InsertOrg(r), exc'[r] = "validation_error"
      PROVE  Creates(r)' /\ call'[r].name \in RejectedNames
  <2>1. Creates(r) /\ exc[r] = "none" /\ call' = call
    BY <1>0, <1>6 DEF InsertOrg, Executes, Consistent
  <2>2. call[r].name \in RejectedNames
    BY <1>6, <2>1, Translations DEF InsertOrg, Raises, TypeOK
  <2> QED
    BY <2>1, <2>2 DEF Creates
<1>7. ASSUME InsertMember(r) PROVE exc'[r] # "validation_error"
  <2>1. "org" \in staged[r] /\ exc[r] = "none" /\ call[r].id \in users
    BY <1>0, <1>7 DEF InsertMember, Executes, Consistent
  <2> QED
    BY <1>7, <2>1 DEF InsertMember
<1>8. ASSUME ServerCommits(r) PROVE \A o \in orgs' : call'[o].name \notin RejectedNames
  <2>1. orgs' \subseteq orgs \cup {r} /\ (r \in orgs' => r \in orgs \/ "org" \in staged[r])
        /\ call' = call
    BY <1>8 DEF ServerCommits
  <2>2. "org" \in staged[r] => call[r].name \notin RejectedNames
    BY DEF LocksInv
  <2> QED
    BY <2>1, <2>2 DEF NamesInv
<1>9. exc'[r] = "validation_error" => Creates(r)' /\ call'[r].name \in RejectedNames
  <2>1. ASSUME exc'[r] = exc[r] /\ call' = call
        PROVE  exc'[r] = "validation_error" => Creates(r)' /\ call'[r].name \in RejectedNames
    BY <1>0, <2>1 DEF Creates
  <2> QED
    BY <1>2, <1>3, <1>4, <1>5, <1>6, <1>7, <2>1 DEF StepOf, Proceeds
<1> QED
  BY <1>1, <1>8, <1>9

LEMMA NamesNext == IInv /\ NamesInv /\ [Next]_vars => NamesInv'
<1> SUFFICES ASSUME IInv, NamesInv, [Next]_vars PROVE NamesInv'
  OBVIOUS
<1>1. CASE UNCHANGED vars
  BY <1>1 DEF vars, dbVars, NamesInv, Creates
<1>2. ASSUME NEW r \in Reqs, StepOf(r) PROVE NamesInv'
  <2>1. ASSUME NEW q \in Reqs \ {r}, exc'[q] = "validation_error"
        PROVE  Creates(q)' /\ call'[q].name \in RejectedNames
    <3>1. exc'[q] = exc[q] /\ call'[q] = call[q]
      BY <1>2, OthersStay DEF IInv, Same
    <3> QED
      BY <2>1, <3>1 DEF NamesInv, Creates
  <2> QED
    BY <1>2, <2>1, NamesStep DEF NamesInv
<1> QED
  BY <1>1, <1>2, StepIsSomebodys

LEMMA RefusalsNext == IInv /\ RefusalsInv /\ [Next]_vars => RefusalsInv'
<1> SUFFICES ASSUME IInv, RefusalsInv, [Next]_vars PROVE RefusalsInv'
  OBVIOUS
<1>1. CASE UNCHANGED vars
  BY <1>1 DEF vars, RefusalsInv, Refusal
<1>2. ASSUME NEW r \in Reqs, StepOf(r) PROVE RefusalsInv'
  <2>0. Consistent(r) /\ Refusal(r) /\ TypeOK
    BY DEF IInv, RequestInv, RefusalsInv
  <2>1. \A q \in Reqs \ {r} : Refusal(q)'
    BY <1>2, <2>0, OthersStay DEF Same, RefusalsInv, Refusal
  <2> SUFFICES Refusal(r)'
    BY <2>1 DEF RefusalsInv
  <2>2. CASE Exit(r)
    <3>1. reply'[r] = IF exc[r] = "none" THEN Success(r) ELSE get_http_status_for_error(exc[r])
      BY <2>0, <2>2 DEF Exit, TypeOK
    <3>2. Success(r) \in {200, 201}
      BY DEF Success
    <3>3. exc[r] \in AppErrorCodes \ {"conflict"} =>
            /\ get_http_status_for_error(exc[r]) \in {404, 409, 422} =>
                  exc[r] \in {"not_found", "organization_name_taken", "validation_error"}
            /\ get_http_status_for_error(exc[r]) = 409 => exc[r] = "organization_name_taken"
      BY DEF get_http_status_for_error, AppErrorCodes
    <3>4. exc' = exc /\ exc[r] \in (AppErrorCodes \ {"conflict"}) \cup {"none"}
      BY <2>0, <2>2 DEF Exit, TypeOK
    <3> QED
      BY <3>1, <3>2, <3>3, <3>4 DEF Refusal
  <2>3. CASE ExitRaises(r)
    BY <2>0, <2>3 DEF ExitRaises, TypeOK, Refusal
  <2>4. CASE LinkBreaks(r) \/ ServerCommits(r) \/ ServerDrops(r)
    BY <2>0, <2>4 DEF LinkBreaks, ServerCommits, ServerDrops, Refusal
  <2>5. CASE \/ \E c \in Calls : Begin(r, c)
             \/ Proceeds(r) /\ ~ Exit(r) /\ ~ ExitRaises(r)
    <3>1. reply' = reply /\ pc[r] # "answered"
      BY <2>5 DEF Begin, Proceeds, Checkout, CheckoutFails, SelectUser, InsertOrg, InsertMember,
         Upsert, StatementFails, SendCommit, CommitReturns, CommitFails, Executes
    <3> QED
      BY <2>0, <3>1 DEF Consistent, Refusal
  <2> QED
    BY <1>2, <2>2, <2>3, <2>4, <2>5 DEF StepOf
<1> QED
  BY <1>1, <1>2, StepIsSomebodys

LEMMA PipelineInvNext == PipelineInv /\ [PipelineNext]_allVars => PipelineInv' /\ [Next]_vars
<1> SUFFICES ASSUME PipelineInv, [PipelineNext]_allVars PROVE PipelineInv' /\ [Next]_vars
  OBVIOUS
<1>1. IInv /\ StagesInv /\ NamesInv /\ RefusalsInv /\ TypeOK /\ RequestInv
  BY DEF PipelineInv, IInv
<1>2. [Next]_vars
  BY <1>1, PipelineSteps DEF StagesInv, Staged
<1>3. StagesInv'
  BY <1>1, StagesNext
<1> QED
  BY <1>1, <1>2, <1>3, NextIInv, NamesNext, RefusalsNext DEF PipelineInv

LEMMA PipelineInductive == PipelineSpec => []PipelineInv
  BY PipelineInvInit, PipelineInvNext, PTL DEF PipelineSpec

---------------------------------------------------------------------------
\* Whatever comes before the executor, its runs are those of Transactions, so
\* the atomicity proved there is the endpoints' (organizations.py, users.py).
THEOREM ImplementsTransactions == PipelineSpec => Spec
<1>1. PipelineInit => Init
  BY DEF PipelineInit
<1> QED
  BY <1>1, PipelineInvInit, PipelineInvNext, PTL DEF PipelineSpec, Spec

\* The stages of a request fit those of the executor.
THEOREM PipelineTypeCorrect == PipelineSpec => []PipelineTypeOK
<1>1. PipelineInv => PipelineTypeOK
  BY DEF PipelineInv, StagesInv, Staged, PipelineTypeOK
<1> QED
  BY <1>1, PipelineInductive, PTL

\* Nothing reaches the pool or the database for a request that was not
\* admitted, whatever else is under way.
THEOREM EffectsAreAdmitted == PipelineSpec => []EffectNeedsAdmission
<1>1. PipelineInv /\ ConnectionsReturned => EffectNeedsAdmission
  <2> SUFFICES ASSUME PipelineInv, ConnectionsReturned, NEW r \in Reqs,
                      pc[r] # "idle" \/ link[r] # "none" \/ staged[r] # {} \/ r \in applied
               PROVE  /\ request[r] # NoRequest
                      /\ request[r].cred = "good"
                            \/ (request[r].cred = "unscoped" /\ request[r].op = "login")
                      /\ request[r].op = "create_org" =>
                             request[r].body \in Text /\ Accepts(request[r].body)
                      /\ call[r] = CallOf(request[r])
    BY DEF EffectNeedsAdmission
  <2> DEFINE q == request[r]
  <2>1. Admitted(q) /\ call[r] = CallOf(q)
    <3>1. pc[r] # "idle" => Admitted(q) /\ call[r] = CallOf(q)
      BY DEF PipelineInv, StagesInv, Staged
    <3>2. Consistent(r) /\ (pc[r] = "idle" => link[r] = "none")
      BY DEF PipelineInv, IInv, RequestInv, ConnectionsReturned
    <3> QED
      BY <3>1, <3>2 DEF Consistent
  <2> QED
    BY <2>1, RequestFacts DEF Admitted, BodyAccepted, HasBody
<1> QED
  BY <1>1, PipelineInductive, ImplementsTransactions, ConnectionsSafe, PTL

\* The status tells whether the request took effect, wherever it was refused.
THEOREM StatusIsTruthful == PipelineSpec => []StatusTellsEffect
<1>1. PipelineInv /\ TakenInv => StatusTellsEffect
  <2> SUFFICES ASSUME PipelineInv, TakenInv, NEW r \in Reqs
               PROVE  /\ status[r] \in {200, 201} => r \in applied
                      /\ status[r] \in {400, 401, 403, 404, 409, 422} =>
                             r \notin applied /\ srv[r] # "committing"
                      /\ status[r] = 409 =>
                             \E o \in orgs \ {r} : call[o].name = call[r].name
    BY DEF StatusTellsEffect
  <2>1. Consistent(r) /\ Staged(r) /\ TypeOK
    BY DEF PipelineInv, IInv, RequestInv, StagesInv
  <2>2. CASE pc[r] = "idle"
    BY <2>1, <2>2 DEF Consistent, Staged
  <2>3. CASE pc[r] # "idle" /\ status[r] # 0
    <3>1. status[r] = reply[r] /\ pc[r] = "answered"
      BY <2>1, <2>3 DEF Staged
    <3>2. reply[r] \in {200, 201} => r \in applied
      BY <2>1, <3>1 DEF Consistent
    <3>3. reply[r] \in {404, 409, 422} => r \notin applied /\ srv[r] # "committing"
      BY <2>1 DEF PipelineInv, RefusalsInv, Refusal, Consistent
    <3>4. reply[r] \notin {400, 401, 403}
      BY <2>1 DEF TypeOK
    <3>5. reply[r] = 409 => \E o \in orgs : call[o].name = call[r].name
      BY DEF TakenInv, PipelineInv, RefusalsInv, Refusal
    <3>6. orgs \subseteq applied
      BY DEF PipelineInv, IInv, RowsInv
    <3> QED
      BY <3>1, <3>2, <3>3, <3>4, <3>5, <3>6
  <2> QED
    BY <2>2, <2>3
<1> QED
  BY <1>1, PipelineInductive, ImplementsTransactions, ConflictsAreReal, PTL

\* What a stored organization was sent under, and what the table made of it.
LEMMA StoredName ==
    ASSUME PipelineInv, NEW o \in orgs
    PROVE  LET n == NameOf(request[o].body) IN
           /\ request[o].body \in Text /\ Accepts(request[o].body)
           /\ RowAccepts(n) /\ call[o].name = name_canonical(n)
<1> DEFINE b == request[o].body
<1>1. o \in Reqs /\ Creates(o) /\ o \in applied
  BY DEF PipelineInv, IInv, RowsInv, TypeOK
<1>2. pc[o] # "idle"
  BY <1>1 DEF PipelineInv, IInv, RequestInv, Consistent
<1>3. Admitted(request[o]) /\ call[o] = CallOf(request[o])
  BY <1>1, <1>2 DEF PipelineInv, StagesInv, Staged
<1>4. HasBody(request[o])
  BY <1>1, <1>3 DEF Creates, CallOf, HasBody
<1>5. b \in Text /\ Accepts(b) /\ call[o].name = RowName(b)
  BY <1>3, <1>4 DEF Admitted, BodyAccepted, CallOf
<1>6. RowName(b) # Refused
  BY <1>5, PipelineAssumption DEF PipelineInv, NamesInv
<1>7. RowAccepts(NameOf(b)) /\ RowName(b) = name_canonical(NameOf(b))
  BY <1>6 DEF RowName
<1> QED
  BY <1>5, <1>7

\* Whatever the application takes for one name is stored once, except where the
\* Unicode tables of Python and PostgreSQL differ (value_objects.py,
\* canonicalize_org_name; models.py, uq_organizations_name_canonical).
THEOREM StoredNamesSafe == PipelineSpec => []OneSpellingStored
<1>1. PipelineInv => OneSpellingStored
  <2> DEFINE sent(o) == NameOf(request[o].body)
  <2> SUFFICES ASSUME PipelineInv, NEW o \in orgs, NEW p \in orgs,
                      TablesAgree(sent(o)), TablesAgree(sent(p)),
                      canonicalize_org_name(sent(o)) = canonicalize_org_name(sent(p))
               PROVE  o = p
    BY DEF OneSpellingStored
  <2>1. ASSUME NEW q \in orgs, TablesAgree(sent(q))
        PROVE  call[q].name = canonicalize_org_name(sent(q))
    <3>1. /\ request[q].body \in Text /\ Accepts(request[q].body)
          /\ call[q].name = name_canonical(sent(q))
      BY StoredName
    <3> QED
      BY <2>1, <3>1, AcceptedNamesFit
  <2>2. call[o].name = call[p].name
    BY <2>1
  <2> QED
    BY <2>2 DEF PipelineInv, IInv, RowsInv
<1> QED
  BY <1>1, PipelineInductive, PTL

\* Where the Unicode tables of Python and PostgreSQL agree on a name that the
\* validator accepted, no check of the table refuses it (models.py, the CHECK
\* constraints).
THEOREM TableRefusalsExplained == PipelineSpec => []TableRefusesOddNamesOnly
<1>1. PipelineInv => TableRefusesOddNamesOnly
  <2> SUFFICES ASSUME PipelineInv, NEW r \in Reqs, exc[r] = "validation_error"
               PROVE  ~ TablesAgree(NameOf(request[r].body))
    BY DEF TableRefusesOddNamesOnly
  <2> DEFINE b == request[r].body
  <2>1. Creates(r) /\ call[r].name \in RejectedNames
    BY DEF PipelineInv, NamesInv
  <2>2. pc[r] # "idle"
    BY DEF PipelineInv, IInv, RequestInv, Consistent
  <2>3. Admitted(request[r]) /\ call[r] = CallOf(request[r])
    BY <2>2 DEF PipelineInv, StagesInv, Staged
  <2>4. HasBody(request[r])
    BY <2>1, <2>3 DEF Creates, CallOf, HasBody
  <2>5. b \in Text /\ Accepts(b) /\ RowName(b) = Refused
    BY <2>1, <2>3, <2>4, PipelineAssumption DEF Admitted, BodyAccepted, CallOf
  <2>6. ~ RowAccepts(NameOf(b))
    <3>1. NameOf(b) \in Text
      BY <2>5, AcceptedNamesFit
    <3>2. name_canonical(NameOf(b)) \in Text
      BY <3>1, Typed DEF name_canonical
    <3> QED
      BY <2>5, <3>2, PipelineAssumption DEF RowName
  <2> QED
    BY <2>5, <2>6, AcceptedNamesFit
<1> QED
  BY <1>1, PipelineInductive, PTL

\* With everything in front of the executor, a write request is still an atomic
\* request of PetService, and a row lock is never held by a request that waits
\* (routers/organizations.py, routers/users.py).
THEOREM PipelineImplementsService == PipelineSpec => ImplementsService /\ []HoldersProceed
  BY ImplementsTransactions, TransactionsImplementService, HoldersSafe
==============================================================================
