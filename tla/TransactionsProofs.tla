------------------------ MODULE TransactionsProofs ------------------------
(***************************************************************************)
(* For every set of requests, identities and names and every size of the   *)
(* pool: the two write requests are atomic, answered truthfully and return *)
(* their connections; and Transactions implements PetService step by step. *)
(***************************************************************************)
EXTENDS Transactions, FiniteSetTheorems, TLAPS

\* What the translation makes of the errors the use cases meet.
LEMMA Translations ==
    /\ \A e \in LinkErrors : AppErrorOf(e) = "service_unavailable"
    /\ AppErrorOf(PoolExhausted) = "service_unavailable"
    /\ AppErrorOf(ConnectRefused) = "service_unavailable"
    /\ AppErrorOf(StringTooLong) = "internal_error"
    /\ AppErrorOf(Violation("23514", "none")) = "validation_error"
    /\ AppErrorOf(Violation("23502", "none")) = "validation_error"
    /\ AppErrorOf(Violation("23505", "uq_organizations_name_canonical"))
          = "organization_name_taken"
<1>1. /\ \A e \in LinkErrors : determine_exc(e) \in {"operational", "transient"}
      /\ determine_exc(PoolExhausted) = "transient"
      /\ determine_exc(ConnectRefused) = "operational"
      /\ determine_exc(StringTooLong) = "unknown"
  BY DEF LinkErrors, PoolExhausted, ConnectRefused, StringTooLong, determine_exc
<1>2. /\ IntegrityKind("23514") = "check_violation"
      /\ IntegrityKind("23502") = "not_null_violation"
      /\ IntegrityKind("23505") = "unique_violation"
  BY DEF IntegrityKind
<1>3. \A s, c : determine_exc(Violation(s, c)) = IntegrityKind(s)
  BY DEF Violation, determine_exc
<1>4. \A kind, c :
        /\ kind \in {"operational", "transient"} => translate_db_error(kind, c) = "service_unavailable"
        /\ kind = "unknown" => translate_db_error(kind, c) = "internal_error"
        /\ kind \in {"check_violation", "not_null_violation"} =>
               translate_db_error(kind, c) = "validation_error"
        /\ kind = "unique_violation" /\ c = "uq_organizations_name_canonical" =>
               translate_db_error(kind, c) = "organization_name_taken"
  BY DEF translate_db_error
<1>5. \A s, c : Violation(s, c).constraint = c
  BY DEF Violation
<1> QED
  BY <1>1, <1>2, <1>3, <1>4, <1>5 DEF AppErrorOf

LEMMA BooleanExcept ==
    ASSUME NEW f \in [Reqs -> BOOLEAN], NEW r \in Reqs, NEW b \in BOOLEAN
    PROVE  [f EXCEPT ![r] = b] \in [Reqs -> BOOLEAN]
  OBVIOUS

LEMMA MembershipExcept ==
    ASSUME NEW f \in [Reqs -> BOOLEAN], NEW r \in Reqs, NEW x, NEW S
    PROVE  /\ [f EXCEPT ![r] = x \notin S] \in [Reqs -> BOOLEAN]
           /\ [f EXCEPT ![r] = x \notin S][r] <=> x \notin S
  OBVIOUS

LEMMA TypeInit == Init => TypeOK
  BY DEF Init, TypeOK

LEMMA TypeNext == TypeOK /\ RequestInv /\ [Next]_vars => TypeOK'
<1> SUFFICES ASSUME TypeOK, RequestInv, [Next]_vars PROVE TypeOK'
  OBVIOUS
<1>1. CASE UNCHANGED vars
  BY <1>1 DEF vars, dbVars, txVars, TypeOK
<1>2. ASSUME NEW r \in Reqs, NEW c \in Calls, Begin(r, c) PROVE TypeOK'
  BY <1>2 DEF Begin, dbVars, txVars, TypeOK
<1>3. ASSUME NEW r \in Reqs, Checkout(r) \/ CheckoutFails(r) PROVE TypeOK'
  BY <1>3, Translations DEF Checkout, CheckoutFails, Raises, AppErrorCodes, dbVars, txVars, TypeOK
<1>4. ASSUME NEW r \in Reqs, SelectUser(r) \/ StatementFails(r) PROVE TypeOK'
  BY <1>4, Translations DEF SelectUser, StatementFails, Discovers, Raises, AppErrorCodes,
     dbVars, txVars, TypeOK
<1>5. ASSUME NEW r \in Reqs, InsertOrg(r) PROVE TypeOK'
  BY <1>5, Translations DEF InsertOrg, Aborts, Raises, AppErrorCodes, dbVars, txVars, TypeOK
<1>6. ASSUME NEW r \in Reqs, InsertMember(r) PROVE TypeOK'
  BY <1>6, Translations DEF InsertMember, Aborts, Raises, AppErrorCodes, dbVars, txVars, TypeOK
<1>7. ASSUME NEW r \in Reqs, Upsert(r) PROVE TypeOK'
  <2>1. created' \in [Reqs -> BOOLEAN]
    <3>1. CASE created' = created
      BY <3>1 DEF TypeOK
    <3>2. CASE created' = [created EXCEPT ![r] = call[r].id \notin users]
      BY <3>2, MembershipExcept DEF TypeOK
    <3> QED
      BY <1>7, <3>1, <3>2 DEF Upsert
  <2> QED
    BY <1>7, <2>1, Translations DEF Upsert, Aborts, Raises, AppErrorCodes, dbVars, TypeOK
<1>8. ASSUME NEW r \in Reqs, SendCommit(r) \/ CommitReturns(r) PROVE TypeOK'
  BY <1>8 DEF SendCommit, CommitReturns, dbVars, txVars, TypeOK
<1>9. ASSUME NEW r \in Reqs, CommitFails(r) PROVE TypeOK'
  BY <1>9, Translations DEF CommitFails, Discovers, Raises, AppErrorCodes, dbVars, txVars, TypeOK
<1>10. ASSUME NEW r \in Reqs, Exit(r) \/ ExitRaises(r) PROVE TypeOK'
  <2>1. reply' \in [Reqs -> {0, 200, 201, 404, 409, 422, 500, 503}]
    BY <1>10 DEF Exit, ExitRaises, Success, get_http_status_for_error, AppErrorCodes, TypeOK
  <2>2. rolledBack' \in [Reqs -> BOOLEAN]
    <3>1. rolledBack' = [rolledBack EXCEPT ![r] = FALSE]
      BY <1>10 DEF Exit, ExitRaises
    <3> QED
      BY <3>1, BooleanExcept DEF TypeOK
  <2>3. srv' \in [Reqs -> {"none", "open", "aborted", "committing"}]
        /\ staged' \in [Reqs -> SUBSET {"org", "member", "user"}]
    BY <1>10 DEF Exit, ExitRaises, txVars, TypeOK
  <2> QED
    BY <1>10, <2>1, <2>2, <2>3 DEF Exit, ExitRaises, dbVars, TypeOK
<1>11. ASSUME NEW r \in Reqs, LinkBreaks(r) \/ ServerDrops(r) PROVE TypeOK'
  BY <1>11 DEF LinkBreaks, ServerDrops, dbVars, txVars, TypeOK
<1>12. ASSUME NEW r \in Reqs, ServerCommits(r) PROVE TypeOK'
  <2>1. call[r] # NoCall
    BY <1>12 DEF ServerCommits, RequestInv, Consistent
  <2>2. call[r] \in Calls /\ call[r].id \in Ids
    BY <2>1, TransactionsAssumption DEF TypeOK
  <2> QED
    BY <1>12, <2>2 DEF ServerCommits, dbVars, txVars, TypeOK
<1> QED
  BY <1>1, <1>2, <1>3, <1>4, <1>5, <1>6, <1>7, <1>8, <1>9, <1>10, <1>11, <1>12
  DEF Next, Proceeds

---------------------------------------------------------------------------
\* A step is one request's, or the server's or the network's for it.
StepOf(r) ==
    \/ \E c \in Calls : Begin(r, c)
    \/ Proceeds(r) \/ LinkBreaks(r) \/ ServerCommits(r) \/ ServerDrops(r)

\* What stays the same for q.
Same(q) ==
    /\ call'[q] = call[q] /\ pc'[q] = pc[q] /\ exc'[q] = exc[q]
    /\ created'[q] = created[q] /\ reply'[q] = reply[q] /\ link'[q] = link[q]
    /\ srv'[q] = srv[q] /\ staged'[q] = staged[q]
    /\ q \in applied' <=> q \in applied

LEMMA OthersStay ==
    ASSUME TypeOK, NEW r \in Reqs, StepOf(r)
    PROVE  users \subseteq users' /\ \A q \in Reqs \ {r} : Same(q)
<1>1. ASSUME NEW c \in Calls, Begin(r, c) PROVE users' = users /\ \A q \in Reqs \ {r} : Same(q)
  BY <1>1 DEF Begin, dbVars, txVars, TypeOK, Same
<1>2. CASE Checkout(r) \/ CheckoutFails(r)
  BY <1>2 DEF Checkout, CheckoutFails, Raises, dbVars, txVars, TypeOK, Same
<1>3. CASE SelectUser(r) \/ StatementFails(r)
  BY <1>3 DEF SelectUser, StatementFails, Discovers, Raises, dbVars, txVars, TypeOK, Same
<1>4. CASE InsertOrg(r)
  BY <1>4 DEF InsertOrg, Aborts, Raises, dbVars, TypeOK, Same
<1>5. CASE InsertMember(r)
  BY <1>5 DEF InsertMember, Aborts, Raises, dbVars, TypeOK, Same
<1>6. CASE Upsert(r)
  BY <1>6 DEF Upsert, Aborts, Raises, dbVars, TypeOK, Same
<1>7. CASE SendCommit(r) \/ CommitReturns(r)
  BY <1>7 DEF SendCommit, CommitReturns, dbVars, txVars, TypeOK, Same
<1>8. CASE CommitFails(r)
  BY <1>8 DEF CommitFails, Discovers, Raises, dbVars, txVars, TypeOK, Same
<1>9. CASE Exit(r) \/ ExitRaises(r)
  BY <1>9 DEF Exit, ExitRaises, dbVars, txVars, TypeOK, Same
<1>10. CASE LinkBreaks(r) \/ ServerDrops(r)
  BY <1>10 DEF LinkBreaks, ServerDrops, dbVars, txVars, TypeOK, Same
<1>11. CASE ServerCommits(r)
  BY <1>11 DEF ServerCommits, dbVars, txVars, TypeOK, Same
<1> QED
  BY <1>1, <1>2, <1>3, <1>4, <1>5, <1>6, <1>7, <1>8, <1>9, <1>10, <1>11
  DEF StepOf, Proceeds

LEMMA SameConsistent ==
    ASSUME NEW q, Consistent(q), Same(q), users \subseteq users'
    PROVE  Consistent(q)'
  BY DEF Consistent, Same, Creates, Logins, Writes

LEMMA RequestInit == Init => RequestInv
  BY DEF Init, RequestInv, Consistent, Creates, Logins

\* A request's own step keeps its state together.
LEMMA OwnConsistent ==
    ASSUME TypeOK, RequestInv, LocksInv, NEW r \in Reqs, StepOf(r)
    PROVE  Consistent(r)'
<1>0. Consistent(r)
  BY DEF RequestInv
<1> USE DEF TypeOK
<1>1. ASSUME NEW c \in Calls, Begin(r, c) PROVE Consistent(r)'
  BY <1>0, <1>1, TransactionsAssumption DEF Begin, dbVars, txVars, Consistent, Creates, Logins, Writes
<1>2. CASE Checkout(r)
  <2>1. call[r] \in Calls /\ call[r].op \in {"create_org", "login"}
    BY <1>0, <1>2, TransactionsAssumption DEF Checkout, Consistent
  <2> QED
    BY <1>0, <1>2, <2>1 DEF Checkout, dbVars, txVars, Consistent, Creates, Logins, Writes
<1>3. CASE CheckoutFails(r)
  BY <1>0, <1>3, Translations DEF CheckoutFails, Raises, dbVars, txVars, Consistent, Creates, Logins, Writes
<1>4. CASE SelectUser(r)
  BY <1>0, <1>4 DEF SelectUser, Executes, dbVars, txVars, Consistent, Creates, Logins, Writes
<1>5. CASE StatementFails(r)
  BY <1>0, <1>5, Translations DEF StatementFails, Discovers, Raises, dbVars, txVars, Consistent,
     Creates, Logins, Writes
<1>6. CASE InsertOrg(r)
  BY <1>0, <1>6, Translations DEF InsertOrg, Executes, Aborts, Raises, dbVars, txVars, Consistent,
     Creates, Logins, Writes
<1>7. CASE InsertMember(r)
  <2>1. /\ Creates(r) /\ staged[r] = {"org"} /\ exc[r] = "none" /\ r \notin applied
        /\ reply[r] = 0 /\ ~ Logins(r) /\ ~ created[r] /\ call[r] # NoCall
    BY <1>0, <1>7 DEF InsertMember, Executes, Consistent, Creates, Logins
  <2>2. /\ call' = call /\ created' = created /\ reply' = reply /\ link' = link
        /\ users' = users /\ applied' = applied
        /\ \/ pc'[r] = "commit" /\ exc'[r] = "none" /\ srv'[r] = "open"
              /\ staged'[r] = {"org", "member"}
           \/ pc'[r] = "exit" /\ exc'[r] = "validation_error" /\ srv'[r] = "aborted"
              /\ staged'[r] = {}
    BY <1>0, <1>7, <2>1, Translations DEF InsertMember, Executes, Aborts, Raises, dbVars
  <2> QED
    BY <2>1, <2>2 DEF Consistent, Creates, Logins, Writes
<1>8. CASE Upsert(r)
  <2>1. /\ Logins(r) /\ staged[r] = {} /\ exc[r] = "none" /\ r \notin applied
        /\ reply[r] = 0 /\ ~ Creates(r) /\ call[r] # NoCall
    BY <1>0, <1>8 DEF Upsert, Executes, Consistent, Creates, Logins
  <2>2. /\ call' = call /\ reply' = reply /\ link' = link
        /\ users' = users /\ applied' = applied
        /\ \/ pc'[r] = "commit" /\ exc'[r] = "none" /\ srv'[r] = "open" /\ staged'[r] = {"user"}
           \/ pc'[r] = "exit" /\ exc'[r] = "internal_error" /\ srv'[r] = "aborted"
              /\ staged'[r] = {}
    BY <1>0, <1>8, <2>1, Translations DEF Upsert, Executes, Aborts, Raises, dbVars
  <2>3. Writes(r)' = {"user"} /\ Logins(r)'
    BY <2>1, <2>2 DEF Creates, Logins, Writes
  <2> QED
    BY <2>1, <2>2, <2>3 DEF Consistent
<1>9. CASE SendCommit(r)
  BY <1>0, <1>9 DEF SendCommit, Executes, dbVars, Consistent, Creates, Logins, Writes
<1>15. CASE CommitReturns(r)
  BY <1>0, <1>15 DEF CommitReturns, dbVars, txVars, Consistent, Creates, Logins, Writes
<1>10. CASE CommitFails(r)
  BY <1>0, <1>10, Translations DEF CommitFails, Discovers, Raises, dbVars, txVars, Consistent,
     Creates, Logins, Writes
<1>11. CASE Exit(r)
  <2>1. exc[r] # "none" => get_http_status_for_error(exc[r]) \in {404, 409, 422, 500, 503}
    BY DEF get_http_status_for_error, AppErrorCodes
  <2>2. /\ reply'[r] # 0
        /\ reply'[r] \in {200, 201} => exc[r] = "none"
        /\ (reply'[r] = 201 /\ Logins(r)) => created[r]
    BY <1>0, <1>11, <2>1 DEF Exit, Success, Logins
  <2>3. /\ call' = call /\ exc' = exc /\ created' = created /\ users' = users
        /\ applied' = applied /\ pc[r] = "exit" /\ pc'[r] = "answered" /\ link'[r] = "none"
        /\ \/ srv'[r] = "none" /\ staged'[r] = {}
           \/ srv'[r] = srv[r] /\ staged'[r] = staged[r]
    BY <1>0, <1>11 DEF Exit, dbVars, txVars
  <2>4. Writes(r)' = Writes(r) /\ (Creates(r)' <=> Creates(r)) /\ (Logins(r)' <=> Logins(r))
    BY <2>3 DEF Creates, Logins, Writes
  <2> QED
    BY <1>0, <2>2, <2>3, <2>4 DEF Consistent
<1>12. CASE ExitRaises(r)
  BY <1>0, <1>12 DEF ExitRaises, NeedsRollback, dbVars, txVars, Consistent, Creates, Logins, Writes
<1>13. CASE LinkBreaks(r)
  BY <1>0, <1>13 DEF LinkBreaks, dbVars, txVars, Consistent, Creates, Logins, Writes
<1>16. CASE ServerDrops(r)
  BY <1>0, <1>16 DEF ServerDrops, dbVars, Consistent, Creates, Logins, Writes
<1>14. CASE ServerCommits(r)
  BY <1>0, <1>14 DEF ServerCommits, dbVars, txVars, Consistent, Creates, Logins, Writes
<1> QED
  BY <1>1, <1>2, <1>3, <1>4, <1>5, <1>6, <1>7, <1>8, <1>9, <1>10, <1>11, <1>12, <1>13, <1>14,
     <1>15, <1>16
  DEF StepOf, Proceeds

LEMMA StepIsSomebodys == [Next]_vars => UNCHANGED vars \/ \E r \in Reqs : StepOf(r)
  BY DEF Next, StepOf

LEMMA RequestNext == TypeOK /\ RequestInv /\ LocksInv /\ [Next]_vars => RequestInv'
<1> SUFFICES ASSUME TypeOK, RequestInv, LocksInv, [Next]_vars PROVE RequestInv'
  OBVIOUS
<1>1. CASE UNCHANGED vars
  BY <1>1 DEF vars, dbVars, txVars, RequestInv, Consistent, Creates, Logins, Writes
<1>2. ASSUME NEW r \in Reqs, StepOf(r) PROVE RequestInv'
  <2>1. Consistent(r)'
    BY <1>2, OwnConsistent
  <2>2. ASSUME NEW q \in Reqs \ {r} PROVE Consistent(q)'
    BY <1>2, <2>2, OthersStay, SameConsistent DEF RequestInv
  <2> QED
    BY <2>1, <2>2 DEF RequestInv
<1> QED
  BY <1>1, <1>2, StepIsSomebodys

---------------------------------------------------------------------------
\* The rows change when the server commits, and nothing that belongs to a
\* request that took effect changes any more.
LEMMA RowsStay ==
    ASSUME TypeOK, RequestInv, NEW r \in Reqs, StepOf(r), ~ ServerCommits(r)
    PROVE  /\ users' = users /\ orgs' = orgs /\ members' = members /\ applied' = applied
           /\ \A q \in applied : call'[q] = call[q] /\ created'[q] = created[q]
<1>0. Consistent(r)
  BY DEF RequestInv
<1>1. users' = users /\ orgs' = orgs /\ members' = members /\ applied' = applied
  BY DEF StepOf, Begin, Proceeds, Checkout, CheckoutFails, SelectUser, StatementFails,
     InsertOrg, InsertMember, Upsert, SendCommit, CommitReturns, CommitFails, Exit,
     ExitRaises, LinkBreaks, ServerDrops, dbVars
<1>2. ASSUME NEW q \in applied, q # r PROVE call'[q] = call[q] /\ created'[q] = created[q]
  BY <1>2, OthersStay DEF Same, TypeOK
<1>3. ASSUME r \in applied PROVE call'[r] = call[r] /\ created'[r] = created[r]
  <2>1. pc[r] \in {"commit_sent", "exit", "answered"}
    BY <1>0, <1>3 DEF Consistent
  <2> QED
    BY <2>1 DEF StepOf, Begin, Proceeds, Checkout, CheckoutFails, SelectUser, StatementFails,
       InsertOrg, InsertMember, Upsert, SendCommit, CommitReturns, CommitFails, Exit,
       ExitRaises, LinkBreaks, ServerDrops, Executes
<1> QED
  BY <1>1, <1>2, <1>3

\* What a COMMIT makes of the rows.
LEMMA CommitFacts ==
    ASSUME TypeOK, RequestInv, RowsInv, LocksInv, NEW r \in Reqs, ServerCommits(r)
    PROVE  /\ call[r] \in Calls /\ call[r].id \in Ids
           /\ r \notin applied /\ applied' = applied \cup {r}
           /\ call' = call /\ created' = created
           /\ staged' = [staged EXCEPT ![r] = {}]
           /\ \/ /\ Creates(r) /\ ~ Logins(r) /\ staged[r] = {"org", "member"}
                 /\ orgs' = orgs \cup {r} /\ members' = members \cup {<<r, call[r].id>>}
                 /\ users' = users
              \/ /\ Logins(r) /\ ~ Creates(r) /\ staged[r] = {"user"}
                 /\ orgs' = orgs /\ members' = members
                 /\ users' = users \cup {call[r].id}
<1>0. Consistent(r)
  BY DEF RequestInv
<1>1. srv[r] = "committing" /\ staged[r] = Writes(r)
  BY <1>0 DEF ServerCommits, Consistent
<1>2. call[r] # NoCall /\ r \notin applied
  BY <1>0, <1>1 DEF Consistent
<1>3. call[r] \in Calls /\ call[r].id \in Ids /\ call[r].op \in {"create_org", "login"}
  BY <1>2, TransactionsAssumption DEF TypeOK
<1>4. (Creates(r) /\ ~ Logins(r)) \/ (Logins(r) /\ ~ Creates(r))
  BY <1>2, <1>3 DEF Creates, Logins
<1>5. CASE Creates(r)
  BY <1>1, <1>2, <1>3, <1>4, <1>5 DEF ServerCommits, Writes
<1>6. CASE ~ Creates(r)
  BY <1>1, <1>2, <1>3, <1>4, <1>6 DEF ServerCommits, Writes
<1> QED
  BY <1>5, <1>6

LEMMA RowsNext == TypeOK /\ RequestInv /\ RowsInv /\ LocksInv /\ [Next]_vars => RowsInv'
<1> SUFFICES ASSUME TypeOK, RequestInv, RowsInv, LocksInv, [Next]_vars PROVE RowsInv'
  OBVIOUS
<1>0. applied \subseteq Reqs /\ orgs \subseteq applied
  BY DEF TypeOK, RowsInv
<1>1. CASE UNCHANGED vars
  BY <1>1 DEF vars, dbVars, txVars, RowsInv, Creates
<1>2. ASSUME NEW r \in Reqs, StepOf(r), ~ ServerCommits(r) PROVE RowsInv'
  <2>1. /\ users' = users /\ orgs' = orgs /\ members' = members /\ applied' = applied
        /\ \A q \in applied : call'[q] = call[q] /\ created'[q] = created[q]
    BY <1>2, RowsStay
  <2>2. {q \in applied : Creates(q)} = {q \in applied : Creates(q)'}
    BY <2>1 DEF Creates
  <2>3. {<<q, call[q].id>> : q \in orgs} = {<<q, call'[q].id>> : q \in orgs}
    BY <1>0, <2>1
  <2> QED
    BY <1>0, <2>1, <2>2, <2>3 DEF RowsInv
<1>3. ASSUME NEW r \in Reqs, ServerCommits(r) PROVE RowsInv'
  <2>1. /\ r \notin applied /\ applied' = applied \cup {r} /\ call' = call /\ created' = created
    BY <1>3, CommitFacts
  <2>2. CASE Creates(r)
    <3>1. /\ ~ Logins(r) /\ staged[r] = {"org", "member"}
          /\ orgs' = orgs \cup {r} /\ members' = members \cup {<<r, call[r].id>>}
          /\ users' = users
      BY <1>3, <2>2, CommitFacts
    <3>2. call[r].id \in users /\ ~ NameTaken(call[r].name)
      BY <3>1 DEF LocksInv
    <3>3. orgs' = {q \in applied' : Creates(q)'}
      BY <2>1, <2>2, <3>1 DEF RowsInv, Creates
    <3>4. members' = {<<q, call'[q].id>> : q \in orgs'}
      BY <2>1, <3>1 DEF RowsInv
    <3>5. ~ created[r]
      BY <3>1 DEF RequestInv, Consistent
    <3>6. \A q \in applied' : call'[q].id \in users'
      BY <2>1, <3>1, <3>2 DEF RowsInv
    <3>7. \A q, p \in orgs' : call'[q].name = call'[p].name => q = p
      BY <2>1, <3>1, <3>2 DEF RowsInv, NameTaken
    <3>8. \A q, p \in applied' :
             (created'[q] /\ created'[p] /\ call'[q].id = call'[p].id) => q = p
      BY <2>1, <3>5 DEF RowsInv
    <3> QED
      BY <3>3, <3>4, <3>6, <3>7, <3>8 DEF RowsInv
  <2>3. CASE ~ Creates(r)
    <3>1. /\ Logins(r) /\ staged[r] = {"user"} /\ orgs' = orgs /\ members' = members
          /\ users' = users \cup {call[r].id}
      BY <1>3, <2>3, CommitFacts
    <3>2. created[r] <=> call[r].id \notin users
      BY <3>1 DEF LocksInv
    <3>3. orgs' = {q \in applied' : Creates(q)'}
      BY <2>1, <2>3, <3>1 DEF RowsInv, Creates
    <3>4. members' = {<<q, call'[q].id>> : q \in orgs'}
      BY <2>1, <3>1 DEF RowsInv
    <3>6. \A q \in applied' : call'[q].id \in users'
      BY <2>1, <3>1 DEF RowsInv
    <3>7. \A q, p \in orgs' : call'[q].name = call'[p].name => q = p
      BY <2>1, <3>1 DEF RowsInv
    <3>8. \A q, p \in applied' :
             (created'[q] /\ created'[p] /\ call'[q].id = call'[p].id) => q = p
      BY <2>1, <3>2 DEF RowsInv
    <3> QED
      BY <3>3, <3>4, <3>6, <3>7, <3>8 DEF RowsInv
  <2> QED
    BY <2>2, <2>3
<1> QED
  BY <1>1, <1>2, <1>3, StepIsSomebodys

---------------------------------------------------------------------------
\* The locks.

\* A step that writes no key and commits nothing.
LEMMA NoNewKeys ==
    ASSUME LocksInv, users' = users, orgs' = orgs,
           \A q \in Reqs : \A key \in {"org", "user"} :
               key \in staged'[q] =>
                   key \in staged[q] /\ call'[q] = call[q] /\ created'[q] = created[q],
           orgs \subseteq Reqs,
           \A o \in orgs : call'[o] = call[o]
    PROVE  LocksInv'
<1>1. \A n : NameTaken(n)' <=> NameTaken(n)
  BY DEF NameTaken
<1> QED
  BY <1>1 DEF LocksInv

LEMMA LocksNext == TypeOK /\ RequestInv /\ RowsInv /\ LocksInv /\ [Next]_vars => LocksInv'
<1> SUFFICES ASSUME TypeOK, RequestInv, RowsInv, LocksInv, [Next]_vars PROVE LocksInv'
  OBVIOUS
<1>0. applied \subseteq Reqs /\ orgs \subseteq applied /\ orgs \subseteq Reqs
  BY DEF TypeOK, RowsInv
<1>1. CASE UNCHANGED vars
  BY <1>0, <1>1, NoNewKeys DEF vars, dbVars, txVars
<1>2. ASSUME NEW r \in Reqs, StepOf(r), ~ ServerCommits(r),
             \A key \in {"org", "user"} :
                 key \in staged'[r] =>
                     key \in staged[r] /\ call'[r] = call[r] /\ created'[r] = created[r]
      PROVE  LocksInv'
  <2>1. users' = users /\ orgs' = orgs /\ \A o \in orgs : call'[o] = call[o]
    BY <1>0, <1>2, RowsStay
  <2>2. \A q \in Reqs \ {r} : Same(q)
    BY <1>2, OthersStay
  <2>3. ASSUME NEW q \in Reqs, NEW key \in {"org", "user"}, key \in staged'[q]
        PROVE  key \in staged[q] /\ call'[q] = call[q] /\ created'[q] = created[q]
    BY <1>2, <2>2, <2>3 DEF Same
  <2> QED
    BY <1>0, <2>1, <2>3, NoNewKeys
<1>3. ASSUME NEW r \in Reqs, InsertOrg(r) PROVE LocksInv'
  <2>1. StepOf(r) /\ ~ ServerCommits(r)
    BY <1>3 DEF InsertOrg, Executes, ServerCommits, StepOf, Proceeds
  <2>2. CASE staged'[r] = {}
    BY <1>2, <2>1, <2>2
  <2>3. CASE /\ ~ NameLocked(r)
             /\ call[r].name \notin RejectedNames /\ ~ NameTaken(call[r].name)
             /\ staged' = [staged EXCEPT ![r] = @ \cup {"org"}]
    <3>1. call[r].id \in users /\ staged[r] = {}
      BY <1>3 DEF InsertOrg, Executes, RequestInv, Consistent
    <3>2. call' = call /\ created' = created /\ users' = users /\ orgs' = orgs
      BY <1>3 DEF InsertOrg, dbVars
    <3>3. \A n : NameTaken(n)' <=> NameTaken(n)
      BY <3>2 DEF NameTaken
    <3>4. \A q \in Reqs \ {r} : staged'[q] = staged[q]
                /\ ("org" \in staged[q] => call[q].name # call[r].name)
      BY <2>3 DEF NameLocked, TypeOK
    <3>5. staged'[r] = {"org"}
      BY <2>3, <3>1 DEF TypeOK
    <3> QED
      BY <2>3, <3>1, <3>2, <3>3, <3>4, <3>5 DEF LocksInv
  <2> QED
    BY <1>3, <2>2, <2>3 DEF InsertOrg, Aborts, TypeOK
<1>4. ASSUME NEW r \in Reqs, Upsert(r) PROVE LocksInv'
  <2>1. StepOf(r) /\ ~ ServerCommits(r)
    BY <1>4 DEF Upsert, Executes, ServerCommits, StepOf, Proceeds
  <2>2. CASE staged'[r] = {}
    BY <1>2, <2>1, <2>2
  <2>3. CASE /\ ~ UserLocked(r)
             /\ staged' = [staged EXCEPT ![r] = @ \cup {"user"}]
             /\ created' = [created EXCEPT ![r] = call[r].id \notin users]
    <3>1. staged[r] = {}
      BY <1>4 DEF Upsert, Executes, RequestInv, Consistent
    <3>2. call' = call /\ users' = users /\ orgs' = orgs
      BY <1>4 DEF Upsert, dbVars
    <3>3. \A n : NameTaken(n)' <=> NameTaken(n)
      BY <3>2 DEF NameTaken
    <3>4. \A q \in Reqs \ {r} : staged'[q] = staged[q] /\ created'[q] = created[q]
      BY <2>3 DEF TypeOK
    <3>7. \A q \in Reqs \ {r} : "user" \in staged[q] => call[q].id # call[r].id
      BY <2>3 DEF UserLocked
    <3>5. staged'[r] = {"user"}
      BY <2>3, <3>1 DEF TypeOK
    <3>6. created'[r] <=> call[r].id \notin users
      BY <2>3, MembershipExcept DEF TypeOK
    <3> QED
      BY <3>1, <3>2, <3>3, <3>4, <3>5, <3>6, <3>7 DEF LocksInv
  <2> QED
    BY <1>4, <2>2, <2>3 DEF Upsert, Aborts, TypeOK
<1>5. ASSUME NEW r \in Reqs, ServerCommits(r) PROVE LocksInv'
  <2>1. /\ call' = call /\ created' = created /\ staged' = [staged EXCEPT ![r] = {}]
        /\ \/ "org" \in staged[r] /\ orgs' = orgs \cup {r} /\ users' = users
           \/ "user" \in staged[r] /\ orgs' = orgs /\ users' = users \cup {call[r].id}
    BY <1>5, CommitFacts
  <2>2. staged'[r] = {} /\ \A q \in Reqs \ {r} : staged'[q] = staged[q]
    BY <2>1 DEF TypeOK
  <2>3. CASE "org" \in staged[r] /\ orgs' = orgs \cup {r} /\ users' = users
    <3>1. \A n : NameTaken(n)' <=> NameTaken(n) \/ call[r].name = n
      BY <2>1, <2>3 DEF NameTaken
    <3> QED
      BY <2>1, <2>2, <2>3, <3>1 DEF LocksInv
  <2>4. CASE "user" \in staged[r] /\ orgs' = orgs /\ users' = users \cup {call[r].id}
    <3>1. \A n : NameTaken(n)' <=> NameTaken(n)
      BY <2>1, <2>4 DEF NameTaken
    <3> QED
      BY <2>1, <2>2, <2>4, <3>1 DEF LocksInv
  <2> QED
    BY <2>1, <2>3, <2>4
<1>6. ASSUME NEW r \in Reqs, StepOf(r), ~ InsertOrg(r), ~ Upsert(r), ~ ServerCommits(r)
      PROVE  LocksInv'
  <2>0. Consistent(r)
    BY DEF RequestInv
  <2>1. ASSUME NEW c \in Calls, Begin(r, c) PROVE staged'[r] = {}
    BY <2>0, <2>1 DEF Begin, txVars, Consistent
  <2>2. ASSUME ~ \E c \in Calls : Begin(r, c)
        PROVE  /\ call' = call /\ created' = created
               /\ \A key \in {"org", "user"} : key \in staged'[r] => key \in staged[r]
    BY <1>6, <2>2 DEF StepOf, Proceeds, Checkout, CheckoutFails, SelectUser, StatementFails,
       InsertMember, Aborts, SendCommit, CommitReturns, CommitFails, Exit,
       ExitRaises, LinkBreaks, ServerDrops, txVars, TypeOK
  <2> QED
    BY <1>2, <1>6, <2>1, <2>2
<1> QED
  BY <1>1, <1>3, <1>4, <1>5, <1>6, StepIsSomebodys

---------------------------------------------------------------------------
\* The inductive invariant, and what it implies.

IInv == TypeOK /\ RequestInv /\ RowsInv /\ LocksInv

LEMMA InitIInv == Init => IInv
<1> SUFFICES ASSUME Init PROVE IInv
  OBVIOUS
<1>1. RowsInv
  BY DEF Init, RowsInv, Creates
<1>2. LocksInv
  BY DEF Init, LocksInv
<1> QED
  BY <1>1, <1>2, TypeInit, RequestInit DEF IInv

LEMMA NextIInv == IInv /\ [Next]_vars => IInv'
  BY TypeNext, RequestNext, RowsNext, LocksNext DEF IInv

LEMMA Inductive == Spec => []IInv
  BY InitIInv, NextIInv, PTL DEF Spec

\* Type correctness, of the executor's runs and the server's rows.
THEOREM TransactionsTypeCorrect == Spec => []TypeOK
<1>1. IInv => TypeOK
  BY DEF IInv
<1> QED
  BY <1>1, Inductive, PTL

\* Program counter, transaction, effect and answer of each request agree:
\* nobody is told of a success that did not commit, and no refused request
\* can still commit (TransactionExecutor.run).
THEOREM RequestSafe == Spec => []RequestInv
<1>1. IInv => RequestInv
  BY DEF IInv
<1> QED
  BY <1>1, Inductive, PTL

\* The rows are those of the requests that took effect (repos.py).
THEOREM RowsSafe == Spec => []RowsInv
<1>1. IInv => RowsInv
  BY DEF IInv
<1> QED
  BY <1>1, Inductive, PTL

\* What is staged and not yet committed collides neither with the rows nor
\* with anything else that is staged, however many requests overlap (the
\* unique keys of organizations and users).
THEOREM LocksSafe == Spec => []LocksInv
<1>1. IInv => LocksInv
  BY DEF IInv
<1> QED
  BY <1>1, Inductive, PTL

\* Every committed organization has exactly its creator as member, and no two
\* share a canonical name (create_organization_cmd).
THEOREM OrgSafe == Spec => []OrgInv
<1>1. IInv => OrgInv
  <2> SUFFICES ASSUME IInv PROVE OrgInv
    OBVIOUS
  <2>1. members = {<<q, call[q].id>> : q \in orgs} /\ orgs \subseteq applied
    BY DEF IInv, RowsInv
  <2>2. ASSUME NEW o \in orgs PROVE {m \in members : m[1] = o} = {<<o, call[o].id>>}
    BY <2>1, <2>2
  <2>3. \A o \in orgs : call[o].id \in users
    BY <2>1 DEF IInv, RowsInv
  <2>4. \A m \in members : m[1] \in orgs
    BY <2>1
  <2>5. \A o, p \in orgs : call[o].name = call[p].name => o = p
    BY DEF IInv, RowsInv
  <2> QED
    BY <2>2, <2>3, <2>4, <2>5 DEF OrgInv
<1> QED
  BY <1>1, Inductive, PTL

\* At most one login of an identity is told that it was the first
\* (provision_user_from_claims).
THEOREM FirstLoginSafe == Spec => []FirstLoginOnce
<1>1. IInv => FirstLoginOnce
  <2> SUFFICES ASSUME IInv, NEW r \in Reqs, NEW q \in Reqs, Logins(r), Logins(q),
                      call[r].id = call[q].id, reply[r] = 201, reply[q] = 201
               PROVE  r = q
    BY DEF FirstLoginOnce
  <2>1. ASSUME NEW p \in Reqs, Logins(p), reply[p] = 201 PROVE p \in applied /\ created[p]
    BY <2>1 DEF IInv, RequestInv, Consistent
  <2> QED
    BY <2>1 DEF IInv, RowsInv
<1> QED
  BY <1>1, Inductive, PTL

\* A request that has been answered holds no connection, and there are never
\* more in use than the pool has (__aexit__ closes the session).
THEOREM ConnectionsSafe == Spec => []ConnectionsReturned
<1> DEFINE Pool == IsFiniteSet(InUse) /\ ConnectionsReturned
<1>1. Init => Pool
  <2> SUFFICES ASSUME Init PROVE Pool
    OBVIOUS
  <2>1. InUse = {}
    BY DEF Init, InUse
  <2> QED
    BY <2>1, FS_EmptySet, TransactionsAssumption DEF Init, ConnectionsReturned
<1>2. TypeOK /\ Pool /\ [Next]_vars => Pool'
  <2> SUFFICES ASSUME TypeOK, Pool, [Next]_vars PROVE Pool'
    OBVIOUS
  <2>1. CASE UNCHANGED vars
    BY <2>1 DEF vars, InUse, ConnectionsReturned
  <2>2. ASSUME NEW r \in Reqs, Checkout(r) PROVE Pool'
    <3>1. InUse' = InUse \cup {r} /\ r \notin InUse
      BY <2>2 DEF Checkout, InUse, TypeOK, ConnectionsReturned
    <3>2. IsFiniteSet(InUse') /\ Cardinality(InUse') = Cardinality(InUse) + 1
      BY <3>1, FS_AddElement
    <3>3. Cardinality(InUse) \in Nat
      BY FS_CardinalityType
    <3>4. Cardinality(InUse') <= PoolSize
      BY <2>2, <3>2, <3>3, TransactionsAssumption DEF Checkout
    <3>5. \A q \in Reqs : pc'[q] \in {"idle", "checkout", "answered"} => link'[q] = "none"
      BY <2>2 DEF Checkout, TypeOK, ConnectionsReturned
    <3> QED
      BY <3>2, <3>4, <3>5 DEF ConnectionsReturned
  <2>3. ASSUME NEW r \in Reqs, StepOf(r), ~ Checkout(r) PROVE Pool'
    <3>1. link'[r] # "none" => link[r] # "none"
      BY <2>3 DEF StepOf, Begin, Proceeds, CheckoutFails, SelectUser, StatementFails,
         InsertOrg, InsertMember, Upsert, SendCommit, CommitReturns, CommitFails, Discovers,
         Exit, ExitRaises, LinkBreaks, ServerCommits, ServerDrops, TypeOK
    <3>2. \A q \in Reqs \ {r} : link'[q] = link[q] /\ pc'[q] = pc[q]
      BY <2>3, OthersStay DEF Same
    <3>3. InUse' \subseteq InUse
      BY <3>1, <3>2 DEF InUse
    <3>4. IsFiniteSet(InUse') /\ Cardinality(InUse') <= Cardinality(InUse)
      BY <3>3, FS_Subset
    <3>5. Cardinality(InUse) \in Nat /\ Cardinality(InUse') \in Nat
      BY <3>4, FS_CardinalityType
    <3>6. Cardinality(InUse') <= PoolSize
      BY <3>4, <3>5, TransactionsAssumption DEF ConnectionsReturned
    <3>7. pc'[r] \in {"idle", "checkout", "answered"} => link'[r] = "none"
      BY <2>3 DEF StepOf, Begin, Proceeds, CheckoutFails, SelectUser, StatementFails,
         InsertOrg, InsertMember, Upsert, SendCommit, CommitReturns, CommitFails, Discovers,
         Raises, Executes, Exit, ExitRaises, LinkBreaks, ServerCommits, ServerDrops, TypeOK,
         ConnectionsReturned
    <3> QED
      BY <3>2, <3>4, <3>6, <3>7 DEF ConnectionsReturned
  <2> QED
    BY <2>1, <2>2, <2>3, StepIsSomebodys
<1>3. Pool => ConnectionsReturned
  OBVIOUS
<1> QED
  BY <1>1, <1>2, <1>3, TransactionsTypeCorrect, PTL DEF Spec

\* Whoever wrote a row that others may need waits for nobody: no cycle of
\* waiting transactions, however many requests there are (the use cases take
\* their one contended lock last, uow.py commits or rolls back).
THEOREM HoldersSafe == Spec => []HoldersProceed
<1>1. Init => HoldersProceed
  BY DEF Init, HoldersProceed
<1>2. TypeOK /\ RequestInv /\ HoldersProceed /\ [Next]_vars => HoldersProceed'
  <2> SUFFICES ASSUME TypeOK, RequestInv, HoldersProceed, [Next]_vars PROVE HoldersProceed'
    OBVIOUS
  <2> DEFINE Free(r) == staged[r] = {} \/ pc[r] \in {"insert_member", "commit"}
                        \/ srv[r] = "committing" \/ link[r] # "up"
  <2>1. CASE UNCHANGED vars
    BY <2>1 DEF vars, txVars, HoldersProceed
  <2>2. ASSUME NEW r \in Reqs, StepOf(r) PROVE HoldersProceed'
    <3>1. \A q \in Reqs \ {r} : Free(q)'
      BY <2>2, OthersStay DEF Same, HoldersProceed
    <3> SUFFICES Free(r)'
      BY <3>1 DEF HoldersProceed
    <3>2. Consistent(r) /\ Free(r)
      BY DEF RequestInv, HoldersProceed
    <3>3. CASE \/ \E c \in Calls : Begin(r, c)
               \/ Checkout(r) \/ CheckoutFails(r) \/ SelectUser(r) \/ CommitReturns(r)
      <4>1. staged[r] = {} /\ staged' = staged
        BY <3>2, <3>3 DEF Begin, Checkout, CheckoutFails, SelectUser, CommitReturns, Executes,
           Consistent, txVars
      <4> QED
        BY <4>1
    <3>4. CASE InsertOrg(r) \/ InsertMember(r) \/ Upsert(r) \/ SendCommit(r)
      BY <3>4 DEF InsertOrg, InsertMember, Upsert, SendCommit, Aborts, TypeOK
    <3>5. CASE \/ StatementFails(r) \/ CommitFails(r) \/ Exit(r) \/ ExitRaises(r)
               \/ LinkBreaks(r)
      <4>1. link'[r] # "up"
        BY <3>5 DEF StatementFails, CommitFails, Discovers, Exit, ExitRaises, LinkBreaks, TypeOK
      <4> QED
        BY <4>1
    <3>6. CASE ServerCommits(r) \/ ServerDrops(r)
      BY <3>6 DEF ServerCommits, ServerDrops, TypeOK
    <3> QED
      BY <2>2, <3>3, <3>4, <3>5, <3>6 DEF StepOf, Proceeds
  <2> QED
    BY <2>1, <2>2, StepIsSomebodys
<1> QED
  BY <1>1, <1>2, TransactionsTypeCorrect, RequestSafe, PTL DEF Spec

---------------------------------------------------------------------------
\* Transactions implements PetService.

Firsts   == {r \in applied : created[r]}
Verdicts == [r \in Reqs |-> Verdict(r)]

serviceVars == <<call, users, applied, Firsts, Verdicts, reply>>

LEMMA ServiceInit == Init => Service!Init
<1> SUFFICES ASSUME Init PROVE Service!Init
  OBVIOUS
<1>1. \A r \in Reqs : Verdict(r) = "open"
  BY DEF Init, Verdict
<1> QED
  BY <1>1 DEF Init, Service!Init

\* The abstract organizations are the committed ones.
LEMMA ServiceOrgs ==
    ASSUME IInv
    PROVE  /\ \A r : Service!Creates(r) <=> Creates(r)
           /\ \A r : Service!Logins(r) <=> Logins(r)
           /\ \A n : Service!NameTaken(n) <=> NameTaken(n)
<1>1. /\ \A r : Service!Creates(r) <=> Creates(r)
      /\ \A r : Service!Logins(r) <=> Logins(r)
  BY DEF Service!Creates, Service!Logins, Creates, Logins
<1>2. Service!orgs = orgs
  BY <1>1 DEF Service!orgs, IInv, RowsInv
<1> QED
  BY <1>1, <1>2 DEF Service!NameTaken, NameTaken

\* What a step other than a COMMIT shows of the requests that took effect.
LEMMA FirstsStay ==
    ASSUME IInv, NEW r \in Reqs, StepOf(r), ~ ServerCommits(r)
    PROVE  users' = users /\ applied' = applied /\ Firsts' = Firsts
  BY RowsStay DEF IInv, Firsts

\* The verdicts of the others stand, and r's too if its error does.
LEMMA VerdictsStay ==
    ASSUME IInv, NEW r \in Reqs, StepOf(r)
    PROVE  /\ Verdicts' = [Verdicts EXCEPT ![r] = Verdict(r)']
           /\ exc'[r] = exc[r] => Verdicts' = Verdicts
<1>1. \A q \in Reqs \ {r} : Verdict(q)' = Verdict(q)
  BY OthersStay DEF IInv, Same, Verdict
<1>2. exc'[r] = exc[r] => Verdict(r)' = Verdict(r)
  BY DEF Verdict
<1> QED
  BY <1>1, <1>2 DEF Verdicts

\* A COMMIT the server executes is the moment the request takes effect.
LEMMA CommitIsEffect ==
    ASSUME IInv, NEW r \in Reqs, ServerCommits(r)
    PROVE  Service!CreateOrg(r) \/ Service!Login(r)
<1> TypeOK /\ RequestInv /\ RowsInv /\ LocksInv
  BY DEF IInv
<1>0. Consistent(r) /\ srv[r] = "committing"
  BY DEF RequestInv, ServerCommits
<1>1. /\ r \notin applied /\ applied' = applied \cup {r} /\ call' = call /\ created' = created
      /\ exc' = exc /\ reply' = reply
  BY CommitFacts DEF ServerCommits
<1>2. Verdicts' = Verdicts /\ Verdicts[r] = "open"
  <2>1. StepOf(r)
    BY DEF StepOf
  <2>2. Verdict(r) = "open"
    BY <1>0 DEF Consistent, Verdict
  <2> QED
    BY <1>1, <2>1, <2>2, VerdictsStay DEF Verdicts
<1>3. CASE Creates(r)
  <2>1. /\ ~ Logins(r) /\ staged[r] = {"org", "member"} /\ users' = users
    BY <1>3, CommitFacts
  <2>2. /\ call[r].id \in users /\ call[r].name \notin RejectedNames
        /\ ~ NameTaken(call[r].name)
    BY <2>1 DEF LocksInv
  <2>3. ~ created[r]
    BY <1>0, <2>1 DEF Consistent
  <2>4. Firsts' = Firsts
    BY <1>1, <2>3 DEF Firsts
  <2> QED
    BY <1>1, <1>2, <1>3, <2>1, <2>2, <2>4, ServiceOrgs
    DEF Service!CreateOrg, Firsts, Verdicts
<1>4. CASE ~ Creates(r)
  <2>1. Logins(r) /\ staged[r] = {"user"} /\ users' = users \cup {call[r].id}
    BY <1>4, CommitFacts
  <2>2. created[r] <=> call[r].id \notin users
    BY <2>1 DEF LocksInv
  <2>3. Firsts' = IF call[r].id \in users THEN Firsts ELSE Firsts \cup {r}
    BY <1>1, <2>2 DEF Firsts
  <2> QED
    BY <1>1, <1>2, <2>1, <2>3, ServiceOrgs DEF Service!Login, Firsts, Verdicts
<1> QED
  BY <1>3, <1>4

\* A use case that raises, or a statement that violates a constraint, refuses
\* the request, or says nothing about it.
LEMMA StatementIsRefusal ==
    ASSUME IInv, NEW r \in Reqs,
           SelectUser(r) \/ InsertOrg(r) \/ InsertMember(r) \/ Upsert(r)
    PROVE  Service!Refuse(r) \/ UNCHANGED serviceVars
<1> TypeOK /\ RequestInv /\ RowsInv /\ LocksInv
  BY DEF IInv
<1>0. Consistent(r)
  BY DEF RequestInv
<1>1. StepOf(r) /\ ~ ServerCommits(r)
  BY DEF StepOf, Proceeds, SelectUser, InsertOrg, InsertMember, Upsert, Executes, ServerCommits
<1>2. users' = users /\ applied' = applied /\ Firsts' = Firsts
  BY <1>1, FirstsStay
<1>3. call' = call /\ reply' = reply
  BY DEF SelectUser, InsertOrg, InsertMember, Upsert
<1>4. exc[r] = "none" /\ r \notin applied /\ reply[r] = 0
  BY <1>0 DEF SelectUser, InsertOrg, InsertMember, Upsert, Executes, Consistent
<1>5. Verdict(r) = "open" /\ Verdicts[r] = "open"
  BY <1>4 DEF Verdict, Verdicts
<1>6. CASE exc'[r] = exc[r]
  BY <1>1, <1>2, <1>3, <1>6, VerdictsStay DEF serviceVars
<1>7. ASSUME Creates(r), exc'[r] # exc[r],
             \/ exc'[r] = "not_found" /\ call[r].id \notin users
             \/ exc'[r] = "organization_name_taken" /\ NameTaken(call[r].name)
             \/ exc'[r] = "validation_error" /\ call[r].name \in RejectedNames
      PROVE  Service!Refuse(r)
  <2>1. \/ Verdict(r)' = "unknown" /\ call[r].id \notin users
        \/ Verdict(r)' = "taken" /\ NameTaken(call[r].name)
        \/ Verdict(r)' = "rejected" /\ call[r].name \in RejectedNames
    BY <1>7 DEF Verdict
  <2> QED
    BY <1>1, <1>2, <1>3, <1>4, <1>5, <1>7, <2>1, VerdictsStay, ServiceOrgs
    DEF Service!Refuse, Firsts, Verdicts
<1>8. CASE SelectUser(r)
  <2>1. Creates(r)
    BY <1>0, <1>8 DEF SelectUser, Executes, Consistent
  <2>2. CASE call[r].id \in users
    BY <1>6, <1>8, <2>2 DEF SelectUser
  <2>3. CASE call[r].id \notin users
    <3>1. exc'[r] = "not_found"
      BY <1>8, <2>3 DEF SelectUser, TypeOK
    <3> QED
      BY <1>4, <1>7, <2>1, <2>3, <3>1
  <2> QED
    BY <2>2, <2>3
<1>9. CASE InsertOrg(r)
  <2>1. Creates(r)
    BY <1>0, <1>9 DEF InsertOrg, Executes, Consistent
  <2> QED
    BY <1>6, <1>7, <1>9, <2>1, Translations DEF InsertOrg, Raises, TypeOK
<1>10. CASE InsertMember(r)
  <2>1. "org" \in staged[r] /\ call[r].id \in users
    BY <1>0, <1>10 DEF InsertMember, Executes, Consistent
  <2> QED
    BY <1>6, <1>10, <2>1 DEF InsertMember
<1>11. CASE Upsert(r)
  <2>1. CASE exc' = exc
    BY <1>6, <2>1
  <2>2. CASE exc'[r] = "internal_error"
    <3>1. Verdict(r)' = "open"
      BY <2>2 DEF Verdict
    <3>2. Verdicts' = Verdicts
      BY <1>1, <1>5, <3>1, VerdictsStay DEF Verdicts
    <3> QED
      BY <1>2, <1>3, <3>2 DEF serviceVars
  <2> QED
    BY <1>11, <2>1, <2>2, Translations DEF Upsert, Raises, TypeOK
<1> QED
  BY <1>8, <1>9, <1>10, <1>11

\* A lost connection or an empty pool says nothing about the request.
LEMMA FailureIsSilent ==
    ASSUME IInv, NEW r \in Reqs, CheckoutFails(r) \/ StatementFails(r) \/ CommitFails(r)
    PROVE  UNCHANGED serviceVars
<1> TypeOK /\ RequestInv
  BY DEF IInv
<1>1. StepOf(r) /\ ~ ServerCommits(r)
  BY DEF StepOf, Proceeds, CheckoutFails, StatementFails, CommitFails, Discovers, Raises,
     ServerCommits, TypeOK
<1>2. users' = users /\ applied' = applied /\ Firsts' = Firsts
  BY <1>1, FirstsStay
<1>3. call' = call /\ reply' = reply
  BY DEF CheckoutFails, StatementFails, CommitFails
<1>4. exc[r] = "none" /\ exc'[r] = "service_unavailable"
  <2>1. exc[r] = "none"
    BY DEF RequestInv, Consistent, CheckoutFails, StatementFails, CommitFails
  <2> QED
    BY <2>1, Translations DEF CheckoutFails, StatementFails, CommitFails, Discovers, Raises, TypeOK
<1>5. Verdict(r) = "open" /\ Verdict(r)' = "open"
  BY <1>4 DEF Verdict
<1>6. Verdicts' = Verdicts
  BY <1>1, <1>5, VerdictsStay DEF Verdicts
<1> QED
  BY <1>2, <1>3, <1>6 DEF serviceVars

\* The answer is the one the request deserves, or one that says nothing.
LEMMA ExitIsAnswer ==
    ASSUME IInv, NEW r \in Reqs, Exit(r) \/ ExitRaises(r)
    PROVE  \E status \in {200, 201, 404, 409, 422, 500, 503} : Service!Answer(r, status)
<1> TypeOK /\ RequestInv /\ RowsInv
  BY DEF IInv
<1>0. Consistent(r) /\ pc[r] = "exit"
  BY DEF RequestInv, Exit, ExitRaises
<1>1. StepOf(r) /\ ~ ServerCommits(r)
  BY DEF StepOf, Proceeds, Exit, ExitRaises, ServerCommits, TypeOK
<1>2. users' = users /\ applied' = applied /\ Firsts' = Firsts
  BY <1>1, FirstsStay
<1>3. call' = call /\ exc' = exc
  BY DEF Exit, ExitRaises
<1>4. Verdicts' = Verdicts /\ Verdicts[r] = Verdict(r)
  BY <1>1, <1>3, VerdictsStay DEF Verdicts
<1>5. reply[r] = 0 /\ call[r] # NoCall
  BY <1>0 DEF Consistent
<1>6. ASSUME NEW status \in {200, 201, 404, 409, 422, 500, 503},
             reply' = [reply EXCEPT ![r] = status],
             status = Service!Deserved(r) \/ status = 500
                 \/ (status = 503 /\ Verdict(r) = "open")
      PROVE  Service!Answer(r, status)
  BY <1>2, <1>3, <1>4, <1>5, <1>6 DEF Service!Answer, Firsts, Verdicts
<1>7. CASE ExitRaises(r)
  BY <1>6, <1>7 DEF ExitRaises
<1>8. CASE Exit(r) /\ exc[r] = "none"
  <2>1. r \in applied /\ Verdict(r) = "open"
    BY <1>0, <1>8 DEF Consistent, Verdict
  <2>2. call[r].op = "create_org" <=> Creates(r)
    BY <1>5 DEF Creates
  <2>3. Service!Deserved(r) = IF Creates(r) \/ created[r] THEN 201 ELSE 200
    BY <1>4, <2>1, ServiceOrgs DEF Service!Deserved, Firsts, Verdicts
  <2>4. Success(r) = Service!Deserved(r) /\ Success(r) \in {200, 201}
    BY <2>2, <2>3 DEF Success
  <2>5. reply' = [reply EXCEPT ![r] = Success(r)]
    BY <1>8 DEF Exit
  <2>6. CASE Success(r) = 200
    BY <1>6, <2>4, <2>5, <2>6
  <2>7. CASE Success(r) = 201
    BY <1>6, <2>4, <2>5, <2>7
  <2> QED
    BY <2>4, <2>6, <2>7
<1>9. CASE Exit(r) /\ exc[r] # "none"
  <2>1. reply' = [reply EXCEPT ![r] = get_http_status_for_error(exc[r])]
    BY <1>9 DEF Exit
  <2>2. CASE exc[r] = "not_found"
    <3>1. get_http_status_for_error(exc[r]) = 404 /\ Verdict(r) = "unknown"
      BY <2>2 DEF get_http_status_for_error, Verdict
    <3>2. Service!Deserved(r) = 404
      BY <1>4, <3>1 DEF Service!Deserved, Verdicts
    <3> QED
      BY <1>6, <2>1, <3>1, <3>2
  <2>3. CASE exc[r] = "organization_name_taken"
    <3>1. get_http_status_for_error(exc[r]) = 409 /\ Verdict(r) = "taken"
      BY <2>3 DEF get_http_status_for_error, Verdict
    <3>2. Service!Deserved(r) = 409
      BY <1>4, <3>1 DEF Service!Deserved, Verdicts
    <3> QED
      BY <1>6, <2>1, <3>1, <3>2
  <2>4. CASE exc[r] = "validation_error"
    <3>1. get_http_status_for_error(exc[r]) = 422 /\ Verdict(r) = "rejected"
      BY <2>4 DEF get_http_status_for_error, Verdict
    <3>2. Service!Deserved(r) = 422
      BY <1>4, <3>1 DEF Service!Deserved, Verdicts
    <3> QED
      BY <1>6, <2>1, <3>1, <3>2
  <2>5. CASE exc[r] = "service_unavailable"
    <3>1. get_http_status_for_error(exc[r]) = 503 /\ Verdict(r) = "open"
      BY <2>5 DEF get_http_status_for_error, Verdict
    <3> QED
      BY <1>6, <2>1, <3>1
  <2>6. CASE exc[r] = "internal_error"
    <3>1. get_http_status_for_error(exc[r]) = 500
      BY <2>6 DEF get_http_status_for_error
    <3> QED
      BY <1>6, <2>1, <3>1
  <2> QED
    BY <1>9, <2>2, <2>3, <2>4, <2>5, <2>6 DEF AppErrorCodes, TypeOK
<1> QED
  BY <1>7, <1>8, <1>9

LEMMA ServiceStep == IInv /\ [Next]_vars => [Service!Next]_(Service!vars)
<1> SUFFICES ASSUME IInv, [Next]_vars PROVE [Service!Next]_(Service!vars)
  OBVIOUS
<1>0. Service!vars = serviceVars /\ Service!vars' = serviceVars'
  BY DEF Service!vars, serviceVars, Firsts, Verdicts
<1>1. ASSUME UNCHANGED vars PROVE UNCHANGED serviceVars
  <2>1. /\ call' = call /\ users' = users /\ applied' = applied /\ created' = created
        /\ exc' = exc /\ reply' = reply
    BY <1>1 DEF vars, dbVars
  <2> QED
    BY <2>1 DEF serviceVars, Firsts, Verdicts, Verdict
<1>2. ASSUME NEW r \in Reqs, NEW c \in Calls, Begin(r, c) PROVE Service!Next
  <2>1. StepOf(r) /\ ~ ServerCommits(r)
    BY <1>2 DEF StepOf, Begin, ServerCommits, IInv, RequestInv, Consistent
  <2>2. users' = users /\ Firsts' = Firsts /\ Verdicts' = Verdicts
    BY <1>2, <2>1, FirstsStay, VerdictsStay DEF Begin
  <2>3. call[r] = NoCall
    BY <1>2 DEF Begin, IInv, RequestInv, Consistent
  <2>4. call' = [call EXCEPT ![r] = c] /\ applied' = applied /\ reply' = reply
    BY <1>2 DEF Begin, dbVars
  <2>5. Service!Begin(r, c)
    BY <2>2, <2>3, <2>4 DEF Service!Begin, Firsts, Verdicts
  <2> QED
    BY <2>5 DEF Service!Next
<1>3. ASSUME NEW r \in Reqs,
             SelectUser(r) \/ InsertOrg(r) \/ InsertMember(r) \/ Upsert(r)
      PROVE  [Service!Next]_serviceVars
  BY <1>3, StatementIsRefusal DEF Service!Next
<1>4. ASSUME NEW r \in Reqs, CheckoutFails(r) \/ StatementFails(r) \/ CommitFails(r)
      PROVE  UNCHANGED serviceVars
  BY <1>4, FailureIsSilent
<1>5. ASSUME NEW r \in Reqs, Exit(r) \/ ExitRaises(r) PROVE Service!Next
  BY <1>5, ExitIsAnswer DEF Service!Next
<1>6. ASSUME NEW r \in Reqs, ServerCommits(r) PROVE Service!Next
  BY <1>6, CommitIsEffect DEF Service!Next
<1>7. ASSUME NEW r \in Reqs,
             \/ Checkout(r) \/ SendCommit(r) \/ CommitReturns(r)
             \/ LinkBreaks(r) \/ ServerDrops(r)
      PROVE  UNCHANGED serviceVars
  <2>1. call' = call /\ users' = users /\ applied' = applied /\ created' = created
        /\ exc' = exc /\ reply' = reply
    BY <1>7 DEF Checkout, SendCommit, CommitReturns, LinkBreaks, ServerDrops, dbVars
  <2> QED
    BY <2>1 DEF serviceVars, Firsts, Verdicts, Verdict
<1>8. ASSUME NEW r \in Reqs, StepOf(r) PROVE Service!Next \/ UNCHANGED serviceVars
  BY <1>2, <1>3, <1>4, <1>5, <1>6, <1>7, <1>8 DEF StepOf, Proceeds
<1> QED
  BY <1>0, <1>1, <1>8, StepIsSomebodys

\* The requests over the database are the atomic requests of the abstract
\* service, answers included (POST /orgs/ and POST /users/me).
THEOREM TransactionsImplementService == Spec => ImplementsService
  BY ServiceInit, ServiceStep, Inductive, PTL DEF Spec, ImplementsService, Service!Spec
\* What the abstract service shows of a conflict: whoever is told that a name is
\* taken asked for an organization, and one of that name is there to stay.
TakenInv ==
    \A r \in Reqs : exc[r] = "organization_name_taken" =>
        Creates(r) /\ \E o \in orgs : call[o].name = call[r].name

\* The same of the abstract variables.
TakenVerdicts ==
    \A r \in Reqs : Verdicts[r] = "taken" =>
        /\ call[r] # NoCall /\ call[r].op = "create_org"
        /\ \E o \in applied : /\ call[o] # NoCall /\ call[o].op = "create_org"
                              /\ call[o].name = call[r].name

LEMMA TakenAsVerdict == IInv => (TakenInv <=> TakenVerdicts)
<1> SUFFICES ASSUME IInv PROVE TakenInv <=> TakenVerdicts
  OBVIOUS
<1>1. \A r \in Reqs : Verdicts[r] = "taken" <=> exc[r] = "organization_name_taken"
  BY DEF Verdicts, Verdict
<1>2. orgs = {o \in applied : Creates(o)}
  BY DEF IInv, RowsInv
<1> QED
  BY <1>1, <1>2 DEF TakenInv, TakenVerdicts, Creates

LEMMA TakenStep ==
    ASSUME IInv, TakenVerdicts, [Service!Next]_(Service!vars) PROVE TakenVerdicts'
<1>0. Service!vars = serviceVars /\ Service!vars' = serviceVars'
  BY DEF Service!vars, serviceVars, Firsts, Verdicts
<1>1. call \in [Reqs -> Calls \cup {NoCall}] /\ applied \subseteq Reqs
  BY DEF IInv, TypeOK
<1>2. Verdicts = [r \in Reqs |-> Verdict(r)]
  BY DEF Verdicts
<1>3. CASE UNCHANGED serviceVars
  BY <1>3 DEF serviceVars, TakenVerdicts
<1>4. ASSUME NEW r \in Reqs, NEW c \in Calls, Service!Begin(r, c) PROVE TakenVerdicts'
  <2>1. call[r] = NoCall /\ call' = [call EXCEPT ![r] = c] /\ applied' = applied
        /\ Verdicts' = Verdicts
    BY <1>4 DEF Service!Begin, Verdicts
  <2>2. \A q \in Reqs : call[q] # NoCall => call'[q] = call[q]
    BY <1>1, <2>1
  <2> QED
    BY <1>1, <2>1, <2>2 DEF TakenVerdicts
<1>5. ASSUME NEW r \in Reqs, Service!CreateOrg(r) \/ Service!Login(r) PROVE TakenVerdicts'
  <2>1. call' = call /\ applied' = applied \cup {r} /\ Verdicts' = Verdicts
    BY <1>5 DEF Service!CreateOrg, Service!Login, Verdicts
  <2> QED
    BY <2>1 DEF TakenVerdicts
<1>6. ASSUME NEW r \in Reqs, Service!Refuse(r) PROVE TakenVerdicts'
  <2>1. /\ call' = call /\ applied' = applied
        /\ call[r] # NoCall /\ call[r].op = "create_org"
    BY <1>6 DEF Service!Refuse, Service!Creates
  <2>2. /\ Verdicts' = [Verdicts EXCEPT ![r] = Verdicts'[r]]
        /\ Verdicts'[r] = "taken" => Service!NameTaken(call[r].name)
    BY <1>2, <1>6 DEF Service!Refuse, Verdicts
  <2>3. Service!NameTaken(call[r].name) =>
          \E o \in applied : /\ call[o] # NoCall /\ call[o].op = "create_org"
                            /\ call[o].name = call[r].name
    BY DEF Service!NameTaken, Service!orgs, Service!Creates
  <2>4. \A q \in Reqs \ {r} : Verdicts'[q] = Verdicts[q]
    BY <1>2, <2>2
  <2> QED
    BY <2>1, <2>2, <2>3, <2>4 DEF TakenVerdicts
<1>7. ASSUME NEW r \in Reqs, NEW status, Service!Answer(r, status) PROVE TakenVerdicts'
  BY <1>7 DEF Service!Answer, Verdicts, TakenVerdicts
<1> QED
  BY <1>0, <1>3, <1>4, <1>5, <1>6, <1>7 DEF Service!Next

\* A conflict is a fact and not an accident of two transactions meeting: the
\* organization that has the name is committed when the error is raised, and
\* stays (repos.py, organizations.py; the unique index on the folded name).
THEOREM ConflictsAreReal == Spec => []TakenInv
<1>1. Init => TakenInv
  BY DEF Init, TakenInv
<1>2. IInv /\ TakenInv /\ [Next]_vars => TakenInv'
  <2> SUFFICES ASSUME IInv, TakenInv, [Next]_vars PROVE TakenInv'
    OBVIOUS
  <2>1. TakenVerdicts'
    BY TakenAsVerdict, ServiceStep, TakenStep
  <2>2. IInv'
    BY NextIInv
  <2>3. (IInv => (TakenInv <=> TakenVerdicts))'
    BY TakenAsVerdict, PTL
  <2> QED
    BY <2>1, <2>2, <2>3
<1> QED
  BY <1>1, <1>2, Inductive, PTL DEF Spec
===========================================================================
