---------------------------- MODULE PetService ----------------------------
(***************************************************************************)
(* What the two write endpoints promise, without a database: each request  *)
(* takes effect at most once and as a whole, at one moment, and the answer *)
(* fits what happened.  POST /orgs/ makes the caller owner of a new        *)
(* organization whose name nobody has; POST /users/me provisions the       *)
(* caller.  A request that was refused never takes effect; one answered    *)
(* with 500 or 503 may have, or may still (the answer is no verdict).      *)
(***************************************************************************)
EXTENDS Naturals

CONSTANTS
    Reqs,            \* the requests, each made once
    Ids,             \* the identities: pairs of issuer and subject
    Calls,           \* what a request may ask for
    NoCall,          \* a request that has not been made
    RejectedNames    \* names the validator accepts and the table's checks reject

VARIABLES
    call,            \* call[r]: what r asks for
    users,           \* the provisioned identities
    done,            \* the requests that took effect
    firsts,          \* the logins that provisioned their caller
    verdict,         \* verdict[r]: "open", or why r was refused
    reply            \* reply[r]: the HTTP status sent, 0 before

vars == <<call, users, done, firsts, verdict, reply>>

Creates(r) == call[r] # NoCall /\ call[r].op = "create_org"
Logins(r)  == call[r] # NoCall /\ call[r].op = "login"

\* The organizations are named by the request that made them.
orgs == {r \in done : Creates(r)}

NameTaken(n) == \E o \in orgs : call[o].name = n

Init ==
    /\ call = [r \in Reqs |-> NoCall]
    /\ users \in SUBSET Ids
    /\ done = {}
    /\ firsts = {}
    /\ verdict = [r \in Reqs |-> "open"]
    /\ reply = [r \in Reqs |-> 0]

Begin(r, c) ==
    /\ call[r] = NoCall
    /\ call' = [call EXCEPT ![r] = c]
    /\ UNCHANGED <<users, done, firsts, verdict, reply>>

CreateOrg(r) ==
    /\ Creates(r) /\ r \notin done /\ verdict[r] = "open"
    /\ call[r].id \in users
    /\ call[r].name \notin RejectedNames /\ ~ NameTaken(call[r].name)
    /\ done' = done \cup {r}
    /\ UNCHANGED <<call, users, firsts, verdict, reply>>

Login(r) ==
    /\ Logins(r) /\ r \notin done /\ verdict[r] = "open"
    /\ users' = users \cup {call[r].id}
    /\ firsts' = IF call[r].id \in users THEN firsts ELSE firsts \cup {r}
    /\ done' = done \cup {r}
    /\ UNCHANGED <<call, verdict, reply>>

Refuse(r) ==
    /\ Creates(r) /\ r \notin done /\ verdict[r] = "open" /\ reply[r] = 0
    /\ \/ verdict' = [verdict EXCEPT ![r] = "unknown"] /\ call[r].id \notin users
       \/ verdict' = [verdict EXCEPT ![r] = "taken"] /\ NameTaken(call[r].name)
       \/ verdict' = [verdict EXCEPT ![r] = "rejected"] /\ call[r].name \in RejectedNames
    /\ UNCHANGED <<call, users, done, firsts, reply>>

\* The status a verdict deserves; a failure of the service can hide it.
Deserved(r) ==
    CASE verdict[r] = "unknown"  -> 404
      [] verdict[r] = "taken"    -> 409
      [] verdict[r] = "rejected" -> 422
      [] OTHER -> IF r \notin done THEN 503
                  ELSE IF Creates(r) \/ r \in firsts THEN 201 ELSE 200

Answer(r, status) ==
    /\ call[r] # NoCall /\ reply[r] = 0
    /\ \/ status = Deserved(r)
       \/ status = 500
       \/ status = 503 /\ verdict[r] = "open"
    /\ reply' = [reply EXCEPT ![r] = status]
    /\ UNCHANGED <<call, users, done, firsts, verdict>>

Next ==
    \E r \in Reqs : \/ \E c \in Calls : Begin(r, c)
                    \/ CreateOrg(r) \/ Login(r) \/ Refuse(r)
                    \/ \E status \in {200, 201, 404, 409, 422, 500, 503} :
                           Answer(r, status)

Spec == Init /\ [][Next]_vars
===========================================================================
