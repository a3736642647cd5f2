-------------------------- MODULE MCTransactions --------------------------
(***************************************************************************)
(* Instances of Transactions for TLC: two identities of which either may   *)
(* be provisioned beforehand, and requests that collide: logins of one     *)
(* identity, creations under one canonical name, a creation by somebody    *)
(* who has not logged in, and data that only the database rejects.         *)
(***************************************************************************)
EXTENDS Transactions, TLC

CONSTANTS a, b, r1, r2, r3, acme, rejected, noName

Create(i, n) == [op |-> "create_org", id |-> i, name |-> n]
Login(i) == [op |-> "login", id |-> i, name |-> noName]

MCCalls == {Login(a), Login(b), Create(a, acme), Create(b, acme), Create(a, rejected)}
MCRaces == {Login(a), Create(a, acme)}

ReqSymmetry == Permutations(Reqs)
===========================================================================
