------------------------ MODULE MCRequestPipeline ------------------------
(***************************************************************************)
(* An instance of RequestPipeline for TLC.  Text is six names and what the *)
(* functions make of them: one in two spellings, which differ by a space,  *)
(* a capital and an accent not yet composed; one whose fold is too long;   *)
(* one whose fold is too long by PostgreSQL's tables only; one with two    *)
(* signs that only a later version of Unicode composes; and one that is    *)
(* too short without its whitespace, of which btrim knows a part.          *)
(***************************************************************************)
EXTENDS RequestPipeline, TLC

CONSTANTS a, r1, r2

MCText == {"A e acute", "space a eacute", "A eacute", "a e acute", "a eacute",
           "sz sz", "s s s s", "odd odd", "t i i", "t ii", "nbsp a space", "nbsp a", "a"}

Unchanged == [w \in MCText |-> w]

MCLength ==
    "A e acute" :> 3 @@ "space a eacute" :> 3 @@ "a e acute" :> 3 @@ "s s s s" :> 4
    @@ "t i i" :> 3 @@ "nbsp a space" :> 3 @@ "a" :> 1 @@ [w \in MCText |-> 2]
MCStrip ==
    "space a eacute" :> "a eacute" @@ "nbsp a space" :> "a" @@ "nbsp a" :> "a" @@ Unchanged
MCBtrim == "space a eacute" :> "a eacute" @@ "nbsp a space" :> "nbsp a" @@ Unchanged
MCNfc == "A e acute" :> "A eacute" @@ "a e acute" :> "a eacute" @@ Unchanged
MCDbNfc == "t i i" :> "t ii" @@ MCNfc
MCCasefold ==
    "A e acute" :> "a e acute" @@ "A eacute" :> "a eacute" @@ "sz sz" :> "s s s s" @@ Unchanged
MCDbCasefold == "odd odd" :> "s s s s" @@ MCCasefold

MCMinLen == 2
MCMaxLen == 3

MCNames == {"A e acute", "space a eacute", "sz sz", "odd odd", "t i i", "nbsp a space"}

Post(cred, body) == [op |-> "create_org", id |-> a, cred |-> cred, body |-> body]
Login(cred) == [op |-> "login", id |-> a, cred |-> cred, body |-> Nameless]

MCRequests ==
    {Post("good", n) : n \in MCNames \cup {Unreadable, Nameless}}
    \cup {Post(c, "a eacute") : c \in {"missing", "flawed", "unscoped"}}
    \cup {Post("flawed", Unreadable)}
    \cup {Login(c) : c \in {"missing", "unscoped"}}

MCCalls == {CallOf(q) : q \in {p \in MCRequests : BodyAccepted(p)}}
MCRejected == {Refused}
===========================================================================
