-------------------------- MODULE JwksParseProofs --------------------------
(***************************************************************************)
(* The loop of _parse_jwks computes what JwksDocument says, for bodies of  *)
(* any length: the induction over the entries is the one over the steps.   *)
(***************************************************************************)
EXTENDS JwksParse, TLAPS

\* Where the loop may end, and how.
Endings ==
    /\ result = "map" =>
          /\ payload.shape = "jwks" /\ at \notin DOMAIN payload.keys
          /\ duplicate_kids = {} /\ DOMAIN keys_by_kid # {}
    /\ result = "unavailable" =>
          \/ payload.shape = "malformed"
          \/ /\ payload.shape = "jwks" /\ at \notin DOMAIN payload.keys
             /\ duplicate_kids # {} \/ DOMAIN keys_by_kid = {}
    /\ result = "other" => ParseRaisesOther(payload)

\* Of the entries the loop is through with, none stopped it.
Hashable ==
    \A i \in DOMAIN payload.keys :
        i < at /\ payload.keys[i].kid = UnhashableKid => ~ IsUsableSigningKey(payload.keys[i])

IInv == LoopInv /\ Endings /\ Hashable

LEMMA PayloadTyped ==
    ASSUME NEW d \in Bodies
    PROVE  /\ d.shape \in {"jwks", "malformed", "alien"}
           /\ d.keys \in Seq(Jwk) /\ Len(d.keys) \in Nat
           /\ DOMAIN d.keys = 1..Len(d.keys)
           /\ \A i \in DOMAIN d.keys : d.keys[i].kid \in Kids \cup {NoKid, UnhashableKid}
<1>1. d \in Payload
  BY BodiesAssumption
<1>2. d.keys \in Seq(Jwk) /\ d.shape \in {"jwks", "malformed", "alien"}
  BY <1>1 DEF Payload
<1>3. Len(d.keys) \in Nat /\ DOMAIN d.keys = 1..Len(d.keys)
  BY <1>2
<1>4. \A i \in DOMAIN d.keys : d.keys[i] \in Jwk
  BY <1>2, <1>3
<1> QED
  BY <1>2, <1>3, <1>4 DEF Jwk

LEMMA InitIInv == Init => IInv
<1> SUFFICES ASSUME Init PROVE IInv
  OBVIOUS
<1>1. at = 1 /\ payload \in Bodies /\ result = "none" /\ duplicate_kids = {}
  BY DEF Init
<1>2. Taken = {}
  BY <1>1, PayloadTyped DEF Taken, UsableAt
<1>3. DOMAIN keys_by_kid = {}
  BY DEF Init
<1>4. at \in 1..(Len(payload.keys) + 1)
  BY <1>1, PayloadTyped
<1>5. Hashable
  BY <1>1, PayloadTyped DEF Hashable
<1> QED
  BY <1>1, <1>2, <1>3, <1>4, <1>5 DEF IInv, LoopInv, Endings

\* An entry that does not stop the loop leaves it with entries that did not.
LEMMA HashableStep ==
    ASSUME IInv, Looping, Advance,
           key.kid = UnhashableKid => ~ IsUsableSigningKey(key)
    PROVE  Hashable'
<1>1. payload \in Bodies /\ payload' = payload /\ at' = at + 1 /\ at \in 1..Len(payload.keys)
  BY PayloadTyped DEF IInv, LoopInv, Looping, Advance
<1>2. Len(payload.keys) \in Nat /\ DOMAIN payload.keys = 1..Len(payload.keys)
  BY <1>1, PayloadTyped
<1> SUFFICES ASSUME NEW i \in DOMAIN payload.keys, i < at + 1,
                    payload.keys[i].kid = UnhashableKid
             PROVE  ~ IsUsableSigningKey(payload.keys[i])
  BY <1>1 DEF Hashable
<1>3. i < at \/ i = at
  BY <1>1, <1>2
<1> QED
  BY <1>3 DEF IInv, Hashable, key

\* What one more entry adds to the entries that were let pass.
LEMMA TakenGrows ==
    ASSUME IInv, Looping, Advance
    PROVE  /\ payload \in Bodies /\ payload' = payload /\ at' = at + 1 /\ result' = "none"
           /\ at \in Nat /\ at' \in 1..(Len(payload.keys) + 1)
           /\ \A i \in Taken : i \in Nat /\ i < at
           /\ Taken' = IF at \in UsableAt(payload) THEN Taken \cup {at} ELSE Taken
<1>1. /\ payload \in Bodies /\ payload' = payload /\ at' = at + 1 /\ result' = "none"
      /\ at \in 1..Len(payload.keys)
  BY PayloadTyped DEF IInv, LoopInv, Looping, Advance
<1>2. UsableAt(payload) \subseteq 1..Len(payload.keys) /\ Len(payload.keys) \in Nat
  BY <1>1, PayloadTyped DEF UsableAt
<1>3. Taken' = {i \in UsableAt(payload) : i < at + 1}
  BY <1>1 DEF Taken
<1>4. \A i \in UsableAt(payload) : i < at + 1 <=> i < at \/ i = at
  BY <1>1, <1>2
<1> QED
  BY <1>1, <1>2, <1>3, <1>4 DEF Taken

LEMMA SkipIInv == IInv /\ Skip => IInv'
<1> SUFFICES ASSUME IInv, Skip PROVE IInv'
  OBVIOUS
<1>1. Looping /\ Advance /\ keys_by_kid' = keys_by_kid /\ duplicate_kids' = duplicate_kids
  BY DEF Skip
<1>2. at \notin UsableAt(payload)
  BY KidsAssumption DEF Skip, UsableAt, key
<1>3. Taken' = Taken /\ payload' = payload /\ payload \in Bodies /\ result' = "none"
      /\ at' \in 1..(Len(payload.keys) + 1)
  BY <1>1, <1>2, TakenGrows
<1>4. Hashable'
  BY <1>1, HashableStep, KidsAssumption DEF Skip
<1> QED
  BY <1>1, <1>3, <1>4 DEF IInv, LoopInv, Endings

LEMMA NoteIInv == IInv /\ Note => IInv'
<1> SUFFICES ASSUME IInv, Note PROVE IInv'
  OBVIOUS
<1> DEFINE k0 == payload.keys[at].kid
<1>1. /\ Looping /\ Advance /\ keys_by_kid' = keys_by_kid
      /\ duplicate_kids' = duplicate_kids \cup {k0} /\ k0 \in DOMAIN keys_by_kid
  BY DEF Note, Takes, key
<1>2. at \in UsableAt(payload)
  BY DEF Note, Takes, Looping, UsableAt, key
<1>3. /\ Taken' = Taken \cup {at} /\ payload' = payload /\ payload \in Bodies
      /\ result' = "none" /\ at' \in 1..(Len(payload.keys) + 1)
      /\ at \in Nat /\ \A i \in Taken : i \in Nat /\ i < at
  BY <1>1, <1>2, TakenGrows
<1>4. PICK h \in Taken : payload.keys[h].kid = k0
  BY <1>1 DEF IInv, LoopInv
<1>5. DOMAIN keys_by_kid' = {payload'.keys[i].kid : i \in Taken'}
  BY <1>1, <1>3, <1>4 DEF IInv, LoopInv
<1>6. ASSUME NEW k \in DOMAIN keys_by_kid'
      PROVE  \E i \in Taken' :
                /\ keys_by_kid'[k] = payload'.keys[i] /\ payload'.keys[i].kid = k
                /\ \A j \in Taken' : payload'.keys[j].kid = k => i <= j
  <2>1. PICK i \in Taken :
                /\ keys_by_kid[k] = payload.keys[i] /\ payload.keys[i].kid = k
                /\ \A j \in Taken : payload.keys[j].kid = k => i <= j
    BY <1>1, <1>6 DEF IInv, LoopInv
  <2>2. i <= at
    BY <1>3
  <2> QED
    BY <1>1, <1>3, <2>1, <2>2
<1>7. duplicate_kids = {payload.keys[i].kid : i \in
         {j \in Taken : \E g \in Taken : g < j /\ payload.keys[g].kid = payload.keys[j].kid}}
  BY DEF IInv, LoopInv
<1>8. {j \in Taken' : \E g \in Taken' : g < j /\ payload'.keys[g].kid = payload'.keys[j].kid}
        = {j \in Taken : \E g \in Taken : g < j /\ payload.keys[g].kid = payload.keys[j].kid}
             \cup {at}
  <2>1. \A j \in Taken : ~ (at < j)
    BY <1>3
  <2>2. h < at /\ ~ (at < at)
    BY <1>3
  <2> QED
    BY <1>3, <1>4, <2>1, <2>2
<1>9. duplicate_kids' = {payload'.keys[i].kid : i \in
         {j \in Taken' : \E g \in Taken' : g < j /\ payload'.keys[g].kid = payload'.keys[j].kid}}
  BY <1>1, <1>3, <1>7, <1>8
<1>10. Hashable'
  BY <1>1, HashableStep, KidsAssumption DEF Note, Takes
<1> QED
  BY <1>3, <1>5, <1>6, <1>9, <1>10 DEF IInv, LoopInv, Endings

LEMMA KeepIInv == IInv /\ Keep => IInv'
<1> SUFFICES ASSUME IInv, Keep PROVE IInv'
  OBVIOUS
<1> DEFINE k0 == payload.keys[at].kid
<1>1. /\ Looping /\ Advance /\ duplicate_kids' = duplicate_kids
      /\ keys_by_kid' = [k \in DOMAIN keys_by_kid \cup {k0} |->
                            IF k = k0 THEN payload.keys[at] ELSE keys_by_kid[k]]
      /\ k0 \notin DOMAIN keys_by_kid
  BY DEF Keep, Takes, key
<1>2. at \in UsableAt(payload)
  BY DEF Keep, Takes, Looping, UsableAt, key
<1>3. /\ Taken' = Taken \cup {at} /\ payload' = payload /\ payload \in Bodies
      /\ result' = "none" /\ at' \in 1..(Len(payload.keys) + 1)
      /\ at \in Nat /\ \A i \in Taken : i \in Nat /\ i < at
  BY <1>1, <1>2, TakenGrows
<1>4. \A i \in Taken : payload.keys[i].kid # k0
  BY <1>1 DEF IInv, LoopInv
<1>5. DOMAIN keys_by_kid' = {payload'.keys[i].kid : i \in Taken'}
  BY <1>1, <1>3 DEF IInv, LoopInv
<1>6. ASSUME NEW k \in DOMAIN keys_by_kid'
      PROVE  \E i \in Taken' :
                /\ keys_by_kid'[k] = payload'.keys[i] /\ payload'.keys[i].kid = k
                /\ \A j \in Taken' : payload'.keys[j].kid = k => i <= j
  <2>1. CASE k = k0
    <3>1. keys_by_kid'[k] = payload.keys[at] /\ at <= at
      BY <1>1, <1>3, <2>1
    <3> QED
      BY <1>3, <1>4, <2>1, <3>1
  <2>2. CASE k # k0
    <3>1. k \in DOMAIN keys_by_kid /\ keys_by_kid'[k] = keys_by_kid[k]
      BY <1>1, <1>6, <2>2
    <3> QED
      BY <1>3, <2>2, <3>1 DEF IInv, LoopInv
  <2> QED
    BY <2>1, <2>2
<1>7. {j \in Taken' : \E g \in Taken' : g < j /\ payload'.keys[g].kid = payload'.keys[j].kid}
        = {j \in Taken : \E g \in Taken : g < j /\ payload.keys[g].kid = payload.keys[j].kid}
  <2>1. \A j \in Taken : ~ (at < j)
    BY <1>3
  <2>2. ~ (at < at)
    BY <1>3
  <2> QED
    BY <1>3, <1>4, <2>1, <2>2
<1>8. duplicate_kids' = {payload'.keys[i].kid : i \in
         {j \in Taken' : \E g \in Taken' : g < j /\ payload'.keys[g].kid = payload'.keys[j].kid}}
  BY <1>1, <1>3, <1>7 DEF IInv, LoopInv
<1>9. Hashable'
  BY <1>1, HashableStep, KidsAssumption DEF Keep, Takes
<1> QED
  BY <1>3, <1>5, <1>6, <1>8, <1>9 DEF IInv, LoopInv, Endings

LEMMA EndsIInv == IInv /\ (Raises \/ LookupRaises \/ End) => IInv'
<1> SUFFICES ASSUME IInv, Raises \/ LookupRaises \/ End PROVE IInv'
  OBVIOUS
<1>1. UNCHANGED <<payload, at, keys_by_kid, duplicate_kids>>
  BY DEF Raises, LookupRaises, End
<1>2. Taken' = Taken
  BY <1>1 DEF Taken
<1>3. payload.shape \in {"jwks", "malformed", "alien"}
  BY PayloadTyped DEF IInv, LoopInv
<1>4. result' \in {"none", "map", "unavailable", "other"}
  BY DEF Raises, LookupRaises, End
<1>5. LoopInv'
  BY <1>1, <1>2, <1>4 DEF IInv, LoopInv
<1>6. Endings'
  <2>1. LookupRaises => ParseRaisesOther(payload)
    BY DEF LookupRaises, Looping, key, ParseRaisesOther, HasUnhashableKid
  <2>2. result' = "other" => ParseRaisesOther(payload)
    BY <1>3, <2>1 DEF Raises, End, LookupRaises, ParseRaisesOther
  <2> QED
    BY <1>1, <1>3, <2>2 DEF Raises, End, LookupRaises, Endings
<1>7. Hashable'
  BY <1>1 DEF IInv, Hashable
<1> QED
  BY <1>5, <1>6, <1>7 DEF IInv

LEMMA NextIInv == IInv /\ [Next]_vars => IInv'
<1> SUFFICES ASSUME IInv, [Next]_vars PROVE IInv'
  OBVIOUS
<1>1. CASE UNCHANGED vars
  <2>1. UNCHANGED <<payload, at, keys_by_kid, duplicate_kids, result>>
    BY <1>1 DEF vars
  <2>2. Taken' = Taken
    BY <2>1 DEF Taken
  <2>3. LoopInv'
    BY <2>1, <2>2 DEF IInv, LoopInv
  <2>4. Endings'
    BY <2>1 DEF IInv, Endings
  <2>5. Hashable'
    BY <2>1 DEF IInv, Hashable
  <2> QED
    BY <2>3, <2>4, <2>5 DEF IInv
<1> QED
  BY <1>1, SkipIInv, NoteIInv, KeepIInv, EndsIInv DEF Next

LEMMA Inductive == Spec => []IInv
  BY InitIInv, NextIInv, PTL DEF Spec

\* What the loop knows of the entries it has seen, for bodies of any length
\* (jwks.py, _parse_jwks).
THEOREM LoopSafe == Spec => []LoopInv
<1>1. IInv => LoopInv
  BY DEF IInv
<1> QED
  BY <1>1, Inductive, PTL

\* After the last entry, all usable entries have been taken.
LEMMA AllTaken ==
    ASSUME IInv, at \notin DOMAIN payload.keys
    PROVE  /\ Taken = UsableAt(payload) /\ UsableAt(payload) \subseteq Nat
           /\ ~ HasUnhashableKid(payload)
<1>1. payload \in Bodies /\ at \in 1..(Len(payload.keys) + 1)
  BY DEF IInv, LoopInv
<1>2. /\ Len(payload.keys) \in Nat /\ DOMAIN payload.keys = 1..Len(payload.keys)
      /\ UsableAt(payload) \subseteq DOMAIN payload.keys
  BY <1>1, PayloadTyped DEF UsableAt
<1>3. at = Len(payload.keys) + 1
  BY <1>1, <1>2
<1>4. \A i \in UsableAt(payload) : i \in Nat /\ i < at
  BY <1>2, <1>3
<1>5. \A i \in DOMAIN payload.keys : i < at
  BY <1>2, <1>3
<1> QED
  BY <1>4, <1>5 DEF Taken, IInv, Hashable, HasUnhashableKid

\* A kid is noted as a duplicate exactly if two usable entries carry it.
LEMMA NotedAreDuplicates ==
    ASSUME IInv, at \notin DOMAIN payload.keys
    PROVE  /\ duplicate_kids # {} <=> HasDuplicateKids(payload)
           /\ DOMAIN keys_by_kid = KeysByKid(payload)
<1>1. Taken = UsableAt(payload) /\ UsableAt(payload) \subseteq Nat
  BY AllTaken
<1>2. \A i, j \in UsableAt(payload) : i # j <=> i < j \/ j < i
  BY <1>1
<1>3. HasDuplicateKids(payload) <=>
        \E i, j \in UsableAt(payload) : i < j /\ payload.keys[i].kid = payload.keys[j].kid
  BY <1>2 DEF HasDuplicateKids
<1>4. duplicate_kids = {payload.keys[i].kid : i \in
         {j \in Taken : \E g \in Taken : g < j /\ payload.keys[g].kid = payload.keys[j].kid}}
  BY DEF IInv, LoopInv
<1>5. duplicate_kids # {} <=>
        \E i, j \in UsableAt(payload) : i < j /\ payload.keys[i].kid = payload.keys[j].kid
  BY <1>1, <1>4
<1> QED
  BY <1>1, <1>3, <1>5 DEF IInv, LoopInv, KeysByKid

LEMMA EndCorrect == IInv => ParseCorrect
<1> SUFFICES ASSUME IInv PROVE ParseCorrect
  OBVIOUS
<1>1. ASSUME result = "map"
      PROVE  /\ Parses(payload) /\ DOMAIN keys_by_kid = KeysByKid(payload)
             /\ \A i \in UsableAt(payload) : keys_by_kid[payload.keys[i].kid] = payload.keys[i]
  <2>1. /\ payload.shape = "jwks" /\ at \notin DOMAIN payload.keys
        /\ duplicate_kids = {} /\ DOMAIN keys_by_kid # {}
    BY <1>1 DEF IInv, Endings
  <2>2. ~ HasDuplicateKids(payload) /\ DOMAIN keys_by_kid = KeysByKid(payload)
    BY <2>1, NotedAreDuplicates
  <2>3. Taken = UsableAt(payload) /\ ~ HasUnhashableKid(payload)
    BY <2>1, AllTaken
  <2>4. ASSUME NEW i \in UsableAt(payload)
        PROVE  keys_by_kid[payload.keys[i].kid] = payload.keys[i]
    <3>1. payload.keys[i].kid \in DOMAIN keys_by_kid
      BY <2>2, <2>4 DEF KeysByKid
    <3>2. PICK j \in Taken : /\ keys_by_kid[payload.keys[i].kid] = payload.keys[j]
                             /\ payload.keys[j].kid = payload.keys[i].kid
      BY <3>1 DEF IInv, LoopInv
    <3>3. i = j
      BY <2>2, <2>3, <2>4, <3>2 DEF HasDuplicateKids
    <3> QED
      BY <3>2, <3>3
  <2> QED
    BY <2>1, <2>2, <2>3, <2>4 DEF Parses
<1>2. ASSUME result = "unavailable" PROVE ParseUnavailable(payload)
  <2>1. CASE payload.shape = "malformed"
    BY <2>1 DEF ParseUnavailable, Parses, ParseRaisesOther
  <2>2. CASE /\ payload.shape = "jwks" /\ at \notin DOMAIN payload.keys
             /\ duplicate_kids # {} \/ DOMAIN keys_by_kid = {}
    <3>1. HasDuplicateKids(payload) \/ KeysByKid(payload) = {}
      BY <2>2, NotedAreDuplicates
    <3>2. ~ HasUnhashableKid(payload)
      BY <2>2, AllTaken
    <3> QED
      BY <2>2, <3>1, <3>2 DEF ParseUnavailable, Parses, ParseRaisesOther
  <2> QED
    BY <1>2, <2>1, <2>2 DEF IInv, Endings
<1>3. ASSUME result = "other" PROVE ParseRaisesOther(payload)
  BY <1>3 DEF IInv, Endings
<1> QED
  BY <1>1, <1>2, <1>3 DEF ParseCorrect

\* The parse ends as JwksDocument says, with a map that is never the product
\* of the order of the entries (jwks.py, _parse_jwks).
THEOREM ParseSafe == Spec => []ParseCorrect
  BY Inductive, EndCorrect, PTL
===========================================================================
