---------------------- MODULE OrganizationNameProofs ----------------------
(***************************************************************************)
(* The validator of organization names against itself and against the      *)
(* table, for any text and any bounds.                                     *)
(***************************************************************************)
EXTENDS OrganizationName, TLAPS

\* The functions stay within the text.
LEMMA Typed ==
    ASSUME NEW s \in Text
    PROVE  /\ strip[s] \in Text /\ nfc[s] \in Text /\ casefold[s] \in Text
           /\ db_nfc[s] \in Text /\ db_casefold[s] \in Text
           /\ btrim[s] \in Text /\ length[s] \in Nat
<1>1. /\ strip \in [Text -> Text] /\ nfc \in [Text -> Text]
      /\ casefold \in [Text -> Text]
      /\ db_nfc \in [Text -> Text] /\ db_casefold \in [Text -> Text]
      /\ btrim \in [Text -> Text] /\ length \in [Text -> Nat]
  BY TextAssumption
<1> QED
  BY <1>1

\* Normalizing twice changes nothing more (value_objects.py, normalize_org_name).
LEMMA NormalizedOnce ==
    ASSUME NEW s \in Text
    PROVE  /\ normalize_org_name(s) \in Text
           /\ normalize_org_name(normalize_org_name(s)) = normalize_org_name(s)
<1> DEFINE n == nfc[strip[s]]
<1>1. strip[s] \in Text /\ n \in Text
  BY Typed
<1>2. strip[n] = n
  BY TextLaws
<1>3. nfc[n] = n
  BY <1>1, TextLaws
<1> QED
  BY <1>1, <1>2, <1>3 DEF normalize_org_name

\* The value object accepts, unchanged, what the DTO's validator returned: the
\* executor's ValidationError branch cannot be reached through the endpoint
\* (organizations.py validate_name; Name.__post_init__).
THEOREM ValidatedTwice ==
    ASSUME NEW s \in Text, Accepts(s)
    PROVE  Accepts(normalize_org_name(s)) /\ NameOf(s) = normalize_org_name(s)
  BY NormalizedOnce DEF Accepts, NameOf

\* Of the table's conditions, a validated name can miss only two: PostgreSQL
\* may see it as not composed, or find its fold too long.  Where the Unicode
\* tables agree on the name it misses neither, and the generated column is what
\* the application takes for the name's canonical form (models.py, the CHECK
\* constraints and ORG_NAME_CANONICAL_SQL).
THEOREM AcceptedNamesFit ==
    ASSUME NEW s \in Text, Accepts(s)
    PROVE  /\ NameOf(s) \in Text
           /\ RowAccepts(NameOf(s)) <=>
                  /\ db_nfc[NameOf(s)] = NameOf(s)
                  /\ length[name_canonical(NameOf(s))] <= ORG_NAME_MAX_LEN
           /\ TablesAgree(NameOf(s)) =>
                  /\ RowAccepts(NameOf(s))
                  /\ name_canonical(NameOf(s)) = canonicalize_org_name(NameOf(s))
<1> DEFINE n == normalize_org_name(s)
<1>1. NameOf(s) = n /\ n \in Text
  BY ValidatedTwice, NormalizedOnce
<1>2. strip[n] = n /\ nfc[n] = n
  <2>1. strip[s] \in Text
    BY Typed
  <2> QED
    BY <2>1, TextLaws DEF normalize_org_name
<1>3. btrim[n] = n
  BY <1>1, <1>2, TextLaws
<1>4. /\ length[n] >= ORG_NAME_MIN_LEN /\ length[n] <= ORG_NAME_MAX_LEN
      /\ length[canonicalize_org_name(n)] <= ORG_NAME_MAX_LEN
  BY DEF Accepts
<1> HIDE DEF n
<1>5. RowAccepts(n) <=> db_nfc[n] = n /\ length[name_canonical(n)] <= ORG_NAME_MAX_LEN
  BY <1>3, <1>4 DEF RowAccepts
<1>6. ASSUME TablesAgree(n)
      PROVE  db_nfc[n] = n /\ name_canonical(n) = canonicalize_org_name(n)
  BY <1>2, <1>6 DEF TablesAgree, name_canonical, canonicalize_org_name
<1> QED
  BY <1>1, <1>4, <1>5, <1>6
===========================================================================
