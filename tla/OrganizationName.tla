------------------------- MODULE OrganizationName -------------------------
(***************************************************************************)
(* The names of organizations: what the validator of                       *)
(* src/pet/domain/value_objects.py accepts and returns, and what the table *)
(* of organizations takes (src/pet/infra/sqla/db/models.py).  Both rest on *)
(* the same few functions on text, of Python and of PostgreSQL, which are  *)
(* constants here with the laws the code relies on.  Where a function goes *)
(* by the Unicode tables there is one of each: the tables are not of one   *)
(* version, and a later one composes and folds characters that an earlier  *)
(* one does not know.                                                      *)
(***************************************************************************)
EXTENDS Naturals

CONSTANTS
    Text,          \* the strings that occur
    length,        \* len, char_length: code points
    strip,         \* str.strip: whitespace of any kind, at both ends
    nfc,           \* unicodedata.normalize("NFC", .)
    casefold,      \* str.casefold
    db_nfc,        \* normalize(., NFC)
    db_casefold,   \* casefold(. COLLATE "pg_unicode_fast")
    btrim,         \* btrim: spaces, at both ends
    ORG_NAME_MIN_LEN, ORG_NAME_MAX_LEN

ASSUME TextAssumption ==
    /\ length \in [Text -> Nat]
    /\ \A f \in {strip, nfc, casefold, db_nfc, db_casefold, btrim} : f \in [Text -> Text]
    /\ ORG_NAME_MIN_LEN \in Nat /\ ORG_NAME_MAX_LEN \in Nat

\* Python's composing is done once and makes no whitespace at the ends; what
\* has no whitespace there has no spaces there.
ASSUME TextLaws ==
    \A s \in Text :
        /\ nfc[nfc[s]] = nfc[s]
        /\ strip[nfc[strip[s]]] = nfc[strip[s]]
        /\ strip[s] = s => btrim[s] = s

---------------------------------------------------------------------------
\* The validator.  DTO and value object each run it: Name.create validates
\* what the DTO's validator returned.

normalize_org_name(value) == nfc[strip[value]]

canonicalize_org_name(value) == nfc[casefold[value]]

\* Faulty variant: only the name itself is measured.
AcceptsUnfolded(value) ==
    LET normalized_value == normalize_org_name(value) IN
    /\ length[normalized_value] >= ORG_NAME_MIN_LEN
    /\ length[normalized_value] <= ORG_NAME_MAX_LEN

\* validate_org_name returns normalize_org_name(value) and raises nothing.
Accepts(value) ==
    LET normalized_value == normalize_org_name(value) IN
    /\ length[normalized_value] >= ORG_NAME_MIN_LEN
    /\ length[normalized_value] <= ORG_NAME_MAX_LEN
    /\ length[canonicalize_org_name(normalized_value)] <= ORG_NAME_MAX_LEN

\* What Name.create makes of what the DTO's validator made of value.
NameOf(value) == normalize_org_name(normalize_org_name(value))

---------------------------------------------------------------------------
\* The table.

\* Faulty variant: the column is composed and not folded.
CanonicalUnfolded(name) == db_nfc[name]

\* The generated column, unique.
name_canonical(name) == db_nfc[db_casefold[db_nfc[name]]]

\* VARCHAR(64), and the CHECK constraints.
RowAccepts(name) ==
    /\ length[name] <= ORG_NAME_MAX_LEN
    /\ name = btrim[name]
    /\ db_nfc[name] = name
    /\ length[name] >= ORG_NAME_MIN_LEN
    /\ length[name_canonical(name)] <= ORG_NAME_MAX_LEN

\* The Unicode tables of the two agree on all that is looked up for a name:
\* how it is composed, how it is folded, and how the fold is composed.
TablesAgree(name) ==
    /\ db_nfc[name] = nfc[name]
    /\ db_casefold[name] = casefold[name]
    /\ db_nfc[casefold[name]] = nfc[casefold[name]]
===========================================================================
