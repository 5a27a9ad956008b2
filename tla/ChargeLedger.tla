---------------------------- MODULE ChargeLedger ----------------------------
(***************************************************************************)
(* What ADR 0008 promises of ingestion: the charges of a billing file are   *)
(* posted all together or not at all, and a file is posted once.  A record  *)
(* with the same semantic identity twice in a file is one charge; a record  *)
(* that fails validation is put aside, never dropped.  Posting is one step  *)
(* here; CostIngestion.tla shows that the transactions of ingest_service.py *)
(* implement it.                                                            *)
(***************************************************************************)
EXTENDS Naturals, FiniteSets, Functions

CONSTANTS
    Files,  \* the distinct files (sha256, parser_version, org_path)
    Lines,  \* Lines[f]: the rows of f, a sequence of [key, acct, amount, kind]
    Keys    \* semantic identities (dedupe_key)

VARIABLES
    posted,  \* the files whose charges are in the ledger
    charged, \* charged[k]: canonical rows with identity k, over all files
    aside    \* quarantined rows

Charges(f) == {i \in DOMAIN Lines[f] : Lines[f][i].kind = "charge"}

\* The first row of every identity becomes a canonical record.
Canonical(f) ==
    {i \in Charges(f) : \A j \in Charges(f) : Lines[f][j].key = Lines[f][i].key => i <= j}

\* Repeated rows, and rows the adapter reports as issues.
Quarantined(f) ==
    (Charges(f) \ Canonical(f)) \cup {i \in DOMAIN Lines[f] : Lines[f][i].kind = "issue"}

WithCharges(f, ledger) ==
    [k \in Keys |-> ledger[k] + Cardinality({i \in Canonical(f) : Lines[f][i].key = k})]

Init == posted = {} /\ charged = [k \in Keys |-> 0] /\ aside = {}

Post(f) ==
    /\ f \notin posted
    /\ posted' = posted \cup {f}
    /\ charged' = WithCharges(f, charged)
    /\ aside' = aside \cup ({f} \X Quarantined(f))

Next == \E f \in Files : Post(f)

Spec == Init /\ [][Next]_<<posted, charged, aside>>
=============================================================================
