---------------------------- MODULE MCCodeHealth ----------------------------
(***************************************************************************)
(* The ledger of CodeHealth alone, with a correction whose chain is longer *)
(* than what refers to an expired record: what pruneCodeHealthRecords says *)
(* of correction chains, against what it does.                             *)
(***************************************************************************)
EXTENDS CodeHealth

\* The first record is older than the others.  The second is corrected by the
\* fourth, which refers to the first too; the third refers to the second.
Chained ==
  {[id |-> 1, refs |-> {}, corrects |-> {}, level |-> 0, observed |-> 0],
   [id |-> 2, refs |-> {}, corrects |-> {}, level |-> 0, observed |-> 1],
   [id |-> 3, refs |-> {2}, corrects |-> {}, level |-> 0, observed |-> 1],
   [id |-> 4, refs |-> {1}, corrects |-> {2}, level |-> 0, observed |-> 1]}
OneLevel == [c \in Consumers |-> 0]

-----------------------------------------------------------------------------

\* "Correction chains are removed together so the foreign-key lineage and contract
\* references cannot become dangling" (pruneCodeHealthRecords, db.ts): what a stored
\* record refers to is stored.  A chain is removed with what goes on it, and what
\* refers to the rest of it stays.
ReferencesNeverDangle == \A i \in Live(ledger) : Refs(i) \subseteq Live(ledger)

=============================================================================
