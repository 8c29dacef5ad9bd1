---- MODULE VerdictLedger ----
(* What a result directory promises to the reader of an evaluation: a ledger of
   verdicts, one per example, which only grows.  However often the runner is
   killed and resumed, no verdict is lost, replaced or given twice. *)
CONSTANT Examples

VARIABLE ledger

Record == [example : Examples, correct : BOOLEAN]

LedgerInit == ledger = {}

Enter(record) ==
    /\ \A entry \in ledger : entry.example # record.example
    /\ ledger' = ledger \cup {record}

LedgerNext == \E record \in Record : Enter(record)

LedgerSpec == LedgerInit /\ [][LedgerNext]_ledger
====
