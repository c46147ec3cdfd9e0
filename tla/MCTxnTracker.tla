----------------------------- MODULE MCTxnTracker -----------------------------
EXTENDS TxnTracker

\* Every flag set a caller may pass to beginTxn.
MCAnyFlags == SUBSET {"ABORTABLE", "SYNCHRONOUS_COMMIT"}

\* Nested transactions that ask for a child transaction.
MCAbortableFlags == {{"ABORTABLE"}, {"ABORTABLE", "SYNCHRONOUS_COMMIT"}}
=============================================================================
