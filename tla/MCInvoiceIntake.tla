-------------------------- MODULE MCInvoiceIntake --------------------------
(* An instance of InvoiceIntake for TLC: its properties are about pairs of *)
(* executions, and a node has as many tries as in the workflow.            *)
EXTENDS InvoiceIntake

CONSTANTS x1, x2, f1, f2
=============================================================================
