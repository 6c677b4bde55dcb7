--------------------------- MODULE MCReceiptManager ---------------------------
(***************************************************************************)
(* Instances of ReceiptManager.tla and PublicVerifier.tla.  The managers   *)
(* share one audience; the number of receipts handed out is bounded, which *)
(* keeps the copies of a decision (finalized, unavailable, consumed) in    *)
(* check.                                                                  *)
(***************************************************************************)
EXTENDS PublicVerifier, FiniteSets, TLC

CONSTANTS
  here,        \* the one audience
  MaxIssued    \* bound on the receipts returned to callers

OneAudience == [p \in Proc |-> here]

FewReceipts == Cardinality(issued) <= MaxIssued

Symmetry == Permutations(Proc) \cup Permutations(Nonce) \cup Permutations(Response)
=============================================================================
