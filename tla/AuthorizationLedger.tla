------------------------- MODULE AuthorizationLedger -------------------------
(***************************************************************************)
(* What the receipts of a verifier amount to, without managers, statements *)
(* or failures: a ledger of decisions, each entered once under a nonce and *)
(* a number of its own, from which every authorization is spent at most    *)
(* once.  ReceiptManager.tla is shown to implement it.                     *)
(***************************************************************************)
EXTENDS Naturals

CONSTANTS
  Nonce,     \* what identifies a decision
  Verdict    \* the decisions; "allow" is the one that authorizes

VARIABLES
  entries,   \* the decisions entered so far
  spent      \* the nonces whose authorization has been spent

ledger == <<entries, spent>>

Entry == [nonce : Nonce, sequence : Nat, verdict : Verdict]

LedgerInit == entries = {} /\ spent = {}

(* Enter a decision.  Numbers are never reused, but need not come in order. *)
Enter ==
  /\ \E e \in entries' :
       /\ e \in Entry
       /\ entries' = entries \cup {e}
       /\ \A d \in entries : d.nonce # e.nonce /\ d.sequence # e.sequence
  /\ UNCHANGED spent

(* Spend the authorization that one entered decision gives.                *)
Spend ==
  /\ \E e \in entries :
       /\ e.verdict = "allow"
       /\ e.nonce \notin spent
       /\ spent' = spent \cup {e.nonce}
  /\ UNCHANGED entries

LedgerNext == Enter \/ Spend

LedgerSpec == LedgerInit /\ [][LedgerNext]_ledger
=============================================================================
