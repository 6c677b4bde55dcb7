---------------------------- MODULE EvidenceStore ----------------------------
(***************************************************************************)
(* What the evidence database promises to the code that calls it: the      *)
(* sequence counter, the evidence table and the consumed table of          *)
(* storage.py, each method taking effect in one indivisible step.          *)
(*                                                                         *)
(* SQLiteStore.tla models the same methods one SQL statement at a time and *)
(* is shown to implement this module; ReceiptManager.tla is built on it.   *)
(*                                                                         *)
(* A row is keyed by its nonce and its status.  The issuer, the third part *)
(* of the key, is left out: nonces are 128 random bits and one issuer      *)
(* never draws the nonce of another.                                       *)
(***************************************************************************)
EXTENDS Naturals

CONSTANTS
  Nonce,      \* nonces a receipt can carry
  Receipt     \* receipts: records with at least a nonce and a receipt_status

VARIABLES
  sequence,   \* meta.value of the row 'sequence'
  evidence,   \* rows of the table evidence (each row holds its receipt)
  consumed    \* nonces that have a row in the table consumed

store == <<sequence, evidence, consumed>>

StoreTypeOK ==
  /\ sequence \in Nat
  /\ evidence \subseteq Receipt
  /\ consumed \subseteq Nonce

StoreInit ==
  /\ sequence = 0
  /\ evidence = {}
  /\ consumed = {}

(* PRIMARY KEY(issuer, nonce, status) of the table evidence.               *)
Key(r) == <<r.nonce, r.receipt_status>>

(* next_sequence(): the number it returns is the counter's new value.      *)
NextSequence ==
  /\ sequence' = sequence + 1
  /\ UNCHANGED <<evidence, consumed>>

(* save_receipt(r): INSERT OR REPLACE, so a row with the same key is lost. *)
SaveReceipt(r) ==
  /\ evidence' = {e \in evidence : Key(e) # Key(r)} \cup {r}
  /\ UNCHANGED <<sequence, consumed>>

(* is_consumed(n).                                                         *)
IsConsumed(n) == n \in consumed

(* mark_consumed(n) when it succeeds; it raises, and changes nothing, when *)
(* the nonce already has a row.                                            *)
MarkConsumed(n) ==
  /\ ~IsConsumed(n)
  /\ consumed' = consumed \cup {n}
  /\ UNCHANGED <<sequence, evidence>>

StoreNext ==
  \/ NextSequence
  \/ \E r \in Receipt : SaveReceipt(r)
  \/ \E n \in Nonce : MarkConsumed(n)

StoreSpec == StoreInit /\ [][StoreNext]_store
=============================================================================
