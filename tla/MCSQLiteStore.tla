---------------------------- MODULE MCSQLiteStore ----------------------------
(* Three threads, two of which share a process.                            *)
EXTENDS SQLiteStore, TLC

CONSTANTS t1, t2, t3, p, q, n1, n2

TwoAndOne == t1 :> p @@ t2 :> p @@ t3 :> q

Rows == [nonce : Nonce, receipt_status : {"finalized"}, response_hash : {1, 2}]
=============================================================================
