----------------------------- MODULE SQLiteStore -----------------------------
(***************************************************************************)
(* storage.py one SQL statement at a time.  Every process that opens the   *)
(* database file has one SQLiteStore object with one re-entrant lock; its  *)
(* threads hold that lock while a writing method runs, and SQLite admits   *)
(* one writing transaction to the file at a time, whatever its process.    *)
(*                                                                         *)
(* A statement that finds another writer waits, and raises when the five   *)
(* seconds of the connection's timeout are over.  A process may die        *)
(* between any two statements: SQLite rolls its transaction back.          *)
(***************************************************************************)
EXTENDS Naturals

CONSTANTS
  Store,       \* SQLiteStore objects, one per process
  Thread,      \* threads that call them
  StoreOf,     \* the object each thread calls
  Nonce,       \* nonces
  Receipt,     \* receipts: records with a nonce and a receipt_status
  NoRow,       \* what there is where no row is
  Nobody,      \* the holder of a lock that is free
  MaxCalls     \* bound on the calls made

ASSUME StoreAssumption   == StoreOf \in [Thread -> Store]
ASSUME ReceiptAssumption == \A r \in Receipt : r.nonce \in Nonce
ASSUME NobodyAssumption  == Nobody \notin Thread /\ NoRow \notin Nat
ASSUME BoundAssumption   == MaxCalls \in Nat

VARIABLES
  tables,      \* tables and indexes the file has
  sequence,    \* the committed row meta('sequence'), or NoRow
  evidence,    \* the committed rows of the table evidence
  consumed,    \* the committed rows of the table consumed
  writer,      \* the thread whose transaction holds SQLite's write lock
  stage,       \* stage[s]: the statement of _init() that s is at, or "down", "up"
  lock,        \* lock[s]: the thread that holds s._lock
  pc,          \* pc[t]: the statement t is at
  op,          \* op[t]: the method t is in
  arg,         \* arg[t]: the receipt it was called with
  read,        \* read[t]: the number its SELECT and addition gave
  calls,       \* the number of calls so far
  given,       \* numbers that next_sequence() has returned
  won          \* nonces that some mark_consumed() has returned for

file == <<tables, sequence, evidence, consumed>>
frame == <<pc, op, arg, read>>
vars == <<file, writer, stage, lock, frame, calls, given, won>>

Table == {"meta", "evidence", "idx_evidence_trace", "consumed"}
Stage == {"down", "meta", "sequence", "evidence", "idx_evidence_trace", "consumed", "up"}
Steps == {"idle", "lock", "begin", "select", "write", "commit", "return", "raise"}
Op == {"next_sequence", "save_receipt", "mark_consumed"}

Init ==
  /\ tables = {}
  /\ sequence = NoRow
  /\ evidence = {}
  /\ consumed = {}
  /\ writer = Nobody
  /\ stage = [s \in Store |-> "down"]
  /\ lock = [s \in Store |-> Nobody]
  /\ pc = [t \in Thread |-> "idle"]
  /\ op = [t \in Thread |-> "none"]
  /\ arg = [t \in Thread |-> NoRow]
  /\ read = [t \in Thread |-> 0]
  /\ calls = 0
  /\ given = {}
  /\ won = {}
-----------------------------------------------------------------------------
(* The calls of the threads ts are over.                                   *)
Return(ts) ==
  /\ pc' = [t \in Thread |-> IF t \in ts THEN "idle" ELSE pc[t]]
  /\ op' = [t \in Thread |-> IF t \in ts THEN "none" ELSE op[t]]
  /\ arg' = [t \in Thread |-> IF t \in ts THEN NoRow ELSE arg[t]]
  /\ read' = [t \in Thread |-> IF t \in ts THEN 0 ELSE read[t]]

(* Opening the file: _init() is a script whose statements commit one by    *)
(* one.  Each of them leaves alone what is there already.  The PRAGMAs of  *)
(* _connect() choose the log and its fsync and change nothing that a       *)
(* statement reads.                                                        *)

Start(s) ==
  /\ stage[s] = "down"
  /\ stage' = [stage EXCEPT ![s] = "meta"]
  /\ UNCHANGED <<file, writer, lock, frame, calls, given, won>>

(* Mutant of CreateTable: a table that is there means that all is there.   *)
CreateTable_Shortcut(s, name, next) ==
  /\ stage[s] = name
  /\ name \in tables \/ writer = Nobody
  /\ tables' = tables \cup {name}
  /\ stage' = [stage EXCEPT ![s] = IF name \in tables THEN "up" ELSE next]
  /\ UNCHANGED <<sequence, evidence, consumed, writer, lock, frame, calls, given, won>>

(* CREATE TABLE or CREATE INDEX, IF NOT EXISTS.                            *)
CreateTable(s, name, next) ==
  /\ stage[s] = name
  /\ name \in tables \/ writer = Nobody
  /\ tables' = tables \cup {name}
  /\ stage' = [stage EXCEPT ![s] = next]
  /\ UNCHANGED <<sequence, evidence, consumed, writer, lock, frame, calls, given, won>>

(* Mutant of SeedSequence: INSERT OR REPLACE.                              *)
SeedSequence_Replace(s) ==
  /\ stage[s] = "sequence"
  /\ writer = Nobody
  /\ sequence' = 0
  /\ stage' = [stage EXCEPT ![s] = "evidence"]
  /\ UNCHANGED <<tables, evidence, consumed, writer, lock, frame, calls, given, won>>

(* INSERT OR IGNORE INTO meta VALUES('sequence', 0).                       *)
SeedSequence(s) ==
  /\ stage[s] = "sequence"
  /\ writer = Nobody
  /\ sequence' = IF sequence = NoRow THEN 0 ELSE sequence
  /\ stage' = [stage EXCEPT ![s] = "evidence"]
  /\ UNCHANGED <<tables, evidence, consumed, writer, lock, frame, calls, given, won>>

Open(s) ==
  \/ Start(s)
  \/ CreateTable(s, "meta", "sequence")
  \/ SeedSequence(s)
  \/ CreateTable(s, "evidence", "idx_evidence_trace")
  \/ CreateTable(s, "idx_evidence_trace", "consumed")
  \/ CreateTable(s, "consumed", "up")

(* A process dies, or gives up on a file that stays busy while it starts.  *)
Die(s) ==
  /\ stage[s] # "down"
  /\ stage' = [stage EXCEPT ![s] = "down"]
  /\ lock' = [lock EXCEPT ![s] = Nobody]
  /\ Return({t \in Thread : StoreOf[t] = s})
  /\ writer' = IF writer # Nobody /\ StoreOf[writer] = s THEN Nobody ELSE writer
  /\ UNCHANGED <<file, calls, given, won>>
-----------------------------------------------------------------------------
(* The writing methods.                                                    *)

Goto(t, s) == pc' = [pc EXCEPT ![t] = s]

(* next_sequence(), save_receipt(r) or mark_consumed(r.nonce) is called.   *)
Call(t) ==
  /\ pc[t] = "idle"
  /\ stage[StoreOf[t]] = "up"
  /\ calls < MaxCalls
  /\ calls' = calls + 1
  /\ \E o \in Op, r \in Receipt :
       /\ op' = [op EXCEPT ![t] = o]
       /\ arg' = [arg EXCEPT ![t] = r]
  /\ Goto(t, "lock")
  /\ UNCHANGED <<file, writer, stage, lock, read, given, won>>

(* with self._lock.  save_receipt() is one INSERT, outside a transaction.  *)
AcquireLock(t) ==
  /\ pc[t] = "lock"
  /\ lock[StoreOf[t]] = Nobody
  /\ lock' = [lock EXCEPT ![StoreOf[t]] = t]
  /\ Goto(t, IF op[t] = "save_receipt" THEN "write" ELSE "begin")
  /\ UNCHANGED <<file, writer, stage, op, arg, read, calls, given, won>>

(* Mutant of BeginImmediate: BEGIN, which does not lock the file.          *)
BeginImmediate_Deferred(t) ==
  /\ pc[t] = "begin"
  /\ Goto(t, "select")
  /\ UNCHANGED <<file, writer, stage, lock, op, arg, read, calls, given, won>>

BeginImmediate(t) ==
  /\ pc[t] = "begin"
  /\ writer = Nobody
  /\ writer' = t
  /\ Goto(t, "select")
  /\ UNCHANGED <<file, stage, lock, op, arg, read, calls, given, won>>

SelectSequence(t) ==
  /\ pc[t] = "select"
  /\ op[t] = "next_sequence"
  /\ read' = [read EXCEPT ![t] = sequence + 1]
  /\ Goto(t, "write")
  /\ UNCHANGED <<file, writer, stage, lock, op, arg, calls, given, won>>

(* The SELECT of mark_consumed(): a row means ROLLBACK and ValueError.     *)
SelectConsumed(t) ==
  /\ pc[t] = "select"
  /\ op[t] = "mark_consumed"
  /\ IF arg[t].nonce \in consumed
       THEN writer' = Nobody /\ Goto(t, "raise")
       ELSE UNCHANGED writer /\ Goto(t, "write")
  /\ UNCHANGED <<file, stage, lock, op, arg, read, calls, given, won>>

(* UPDATE meta, or INSERT INTO consumed: nobody sees it before the COMMIT. *)
WriteInTransaction(t) ==
  /\ pc[t] = "write"
  /\ op[t] # "save_receipt"
  /\ Goto(t, "commit")
  /\ UNCHANGED <<file, writer, stage, lock, op, arg, read, calls, given, won>>

Commit(t) ==
  /\ pc[t] = "commit"
  /\ IF op[t] = "next_sequence"
       THEN sequence' = read[t] /\ UNCHANGED consumed
       ELSE consumed' = consumed \cup {arg[t].nonce} /\ UNCHANGED sequence
  /\ writer' = Nobody
  /\ Goto(t, "return")
  /\ UNCHANGED <<tables, evidence, stage, lock, op, arg, read, calls, given, won>>

(* Mutant of InsertOrReplace: INSERT into a table without a primary key.   *)
InsertOrReplace_NoKey(t) ==
  /\ pc[t] = "write"
  /\ op[t] = "save_receipt"
  /\ writer = Nobody
  /\ evidence' = evidence \cup {arg[t]}
  /\ Goto(t, "return")
  /\ UNCHANGED <<tables, sequence, consumed, writer, stage, lock, op, arg, read,
                 calls, given, won>>

(* INSERT OR REPLACE, committed by itself.                                 *)
InsertOrReplace(t) ==
  /\ pc[t] = "write"
  /\ op[t] = "save_receipt"
  /\ writer = Nobody
  /\ evidence' = {e \in evidence : \/ e.nonce # arg[t].nonce
                                   \/ e.receipt_status # arg[t].receipt_status}
                   \cup {arg[t]}
  /\ Goto(t, "return")
  /\ UNCHANGED <<tables, sequence, consumed, writer, stage, lock, op, arg, read,
                 calls, given, won>>

(* sqlite3.OperationalError: "database is locked" for five seconds.        *)
Busy(t) ==
  /\ \/ pc[t] = "begin"
     \/ pc[t] = "write" /\ op[t] = "save_receipt"
  /\ writer # Nobody
  /\ Goto(t, "raise")
  /\ UNCHANGED <<file, writer, stage, lock, op, arg, read, calls, given, won>>

(* Mutant of Leave: an exception leaves the lock locked.                   *)
Leave_KeepsLock(t) ==
  /\ pc[t] \in {"return", "raise"}
  /\ lock' = IF pc[t] = "raise" THEN lock ELSE [lock EXCEPT ![StoreOf[t]] = Nobody]
  /\ given' = IF pc[t] = "return" /\ op[t] = "next_sequence"
                THEN given \cup {read[t]} ELSE given
  /\ won' = IF pc[t] = "return" /\ op[t] = "mark_consumed"
              THEN won \cup {arg[t].nonce} ELSE won
  /\ Return({t})
  /\ UNCHANGED <<file, writer, stage, calls>>

(* The with statement ends: the lock is released, the caller has a result. *)
Leave(t) ==
  /\ pc[t] \in {"return", "raise"}
  /\ lock' = [lock EXCEPT ![StoreOf[t]] = Nobody]
  /\ given' = IF pc[t] = "return" /\ op[t] = "next_sequence"
                THEN given \cup {read[t]} ELSE given
  /\ won' = IF pc[t] = "return" /\ op[t] = "mark_consumed"
              THEN won \cup {arg[t].nonce} ELSE won
  /\ Return({t})
  /\ UNCHANGED <<file, writer, stage, calls>>

Step(t) ==
  \/ AcquireLock(t) \/ BeginImmediate(t)
  \/ SelectSequence(t) \/ SelectConsumed(t) \/ WriteInTransaction(t)
  \/ Commit(t) \/ InsertOrReplace(t) \/ Busy(t) \/ Leave(t)

Next ==
  \/ \E s \in Store : Open(s) \/ Die(s)
  \/ \E t \in Thread : Call(t) \/ Step(t)

Spec == Init /\ [][Next]_vars

(* Every thread that can take a step eventually does: the scheduler's      *)
(* promise, and SQLite's that a wait is at most five seconds.              *)
FairSpec == Spec /\ \A t \in Thread : WF_vars(Step(t))
-----------------------------------------------------------------------------
(* PROPERTIES                                                              *)

TypeOK ==
  /\ tables \subseteq Table
  /\ sequence \in Nat \cup {NoRow}
  /\ evidence \subseteq Receipt
  /\ consumed \subseteq Nonce
  /\ writer \in Thread \cup {Nobody}
  /\ stage \in [Store -> Stage]
  /\ lock \in [Store -> Thread \cup {Nobody}]
  /\ pc \in [Thread -> Steps]
  /\ op \in [Thread -> Op \cup {"none"}]
  /\ arg \in [Thread -> Receipt \cup {NoRow}]
  /\ \A t \in Thread : pc[t] # "idle" => op[t] \in Op /\ arg[t] \in Receipt
  /\ read \in [Thread -> Nat]
  /\ calls \in Nat
  /\ given \subseteq Nat
  /\ won \subseteq Nonce

(* A number is never handed out twice: not to two threads, not to two      *)
(* processes, and not after a restart.                                     *)
NeverHandedOutTwice ==
  [][\A t \in Thread :
       (Leave(t) /\ pc[t] = "return" /\ op[t] = "next_sequence")
         => read[t] \notin given]_vars

(* Of all the mark_consumed() calls for a nonce, at most one returns.      *)
NeverMarkedTwice ==
  [][\A t \in Thread :
       (Leave(t) /\ pc[t] = "return" /\ op[t] = "mark_consumed")
         => arg[t].nonce \notin won]_vars

(* mark_consumed() that loses a race finds the row with its SELECT and     *)
(* raises ValueError, which consume() knows; its INSERT never meets the    *)
(* primary key, whose IntegrityError nothing catches.                      *)
InsertMeetsNoRow ==
  \A t \in Thread :
    (pc[t] \in {"write", "commit"} /\ op[t] = "mark_consumed")
      => arg[t].nonce \notin consumed

(* What a returned call did is in the file for good, through every crash.  *)
ReturnedIsDurable ==
  /\ won \subseteq consumed
  /\ \A n \in given : sequence # NoRow /\ n <= sequence

(* The lock keeps the threads of one process out of each other's way: the  *)
(* writer that a thread waits for is always in another process.            *)
NoSelfContention ==
  \A t, u \in Thread :
    (t # u /\ StoreOf[t] = StoreOf[u] /\ writer = u)
      => pc[t] \in {"idle", "lock"}

(* No method runs against a file that lacks a table or the counter's row,  *)
(* even if the process that opened it first died in the middle of _init(). *)
SchemaBeforeUse ==
  \A s \in Store : stage[s] = "up" => tables = Table /\ sequence # NoRow

(* Every call ends: with its result, with an exception, or with its        *)
(* process.  A thread never waits for ever, for the lock or for the file.  *)
EveryCallEnds == \A t \in Thread : (pc[t] # "idle") ~> (pc[t] = "idle")

Abstract == INSTANCE EvidenceStore WITH
  sequence <- IF sequence = NoRow THEN 0 ELSE sequence

(* The statements add up to indivisible methods: storage.py implements the *)
(* store that ReceiptManager.tla is built on.                              *)
ImplementsEvidenceStore == Abstract!StoreSpec
=============================================================================
