-------------------------- MODULE SQLiteStoreProofs --------------------------
(***************************************************************************)
(* Proofs about SQLiteStore.tla, for every number of processes, threads,   *)
(* nonces and calls.                                                       *)
(***************************************************************************)
EXTENDS SQLiteStore, TLAPS

(* t is inside BEGIN IMMEDIATE ... COMMIT.                                 *)
InTransaction(t) ==
  \/ pc[t] \in {"select", "commit"}
  \/ pc[t] = "write" /\ op[t] # "save_receipt"

(* The locks: a thread past the with statement has its store's lock, and   *)
(* a transaction has the file's.                                           *)
LockInv ==
  /\ \A t \in Thread : pc[t] \notin {"idle", "lock"} => lock[StoreOf[t]] = t
  /\ \A t \in Thread : InTransaction(t) <=> writer = t

(* Only a process that has run the whole of _init() has calls.             *)
SchemaInv ==
  /\ \A s \in Store : stage[s] \notin {"down", "meta"} => "meta" \in tables
  /\ \A s \in Store : stage[s] \notin {"down", "meta", "sequence"} => sequence # NoRow
  /\ \A s \in Store : stage[s] \in {"idx_evidence_trace", "consumed", "up"} => "evidence" \in tables
  /\ \A s \in Store : stage[s] \in {"consumed", "up"} => "idx_evidence_trace" \in tables
  /\ \A s \in Store : stage[s] = "up" => "consumed" \in tables
  /\ \A t \in Thread : pc[t] # "idle" => stage[StoreOf[t]] = "up"

Numbering(t) == op[t] = "next_sequence"
Marking(t) == op[t] = "mark_consumed"

(* A transaction works on the row as it is; a number that is about to be   *)
(* returned has been returned to nobody and is in nobody else's hands.     *)
NumberInv ==
  /\ \A t \in Thread : Numbering(t) /\ pc[t] \in {"write", "commit"}
                         => read[t] = sequence + 1
  /\ \A t \in Thread : Numbering(t) /\ pc[t] = "return"
                         => read[t] <= sequence /\ read[t] \notin given
  /\ \A t, u \in Thread : /\ Numbering(t) /\ pc[t] = "return"
                          /\ Numbering(u) /\ pc[u] = "return" /\ t # u
                          => read[t] # read[u]
  /\ \A n \in given : sequence # NoRow /\ n <= sequence

(* The same for the nonces that mark_consumed() returns for.               *)
MarkInv ==
  /\ InsertMeetsNoRow
  /\ \A t \in Thread : Marking(t) /\ pc[t] = "return"
                         => arg[t].nonce \in consumed \ won
  /\ \A t, u \in Thread : /\ Marking(t) /\ pc[t] = "return"
                          /\ Marking(u) /\ pc[u] = "return" /\ t # u
                          => arg[t].nonce # arg[u].nonce
  /\ won \subseteq consumed

(* No thread is in a SELECT of save_receipt().                             *)
MethodInv == \A t \in Thread : pc[t] \in {"begin", "select", "commit"}
                                 => op[t] # "save_receipt"

StoreInv == TypeOK /\ LockInv /\ SchemaInv /\ MethodInv /\ NumberInv /\ MarkInv

(* Types: the number a SELECT gives is one because the row is there.        *)
LEMMA TypeStep ==
  ASSUME StoreInv, [Next]_vars
  PROVE  TypeOK'
<1> USE StoreAssumption, ReceiptAssumption, NobodyAssumption DEF StoreInv, TypeOK, Table, Stage, Steps, Op
<1>1. CASE UNCHANGED vars
    BY <1>1 DEF vars, file, frame
<1>2. ASSUME NEW s \in Store, Open(s) PROVE TypeOK'
  <2>1. CASE Start(s)
    BY <2>1 DEF Start, frame, file
  <2>2. CASE SeedSequence(s)
    BY <2>2 DEF SeedSequence, frame
  <2>3. ASSUME NEW name \in Table, NEW next \in Stage, CreateTable(s, name, next)
        PROVE  TypeOK'
    <3>1. tables' \subseteq Table /\ stage' \in [Store -> Stage]
      BY <2>3 DEF CreateTable
    <3> QED BY <2>3, <3>1 DEF CreateTable, frame
  <2> QED BY <1>2, <2>1, <2>2, <2>3 DEF Open
<1>3. ASSUME NEW s \in Store, Die(s) PROVE TypeOK'
    BY <1>3 DEF Die, Return, file
<1>4. ASSUME NEW t \in Thread, Call(t) PROVE TypeOK'
    BY <1>4 DEF Call, Goto, file
<1>5. ASSUME NEW t \in Thread, AcquireLock(t) PROVE TypeOK'
    BY <1>5 DEF AcquireLock, Goto, file
<1>6. ASSUME NEW t \in Thread, BeginImmediate(t) PROVE TypeOK'
    BY <1>6 DEF BeginImmediate, Goto, file
<1>7. ASSUME NEW t \in Thread, SelectSequence(t) PROVE TypeOK'
    BY <1>7 DEF SelectSequence, Goto, file, SchemaInv
<1>8. ASSUME NEW t \in Thread, SelectConsumed(t) PROVE TypeOK'
    BY <1>8 DEF SelectConsumed, Goto, file
<1>9. ASSUME NEW t \in Thread, WriteInTransaction(t) PROVE TypeOK'
    BY <1>9 DEF WriteInTransaction, Goto, file
<1>10. ASSUME NEW t \in Thread, Commit(t) PROVE TypeOK'
    BY <1>10 DEF Commit, Goto, file
<1>11. ASSUME NEW t \in Thread, InsertOrReplace(t) PROVE TypeOK'
    BY <1>11 DEF InsertOrReplace, Goto, file
<1>12. ASSUME NEW t \in Thread, Busy(t) PROVE TypeOK'
    BY <1>12 DEF Busy, Goto, file
<1>13. ASSUME NEW t \in Thread, Leave(t) PROVE TypeOK'
    BY <1>13 DEF Leave, Return, file
<1> QED
  BY <1>1, <1>2, <1>3, <1>4, <1>5, <1>6, <1>7, <1>8, <1>9, <1>10, <1>11, <1>12, <1>13 DEF Next, Step

(* The locks change hands only when they are free.                         *)
LEMMA LockStep ==
  ASSUME StoreInv, [Next]_vars
  PROVE  LockInv'
<1> USE StoreAssumption, NobodyAssumption DEF StoreInv, TypeOK, LockInv, InTransaction, Steps, MethodInv
<1>1. CASE UNCHANGED vars
    BY <1>1 DEF vars, file, frame
<1>2. ASSUME NEW s \in Store, Open(s) PROVE LockInv'
    BY <1>2 DEF Open, Start, CreateTable, SeedSequence, frame, file
<1>3. ASSUME NEW s \in Store, Die(s) PROVE LockInv'
    BY <1>3 DEF Die, Return, file
<1>4. ASSUME NEW t \in Thread, Call(t) PROVE LockInv'
    BY <1>4 DEF Call, Goto, file
<1>5. ASSUME NEW t \in Thread, AcquireLock(t) PROVE LockInv'
    BY <1>5 DEF AcquireLock, Goto, file
<1>6. ASSUME NEW t \in Thread, BeginImmediate(t) PROVE LockInv'
    BY <1>6 DEF BeginImmediate, Goto, file
<1>7. ASSUME NEW t \in Thread, SelectSequence(t) PROVE LockInv'
    BY <1>7 DEF SelectSequence, Goto, file
<1>8. ASSUME NEW t \in Thread, SelectConsumed(t) PROVE LockInv'
    BY <1>8 DEF SelectConsumed, Goto, file
<1>9. ASSUME NEW t \in Thread, WriteInTransaction(t) PROVE LockInv'
    BY <1>9 DEF WriteInTransaction, Goto, file
<1>10. ASSUME NEW t \in Thread, Commit(t) PROVE LockInv'
    BY <1>10 DEF Commit, Goto, file
<1>11. ASSUME NEW t \in Thread, InsertOrReplace(t) PROVE LockInv'
    BY <1>11 DEF InsertOrReplace, Goto, file
<1>12. ASSUME NEW t \in Thread, Busy(t) PROVE LockInv'
    BY <1>12 DEF Busy, Goto, file
<1>13. ASSUME NEW t \in Thread, Leave(t) PROVE LockInv'
    BY <1>13 DEF Leave, Return, file
<1> QED
  BY <1>1, <1>2, <1>3, <1>4, <1>5, <1>6, <1>7, <1>8, <1>9, <1>10, <1>11, <1>12, <1>13 DEF Next, Step

(* A method follows its own statements.                                    *)
LEMMA MethodStep ==
  ASSUME StoreInv, [Next]_vars
  PROVE  MethodInv'
<1> USE StoreAssumption DEF StoreInv, TypeOK, MethodInv
<1>1. CASE UNCHANGED vars
    BY <1>1 DEF vars, file, frame
<1>2. ASSUME NEW s \in Store, Open(s) PROVE MethodInv'
    BY <1>2 DEF Open, Start, CreateTable, SeedSequence, frame, file
<1>3. ASSUME NEW s \in Store, Die(s) PROVE MethodInv'
    BY <1>3 DEF Die, Return, file
<1>4. ASSUME NEW t \in Thread, Call(t) PROVE MethodInv'
    BY <1>4 DEF Call, Goto, file
<1>5. ASSUME NEW t \in Thread, AcquireLock(t) PROVE MethodInv'
    BY <1>5 DEF AcquireLock, Goto, file
<1>6. ASSUME NEW t \in Thread, BeginImmediate(t) PROVE MethodInv'
    BY <1>6 DEF BeginImmediate, Goto, file
<1>7. ASSUME NEW t \in Thread, SelectSequence(t) PROVE MethodInv'
    BY <1>7 DEF SelectSequence, Goto, file
<1>8. ASSUME NEW t \in Thread, SelectConsumed(t) PROVE MethodInv'
    BY <1>8 DEF SelectConsumed, Goto, file
<1>9. ASSUME NEW t \in Thread, WriteInTransaction(t) PROVE MethodInv'
    BY <1>9 DEF WriteInTransaction, Goto, file
<1>10. ASSUME NEW t \in Thread, Commit(t) PROVE MethodInv'
    BY <1>10 DEF Commit, Goto, file
<1>11. ASSUME NEW t \in Thread, InsertOrReplace(t) PROVE MethodInv'
    BY <1>11 DEF InsertOrReplace, Goto, file
<1>12. ASSUME NEW t \in Thread, Busy(t) PROVE MethodInv'
    BY <1>12 DEF Busy, Goto, file
<1>13. ASSUME NEW t \in Thread, Leave(t) PROVE MethodInv'
    BY <1>13 DEF Leave, Return, file
<1> QED
  BY <1>1, <1>2, <1>3, <1>4, <1>5, <1>6, <1>7, <1>8, <1>9, <1>10, <1>11, <1>12, <1>13 DEF Next, Step

(* Each statement of _init() leaves what the earlier ones made.            *)
LEMMA SchemaStep ==
  ASSUME StoreInv, [Next]_vars
  PROVE  SchemaInv'
<1> USE StoreAssumption, NobodyAssumption DEF StoreInv, TypeOK, SchemaInv, Stage, MethodInv, NumberInv
<1>1. CASE UNCHANGED vars
    BY <1>1 DEF vars, file, frame
<1>2. ASSUME NEW s \in Store, Open(s) PROVE SchemaInv'
  <2>1. CASE Start(s)
    BY <2>1 DEF Start, frame, file
  <2>2. CASE SeedSequence(s)
    BY <2>2 DEF SeedSequence, frame
  <2>3. CASE CreateTable(s, "meta", "sequence")
    BY <2>3 DEF CreateTable, frame
  <2>4. CASE CreateTable(s, "evidence", "idx_evidence_trace")
    BY <2>4 DEF CreateTable, frame
  <2>5. CASE CreateTable(s, "idx_evidence_trace", "consumed")
    BY <2>5 DEF CreateTable, frame
  <2>6. CASE CreateTable(s, "consumed", "up")
    BY <2>6 DEF CreateTable, frame
  <2> QED BY <1>2, <2>1, <2>2, <2>3, <2>4, <2>5, <2>6 DEF Open
<1>3. ASSUME NEW s \in Store, Die(s) PROVE SchemaInv'
    BY <1>3 DEF Die, Return, file
<1>4. ASSUME NEW t \in Thread, Call(t) PROVE SchemaInv'
    BY <1>4 DEF Call, Goto, file
<1>5. ASSUME NEW t \in Thread, AcquireLock(t) PROVE SchemaInv'
    BY <1>5 DEF AcquireLock, Goto, file
<1>6. ASSUME NEW t \in Thread, BeginImmediate(t) PROVE SchemaInv'
    BY <1>6 DEF BeginImmediate, Goto, file
<1>7. ASSUME NEW t \in Thread, SelectSequence(t) PROVE SchemaInv'
    BY <1>7 DEF SelectSequence, Goto, file
<1>8. ASSUME NEW t \in Thread, SelectConsumed(t) PROVE SchemaInv'
    BY <1>8 DEF SelectConsumed, Goto, file
<1>9. ASSUME NEW t \in Thread, WriteInTransaction(t) PROVE SchemaInv'
    BY <1>9 DEF WriteInTransaction, Goto, file
<1>10. ASSUME NEW t \in Thread, Commit(t) PROVE SchemaInv'
    BY <1>10 DEF Commit, Goto, file
<1>11. ASSUME NEW t \in Thread, InsertOrReplace(t) PROVE SchemaInv'
    BY <1>11 DEF InsertOrReplace, Goto, file
<1>12. ASSUME NEW t \in Thread, Busy(t) PROVE SchemaInv'
    BY <1>12 DEF Busy, Goto, file
<1>13. ASSUME NEW t \in Thread, Leave(t) PROVE SchemaInv'
    BY <1>13 DEF Leave, Return, file
<1> QED
  BY <1>1, <1>2, <1>3, <1>4, <1>5, <1>6, <1>7, <1>8, <1>9, <1>10, <1>11, <1>12, <1>13 DEF Next, Step

(* The counter moves only at the COMMIT of the one open transaction.       *)
LEMMA NumberStep ==
  ASSUME StoreInv, [Next]_vars
  PROVE  NumberInv'
<1> USE StoreAssumption, NobodyAssumption DEF StoreInv, TypeOK, NumberInv, LockInv, InTransaction, SchemaInv, Numbering, Op, Stage
<1>1. CASE UNCHANGED vars
  BY <1>1 DEF vars, file, frame
<1>2. ASSUME NEW s \in Store, Open(s) PROVE NumberInv'
  <2>1. UNCHANGED <<frame, given>>
    BY <1>2 DEF Open, Start, CreateTable, SeedSequence
  <2>2. CASE UNCHANGED sequence
    BY <2>1, <2>2 DEF frame
  <2>3. CASE sequence = NoRow
    <3>1. given = {} /\ \A t \in Thread : pc[t] = "idle"
      BY <2>3
    <3> QED BY <2>1, <3>1 DEF frame
  <2> QED BY <1>2, <2>2, <2>3 DEF Open, Start, CreateTable, SeedSequence, file
<1>3. ASSUME NEW s \in Store, Die(s) PROVE NumberInv'
  BY <1>3 DEF Die, Return, file
<1>4. ASSUME NEW t \in Thread, Call(t) PROVE NumberInv'
  BY <1>4 DEF Call, Goto, file
<1>5. ASSUME NEW t \in Thread, AcquireLock(t) PROVE NumberInv'
  BY <1>5 DEF AcquireLock, Goto, file
<1>6. ASSUME NEW t \in Thread, BeginImmediate(t) PROVE NumberInv'
  BY <1>6 DEF BeginImmediate, Goto, file
<1>7. ASSUME NEW t \in Thread, SelectSequence(t) PROVE NumberInv'
  BY <1>7 DEF SelectSequence, Goto, file
<1>8. ASSUME NEW t \in Thread, SelectConsumed(t) PROVE NumberInv'
  BY <1>8 DEF SelectConsumed, Goto, file
<1>9. ASSUME NEW t \in Thread, WriteInTransaction(t) PROVE NumberInv'
  BY <1>9 DEF WriteInTransaction, Goto, file
<1>10. ASSUME NEW t \in Thread, Commit(t) PROVE NumberInv'
  BY <1>10 DEF Commit, Goto, file
<1>11. ASSUME NEW t \in Thread, InsertOrReplace(t) PROVE NumberInv'
  BY <1>11 DEF InsertOrReplace, Goto, file
<1>12. ASSUME NEW t \in Thread, Busy(t) PROVE NumberInv'
  BY <1>12 DEF Busy, Goto, file
<1>13. ASSUME NEW t \in Thread, Leave(t) PROVE NumberInv'
  BY <1>13 DEF Leave, Return, file
<1> QED
  BY <1>1, <1>2, <1>3, <1>4, <1>5, <1>6, <1>7, <1>8, <1>9, <1>10, <1>11, <1>12, <1>13 DEF Next, Step

(* A nonce is inserted only by the transaction that found no row.          *)
LEMMA MarkStep ==
  ASSUME StoreInv, [Next]_vars
  PROVE  MarkInv'
<1> USE StoreAssumption, NobodyAssumption DEF StoreInv, TypeOK, MarkInv, InsertMeetsNoRow, LockInv, InTransaction, Marking, Op
<1>1. CASE UNCHANGED vars
  BY <1>1 DEF vars, file, frame
<1>2. ASSUME NEW s \in Store, Open(s) PROVE MarkInv'
  BY <1>2 DEF Open, Start, CreateTable, SeedSequence, frame, file
<1>3. ASSUME NEW s \in Store, Die(s) PROVE MarkInv'
  BY <1>3 DEF Die, Return, file
<1>4. ASSUME NEW t \in Thread, Call(t) PROVE MarkInv'
  BY <1>4 DEF Call, Goto, file
<1>5. ASSUME NEW t \in Thread, AcquireLock(t) PROVE MarkInv'
  BY <1>5 DEF AcquireLock, Goto, file
<1>6. ASSUME NEW t \in Thread, BeginImmediate(t) PROVE MarkInv'
  BY <1>6 DEF BeginImmediate, Goto, file
<1>7. ASSUME NEW t \in Thread, SelectSequence(t) PROVE MarkInv'
  BY <1>7 DEF SelectSequence, Goto, file
<1>8. ASSUME NEW t \in Thread, SelectConsumed(t) PROVE MarkInv'
  BY <1>8 DEF SelectConsumed, Goto, file
<1>9. ASSUME NEW t \in Thread, WriteInTransaction(t) PROVE MarkInv'
  BY <1>9 DEF WriteInTransaction, Goto, file
<1>10. ASSUME NEW t \in Thread, Commit(t) PROVE MarkInv'
  BY <1>10 DEF Commit, Goto, file
<1>11. ASSUME NEW t \in Thread, InsertOrReplace(t) PROVE MarkInv'
  BY <1>11 DEF InsertOrReplace, Goto, file
<1>12. ASSUME NEW t \in Thread, Busy(t) PROVE MarkInv'
  BY <1>12 DEF Busy, Goto, file
<1>13. ASSUME NEW t \in Thread, Leave(t) PROVE MarkInv'
  BY <1>13 DEF Leave, Return, file
<1> QED
  BY <1>1, <1>2, <1>3, <1>4, <1>5, <1>6, <1>7, <1>8, <1>9, <1>10, <1>11, <1>12, <1>13 DEF Next, Step

LEMMA StoreInvariant == Spec => []StoreInv
<1>1. Init => StoreInv
  BY NobodyAssumption DEF Init, StoreInv, TypeOK, LockInv, SchemaInv, MethodInv,
     NumberInv, MarkInv, InsertMeetsNoRow, InTransaction, Numbering, Marking,
     Stage, Steps
<1>2. StoreInv /\ [Next]_vars => StoreInv'
  BY TypeStep, LockStep, MethodStep, SchemaStep, NumberStep, MarkStep DEF StoreInv
<1> QED BY <1>1, <1>2, PTL DEF Spec

(* The variables have their types, the counter's row included.             *)
THEOREM StoreTypeCorrect == Spec => []TypeOK
<1>1. StoreInv => TypeOK
  BY DEF StoreInv
<1> QED BY <1>1, StoreInvariant, PTL

(* mark_consumed() never meets the primary key of the table consumed.      *)
THEOREM NoIntegrityError == Spec => []InsertMeetsNoRow
<1>1. StoreInv => InsertMeetsNoRow
  BY DEF StoreInv, MarkInv
<1> QED BY <1>1, StoreInvariant, PTL

(* What has been returned is in the file, through every death of a process. *)
THEOREM Durable == Spec => []ReturnedIsDurable
<1>1. StoreInv => ReturnedIsDurable
  BY DEF StoreInv, MarkInv, NumberInv, ReturnedIsDurable
<1> QED BY <1>1, StoreInvariant, PTL

(* The threads of one process never wait for each other in SQLite.         *)
THEOREM LockPreventsContention == Spec => []NoSelfContention
<1>1. StoreInv => NoSelfContention
  BY DEF StoreInv, LockInv, InTransaction, NoSelfContention
<1> QED BY <1>1, StoreInvariant, PTL

(* Nobody uses a file that is not completely set up.                       *)
THEOREM SchemaComplete == Spec => []SchemaBeforeUse
<1>1. StoreInv => SchemaBeforeUse
  BY DEF StoreInv, TypeOK, Table, SchemaInv, SchemaBeforeUse
<1> QED BY <1>1, StoreInvariant, PTL

(* next_sequence() never returns a number for the second time.             *)
THEOREM NumbersUnique == Spec => NeverHandedOutTwice
<1>1. StoreInv => \A t \in Thread :
        pc[t] = "return" /\ op[t] = "next_sequence" => read[t] \notin given
  BY DEF StoreInv, NumberInv, Numbering
<1>2. StoreInv => [\A t \in Thread :
                     (Leave(t) /\ pc[t] = "return" /\ op[t] = "next_sequence")
                       => read[t] \notin given]_vars
  BY <1>1
<1> QED BY <1>2, StoreInvariant, PTL DEF NeverHandedOutTwice

(* mark_consumed() returns at most once for a nonce.                       *)
THEOREM MarksUnique == Spec => NeverMarkedTwice
<1>1. StoreInv => \A t \in Thread :
        pc[t] = "return" /\ op[t] = "mark_consumed" => arg[t].nonce \notin won
  BY DEF StoreInv, MarkInv, Marking
<1>2. StoreInv => [\A t \in Thread :
                     (Leave(t) /\ pc[t] = "return" /\ op[t] = "mark_consumed")
                       => arg[t].nonce \notin won]_vars
  BY <1>1
<1> QED BY <1>2, StoreInvariant, PTL DEF NeverMarkedTwice

(* The statements implement the indivisible methods: each method takes     *)
(* effect at its COMMIT, or with the one INSERT that save_receipt() is.    *)
THEOREM StoreImplemented == Spec => ImplementsEvidenceStore
<1> DEFINE counter == IF sequence = NoRow THEN 0 ELSE sequence
<1>1. Init => Abstract!StoreInit
  BY DEF Init, Abstract!StoreInit
<1>2. StoreInv /\ [Next]_vars => [Abstract!StoreNext]_<<counter, evidence, consumed>>
  <2> SUFFICES ASSUME StoreInv, [Next]_vars,
                      ~UNCHANGED <<counter, evidence, consumed>>
               PROVE  Abstract!StoreNext
    OBVIOUS
  <2>1. ASSUME NEW s \in Store, SeedSequence(s)
        PROVE  UNCHANGED <<counter, evidence, consumed>>
    BY <2>1, NobodyAssumption DEF SeedSequence
  <2>2. ASSUME NEW t \in Thread, Commit(t), op[t] = "next_sequence"
        PROVE  Abstract!NextSequence
    <3>1. read[t] = sequence + 1 /\ pc[t] = "commit"
      BY <2>2 DEF StoreInv, NumberInv, Numbering, Commit
    <3>2. sequence \in Nat
      BY <2>2, <3>1, StoreAssumption DEF StoreInv, SchemaInv, TypeOK
    <3> QED BY <2>2, <3>1, <3>2, NobodyAssumption DEF Commit, Abstract!NextSequence
  <2>3. ASSUME NEW t \in Thread, Commit(t), op[t] # "next_sequence"
        PROVE  \E n \in Nonce : Abstract!MarkConsumed(n)
    <3>1. op[t] = "mark_consumed" /\ pc[t] = "commit" /\ arg[t] \in Receipt
      BY <2>3 DEF StoreInv, MethodInv, TypeOK, Op, Commit
    <3>2. arg[t].nonce \in Nonce \ consumed
      BY <3>1, ReceiptAssumption DEF StoreInv, MarkInv, InsertMeetsNoRow
    <3> QED BY <2>3, <3>2 DEF Commit, Abstract!MarkConsumed, Abstract!IsConsumed
  <2>4. ASSUME NEW t \in Thread, InsertOrReplace(t)
        PROVE  \E r \in Receipt : Abstract!SaveReceipt(r)
    <3>1. arg[t] \in Receipt
      BY <2>4 DEF StoreInv, TypeOK, InsertOrReplace
    <3>2. \A e : Abstract!Key(e) # Abstract!Key(arg[t])
                 <=> \/ e.nonce # arg[t].nonce
                     \/ e.receipt_status # arg[t].receipt_status
      BY DEF Abstract!Key
    <3>3. evidence' = {e \in evidence : Abstract!Key(e) # Abstract!Key(arg[t])} \cup {arg[t]}
      BY <2>4, <3>2 DEF InsertOrReplace
    <3> QED BY <2>4, <3>1, <3>3 DEF InsertOrReplace, Abstract!SaveReceipt
  <2>5. \/ \E s \in Store : SeedSequence(s)
        \/ \E t \in Thread : Commit(t) \/ InsertOrReplace(t)
    BY DEF Next, Step, Open, Start, CreateTable, Die, Call, AcquireLock, BeginImmediate,
       SelectSequence, SelectConsumed, WriteInTransaction, Busy, Leave, vars, file
  <2> QED BY <2>1, <2>2, <2>3, <2>4, <2>5 DEF Abstract!StoreNext
<1> QED
  BY <1>1, <1>2, StoreInvariant, PTL
  DEF Spec, ImplementsEvidenceStore, Abstract!StoreSpec, Abstract!store
=============================================================================
