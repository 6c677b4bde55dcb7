--------------------------- MODULE LocalGuardProofs ---------------------------
(***************************************************************************)
(* Proofs about LocalGuard.tla, for any number of calls, managers and keys.*)
(***************************************************************************)
EXTENDS LocalGuard, TLAPS

(* A new admission is a receipt of its call.                               *)
LEMMA AdmissionType ==
  ASSUME TypeOK, NEW c \in Call, NEW v \in Verdict
  PROVE  /\ Admission(c, v) \in Receipt
         /\ Admission(c, v) # None
         /\ Admission(c, v).nonce = c
         /\ Admission(c, v).verdict = v
         /\ Admission(c, v).sequence = sequence[ManagerOf[c]] + 1
BY ManagerAssumption, KeyAssumption, TimeAssumption, NoneAssumption
   DEF TypeOK, Admission, Receipt, Status

(* finalize() makes a receipt of the same decision.                        *)
LEMMA FinalizedType ==
  ASSUME NEW m \in Manager, NEW r \in Receipt, NEW x \in Hashable
  PROVE  /\ Finalized(m, r, x) \in Receipt
         /\ Finalized(m, r, x) # None
         /\ SameDecision(Finalized(m, r, x), r)
         /\ Finalized(m, r, x).receipt_status = "finalized"
         /\ Finalized(m, r, x).response_hash = x
BY KeyAssumption, NoneAssumption DEF Finalized, Receipt, Status, SameDecision

(* And so does consume().                                                  *)
LEMMA ConsumedType ==
  ASSUME NEW m \in Manager, NEW r \in Receipt
  PROVE  /\ [r EXCEPT !.receipt_status = "consumed", !.key = KeyOf[m]] \in Receipt
         /\ SameDecision([r EXCEPT !.receipt_status = "consumed", !.key = KeyOf[m]], r)
BY KeyAssumption DEF Receipt, Status, SameDecision

-----------------------------------------------------------------------------
(* THE INVARIANT                                                           *)

(* What the steps of one call leave behind: a call that waits for its tool *)
(* or has its output holds an admission of its own that allows it.         *)
Flow(c) ==
  /\ pc[c] = "idle" => receipt[c] = None /\ output[c] = None /\ result[c] = None
  /\ pc[c] \in {"running", "returned"} => receipt[c] # None /\ result[c] = None
  /\ pc[c] = "running" => receipt[c].verdict = "allow" /\ output[c] = None
  /\ pc[c] = "returned" => output[c] # None
  /\ output[c] # None => receipt[c] # None /\ receipt[c].verdict = "allow"
  /\ receipt[c] # None => /\ receipt[c].nonce = c
                          /\ receipt[c].sequence <= sequence[ManagerOf[c]]

FlowInv == (\A c \in Call : Flow(c)) /\ EvidenceOfOwnRun /\ DecisionsKept

(* A step that enters a decision, and no output, keeps the invariant.      *)
LEMMA NewDecision ==
  ASSUME TypeOK, FlowInv, NEW c \in Call, NEW v \in Verdict,
         pc[c] = "idle", Verify(c, v), UNCHANGED <<clock, consumed, output, result, grants>>,
         NEW s \in {"running", "denied", "handed"}, Goto(c, s),
         s = "running" => v = "allow",
         held' \in {held, held \cup {receipt'[c]}}
  PROVE  TypeOK' /\ FlowInv'
<1> DEFINE a == Admission(c, v)
<1>1. /\ a \in Receipt /\ a # None
      /\ a.nonce = c /\ a.verdict = v /\ a.sequence = sequence[ManagerOf[c]] + 1
  BY AdmissionType
<1>2. /\ receipt'[c] = a
      /\ \A d \in Call : d # c => receipt'[d] = receipt[d]
      /\ pc'[c] = s
      /\ \A d \in Call : d # c => pc'[d] = pc[d]
  BY DEF Verify, Goto, TypeOK
<1>3. /\ sequence'[ManagerOf[c]] = sequence[ManagerOf[c]] + 1
      /\ \A d \in Call : ManagerOf[d] # ManagerOf[c]
                          => sequence'[ManagerOf[d]] = sequence[ManagerOf[d]]
      /\ \A d \in Call : sequence[ManagerOf[d]] \in Nat
  BY ManagerAssumption DEF Verify, TypeOK
<1>4. \A d \in Call : receipt[d] # None =>
        receipt[d].sequence \in Nat /\ receipt[d].sequence <= sequence[ManagerOf[d]]
  BY DEF FlowInv, Flow, TypeOK, Receipt
<1> HIDE DEF a
<1>0. TypeOK'
  <2>1. sequence' \in [Manager -> Nat]
    <3>1. sequence' = [sequence EXCEPT ![ManagerOf[c]] = @ + 1]
      BY DEF Verify
    <3> QED  BY <3>1, ManagerAssumption DEF TypeOK
  <2>2. receipt' = [receipt EXCEPT ![c] = a]
    BY DEF Verify, a
  <2>3. receipt' \in [Call -> Receipt \cup {None}]
    BY <1>1, <2>2 DEF TypeOK
  <2>4. pc' \in [Call -> Steps]
    BY DEF TypeOK, Goto, Steps
  <2>5. held' \subseteq Receipt
    BY <1>1, <1>2 DEF TypeOK
  <2> QED  BY <2>1, <2>3, <2>4, <2>5 DEF TypeOK
<1>5. ASSUME NEW d \in Call PROVE Flow(d)'
  <2>1. CASE d = c
    BY <1>1, <1>2, <1>3, <2>1 DEF FlowInv, Flow
  <2>2. CASE d # c
    <3>1. sequence[ManagerOf[d]] <= sequence'[ManagerOf[d]]
      BY <1>3
    <3>2. receipt[d] # None => receipt[d].sequence <= sequence'[ManagerOf[d]]
      BY <1>3, <1>4, <3>1
    <3> QED  BY <1>2, <2>2, <3>2 DEF FlowInv, Flow
  <2> QED  BY <2>1, <2>2
<1>6. EvidenceOfOwnRun'
  <2> SUFFICES ASSUME NEW d \in Call
               PROVE  /\ (pc'[d] = "running" \/ output'[d] # None)
                           => receipt'[d] # None /\ receipt'[d].verdict = "allow"
                      /\ result'[d] # None =>
                           /\ result'[d].receipt_status = "finalized"
                           /\ result'[d].response_hash = output'[d]
                           /\ SameDecision(result'[d], receipt'[d])
    BY DEF EvidenceOfOwnRun, SameDecision
  <2>1. CASE d = c
    BY <1>1, <1>2, <2>1 DEF FlowInv, Flow
  <2>2. CASE d # c
    BY <1>2, <2>2 DEF FlowInv, EvidenceOfOwnRun
  <2> QED  BY <2>1, <2>2
<1>7. DecisionsKept'
  <2>1. ASSUME NEW r \in held'
        PROVE  receipt'[r.nonce] # None /\ SameDecision(r, receipt'[r.nonce])
    <3>1. CASE r \in held
      <4>1. r.nonce \in Call /\ receipt[r.nonce] # None
            /\ SameDecision(r, receipt[r.nonce])
        BY <3>1 DEF FlowInv, DecisionsKept, TypeOK, Receipt
      <4>2. r.nonce # c
        BY <4>1 DEF FlowInv, Flow
      <4> QED  BY <1>2, <4>1, <4>2
    <3>2. CASE r = a
      BY <1>1, <1>2, <3>2 DEF SameDecision
    <3> QED  BY <1>2, <3>1, <3>2
  <2>2. ASSUME NEW d \in Call, NEW e \in Call, d # e, ManagerOf[d] = ManagerOf[e],
               receipt'[d] # None, receipt'[e] # None
        PROVE  receipt'[d].sequence # receipt'[e].sequence
    BY <1>1, <1>2, <1>3, <1>4, <2>2 DEF FlowInv, DecisionsKept
  <2> QED  BY <2>1, <2>2 DEF DecisionsKept, SameDecision
<1> QED  BY <1>0, <1>5, <1>6, <1>7 DEF FlowInv

(* A step that puts a receipt of a known decision into circulation, and    *)
(* changes nothing else of the calls, keeps it too.                        *)
LEMMA AnotherCopy ==
  ASSUME TypeOK, FlowInv, UNCHANGED <<sequence, pc, receipt, output, result>>,
         NEW r \in held, NEW s \in Receipt, SameDecision(s, r),
         held' = held \cup {s}
  PROVE  FlowInv'
<1>1. \A c \in Call : Flow(c)'
  BY DEF FlowInv, Flow
<1>2. EvidenceOfOwnRun'
  BY DEF FlowInv, EvidenceOfOwnRun, SameDecision
<1>3. s.nonce = r.nonce /\ receipt[r.nonce] # None /\ SameDecision(s, receipt[r.nonce])
  BY DEF FlowInv, DecisionsKept, SameDecision
<1>4. DecisionsKept'
  BY <1>3 DEF FlowInv, DecisionsKept, SameDecision
<1> QED  BY <1>1, <1>2, <1>4 DEF FlowInv

(* The end of a call whose output can be hashed.                           *)
LEMMA Fulfilled ==
  ASSUME TypeOK, FlowInv, NEW c \in Call, Resume(c), output[c] \in Hashable
  PROVE  TypeOK' /\ FlowInv'
<1> DEFINE f == Finalized(ManagerOf[c], receipt[c], output[c])
<1>1. /\ pc[c] = "returned" /\ pc' = [pc EXCEPT ![c] = "fulfilled"]
      /\ result' = [result EXCEPT ![c] = f]
      /\ held' \in {held, held \cup {f}}
      /\ UNCHANGED <<clock, sequence, consumed, receipt, output, grants>>
  BY DEF Resume, Goto, manager, TypeOK
<1>2. receipt[c] \in Receipt /\ receipt[c].nonce = c /\ receipt[c] # None
  BY <1>1 DEF FlowInv, Flow, TypeOK
<1>3. /\ f \in Receipt /\ f # None /\ SameDecision(f, receipt[c])
      /\ f.receipt_status = "finalized" /\ f.response_hash = output[c]
  BY <1>2, FinalizedType, ManagerAssumption
<1> HIDE DEF f
<1>4. TypeOK'
  BY <1>1, <1>3 DEF TypeOK, Steps
<1>5. \A d \in Call : Flow(d)'
  BY <1>1 DEF FlowInv, Flow, TypeOK
<1>6. EvidenceOfOwnRun'
  <2>1. \A d \in Call : /\ d = c => result'[d] = f
                        /\ d # c => result'[d] = result[d]
    BY <1>1 DEF TypeOK
  <2>2. \A d \in Call : pc'[d] = "running" => pc[d] = "running"
    BY <1>1 DEF TypeOK
  <2> QED  BY <1>1, <1>3, <2>1, <2>2 DEF FlowInv, EvidenceOfOwnRun, SameDecision
<1>7. DecisionsKept'
  <2>1. f.nonce = c
    BY <1>2, <1>3 DEF SameDecision
  <2> QED  BY <1>1, <1>2, <1>3, <2>1 DEF FlowInv, DecisionsKept, SameDecision
<1> QED  BY <1>4, <1>5, <1>6, <1>7 DEF FlowInv

(* A step of one call that makes no receipt.                               *)
LEMMA NoReceipt ==
  ASSUME TypeOK, FlowInv, NEW c \in Call,
         \/ VerifyThrows(c)
         \/ ToolReturns(c)
         \/ ToolThrows(c)
         \/ Resume(c) /\ output[c] \notin Hashable
  PROVE  TypeOK' /\ FlowInv'
<1>1. TypeOK'
  <2>1. CASE VerifyThrows(c)
    <3>1. sequence' \in [Manager -> Nat]
      BY <2>1, ManagerAssumption DEF VerifyThrows, TypeOK
    <3> QED  BY <2>1, <3>1 DEF VerifyThrows, Goto, TypeOK, Steps
  <2>2. CASE ToolReturns(c)
    BY <2>2 DEF ToolReturns, Goto, manager, TypeOK, Steps
  <2>3. CASE ToolThrows(c)
    BY <2>3 DEF ToolThrows, Goto, manager, TypeOK, Steps
  <2>4. CASE Resume(c) /\ output[c] \notin Hashable
    BY <2>4 DEF Resume, Goto, manager, TypeOK, Steps
  <2> QED  BY <2>1, <2>2, <2>3, <2>4
<1>2. UNCHANGED <<receipt, result, held>>
  BY DEF VerifyThrows, ToolReturns, ToolThrows, Resume
<1>3. \A m \in Manager : sequence[m] \in Nat /\ sequence[m] <= sequence'[m]
  BY DEF VerifyThrows, ToolReturns, ToolThrows, Resume, manager, TypeOK
<1>4. \A d \in Call : /\ d # c => pc'[d] = pc[d] /\ output'[d] = output[d]
                      /\ pc'[d] # "running" \/ pc[d] = "running"
  BY DEF VerifyThrows, ToolReturns, ToolThrows, Resume, Goto, TypeOK
<1>5. ASSUME NEW d \in Call PROVE Flow(d)'
  <2>1. ASSUME receipt[d] # None PROVE receipt[d].sequence <= sequence'[ManagerOf[d]]
    <3>1. receipt[d].sequence \in Nat
      BY <2>1 DEF TypeOK, Receipt
    <3>2. receipt[d].sequence <= sequence[ManagerOf[d]]
      BY <2>1 DEF FlowInv, Flow
    <3>3. /\ sequence[ManagerOf[d]] \in Nat /\ sequence'[ManagerOf[d]] \in Nat
          /\ sequence[ManagerOf[d]] <= sequence'[ManagerOf[d]]
      BY <1>1, <1>3, ManagerAssumption DEF TypeOK
    <3> QED  BY <3>1, <3>2, <3>3
  <2>2. CASE d # c
    BY <1>2, <1>4, <2>1, <2>2 DEF FlowInv, Flow
  <2>3. CASE d = c
    BY <1>2, <2>1, <2>3, OutputAssumption
       DEF FlowInv, Flow, VerifyThrows, ToolReturns, ToolThrows, Resume, Goto, TypeOK
  <2> QED  BY <2>2, <2>3
<1>6. EvidenceOfOwnRun'
  <2> SUFFICES ASSUME NEW d \in Call
               PROVE  /\ (pc'[d] = "running" \/ output'[d] # None)
                           => receipt[d] # None /\ receipt[d].verdict = "allow"
                      /\ result[d] # None =>
                           /\ result[d].receipt_status = "finalized"
                           /\ result[d].response_hash = output'[d]
                           /\ SameDecision(result[d], receipt[d])
    BY <1>2 DEF EvidenceOfOwnRun, SameDecision
  <2>1. CASE d # c
    BY <1>4, <2>1 DEF FlowInv, EvidenceOfOwnRun
  <2>2. CASE d = c
    BY <2>2 DEF FlowInv, Flow, VerifyThrows, ToolReturns, ToolThrows, Resume, Goto, TypeOK
  <2> QED  BY <2>1, <2>2
<1>7. DecisionsKept'
  BY <1>2 DEF FlowInv, DecisionsKept, SameDecision
<1> QED  BY <1>1, <1>5, <1>6, <1>7 DEF FlowInv

(* Types and the invariant are kept by every step.                         *)
LEMMA FlowInvariant == Spec => [](TypeOK /\ FlowInv)
<1>1. Init => TypeOK /\ FlowInv
  BY TimeAssumption
     DEF Init, TypeOK, Steps, FlowInv, Flow, EvidenceOfOwnRun, DecisionsKept
<1>2. TypeOK /\ FlowInv /\ [Next]_vars => (TypeOK /\ FlowInv)'
  <2> SUFFICES ASSUME TypeOK, FlowInv, [Next]_vars PROVE TypeOK' /\ FlowInv'
    OBVIOUS
  <2>1. ASSUME NEW c \in Call, Govern(c) PROVE TypeOK' /\ FlowInv'
    <3> PICK v \in Verdict : Govern(c)!(v)
      BY <2>1 DEF Govern
    <3> QED  BY NewDecision
  <2>2. ASSUME NEW c \in Call, BeforeToolCall(c) PROVE TypeOK' /\ FlowInv'
    <3> PICK v \in Verdict : BeforeToolCall(c)!(v)
      BY <2>2 DEF BeforeToolCall
    <3> QED  BY NewDecision
  <2>3. ASSUME NEW c \in Call, VerifyThrows(c) \/ ToolReturns(c) \/ ToolThrows(c)
        PROVE  TypeOK' /\ FlowInv'
    BY <2>3, NoReceipt
  <2>4. ASSUME NEW c \in Call, Resume(c) PROVE TypeOK' /\ FlowInv'
    BY <2>4, NoReceipt, Fulfilled
  <2>5. ASSUME NEW m \in Manager, Finalize(m) PROVE TypeOK' /\ FlowInv'
    <3> PICK r \in held, x \in Hashable : Finalize(m)!(r, x)
      BY <2>5 DEF Finalize
    <3>1. Finalized(m, r, x) \in Receipt /\ SameDecision(Finalized(m, r, x), r)
      BY FinalizedType DEF TypeOK
    <3>2. /\ held' = held \cup {Finalized(m, r, x)}
          /\ UNCHANGED <<clock, sequence, consumed, pc, receipt, output, result, grants>>
      BY DEF manager
    <3>3. TypeOK'
      BY <3>1, <3>2 DEF TypeOK
    <3>4. FlowInv'
      BY <3>1, <3>2, AnotherCopy
    <3> QED  BY <3>3, <3>4
  <2>6. ASSUME NEW m \in Manager, Consume(m) PROVE TypeOK' /\ FlowInv'
    <3> PICK r \in held : Consume(m)!(r)
      BY <2>6 DEF Consume
    <3> DEFINE s == [r EXCEPT !.receipt_status = "consumed", !.key = KeyOf[m]]
    <3>1. s \in Receipt /\ SameDecision(s, r) /\ r.nonce \in Call
      BY ConsumedType DEF TypeOK, Receipt
    <3> HIDE DEF s
    <3>2. held' = held \cup {s}
      BY DEF s
    <3>3. TypeOK'
      BY <3>1, <3>2 DEF TypeOK
    <3>4. FlowInv'
      BY <3>1, <3>2, AnotherCopy
    <3> QED  BY <3>3, <3>4
  <2>7. CASE Tick
    BY <2>7 DEF Tick, TypeOK, FlowInv, Flow, EvidenceOfOwnRun, DecisionsKept,
                SameDecision, manager
  <2>8. CASE UNCHANGED vars
    BY <2>8 DEF vars, TypeOK, FlowInv, Flow, EvidenceOfOwnRun, DecisionsKept,
                SameDecision, manager
  <2> QED
    BY <2>1, <2>2, <2>3, <2>4, <2>5, <2>6, <2>7, <2>8 DEF Next
<1> QED
  BY <1>1, <1>2, PTL DEF Spec

(* Every variable keeps its type.                                          *)
THEOREM TypeCorrect == Spec => []TypeOK
BY FlowInvariant, PTL

(* A tool runs on an allowed decision, and its output comes with the       *)
(* evidence of its own call, for any number of overlapping calls.          *)
THEOREM OwnEvidence == Spec => []EvidenceOfOwnRun
<1>1. FlowInv => EvidenceOfOwnRun
  BY DEF FlowInv
<1> QED  BY <1>1, FlowInvariant, PTL

(* No copy of a receipt carries another decision than the one it came from.*)
THEOREM DecisionsPreserved == Spec => []DecisionsKept
<1>1. FlowInv => DecisionsKept
  BY DEF FlowInv
<1> QED  BY <1>1, FlowInvariant, PTL

-----------------------------------------------------------------------------
(* ONE GRANT                                                               *)

(* The replay set knows of every grant.                                    *)
GrantInv ==
  /\ OneGrantPerManager
  /\ \A m \in Manager, n \in Call : n \notin consumed[m] => grants[m][n] = 0

(* A manager authorizes a decision at most once, whatever copies it sees.  *)
THEOREM GrantedOnce == Spec => []OneGrantPerManager
<1>1. Init => GrantInv
  BY DEF Init, GrantInv, OneGrantPerManager
<1>2. TypeOK /\ GrantInv /\ [Next]_vars => GrantInv'
  <2> SUFFICES ASSUME TypeOK, GrantInv, [Next]_vars PROVE GrantInv'
    OBVIOUS
  <2>1. CASE UNCHANGED <<consumed, grants>>
    BY <2>1 DEF GrantInv, OneGrantPerManager
  <2>2. ASSUME NEW m \in Manager, Consume(m) PROVE GrantInv'
    <3> PICK r \in held : Consume(m)!(r)
      BY <2>2 DEF Consume
    <3>1. r.nonce \in Call /\ grants[m][r.nonce] = 0
      BY DEF TypeOK, Receipt, GrantInv
    <3>2. /\ grants' = [grants EXCEPT ![m][r.nonce] = 1]
          /\ consumed' = [consumed EXCEPT ![m] = @ \cup {r.nonce}]
      BY <3>1 DEF TypeOK
    <3> QED  BY <3>1, <3>2 DEF TypeOK, GrantInv, OneGrantPerManager
  <2> QED
    BY <2>1, <2>2 DEF Next, Tick, Govern, BeforeToolCall, VerifyThrows, ToolReturns,
                      ToolThrows, Resume, Finalize, Verify, manager, vars
<1>3. GrantInv => OneGrantPerManager
  BY DEF GrantInv
<1> QED
  BY <1>1, <1>2, <1>3, TypeCorrect, PTL DEF Spec
=============================================================================
