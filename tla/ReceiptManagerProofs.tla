------------------------- MODULE ReceiptManagerProofs -------------------------
(***************************************************************************)
(* Proofs about ReceiptManager.tla and about the public verifier that      *)
(* looks at its receipts (PublicVerifier.tla), for every number of         *)
(* managers, nonces, commands and verdicts, and for an unbounded counter.  *)
(***************************************************************************)
EXTENDS PublicVerifier, TLAPS

(* Copying a receipt under another status keeps the fields that make it a  *)
(* decision, and so does filling in the response.                          *)
LEMMA StatusCopy ==
  ASSUME NEW r \in Receipt, NEW s \in Status
  PROVE  /\ WithStatus(r, s) \in Receipt
         /\ WithStatus(r, s).receipt_status = s
         /\ SameDecision(WithStatus(r, s), r)
BY DEF WithStatus, Receipt, SameDecision

LEMMA ResponseCopy ==
  ASSUME NEW r \in Receipt, NEW x \in Response
  PROVE  /\ [r EXCEPT !.response_hash = x] \in Receipt
         /\ SameDecision([r EXCEPT !.response_hash = x], r)
BY DEF Receipt, SameDecision

(* The variables have their types in every reachable state; a manager      *)
(* works on a receipt exactly while it serves a call.                      *)
THEOREM TypeCorrect == Spec => []TypeOK
<1>1. Init => TypeOK
  BY DEF Init, TypeOK, Store!StoreInit, Steps
<1>2. TypeOK /\ [Next]_vars => TypeOK'
  <2> SUFFICES ASSUME TypeOK, [Next]_vars PROVE TypeOK'
    OBVIOUS
  <2> USE NoReceiptAssumption DEF TypeOK, Steps, store, history
  <2>1. CASE Tick
    BY <2>1, TimeAssumption DEF Tick
  <2>2. ASSUME NEW p \in Proc, CreateAdmission(p) PROVE TypeOK'
    <3>1. PICK n \in Nonce \ drawn, v \in Verdict, c \in Command :
                 CreateAdmission(p)!(n, v, c)
      BY <2>2 DEF CreateAdmission
    <3> DEFINE r == [nonce |-> n, sequence |-> 0, verdict |-> v, command |-> c,
                     audience |-> AudienceOf[p], expires_at |-> clock + TTL,
                     response_hash |-> NoResponse, receipt_status |-> "admission"]
    <3>2. r \in Receipt
      BY AudienceAssumption, TimeAssumption DEF Receipt, Status
    <3> HIDE DEF r
    <3>3. Goto(p, "sequence", r) /\ drawn' = drawn \cup {n}
      BY <3>1 DEF r
    <3>4. UNCHANGED <<clock, store, history>>
      BY <3>1
    <3> QED BY <3>2, <3>3, <3>4 DEF Goto
  <2>3. ASSUME NEW p \in Proc, TakeSequence(p) PROVE TypeOK'
    <3>1. receipt[p] \in Receipt
      BY <2>3 DEF TakeSequence
    <3>2. [receipt[p] EXCEPT !.sequence = sequence'] \in Receipt
      BY <3>1, <2>3 DEF TakeSequence, Store!NextSequence, Receipt
    <3> QED BY <2>3, <3>2 DEF TakeSequence, Goto, Store!NextSequence
  <2>4. ASSUME NEW p \in Proc, Finalize(p) PROVE TypeOK'
    <3>1. PICK r \in Held, x \in Response : Finalize(p)!(r, x)
      BY <2>4 DEF Finalize
    <3>2. WithStatus([r EXCEPT !.response_hash = x], "finalized") \in Receipt
      BY ResponseCopy, StatusCopy DEF Held, Status
    <3> QED BY <3>1, <3>2 DEF Goto
  <2>5. ASSUME NEW p \in Proc, MarkUnavailable(p) PROVE TypeOK'
    <3>1. PICK r \in Held : MarkUnavailable(p)!(r)
      BY <2>5 DEF MarkUnavailable
    <3>2. WithStatus(r, "unavailable") \in Receipt
      BY StatusCopy DEF Held, Status
    <3> QED BY <3>1, <3>2 DEF Goto
  <2>6. ASSUME NEW p \in Proc, Consume(p) PROVE TypeOK'
    BY <2>6 DEF Consume, Goto, Held
  <2>7. ASSUME NEW p \in Proc, Lookup(p) PROVE TypeOK'
    BY <2>7 DEF Lookup, Goto
  <2>8. ASSUME NEW p \in Proc, Mark(p) PROVE TypeOK'
    <3>1. receipt[p] \in Receipt
      BY <2>8 DEF Mark
    <3>2. /\ WithStatus(receipt[p], "consumed") \in Receipt
          /\ receipt[p].nonce \in Nonce
      BY <3>1, StatusCopy DEF Receipt, Status
    <3> QED BY <2>8, <3>2 DEF Mark, Goto, Store!MarkConsumed
  <2>9. ASSUME NEW p \in Proc, Save(p) PROVE TypeOK'
    BY <2>9 DEF Save, Goto, Store!SaveReceipt
  <2>10. ASSUME NEW p \in Proc, Return(p) PROVE TypeOK'
    <3>1. receipt[p] \in Receipt
      BY <2>10 DEF Return
    <3> QED BY <2>10, <3>1 DEF Return, Goto, Receipt
  <2>11. ASSUME NEW p \in Proc, Abort(p) PROVE TypeOK'
    <3>1. receipt[p] \in Receipt
      BY <2>11 DEF Abort
    <3> QED BY <2>11, <3>1 DEF Abort, Goto, Receipt
  <2>12. CASE UNCHANGED vars
    BY <2>12 DEF vars
  <2> QED
    BY <2>1, <2>2, <2>3, <2>4, <2>5, <2>6, <2>7, <2>8, <2>9, <2>10, <2>11, <2>12
    DEF Next
<1> QED BY <1>1, <1>2, PTL DEF Spec
-----------------------------------------------------------------------------
(* Grants.  A marked nonce is held by one call until that call returns (a  *)
(* grant) or dies (aborted), and nothing but the winner of mark_consumed() *)
(* works on a receipt of status "consumed".                                *)

NotYetConsumed ==
  \A p \in Proc : pc[p] \in {"sequence", "lookup", "mark"}
                     => receipt[p].receipt_status # "consumed"

HolderUnique ==
  \A p, q \in Proc, n \in Nonce : Holds(p, n) /\ Holds(q, n) => p = q

HolderAlone ==
  \A p \in Proc, n \in Nonce : Holds(p, n) => grants[n] = 0 /\ n \notin aborted

SettledOnce ==
  \A n \in Nonce : grants[n] = 0 \/ (grants[n] = 1 /\ n \notin aborted)

GrantInv ==
  /\ TypeOK
  /\ NotYetConsumed
  /\ HolderUnique
  /\ HolderAlone
  /\ SettledOnce
  /\ ConsumedAccountedFor

(* A step that neither marks, returns nor aborts, and that does not put a  *)
(* manager to work on a consumed receipt, keeps all of it.                 *)
LEMMA HoldersUnmoved ==
  ASSUME GrantInv, TypeOK', NotYetConsumed',
         UNCHANGED <<consumed, grants, aborted>>,
         \A p \in Proc, n \in Nonce : Holds(p, n)' <=> Holds(p, n)
  PROVE  GrantInv'
BY DEF GrantInv, HolderUnique, HolderAlone, SettledOnce, ConsumedAccountedFor

LEMMA GrantInvariant == Spec => []GrantInv
<1>1. Init => GrantInv
  <2> SUFFICES ASSUME Init PROVE GrantInv
    OBVIOUS
  <2>1. TypeOK
    BY DEF Init, TypeOK, Store!StoreInit, Steps
  <2>2. \A p \in Proc, n \in Nonce : ~Holds(p, n)
    BY DEF Init, Holds
  <2>3. consumed = {} /\ aborted = {} /\ \A n \in Nonce : grants[n] = 0
    BY DEF Init, Store!StoreInit
  <2> QED
    BY <2>1, <2>2, <2>3 DEF Init, GrantInv, NotYetConsumed, HolderUnique,
       HolderAlone, SettledOnce, ConsumedAccountedFor
<1>2. GrantInv /\ TypeOK' /\ [Next]_vars => GrantInv'
  <2> SUFFICES ASSUME GrantInv, TypeOK', [Next]_vars PROVE GrantInv'
    OBVIOUS
  <2> USE DEF store, history
  <2>1. CASE Tick \/ UNCHANGED vars
    BY <2>1 DEF Tick, vars, GrantInv, NotYetConsumed, HolderUnique,
       HolderAlone, SettledOnce, ConsumedAccountedFor, Holds
  <2>2. ASSUME NEW p \in Proc, CreateAdmission(p) PROVE GrantInv'
    <3>1. PICK r : Goto(p, "sequence", r) /\ r.receipt_status = "admission"
      BY <2>2 DEF CreateAdmission
    <3>2. pc[p] = "idle" /\ UNCHANGED <<consumed, grants, aborted>>
      BY <2>2 DEF CreateAdmission
    <3>3. NotYetConsumed'
      BY <3>1 DEF Goto, GrantInv, TypeOK, NotYetConsumed
    <3>4. \A q \in Proc, n \in Nonce : Holds(q, n)' <=> Holds(q, n)
      BY <3>1, <3>2 DEF Goto, Holds, GrantInv, TypeOK
    <3> QED BY <3>2, <3>3, <3>4, HoldersUnmoved
  <2>3. ASSUME NEW p \in Proc, TakeSequence(p) PROVE GrantInv'
    <3>1. PICK r : /\ Goto(p, "save", r)
                   /\ r.receipt_status = receipt[p].receipt_status
      BY <2>3 DEF TakeSequence, GrantInv, TypeOK, Receipt
    <3>2. pc[p] = "sequence" /\ UNCHANGED <<consumed, grants, aborted>>
      BY <2>3 DEF TakeSequence, Store!NextSequence
    <3>3. NotYetConsumed'
      BY <3>1 DEF Goto, GrantInv, TypeOK, NotYetConsumed
    <3>4. \A q \in Proc, n \in Nonce : Holds(q, n)' <=> Holds(q, n)
      BY <3>1, <3>2 DEF Goto, Holds, GrantInv, TypeOK, NotYetConsumed
    <3> QED BY <3>2, <3>3, <3>4, HoldersUnmoved
  <2>4. ASSUME NEW p \in Proc, Finalize(p) \/ MarkUnavailable(p) PROVE GrantInv'
    <3>1. PICK r : Goto(p, "save", r) /\ r.receipt_status # "consumed"
      BY <2>4, StatusCopy, ResponseCopy
      DEF Finalize, MarkUnavailable, Held, Status, GrantInv, TypeOK
    <3>2. pc[p] = "idle" /\ UNCHANGED <<consumed, grants, aborted>>
      BY <2>4 DEF Finalize, MarkUnavailable
    <3>3. NotYetConsumed'
      BY <3>1 DEF Goto, GrantInv, TypeOK, NotYetConsumed
    <3>4. \A q \in Proc, n \in Nonce : Holds(q, n)' <=> Holds(q, n)
      BY <3>1, <3>2 DEF Goto, Holds, GrantInv, TypeOK
    <3> QED BY <3>2, <3>3, <3>4, HoldersUnmoved
  <2>5. ASSUME NEW p \in Proc, Consume(p) PROVE GrantInv'
    <3>1. PICK r : Goto(p, "lookup", r) /\ r.receipt_status # "consumed"
      BY <2>5 DEF Consume, LocallyValid
    <3>2. pc[p] = "idle" /\ UNCHANGED <<consumed, grants, aborted>>
      BY <2>5 DEF Consume
    <3>3. NotYetConsumed'
      BY <3>1 DEF Goto, GrantInv, TypeOK, NotYetConsumed
    <3>4. \A q \in Proc, n \in Nonce : Holds(q, n)' <=> Holds(q, n)
      BY <3>1, <3>2 DEF Goto, Holds, GrantInv, TypeOK
    <3> QED BY <3>2, <3>3, <3>4, HoldersUnmoved
  <2>6. ASSUME NEW p \in Proc, Lookup(p) PROVE GrantInv'
    <3>1. /\ pc[p] = "lookup"
          /\ Goto(p, "mark", receipt[p]) \/ Goto(p, "idle", NoReceipt)
          /\ UNCHANGED <<consumed, grants, aborted>>
      BY <2>6 DEF Lookup
    <3>2. NotYetConsumed'
      BY <3>1 DEF Goto, GrantInv, TypeOK, NotYetConsumed
    <3>3. \A q \in Proc, n \in Nonce : Holds(q, n)' <=> Holds(q, n)
      BY <3>1 DEF Goto, Holds, GrantInv, TypeOK
    <3> QED BY <3>1, <3>2, <3>3, HoldersUnmoved
  <2>7. ASSUME NEW p \in Proc, Mark(p) PROVE GrantInv'
    <3>1. CASE pc'[p] = "idle"
      <4>1. /\ pc[p] = "mark" /\ Goto(p, "idle", NoReceipt)
            /\ UNCHANGED <<consumed, grants, aborted>>
        BY <2>7, <3>1 DEF Mark, Goto, GrantInv, TypeOK
      <4>2. NotYetConsumed'
        BY <4>1 DEF Goto, GrantInv, TypeOK, NotYetConsumed
      <4>3. \A q \in Proc, n \in Nonce : Holds(q, n)' <=> Holds(q, n)
        BY <4>1 DEF Goto, Holds, GrantInv, TypeOK
      <4> QED BY <4>1, <4>2, <4>3, HoldersUnmoved
    <3>2. CASE pc'[p] # "idle"
      <4> DEFINE n == receipt[p].nonce
      <4>1. /\ n \notin consumed /\ consumed' = consumed \cup {n}
            /\ pc[p] = "mark" /\ Goto(p, "save", WithStatus(receipt[p], "consumed"))
            /\ UNCHANGED <<grants, aborted>>
        BY <2>7, <3>2 DEF Mark, Store!MarkConsumed, Store!IsConsumed, Goto, GrantInv, TypeOK
      <4>2. receipt[p] \in Receipt /\ n \in Nonce
        BY <4>1 DEF GrantInv, TypeOK, Receipt
      <4>3. /\ WithStatus(receipt[p], "consumed").receipt_status = "consumed"
            /\ WithStatus(receipt[p], "consumed").nonce = n
        BY <4>2, StatusCopy DEF Status, SameDecision
      <4>4. \A q \in Proc, m \in Nonce :
              Holds(q, m)' <=> Holds(q, m) \/ (q = p /\ m = n)
        BY <4>1, <4>2, <4>3 DEF Goto, Holds, GrantInv, TypeOK
      <4>5. \A q \in Proc : ~Holds(q, n)
        BY <4>1, <4>2 DEF GrantInv, ConsumedAccountedFor
      <4>6. grants[n] = 0 /\ n \notin aborted
        BY <4>1, <4>2 DEF GrantInv, ConsumedAccountedFor, SettledOnce
      <4> HIDE DEF n
      <4>7. NotYetConsumed'
        BY <4>1 DEF Goto, GrantInv, TypeOK, NotYetConsumed
      <4>8. HolderUnique' /\ HolderAlone' /\ SettledOnce'
        BY <4>1, <4>4, <4>5, <4>6 DEF GrantInv, HolderUnique, HolderAlone, SettledOnce
      <4>9. ConsumedAccountedFor'
        BY <4>1, <4>2, <4>4 DEF GrantInv, ConsumedAccountedFor
      <4> QED BY <4>7, <4>8, <4>9 DEF GrantInv
    <3> QED BY <3>1, <3>2
  <2>8. ASSUME NEW p \in Proc, Save(p) PROVE GrantInv'
    <3>1. /\ pc[p] = "save" /\ Goto(p, "return", receipt[p])
          /\ UNCHANGED <<consumed, grants, aborted>>
      BY <2>8 DEF Save, Store!SaveReceipt
    <3>2. NotYetConsumed'
      BY <3>1 DEF Goto, GrantInv, TypeOK, NotYetConsumed
    <3>3. \A q \in Proc, n \in Nonce : Holds(q, n)' <=> Holds(q, n)
      BY <3>1 DEF Goto, Holds, GrantInv, TypeOK
    <3> QED BY <3>1, <3>2, <3>3, HoldersUnmoved
  <2>9. ASSUME NEW p \in Proc, Return(p) \/ Abort(p),
               receipt[p].receipt_status # "consumed"
        PROVE  GrantInv'
    <3>1. /\ pc[p] # "idle" /\ Goto(p, "idle", NoReceipt)
          /\ UNCHANGED <<consumed, grants, aborted>>
      BY <2>9 DEF Return, Abort
    <3>2. NotYetConsumed'
      BY <3>1 DEF Goto, GrantInv, TypeOK, NotYetConsumed
    <3>3. \A q \in Proc, n \in Nonce : Holds(q, n)' <=> Holds(q, n)
      BY <2>9, <3>1 DEF Goto, Holds, GrantInv, TypeOK
    <3> QED BY <3>1, <3>2, <3>3, HoldersUnmoved
  <2>10. ASSUME NEW p \in Proc, Return(p) \/ Abort(p),
                receipt[p].receipt_status = "consumed"
         PROVE  GrantInv'
    <3> DEFINE n == receipt[p].nonce
    <3>1. /\ pc[p] # "idle" /\ Goto(p, "idle", NoReceipt)
          /\ UNCHANGED consumed
          /\ \/ grants' = [grants EXCEPT ![n] = @ + 1] /\ UNCHANGED aborted
             \/ aborted' = aborted \cup {n} /\ UNCHANGED grants
      BY <2>10 DEF Return, Abort
    <3>2. receipt[p] \in Receipt /\ n \in Nonce
      BY <3>1 DEF GrantInv, TypeOK, Receipt
    <3>3. Holds(p, n)
      BY <2>10, <3>1 DEF Holds, GrantInv, TypeOK, Steps, NotYetConsumed
    <3>4. grants[n] = 0 /\ n \notin aborted
      BY <3>2, <3>3 DEF GrantInv, HolderAlone
    <3>5. \A q \in Proc, m \in Nonce : Holds(q, m)' <=> Holds(q, m) /\ q # p
      BY <3>1 DEF Goto, Holds, GrantInv, TypeOK
    <3>6. \A q \in Proc : Holds(q, n) => q = p
      BY <3>2, <3>3 DEF GrantInv, HolderUnique
    <3>7. \A q \in Proc, m \in Nonce : Holds(q, m) /\ q = p => m = n
      BY DEF Holds
    <3>8. NotYetConsumed'
      BY <3>1 DEF Goto, GrantInv, TypeOK, NotYetConsumed
    <3> HIDE DEF n
    <3>9. HolderUnique'
      BY <3>5 DEF GrantInv, HolderUnique
    <3>10. grants \in [Nonce -> Nat]
      BY DEF GrantInv, TypeOK
    <3>11. \/ grants'[n] = 1 /\ n \notin aborted'
           \/ grants'[n] = 0 /\ n \in aborted'
      BY <3>1, <3>2, <3>4, <3>10
    <3>12. \A m \in Nonce : m # n => /\ grants'[m] = grants[m]
                                     /\ m \in aborted' <=> m \in aborted
      BY <3>1, <3>2, <3>10
    <3>13. HolderAlone'
      BY <3>5, <3>6, <3>12 DEF GrantInv, HolderAlone
    <3>14. SettledOnce'
      BY <3>11, <3>12 DEF GrantInv, SettledOnce
    <3>15. ConsumedAccountedFor'
      <4>1. \A m \in Nonce :
              (\E q \in Proc : Holds(q, m)') <=> (\E q \in Proc : Holds(q, m)) /\ m # n
        BY <3>3, <3>5, <3>6, <3>7
      <4>2. n \in consumed
        BY <3>2, <3>3 DEF GrantInv, ConsumedAccountedFor
      <4>3. \A m \in Nonce :
              m \in consumed <=> (grants'[m] = 1 \/ m \in aborted'
                                  \/ \E q \in Proc : Holds(q, m)')
        BY <4>1, <4>2, <3>11, <3>12 DEF GrantInv, ConsumedAccountedFor
      <4> QED BY <4>3, <3>1 DEF GrantInv, TypeOK, ConsumedAccountedFor
    <3> QED BY <3>8, <3>9, <3>13, <3>14, <3>15 DEF GrantInv
  <2> QED
    BY <2>1, <2>2, <2>3, <2>4, <2>5, <2>6, <2>7, <2>8, <2>9, <2>10 DEF Next
<1> QED BY <1>1, <1>2, TypeCorrect, PTL DEF Spec

(* No two consume() calls for one nonce both return their licence to act.  *)
THEOREM GrantedAtMostOnce == Spec => []AtMostOneGrant
<1>1. GrantInv => AtMostOneGrant
  BY DEF GrantInv, SettledOnce, AtMostOneGrant, TypeOK
<1> QED BY <1>1, GrantInvariant, PTL

(* A nonce is marked exactly for the call that was granted it, holds it or *)
(* died holding it.                                                        *)
THEOREM NothingBurned == Spec => []ConsumedAccountedFor
<1>1. GrantInv => ConsumedAccountedFor
  BY DEF GrantInv
<1> QED BY <1>1, GrantInvariant, PTL
-----------------------------------------------------------------------------
(* Decisions.  A receipt is fresh until its admission row is saved; until  *)
(* then nothing anybody holds or works on carries its nonce or its number. *)
(* Every other receipt is backed by the admission row it came from.        *)

Fresh(p) ==
  \/ pc[p] = "sequence"
  \/ pc[p] = "save" /\ receipt[p].receipt_status = "admission"

Numbered(p) == Fresh(p) /\ pc[p] = "save"

Backed(r) == \E a \in Admissions : SameDecision(r, a)

NoncesDrawn ==
  /\ \A r \in Held : r.nonce \in drawn
  /\ \A p \in Proc : pc[p] # "idle" => receipt[p].nonce \in drawn

FreshUnseen ==
  \A p \in Proc : Fresh(p) =>
    /\ receipt[p].receipt_status = "admission"
    /\ \A r \in Held : r.nonce # receipt[p].nonce
    /\ \A q \in Proc \ {p} : pc[q] # "idle" => receipt[q].nonce # receipt[p].nonce

OthersBacked ==
  /\ \A r \in Held : Backed(r)
  /\ \A p \in Proc : pc[p] # "idle" /\ ~Fresh(p) => Backed(receipt[p])

NumbersTaken ==
  /\ \A a \in Admissions : a.sequence <= sequence
  /\ \A p \in Proc : Numbered(p) => receipt[p].sequence <= sequence

NumbersApart ==
  /\ \A a, b \in Admissions : a.sequence = b.sequence => a.nonce = b.nonce
  /\ \A p \in Proc, a \in Admissions : Numbered(p) => a.sequence # receipt[p].sequence
  /\ \A p, q \in Proc : Numbered(p) /\ Numbered(q) /\ p # q
                        => receipt[p].sequence # receipt[q].sequence

AllowedBeforeMarked ==
  \A p \in Proc : pc[p] = "mark" => receipt[p].verdict = "allow"

ConsumedAllowed ==
  \A n \in consumed : \E a \in Admissions : a.nonce = n /\ a.verdict = "allow"

DecisionInv ==
  /\ NoncesDrawn
  /\ FreshUnseen
  /\ OthersBacked
  /\ NumbersTaken
  /\ NumbersApart
  /\ AllowedBeforeMarked
  /\ ConsumedAllowed

(* A step of p that leaves the database and the callers alone, except that *)
(* p goes on to work on a receipt that is backed, or stops working.        *)
LEMMA BackedStep ==
  ASSUME TypeOK, TypeOK', DecisionInv, NEW p \in Proc, NEW s, NEW r,
         Goto(p, s, r), UNCHANGED <<sequence, evidence, issued, consumed>>,
         drawn \subseteq drawn', s # "sequence",
         s # "idle" => Backed(r),
         s = "save" => r.receipt_status # "admission",
         s = "mark" => r.verdict = "allow"
  PROVE  DecisionInv'
<1> USE DEF TypeOK
<1>1. Held' = Held /\ Admissions' = Admissions
  BY DEF Held, Admissions
<1>2. pc'[p] = s /\ receipt'[p] = r
  BY DEF Goto
<1>3. \A q \in Proc \ {p} : pc'[q] = pc[q] /\ receipt'[q] = receipt[q]
  BY DEF Goto
<1>4. ~Fresh(p)' /\ \A q \in Proc \ {p} : Fresh(q)' <=> Fresh(q)
  BY <1>2, <1>3 DEF Fresh
<1>5. s # "idle" => \E a \in Held : r.nonce = a.nonce
  BY DEF Backed, SameDecision, Held, Admissions
<1>6. NoncesDrawn'
  BY <1>1, <1>2, <1>3, <1>5 DEF DecisionInv, NoncesDrawn
<1>7. FreshUnseen'
  BY <1>1, <1>2, <1>3, <1>4, <1>5 DEF DecisionInv, FreshUnseen
<1>8. \A x : Backed(x)' <=> Backed(x)
  BY <1>1 DEF Backed, SameDecision
<1>9. OthersBacked'
  BY <1>1, <1>2, <1>3, <1>4, <1>8 DEF DecisionInv, OthersBacked
<1>10. ~Numbered(p)' /\ \A q \in Proc \ {p} : Numbered(q)' <=> Numbered(q)
  BY <1>3, <1>4 DEF Numbered
<1>11. NumbersTaken' /\ NumbersApart'
  BY <1>1, <1>3, <1>10 DEF DecisionInv, NumbersTaken, NumbersApart
<1>12. AllowedBeforeMarked'
  BY <1>2, <1>3 DEF DecisionInv, AllowedBeforeMarked
<1>13. ConsumedAllowed'
  BY <1>1 DEF DecisionInv, ConsumedAllowed
<1> QED
  BY <1>6, <1>7, <1>9, <1>11, <1>12, <1>13 DEF DecisionInv

(* Whatever a copy of a held receipt is made for, it is backed.            *)
LEMMA CopyBacked ==
  ASSUME TypeOK, DecisionInv, NEW r \in Held, NEW x \in Response, NEW s \in Status
  PROVE  /\ Backed(r)
         /\ Backed(WithStatus(r, s))
         /\ Backed(WithStatus([r EXCEPT !.response_hash = x], s))
<1>1. r \in Receipt /\ [r EXCEPT !.response_hash = x] \in Receipt
  BY ResponseCopy DEF TypeOK, Held
<1>2. /\ SameDecision(WithStatus(r, s), r)
      /\ SameDecision(WithStatus([r EXCEPT !.response_hash = x], s), r)
  <2>1. SameDecision(WithStatus(r, s), r)
    BY <1>1, StatusCopy
  <2>2. PICK y \in Receipt : y = [r EXCEPT !.response_hash = x]
    BY <1>1
  <2>3. SameDecision(y, r)
    BY <1>1, <2>2, ResponseCopy
  <2>4. SameDecision(WithStatus(y, s), y)
    BY StatusCopy
  <2>5. SameDecision(WithStatus(y, s), r)
    BY <2>3, <2>4 DEF SameDecision
  <2> QED BY <2>1, <2>2, <2>5
<1>3. Backed(r)
  BY DEF DecisionInv, OthersBacked
<1> QED BY <1>2, <1>3 DEF Backed, SameDecision

(* What Save does to the table evidence: a fresh admission is added, and   *)
(* nothing else ever touches the admission rows.                           *)
LEMMA SavedRows ==
  ASSUME TypeOK, DecisionInv, NEW p \in Proc, Save(p)
  PROVE  /\ Admissions' = IF Fresh(p) THEN Admissions \cup {receipt[p]}
                                      ELSE Admissions
         /\ Held' \subseteq Held \cup {receipt[p]}
         /\ receipt[p] \in evidence'
<1> DEFINE r == receipt[p]
<1>1. /\ pc[p] = "save" /\ UNCHANGED issued
      /\ evidence' = {e \in evidence : Store!Key(e) # Store!Key(r)} \cup {r}
  BY DEF Save, Store!SaveReceipt, history
<1>2. CASE Fresh(p)
  <2>1. r.receipt_status = "admission" /\ \A e \in evidence : e.nonce # r.nonce
    BY <1>2 DEF DecisionInv, FreshUnseen, Held
  <2>2. evidence' = evidence \cup {r}
    BY <1>1, <2>1 DEF Store!Key
  <2> QED BY <1>1, <1>2, <2>1, <2>2 DEF Admissions, Held
<1>3. CASE ~Fresh(p)
  <2>1. r.receipt_status # "admission"
    BY <1>1, <1>3 DEF Fresh
  <2>2. \A e \in Admissions : Store!Key(e) # Store!Key(r)
    BY <2>1 DEF Admissions, Store!Key
  <2> HIDE DEF r
  <2>3. \A e : e \in Admissions' <=> e \in Admissions
    BY <1>1, <2>1, <2>2 DEF Admissions
  <2>4. Admissions' = Admissions
    BY <2>3
  <2> QED BY <1>1, <1>3, <2>4 DEF Held, r
<1> QED BY <1>2, <1>3

LEMMA DecisionInvariant == Spec => []DecisionInv
<1>1. Init => DecisionInv
  BY DEF Init, Store!StoreInit, DecisionInv, NoncesDrawn, FreshUnseen, OthersBacked,
     NumbersTaken, NumbersApart, AllowedBeforeMarked, ConsumedAllowed, Held,
     Admissions, Fresh, Numbered
<1>2. TypeOK /\ TypeOK' /\ DecisionInv /\ [Next]_vars => DecisionInv'
  <2> SUFFICES ASSUME TypeOK, TypeOK', DecisionInv, [Next]_vars PROVE DecisionInv'
    OBVIOUS
  <2> USE DEF store, history
  <2>1. CASE Tick \/ UNCHANGED vars
    BY <2>1 DEF Tick, vars, DecisionInv, NoncesDrawn, FreshUnseen, OthersBacked,
       NumbersTaken, NumbersApart, AllowedBeforeMarked, ConsumedAllowed, Held,
       Admissions, Fresh, Numbered, Backed, SameDecision
  <2>2. ASSUME NEW p \in Proc, CreateAdmission(p) PROVE DecisionInv'
    <3>1. PICK r :
            /\ Goto(p, "sequence", r) /\ r.receipt_status = "admission"
            /\ r.nonce \in Nonce \ drawn /\ drawn' = drawn \cup {r.nonce}
            /\ pc[p] = "idle"
            /\ UNCHANGED <<store, issued>>
      BY <2>2 DEF CreateAdmission
    <3>2. Held' = Held /\ Admissions' = Admissions
      BY <3>1 DEF Held, Admissions
    <3>3. pc'[p] = "sequence" /\ receipt'[p] = r
      BY <3>1 DEF Goto, TypeOK
    <3>4. \A q \in Proc \ {p} : pc'[q] = pc[q] /\ receipt'[q] = receipt[q]
      BY <3>1 DEF Goto, TypeOK
    <3>5. Fresh(p)' /\ ~Numbered(p)'
      BY <3>3 DEF Fresh, Numbered
    <3>6. \A q \in Proc \ {p} : (Fresh(q)' <=> Fresh(q)) /\ (Numbered(q)' <=> Numbered(q))
      BY <3>4 DEF Fresh, Numbered
    <3>7. NoncesDrawn'
      BY <3>1, <3>2, <3>3, <3>4 DEF DecisionInv, NoncesDrawn
    <3>8. FreshUnseen'
      BY <3>1, <3>2, <3>3, <3>4, <3>6
      DEF DecisionInv, NoncesDrawn, FreshUnseen, Fresh
    <3>9. \A x : Backed(x)' <=> Backed(x)
      BY <3>2 DEF Backed, SameDecision
    <3>10. OthersBacked'
      BY <3>2, <3>4, <3>5, <3>6, <3>9 DEF DecisionInv, OthersBacked
    <3>11. NumbersTaken' /\ NumbersApart'
      BY <3>1, <3>2, <3>4, <3>5, <3>6 DEF DecisionInv, NumbersTaken, NumbersApart
    <3>12. AllowedBeforeMarked' /\ ConsumedAllowed'
      BY <3>1, <3>2, <3>3, <3>4 DEF DecisionInv, AllowedBeforeMarked, ConsumedAllowed
    <3> QED BY <3>7, <3>8, <3>10, <3>11, <3>12 DEF DecisionInv
  <2>3. ASSUME NEW p \in Proc, TakeSequence(p) PROVE DecisionInv'
    <3>1. PICK r : /\ Goto(p, "save", r) /\ r.nonce = receipt[p].nonce
                   /\ r.receipt_status = receipt[p].receipt_status
                   /\ r.sequence = sequence + 1
      BY <2>3 DEF TakeSequence, Store!NextSequence, TypeOK, Receipt
    <3>2. /\ pc[p] = "sequence" /\ sequence' = sequence + 1
          /\ UNCHANGED <<evidence, consumed, drawn, issued>>
      BY <2>3 DEF TakeSequence, Store!NextSequence
    <3>3. Held' = Held /\ Admissions' = Admissions
      BY <3>2 DEF Held, Admissions
    <3>4. pc'[p] = "save" /\ receipt'[p] = r
      BY <3>1 DEF Goto, TypeOK
    <3>5. \A q \in Proc \ {p} : pc'[q] = pc[q] /\ receipt'[q] = receipt[q]
      BY <3>1 DEF Goto, TypeOK
    <3>6. Fresh(p) /\ r.receipt_status = "admission"
      BY <3>1, <3>2 DEF Fresh, DecisionInv, FreshUnseen
    <3>7. Fresh(p)' /\ Numbered(p)'
      BY <3>4, <3>6 DEF Fresh, Numbered
    <3>8. \A q \in Proc \ {p} : (Fresh(q)' <=> Fresh(q)) /\ (Numbered(q)' <=> Numbered(q))
      BY <3>5 DEF Fresh, Numbered
    <3>9. NoncesDrawn' /\ FreshUnseen'
      BY <3>1, <3>2, <3>3, <3>4, <3>5, <3>6, <3>8 DEF DecisionInv, NoncesDrawn, FreshUnseen
    <3>10. \A x : Backed(x)' <=> Backed(x)
      BY <3>3 DEF Backed, SameDecision
    <3>11. OthersBacked'
      BY <3>3, <3>5, <3>7, <3>8, <3>10 DEF DecisionInv, OthersBacked
    <3>12. \A a \in Admissions : a.sequence \in Nat
      BY DEF Admissions, TypeOK, Receipt
    <3>13. \A q \in Proc : Numbered(q) => receipt[q].sequence \in Nat
      BY DEF Numbered, TypeOK, Receipt
    <3>14. sequence \in Nat
      BY DEF TypeOK
    <3>15. NumbersTaken'
      BY <3>1, <3>2, <3>3, <3>4, <3>5, <3>8, <3>12, <3>13, <3>14
      DEF DecisionInv, NumbersTaken
    <3>16. NumbersApart'
      BY <3>1, <3>2, <3>3, <3>4, <3>5, <3>8, <3>12, <3>13, <3>14
      DEF DecisionInv, NumbersTaken, NumbersApart
    <3>17. AllowedBeforeMarked' /\ ConsumedAllowed'
      BY <3>2, <3>3, <3>4, <3>5 DEF DecisionInv, AllowedBeforeMarked, ConsumedAllowed
    <3> QED BY <3>9, <3>11, <3>15, <3>16, <3>17 DEF DecisionInv
  <2>4. ASSUME NEW p \in Proc, Finalize(p) PROVE DecisionInv'
    <3>1. PICK r \in Held, x \in Response :
            /\ Goto(p, "save", WithStatus([r EXCEPT !.response_hash = x], "finalized"))
            /\ UNCHANGED <<store, drawn, issued>>
      BY <2>4 DEF Finalize
    <3>2. Backed(WithStatus([r EXCEPT !.response_hash = x], "finalized"))
      BY CopyBacked DEF Status
    <3>3. WithStatus([r EXCEPT !.response_hash = x], "finalized").receipt_status = "finalized"
      BY ResponseCopy, StatusCopy DEF Held, TypeOK, Status
    <3> QED BY <3>1, <3>2, <3>3, BackedStep
  <2>5. ASSUME NEW p \in Proc, MarkUnavailable(p) PROVE DecisionInv'
    <3>1. PICK r \in Held : /\ Goto(p, "save", WithStatus(r, "unavailable"))
                            /\ UNCHANGED <<store, drawn, issued>>
      BY <2>5 DEF MarkUnavailable
    <3>2. r \in Receipt /\ Backed(r)
      BY DEF DecisionInv, OthersBacked, Held, TypeOK
    <3>3. /\ Backed(WithStatus(r, "unavailable"))
          /\ WithStatus(r, "unavailable").receipt_status = "unavailable"
      BY <3>2, StatusCopy DEF Status, Backed, SameDecision
    <3> QED BY <3>1, <3>3, BackedStep
  <2>6. ASSUME NEW p \in Proc, Consume(p) PROVE DecisionInv'
    <3>1. PICK r \in Held : Goto(p, "lookup", r) /\ UNCHANGED <<store, drawn, issued>>
      BY <2>6 DEF Consume
    <3>2. Backed(r)
      BY DEF DecisionInv, OthersBacked
    <3> QED BY <3>1, <3>2, BackedStep
  <2>7. ASSUME NEW p \in Proc, Lookup(p) PROVE DecisionInv'
    <3>1. pc[p] = "lookup" /\ UNCHANGED <<store, drawn, issued>>
      BY <2>7 DEF Lookup
    <3>2. Backed(receipt[p])
      BY <3>1 DEF DecisionInv, OthersBacked, Fresh
    <3>3. CASE Authorizing(receipt[p])
      <4>1. Goto(p, "mark", receipt[p]) /\ receipt[p].verdict = "allow"
        BY <2>7, <3>3 DEF Lookup, Authorizing
      <4> QED BY <3>1, <3>2, <4>1, BackedStep
    <3>4. CASE ~Authorizing(receipt[p])
      BY <2>7, <3>1, <3>4, BackedStep DEF Lookup
    <3> QED BY <3>3, <3>4
  <2>8. ASSUME NEW p \in Proc, Mark(p) PROVE DecisionInv'
    <3>1. pc[p] = "mark" /\ UNCHANGED <<sequence, evidence, drawn, issued>>
      BY <2>8 DEF Mark, Store!MarkConsumed
    <3>2. Backed(receipt[p]) /\ receipt[p].verdict = "allow"
      BY <3>1 DEF DecisionInv, OthersBacked, Fresh, AllowedBeforeMarked
    <3>3. CASE UNCHANGED consumed /\ Goto(p, "idle", NoReceipt)
      BY <3>1, <3>3, BackedStep
    <3>4. CASE /\ consumed' = consumed \cup {receipt[p].nonce}
               /\ Goto(p, "save", WithStatus(receipt[p], "consumed"))
      <4> DEFINE w == WithStatus(receipt[p], "consumed")
      <4>1. receipt[p] \in Receipt
        BY <3>1 DEF TypeOK
      <4>2. SameDecision(w, receipt[p]) /\ w.receipt_status = "consumed"
        BY <4>1, StatusCopy DEF Status
      <4>3. Backed(w) /\ \E a \in Held : w.nonce = a.nonce
        BY <3>2, <4>2 DEF Backed, SameDecision, Held, Admissions
      <4> HIDE DEF w
      <4>4. Held' = Held /\ Admissions' = Admissions
        BY <3>1 DEF Held, Admissions
      <4>5. pc'[p] = "save" /\ receipt'[p] = w
        BY <3>4 DEF Goto, TypeOK, w
      <4>6. \A q \in Proc \ {p} : pc'[q] = pc[q] /\ receipt'[q] = receipt[q]
        BY <3>4 DEF Goto, TypeOK
      <4>7. ~Fresh(p)' /\ ~Numbered(p)'
        BY <4>2, <4>5 DEF Fresh, Numbered
      <4>8. \A q \in Proc \ {p} : (Fresh(q)' <=> Fresh(q)) /\ (Numbered(q)' <=> Numbered(q))
        BY <4>6 DEF Fresh, Numbered
      <4>9. NoncesDrawn' /\ FreshUnseen'
        BY <3>1, <4>3, <4>4, <4>5, <4>6, <4>7, <4>8 DEF DecisionInv, NoncesDrawn, FreshUnseen
      <4>10. \A x : Backed(x)' <=> Backed(x)
        BY <4>4 DEF Backed, SameDecision
      <4>11. OthersBacked'
        BY <4>3, <4>4, <4>5, <4>6, <4>8, <4>10 DEF DecisionInv, OthersBacked
      <4>12. NumbersTaken' /\ NumbersApart'
        BY <3>1, <4>4, <4>6, <4>7, <4>8 DEF DecisionInv, NumbersTaken, NumbersApart
      <4>13. AllowedBeforeMarked'
        BY <4>5, <4>6 DEF DecisionInv, AllowedBeforeMarked
      <4>14. ConsumedAllowed'
        BY <3>2, <3>4, <4>4 DEF DecisionInv, ConsumedAllowed, Backed, SameDecision
      <4> QED BY <4>9, <4>11, <4>12, <4>13, <4>14 DEF DecisionInv
    <3> QED BY <2>8, <3>3, <3>4 DEF Mark, Store!MarkConsumed
  <2>9. ASSUME NEW p \in Proc, Save(p) PROVE DecisionInv'
    <3>0. PICK r : r = receipt[p]
      OBVIOUS
    <3>1. /\ pc[p] = "save" /\ Goto(p, "return", r)
          /\ UNCHANGED <<sequence, consumed, drawn, issued>>
      BY <2>9, <3>0 DEF Save, Store!SaveReceipt
    <3>2. /\ Admissions' = IF Fresh(p) THEN Admissions \cup {r} ELSE Admissions
          /\ Held' \subseteq Held \cup {r}
      BY <2>9, <3>0, SavedRows
    <3>3. r.nonce \in drawn
      BY <3>0, <3>1 DEF DecisionInv, NoncesDrawn
    <3>4. Fresh(p) => /\ \A q \in Proc \ {p} : pc[q] # "idle" => receipt[q].nonce # r.nonce
                      /\ \A a \in Admissions : a.nonce # r.nonce
      BY <3>0 DEF DecisionInv, FreshUnseen, Held, Admissions
    <3>5. ~Fresh(p) => Backed(r)
      BY <3>0, <3>1 DEF DecisionInv, OthersBacked
    <3>6. pc'[p] = "return" /\ receipt'[p] = r
      BY <3>0, <3>1 DEF Goto, TypeOK
    <3>7. \A q \in Proc \ {p} : pc'[q] = pc[q] /\ receipt'[q] = receipt[q]
      BY <3>0, <3>1 DEF Goto, TypeOK
    <3>8. ~Fresh(p)' /\ ~Numbered(p)'
      BY <3>6 DEF Fresh, Numbered
    <3>9. \A q \in Proc \ {p} : (Fresh(q)' <=> Fresh(q)) /\ (Numbered(q)' <=> Numbered(q))
      BY <3>7 DEF Fresh, Numbered
    <3>10. NoncesDrawn'
      BY <3>1, <3>2, <3>3, <3>6, <3>7 DEF DecisionInv, NoncesDrawn
    <3>11. \A q \in Proc \ {p} : Fresh(q) => receipt[q].nonce # r.nonce
      BY <3>0, <3>1 DEF DecisionInv, FreshUnseen
    <3>12. FreshUnseen'
      BY <3>2, <3>6, <3>7, <3>8, <3>9, <3>11 DEF DecisionInv, FreshUnseen
    <3>13. \A x : Backed(x) => Backed(x)'
      BY <3>2 DEF Backed, SameDecision
    <3>14. Backed(r)'
      BY <3>2, <3>5, <3>13 DEF Backed, SameDecision
    <3>15. OthersBacked'
      BY <3>2, <3>6, <3>7, <3>9, <3>13, <3>14 DEF DecisionInv, OthersBacked
    <3>16. Fresh(p) => Numbered(p)
      BY <3>1 DEF Numbered
    <3>17. NumbersTaken'
      BY <3>0, <3>1, <3>2, <3>7, <3>8, <3>9, <3>16 DEF DecisionInv, NumbersTaken
    <3>18. NumbersApart'
      BY <3>0, <3>1, <3>2, <3>7, <3>8, <3>9, <3>16
      DEF DecisionInv, NumbersApart
    <3>19. AllowedBeforeMarked' /\ ConsumedAllowed'
      BY <3>1, <3>2, <3>6, <3>7 DEF DecisionInv, AllowedBeforeMarked, ConsumedAllowed
    <3> QED BY <3>10, <3>12, <3>15, <3>17, <3>18, <3>19 DEF DecisionInv
  <2>10. ASSUME NEW p \in Proc, Return(p) PROVE DecisionInv'
    <3>1. /\ pc[p] = "return" /\ Goto(p, "idle", NoReceipt)
          /\ issued' = issued \cup {receipt[p]} /\ UNCHANGED <<store, drawn>>
      BY <2>10 DEF Return
    <3>2. Held' = Held \cup {receipt[p]} /\ Admissions' = Admissions
      BY <3>1 DEF Held, Admissions
    <3>3. Backed(receipt[p]) /\ receipt[p].nonce \in drawn
      BY <3>1 DEF DecisionInv, OthersBacked, NoncesDrawn, Fresh
    <3>4. pc'[p] = "idle"
      BY <3>1 DEF Goto, TypeOK
    <3>5. \A q \in Proc \ {p} : pc'[q] = pc[q] /\ receipt'[q] = receipt[q]
      BY <3>1 DEF Goto, TypeOK
    <3>6. ~Fresh(p)' /\ ~Numbered(p)'
      BY <3>4 DEF Fresh, Numbered
    <3>7. \A q \in Proc \ {p} : (Fresh(q)' <=> Fresh(q)) /\ (Numbered(q)' <=> Numbered(q))
      BY <3>5 DEF Fresh, Numbered
    <3>8. NoncesDrawn'
      BY <3>1, <3>2, <3>3, <3>4, <3>5 DEF DecisionInv, NoncesDrawn
    <3>9. FreshUnseen'
      BY <3>1, <3>2, <3>4, <3>5, <3>6, <3>7 DEF DecisionInv, FreshUnseen
    <3>10. \A x : Backed(x)' <=> Backed(x)
      BY <3>2 DEF Backed, SameDecision
    <3>11. OthersBacked'
      BY <3>2, <3>3, <3>4, <3>5, <3>7, <3>10 DEF DecisionInv, OthersBacked
    <3>12. NumbersTaken' /\ NumbersApart'
      BY <3>1, <3>2, <3>5, <3>6, <3>7 DEF DecisionInv, NumbersTaken, NumbersApart
    <3>13. AllowedBeforeMarked' /\ ConsumedAllowed'
      BY <3>1, <3>2, <3>4, <3>5 DEF DecisionInv, AllowedBeforeMarked, ConsumedAllowed
    <3> QED BY <3>8, <3>9, <3>11, <3>12, <3>13 DEF DecisionInv
  <2>11. ASSUME NEW p \in Proc, Abort(p) PROVE DecisionInv'
    BY <2>11, BackedStep DEF Abort
  <2> QED
    BY <2>1, <2>2, <2>3, <2>4, <2>5, <2>6, <2>7, <2>8, <2>9, <2>10, <2>11 DEF Next
<1> QED BY <1>1, <1>2, TypeCorrect, PTL DEF Spec

(* Every receipt anybody holds agrees with a persisted admission.          *)
THEOREM EvidenceOfDecision == Spec => []DecisionPersisted
<1>1. DecisionInv => DecisionPersisted
  BY DEF DecisionInv, OthersBacked, Backed, DecisionPersisted
<1> QED BY <1>1, DecisionInvariant, PTL

(* A number belongs to one decision.                                       *)
THEOREM NumberIdentifies == Spec => []SequenceIdentifiesDecision
<1>1. DecisionInv => SequenceIdentifiesDecision
  BY DEF DecisionInv, OthersBacked, NumbersApart, Backed, SameDecision,
     SequenceIdentifiesDecision
<1> QED BY <1>1, DecisionInvariant, PTL

(* Rows of status "consumed" are saved by the holder of a marked nonce.    *)
ConsumedRowsMarked ==
  \A e \in evidence : e.receipt_status = "consumed" => e.nonce \in consumed

(* Only what was allowed, and has its admission in the evidence, is        *)
(* consumed; only what is consumed has a row that says so.                 *)
THEOREM OnlyAllowedConsumed == Spec => []ConsumedWasAdmitted
<1>1. Init => ConsumedRowsMarked
  BY DEF Init, Store!StoreInit, ConsumedRowsMarked
<1>2. GrantInv /\ ConsumedRowsMarked /\ [Next]_vars => ConsumedRowsMarked'
  <2> SUFFICES ASSUME GrantInv, ConsumedRowsMarked, [Next]_vars
               PROVE  ConsumedRowsMarked'
    OBVIOUS
  <2>1. ASSUME NEW p \in Proc, Save(p) PROVE ConsumedRowsMarked'
    <3>1. /\ pc[p] = "save" /\ UNCHANGED consumed
          /\ \A e \in evidence' : e \in evidence \/ e = receipt[p]
      BY <2>1 DEF Save, Store!SaveReceipt
    <3>2. receipt[p] \in Receipt
      BY <3>1 DEF GrantInv, TypeOK
    <3>3. receipt[p].receipt_status = "consumed" => Holds(p, receipt[p].nonce)
      BY <3>1 DEF Holds
    <3>4. receipt[p].receipt_status = "consumed" => receipt[p].nonce \in consumed
      BY <3>2, <3>3 DEF GrantInv, ConsumedAccountedFor, Receipt
    <3> QED BY <3>1, <3>4 DEF ConsumedRowsMarked
  <2>2. CASE UNCHANGED evidence /\ consumed \subseteq consumed'
    BY <2>2 DEF ConsumedRowsMarked
  <2>3. ASSUME NEW p \in Proc, Mark(p) PROVE ConsumedRowsMarked'
    BY <2>2, <2>3 DEF Mark, Store!MarkConsumed, store
  <2>4. ASSUME NEW p \in Proc, TakeSequence(p) PROVE ConsumedRowsMarked'
    BY <2>2, <2>4 DEF TakeSequence, Store!NextSequence
  <2> QED
    BY <2>1, <2>2, <2>3, <2>4
    DEF Next, Tick, CreateAdmission, Finalize, MarkUnavailable, Consume, Lookup,
        Return, Abort, store, vars
<1>3. DecisionInv /\ ConsumedRowsMarked => ConsumedWasAdmitted
  BY DEF DecisionInv, ConsumedAllowed, ConsumedRowsMarked, ConsumedWasAdmitted
<1> QED BY <1>1, <1>2, <1>3, GrantInvariant, DecisionInvariant, PTL DEF Spec

(* What a step does to the admission rows: Save of a fresh receipt adds    *)
(* it, and no other step changes them.                                     *)
LEMMA AdmissionStep ==
  ASSUME TypeOK, DecisionInv, [Next]_vars
  PROVE  \/ Admissions' = Admissions
         \/ \E p \in Proc : /\ Save(p) /\ Numbered(p)
                            /\ Admissions' = Admissions \cup {receipt[p]}
<1>1. CASE UNCHANGED evidence
  BY <1>1 DEF Admissions
<1>2. ASSUME NEW p \in Proc, Save(p)
      PROVE  \/ Admissions' = Admissions
             \/ /\ Numbered(p) /\ Admissions' = Admissions \cup {receipt[p]}
  BY <1>2, SavedRows DEF Numbered, Save
<1> QED
  BY <1>1, <1>2
  DEF Next, Tick, CreateAdmission, TakeSequence, Finalize, MarkUnavailable,
      Consume, Lookup, Mark, Return, Abort, store, vars,
      Store!NextSequence, Store!MarkConsumed

(* An admission row is written once.                                       *)
THEOREM AdmissionsWrittenOnce == Spec => AdmissionRowsStable
<1>1. TypeOK /\ DecisionInv /\ [Next]_vars => [Admissions \subseteq Admissions']_vars
  BY AdmissionStep
<1> QED
  BY <1>1, TypeCorrect, DecisionInvariant, PTL DEF Spec, AdmissionRowsStable

(* The number just taken is larger than every number that is out.          *)
THEOREM NumbersFollowIssue == Spec => SequenceFollowsIssue
<1> DEFINE Larger == \A p \in Proc :
                       (pc[p] = "sequence" /\ pc'[p] = "save")
                         => \A r \in Held : receipt'[p].sequence > r.sequence
<1>1. TypeOK /\ DecisionInv /\ [Next]_vars => [Larger]_vars
  <2> SUFFICES ASSUME TypeOK, DecisionInv, Next, NEW p \in Proc,
                      pc[p] = "sequence", pc'[p] = "save", NEW r \in Held
               PROVE  receipt'[p].sequence > r.sequence
    BY DEF vars
  <2>1. TakeSequence(p)
    <3>1. PICK q \in Proc :
            \/ CreateAdmission(q) \/ TakeSequence(q) \/ Finalize(q)
            \/ MarkUnavailable(q) \/ Consume(q) \/ Lookup(q) \/ Mark(q)
            \/ Save(q) \/ Return(q) \/ Abort(q)
      BY DEF Next, Tick
    <3>2. \E s, x : Goto(q, s, x)
      BY <3>1 DEF CreateAdmission, TakeSequence, Finalize, MarkUnavailable,
         Consume, Lookup, Mark, Save, Return, Abort, Steps
    <3>3. q = p
      BY <3>2 DEF Goto, TypeOK
    <3>4. ~Abort(p)
      BY DEF Abort, Goto, TypeOK
    <3> QED
      BY <3>1, <3>3, <3>4 DEF CreateAdmission, Finalize, MarkUnavailable,
         Consume, Lookup, Mark, Save, Return
  <2>2. receipt'[p].sequence = sequence + 1
    <3>1. receipt[p] \in Receipt
      BY DEF TypeOK
    <3> QED BY <2>1, <3>1 DEF TakeSequence, Goto, Store!NextSequence, TypeOK, Receipt
  <2>3. PICK a \in Admissions : r.sequence = a.sequence
    BY DEF DecisionInv, OthersBacked, Backed, SameDecision
  <2>4. a.sequence <= sequence /\ a.sequence \in Nat /\ sequence \in Nat
    BY DEF DecisionInv, NumbersTaken, Admissions, TypeOK, Receipt
  <2> QED BY <2>2, <2>3, <2>4
<1> QED
  BY <1>1, TypeCorrect, DecisionInvariant, PTL DEF Spec, SequenceFollowsIssue

(* The managers, taken together, implement the ledger: a decision is       *)
(* entered when its admission row is saved, and spent when its nonce is    *)
(* marked; every other step leaves the ledger as it is.                    *)
THEOREM LedgerImplemented == Spec => ImplementsLedger
<1> DEFINE entry(a) == [nonce |-> a.nonce, sequence |-> a.sequence,
                        verdict |-> a.verdict]
           entries == {entry(a) : a \in Admissions}
<1>1. Init => Ledger!LedgerInit
  BY DEF Init, Store!StoreInit, Ledger!LedgerInit, Admissions
<1>2. TypeOK /\ DecisionInv /\ GrantInv /\ [Next]_vars
        => [Ledger!LedgerNext]_<<entries, consumed>>
  <2> SUFFICES ASSUME TypeOK, DecisionInv, GrantInv, [Next]_vars
               PROVE  Ledger!LedgerNext \/ UNCHANGED <<entries, consumed>>
    OBVIOUS
  <2>1. ASSUME NEW p \in Proc, Save(p), Numbered(p),
               Admissions' = Admissions \cup {receipt[p]}
        PROVE  Ledger!LedgerNext
    <3>1. PICK r : r = receipt[p]
      OBVIOUS
    <3>2. r \in Receipt
      BY <2>1, <3>1 DEF Numbered, TypeOK
    <3>3. \A a \in Admissions : a.nonce # r.nonce /\ a.sequence # r.sequence
      BY <2>1, <3>1 DEF DecisionInv, FreshUnseen, NumbersApart, Numbered, Held, Admissions
    <3>4. entries' = entries \cup {entry(r)} /\ entry(r) \in Ledger!Entry
      BY <2>1, <3>1, <3>2 DEF Ledger!Entry, Receipt
    <3>5. \A d \in entries : d.nonce # entry(r).nonce /\ d.sequence # entry(r).sequence
      BY <3>3
    <3>6. UNCHANGED consumed
      BY <2>1 DEF Save, Store!SaveReceipt
    <3> HIDE DEF entry
    <3> QED BY <3>4, <3>5, <3>6 DEF Ledger!LedgerNext, Ledger!Enter, entry
  <2>2. ASSUME NEW p \in Proc, Mark(p), UNCHANGED Admissions
        PROVE  Ledger!LedgerNext \/ UNCHANGED <<entries, consumed>>
    <3>1. CASE UNCHANGED consumed
      BY <2>2, <3>1
    <3>2. CASE /\ receipt[p].nonce \notin consumed
               /\ consumed' = consumed \cup {receipt[p].nonce}
      <4>1. pc[p] = "mark"
        BY <2>2 DEF Mark
      <4>2. Backed(receipt[p]) /\ receipt[p].verdict = "allow"
        BY <4>1 DEF DecisionInv, OthersBacked, Fresh, AllowedBeforeMarked
      <4>3. PICK a \in Admissions : a.nonce = receipt[p].nonce /\ a.verdict = "allow"
        BY <4>2 DEF Backed, SameDecision
      <4>4. entry(a) \in entries /\ entry(a).verdict = "allow"
              /\ entry(a).nonce = receipt[p].nonce
        BY <4>3
      <4>5. UNCHANGED entries
        BY <2>2
      <4> HIDE DEF entry
      <4> QED BY <3>2, <4>4, <4>5 DEF Ledger!LedgerNext, Ledger!Spend, entry
    <3> QED BY <2>2, <3>1, <3>2 DEF Mark, Store!MarkConsumed, Store!IsConsumed, store
  <2>3. CASE UNCHANGED <<Admissions, consumed>>
    BY <2>3
  <2>4. \A p \in Proc : Mark(p) => UNCHANGED Admissions
    BY DEF Mark, Store!MarkConsumed, store, Admissions
  <2>5. UNCHANGED consumed \/ \E p \in Proc : Mark(p)
    BY DEF Next, Tick, CreateAdmission, TakeSequence, Finalize, MarkUnavailable,
       Consume, Lookup, Save, Return, Abort, store, vars,
       Store!NextSequence, Store!SaveReceipt
  <2> QED BY <2>1, <2>2, <2>3, <2>4, <2>5, AdmissionStep
<1> QED
  BY <1>1, <1>2, TypeCorrect, DecisionInvariant, GrantInvariant, PTL
  DEF Spec, ImplementsLedger, Ledger!LedgerSpec, Ledger!ledger
-----------------------------------------------------------------------------
(* THE PUBLIC VERIFIER                                                     *)

(* Of every receipt in anyone's hands, and of every copy of it, the public *)
(* verifier and the managers it is meant for say the same, up to what only *)
(* one of them can know or checks.                                         *)
THEOREM PublicVerifierAgrees == Spec => []PublicAgrees
<1>1. TypeOK => PublicAgrees
  <2> SUFFICES ASSUME TypeOK, NEW r \in Held, NEW p \in Proc, NEW copy \in Copy,
                      r.audience = AudienceOf[p]
               PROVE  /\ AuthorizingNow(r, copy)
                           => (Accepts(p, r, copy) <=> r.nonce \notin consumed)
                      /\ Accepts(p, r, copy)
                           => \/ AuthorizingNow(r, copy)
                              \/ r.receipt_status = "finalized"
                              \/ copy = "extended"
                              \/ r.command \notin Presentable
    BY DEF PublicAgrees
  <2>1. r.receipt_status \in Status
    BY DEF TypeOK, Held, Receipt
  <2>2. ASSUME AuthorizingNow(r, copy)
        PROVE  Accepts(p, r, copy) <=> r.nonce \notin consumed
    BY <2>2 DEF AuthorizingNow, Authentic, ProfileValid, Accepts, LocallyValid, Authorizing,
                Store!IsConsumed
  <2>3. ASSUME Accepts(p, r, copy), r.receipt_status # "finalized", copy # "extended",
               r.command \in Presentable
        PROVE  AuthorizingNow(r, copy)
    <3>1. /\ copy \notin {"altered", "cut"}
          /\ clock <= r.expires_at
          /\ r.receipt_status \notin {"consumed", "unavailable"}
          /\ r.verdict = "allow"
      BY <2>3 DEF Accepts, LocallyValid, Authorizing
    <3>2. r.receipt_status = "admission"
      BY <2>1, <2>3, <3>1 DEF Status
    <3> QED BY <2>3, <3>1, <3>2 DEF AuthorizingNow, Authentic, ProfileValid
  <2> QED BY <2>2, <2>3
<1> QED BY <1>1, TypeCorrect, PTL

(* The public verifier, which has no database, still never says            *)
(* authorizing_now of anything but a decision of verdict "allow" whose     *)
(* admission is in the database.                                           *)
THEOREM AuthorizingIsAdmitted ==
  Spec => [](\A r \in Held, copy \in Copy :
               AuthorizingNow(r, copy) =>
                 \E a \in Admissions : SameDecision(r, a) /\ a.verdict = "allow")
<1>1. DecisionPersisted =>
        \A r \in Held, copy \in Copy :
          AuthorizingNow(r, copy) =>
            \E a \in Admissions : SameDecision(r, a) /\ a.verdict = "allow"
  BY DEF DecisionPersisted, SameDecision, AuthorizingNow
<1> QED BY <1>1, EvidenceOfDecision, PTL
=============================================================================
