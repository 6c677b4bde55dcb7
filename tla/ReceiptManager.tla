---------------------------- MODULE ReceiptManager ----------------------------
(***************************************************************************)
(* The life of a decision receipt (receipt.py): several ReceiptManagers,   *)
(* each its own process, share one evidence database and one signing key.  *)
(* A call is a sequence of steps, because it reads the clock, draws a      *)
(* nonce, asks the database for a number, looks the nonce up, marks it and *)
(* saves a row in separate transactions, between which another manager     *)
(* may do anything and the process may die.                                *)
(*                                                                         *)
(* The callers pass receipts that some manager signed: those returned to   *)
(* them and those read back from the database.  Hashes, signatures and the *)
(* fields nothing here tells apart are left out; `command' stands for the  *)
(* fields that bind a receipt to its request.                              *)
(***************************************************************************)
EXTENDS Naturals

CONSTANTS
  Proc,         \* receipt managers
  Nonce,        \* values of secrets.token_hex(16), drawn at most once
  Command,      \* commands a receipt can be bound to
  Verdict,      \* "allow" and the verdicts that do not authorize
  Audience,     \* executors a receipt can be meant for
  AudienceOf,   \* the audience each manager is configured with
  Response,     \* tool responses
  NoResponse,   \* response_hash of a receipt that has none: None
  NoReceipt,    \* no call is being served
  TTL,          \* ttl_seconds
  MaxTime       \* bound on the clock

ASSUME VerdictAssumption  == "allow" \in Verdict
ASSUME AudienceAssumption == AudienceOf \in [Proc -> Audience]
ASSUME TimeAssumption     == TTL \in Nat /\ MaxTime \in Nat

Status == {"admission", "finalized", "unavailable", "consumed"}

Receipt == [nonce : Nonce, sequence : Nat, verdict : Verdict,
            command : Command, audience : Audience, expires_at : Nat,
            response_hash : Response \cup {NoResponse},
            receipt_status : Status]

ASSUME NoReceiptAssumption == NoReceipt \notin Receipt

VARIABLES
  clock,        \* time.time()
  sequence,     \* the database: see EvidenceStore.tla
  evidence,
  consumed,
  pc,           \* pc[p]: the next step of the call that p serves
  receipt,      \* receipt[p]: the receipt that call is working on
  drawn,        \* nonces drawn so far
  issued,       \* every receipt returned to a caller
  grants,       \* grants[n]: consume() calls that returned a receipt of n
  aborted       \* nonces marked by a consume() call that never returned

store == <<sequence, evidence, consumed>>
history == <<issued, grants, aborted>>
vars == <<clock, store, pc, receipt, drawn, history>>

Store == INSTANCE EvidenceStore

Steps == {"idle", "sequence", "lookup", "mark", "save", "return"}

Held == issued \cup evidence

Admissions == {r \in evidence : r.receipt_status = "admission"}

Init ==
  /\ clock = 0
  /\ Store!StoreInit
  /\ pc = [p \in Proc |-> "idle"]
  /\ receipt = [p \in Proc |-> NoReceipt]
  /\ drawn = {}
  /\ issued = {}
  /\ grants = [n \in Nonce |-> 0]
  /\ aborted = {}

(* out["receipt_status"] = s, in a copy of r.                              *)
WithStatus(r, s) == [r EXCEPT !.receipt_status = s]

(* p goes on to step s of its call, now working on receipt r.              *)
Goto(p, s, r) ==
  /\ pc' = [pc EXCEPT ![p] = s]
  /\ receipt' = [receipt EXCEPT ![p] = r]

(* create_admission() up to the number: the clock is read first, then the  *)
(* nonce is drawn.                                                         *)
CreateAdmission(p) ==
  \E n \in Nonce \ drawn, v \in Verdict, c \in Command :
    /\ pc[p] = "idle"
    /\ drawn' = drawn \cup {n}
    /\ Goto(p, "sequence",
            [nonce |-> n, sequence |-> 0, verdict |-> v, command |-> c,
             audience |-> AudienceOf[p], expires_at |-> clock + TTL,
             response_hash |-> NoResponse, receipt_status |-> "admission"])
    /\ UNCHANGED <<clock, store, history>>

(* Mutant of TakeSequence: the time serves as the number.                  *)
TakeSequence_FromClock(p) ==
  /\ pc[p] = "sequence"
  /\ Store!NextSequence
  /\ Goto(p, "save", [receipt[p] EXCEPT !.sequence = clock])
  /\ UNCHANGED <<clock, drawn, history>>

(* _next_sequence(), and the new number goes into the receipt.             *)
TakeSequence(p) ==
  /\ pc[p] = "sequence"
  /\ Store!NextSequence
  /\ Goto(p, "save", [receipt[p] EXCEPT !.sequence = sequence'])
  /\ UNCHANGED <<clock, drawn, history>>

(* Mutants of Finalize: the receipt gets a new lease; the status is left.  *)
Finalize_Renews(p) ==
  \E r \in Held, x \in Response :
    /\ pc[p] = "idle"
    /\ Goto(p, "save", WithStatus([r EXCEPT !.response_hash = x,
                                            !.expires_at = clock + TTL],
                                  "finalized"))
    /\ UNCHANGED <<clock, store, drawn, history>>

Finalize_KeepsStatus(p) ==
  \E r \in Held, x \in Response :
    /\ pc[p] = "idle"
    /\ Goto(p, "save", [r EXCEPT !.response_hash = x])
    /\ UNCHANGED <<clock, store, drawn, history>>

(* finalize() and mark_unavailable() check nothing.                        *)
Finalize(p) ==
  \E r \in Held, x \in Response :
    /\ pc[p] = "idle"
    /\ Goto(p, "save", WithStatus([r EXCEPT !.response_hash = x], "finalized"))
    /\ UNCHANGED <<clock, store, drawn, history>>

MarkUnavailable(p) ==
  \E r \in Held :
    /\ pc[p] = "idle"
    /\ Goto(p, "save", WithStatus(r, "unavailable"))
    /\ UNCHANGED <<clock, store, drawn, history>>

(* The checks of validate() that precede the database: the audience, the   *)
(* time, and the status.                                                   *)
LocallyValid(p, r) ==
  /\ r.audience = AudienceOf[p]
  /\ clock <= r.expires_at
  /\ r.receipt_status \notin {"consumed", "unavailable"}

(* consume() up to is_consumed(); a receipt that fails a check raises, and *)
(* changes nothing.                                                        *)
Consume(p) ==
  \E r \in Held :
    /\ pc[p] = "idle"
    /\ LocallyValid(p, r)
    /\ Goto(p, "lookup", r)
    /\ UNCHANGED <<clock, store, drawn, history>>

(* Mutant of Authorizing: consume() forgets require_authorizing.           *)
Authorizing_AnyVerdict(r) == ~Store!IsConsumed(r.nonce)

(* The rest of validate(): is_consumed(), then the verdict.                *)
Authorizing(r) == ~Store!IsConsumed(r.nonce) /\ r.verdict = "allow"

(* Mutant of Lookup: the nonce is taken before the verdict is looked at.   *)
Lookup_MarksFirst(p) ==
  /\ pc[p] = "lookup"
  /\ IF Authorizing(receipt[p])
       THEN Goto(p, "mark", receipt[p]) /\ UNCHANGED store
       ELSE /\ Goto(p, "idle", NoReceipt)
            /\ consumed' = consumed \cup {receipt[p].nonce}
            /\ UNCHANGED <<sequence, evidence>>
  /\ UNCHANGED <<clock, drawn, history>>

Lookup(p) ==
  /\ pc[p] = "lookup"
  /\ IF Authorizing(receipt[p])
       THEN Goto(p, "mark", receipt[p])
       ELSE Goto(p, "idle", NoReceipt)
  /\ UNCHANGED <<clock, store, drawn, history>>

(* Mutant of Mark: the lookup is trusted, and the row inserted regardless. *)
Mark_Regardless(p) ==
  /\ pc[p] = "mark"
  /\ consumed' = consumed \cup {receipt[p].nonce}
  /\ Goto(p, "save", WithStatus(receipt[p], "consumed"))
  /\ UNCHANGED <<clock, sequence, evidence, drawn, history>>

(* mark_consumed(), which takes the nonce or raises.                       *)
Mark(p) ==
  /\ pc[p] = "mark"
  /\ \/ /\ Store!MarkConsumed(receipt[p].nonce)
        /\ Goto(p, "save", WithStatus(receipt[p], "consumed"))
     \/ /\ Store!IsConsumed(receipt[p].nonce)
        /\ Goto(p, "idle", NoReceipt)
        /\ UNCHANGED store
  /\ UNCHANGED <<clock, drawn, history>>

(* _sign(): the receipt is signed, then persisted.                         *)
Save(p) ==
  /\ pc[p] = "save"
  /\ Store!SaveReceipt(receipt[p])
  /\ Goto(p, "return", receipt[p])
  /\ UNCHANGED <<clock, drawn, history>>

(* The caller gets the receipt.  One of status "consumed" is the licence   *)
(* to act that consume() grants.                                           *)
Return(p) ==
  /\ pc[p] = "return"
  /\ issued' = issued \cup {receipt[p]}
  /\ grants' = IF receipt[p].receipt_status = "consumed"
                 THEN [grants EXCEPT ![receipt[p].nonce] = @ + 1]
                 ELSE grants
  /\ Goto(p, "idle", NoReceipt)
  /\ UNCHANGED <<clock, store, drawn, aborted>>

(* The call ends without an answer: the process died, or the database      *)
(* stayed busy for longer than the timeout and the exception left.         *)
Abort(p) ==
  /\ pc[p] # "idle"
  /\ aborted' = IF receipt[p].receipt_status = "consumed"
                  THEN aborted \cup {receipt[p].nonce}
                  ELSE aborted
  /\ Goto(p, "idle", NoReceipt)
  /\ UNCHANGED <<clock, store, drawn, issued, grants>>

Tick ==
  /\ clock < MaxTime
  /\ clock' = clock + 1
  /\ UNCHANGED <<store, pc, receipt, drawn, history>>

Next ==
  \/ Tick
  \/ \E p \in Proc :
       \/ CreateAdmission(p) \/ TakeSequence(p)
       \/ Finalize(p) \/ MarkUnavailable(p)
       \/ Consume(p) \/ Lookup(p) \/ Mark(p)
       \/ Save(p) \/ Return(p) \/ Abort(p)

Spec == Init /\ [][Next]_vars
-----------------------------------------------------------------------------
(* PROPERTIES                                                              *)

TypeOK ==
  /\ clock \in Nat
  /\ sequence \in Nat
  /\ evidence \subseteq Receipt
  /\ consumed \subseteq Nonce
  /\ pc \in [Proc -> Steps]
  /\ receipt \in [Proc -> Receipt \cup {NoReceipt}]
  /\ \A p \in Proc : receipt[p] = NoReceipt <=> pc[p] = "idle"
  /\ drawn \subseteq Nonce
  /\ issued \subseteq Receipt
  /\ grants \in [Nonce -> Nat]
  /\ aborted \subseteq Nonce

(* An authorization is acted on at most once, whatever the managers, the   *)
(* copies of the receipt (finalized ones included) and the crashes: no two *)
(* consume() calls for one nonce both return.                              *)
AtMostOneGrant == \A n \in Nonce : grants[n] <= 1

(* p has marked the nonce of its receipt and has not answered yet.         *)
Holds(p, n) ==
  /\ pc[p] \in {"save", "return"}
  /\ receipt[p].receipt_status = "consumed"
  /\ receipt[p].nonce = n

(* A refused consume() burns nothing: a nonce is in the table consumed     *)
(* exactly when one call was granted it, holds it, or died holding it.     *)
ConsumedAccountedFor ==
  consumed = {n \in Nonce : \/ grants[n] = 1
                            \/ n \in aborted
                            \/ \E p \in Proc : Holds(p, n)}

(* Only what the verifier allowed is ever consumed, and the evidence for   *)
(* it is there: a consumed nonce has a persisted admission row of verdict  *)
(* "allow", and a row of status "consumed" only exists for such a nonce.   *)
ConsumedWasAdmitted ==
  /\ \A n \in consumed : \E a \in Admissions : a.nonce = n /\ a.verdict = "allow"
  /\ \A e \in evidence : e.receipt_status = "consumed" => e.nonce \in consumed

SameDecision(r, a) ==
  /\ r.nonce = a.nonce
  /\ r.sequence = a.sequence
  /\ r.verdict = a.verdict
  /\ r.command = a.command
  /\ r.audience = a.audience
  /\ r.expires_at = a.expires_at

(* Whatever has been done to a receipt since, its caller can find the      *)
(* decision it came from: the admission was persisted before anything was  *)
(* returned, and finalize(), mark_unavailable() and consume() change none  *)
(* of the decision's fields.                                               *)
DecisionPersisted == \A r \in Held : \E a \in Admissions : SameDecision(r, a)

(* Two decisions never carry the same number, across managers, aborted     *)
(* calls and restarts.                                                     *)
SequenceIdentifiesDecision ==
  \A r, s \in Held : (r.sequence = s.sequence) => (r.nonce = s.nonce)

(* Numbers follow real time: the admission returned now has a larger one   *)
(* than every receipt that was out when its number was not yet taken.      *)
SequenceFollowsIssue ==
  [][\A p \in Proc :
       (pc[p] = "sequence" /\ pc'[p] = "save")
         => \A r \in Held : receipt'[p].sequence > r.sequence]_vars

(* The row of an admission is written once: no later save replaces it,     *)
(* though every save is an INSERT OR REPLACE.                              *)
AdmissionRowsStable == [][Admissions \subseteq Admissions']_vars

Ledger == INSTANCE AuthorizationLedger WITH
  entries <- {[nonce |-> a.nonce, sequence |-> a.sequence,
               verdict |-> a.verdict] : a \in Admissions},
  spent <- consumed

(* The managers together implement the ledger of authorizations.           *)
ImplementsLedger == Ledger!LedgerSpec
=============================================================================
