------------------------------ MODULE LocalGuard ------------------------------
(***************************************************************************)
(* Tool calls governed inside the agent's process: govern() of             *)
(* guardrail.js, the plugin of dsh.js, and the receipt manager of          *)
(* receipt.js, which keeps its counter and its replay set in memory.       *)
(* Calls overlap while their tools run; between two awaits nothing else    *)
(* runs, so the verification and the start of the tool are one step.       *)
(*                                                                         *)
(* A process may have several providers, each with a manager of its own,   *)
(* and managers may be given the same key pair.  How the verdict is        *)
(* reached is in Guardrail.tla.  A nonce is named after the call that      *)
(* draws it.                                                               *)
(***************************************************************************)
EXTENDS Naturals

CONSTANTS
  Call,        \* tool calls
  Manager,     \* receipt managers
  ManagerOf,   \* the manager of the guard that governs each call
  Key,         \* key pairs
  KeyOf,       \* the key pair of each manager
  Verdict,     \* "allow" and the verdicts that do not authorize
  Output,      \* what a tool can return
  Hashable,    \* the outputs that sha256URI() can hash; undefined is not one
  None,        \* no receipt, no output: null
  TTL,         \* ttlSeconds
  MaxTime      \* bound on the clock

ASSUME VerdictAssumption == "allow" \in Verdict
ASSUME ManagerAssumption == ManagerOf \in [Call -> Manager]
ASSUME KeyAssumption     == KeyOf \in [Manager -> Key]
ASSUME OutputAssumption  == Hashable \subseteq Output /\ None \notin Output
ASSUME TimeAssumption    == TTL \in Nat /\ MaxTime \in Nat

Status == {"admission", "finalized", "consumed"}

Receipt == [nonce : Call, sequence : Nat, verdict : Verdict, expires_at : Nat,
            response_hash : Hashable \cup {None}, receipt_status : Status, key : Key]

ASSUME NoneAssumption == None \notin Receipt

VARIABLES
  clock,     \* Date.now()
  sequence,  \* sequence[m], consumed[m]: the fields of manager m
  consumed,
  pc,        \* pc[c]: where the call is
  receipt,   \* receipt[c]: v.receipt of the call
  output,    \* output[c]: what its tool returned
  result,    \* result[c]: the finalized receipt that goes with the output
  held,      \* the receipts outside the managers
  grants     \* grants[m][n]: consume() calls of m that returned a receipt of n

manager == <<sequence, consumed>>
vars == <<clock, manager, pc, receipt, output, result, held, grants>>

Steps == {"idle", "running", "returned", "fulfilled", "denied", "failed", "handed"}

Init ==
  /\ clock = 0
  /\ sequence = [m \in Manager |-> 0]
  /\ consumed = [m \in Manager |-> {}]
  /\ pc = [c \in Call |-> "idle"]
  /\ receipt = [c \in Call |-> None]
  /\ output = [c \in Call |-> None]
  /\ result = [c \in Call |-> None]
  /\ held = {}
  /\ grants = [m \in Manager |-> [n \in Call |-> 0]]

Goto(c, s) == pc' = [pc EXCEPT ![c] = s]

(* createAdmission(): the number is the manager's own.                     *)
Admission(c, v) ==
  [nonce |-> c, sequence |-> sequence[ManagerOf[c]] + 1, verdict |-> v,
   expires_at |-> clock + TTL, response_hash |-> None,
   receipt_status |-> "admission", key |-> KeyOf[ManagerOf[c]]]

(* createAdmission() takes its number and returns, with verdict v.         *)
Verify(c, v) ==
  /\ sequence' = [sequence EXCEPT ![ManagerOf[c]] = @ + 1]
  /\ receipt' = [receipt EXCEPT ![c] = Admission(c, v)]

(* governed() up to the await.  A refusal throws, with the receipt in the  *)
(* error; else the tool is started.                                        *)
Govern(c) ==
  \E v \in Verdict :
    /\ pc[c] = "idle"
    /\ Verify(c, v)
    /\ IF v = "allow"
         THEN Goto(c, "running") /\ UNCHANGED held
         ELSE Goto(c, "denied") /\ held' = held \cup {receipt'[c]}
    /\ UNCHANGED <<clock, consumed, output, result, grants>>

(* beforeToolCall() of the plugin, or verify() called directly: the caller *)
(* has the receipt, and the tool is the framework's.                       *)
BeforeToolCall(c) ==
  \E v \in Verdict :
    /\ pc[c] = "idle"
    /\ Verify(c, v)
    /\ Goto(c, IF v = "allow" THEN "handed" ELSE "denied")
    /\ held' = held \cup {receipt'[c]}
    /\ UNCHANGED <<clock, consumed, output, result, grants>>

(* verify() throws: the command cannot be hashed, or the configuration     *)
(* cannot, by which time the number is taken.                              *)
VerifyThrows(c) ==
  /\ pc[c] = "idle"
  /\ \/ UNCHANGED sequence
     \/ sequence' = [sequence EXCEPT ![ManagerOf[c]] = @ + 1]
  /\ Goto(c, "failed")
  /\ UNCHANGED <<clock, consumed, receipt, output, result, held, grants>>

(* The promise of the tool settles.                                        *)
ToolReturns(c) ==
  \E x \in Output :
    /\ pc[c] = "running"
    /\ Goto(c, "returned")
    /\ output' = [output EXCEPT ![c] = x]
    /\ UNCHANGED <<clock, manager, receipt, result, held, grants>>

ToolThrows(c) ==
  /\ pc[c] = "running"
  /\ Goto(c, "failed")
  /\ UNCHANGED <<clock, manager, receipt, output, result, held, grants>>

(* Mutant of Finalized: the receipt gets a new lease.                      *)
Finalized_Renews(m, r, x) ==
  [r EXCEPT !.response_hash = x, !.receipt_status = "finalized", !.key = KeyOf[m],
            !.expires_at = clock + TTL]

(* finalize() of manager m: a copy of r, signed by m, whatever r is.       *)
Finalized(m, r, x) ==
  [r EXCEPT !.response_hash = x, !.receipt_status = "finalized", !.key = KeyOf[m]]

(* Mutant of Resume: the guard remembers one receipt, the last, for all    *)
(* its calls.                                                              *)
Resume_LastReceipt(c) ==
  \E d \in Call :
    /\ pc[c] = "returned"
    /\ ManagerOf[d] = ManagerOf[c]
    /\ receipt[d] # None /\ receipt[d].sequence = sequence[ManagerOf[c]]
    /\ output[c] \in Hashable
    /\ Goto(c, "fulfilled")
    /\ result' = [result EXCEPT ![c] = Finalized(ManagerOf[c], receipt[d], output[c])]
    /\ held' = held \cup {result'[c]}
    /\ UNCHANGED <<clock, manager, receipt, output, grants>>

(* governed() after the await: finalize(), which throws if the output      *)
(* cannot be hashed.  The caller sees the receipt if it asked for evidence.*)
Resume(c) ==
  /\ pc[c] = "returned"
  /\ IF output[c] \in Hashable
       THEN /\ Goto(c, "fulfilled")
            /\ result' = [result EXCEPT ![c] = Finalized(ManagerOf[c], receipt[c], output[c])]
            /\ \/ UNCHANGED held
               \/ held' = held \cup {result'[c]}
       ELSE Goto(c, "failed") /\ UNCHANGED <<result, held>>
  /\ UNCHANGED <<clock, manager, receipt, output, grants>>

(* finalize() called directly, by whoever has a receipt.                   *)
Finalize(m) ==
  \E r \in held, x \in Hashable :
    /\ held' = held \cup {Finalized(m, r, x)}
    /\ UNCHANGED <<clock, manager, pc, receipt, output, result, grants>>

(* validate() as consume() calls it; one audience is assumed.              *)
Valid(m, r) ==
  /\ r.key = KeyOf[m]
  /\ clock <= r.expires_at
  /\ r.receipt_status # "consumed"
  /\ r.verdict = "allow"

(* Mutant of Consume: the replay set is keyed by the whole receipt.        *)
Consume_ByStatus(m) ==
  \E r \in held :
    /\ Valid(m, r)
    /\ r.nonce \notin consumed[m] \/ r.receipt_status = "finalized"
    /\ consumed' = [consumed EXCEPT ![m] = @ \cup {r.nonce}]
    /\ held' = held \cup {[r EXCEPT !.receipt_status = "consumed", !.key = KeyOf[m]]}
    /\ grants' = [grants EXCEPT ![m][r.nonce] = @ + 1]
    /\ UNCHANGED <<clock, sequence, pc, receipt, output, result>>

(* consume(); a receipt that it refuses changes nothing.                   *)
Consume(m) ==
  \E r \in held :
    /\ Valid(m, r)
    /\ r.nonce \notin consumed[m]
    /\ consumed' = [consumed EXCEPT ![m] = @ \cup {r.nonce}]
    /\ held' = held \cup {[r EXCEPT !.receipt_status = "consumed", !.key = KeyOf[m]]}
    /\ grants' = [grants EXCEPT ![m][r.nonce] = @ + 1]
    /\ UNCHANGED <<clock, sequence, pc, receipt, output, result>>

Tick ==
  /\ clock < MaxTime
  /\ clock' = clock + 1
  /\ UNCHANGED <<manager, pc, receipt, output, result, held, grants>>

Next ==
  \/ Tick
  \/ \E c \in Call :
       \/ Govern(c) \/ BeforeToolCall(c) \/ VerifyThrows(c)
       \/ ToolReturns(c) \/ ToolThrows(c) \/ Resume(c)
  \/ \E m \in Manager : Finalize(m) \/ Consume(m)

Spec == Init /\ [][Next]_vars
-----------------------------------------------------------------------------
(* PROPERTIES                                                              *)

TypeOK ==
  /\ clock \in Nat
  /\ sequence \in [Manager -> Nat]
  /\ consumed \in [Manager -> SUBSET Call]
  /\ pc \in [Call -> Steps]
  /\ receipt \in [Call -> Receipt \cup {None}]
  /\ output \in [Call -> Output \cup {None}]
  /\ result \in [Call -> Receipt \cup {None}]
  /\ held \subseteq Receipt
  /\ grants \in [Manager -> [Call -> Nat]]

(* Whatever copies of a receipt are finalized, by whichever manager, and   *)
(* though finalize() turns a consumed receipt into one that is not: no     *)
(* manager authorizes one decision twice.                                  *)
OneGrantPerManager == \A m \in Manager, n \in Call : grants[m][n] <= 1

SameDecision(r, s) ==
  /\ r.nonce = s.nonce /\ r.sequence = s.sequence
  /\ r.verdict = s.verdict /\ r.expires_at = s.expires_at

(* A tool has run for an allowed decision only, and the evidence that goes *)
(* with an output is that of its own call: the call's decision, and its    *)
(* response, however the calls of one guard overlap.                       *)
EvidenceOfOwnRun ==
  \A c \in Call :
    /\ (pc[c] = "running" \/ output[c] # None)
         => receipt[c] # None /\ receipt[c].verdict = "allow"
    /\ result[c] # None =>
         /\ result[c].receipt_status = "finalized"
         /\ result[c].response_hash = output[c]
         /\ SameDecision(result[c], receipt[c])

(* ARCHITECTURE.md: finalizing preserves the original decision context.    *)
(* Every receipt in circulation carries the decision of its call, and the  *)
(* number tells the decisions of one manager apart.                        *)
DecisionsKept ==
  /\ \A r \in held : receipt[r.nonce] # None /\ SameDecision(r, receipt[r.nonce])
  /\ \A c, d \in Call :
       (c # d /\ ManagerOf[c] = ManagerOf[d] /\ receipt[c] # None /\ receipt[d] # None)
         => receipt[c].sequence # receipt[d].sequence

(* The lifecycle of standards/README.md: the tool executes, the receipt is *)
(* finalized.  It does not hold for an output that cannot be hashed.       *)
RunIsFinalized ==
  \A c \in Call : (output[c] # None /\ pc[c] # "returned") => result[c] # None
=============================================================================
