-------------------------------- MODULE Verifier --------------------------------
(***************************************************************************)
(* From a request line to the line that answers it: the default rules      *)
(* (rules.py), their aggregation (verifier.py), the error code (models.py),*)
(* and what the loop of _handle() (server.py) makes of an exception.       *)
(*                                                                         *)
(* All of it runs between two awaits of one process, so a line is served   *)
(* in one step.  A field of a command is the class of its values that the  *)
(* rules tell apart: "odd" is a list that is not empty where a string or a *)
(* number belongs, "NaN" the number that json.loads accepts and            *)
(* canonical_json() refuses, "surrogate" a string that cannot be encoded.  *)
(* Where a pattern of the verifier and the one of the SDK for the same     *)
(* purpose differ, what only one of them finds is a class of its own.  An  *)
(* embedder may give the Verifier rules of its own, which return anything. *)
(***************************************************************************)
EXTENDS Integers, Sequences, SequencesExt

CONSTANTS
  CommandSet,     \* the commands that are sent: a subset of Command
  CustomCases,    \* commands, with what rules of an embedder return for them
  StoreFails,     \* whether the evidence store may fail
  None            \* Python's None

Dimensions == <<"structure", "schema", "latency", "cost", "identity", "integrity", "security">>

(* Mutant of Rules: the security rules come first.                         *)
Rules_SecurityFirst ==
  <<"ssrf_protection", "rce_protection", "credential_leak", "structure", "schema",
    "latency", "cost", "identity", "integrity">>

Rules == <<"structure", "schema", "latency", "cost", "identity", "integrity",
           "ssrf_protection", "rce_protection", "credential_leak">>

DimensionOf == [r \in Range(Rules) |-> IF r \in Range(Dimensions) THEN r ELSE "security"]

(* reason tells whether the result has one: any string but the empty one.  *)
Result == [name : STRING, dimension : STRING, status : {"pass", "fail", "unknown"},
           reason : BOOLEAN]

(* The configuration of the default rules: which limits are set.           *)
Config == [schemas : BOOLEAN, max_cost : BOOLEAN, allowed_agents : BOOLEAN]

(* What the parameters hold.  Found by the rules of both sides: "ssrf",     *)
(* "rce", "secret" (a sensitive word) and "url" (one of the words of       *)
(* rules.py:135).  Found by the verifier alone: "hidden", a local or       *)
(* reserved address as in http://0.0.0.0 or ftp://10.0.0.1, "eval", and    *)
(* "passwd", a sensitive word.  Found by the SDK alone: "lookalike", as in *)
(* http://10.example.com, and "shell", as in rm -rf /tmp.                  *)
Feature == {"missing", "mistyped", "NaN", "surrogate", "ssrf", "hidden", "lookalike",
            "rce", "eval", "shell", "secret", "passwd", "url"}

(* params is a list or a number, or an object with some of the features.   *)
(* The name of a tool may hold a word of rules.py:135 ("fetch"), a         *)
(* sensitive one ("secret") or both.  Nothing checks that it is a name: it *)
(* may be a number.  A timestamp in the future is "recent".                *)
CommandWith(parameters) ==
  [agent_id : {"listed", "other", "empty", "odd"},
   tool : {"plain", "fetch", "secret", "fetch_secret", "empty", "number", "odd"},
   params : parameters,
   timestamp : {"recent", "old", "NaN", "odd"},
   cost : {"none", "within", "over", "NaN", "odd"},
   context : {"plain", "NaN"}]

Command == CommandWith({{"list"}, {"number"}} \cup SUBSET Feature)

ASSUME CommandAssumption == CommandSet \subseteq Command
ASSUME CasesAssumption == \A x \in CustomCases :
  x.command \in Command /\ (x.results = None \/ Range(x.results) \subseteq Result)
ASSUME StoreAssumption   == StoreFails \in BOOLEAN
ASSUME NoneAssumption    ==
  /\ None # "admission"
  /\ None \notin [DOMAIN Rules -> [name : Range(Rules), dimension : Range(Dimensions),
                                   status : {"pass", "fail"}, reason : {TRUE}]]

VARIABLES
  config,   \* Verifier.config; None if the embedder's rules are used
  command,  \* the command being served
  results,  \* the results of its rules; None if a rule raised
  reply     \* the line written back, or None between two lines

vars == <<config, command, results, reply>>
-----------------------------------------------------------------------------
(* The rules.  "raise" is an exception in evaluate().                      *)

Has(c, f) == f \in c.params

IsObject(c) == c.params \subseteq Feature

Structure(c) ==
  IF c.agent_id = "empty" \/ c.tool = "empty" \/ ~IsObject(c) THEN "fail" ELSE "pass"

(* The name is a key of schemas and the schema has one required, typed     *)
(* parameter; membership in a number raises, and so does the lookup of a   *)
(* list.                                                                   *)
Schema(c) ==
  IF c.tool = "odd" THEN "raise"
  ELSE IF c.tool \in {"empty", "number"} \/ ~config.schemas THEN "pass"
  ELSE IF Has(c, "number") THEN "raise"
  ELSE IF Has(c, "missing") \/ Has(c, "list") \/ Has(c, "mistyped") THEN "fail" ELSE "pass"

(* max(0.0, NaN) is 0.0.                                                   *)
Latency(c) ==
  IF c.timestamp = "odd" THEN "raise" ELSE IF c.timestamp = "old" THEN "fail" ELSE "pass"

(* Mutant of Cost: a cost that cannot be compared is no cost.              *)
Cost_Lenient(c) == IF config.max_cost /\ c.cost = "over" THEN "fail" ELSE "pass"

(* NaN is not greater than anything.                                       *)
Cost(c) ==
  IF ~config.max_cost \/ c.cost = "none" THEN "pass"
  ELSE IF c.cost = "odd" THEN "raise" ELSE IF c.cost = "over" THEN "fail" ELSE "pass"

Identity(c) ==
  IF ~config.allowed_agents THEN "pass"
  ELSE IF c.agent_id = "odd" THEN "raise"
  ELSE IF c.agent_id = "listed" THEN "pass" ELSE "fail"

Integrity(c) == IF Has(c, "NaN") THEN "fail" ELSE "pass"

Sensitive(c) == Has(c, "secret") \/ Has(c, "passwd")

(* A word of rules.py:135 in the tool or in the parameters; what only      *)
(* looks like a local address begins with "http".                          *)
Outbound(c) ==
  c.tool \in {"fetch", "fetch_secret"} \/ Has(c, "url") \/ Has(c, "lookalike")

(* The tool is read once a sensitive word is found in the parameters, and  *)
(* " " can be added to a string only.                                      *)
CredentialLeak(c) ==
  IF ~Sensitive(c) THEN "pass"
  ELSE IF c.tool \in {"number", "odd"} THEN "raise"
  ELSE IF Outbound(c) THEN "fail" ELSE "pass"

Evaluate(rule, c) ==
  CASE rule = "structure"       -> Structure(c)
    [] rule = "schema"          -> Schema(c)
    [] rule = "latency"         -> Latency(c)
    [] rule = "cost"            -> Cost(c)
    [] rule = "identity"        -> Identity(c)
    [] rule = "integrity"       -> Integrity(c)
    [] rule = "ssrf_protection" -> IF Has(c, "ssrf") \/ Has(c, "hidden") THEN "fail" ELSE "pass"
    [] rule = "rce_protection"  -> IF Has(c, "rce") \/ Has(c, "eval") THEN "fail" ELSE "pass"
    [] rule = "credential_leak" -> CredentialLeak(c)

(* The for loop of verify(), which an exception leaves.                    *)
DefaultResults(c) ==
  IF \E rule \in Range(Rules) : Evaluate(rule, c) = "raise"
    THEN None
    ELSE [i \in DOMAIN Rules |-> [name |-> Rules[i], dimension |-> DimensionOf[Rules[i]],
                                  status |-> Evaluate(Rules[i], c), reason |-> TRUE]]
-----------------------------------------------------------------------------
(* The aggregation.                                                        *)

StatusesOf(rs, d) == {r.status : r \in {x \in Range(rs) : x.dimension = d}}

Aggregate(rs) ==
  [d \in Range(Dimensions) |->
     LET a == StatusesOf(rs, d)
     IN  IF "fail" \in a THEN "fail"
         ELSE IF "unknown" \in a \/ a = {} THEN "unknown" ELSE "pass"]

(* The dimensions of a verification whose rules raised.                    *)
Raised == [d \in Range(Dimensions) |-> IF d = "security" THEN "fail" ELSE "unknown"]

VerdictOf(dims) ==
  IF "fail" \in Range(dims) THEN "deny"
  ELSE IF "unknown" \in Range(dims) THEN "escalate" ELSE "allow"

FirstFailed(rs) == SelectInSeq(rs, LAMBDA r : r.status = "fail" /\ r.reason)

(* block_reason, as the rule that gives it.                                *)
Reason(rs, verdict) ==
  IF FirstFailed(rs) # 0 THEN rs[FirstFailed(rs)].name
  ELSE IF verdict = "escalate" THEN "unknown dimensions" ELSE None

(* The mapping of error_code, as the dimension that stands for the number; *)
(* -32000 is "security".                                                   *)
ErrorCode(verdict, dims) ==
  LET i == SelectInSeq(Dimensions, LAMBDA d : dims[d] = "fail")
  IN  IF verdict = "allow" THEN None ELSE IF i = 0 THEN "security" ELSE Dimensions[i]
-----------------------------------------------------------------------------
(* The answer.                                                             *)

(* sha256_hex() of the parameters, the request and the context: what       *)
(* create_admission() can express.                                         *)
Canonical(c) ==
  /\ ~Has(c, "NaN") /\ ~Has(c, "surrogate")
  /\ c.timestamp # "NaN"
  /\ c.context # "NaN"

Decision(rs) ==
  LET dims    == IF rs = None THEN Raised ELSE Aggregate(rs)
      verdict == IF rs = None THEN "deny" ELSE VerdictOf(dims)
  IN  [ok |-> TRUE, verdict |-> verdict, dimensions |-> dims,
       block_reason |-> IF rs = None THEN "verifier exception" ELSE Reason(rs, verdict),
       error_code |-> ErrorCode(verdict, dims),
       retryable |-> verdict = "escalate", receipt |-> "admission"]

(* except Exception: no receipt, and the code of the dimension security.   *)
Failure ==
  [ok |-> FALSE, verdict |-> "deny", dimensions |-> None, block_reason |-> "error",
   error_code |-> "security", retryable |-> FALSE, receipt |-> None]

Init ==
  /\ config \in Config \cup {None}
  /\ command = None
  /\ results = None
  /\ reply = None

Cases ==
  IF config = None
    THEN CustomCases
    ELSE {[command |-> c, results |-> DefaultResults(c)] : c \in CommandSet}

(* Mutant of Serve: an evidence store that fails does not stop the answer. *)
Serve_WithoutEvidence ==
  /\ reply = None
  /\ \E x \in Cases :
       /\ command' = x.command
       /\ results' = x.results
       /\ \/ Canonical(x.command) /\ reply' = Decision(x.results)
          \/ reply' = [Decision(x.results) EXCEPT !.receipt = None]
  /\ UNCHANGED config

(* One line is read, verified and answered.  create_admission() raises if  *)
(* it cannot hash the command, or if the store does.                       *)
Serve ==
  /\ reply = None
  /\ \E x \in Cases :
       /\ command' = x.command
       /\ results' = x.results
       /\ \/ Canonical(x.command) /\ reply' = Decision(x.results)
          \/ (StoreFails \/ ~Canonical(x.command)) /\ reply' = Failure
  /\ UNCHANGED config

NextLine ==
  /\ reply # None
  /\ command' = None
  /\ results' = None
  /\ reply' = None
  /\ UNCHANGED config

Next == Serve \/ NextLine

Spec == Init /\ [][Next]_vars
-----------------------------------------------------------------------------
(* PROPERTIES                                                              *)

TypeOK ==
  /\ config \in Config \cup {None}
  /\ command \in Command \cup {None}
  /\ (command = None) <=> (reply = None)
  /\ (reply = None) \/ /\ reply.verdict \in {"allow", "deny", "escalate"}
                       /\ reply.error_code \in Range(Dimensions) \cup {None}
                       /\ reply.retryable => reply.block_reason # None

(* What the default rules are there to let through, read from the command  *)
(* and not from the rules.  Every field that a limit in force has to       *)
(* compare can be compared.  What models.py declares of the other fields   *)
(* is not checked by the code, and not asked for here.                     *)
Readable(c) ==
  /\ c.tool # "odd" /\ c.timestamp # "odd"
  /\ config.allowed_agents => c.agent_id # "odd"
  /\ config.max_cost => c.cost \notin {"NaN", "odd"}
  /\ Sensitive(c) => c.tool # "number"

WithinLimits(c) ==
  /\ c.agent_id # "empty" /\ c.tool # "empty" /\ IsObject(c)
  /\ c.timestamp # "old"
  /\ config.allowed_agents => c.agent_id = "listed"
  /\ config.max_cost => c.cost # "over"
  /\ (config.schemas /\ c.tool # "number") => ~Has(c, "missing") /\ ~Has(c, "mistyped")

Harmless(c) ==
  /\ ~Has(c, "ssrf") /\ ~Has(c, "hidden")
  /\ ~Has(c, "rce") /\ ~Has(c, "eval")
  /\ ~(Sensitive(c) /\ Outbound(c))

Acceptable(c) == Canonical(c) /\ Readable(c) /\ WithinLimits(c) /\ Harmless(c)

(* The command without a cost that is no number.                           *)
NaNDropped(c) == [c EXCEPT !.cost = IF @ = "NaN" THEN "none" ELSE @]

(* The default rules allow an acceptable command and nothing else, though  *)
(* several of them raise on commands that others refuse; only the store    *)
(* can turn an allow into a deny.  There is one exception, in which the    *)
(* code is more lenient than it should be: a cost of NaN is not greater    *)
(* than any limit (rules.py:64), so that the command is judged as one      *)
(* without a cost.                                                         *)
AllowedIffAcceptableUnlessNaN ==
  (reply # None /\ config # None) =>
    /\ reply.verdict = "allow" => Acceptable(NaNDropped(command))
    /\ (Acceptable(NaNDropped(command)) /\ reply.ok) => reply.verdict = "allow"

(* Whatever rules there are, a command is denied if and only if one of a   *)
(* known dimension has failed, and the code is that of such a rule: a      *)
(* failure may not get lost in the aggregation, but for one of a dimension *)
(* that is none of the seven, which has no part in the verdict.  The       *)
(* default rules also give the reason and the code of one dimension,       *)
(* though the reason is the first in the order of the rules and the code   *)
(* the first in the order of the dimensions.                               *)
CodeMatchesReason ==
  (reply # None /\ results # None /\ reply.ok) =>
    LET failed == {r \in Range(results) : r.status = "fail" /\ r.dimension \in Range(Dimensions)}
    IN  /\ reply.verdict = "deny" <=> failed # {}
        /\ reply.verdict = "deny" =>
             /\ \E r \in failed : r.dimension = reply.error_code
             /\ (config # None) => reply.error_code = DimensionOf[reply.block_reason]

(* A caller is only ever let through, or told to ask somebody, on evidence:*)
(* an answer without a receipt is a final deny.                            *)
NoReceiptNoEntry ==
  (reply # None) => (reply.receipt = None => reply.verdict = "deny" /\ ~reply.retryable)
=============================================================================
