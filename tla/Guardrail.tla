------------------------------- MODULE Guardrail -------------------------------
(***************************************************************************)
(* The decision of the guardrail in the agent's process (guardrail.js and  *)
(* rules.js) on the command that Verifier.tla serves, with the same        *)
(* configuration: a second implementation of the same rules, with other    *)
(* patterns, in a language that coerces where the other raises.  An "odd"  *)
(* value is an array that becomes no key of an object, no number and no    *)
(* word of a pattern; a tool that is a number becomes no key either.       *)
(***************************************************************************)
EXTENDS Verifier

(* verify() has made an agent called "anonymous" of an empty one; arrays   *)
(* are objects, and a number is not.                                       *)
GuardStructure(c) == IF c.tool = "empty" \/ Has(c, "number") THEN "fail" ELSE "pass"

(* Only the presence of the required parameters is looked at; "in" raises  *)
(* on a number.                                                            *)
GuardSchema(c) ==
  IF c.tool \in {"odd", "number", "empty"} \/ ~config.schemas THEN "pass"
  ELSE IF Has(c, "number") THEN "raise"
  ELSE IF Has(c, "missing") \/ Has(c, "list") THEN "fail" ELSE "pass"

(* What is no number is not greater than a limit.                          *)
GuardLatency(c) == IF c.timestamp = "old" THEN "fail" ELSE "pass"

GuardCost(c) == IF config.max_cost /\ c.cost = "over" THEN "fail" ELSE "pass"

GuardIdentity(c) ==
  IF config.allowed_agents /\ c.agent_id # "listed" THEN "fail" ELSE "pass"

(* Mutant of GuardCredentialLeak: only the parameters are searched.        *)
GuardCredentialLeak_Params(c) ==
  IF Has(c, "secret") /\ (Has(c, "url") \/ Has(c, "lookalike")) THEN "fail" ELSE "pass"

(* Both words are looked for in the tool and in the parameters.            *)
GuardCredentialLeak(c) ==
  IF (Has(c, "secret") \/ c.tool \in {"secret", "fetch_secret"}) /\ Outbound(c)
    THEN "fail" ELSE "pass"

(* JSON.stringify() expresses everything that came out of JSON.            *)
GuardEvaluate(rule, c) ==
  CASE rule = "structure"       -> GuardStructure(c)
    [] rule = "schema"          -> GuardSchema(c)
    [] rule = "latency"         -> GuardLatency(c)
    [] rule = "cost"            -> GuardCost(c)
    [] rule = "identity"        -> GuardIdentity(c)
    [] rule = "integrity"       -> "pass"
    [] rule = "ssrf_protection" -> IF Has(c, "ssrf") \/ Has(c, "lookalike") THEN "fail" ELSE "pass"
    [] rule = "rce_protection"  -> IF Has(c, "rce") \/ Has(c, "shell") THEN "fail" ELSE "pass"
    [] rule = "credential_leak" -> GuardCredentialLeak(c)

(* defaultRules().                                                         *)
GuardResults(c) ==
  IF \E rule \in Range(Rules) : GuardEvaluate(rule, c) = "raise"
    THEN None
    ELSE [i \in DOMAIN Rules |-> [name |-> Rules[i], dimension |-> DimensionOf[Rules[i]],
                                  status |-> GuardEvaluate(Rules[i], c), reason |-> TRUE]]

(* An exception becomes one failed result, which goes through the          *)
(* aggregation like any other.                                             *)
Caught(rs) ==
  IF rs = None
    THEN <<[name |-> "guardrail_exception", dimension |-> "security",
           status |-> "fail", reason |-> TRUE]>>
    ELSE rs

GuardDimensions(rs) ==
  [d \in Range(Dimensions) |->
     LET a == StatusesOf(Caught(rs), d)
     IN  IF "fail" \in a THEN "fail"
         ELSE IF "unknown" \in a \/ a = {} THEN "unknown" ELSE "pass"]

(* createAdmission() hashes the parameters, the request and the context; a *)
(* lone surrogate is replaced and does not raise.                          *)
GuardCanonical(c) == ~Has(c, "NaN") /\ c.timestamp # "NaN" /\ c.context # "NaN"

(* verify() returns, and allowed is true.                                  *)
GuardAllows(c) ==
  /\ GuardCanonical(c)
  /\ VerdictOf(GuardDimensions(GuardResults(c))) = "allow"
-----------------------------------------------------------------------------
(* A command with the types that models.py declares, and a schema's.       *)
Typed(c) ==
  /\ c.agent_id \notin {"empty", "odd"} /\ c.tool \notin {"number", "odd"}
  /\ c.timestamp # "odd" /\ c.cost # "odd"
  /\ IsObject(c) /\ ~Has(c, "mistyped")

(* Where the patterns differ: the SDK looks for a sensitive word in the    *)
(* tool too, takes a host for local by its beginning, and rm -rf for       *)
(* harmful with any absolute path.                                         *)
OnlyGuardFinds(c) ==
  \/ Has(c, "lookalike") \/ Has(c, "shell")
  \/ c.tool \in {"secret", "fetch_secret"} /\ Outbound(c)

(* The verifier parses addresses, knows more schemes, more commands and    *)
(* one more sensitive word.                                                *)
OnlyVerifierFinds(c) ==
  \/ Has(c, "hidden") \/ Has(c, "eval")
  \/ Has(c, "passwd") /\ Outbound(c)

(* From the results of the same rules the guardrail comes to the           *)
(* dimensions and the verdict of the verifier, an exception included.  By  *)
(* its own rules it lets through what the verifier allows except for what  *)
(* only its own patterns find; and the verifier allows the typed commands  *)
(* that the guardrail lets through except for what only the verifier's     *)
(* patterns find.  Both exceptions are exact: the two differ on all of     *)
(* these commands and on no others.                                        *)
GuardrailAgrees ==
  (reply # None /\ reply.ok) =>
    /\ GuardDimensions(results) = reply.dimensions
    /\ VerdictOf(GuardDimensions(results)) = reply.verdict
    /\ (config # None) =>
         /\ reply.verdict = "allow" => (GuardAllows(command) <=> ~OnlyGuardFinds(command))
         /\ (GuardAllows(command) /\ Typed(command))
              => (reply.verdict = "allow" <=> ~OnlyVerifierFinds(command))
=============================================================================
