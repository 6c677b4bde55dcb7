---------------------------- MODULE VerifierProofs ----------------------------
(***************************************************************************)
(* The verdict for every command there is, with any combination of         *)
(* features, and for any results of custom rules.  The run enumerates      *)
(* commands with at most two features.                                     *)
(***************************************************************************)
EXTENDS Guardrail, TLAPS

(* The rules and the dimensions, spelled out.                              *)
LEMMA Tables ==
  /\ DOMAIN Rules = 1 .. 9
  /\ DOMAIN Dimensions = 1 .. 7
  /\ \A i \in 1 .. 9 : Rules[i] \in Range(Rules)
  /\ \A r \in Range(Rules) : \E i \in 1 .. 9 : r = Rules[i]
  /\ \A k \in 1 .. 7 : Dimensions[k] \in Range(Dimensions)
  /\ \A d \in Range(Dimensions) : \E k \in 1 .. 7 : d = Dimensions[k]
<1>1. DOMAIN Rules = 1 .. 9
  BY DEF Rules
<1>2. DOMAIN Dimensions = 1 .. 7
  BY DEF Dimensions
<1> QED BY <1>1, <1>2 DEF Range

(* The dimension of the i-th rule is the i-th, and the last for the three  *)
(* rules of the security.                                                  *)
Place(i) == IF i <= 7 THEN i ELSE 7

LEMMA DimensionsOfRules ==
  /\ \A i \in 1 .. 9 : Place(i) \in 1 .. 7 /\ DimensionOf[Rules[i]] = Dimensions[Place(i)]
  /\ \A k, l \in 1 .. 7 : Dimensions[k] = Dimensions[l] => k = l
<1>1. \A i \in 1 .. 9 : Place(i) \in 1 .. 7
  BY DEF Place
<1>2. ASSUME NEW i \in 1 .. 9 PROVE DimensionOf[Rules[i]] = Dimensions[Place(i)]
  <2>1. DimensionOf[Rules[i]] =
          IF Rules[i] \in Range(Dimensions) THEN Rules[i] ELSE "security"
    BY Tables DEF DimensionOf
  <2>2. CASE i <= 6
    <3>1. i = 1 \/ i = 2 \/ i = 3 \/ i = 4 \/ i = 5 \/ i = 6
      BY <2>2
    <3>2. Rules[i] = Dimensions[i] /\ Place(i) = i
      BY <3>1 DEF Rules, Dimensions, Place
    <3> QED BY <2>1, <3>1, <3>2, Tables
  <2>3. CASE i > 6
    <3>1. \A k \in 1 .. 7 : Rules[i] # Dimensions[k]
      BY <2>3 DEF Rules, Dimensions
    <3>2. Rules[i] \notin Range(Dimensions)
      BY <3>1, Tables
    <3>3. Dimensions[Place(i)] = "security"
      BY <2>3 DEF Dimensions, Place
    <3> QED BY <2>1, <3>2, <3>3
  <2> QED BY <2>2, <2>3
<1>3. \A k, l \in 1 .. 7 : Dimensions[k] = Dimensions[l] => k = l
  BY DEF Dimensions
<1> QED BY <1>1, <1>2, <1>3

(* The results of nine rules that did not raise, with the status st[i].    *)
ResultsOf(st) ==
  [i \in DOMAIN Rules |-> [name |-> Rules[i], dimension |-> DimensionOf[Rules[i]],
                           status |-> st[i], reason |-> TRUE]]

(* A dimension fails if a rule of it does, and passes otherwise.           *)
LEMMA AggregateOfResults ==
  ASSUME NEW st \in [1 .. 9 -> {"pass", "fail"}], NEW k \in 1 .. 7
  PROVE  /\ (\E i \in 1 .. 9 : Place(i) = k /\ st[i] = "fail")
               => Aggregate(ResultsOf(st))[Dimensions[k]] = "fail"
         /\ ~(\E i \in 1 .. 9 : Place(i) = k /\ st[i] = "fail")
               => Aggregate(ResultsOf(st))[Dimensions[k]] = "pass"
<1> DEFINE rs == ResultsOf(st)
           statuses == StatusesOf(rs, Dimensions[k])
<1>1. /\ DOMAIN rs = 1 .. 9
      /\ \A i \in 1 .. 9 : rs[i].status = st[i] /\ rs[i].dimension = Dimensions[Place(i)]
  BY Tables, DimensionsOfRules DEF ResultsOf
<1>2. \A i \in 1 .. 9 : Place(i) = k => st[i] \in statuses
  BY <1>1 DEF StatusesOf, Range
<1>3. \A s \in statuses : \E i \in 1 .. 9 : Place(i) = k /\ s = st[i]
  <2> SUFFICES ASSUME NEW s \in statuses PROVE \E i \in 1 .. 9 : Place(i) = k /\ s = st[i]
    OBVIOUS
  <2>1. PICK i \in DOMAIN rs : rs[i].dimension = Dimensions[k] /\ s = rs[i].status
    BY DEF StatusesOf, Range
  <2> QED BY <2>1, <1>1, DimensionsOfRules
<1>4. statuses # {} /\ statuses \subseteq {"pass", "fail"}
  <2>1. Place(k) = k /\ k \in 1 .. 9
    BY DEF Place
  <2> QED BY <2>1, <1>2, <1>3
<1>5. Aggregate(rs)[Dimensions[k]] =
        IF "fail" \in statuses THEN "fail" ELSE "pass"
  BY <1>4, Tables DEF Aggregate
<1> HIDE DEF rs, statuses
<1> QED BY <1>2, <1>3, <1>5 DEF rs

(* Nine rules allow a command if and only if all of them pass it, and deny *)
(* it otherwise.                                                           *)
LEMMA AllowIffAllPass ==
  ASSUME NEW st \in [1 .. 9 -> {"pass", "fail"}]
  PROVE  VerdictOf(Aggregate(ResultsOf(st))) =
           IF \A i \in 1 .. 9 : st[i] = "pass" THEN "allow" ELSE "deny"
<1> DEFINE dims == Aggregate(ResultsOf(st))
<1>1. DOMAIN dims = Range(Dimensions)
  BY DEF Aggregate
<1>2. CASE \A i \in 1 .. 9 : st[i] = "pass"
  <2>1. \A d \in Range(Dimensions) : dims[d] = "pass"
    BY <1>2, AggregateOfResults, Tables
  <2>2. Range(dims) \subseteq {"pass"}
    BY <1>1, <2>1 DEF Range
  <2>3. VerdictOf(dims) = "allow"
    BY <2>2 DEF VerdictOf
  <2> QED BY <1>2, <2>3
<1>3. CASE \E i \in 1 .. 9 : st[i] = "fail"
  <2>1. PICK i \in 1 .. 9 : st[i] = "fail"
    BY <1>3
  <2>2. dims[Dimensions[Place(i)]] = "fail"
    BY <2>1, AggregateOfResults, DimensionsOfRules
  <2>3. "fail" \in Range(dims)
    BY <1>1, <2>2, DimensionsOfRules, Tables DEF Range
  <2>4. VerdictOf(dims) = "deny"
    BY <2>3 DEF VerdictOf
  <2> QED BY <2>1, <2>4
<1>4. (\A i \in 1 .. 9 : st[i] = "pass") \/ (\E i \in 1 .. 9 : st[i] = "fail")
  OBVIOUS
<1> QED BY <1>2, <1>3, <1>4

(* What each rule of the verifier makes of a command.                      *)
LEMMA RuleByRule ==
  ASSUME NEW c
  PROVE  /\ Evaluate(Rules[1], c) = Structure(c)
         /\ Evaluate(Rules[2], c) = Schema(c)
         /\ Evaluate(Rules[3], c) = Latency(c)
         /\ Evaluate(Rules[4], c) = Cost(c)
         /\ Evaluate(Rules[5], c) = Identity(c)
         /\ Evaluate(Rules[6], c) = Integrity(c)
         /\ Evaluate(Rules[7], c) = IF Has(c, "ssrf") \/ Has(c, "hidden") THEN "fail" ELSE "pass"
         /\ Evaluate(Rules[8], c) = IF Has(c, "rce") \/ Has(c, "eval") THEN "fail" ELSE "pass"
         /\ Evaluate(Rules[9], c) = CredentialLeak(c)
<1>1. /\ Rules[1] = "structure" /\ Rules[2] = "schema" /\ Rules[3] = "latency"
      /\ Rules[4] = "cost" /\ Rules[5] = "identity" /\ Rules[6] = "integrity"
      /\ Rules[7] = "ssrf_protection" /\ Rules[8] = "rce_protection"
      /\ Rules[9] = "credential_leak"
  BY DEF Rules
<1> QED BY <1>1 DEF Evaluate

LEMMA StatusOfRule ==
  ASSUME NEW c \in Command, config \in Config, NEW i \in 1 .. 9
  PROVE  Evaluate(Rules[i], c) \in {"pass", "fail", "raise"}
BY RuleByRule DEF Structure, Schema, Latency, Cost, Identity, Integrity, CredentialLeak

(* What the rules let pass is what is acceptable, or would be without a    *)
(* cost of NaN.                                                            *)
LEMMA PassedIsAcceptable ==
  ASSUME NEW c \in Command, config \in Config, Canonical(c)
  PROVE  (\A i \in 1 .. 9 : Evaluate(Rules[i], c) = "pass") <=> Acceptable(NaNDropped(c))
<1> DEFINE n == NaNDropped(c)
<1>1. /\ n.agent_id = c.agent_id /\ n.tool = c.tool /\ n.params = c.params
      /\ n.timestamp = c.timestamp /\ n.context = c.context
      /\ n.cost = IF c.cost = "NaN" THEN "none" ELSE c.cost
  BY DEF NaNDropped, Command, CommandWith
<1>2. /\ Canonical(n) /\ (IsObject(n) <=> IsObject(c))
      /\ (Sensitive(n) <=> Sensitive(c)) /\ (Outbound(n) <=> Outbound(c))
      /\ \A f : Has(n, f) <=> Has(c, f)
  BY <1>1 DEF Canonical, IsObject, Sensitive, Outbound, Has
<1> HIDE DEF n
<1>3. Structure(c) = "pass" <=> c.agent_id # "empty" /\ c.tool # "empty" /\ IsObject(c)
  BY DEF Structure
<1>4. ASSUME IsObject(c)
      PROVE  Schema(c) = "pass" <=>
               /\ c.tool # "odd"
               /\ (config.schemas /\ c.tool \notin {"empty", "number"})
                    => ~Has(c, "missing") /\ ~Has(c, "mistyped")
  <2>1. ~Has(c, "number") /\ ~Has(c, "list")
    BY <1>4 DEF Has, IsObject, Feature
  <2> QED BY <2>1 DEF Schema
<1>5. Latency(c) = "pass" <=> c.timestamp \notin {"old", "odd"}
  BY DEF Latency
<1>6. Cost(c) = "pass" <=> (config.max_cost => n.cost \notin {"NaN", "odd", "over"})
  BY <1>1 DEF Cost, Config
<1>7. Identity(c) = "pass" <=> (config.allowed_agents => c.agent_id = "listed")
  BY DEF Identity
<1>8. Integrity(c) = "pass"
  BY DEF Integrity, Canonical
<1>9. CredentialLeak(c) = "pass" <=>
        ~(Sensitive(c) /\ (c.tool \in {"number", "odd"} \/ Outbound(c)))
  BY DEF CredentialLeak
<1>10. (\A i \in 1 .. 9 : Evaluate(Rules[i], c) = "pass") <=>
         /\ Structure(c) = "pass" /\ Schema(c) = "pass" /\ Latency(c) = "pass"
         /\ Cost(c) = "pass" /\ Identity(c) = "pass" /\ CredentialLeak(c) = "pass"
         /\ ~Has(c, "ssrf") /\ ~Has(c, "hidden") /\ ~Has(c, "rce") /\ ~Has(c, "eval")
  <2>1. ASSUME \A i \in 1 .. 9 : Evaluate(Rules[i], c) = "pass"
        PROVE  /\ Structure(c) = "pass" /\ Schema(c) = "pass" /\ Latency(c) = "pass"
               /\ Cost(c) = "pass" /\ Identity(c) = "pass" /\ CredentialLeak(c) = "pass"
               /\ ~Has(c, "ssrf") /\ ~Has(c, "hidden") /\ ~Has(c, "rce") /\ ~Has(c, "eval")
    BY <2>1, RuleByRule
  <2>2. ASSUME Structure(c) = "pass", Schema(c) = "pass", Latency(c) = "pass",
               Cost(c) = "pass", Identity(c) = "pass", CredentialLeak(c) = "pass",
               ~Has(c, "ssrf"), ~Has(c, "hidden"), ~Has(c, "rce"), ~Has(c, "eval"),
               NEW i \in 1 .. 9
        PROVE  Evaluate(Rules[i], c) = "pass"
    BY <2>2, <1>8, RuleByRule
  <2> QED BY <2>1, <2>2
<1>11. Acceptable(n) <=>
         /\ c.agent_id # "empty" /\ c.tool \notin {"empty", "odd"} /\ IsObject(c)
         /\ config.schemas /\ c.tool # "number" => ~Has(c, "missing") /\ ~Has(c, "mistyped")
         /\ c.timestamp \notin {"old", "odd"}
         /\ config.max_cost => n.cost \notin {"NaN", "odd", "over"}
         /\ config.allowed_agents => c.agent_id = "listed"
         /\ ~(Sensitive(c) /\ (c.tool \in {"number", "odd"} \/ Outbound(c)))
         /\ ~Has(c, "ssrf") /\ ~Has(c, "hidden") /\ ~Has(c, "rce") /\ ~Has(c, "eval")
  BY <1>1, <1>2 DEF Acceptable, Readable, WithinLimits, Harmless
<1> QED BY <1>3, <1>4, <1>5, <1>6, <1>7, <1>9, <1>10, <1>11 DEF n

(* An embedder's None is no result.                                        *)
LEMMA ResultsAreSomething ==
  ASSUME NEW st \in [1 .. 9 -> {"pass", "fail"}]
  PROVE  ResultsOf(st) # None
<1> DEFINE R == [name : Range(Rules), dimension : Range(Dimensions),
                 status : {"pass", "fail"}, reason : {TRUE}]
<1>1. \A i \in 1 .. 9 : Rules[i] \in Range(Rules) /\ DimensionOf[Rules[i]] \in Range(Dimensions)
  BY Tables, DimensionsOfRules
<1>2. \A i \in 1 .. 9 : ResultsOf(st)[i] \in R
  BY <1>1, Tables DEF ResultsOf
<1>3. ResultsOf(st) = [i \in 1 .. 9 |-> ResultsOf(st)[i]]
  BY Tables DEF ResultsOf
<1>4. ResultsOf(st) \in [DOMAIN Rules -> R]
  BY <1>2, <1>3, Tables
<1> QED BY <1>4, NoneAssumption

(* The default rules raise, or decide by nine statuses.                    *)
LEMMA DefaultRules ==
  ASSUME NEW c \in Command, config \in Config
  PROVE  \/ DefaultResults(c) = None
            /\ \E i \in 1 .. 9 : Evaluate(Rules[i], c) = "raise"
         \/ \E st \in [1 .. 9 -> {"pass", "fail"}] :
              /\ DefaultResults(c) = ResultsOf(st)
              /\ DefaultResults(c) # None
              /\ \A i \in 1 .. 9 : Evaluate(Rules[i], c) = st[i]
<1>1. CASE \E i \in 1 .. 9 : Evaluate(Rules[i], c) = "raise"
  BY <1>1, Tables DEF DefaultResults
<1>2. CASE \A i \in 1 .. 9 : Evaluate(Rules[i], c) # "raise"
  <2> DEFINE st == [i \in 1 .. 9 |-> Evaluate(Rules[i], c)]
  <2>1. st \in [1 .. 9 -> {"pass", "fail"}]
    BY <1>2, StatusOfRule
  <2>2. DefaultResults(c) = ResultsOf(st)
    BY <1>2, Tables DEF DefaultResults, ResultsOf
  <2> HIDE DEF st
  <2>3. \A i \in 1 .. 9 : Evaluate(Rules[i], c) = st[i]
    BY DEF st
  <2> QED BY <2>1, <2>2, <2>3, ResultsAreSomething
<1> QED BY <1>1, <1>2

(* What verify() decides of a command that can be hashed.                  *)
LEMMA DefaultVerdict ==
  ASSUME NEW c \in Command, config \in Config, Canonical(c)
  PROVE  Decision(DefaultResults(c)).verdict = "allow" <=> Acceptable(NaNDropped(c))
<1>1. CASE DefaultResults(c) = None /\ \E i \in 1 .. 9 : Evaluate(Rules[i], c) = "raise"
  BY <1>1, PassedIsAcceptable DEF Decision
<1>2. ASSUME NEW st \in [1 .. 9 -> {"pass", "fail"}],
             DefaultResults(c) = ResultsOf(st), DefaultResults(c) # None,
             \A i \in 1 .. 9 : Evaluate(Rules[i], c) = st[i]
      PROVE  Decision(DefaultResults(c)).verdict = "allow" <=> Acceptable(NaNDropped(c))
  <2>1. Decision(DefaultResults(c)).verdict = VerdictOf(Aggregate(ResultsOf(st)))
    BY <1>2 DEF Decision
  <2> QED BY <1>2, <2>1, AllowIffAllPass, PassedIsAcceptable
<1> QED BY <1>1, <1>2, DefaultRules

(* An answer is that of verify(), or that of an exception; the command     *)
(* answered is one that was sent.                                          *)
Answered ==
  reply # None =>
    /\ command \in Command
    /\ (config # None) => results = DefaultResults(command)
    /\ \/ Canonical(command) /\ reply = Decision(results)
       \/ reply = Failure

VerifierInv == config \in Config \cup {None} /\ Answered

(* The rules depend on the configuration, which does not change.           *)
LEMMA SameRules ==
  ASSUME config' = config, NEW c
  PROVE  DefaultResults(c)' = DefaultResults(c)
<1>1. /\ Schema(c)' = Schema(c) /\ Cost(c)' = Cost(c) /\ Identity(c)' = Identity(c)
  BY DEF Schema, Cost, Identity
<1>2. ASSUME NEW rule PROVE Evaluate(rule, c)' = Evaluate(rule, c)
  BY <1>1, Zenon DEF Evaluate
<1> QED BY <1>2 DEF DefaultResults

LEMMA VerifierInvariant == Spec => []VerifierInv
<1>1. Init => VerifierInv
  BY DEF Init, VerifierInv, Answered
<1>2. VerifierInv /\ [Next]_vars => VerifierInv'
  <2> SUFFICES ASSUME VerifierInv, [Next]_vars PROVE VerifierInv'
    OBVIOUS
  <2>1. CASE Serve
    <3>1. PICK x \in Cases : /\ command' = x.command /\ results' = x.results
                             /\ \/ Canonical(x.command) /\ reply' = Decision(x.results)
                                \/ reply' = Failure
      BY <2>1 DEF Serve
    <3>2. x.command \in Command /\ (config # None => x.results = DefaultResults(x.command))
      BY CommandAssumption, CasesAssumption DEF Cases
    <3>3. config' = config
      BY <2>1 DEF Serve
    <3>4. (config # None => results' = DefaultResults(command)')
      BY <3>1, <3>2, <3>3, SameRules
    <3>5. Canonical(command)' = Canonical(x.command)
      BY <3>1 DEF Canonical, Has
    <3>6. Decision(results)' = Decision(x.results)
      BY <3>1
    <3> QED BY <3>1, <3>2, <3>3, <3>4, <3>5, <3>6 DEF VerifierInv, Answered
  <2>2. CASE NextLine
    BY <2>2 DEF NextLine, VerifierInv, Answered
  <2>3. CASE UNCHANGED vars
    BY <2>3, SameRules DEF vars, VerifierInv, Answered, Canonical, Has
  <2> QED BY <2>1, <2>2, <2>3 DEF Next
<1> QED BY <1>1, <1>2, PTL DEF Spec

(* The default rules allow an acceptable command and nothing else, but for *)
(* a cost of NaN, for any set of commands.                                 *)
THEOREM AllowsTheAcceptable == Spec => []AllowedIffAcceptableUnlessNaN
<1>1. VerifierInv => AllowedIffAcceptableUnlessNaN
  <2> SUFFICES ASSUME VerifierInv, reply # None, config # None
               PROVE  /\ reply.verdict = "allow" => Acceptable(NaNDropped(command))
                      /\ (Acceptable(NaNDropped(command)) /\ reply.ok)
                           => reply.verdict = "allow"
    BY DEF AllowedIffAcceptableUnlessNaN
  <2>1. command \in Command /\ config \in Config
    BY DEF VerifierInv, Answered
  <2>2. CASE Canonical(command) /\ reply = Decision(DefaultResults(command))
    BY <2>1, <2>2, DefaultVerdict
  <2>3. CASE reply = Failure
    BY <2>3 DEF Failure
  <2> QED BY <2>2, <2>3 DEF VerifierInv, Answered
<1> QED BY <1>1, VerifierInvariant, PTL

(* Without a receipt nobody is let through or told to ask again, whatever  *)
(* the rules of an embedder return.                                        *)
THEOREM NoEntryWithoutReceipt == Spec => []NoReceiptNoEntry
<1>1. Decision(results).receipt # None
  BY NoneAssumption DEF Decision
<1>2. Failure.verdict = "deny" /\ ~Failure.retryable
  BY DEF Failure
<1>3. VerifierInv => NoReceiptNoEntry
  BY <1>1, <1>2 DEF VerifierInv, Answered, NoReceiptNoEntry
<1> QED BY <1>3, VerifierInvariant, PTL
-----------------------------------------------------------------------------
(* The least of a set of places.                                           *)
LEMMA Least ==
  ASSUME NEW I \in SUBSET (1 .. 9), I # {}
  PROVE  Min(I) \in I /\ \A j \in I : Min(I) <= j
<1>1. \E i \in I : \A j \in I : i <= j
  <2>1. PICK a \in I : TRUE
    OBVIOUS
  <2>2. CASE 1 \in I
    BY <2>2
  <2>3. CASE 1 \notin I /\ 2 \in I
    BY <2>3
  <2>4. CASE 1 \notin I /\ 2 \notin I /\ 3 \in I
    BY <2>4
  <2>5. CASE I \subseteq 4 .. 9
    <3>1. CASE 4 \in I
      BY <3>1, <2>5
    <3>2. CASE 4 \notin I /\ 5 \in I
      BY <3>2, <2>5
    <3>3. CASE 4 \notin I /\ 5 \notin I /\ 6 \in I
      BY <3>3, <2>5
    <3>4. CASE I \subseteq 7 .. 9
      <4>1. CASE 7 \in I
        BY <4>1, <3>4
      <4>2. CASE 7 \notin I /\ 8 \in I
        BY <4>2, <3>4
      <4>3. CASE 7 \notin I /\ 8 \notin I
        BY <4>3, <3>4
      <4> QED BY <4>1, <4>2, <4>3
    <3> QED BY <3>1, <3>2, <3>3, <3>4, <2>5
  <2> QED BY <2>2, <2>3, <2>4, <2>5
<1> QED BY <1>1 DEF Min

(* The reason is that of the first rule that fails.                        *)
LEMMA ReasonIsFirst ==
  ASSUME NEW st \in [1 .. 9 -> {"pass", "fail"}],
         NEW F, F = {i \in 1 .. 9 : st[i] = "fail"}, F # {}
  PROVE  Reason(ResultsOf(st), "deny") = Rules[Min(F)]
<1> DEFINE rs == ResultsOf(st)
<1>1. /\ rs = [i \in 1 .. 9 |-> rs[i]]
      /\ \A i \in 1 .. 9 : rs[i].status = st[i] /\ rs[i].reason = TRUE /\ rs[i].name = Rules[i]
  BY Tables DEF ResultsOf
<1> HIDE DEF rs
<1>2. Len(rs) = 9
  BY <1>1
<1>3. {i \in 1 .. Len(rs) : rs[i].status = "fail" /\ rs[i].reason} = F
  BY <1>1, <1>2
<1>4. FirstFailed(rs) = Min(F)
  BY <1>3 DEF FirstFailed, SelectInSeq
<1>5. Min(F) \in 1 .. 9
  BY Least
<1> QED BY <1>1, <1>4, <1>5 DEF Reason, rs

(* The code is that of the first dimension that fails.                     *)
LEMMA CodeIsFirst ==
  ASSUME NEW dims, NEW G, G = {k \in 1 .. 7 : dims[Dimensions[k]] = "fail"}, G # {}
  PROVE  ErrorCode("deny", dims) = Dimensions[Min(G)]
<1>1. Len(Dimensions) = 7
  BY DEF Dimensions
<1>2. SelectInSeq(Dimensions, LAMBDA d : dims[d] = "fail") = Min(G)
  BY <1>1 DEF SelectInSeq
<1>3. Min(G) \in 1 .. 7
  BY Least
<1> QED BY <1>2, <1>3 DEF ErrorCode

(* The order of the rules and the order of the dimensions agree.           *)
LEMMA SameDimension ==
  ASSUME NEW st \in [1 .. 9 -> {"pass", "fail"}],
         VerdictOf(Aggregate(ResultsOf(st))) = "deny"
  PROVE  ErrorCode("deny", Aggregate(ResultsOf(st))) =
           DimensionOf[Reason(ResultsOf(st), "deny")]
<1> DEFINE dims == Aggregate(ResultsOf(st))
           F == {i \in 1 .. 9 : st[i] = "fail"}
           G == {k \in 1 .. 7 : dims[Dimensions[k]] = "fail"}
<1>1. F # {}
  BY AllowIffAllPass
<1>2. \A k \in 1 .. 7 : k \in G <=> \E i \in F : Place(i) = k
  BY AggregateOfResults
<1>3. Min(F) \in F /\ \A i \in F : Min(F) <= i
  BY <1>1, Least
<1>4. Place(Min(F)) \in G
  BY <1>2, <1>3, DimensionsOfRules
<1>5. Min(G) \in G /\ \A k \in G : Min(G) <= k
  BY <1>4, Least
<1>6. PICK i \in F : Place(i) = Min(G)
  BY <1>2, <1>5
<1>7. Min(G) = Place(Min(F))
  BY <1>3, <1>4, <1>5, <1>6 DEF Place
<1>8. Reason(ResultsOf(st), "deny") = Rules[Min(F)]
  BY <1>1, ReasonIsFirst
<1>9. ErrorCode("deny", dims) = Dimensions[Min(G)]
  BY <1>4, CodeIsFirst
<1> QED BY <1>3, <1>7, <1>8, <1>9, DimensionsOfRules

(* The failed results that count: those of one of the seven dimensions.    *)
Counting(rs) ==
  {r \in Range(rs) : r.status = "fail" /\ r.dimension \in Range(Dimensions)}

(* A dimension fails if and only if a result of it does.                   *)
LEMMA FailedDimension ==
  ASSUME NEW rs, NEW d \in Range(Dimensions)
  PROVE  Aggregate(rs)[d] = "fail" <=> \E r \in Counting(rs) : r.dimension = d
<1>1. Aggregate(rs)[d] = "fail" <=> "fail" \in StatusesOf(rs, d)
  BY DEF Aggregate
<1>2. "fail" \in StatusesOf(rs, d) <=>
        \E r \in Range(rs) : r.dimension = d /\ r.status = "fail"
  BY DEF StatusesOf
<1> QED BY <1>1, <1>2 DEF Counting

(* Any results: they deny if and only if one of them counts, and the code  *)
(* is that of one that does.                                               *)
LEMMA AnyRules ==
  ASSUME NEW rs, NEW dims, dims = Aggregate(rs)
  PROVE  /\ VerdictOf(dims) = "deny" <=> Counting(rs) # {}
         /\ VerdictOf(dims) = "deny" =>
              \E r \in Counting(rs) : r.dimension = ErrorCode("deny", dims)
<1>1. VerdictOf(dims) = "deny" <=> "fail" \in Range(dims)
  BY DEF VerdictOf
<1>2. "fail" \in Range(dims) <=> \E d \in Range(Dimensions) : dims[d] = "fail"
  <2>1. DOMAIN dims = Range(Dimensions)
    BY DEF Aggregate
  <2> QED BY <2>1 DEF Range
<1>3. (\E d \in Range(Dimensions) : dims[d] = "fail") <=> Counting(rs) # {}
  <2>1. \A r \in Counting(rs) : r.dimension \in Range(Dimensions)
    BY DEF Counting
  <2> QED BY <2>1, FailedDimension
<1>4. ASSUME NEW d \in Range(Dimensions), dims[d] = "fail"
      PROVE  \E r \in Counting(rs) : r.dimension = ErrorCode("deny", dims)
  <2> DEFINE G == {k \in 1 .. 7 : dims[Dimensions[k]] = "fail"}
  <2>1. PICK k \in 1 .. 7 : d = Dimensions[k]
    BY Tables
  <2>2. k \in G
    BY <1>4, <2>1
  <2>3. Min(G) \in G
    BY <2>2, Least
  <2>4. ErrorCode("deny", dims) = Dimensions[Min(G)]
    BY <2>2, CodeIsFirst
  <2>5. /\ ErrorCode("deny", dims) \in Range(Dimensions)
        /\ dims[ErrorCode("deny", dims)] = "fail"
    BY <2>3, <2>4, Tables
  <2> QED BY <2>5, FailedDimension
<1> QED BY <1>1, <1>2, <1>3, <1>4

(* Every failure of a known dimension denies, with the code of such a      *)
(* failure, whatever the rules are; and the reason and the code that the   *)
(* default rules give speak of one dimension.                              *)
THEOREM CodeFitsReason == Spec => []CodeMatchesReason
<1>1. VerifierInv => CodeMatchesReason
  <2> SUFFICES ASSUME VerifierInv, reply # None, results # None, reply.ok
               PROVE  /\ reply.verdict = "deny" <=> Counting(results) # {}
                      /\ reply.verdict = "deny" =>
                           /\ \E r \in Counting(results) : r.dimension = reply.error_code
                           /\ (config # None)
                                => reply.error_code = DimensionOf[reply.block_reason]
    BY DEF CodeMatchesReason, Counting
  <2>1. reply = Decision(results)
    BY DEF VerifierInv, Answered, Failure
  <2>2. /\ reply.verdict = VerdictOf(Aggregate(results))
        /\ reply.block_reason = Reason(results, VerdictOf(Aggregate(results)))
        /\ reply.error_code = ErrorCode(VerdictOf(Aggregate(results)), Aggregate(results))
    BY <2>1 DEF Decision
  <2>3. ASSUME reply.verdict = "deny", config # None
        PROVE  reply.error_code = DimensionOf[reply.block_reason]
    <3>1. command \in Command /\ config \in Config /\ results = DefaultResults(command)
      BY <2>3 DEF VerifierInv, Answered
    <3>2. PICK st \in [1 .. 9 -> {"pass", "fail"}] : results = ResultsOf(st)
      BY <3>1, DefaultRules
    <3> QED BY <2>2, <2>3, <3>2, SameDimension
  <2> QED BY <2>2, <2>3, AnyRules
<1> QED BY <1>1, VerifierInvariant, PTL
-----------------------------------------------------------------------------
(* THE GUARDRAIL                                                           *)

(* From the same results both come to the same dimensions.                 *)
LEMMA SameAggregation ==
  ASSUME NEW rs
  PROVE  /\ GuardDimensions(rs) = Decision(rs).dimensions
         /\ VerdictOf(GuardDimensions(rs)) = Decision(rs).verdict
<1>1. CASE rs # None
  <2>1. Caught(rs) = rs
    BY <1>1 DEF Caught
  <2>2. GuardDimensions(rs) = Aggregate(rs)
    BY <2>1 DEF GuardDimensions, Aggregate
  <2> QED BY <1>1, <2>2 DEF Decision
<1>2. CASE rs = None
  <2> DEFINE r == [name |-> "guardrail_exception", dimension |-> "security",
                   status |-> "fail", reason |-> TRUE]
  <2>1. Caught(rs) = <<r>>
    BY <1>2 DEF Caught
  <2>2. Range(<<r>>) = {r}
    <3> HIDE DEF r
    <3>1. DOMAIN <<r>> = {1} /\ <<r>>[1] = r
      OBVIOUS
    <3> QED BY <3>1 DEF Range
  <2>3. \A d : StatusesOf(Caught(rs), d) = IF d = "security" THEN {"fail"} ELSE {}
    BY <2>1, <2>2 DEF StatusesOf
  <2>4. GuardDimensions(rs) = Raised
    BY <2>3 DEF GuardDimensions, Raised
  <2>5. Dimensions[7] = "security" /\ Dimensions[7] \in Range(Dimensions)
    BY Tables DEF Dimensions
  <2>6. "fail" \in Range(Raised)
    BY <2>5 DEF Raised, Range
  <2>7. VerdictOf(Raised) = "deny"
    BY <2>6 DEF VerdictOf
  <2> QED BY <1>2, <2>4, <2>7 DEF Decision
<1> QED BY <1>1, <1>2

(* What each rule of the guardrail makes of a command.                     *)
LEMMA GuardRuleByRule ==
  ASSUME NEW c
  PROVE  /\ GuardEvaluate(Rules[1], c) = GuardStructure(c)
         /\ GuardEvaluate(Rules[2], c) = GuardSchema(c)
         /\ GuardEvaluate(Rules[3], c) = GuardLatency(c)
         /\ GuardEvaluate(Rules[4], c) = GuardCost(c)
         /\ GuardEvaluate(Rules[5], c) = GuardIdentity(c)
         /\ GuardEvaluate(Rules[6], c) = "pass"
         /\ GuardEvaluate(Rules[7], c) =
              IF Has(c, "ssrf") \/ Has(c, "lookalike") THEN "fail" ELSE "pass"
         /\ GuardEvaluate(Rules[8], c) =
              IF Has(c, "rce") \/ Has(c, "shell") THEN "fail" ELSE "pass"
         /\ GuardEvaluate(Rules[9], c) = GuardCredentialLeak(c)
<1>1. /\ Rules[1] = "structure" /\ Rules[2] = "schema" /\ Rules[3] = "latency"
      /\ Rules[4] = "cost" /\ Rules[5] = "identity" /\ Rules[6] = "integrity"
      /\ Rules[7] = "ssrf_protection" /\ Rules[8] = "rce_protection"
      /\ Rules[9] = "credential_leak"
  BY DEF Rules
<1> QED BY <1>1 DEF GuardEvaluate

(* The guardrail allows what all of its rules pass and it can hash.        *)
LEMMA GuardAllowsPassed ==
  ASSUME NEW c \in Command, config \in Config
  PROVE  GuardAllows(c) <=>
           GuardCanonical(c) /\ \A i \in 1 .. 9 : GuardEvaluate(Rules[i], c) = "pass"
<1>1. CASE \E i \in 1 .. 9 : GuardEvaluate(Rules[i], c) = "raise"
  <2>1. GuardResults(c) = None
    BY <1>1, Tables DEF GuardResults
  <2>2. VerdictOf(GuardDimensions(GuardResults(c))) = "deny"
    BY <2>1, SameAggregation DEF Decision
  <2> QED BY <1>1, <2>2 DEF GuardAllows
<1>2. CASE \A i \in 1 .. 9 : GuardEvaluate(Rules[i], c) # "raise"
  <2> DEFINE st == [i \in 1 .. 9 |-> GuardEvaluate(Rules[i], c)]
  <2>1. st \in [1 .. 9 -> {"pass", "fail"}]
    BY <1>2, GuardRuleByRule DEF GuardStructure, GuardSchema, GuardLatency, GuardCost,
                                 GuardIdentity, GuardCredentialLeak
  <2>2. GuardResults(c) = ResultsOf(st)
    BY <1>2, Tables DEF GuardResults, ResultsOf
  <2>3. \A i \in 1 .. 9 : GuardEvaluate(Rules[i], c) = st[i]
    OBVIOUS
  <2> HIDE DEF st
  <2>4. VerdictOf(GuardDimensions(GuardResults(c))) = VerdictOf(Aggregate(ResultsOf(st)))
    BY <2>1, <2>2, ResultsAreSomething, SameAggregation DEF Decision
  <2> QED BY <2>1, <2>3, <2>4, AllowIffAllPass DEF GuardAllows
<1> QED BY <1>1, <1>2

(* An acceptable command passes the guardrail, unless a pattern that the   *)
(* verifier does not have finds something.                                 *)
LEMMA AcceptableAtGuard ==
  ASSUME NEW c \in Command, config \in Config, Acceptable(NaNDropped(c))
  PROVE  GuardAllows(c) <=> ~OnlyGuardFinds(c)
<1> DEFINE n == NaNDropped(c)
<1>1. /\ n.agent_id = c.agent_id /\ n.tool = c.tool /\ n.params = c.params
      /\ n.timestamp = c.timestamp /\ n.context = c.context
      /\ n.cost = IF c.cost = "NaN" THEN "none" ELSE c.cost
  BY DEF NaNDropped, Command, CommandWith
<1>2. Canonical(n) /\ Readable(n) /\ WithinLimits(n) /\ Harmless(n)
  BY DEF Acceptable
<1> HIDE DEF n
<1>3. GuardCanonical(c)
  BY <1>1, <1>2 DEF GuardCanonical, Canonical, Has
<1>4. GuardStructure(c) = "pass" /\ GuardSchema(c) = "pass"
  BY <1>1, <1>2 DEF WithinLimits, GuardStructure, GuardSchema, Has, IsObject, Feature
<1>5. GuardLatency(c) = "pass" /\ GuardCost(c) = "pass" /\ GuardIdentity(c) = "pass"
  BY <1>1, <1>2 DEF WithinLimits, GuardLatency, GuardCost, GuardIdentity
<1>6. /\ ~Has(c, "ssrf") /\ ~Has(c, "rce")
      /\ ~(Has(c, "secret") /\ Outbound(c))
  BY <1>1, <1>2 DEF Harmless, Sensitive, Outbound, Has
<1>7. GuardCredentialLeak(c) = "pass" <=>
        ~(c.tool \in {"secret", "fetch_secret"} /\ Outbound(c))
  BY <1>6 DEF GuardCredentialLeak
<1>8. (\A i \in 1 .. 9 : GuardEvaluate(Rules[i], c) = "pass") <=> ~OnlyGuardFinds(c)
  <2>1. ASSUME \A i \in 1 .. 9 : GuardEvaluate(Rules[i], c) = "pass"
        PROVE  ~OnlyGuardFinds(c)
    BY <2>1, <1>7, GuardRuleByRule DEF OnlyGuardFinds
  <2>2. ASSUME ~OnlyGuardFinds(c), NEW i \in 1 .. 9
        PROVE  GuardEvaluate(Rules[i], c) = "pass"
    BY <2>2, <1>4, <1>5, <1>6, <1>7, GuardRuleByRule DEF OnlyGuardFinds
  <2> QED BY <2>1, <2>2
<1> QED BY <1>3, <1>8, GuardAllowsPassed

(* A typed command that passes the guardrail, and that the verifier can    *)
(* hash, is acceptable, unless a pattern that the guardrail does not have  *)
(* finds something.                                                        *)
LEMMA GuardedAtVerifier ==
  ASSUME NEW c \in Command, config \in Config, Canonical(c), GuardAllows(c), Typed(c)
  PROVE  Acceptable(NaNDropped(c)) <=> ~OnlyVerifierFinds(c)
<1>1. \A i \in 1 .. 9 : GuardEvaluate(Rules[i], c) = "pass"
  BY GuardAllowsPassed
<1>2. c.tool \notin {"empty", "odd", "number"} /\ c.agent_id \notin {"empty", "odd"} /\ IsObject(c)
  BY <1>1, GuardRuleByRule DEF GuardStructure, Typed
<1>3. config.schemas => ~Has(c, "missing") /\ ~Has(c, "mistyped")
  BY <1>1, <1>2, GuardRuleByRule DEF GuardSchema, Typed
<1>4. c.timestamp \notin {"old", "odd"}
  BY <1>1, GuardRuleByRule DEF GuardLatency, Typed
<1>5. c.cost # "odd" /\ (config.max_cost => c.cost # "over")
  BY <1>1, GuardRuleByRule DEF GuardCost, Typed
<1>6. config.allowed_agents => c.agent_id = "listed"
  BY <1>1, GuardRuleByRule DEF GuardIdentity
<1>7. ~Has(c, "ssrf") /\ ~Has(c, "rce")
  BY <1>1, GuardRuleByRule
<1>8. ~(Has(c, "secret") /\ Outbound(c))
  BY <1>1, GuardRuleByRule DEF GuardCredentialLeak
<1> DEFINE n == NaNDropped(c)
<1>9. /\ n.agent_id = c.agent_id /\ n.tool = c.tool /\ n.params = c.params
      /\ n.timestamp = c.timestamp /\ n.context = c.context
      /\ n.cost = IF c.cost = "NaN" THEN "none" ELSE c.cost
  BY DEF NaNDropped, Command, CommandWith
<1> HIDE DEF n
<1>10. Canonical(n)
  BY <1>9 DEF Canonical, Has
<1>11. Readable(n) /\ WithinLimits(n)
  BY <1>2, <1>3, <1>4, <1>5, <1>6, <1>9 DEF Readable, WithinLimits, IsObject, Has
<1>12. Harmless(n) <=> ~OnlyVerifierFinds(c)
  BY <1>7, <1>8, <1>9 DEF Harmless, OnlyVerifierFinds, Sensitive, Outbound, Has
<1> QED BY <1>10, <1>11, <1>12 DEF Acceptable, n

(* The guardrail and the verifier agree, for any rules of an embedder and  *)
(* for every command, except where their patterns differ.                  *)
THEOREM GuardrailFollowsVerifier == Spec => []GuardrailAgrees
<1>1. VerifierInv => GuardrailAgrees
  <2> SUFFICES ASSUME VerifierInv, reply # None, reply.ok
               PROVE  /\ GuardDimensions(results) = reply.dimensions
                      /\ VerdictOf(GuardDimensions(results)) = reply.verdict
                      /\ (config # None) =>
                           /\ reply.verdict = "allow"
                                => (GuardAllows(command) <=> ~OnlyGuardFinds(command))
                           /\ (GuardAllows(command) /\ Typed(command))
                                => (reply.verdict = "allow" <=> ~OnlyVerifierFinds(command))
    BY DEF GuardrailAgrees
  <2>1. Canonical(command) /\ reply = Decision(results) /\ command \in Command
    BY DEF VerifierInv, Answered, Failure
  <2>2. (config # None) => /\ config \in Config
                           /\ reply.verdict = "allow" <=> Acceptable(NaNDropped(command))
    BY <2>1, DefaultVerdict DEF VerifierInv, Answered
  <2> QED BY <2>1, <2>2, SameAggregation, AcceptableAtGuard, GuardedAtVerifier
<1> QED BY <1>1, VerifierInvariant, PTL
=============================================================================
