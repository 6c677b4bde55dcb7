------------------------------- MODULE MCVerifier -------------------------------
EXTENDS Guardrail

(* Commands whose parameters have at most two of the features.             *)
MCCommand ==
  CommandWith({{"list"}, {"number"}, {}} \cup {{f, g} : f, g \in Feature})

(* Results of two dimensions that the verifier knows and of one that it    *)
(* does not.                                                               *)
MCResult == [name : {"custom"}, dimension : {"structure", "security", "other"},
             status : {"pass", "fail", "unknown"}, reason : BOOLEAN]

(* A rule for every dimension, all of which pass.                          *)
Covering == [i \in DOMAIN Dimensions |->
               [name |-> "custom", dimension |-> Dimensions[i], status |-> "pass",
                reason |-> FALSE]]

(* At most two results, alone and after those that cover the dimensions.   *)
MCCustomResults ==
  LET extra == {<<>>} \cup {<<r>> : r \in MCResult} \cup {<<r, s>> : r, s \in MCResult}
  IN  extra \cup {Covering \o e : e \in extra}

MCCustomCases ==
  [command : {[agent_id |-> "other", tool |-> "plain", params |-> p,
               timestamp |-> "recent", cost |-> "none", context |-> "plain"]
              : p \in {{}, {"NaN"}}},
   results : MCCustomResults \cup {None}]
=============================================================================
