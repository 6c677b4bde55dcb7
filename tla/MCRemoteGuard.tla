----------------------------- MODULE MCRemoteGuard -----------------------------
EXTENDS RemoteGuard

(* What JSON.stringify() does to a value it carries over, to one it does   *)
(* not (NaN becomes null), and to an object that contains itself.          *)
MCValue == {"x", "NaN", "null", "cycle"}

MCStringify == [v \in MCValue |-> CASE v = "NaN"   -> "null"
                                    [] v = "cycle" -> Throws
                                    [] OTHER       -> v]

MCVerdict == {"allow", "deny", "escalate"}
=============================================================================
