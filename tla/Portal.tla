-------------------------------- MODULE Portal --------------------------------
(***************************************************************************)
(* A request of the public demonstration on its way through four services: *)
(* the portal, which limits and forwards it (proxy), the agent demo        *)
(* (scenario), the CCS verifier it asks, and the public verifier that      *)
(* looks at the receipt.  Each service has a thread per request, a timeout *)
(* of its own for the next one, and stops and starts on its own.           *)
(*                                                                         *)
(* Requests to verify a receipt are forwarded to the public verifier.  The *)
(* decision of the rate limiter is arbitrary here: see                     *)
(* SlidingWindowLimiter.tla.                                               *)
(***************************************************************************)
EXTENDS Naturals

CONSTANTS
  Request,
  Verdict,   \* "allow", "deny" and any others
  MaxStops   \* bound on the number of times a service stops

ASSUME VerdictAssumption == /\ {"allow", "deny"} \subseteq Verdict
                            /\ Verdict \cap {"none", "asked", "lost", "error"} = {}
ASSUME StopsAssumption   == MaxStops \in Nat

VARIABLES
  kind,      \* kind[r]: what r asks for
  status,    \* status[r]: what the portal has answered
  demo,      \* demo[r]: where the demo's thread for r is
  answer,    \* answer[r]: the line of the CCS verifier
  evidence,  \* its admission rows
  ran,       \* requests whose simulated tool has run
  reports,   \* what the demo has answered
  up,        \* services that are running
  stops

demoVars == <<demo, answer, evidence, ran, reports>>
vars == <<kind, status, demoVars, up, stops>>

Kinds    == {"safe", "attack", "verify"}
Services == {"demo", "ccs", "public"}
Statuses == {"new", "limited", "refused", "unavailable", "proxying", "cut", "relayed"}
Stages   == {"none", "started", "asking", "checking", "answered", "dead"}
Active   == {"started", "asking", "checking"}
Answers  == Verdict \cup {"none", "asked", "lost", "error"}

(* The JSON of the demo: "ok" with status 200, or not with status 503.     *)
Report == [request : Request, ok : BOOLEAN, tool_executed : BOOLEAN,
           ccs_verdict : Verdict \cup {"none"},
           evidence_verification : {"none", "authentic", "unavailable"}]

Init ==
  /\ kind \in [Request -> Kinds]
  /\ status = [r \in Request |-> "new"]
  /\ demo = [r \in Request |-> "none"]
  /\ answer = [r \in Request |-> "none"]
  /\ evidence = {}
  /\ ran = {}
  /\ reports = {}
  /\ up = Services
  /\ stops = 0
-----------------------------------------------------------------------------
(* THE PORTAL                                                              *)

Reply(r, s) == status' = [status EXCEPT ![r] = s]

(* do_POST() up to the answer it has to wait for: 429; 400 or 413 for a    *)
(* body; an exception of int(), for a Content-Length that is no number,    *)
(* which cuts the connection; the 503 that proxy() makes when it cannot    *)
(* connect; or the request is sent, and the demo has a thread for it.  A   *)
(* client that never sends its body stays "new": its socket has no         *)
(* timeout.                                                                *)
Post(r) ==
  /\ status[r] = "new"
  /\ \/ Reply(r, "limited") /\ UNCHANGED demo
     \/ kind[r] = "verify" /\ Reply(r, "refused") /\ UNCHANGED demo
     \/ kind[r] = "verify" /\ Reply(r, "cut") /\ UNCHANGED demo
     \/ Reply(r, "unavailable") /\ UNCHANGED demo
     \/ kind[r] = "verify" /\ "public" \in up /\ Reply(r, "proxying") /\ UNCHANGED demo
     \/ /\ kind[r] # "verify" /\ "demo" \in up
        /\ Reply(r, "proxying")
        /\ demo' = [demo EXCEPT ![r] = "started"]
  /\ UNCHANGED <<kind, answer, evidence, ran, reports, up, stops>>

(* The answer comes in time; proxy() passes on an error status as it is.   *)
Relay(r) ==
  /\ status[r] = "proxying"
  /\ IF kind[r] = "verify" THEN "public" \in up ELSE \E x \in reports : x.request = r
  /\ Reply(r, "relayed")
  /\ UNCHANGED <<kind, demoVars, up, stops>>

(* Mutant of GiveUp: every failure is answered as "upstream unavailable".  *)
GiveUp_Unavailable(r) ==
  /\ status[r] = "proxying"
  /\ Reply(r, "unavailable")
  /\ UNCHANGED <<kind, demoVars, up, stops>>

(* Nothing within TIMEOUT, or the connection breaks: getresponse() raises  *)
(* what proxy() does not catch, and the client's connection is cut.        *)
GiveUp(r) ==
  /\ status[r] = "proxying"
  /\ Reply(r, "cut")
  /\ UNCHANGED <<kind, demoVars, up, stops>>
-----------------------------------------------------------------------------
(* THE DEMO                                                                *)

Goto(r, s) == demo' = [demo EXCEPT ![r] = s]

(* The answer is composed and written.  If the write of a 200 fails, the   *)
(* except of do_POST() composes a 503 and writes it to the same broken     *)
(* connection: nobody is there to read it, and it is no report.            *)
Answer(x) == Goto(x.request, "answered") /\ reports' = reports \cup {x}

(* do_POST() catches an exception of scenario().                           *)
Fail(r) == Answer([request |-> r, ok |-> FALSE, tool_executed |-> FALSE,
                   ccs_verdict |-> "none", evidence_verification |-> "none"])

(* ccs_verify() connects, or cannot.                                       *)
Ask(r) ==
  /\ demo[r] = "started"
  /\ \/ "ccs" \in up /\ Goto(r, "asking") /\ answer' = [answer EXCEPT ![r] = "asked"]
                     /\ UNCHANGED reports
     \/ Fail(r) /\ UNCHANGED answer
  /\ UNCHANGED <<kind, status, evidence, ran, up, stops>>

(* Mutant of CCSFails: the socket has no timeout.                          *)
CCSFails_NoTimeout(r) ==
  /\ demo[r] = "asking"
  /\ answer[r] = "lost"
  /\ Fail(r)
  /\ UNCHANGED <<kind, status, answer, evidence, ran, up, stops>>

(* No line within TIMEOUT, or the connection closes without a whole one.   *)
CCSFails(r) ==
  /\ demo[r] = "asking"
  /\ Fail(r)
  /\ UNCHANGED <<kind, status, answer, evidence, ran, up, stops>>

VerdictIn(a) == IF a = "error" THEN "deny" ELSE a

(* Mutant of Executes: the tool runs when the verdict is the expected one. *)
Executes_Expected(r) == VerdictIn(answer[r]) = IF kind[r] = "safe" THEN "allow" ELSE "deny"

Executes(r) == kind[r] = "safe" /\ VerdictIn(answer[r]) = "allow"

Result(r, e) == [request |-> r, ok |-> TRUE, tool_executed |-> Executes(r),
                 ccs_verdict |-> VerdictIn(answer[r]), evidence_verification |-> e]

(* The line is there: the tool runs or does not, and a receipt goes to the *)
(* public verifier.                                                        *)
Answered(r) ==
  /\ demo[r] = "asking"
  /\ answer[r] \in Verdict \cup {"error"}
  /\ ran' = IF Executes(r) THEN ran \cup {r} ELSE ran
  /\ IF answer[r] = "error"
       THEN Answer(Result(r, "none"))
       ELSE Goto(r, "checking") /\ UNCHANGED reports
  /\ UNCHANGED <<kind, status, answer, evidence, up, stops>>

(* Mutant of Check: an exception of verify_receipt() is not caught there.  *)
Check_Uncaught(r) ==
  /\ demo[r] = "checking"
  /\ \/ "public" \in up /\ Answer(Result(r, "authentic"))
     \/ Fail(r)
  /\ UNCHANGED <<kind, status, answer, evidence, ran, up, stops>>

(* verify_receipt(): what the public verifier says of a receipt that the   *)
(* CCS verifier issued, or that it could not be asked.                     *)
Check(r) ==
  /\ demo[r] = "checking"
  /\ \/ "public" \in up /\ Answer(Result(r, "authentic"))
     \/ Answer(Result(r, "unavailable"))
  /\ UNCHANGED <<kind, status, answer, evidence, ran, up, stops>>
-----------------------------------------------------------------------------
(* THE CCS VERIFIER AND THE SERVICES                                       *)

(* One line is served, for a demo that may have given up: an admission, or *)
(* an exception answered with a deny that has no receipt.                  *)
Verify(r) ==
  /\ answer[r] = "asked" /\ "ccs" \in up
  /\ \/ \E v \in Verdict :
          /\ answer' = [answer EXCEPT ![r] = v]
          /\ evidence' = evidence \cup {[request |-> r, verdict |-> v]}
     \/ answer' = [answer EXCEPT ![r] = "error"] /\ UNCHANGED evidence
  /\ UNCHANGED <<kind, status, demo, ran, reports, up, stops>>

(* A service stops, and its threads with it.                               *)
Stop(s) ==
  /\ s \in up
  /\ stops < MaxStops
  /\ stops' = stops + 1
  /\ up' = up \ {s}
  /\ demo' = [r \in Request |-> IF s = "demo" /\ demo[r] \in Active THEN "dead" ELSE demo[r]]
  /\ answer' = [r \in Request |-> IF s = "ccs" /\ answer[r] = "asked" THEN "lost" ELSE answer[r]]
  /\ UNCHANGED <<kind, status, evidence, ran, reports>>

(* Restart=always, restart: unless-stopped.                                *)
Start(s) ==
  /\ s \notin up
  /\ up' = up \cup {s}
  /\ UNCHANGED <<kind, status, demoVars, stops>>
-----------------------------------------------------------------------------
Next ==
  \/ \E r \in Request :
       \/ Post(r) \/ Relay(r) \/ GiveUp(r)
       \/ Ask(r) \/ CCSFails(r) \/ Answered(r) \/ Check(r) \/ Verify(r)
  \/ \E s \in Services : Stop(s) \/ Start(s)

Spec == Init /\ [][Next]_vars

(* The timeouts of the sockets, and threads that are scheduled.  The       *)
(* timeouts are of inactivity: a service may be silent or down for ever,   *)
(* or answer at any time, but it does not send its answer byte by byte,    *)
(* each in time, without ever completing it.                               *)
FairSpec ==
  Spec /\ \A r \in Request : WF_vars(GiveUp(r)) /\ WF_vars(Ask(r))
                             /\ WF_vars(CCSFails(r)) /\ WF_vars(Check(r))
-----------------------------------------------------------------------------
(* PROPERTIES                                                              *)

(* The values of the variables.                                            *)
TypeOK ==
  /\ kind \in [Request -> Kinds]
  /\ status \in [Request -> Statuses]
  /\ demo \in [Request -> Stages]
  /\ answer \in [Request -> Answers]
  /\ evidence \subseteq [request : Request, verdict : Verdict]
  /\ ran \subseteq Request
  /\ reports \subseteq Report
  /\ up \subseteq Services
  /\ stops \in 0 .. MaxStops

(* What the demo reports is what happened, whichever service failed when:  *)
(* tool_executed says whether the tool ran, also in an error; it ran only  *)
(* for the safe action and on a persisted "allow"; the verdict of a        *)
(* receipt that was found authentic is in the database.                    *)
ReportIsTrue ==
  /\ \A x \in reports :
       /\ x.tool_executed <=> x.request \in ran
       /\ x.evidence_verification # "none" =>
            [request |-> x.request, verdict |-> x.ccs_verdict] \in evidence
  /\ \A r \in ran : kind[r] = "safe" /\ [request |-> r, verdict |-> "allow"] \in evidence

(* A client that gets an answer the portal made up itself (429, 400, 413,  *)
(* 503) may send the request again: nothing of it happened, and nothing    *)
(* will.  A connection that was cut says nothing of the kind.              *)
RefusalMeansNothing ==
  \A r \in Request :
    status[r] \in {"limited", "refused", "unavailable"} =>
      /\ demo[r] = "none" /\ answer[r] = "none"
      /\ r \notin ran
      /\ \A e \in evidence : e.request # r

(* No thread of the portal or of the demo waits for ever, whichever        *)
(* service is down or silent.                                              *)
EveryThreadEnds ==
  \A r \in Request :
    /\ (status[r] = "proxying") ~> (status[r] \in {"cut", "relayed"})
    /\ (demo[r] \in Active) ~> (demo[r] \in {"answered", "dead"})
=============================================================================
