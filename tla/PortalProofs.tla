---------------------------- MODULE PortalProofs ----------------------------
(***************************************************************************)
(* Proofs about Portal.tla, about the agent beside it, Agent.tla, and      *)
(* about the portal's rate limit, SlidingWindowLimiter.tla: for every      *)
(* number of requests, stops, turns, calls and threads, and for every      *)
(* limit, window and delay.                                                *)
(***************************************************************************)
EXTENDS Agent, SlidingWindowLimiter, FiniteSetTheorems, SequenceTheorems,
        WellFoundedInduction, TLAPS

(* How far a request has come bounds what can have happened of it: nothing *)
(* before the portal has sent it, no row before the verifier was asked, no *)
(* run and no report before the demo has the line.                         *)
StageInv ==
  \A r \in Request :
    /\ status[r] \in {"new", "limited", "refused", "unavailable"} => demo[r] = "none"
    /\ demo[r] \in {"none", "started"} => answer[r] = "none"
    /\ demo[r] \in {"none", "started", "asking"} => r \notin ran
    /\ demo[r] = "checking" => answer[r] \in Verdict /\ (r \in ran <=> Executes(r))
    /\ demo[r] \in Active \cup {"none"} => \A x \in reports : x.request # r

RowInv ==
  /\ \A e \in evidence : answer[e.request] = e.verdict
  /\ \A r \in Request : answer[r] \in Verdict =>
                          [request |-> r, verdict |-> answer[r]] \in evidence

PortalInv == TypeOK /\ StageInv /\ RowInv /\ ReportIsTrue

LEMMA PortalInit == Init => PortalInv
<1> USE VerdictAssumption, StopsAssumption
<1> QED BY DEF Init, PortalInv, TypeOK, StageInv, RowInv, ReportIsTrue, Kinds, Statuses,
               Stages, Answers, Services

(* The steps of the portal leave the demo's part of the state alone, but   *)
(* for a thread that is started.                                           *)
LEMMA PortalSteps ==
  ASSUME PortalInv, NEW r \in Request, Post(r) \/ Relay(r) \/ GiveUp(r)
  PROVE  PortalInv'
<1> USE DEF PortalInv, TypeOK, StageInv, RowInv, ReportIsTrue, Statuses, Stages, Active,
            Reply, demoVars, Executes, VerdictIn
<1>1. CASE Post(r)
  BY <1>1 DEF Post
<1>2. CASE Relay(r)
  BY <1>2 DEF Relay
<1>3. CASE GiveUp(r)
  BY <1>3 DEF GiveUp
<1> QED BY <1>1, <1>2, <1>3

(* What an answer of the demo does: one report more, and the thread ends.  *)
Reported(r, executed, verdict, e) ==
  /\ demo' = [demo EXCEPT ![r] = "answered"]
  /\ \E x \in Report :
       /\ reports' = reports \cup {x}
       /\ x.request = r
       /\ x.tool_executed = executed
       /\ x.ccs_verdict = verdict
       /\ x.evidence_verification = e

LEMMA FailReports ==
  ASSUME NEW r \in Request, Fail(r) PROVE Reported(r, FALSE, "none", "none")
<1> DEFINE x == [request |-> r, ok |-> FALSE, tool_executed |-> FALSE,
                 ccs_verdict |-> "none", evidence_verification |-> "none"]
<1>1. x \in Report
  BY DEF Report
<1>2. reports' = reports \cup {x} /\ demo' = [demo EXCEPT ![r] = "answered"]
  BY DEF Fail, Answer, Goto
<1> QED BY <1>1, <1>2 DEF Reported

LEMMA ResultReports ==
  ASSUME NEW r \in Request, answer[r] \in Verdict \cup {"error"},
         NEW e \in {"none", "authentic", "unavailable"}, Answer(Result(r, e))
  PROVE  Reported(r, Executes(r), VerdictIn(answer[r]), e)
<1>1. VerdictIn(answer[r]) \in Verdict /\ Executes(r) \in BOOLEAN
  BY VerdictAssumption DEF VerdictIn, Executes
<1>2. Result(r, e) \in Report
  BY <1>1 DEF Report, Result
<1>3. /\ reports' = reports \cup {Result(r, e)}
      /\ demo' = [demo EXCEPT ![r] = "answered"]
  BY DEF Answer, Goto, Result
<1> QED BY <1>2, <1>3 DEF Reported, Result

(* A report that is true keeps the invariant, once the thread had the line *)
(* or has failed before.                                                   *)
LEMMA ReportedStep ==
  ASSUME PortalInv, NEW r \in Request, demo[r] \in Active,
         NEW executed \in BOOLEAN, NEW verdict, NEW e,
         Reported(r, executed, verdict, e),
         UNCHANGED <<kind, status, answer, evidence, up, stops>>,
         ran' \in {ran, ran \cup {r}}, r \in ran' => Executes(r) /\ answer[r] \in Verdict,
         executed <=> r \in ran',
         e # "none" => verdict = answer[r] /\ answer[r] \in Verdict
  PROVE  PortalInv'
<1> USE DEF PortalInv
<1>0. PICK x \in Report : /\ reports' = reports \cup {x}
                          /\ x.request = r
                          /\ x.tool_executed = executed
                          /\ x.ccs_verdict = verdict
                          /\ x.evidence_verification = e
  BY DEF Reported
<1>d. demo' = [demo EXCEPT ![r] = "answered"]
  BY DEF Reported
<1>1. TypeOK'
  BY <1>0, <1>d DEF TypeOK, Stages
<1>2. StageInv'
  BY <1>0, <1>d DEF TypeOK, StageInv, Active, Stages, Executes, VerdictIn
<1>3. RowInv'
  BY DEF RowInv
<1>4. ReportIsTrue'
  BY <1>0, VerdictAssumption DEF TypeOK, StageInv, RowInv, ReportIsTrue, Active, Executes,
                                 VerdictIn
<1> QED BY <1>1, <1>2, <1>3, <1>4

LEMMA AskStep == ASSUME PortalInv, NEW r \in Request, Ask(r) PROVE PortalInv'
<1>1. CASE Fail(r) /\ UNCHANGED answer
  BY <1>1, FailReports, ReportedStep DEF Ask, Active, PortalInv, StageInv
<1>2. CASE Goto(r, "asking") /\ answer' = [answer EXCEPT ![r] = "asked"] /\ UNCHANGED reports
  <2> USE <1>2, VerdictAssumption
      DEF PortalInv, TypeOK, StageInv, RowInv, ReportIsTrue, Stages, Answers, Active,
          Executes, VerdictIn, Ask, Goto
  <2>1. TypeOK'
    OBVIOUS
  <2>2. StageInv'
    OBVIOUS
  <2>3. RowInv' /\ ReportIsTrue'
    OBVIOUS
  <2> QED BY <2>1, <2>2, <2>3
<1> QED BY <1>1, <1>2 DEF Ask

LEMMA CCSFailsStep == ASSUME PortalInv, NEW r \in Request, CCSFails(r) PROVE PortalInv'
BY FailReports, ReportedStep DEF CCSFails, Active, PortalInv, StageInv

LEMMA AnsweredStep == ASSUME PortalInv, NEW r \in Request, Answered(r) PROVE PortalInv'
<1>1. CASE answer[r] = "error"
  <2>1. ~Executes(r) /\ ran' = ran
    BY <1>1 DEF Answered, Executes, VerdictIn
  <2>2. Reported(r, Executes(r), VerdictIn(answer[r]), "none")
    BY <1>1, ResultReports DEF Answered
  <2>3. r \notin ran /\ demo[r] \in Active
    BY DEF Answered, PortalInv, StageInv, Active
  <2>4. UNCHANGED <<kind, status, answer, evidence, up, stops>>
    BY DEF Answered
  <2>5. Executes(r) = FALSE
    BY <2>1 DEF Executes
  <2> QED BY <2>1, <2>2, <2>3, <2>4, <2>5, ReportedStep
<1>2. CASE answer[r] # "error"
  <2> USE <1>2, VerdictAssumption
      DEF PortalInv, TypeOK, StageInv, RowInv, ReportIsTrue, Stages, Active, Executes,
          VerdictIn, Answered, Goto
  <2>1. TypeOK'
    OBVIOUS
  <2>2. StageInv'
    OBVIOUS
  <2>3. RowInv' /\ ReportIsTrue'
    OBVIOUS
  <2> QED BY <2>1, <2>2, <2>3
<1> QED BY <1>1, <1>2

LEMMA CheckStep == ASSUME PortalInv, NEW r \in Request, Check(r) PROVE PortalInv'
<1>1. answer[r] \in Verdict /\ demo[r] \in Active /\ (r \in ran <=> Executes(r))
  BY DEF Check, PortalInv, StageInv, Active
<1>2. PICK e \in {"authentic", "unavailable"} : Answer(Result(r, e))
  BY DEF Check
<1>3. Reported(r, Executes(r), VerdictIn(answer[r]), e)
  BY <1>1, <1>2, ResultReports
<1>4. VerdictIn(answer[r]) = answer[r] /\ Executes(r) \in BOOLEAN
  BY <1>1, VerdictAssumption DEF VerdictIn, Executes
<1>5. UNCHANGED <<kind, status, answer, evidence, ran, up, stops>>
  BY DEF Check
<1> QED BY <1>1, <1>3, <1>4, <1>5, ReportedStep

LEMMA VerifyStep == ASSUME PortalInv, NEW r \in Request, Verify(r) PROVE PortalInv'
<1> USE VerdictAssumption
    DEF PortalInv, TypeOK, StageInv, RowInv, ReportIsTrue, Stages, Answers,
            Active, Executes, VerdictIn, Verify
<1>1. TypeOK'
  OBVIOUS
<1>2. StageInv'
  OBVIOUS
<1>3. RowInv'
  OBVIOUS
<1>4. ReportIsTrue'
  OBVIOUS
<1> QED BY <1>1, <1>2, <1>3, <1>4

(* A service that stops takes threads and requests with it, and no facts.  *)
LEMMA ServiceSteps ==
  ASSUME PortalInv, NEW s \in Services, Stop(s) \/ Start(s) PROVE PortalInv'
<1> USE VerdictAssumption, StopsAssumption
    DEF PortalInv, TypeOK, StageInv, RowInv, ReportIsTrue, Stages, Answers,
            Active, Executes, VerdictIn, demoVars
<1>1. CASE Stop(s)
  <2>1. TypeOK'
    BY <1>1 DEF Stop
  <2>2. StageInv'
    BY <1>1 DEF Stop
  <2>3. RowInv' /\ ReportIsTrue'
    BY <1>1 DEF Stop
  <2> QED BY <2>1, <2>2, <2>3
<1>2. CASE Start(s)
  BY <1>2 DEF Start
<1> QED BY <1>1, <1>2

LEMMA PortalNext == PortalInv /\ [Next]_vars => PortalInv'
<1> SUFFICES ASSUME PortalInv, [Next]_vars PROVE PortalInv'
  OBVIOUS
<1>1. CASE UNCHANGED vars
  BY <1>1 DEF vars, demoVars, PortalInv, TypeOK, StageInv, RowInv, ReportIsTrue, Executes,
              VerdictIn
<1>2. CASE Next
  BY <1>2, PortalSteps, AskStep, CCSFailsStep, AnsweredStep, CheckStep, VerifyStep,
     ServiceSteps DEF Next
<1> QED BY <1>1, <1>2

LEMMA PortalInvariant == Spec => []PortalInv
BY PortalInit, PortalNext, PTL DEF Spec

(* The variables of the portal and its services keep their types.          *)
THEOREM PortalTypeCorrect == Spec => []TypeOK
<1>1. PortalInv => TypeOK
  BY DEF PortalInv
<1> QED BY <1>1, PortalInvariant, PTL

(* The demo reports what has happened, whichever service failed when.      *)
THEOREM DemoTellsTheTruth == Spec => []ReportIsTrue
<1>1. PortalInv => ReportIsTrue
  BY DEF PortalInv
<1> QED BY <1>1, PortalInvariant, PTL

(* Of a request that the portal refused itself nothing ever happens.       *)
THEOREM RefusedHasNoEffect == Spec => []RefusalMeansNothing
<1>1. PortalInv => RefusalMeansNothing
  <2> SUFFICES ASSUME PortalInv, NEW r \in Request,
                      status[r] \in {"limited", "refused", "unavailable"}
               PROVE  /\ demo[r] = "none" /\ answer[r] = "none"
                      /\ r \notin ran
                      /\ \A e \in evidence : e.request # r
    BY DEF RefusalMeansNothing
  <2>1. demo[r] = "none" /\ answer[r] = "none" /\ r \notin ran
    BY DEF PortalInv, StageInv
  <2>2. "none" \notin Verdict
    BY VerdictAssumption
  <2> QED BY <2>1, <2>2 DEF PortalInv, TypeOK, RowInv
<1> QED BY <1>1, PortalInvariant, PTL
-----------------------------------------------------------------------------
(* THE AGENT                                                               *)

(* The agent takes nothing from the portal's state and adds nothing to it: *)
(* what is proved of the portal holds beside an agent.                     *)
THEOREM PortalBesideAgent == AgentSpec => Spec
<1>1. AgentInit => Init
  BY DEF AgentInit
<1>2. [AgentNext]_allVars => [Next]_vars
  BY DEF AgentNext, allVars
<1> QED BY <1>1, <1>2, PTL DEF AgentSpec, Spec

(* Where the loop is bounds which calls have been told and executed.       *)
LoopInv ==
  /\ stage \notin {"ended", "failed"} => turn < MaxTurns
  /\ current \in 1 .. last + 1
  /\ stage = "model" => current = last + 1
  /\ stage \in {"call", "guard", "tool", "check"} => current <= last
  /\ \A m \in told : m.call < current
  /\ \A d \in 1 .. (current - 1) : Told(d)
  /\ \A c \in bodies : c <= current
  /\ current \in bodies => stage \in {"check", "failed"}

(* A verdict that the loop acts on came with its row.                      *)
LineInv ==
  /\ stage = "tool" => line[current] = "allow"
  /\ stage = "check" => /\ line[current] \in Verdict
                        /\ line[current] = "allow" <=> current \in bodies
  /\ \A c \in Call : line[c] \in Verdict => [call |-> c, verdict |-> line[c]] \in rows

AgentInv == AgentTypeOK /\ LoopInv /\ LineInv /\ ModelToldTheTruth

LEMMA AgentBegins == AgentInit => AgentInv
BY VerdictAssumption, AgentAssumption
   DEF AgentInit, AgentInv, AgentTypeOK, LoopInv, LineInv, ModelToldTheTruth, Told,
       AgentStages, Answers, Call

LEMMA ThinkStep == ASSUME AgentInv, Think PROVE AgentInv'
<1> USE AgentAssumption DEF AgentInv, AgentTypeOK, LoopInv, LineInv, ModelToldTheTruth, Told,
                            AgentStages
<1>1. CASE Throw /\ UNCHANGED <<line, rows>>
  BY <1>1 DEF Throw, At
<1>2. ASSUME NEW n \in 0 .. MaxCalls - last, stage = "model",
             last' = last + n, stage' = IF n = 0 THEN "ended" ELSE "call",
             UNCHANGED <<required, turn, current, bodies, told, line, rows>>
      PROVE  AgentInv'
  BY <1>2
<1> QED BY <1>1, <1>2 DEF Think

(* A message about the current call, whose body was reached if and only if *)
(* it was allowed.                                                         *)
LEMMA TellStep ==
  ASSUME AgentInv, stage \in {"call", "guard", "check"},
         NEW v \in Verdict, NEW e \in {"none", "authentic", "unavailable"},
         v = "allow" <=> current \in bodies,
         e # "none" => [call |-> current, verdict |-> v] \in rows,
         Tell(v, e), UNCHANGED <<line, rows>>
  PROVE  AgentInv'
<1> DEFINE m == [call |-> current, verdict |-> v, allowed |-> v = "allow",
                 tool_executed |-> current \in bodies, evidence |-> e]
<1>1. current \in Call /\ current <= last /\ last \in 0 .. MaxCalls /\ current \in 1 .. last
  BY AgentAssumption DEF AgentInv, AgentTypeOK, LoopInv, Call
<1>2. m \in Message
  BY <1>1 DEF Message
<1>3. told' = told \cup {m}
  BY DEF Tell
<1>4. /\ m.call = current /\ m.verdict = v /\ m.evidence = e
      /\ m.allowed <=> current \in bodies
      /\ m.tool_executed <=> current \in bodies
  OBVIOUS
<1> HIDE DEF m
<1>5. /\ current' = current + 1
      /\ turn' = IF current = last THEN turn + 1 ELSE turn
      /\ stage' = IF current < last THEN "call"
                  ELSE IF turn + 1 < MaxTurns THEN "model" ELSE "failed"
      /\ UNCHANGED <<required, last, bodies, line, rows>>
  BY DEF Tell, Advance
<1>6. AgentTypeOK'
  <2>1. turn < MaxTurns
    BY DEF AgentInv, LoopInv
  <2> QED BY <1>1, <1>2, <1>3, <1>5, <2>1, AgentAssumption DEF AgentInv, AgentTypeOK, AgentStages
<1>7. LoopInv'
  <2>1. /\ stage' \notin {"ended", "failed"} => turn' < MaxTurns
        /\ current' \in 1 .. last' + 1
        /\ stage' = "model" => current' = last' + 1
        /\ stage' \in {"call", "guard", "tool", "check"} => current' <= last'
    BY <1>1, <1>5, AgentAssumption DEF AgentInv, LoopInv, AgentTypeOK
  <2>2. \A x \in told' : x.call < current'
    BY <1>1, <1>3, <1>4, <1>5 DEF AgentInv, LoopInv, AgentTypeOK, Message, Call
  <2>3. ASSUME NEW d \in 1 .. (current' - 1) PROVE Told(d)'
    <3>1. d = current \/ d \in 1 .. (current - 1)
      BY <1>1, <1>5
    <3> QED BY <1>3, <1>4, <3>1 DEF AgentInv, LoopInv, Told
  <2>4. \A c \in bodies' : c <= current' /\ c # current'
    BY <1>1, <1>5 DEF AgentInv, LoopInv, AgentTypeOK, Call
  <2> QED BY <2>1, <2>2, <2>3, <2>4 DEF LoopInv
<1>8. LineInv'
  BY <1>5 DEF AgentInv, LineInv
<1>9. ModelToldTheTruth'
  BY <1>3, <1>4, <1>5 DEF AgentInv, ModelToldTheTruth
<1> QED BY <1>6, <1>7, <1>8, <1>9 DEF AgentInv

LEMMA AskToolStep == ASSUME AgentInv, AskTool PROVE AgentInv'
<1>1. stage = "call" /\ UNCHANGED rows
  BY DEF AskTool
<1>2. current \notin bodies
  BY <1>1 DEF AgentInv, LoopInv
<1>3. CASE Throw /\ UNCHANGED line
  BY <1>1, <1>2, <1>3 DEF Throw, At, AgentInv, AgentTypeOK, LoopInv, LineInv,
                          ModelToldTheTruth, Told, AgentStages
<1>4. CASE /\ At("guard") /\ line' = [line EXCEPT ![current] = "asked"]
           /\ UNCHANGED bodies
  BY <1>1, <1>2, <1>4, VerdictAssumption
     DEF At, AgentInv, AgentTypeOK, LoopInv, LineInv, ModelToldTheTruth, Told, AgentStages,
         Answers
<1>5. CASE Tell("deny", "none") /\ UNCHANGED line
  BY <1>1, <1>2, <1>5, TellStep, VerdictAssumption
<1> QED BY <1>3, <1>4, <1>5 DEF AskTool

LEMMA GuardEndsStep == ASSUME AgentInv, GuardEnds PROVE AgentInv'
<1>1. stage = "guard" /\ UNCHANGED <<line, rows>>
  BY DEF GuardEnds
<1>2. current \notin bodies /\ current \in Call
  BY <1>1, AgentAssumption DEF AgentInv, AgentTypeOK, LoopInv, Call
<1>3. CASE line[current] = "allow" /\ At("tool") /\ UNCHANGED bodies
  BY <1>1, <1>2, <1>3 DEF At, AgentInv, AgentTypeOK, LoopInv, LineInv, ModelToldTheTruth,
                          Told, AgentStages
<1>4. CASE line[current] \in Verdict \ {"allow"} /\ At("check") /\ UNCHANGED bodies
  BY <1>1, <1>2, <1>4 DEF At, AgentInv, AgentTypeOK, LoopInv, LineInv, ModelToldTheTruth,
                          Told, AgentStages
<1>5. CASE Tell("deny", "none")
  BY <1>1, <1>2, <1>5, TellStep, VerdictAssumption
<1> QED BY <1>3, <1>4, <1>5 DEF GuardEnds

LEMMA RunToolStep == ASSUME AgentInv, RunTool PROVE AgentInv'
<1>1. /\ stage = "tool" /\ line[current] = "allow" /\ current \notin bodies
      /\ UNCHANGED <<line, rows>>
  BY DEF RunTool, AgentInv, LoopInv, LineInv
<1>2. current \in Call /\ [call |-> current, verdict |-> "allow"] \in rows
  BY <1>1, AgentAssumption, VerdictAssumption DEF AgentInv, AgentTypeOK, LoopInv, LineInv, Call
<1>3. \A m \in told : m.call # current
  BY <1>2 DEF AgentInv, LoopInv, Call, AgentTypeOK, Message
<1>4. CASE bodies' = bodies \cup {current} /\ (At("check") \/ At("failed"))
  BY <1>1, <1>2, <1>3, <1>4, VerdictAssumption
     DEF At, AgentInv, AgentTypeOK, LoopInv, LineInv, ModelToldTheTruth, Told, AgentStages
<1>5. CASE Throw
  BY <1>1, <1>5 DEF Throw, At, AgentInv, AgentTypeOK, LoopInv, LineInv, ModelToldTheTruth,
                    Told, AgentStages
<1> QED BY <1>4, <1>5 DEF RunTool

LEMMA CheckReceiptStep == ASSUME AgentInv, CheckReceipt PROVE AgentInv'
<1>1. /\ stage = "check" /\ line[current] \in Verdict
      /\ line[current] = "allow" <=> current \in bodies
      /\ UNCHANGED <<line, rows>>
  BY DEF CheckReceipt, AgentInv, LineInv
<1>2. current \in Call /\ [call |-> current, verdict |-> line[current]] \in rows
  BY <1>1, AgentAssumption DEF AgentInv, AgentTypeOK, LoopInv, LineInv, Call
<1>3. CASE Tell(line[current], "authentic") \/ Tell(line[current], "unavailable")
  BY <1>1, <1>2, <1>3, TellStep
<1>4. CASE Throw
  BY <1>1, <1>4 DEF Throw, At, AgentInv, AgentTypeOK, LoopInv, LineInv, ModelToldTheTruth,
                    Told, AgentStages
<1> QED BY <1>3, <1>4 DEF CheckReceipt

(* A verdict is added to a line that nobody has acted on.                  *)
LEMMA VerifyCallStep == ASSUME AgentInv, NEW c \in Call, VerifyCall(c) PROVE AgentInv'
<1>1. line[c] = "asked" /\ UNCHANGED convVars
  BY DEF VerifyCall
<1>2. stage \in {"tool", "check"} => current # c
  BY <1>1, VerdictAssumption DEF AgentInv, LineInv
<1>3. ASSUME NEW v \in Verdict, line' = [line EXCEPT ![c] = v],
             rows' = rows \cup {[call |-> c, verdict |-> v]}
      PROVE  AgentInv'
  BY <1>1, <1>2, <1>3 DEF convVars, AgentInv, AgentTypeOK, LoopInv, LineInv,
                          ModelToldTheTruth, Told, Answers
<1>4. CASE line' = [line EXCEPT ![c] = "error"] /\ UNCHANGED rows
  BY <1>1, <1>2, <1>4, VerdictAssumption
     DEF convVars, AgentInv, AgentTypeOK, LoopInv, LineInv, ModelToldTheTruth, Told, Answers
<1> QED BY <1>3, <1>4 DEF VerifyCall

LEMMA LosingStep == ASSUME AgentInv, Losing PROVE AgentInv'
BY VerdictAssumption, AgentAssumption
   DEF Losing, convVars, AgentInv, AgentTypeOK, LoopInv, LineInv, ModelToldTheTruth, Told,
       Answers, Call

LEMMA AgentInvariant == AgentSpec => []AgentInv
<1>1. AgentInv /\ [AgentNext]_allVars => AgentInv'
  <2> SUFFICES ASSUME AgentInv, [AgentNext]_allVars PROVE AgentInv'
    OBVIOUS
  <2>1. CASE UNCHANGED allVars
    BY <2>1 DEF allVars, agentVars, convVars, AgentInv, AgentTypeOK, LoopInv, LineInv,
                ModelToldTheTruth, Told
  <2>2. CASE AgentNext
    BY <2>2, ThinkStep, AskToolStep, GuardEndsStep, RunToolStep, CheckReceiptStep,
       VerifyCallStep, LosingStep DEF AgentNext, Loop
  <2> QED BY <2>1, <2>2
<1> QED BY <1>1, AgentBegins, PTL DEF AgentSpec

(* The variables of the agent keep their types.                            *)
THEOREM AgentTypeCorrect == AgentSpec => []AgentTypeOK
<1>1. AgentInv => AgentTypeOK
  BY DEF AgentInv
<1> QED BY <1>1, AgentInvariant, PTL

(* The model is told what has happened, in a conversation of any length.   *)
THEOREM ConversationIsTrue == AgentSpec => []ModelToldTheTruth
<1>1. AgentInv => ModelToldTheTruth
  BY DEF AgentInv
<1> QED BY <1>1, AgentInvariant, PTL

(* The conversation has no gaps.                                           *)
THEOREM NoCallForgotten == AgentSpec => []ConversationComplete
<1>1. AgentInv => ConversationComplete
  <2> SUFFICES ASSUME AgentInv PROVE ConversationComplete
    OBVIOUS
  <2>1. last \in Nat /\ current \in Nat
    BY AgentAssumption DEF AgentInv, AgentTypeOK
  <2>2. stage = "model" => \A c \in 1 .. last : Told(c)
    BY <2>1 DEF AgentInv, LoopInv
  <2>3. ASSUME NEW c \in bodies, NEW d \in 1 .. (c - 1) PROVE Told(d)
    BY <2>1 DEF AgentInv, LoopInv, AgentTypeOK, Call
  <2> QED BY <2>2, <2>3 DEF ConversationComplete
<1> QED BY <1>1, AgentInvariant, PTL
-----------------------------------------------------------------------------
(* THE RATE LIMITER                                                        *)

(* A set of numbers that is not empty has a least one.                     *)
LEMMA LeastNumber ==
  ASSUME NEW S \in SUBSET Nat, S # {}
  PROVE  Min(S) \in S /\ \A y \in S : Min(S) <= y
<1>1. PICK x \in S : \A y \in S : ~(<<y, x>> \in OpToRel(<, Nat))
  BY NatLessThanWellFounded, WFMin
<1>2. \A y \in S : x <= y
  <2> SUFFICES ASSUME NEW y \in S PROVE ~(y < x)
    OBVIOUS
  <2> QED BY <1>1 DEF OpToRel
<1> QED BY <1>2 DEF Min

(* What popleft() leaves: the queue from its first unexpired time on.      *)
LEMMA UnexpiredIsSuffix ==
  ASSUME NEW T \in SUBSET Nat, NEW s \in Seq(T), NEW c \in Int
  PROVE  \E k \in 0 .. Len(s) :
           /\ Unexpired(s, c) \in Seq(T)
           /\ Len(Unexpired(s, c)) = Len(s) - k
           /\ \A i \in 1 .. Len(s) - k : Unexpired(s, c)[i] = s[k + i]
           /\ \A i \in 1 .. k : s[i] <= c
           /\ k < Len(s) => s[k + 1] > c
<1> DEFINE live == {i \in DOMAIN s : s[i] > c}
<1>1. DOMAIN s = 1 .. Len(s) /\ Len(s) \in Nat /\ \A i \in 1 .. Len(s) : s[i] \in T /\ s[i] \in Nat
  <2>1. DOMAIN s = 1 .. Len(s) /\ Len(s) \in Nat /\ \A i \in 1 .. Len(s) : s[i] \in T
    OBVIOUS
  <2>2. \A x \in T : x \in Nat
    OBVIOUS
  <2> QED BY <2>1, <2>2
<1>2. CASE live = {}
  <2>1. Unexpired(s, c) = <<>>
    BY <1>2 DEF Unexpired
  <2>2. \A i \in 1 .. Len(s) : s[i] <= c
    BY <1>1, <1>2
  <2>3. Unexpired(s, c) \in Seq(T) /\ Len(Unexpired(s, c)) = 0
    BY <2>1
  <2>4. Len(s) \in 0 .. Len(s) /\ Len(s) - Len(s) = 0
    BY <1>1
  <2> WITNESS Len(s) \in 0 .. Len(s)
  <2> QED BY <1>1, <2>2, <2>3, <2>4
<1>3. CASE live # {}
  <2> DEFINE m == Min(live)
  <2>1. m \in live /\ \A y \in live : m <= y
    <3>1. live \in SUBSET Nat
      BY <1>1
    <3> HIDE DEF live
    <3> QED BY <1>3, <3>1, LeastNumber
  <2>2. Unexpired(s, c) = SubSeq(s, m, Len(s))
    BY <1>3 DEF Unexpired
  <2> HIDE DEF m
  <2>3. m \in 1 .. Len(s) /\ s[m] > c
    BY <1>1, <2>1
  <2>4. \A i \in 1 .. (m - 1) : s[i] <= c
    <3> SUFFICES ASSUME NEW i \in 1 .. (m - 1), ~(s[i] <= c) PROVE FALSE
      OBVIOUS
    <3>1. i \in 1 .. Len(s) /\ i < m
      BY <1>1, <2>3
    <3>2. i \in live
      BY <1>1, <3>1
    <3> QED BY <1>1, <2>1, <2>3, <3>1, <3>2
  <2> HIDE DEF live
  <2>5. /\ SubSeq(s, m, Len(s)) \in Seq(T)
        /\ Len(SubSeq(s, m, Len(s))) = Len(s) - m + 1
        /\ \A i \in 1 .. Len(s) - m + 1 : SubSeq(s, m, Len(s))[i] = s[m + i - 1]
    BY <1>1, <2>3, SubSeqProperties
  <2>6. m - 1 \in 0 .. Len(s)
    BY <1>1, <2>3
  <2> WITNESS m - 1 \in 0 .. Len(s)
  <2>7. Len(s) - (m - 1) = Len(s) - m + 1 /\ \A i \in Int : (m - 1) + i = m + i - 1
    BY <1>1, <2>3
  <2>8. \A i \in 1 .. Len(s) - (m - 1) : Unexpired(s, c)[i] = s[m - 1 + i]
    BY <1>1, <2>2, <2>3, <2>5, <2>7
  <2> QED BY <1>1, <2>2, <2>3, <2>4, <2>5, <2>7, <2>8
<1> QED BY <1>2, <1>3

(* int() rounds down and one second is added: never too short a wait.      *)
LEMMA RoundedUp ==
  ASSUME NEW x \in Int, NEW d \in Nat \ {0}
  PROVE  (x \div d) \in Int /\ ((x \div d) + 1) * d > x
OBVIOUS

LEMMA RetryAfterLongEnough ==
  ASSUME NEW n \in Int, NEW first \in Int
  PROVE  /\ RetryAfter(n, first) \in Nat
         /\ n + RetryAfter(n, first) * TicksPerSecond > first + Window
<1> DEFINE w == ((Window - (n - first)) \div TicksPerSecond) + 1
           r == RetryAfter(n, first)
<1>1. Window - (n - first) \in Int /\ TicksPerSecond \in Nat \ {0}
  BY TimeAssumption
<1>2. w \in Int /\ w * TicksPerSecond > Window - (n - first)
  BY <1>1, RoundedUp
<1>3. r = Max({1, w})
  BY DEF RetryAfter
<1> HIDE DEF w, r
<1>4. r \in {1, w} /\ r >= 1 /\ r >= w
  <2>1. \E x \in {1, w} : \A y \in {1, w} : x >= y
    BY <1>2
  <2> QED BY <1>2, <1>3, <2>1 DEF Max
<1>5. r \in Nat
  BY <1>2, <1>4
<1>6. r * TicksPerSecond >= w * TicksPerSecond
  BY <1>1, <1>2, <1>4, <1>5
<1>7. r * TicksPerSecond \in Int /\ w * TicksPerSecond \in Int
  BY <1>1, <1>2, <1>5
<1> QED
  <2>1. n + r * TicksPerSecond > first + Window
    BY <1>1, <1>2, <1>6, <1>7, TimeAssumption
  <2> QED BY <1>5, <2>1 DEF r

(* A thread decides with a time at most MaxDelay ticks old.                *)
DelayInv ==
  \A t \in Thread : now[t] # NoTime => now[t] <= clock /\ clock <= now[t] + MaxDelay

(* How many of the admitted requests are no longer in the queue.           *)
Gone == Len(admitted) - Len(q)

(* The queue holds the last requests let through, in their order, each     *)
(* under a time at most MaxDelay ticks before its own; and those that are  *)
(* gone from it are older than the window less that delay.                 *)
QueueInv ==
  /\ Gone >= 0
  /\ \A i \in 1 .. Len(q) : q[i] <= admitted[Gone + i] /\ admitted[Gone + i] <= q[i] + MaxDelay
  /\ \A j \in 1 .. Gone : admitted[j] + Window <= clock + MaxDelay

(* A promise outlasts the oldest request in the queue.                     *)
PromiseInv == promise # NoTime => Len(q) > 0 /\ promise > q[1] + Window

LimiterInv == LimiterTypeOK /\ DelayInv /\ QueueInv /\ PromiseInv

LEMMA LimiterBegins == LimiterInit => LimiterInv
BY TimeAssumption, LimitAssumption
   DEF LimiterInit, LimiterInv, LimiterTypeOK, DelayInv, QueueInv, PromiseInv, Gone

LEMMA ReadClockStep == ASSUME LimiterInv, NEW t \in Thread, ReadClock(t) PROVE LimiterInv'
BY TimeAssumption
   DEF ReadClock, LimiterInv, LimiterTypeOK, DelayInv, QueueInv, PromiseInv, Gone

LEMMA TickStep == ASSUME LimiterInv, Tick PROVE LimiterInv'
BY TimeAssumption
   DEF Tick, LimiterInv, LimiterTypeOK, DelayInv, QueueInv, PromiseInv, Gone

(* What Decide() has in hand before it looks at the limit.                 *)
LEMMA Prepared ==
  ASSUME LimiterInv, NEW t \in Thread, now[t] # NoTime
  PROVE  LET rest == Unexpired(q, now[t] - Window) IN
         /\ now[t] \in 0 .. MaxTime
         /\ rest \in Seq(0 .. MaxTime)
         /\ \E k \in 0 .. Len(q) :
              /\ Len(rest) = Len(q) - k
              /\ \A i \in 1 .. Len(q) - k : rest[i] = q[k + i]
              /\ \A i \in 1 .. k : q[i] <= now[t] - Window
              /\ k < Len(q) => q[k + 1] > now[t] - Window
<1>1. now[t] \in 0 .. MaxTime /\ q \in Seq(0 .. MaxTime)
  BY DEF LimiterInv, LimiterTypeOK
<1>2. 0 .. MaxTime \in SUBSET Nat /\ now[t] - Window \in Int
  BY <1>1, TimeAssumption
<1> QED BY <1>1, <1>2, UnexpiredIsSuffix

LEMMA DecideStep == ASSUME LimiterInv, NEW t \in Thread, Decide(t) PROVE LimiterInv'
<1> DEFINE rest == Unexpired(q, now[t] - Window)
           n == now[t]
<1>1. n # NoTime /\ clock' = clock /\ now' = [now EXCEPT ![t] = NoTime]
  BY DEF Decide
<1>2. n \in 0 .. MaxTime /\ rest \in Seq(0 .. MaxTime)
  BY <1>1, Prepared
<1>3. PICK k \in 0 .. Len(q) :
        /\ Len(rest) = Len(q) - k
        /\ \A i \in 1 .. Len(q) - k : rest[i] = q[k + i]
        /\ \A i \in 1 .. k : q[i] <= n - Window
        /\ k < Len(q) => q[k + 1] > n - Window
  BY <1>1, Prepared
<1>4. /\ clock \in Nat /\ clock \in 0 .. MaxTime /\ Len(q) \in Nat /\ Len(q) <= Limit
      /\ Limit \in Nat \ {0} /\ Window \in Nat /\ MaxDelay \in Nat /\ MaxTime \in Nat
      /\ NoTime \notin Nat
      /\ \A i \in 1 .. Len(q) : q[i] \in Nat
      /\ admitted \in Seq(0 .. MaxTime) /\ Len(admitted) \in Nat
      /\ \A i \in 1 .. Len(admitted) : admitted[i] \in Nat
      /\ now \in [Thread -> 0 .. MaxTime \cup {NoTime}]
  BY TimeAssumption, LimitAssumption DEF LimiterInv, LimiterTypeOK
<1>5. n <= clock /\ clock <= n + MaxDelay
  BY <1>1 DEF LimiterInv, DelayInv
<1>6. DelayInv' /\ now' \in [Thread -> 0 .. MaxTime \cup {NoTime}]
  BY <1>1, <1>4 DEF LimiterInv, DelayInv
<1>7. QueueInv
  BY DEF LimiterInv
<1> HIDE DEF rest, n
<1>8. \A j \in 1 .. Gone + k : admitted[j] + Window <= clock + MaxDelay
  <2> SUFFICES ASSUME NEW j \in 1 .. Gone + k PROVE admitted[j] + Window <= clock + MaxDelay
    OBVIOUS
  <2>1. Gone \in Nat
    BY <1>4, <1>7 DEF QueueInv, Gone
  <2>2. CASE j <= Gone
    BY <1>7, <2>1, <2>2 DEF QueueInv
  <2>3. CASE j > Gone
    <3> DEFINE i == j - Gone
    <3>1. i \in 1 .. k /\ i \in 1 .. Len(q) /\ Gone + i = j
      BY <1>4, <2>1, <2>3
    <3>2. admitted[j] <= q[i] + MaxDelay /\ q[i] <= n - Window
      BY <1>3, <1>7, <3>1 DEF QueueInv
    <3>3. j \in 1 .. Len(admitted)
      BY <1>4, <2>1, <3>1 DEF Gone
    <3>4. admitted[j] \in Nat /\ q[i] \in Nat
      BY <1>4, <3>1, <3>3
    <3>5. n \in Nat
      BY <1>2, <1>4
    <3>6. clock \in Nat /\ Window \in Nat /\ MaxDelay \in Nat
      BY <1>4
    <3> HIDE DEF i
    <3> QED BY <1>5, <3>2, <3>4, <3>5, <3>6
  <2> QED BY <2>1, <2>2, <2>3
<1>9. CASE Len(rest) >= Limit
  <2>1. q' = rest /\ admitted' = admitted
    BY <1>9 DEF Decide, rest, n
  <2>2. rest[1] \in Nat /\ Head(rest) = rest[1]
    BY <1>2, <1>4, <1>9
  <2>3. promise' > rest[1] + Window /\ promise' \in Nat
    <3>1. promise' = n + RetryAfter(n, Head(rest)) * TicksPerSecond
      BY <1>9 DEF Decide, rest, n
    <3>2. n \in Nat /\ n \in Int /\ Head(rest) \in Int /\ TicksPerSecond \in Nat
      BY <1>2, <1>4, <2>2, TimeAssumption
    <3>3. RetryAfter(n, Head(rest)) \in Nat
          /\ n + RetryAfter(n, Head(rest)) * TicksPerSecond > Head(rest) + Window
      BY <3>2, RetryAfterLongEnough
    <3>4. RetryAfter(n, Head(rest)) * TicksPerSecond \in Nat
      BY <3>2, <3>3
    <3> QED BY <2>2, <3>1, <3>2, <3>3, <3>4
  <2>4. PromiseInv'
    BY <1>4, <1>9, <2>1, <2>3 DEF PromiseInv
  <2>5. LimiterTypeOK'
    BY <1>1, <1>2, <1>3, <1>4, <1>6, <2>1, <2>3 DEF LimiterTypeOK
  <2>6. Gone' = Gone + k
    <3>1. Len(q') = Len(q) - k /\ Len(admitted') = Len(admitted)
      BY <1>3, <2>1
    <3>2. Len(q) \in Nat /\ k \in Nat /\ Len(admitted) \in Nat
      BY <1>4
    <3> QED BY <3>1, <3>2 DEF Gone
  <2>7. QueueInv'
    <3>1. Gone \in Nat /\ k \in Nat /\ Len(q) \in Nat /\ k <= Len(q)
      BY <1>4, <1>7 DEF QueueInv, Gone
    <3>2. \A i \in 1 .. Len(q') : q'[i] <= admitted'[Gone' + i] /\ admitted'[Gone' + i] <= q'[i] + MaxDelay
      <4> SUFFICES ASSUME NEW i \in 1 .. Len(q')
                   PROVE  q'[i] <= admitted'[Gone' + i] /\ admitted'[Gone' + i] <= q'[i] + MaxDelay
        OBVIOUS
      <4>1. i \in 1 .. Len(q) - k /\ k + i \in 1 .. Len(q) /\ Gone' + i = Gone + (k + i)
        BY <1>3, <2>1, <2>6, <3>1
      <4>2. q'[i] = q[k + i]
        BY <1>3, <2>1, <4>1
      <4> QED BY <1>7, <2>1, <4>1, <4>2 DEF QueueInv
    <3>3. \A j \in 1 .. Gone' : admitted'[j] + Window <= clock' + MaxDelay
      BY <1>1, <1>8, <2>1, <2>6
    <3> QED BY <2>6, <3>1, <3>2, <3>3 DEF QueueInv
  <2> QED BY <1>6, <2>4, <2>5, <2>7 DEF LimiterInv
<1>10. CASE ~(Len(rest) >= Limit)
  <2>1. q' = Append(rest, n) /\ admitted' = Append(admitted, clock) /\ promise' = NoTime
    BY <1>10 DEF Decide, rest, n
  <2>2. /\ q' \in Seq(0 .. MaxTime) /\ Len(q') = Len(q) - k + 1
        /\ \A i \in 1 .. Len(q) - k : q'[i] = q[k + i]
        /\ q'[Len(q) - k + 1] = n
    <3>1. /\ Append(rest, n) \in Seq(0 .. MaxTime) /\ Len(Append(rest, n)) = Len(rest) + 1
          /\ \A i \in 1 .. Len(rest) : Append(rest, n)[i] = rest[i]
          /\ Append(rest, n)[Len(rest) + 1] = n
      BY <1>2, AppendProperties
    <3> QED BY <1>3, <2>1, <3>1
  <2>3. /\ admitted' \in Seq(0 .. MaxTime) /\ Len(admitted') = Len(admitted) + 1
        /\ \A i \in 1 .. Len(admitted) : admitted'[i] = admitted[i]
        /\ admitted'[Len(admitted) + 1] = clock
    BY <1>4, <2>1, AppendProperties
  <2>4. LimiterTypeOK' /\ PromiseInv'
    BY <1>1, <1>3, <1>4, <1>6, <1>10, <2>1, <2>2, <2>3 DEF LimiterTypeOK, PromiseInv
  <2>5. Gone' = Gone + k /\ Gone \in Nat /\ Gone' + (Len(q) - k + 1) = Len(admitted) + 1
    BY <1>4, <1>7, <2>2, <2>3 DEF QueueInv, Gone
  <2>6. \A i \in 1 .. Len(q') : q'[i] <= admitted'[Gone' + i] /\ admitted'[Gone' + i] <= q'[i] + MaxDelay
    <3> SUFFICES ASSUME NEW i \in 1 .. Len(q')
                 PROVE  q'[i] <= admitted'[Gone' + i] /\ admitted'[Gone' + i] <= q'[i] + MaxDelay
      OBVIOUS
    <3>1. CASE i = Len(q) - k + 1
      BY <1>5, <2>2, <2>3, <2>5, <3>1
    <3>2. CASE i # Len(q) - k + 1
      <4>1. i \in 1 .. Len(q) - k /\ k + i \in 1 .. Len(q) /\ Gone' + i = Gone + (k + i)
        BY <1>4, <2>2, <2>5, <3>2
      <4>2. Gone' + i \in 1 .. Len(admitted)
        BY <1>4, <2>5, <4>1 DEF Gone
      <4> QED BY <1>7, <2>2, <2>3, <4>1, <4>2 DEF QueueInv
    <3> QED BY <3>1, <3>2
  <2>7. \A j \in 1 .. Gone' : admitted'[j] + Window <= clock' + MaxDelay
    <3>1. \A j \in 1 .. Gone + k : j \in 1 .. Len(admitted)
      BY <1>4, <2>5 DEF Gone
    <3> QED BY <1>1, <1>8, <2>3, <2>5, <3>1
  <2>8. QueueInv'
    BY <1>4, <2>5, <2>6, <2>7 DEF QueueInv
  <2> QED BY <1>6, <2>4, <2>8 DEF LimiterInv
<1> QED BY <1>9, <1>10

LEMMA LimiterInvariant == LimiterSpec => []LimiterInv
<1>1. LimiterInv /\ [LimiterNext]_limiterVars => LimiterInv'
  <2> SUFFICES ASSUME LimiterInv, [LimiterNext]_limiterVars PROVE LimiterInv'
    OBVIOUS
  <2>1. CASE UNCHANGED limiterVars
    BY <2>1 DEF limiterVars, LimiterInv, LimiterTypeOK, DelayInv, QueueInv, PromiseInv, Gone
  <2>2. CASE LimiterNext
    BY <2>2, TickStep, ReadClockStep, DecideStep DEF LimiterNext
  <2> QED BY <2>1, <2>2
<1> QED BY <1>1, LimiterBegins, PTL DEF LimiterSpec

(* The queue of a client never holds more times than the limit.            *)
THEOREM QueueWithinLimit == LimiterSpec => []LimiterTypeOK
<1>1. LimiterInv => LimiterTypeOK
  BY DEF LimiterInv
<1> QED BY <1>1, LimiterInvariant, PTL

(* Late threads let no more than the limit through in a span shorter than  *)
(* the window by their delay: whoever was let through in it is in the      *)
(* queue.                                                                  *)
THEOREM LimitKept == LimiterSpec => []LimitPerShorterWindow
<1>1. LimiterInv => LimitPerShorterWindow
  <2> SUFFICES ASSUME LimiterInv PROVE AdmittedIn(Window - MaxDelay, clock) <= Limit
    BY DEF LimitPerShorterWindow
  <2> DEFINE counted == {i \in DOMAIN admitted :
                           admitted[i] \in (clock - (Window - MaxDelay) + 1) .. clock}
             queued  == (Gone + 1) .. Len(admitted)
  <2>1. /\ clock \in Nat /\ Len(q) \in Nat /\ Len(q) <= Limit /\ Len(admitted) \in Nat
        /\ DOMAIN admitted = 1 .. Len(admitted)
        /\ \A i \in 1 .. Len(admitted) : admitted[i] \in Nat
        /\ Window \in Nat /\ MaxDelay \in Nat /\ Limit \in Nat
    BY TimeAssumption, LimitAssumption DEF LimiterInv, LimiterTypeOK
  <2>2. Gone \in Nat /\ \A j \in 1 .. Gone : admitted[j] + Window <= clock + MaxDelay
    BY <2>1 DEF LimiterInv, QueueInv, Gone
  <2>3. counted \in SUBSET queued
    BY <2>1, <2>2
  <2>4. IsFiniteSet(queued) /\ Cardinality(queued) = Len(q)
    <3>1. Gone + 1 \in Int /\ Len(admitted) \in Int /\ Len(admitted) - (Gone + 1) + 1 = Len(q)
      BY <2>1, <2>2 DEF Gone
    <3>2. Gone + 1 > Len(admitted) => Len(q) = 0
      BY <2>1, <2>2 DEF Gone
    <3> QED BY <3>1, <3>2, FS_Interval
  <2>5. Cardinality(counted) <= Cardinality(queued) /\ IsFiniteSet(counted)
    BY <2>3, <2>4, FS_Subset
  <2>6. Cardinality(counted) \in Nat
    BY <2>5, FS_CardinalityType
  <2> QED BY <2>1, <2>4, <2>5, <2>6 DEF AdmittedIn
<1> QED BY <1>1, LimiterInvariant, PTL

(* A client that comes back when it was told to is let through, though the *)
(* wait is rounded to seconds and measured in stale times.                 *)
THEOREM RetryAfterKept == LimiterSpec => PromiseKept
<1>1. LimiterInv /\ [LimiterNext]_limiterVars =>
        [\A t \in Thread : (Decide(t) /\ promise # NoTime /\ now[t] >= promise)
                              => admitted' # admitted]_limiterVars
  <2> SUFFICES ASSUME LimiterInv, NEW t \in Thread, Decide(t), promise # NoTime, now[t] >= promise
               PROVE  admitted' # admitted
    OBVIOUS
  <2> DEFINE rest == Unexpired(q, now[t] - Window)
  <2>1. now[t] # NoTime
    BY DEF Decide
  <2>2. PICK k \in 0 .. Len(q) :
          /\ Len(rest) = Len(q) - k
          /\ k < Len(q) => q[k + 1] > now[t] - Window
    BY <2>1, Prepared
  <2>3. /\ now[t] \in Nat /\ Len(q) \in Nat /\ Len(q) > 0 /\ Len(q) <= Limit
        /\ q[1] \in Nat /\ promise \in Nat /\ promise > q[1] + Window
        /\ Window \in Nat /\ Limit \in Nat
    <3>1. now[t] \in Nat
      BY <2>1, Prepared
    <3>2. Len(q) \in Nat /\ Len(q) > 0 /\ Len(q) <= Limit /\ promise > q[1] + Window
      BY DEF LimiterInv, LimiterTypeOK, PromiseInv
    <3> QED BY <3>1, <3>2, TimeAssumption, LimitAssumption DEF LimiterInv, LimiterTypeOK
  <2>4. k # 0
    BY <2>2, <2>3
  <2>5. ~(Len(rest) >= Limit)
    BY <2>2, <2>3, <2>4
  <2>6. admitted' = Append(admitted, clock)
    BY <2>5 DEF Decide
  <2> QED
    BY <2>6, AppendProperties DEF LimiterInv, LimiterTypeOK
<1> QED BY <1>1, LimiterInvariant, PTL DEF LimiterSpec, PromiseKept
=============================================================================
