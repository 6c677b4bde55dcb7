-------------------------------- MODULE Agent --------------------------------
(***************************************************************************)
(* The agent of real-agent-integration beside the public demonstration:    *)
(* it asks the same CCS verifier and has its receipts looked at by the     *)
(* same public verifier.  In every turn the language model may call tools; *)
(* agent.mjs executes them one after the other through governRemote() and  *)
(* tells the model what came of each, until the model calls none.          *)
(*                                                                         *)
(* Calls are numbered in the order in which the model makes them.  Which   *)
(* tool a call names, and with what, is left open: it may be unknown,      *)
(* return, throw, or not even accept its parameters.  Left out are names   *)
(* that every JavaScript object has, such as toString.                     *)
(***************************************************************************)
EXTENDS Portal

CONSTANTS
  MaxTurns,   \* turns of the loop of runLLMAgent()
  MaxCalls    \* bound on the calls the model makes in a conversation

ASSUME AgentAssumption == MaxTurns \in Nat \ {0} /\ MaxCalls \in Nat

Call == 1 .. MaxCalls

VARIABLES
  required,   \* a public verifier is set, and AIVF_REQUIRE_PUBLIC_VERIFY=1
  turn,       \* completed turns
  stage,      \* where runLLMAgent() is
  current,    \* the call being executed
  last,       \* the last call the model has made
  line,       \* line[c]: the line of the CCS verifier for c
  rows,       \* its admission rows for the agent
  bodies,     \* calls whose tool body was reached
  told        \* the tool messages of the conversation

convVars  == <<required, turn, stage, current, last, bodies, told>>
agentVars == <<convVars, line, rows>>

AgentStages == {"model", "call", "guard", "tool", "check", "ended", "failed"}

(* The content of a tool message, and tool_executed, which is printed.     *)
Message == [call : Call, verdict : Verdict, allowed : BOOLEAN,
            tool_executed : BOOLEAN, evidence : {"none", "authentic", "unavailable"}]

Told(c) == \E m \in told : m.call = c

AgentInit ==
  /\ Init
  /\ required \in BOOLEAN
  /\ turn = 0
  /\ stage = "model"
  /\ current = 1 /\ last = 0
  /\ line = [c \in Call |-> "none"]
  /\ rows = {}
  /\ bodies = {}
  /\ told = {}
-----------------------------------------------------------------------------
(* THE LOOP                                                                *)

At(s) == stage' = s /\ UNCHANGED <<required, turn, current, last, told>>

(* An exception leaves the loop, and the process ends.                     *)
Throw == At("failed") /\ UNCHANGED bodies

(* chatCompletion(): a message with n calls, or whatever goes wrong before *)
(* its timeout.                                                            *)
Think ==
  /\ stage = "model"
  /\ \/ Throw
     \/ \E n \in 0 .. MaxCalls - last :
          /\ last' = last + n
          /\ stage' = IF n = 0 THEN "ended" ELSE "call"
          /\ UNCHANGED <<required, turn, current, bodies, told>>
  /\ UNCHANGED <<line, rows>>

(* The next call, the next turn, or too many turns.                        *)
Advance ==
  /\ current' = current + 1
  /\ turn' = IF current = last THEN turn + 1 ELSE turn
  /\ stage' = IF current < last THEN "call"
              ELSE IF turn + 1 < MaxTurns THEN "model" ELSE "failed"
  /\ UNCHANGED <<required, last, bodies>>

(* messages.push() of a verdict and of what verifyPublic() says;           *)
(* tool_executed compares the counters of the tools before and after.      *)
Tell(v, e) ==
  /\ told' = told \cup {[call |-> current, verdict |-> v, allowed |-> v = "allow",
                         tool_executed |-> current \in bodies, evidence |-> e]}
  /\ Advance

(* Mutant of AskTool: a tool that does not exist is skipped.                   *)
AskTool_Skips ==
  /\ stage = "call"
  /\ \/ Advance /\ UNCHANGED told /\ UNCHANGED line
     \/ "ccs" \in up /\ At("guard") /\ line' = [line EXCEPT ![current] = "asked"]
                     /\ UNCHANGED bodies
     \/ Tell("deny", "none") /\ UNCHANGED line
  /\ UNCHANGED rows

(* executeTool(): an unknown tool throws; the guard connects, or denies.   *)
AskTool ==
  /\ stage = "call"
  /\ \/ Throw /\ UNCHANGED line
     \/ "ccs" \in up /\ At("guard") /\ line' = [line EXCEPT ![current] = "asked"]
                     /\ UNCHANGED bodies
     \/ Tell("deny", "none") /\ UNCHANGED line
  /\ UNCHANGED rows

(* Mutant of GuardEnds: no timeout, and a connection that was cut is not   *)
(* noticed.                                                                *)
GuardEnds_Waits ==
  /\ stage = "guard"
  /\ \/ line[current] = "allow" /\ At("tool") /\ UNCHANGED bodies
     \/ line[current] \in Verdict \ {"allow"} /\ At("check") /\ UNCHANGED bodies
     \/ line[current] = "error" /\ Tell("deny", "none")
  /\ UNCHANGED <<line, rows>>

(* verify() of remote.js: the line, or a deny when it does not come.       *)
GuardEnds ==
  /\ stage = "guard"
  /\ \/ line[current] = "allow" /\ At("tool") /\ UNCHANGED bodies
     \/ line[current] \in Verdict \ {"allow"} /\ At("check") /\ UNCHANGED bodies
     \/ Tell("deny", "none")
  /\ UNCHANGED <<line, rows>>

(* The tool is called with the arguments: it returns; it throws, as the    *)
(* shell always does; or it cannot take the arguments apart (null).        *)
RunTool ==
  /\ stage = "tool"
  /\ \/ At("check") /\ bodies' = bodies \cup {current}
     \/ At("failed") /\ bodies' = bodies \cup {current}
     \/ Throw
  /\ UNCHANGED <<line, rows>>

(* Mutant of CheckReceipt: a failure after the tool has run is a denial.   *)
CheckReceipt_Denies ==
  /\ stage = "check"
  /\ \/ "public" \in up /\ Tell(line[current], "authentic")
     \/ IF required THEN Tell("deny", "none") ELSE Tell(line[current], "unavailable")
  /\ UNCHANGED <<line, rows>>

(* verifyPublic() of the receipt, within its timeout.                      *)
CheckReceipt ==
  /\ stage = "check"
  /\ \/ "public" \in up /\ Tell(line[current], "authentic")
     \/ IF required THEN Throw ELSE Tell(line[current], "unavailable")
  /\ UNCHANGED <<line, rows>>

(* The CCS verifier serves a line, also one the guard no longer waits for. *)
VerifyCall(c) ==
  /\ line[c] = "asked" /\ "ccs" \in up
  /\ \/ \E v \in Verdict :
          /\ line' = [line EXCEPT ![c] = v]
          /\ rows' = rows \cup {[call |-> c, verdict |-> v]}
     \/ line' = [line EXCEPT ![c] = "error"] /\ UNCHANGED rows
  /\ UNCHANGED convVars

(* What a service that stops means for the agent's requests.               *)
Losing ==
  /\ line' = [c \in Call |-> IF line[c] = "asked" /\ "ccs" \notin up' THEN "lost" ELSE line[c]]
  /\ UNCHANGED <<convVars, rows>>
-----------------------------------------------------------------------------
Loop == Think \/ AskTool \/ GuardEnds \/ RunTool \/ CheckReceipt

AgentNext ==
  \/ Next /\ Losing
  \/ Loop /\ UNCHANGED vars
  \/ (\E c \in Call : VerifyCall(c)) /\ UNCHANGED vars

allVars == <<vars, agentVars>>

AgentSpec == AgentInit /\ [][AgentNext]_allVars

(* Every step of the loop has a timeout; the guard's is one of inactivity, *)
(* as in RemoteGuard.tla.  The portal is as before.                        *)
FairAgentSpec ==
  /\ AgentSpec
  /\ WF_allVars(Loop /\ UNCHANGED vars)
  /\ \A r \in Request :
       /\ WF_allVars(GiveUp(r) /\ Losing) /\ WF_allVars(Ask(r) /\ Losing)
       /\ WF_allVars(CCSFails(r) /\ Losing) /\ WF_allVars(Check(r) /\ Losing)
-----------------------------------------------------------------------------
(* PROPERTIES                                                              *)

(* The values of the variables.                                            *)
AgentTypeOK ==
  /\ required \in BOOLEAN
  /\ turn \in 0 .. MaxTurns
  /\ stage \in AgentStages
  /\ current \in Nat /\ last \in 0 .. MaxCalls
  /\ line \in [Call -> Answers]
  /\ rows \subseteq [call : Call, verdict : Verdict]
  /\ bodies \subseteq Call
  /\ told \subseteq Message

(* The model is told the truth: a call it believes allowed was executed    *)
(* and one it believes denied was not, whichever service failed; a verdict *)
(* that comes with a receipt is in the database; and no tool body is       *)
(* reached without an allow in the database.                               *)
ModelToldTheTruth ==
  /\ \A m \in told :
       /\ m.allowed <=> m.call \in bodies
       /\ m.tool_executed <=> m.call \in bodies
       /\ m.evidence # "none" => [call |-> m.call, verdict |-> m.verdict] \in rows
  /\ \A c \in bodies : [call |-> c, verdict |-> "allow"] \in rows

(* The model is only ever asked again when all its calls have been         *)
(* answered, and no tool runs before the calls in front of it have been:   *)
(* an exception must end the conversation and may not leave a gap in it.   *)
ConversationComplete ==
  /\ stage = "model" => \A c \in 1 .. last : Told(c)
  /\ \A c \in bodies : \A d \in 1 .. (c - 1) : Told(d)

(* The agent comes to an end, whatever the model, the tools and the        *)
(* services do.                                                            *)
AgentEnds == <>(stage \in {"ended", "failed"})
=============================================================================
