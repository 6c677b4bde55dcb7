------------------------------ MODULE RemoteGuard ------------------------------
(***************************************************************************)
(* A governed tool call that asks a verifier over a socket: governRemote() *)
(* and RemoteGuardrailProvider.verify() of remote.js in the agent's one    *)
(* process, and the loop of _handle() (server.py) at the other end.  Calls *)
(* overlap at every await; connections break, the verifier dies and comes  *)
(* back, answers are late.                                                 *)
(*                                                                         *)
(* The parameters of a call are an object the caller keeps: it is turned   *)
(* into JSON when the socket connects and handed to the tool when the      *)
(* verdict is there, and the agent may write to it at any time.  How the   *)
(* verifier reaches its verdict is not modelled here.                      *)
(***************************************************************************)
EXTENDS Naturals

CONSTANTS
  Call,        \* governed calls; their trace_ids
  Object,      \* parameter objects; calls may share one
  Value,       \* what such an object can hold
  Stringify,   \* JSON.stringify() of a value: lossy, and it may throw
  Throws,      \* what Stringify is for a value JSON cannot express
  Verdict,     \* "allow", "deny" and any others
  Nothing,     \* no request, or no answer, is under way
  MaxWrites    \* bound on the writes to parameter objects

ASSUME VerdictAssumption   == {"allow", "deny"} \subseteq Verdict
ASSUME StringifyAssumption == Stringify \in [Value -> Value \cup {Throws}]
ASSUME ThrowsAssumption    == Throws \notin Value
ASSUME NothingAssumption   == Nothing \notin Value \cup Verdict
ASSUME WritesAssumption    == MaxWrites \in Nat

VARIABLES
  heap,       \* heap[o]: what object o holds now
  arg,        \* arg[c]: the object that call c is given
  pc,         \* pc[c]: where governed() is
  verdict,    \* verdict[c]: what verify() resolved to
  request,    \* request[c]: the parameters sent and not yet verified
  answer,     \* answer[c]: the verdict in the line that _handle() wrote
  evidence,   \* admission rows of the verifier's database
  executed,   \* tool runs, with the parameters the tool was given
  writes,
  touched     \* calls under way whose parameters were written to since sent

connection == <<request, answer>>
vars == <<heap, arg, pc, verdict, connection, evidence, executed, writes, touched>>

Steps == {"idle", "connecting", "waiting", "resolved", "running", "ended",
          "refused", "dead"}

Init ==
  /\ heap \in [Object -> Value]
  /\ arg \in [Call -> Object]
  /\ pc = [c \in Call |-> "idle"]
  /\ verdict = [c \in Call |-> "deny"]
  /\ request = [c \in Call |-> Nothing]
  /\ answer = [c \in Call |-> Nothing]
  /\ evidence = {}
  /\ executed = {}
  /\ writes = 0
  /\ touched = {}

Goto(c, s) == pc' = [pc EXCEPT ![c] = s]

(* The promise of verify(c) is resolved: done = true.                      *)
Resolve(c, v) ==
  /\ Goto(c, "resolved")
  /\ verdict' = [verdict EXCEPT ![c] = v]

(* governed() up to the await: a socket of the call's own.                 *)
Govern(c) ==
  /\ pc[c] = "idle"
  /\ Goto(c, "connecting")
  /\ UNCHANGED <<heap, arg, verdict, connection, evidence, executed, writes, touched>>

(* Mutant of Connect: the command is kept in the provider, so that another *)
(* call's may be sent.                                                     *)
Connect_AnyCommand(c) ==
  \E d \in Call :
    /\ pc[c] = "connecting"
    /\ Stringify[heap[arg[d]]] # Throws
    /\ Goto(c, "waiting")
    /\ request' = [request EXCEPT ![c] = Stringify[heap[arg[d]]]]
    /\ UNCHANGED <<heap, arg, verdict, answer, evidence, executed, writes, touched>>

(* The "connect" event writes the request.  An exception in this listener  *)
(* is nobody's to catch: it ends the process and every call in it.         *)
Connect(c) ==
  LET text == Stringify[heap[arg[c]]] IN
  /\ pc[c] = "connecting"
  /\ IF text = Throws
       THEN pc' = [d \in Call |-> "dead"] /\ UNCHANGED request
       ELSE Goto(c, "waiting") /\ request' = [request EXCEPT ![c] = text]
  /\ UNCHANGED <<heap, arg, verdict, answer, evidence, executed, writes, touched>>

(* _handle() serves one line: verify() persists the admission before it    *)
(* returns, and any exception becomes a deny without a receipt.  Whether   *)
(* the client is still there makes no difference.                          *)
Verify(c) ==
  /\ request[c] # Nothing
  /\ \/ \E v \in Verdict :
          /\ evidence' = evidence \cup {[call |-> c, params |-> request[c], verdict |-> v]}
          /\ answer' = [answer EXCEPT ![c] = v]
     \/ /\ answer' = [answer EXCEPT ![c] = "deny"]
        /\ UNCHANGED evidence
  /\ request' = [request EXCEPT ![c] = Nothing]
  /\ UNCHANGED <<heap, arg, pc, verdict, executed, writes, touched>>

(* The "data" event that completes the line.                               *)
Deliver(c) ==
  /\ pc[c] = "waiting"
  /\ answer[c] # Nothing
  /\ Resolve(c, answer[c])
  /\ answer' = [answer EXCEPT ![c] = Nothing]
  /\ UNCHANGED <<heap, arg, request, evidence, executed, writes, touched>>

(* Mutants of Timeout: it only runs once connected; a request that timed   *)
(* out is sent again.                                                      *)
Timeout_OnceConnected(c) ==
  /\ pc[c] = "waiting"
  /\ Resolve(c, "deny")
  /\ UNCHANGED <<heap, arg, connection, evidence, executed, writes, touched>>

Timeout_Retries(c) ==
  /\ pc[c] \in {"connecting", "waiting"}
  /\ Goto(c, "connecting")
  /\ UNCHANGED <<heap, arg, verdict, connection, evidence, executed, writes, touched>>

(* The socket's inactivity timer, which runs from its creation.  What was  *)
(* sent stays sent.                                                        *)
Timeout(c) ==
  /\ pc[c] \in {"connecting", "waiting"}
  /\ Resolve(c, "deny")
  /\ UNCHANGED <<heap, arg, connection, evidence, executed, writes, touched>>

(* Mutant of Break: an unreachable verifier does not stop the call.        *)
Break_FailsOpen(c) ==
  /\ pc[c] \in {"connecting", "waiting"} \/ request[c] # Nothing
  /\ IF pc[c] \in {"connecting", "waiting"}
       THEN Resolve(c, "allow")
       ELSE UNCHANGED <<pc, verdict>>
  /\ request' = [request EXCEPT ![c] = Nothing]
  /\ answer' = [answer EXCEPT ![c] = Nothing]
  /\ UNCHANGED <<heap, arg, evidence, executed, writes, touched>>

(* The connection is refused or breaks, or the verifier dies: request and  *)
(* answer are lost, and "error" or "close" resolves the promise if nothing *)
(* has before.  A line that is not JSON ends here too.                     *)
Break(c) ==
  /\ pc[c] \in {"connecting", "waiting"} \/ request[c] # Nothing
  /\ IF pc[c] \in {"connecting", "waiting"}
       THEN Resolve(c, "deny")
       ELSE UNCHANGED <<pc, verdict>>
  /\ request' = [request EXCEPT ![c] = Nothing]
  /\ answer' = [answer EXCEPT ![c] = Nothing]
  /\ UNCHANGED <<heap, arg, evidence, executed, writes, touched>>

(* governed() goes on: it throws PermissionError or calls the tool.        *)
Resume(c) ==
  /\ pc[c] = "resolved"
  /\ IF verdict[c] = "allow"
       THEN /\ Goto(c, "running")
            /\ executed' = executed \cup {[call |-> c, params |-> heap[arg[c]]]}
       ELSE Goto(c, "refused") /\ UNCHANGED executed
  /\ UNCHANGED <<heap, arg, verdict, connection, evidence, writes, touched>>

(* The tool returns or throws, and governed() with it.                     *)
ToolEnds(c) ==
  /\ pc[c] = "running"
  /\ Goto(c, "ended")
  /\ UNCHANGED <<heap, arg, verdict, connection, evidence, executed, writes, touched>>

(* The agent, or a tool that was given o, writes to it.                    *)
Write(o) ==
  \E v \in Value :
    /\ writes < MaxWrites
    /\ writes' = writes + 1
    /\ heap' = [heap EXCEPT ![o] = v]
    /\ touched' = touched \cup {c \in Call : /\ arg[c] = o
                                            /\ pc[c] \in {"waiting", "resolved"}}
    /\ UNCHANGED <<arg, pc, verdict, connection, evidence, executed>>

Next ==
  \/ \E c \in Call :
       \/ Govern(c) \/ Connect(c) \/ Verify(c) \/ Deliver(c)
       \/ Timeout(c) \/ Break(c) \/ Resume(c) \/ ToolEnds(c)
  \/ \E o \in Object : Write(o)

Spec == Init /\ [][Next]_vars

(* The timer fires and the event loop runs.  The timer is one of           *)
(* inactivity: the network and the verifier may do anything, except send   *)
(* bytes for ever that never complete a line.                              *)
FairSpec == Spec /\ \A c \in Call : WF_vars(Timeout(c)) /\ WF_vars(Resume(c))
-----------------------------------------------------------------------------
(* PROPERTIES                                                              *)

TypeOK ==
  /\ heap \in [Object -> Value]
  /\ arg \in [Call -> Object]
  /\ pc \in [Call -> Steps]
  /\ verdict \in [Call -> Verdict]
  /\ request \in [Call -> Value \cup {Nothing}]
  /\ answer \in [Call -> Verdict \cup {Nothing}]
  /\ evidence \subseteq [call : Call, params : Value, verdict : Verdict]
  /\ executed \subseteq [call : Call, params : Value]
  /\ writes \in 0 .. MaxWrites
  /\ touched \subseteq Call

(* A tool only ever runs on evidence: before it was called, the verifier   *)
(* had persisted an admission of this very call with verdict "allow",      *)
(* whatever broke, timed out or was late.                                  *)
FailClosed ==
  \A x \in executed : \E e \in evidence : e.call = x.call /\ e.verdict = "allow"

(* The database says one thing of a call: there are no two admissions of   *)
(* it, and the tool has not run for it twice.                              *)
OneDecisionPerCall ==
  /\ \A d, e \in evidence : (d.call = e.call) => (d = e)
  /\ \A x, y \in executed : (x.call = y.call) => (x = y)

(* What x was run with is what e admits, as far as JSON can tell.          *)
Binds(e, x) == e.call = x.call => e.params = Stringify[x.params]

(* What ARCHITECTURE.md says: the admission binds the invocation.  It does *)
(* not hold, because remote.js keeps no copy of the parameters.            *)
ExecutedAsAdmitted == \A x \in executed, e \in evidence : Binds(e, x)

(* What does hold: the tool runs with the parameters that were admitted if *)
(* nobody wrote to them between the request and the run, whatever happens  *)
(* to the objects of other calls, before and after.                        *)
ExecutedAsAdmittedUnlessTouched ==
  \A x \in executed, e \in evidence : x.call \notin touched => Binds(e, x)

(* Nobody waits for ever to learn whether the call is let through: not for *)
(* a verifier that is down, nor for one that never answers.                *)
EveryCallDecided ==
  \A c \in Call : (pc[c] = "connecting") ~> (pc[c] \in {"running", "refused", "dead"})
=============================================================================
