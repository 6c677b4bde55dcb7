--------------------------- MODULE RemoteGuardProofs ---------------------------
(***************************************************************************)
(* Proofs about RemoteGuard: whatever the number of calls and however the  *)
(* connections behave, the remote guard fails closed.                      *)
(***************************************************************************)
EXTENDS RemoteGuard, TLAPS

(* Every variable keeps its type.                                          *)
THEOREM TypeCorrect == Spec => []TypeOK
<1> USE VerdictAssumption, StringifyAssumption, WritesAssumption
<1>1. Init => TypeOK
  BY DEF Init, TypeOK, Steps
<1>2. TypeOK /\ [Next]_vars => TypeOK'
  <2> SUFFICES ASSUME TypeOK, [Next]_vars PROVE TypeOK'
    OBVIOUS
  <2> USE DEF TypeOK, Steps
  <2>1. ASSUME NEW c \in Call, Govern(c) PROVE TypeOK'
    BY <2>1 DEF Govern, Goto, connection
  <2>2. ASSUME NEW c \in Call, Connect(c) PROVE TypeOK'
    <3>1. CASE Stringify[heap[arg[c]]] = Throws
      BY <2>2, <3>1 DEF Connect, Goto
    <3>2. CASE Stringify[heap[arg[c]]] # Throws
      BY <2>2, <3>2 DEF Connect, Goto
    <3> QED  BY <3>1, <3>2
  <2>3. ASSUME NEW c \in Call, Verify(c) PROVE TypeOK'
    BY <2>3 DEF Verify
  <2>4. ASSUME NEW c \in Call, Deliver(c) PROVE TypeOK'
    BY <2>4 DEF Deliver, Resolve, Goto
  <2>5. ASSUME NEW c \in Call, Timeout(c) PROVE TypeOK'
    BY <2>5 DEF Timeout, Resolve, Goto, connection
  <2>6. ASSUME NEW c \in Call, Break(c) PROVE TypeOK'
    BY <2>6 DEF Break, Resolve, Goto
  <2>7. ASSUME NEW c \in Call, Resume(c) PROVE TypeOK'
    BY <2>7 DEF Resume, Goto, connection
  <2>8. ASSUME NEW c \in Call, ToolEnds(c) PROVE TypeOK'
    BY <2>8 DEF ToolEnds, Goto, connection
  <2>9. ASSUME NEW o \in Object, Write(o) PROVE TypeOK'
    BY <2>9 DEF Write, connection
  <2>10. CASE UNCHANGED vars
    BY <2>10 DEF vars, connection
  <2> QED
    BY <2>1, <2>2, <2>3, <2>4, <2>5, <2>6, <2>7, <2>8, <2>9, <2>10 DEF Next
<1> QED
  BY <1>1, <1>2, PTL DEF Spec

-----------------------------------------------------------------------------
(* FAIL CLOSED                                                             *)

(* c was admitted.                                                         *)
Allowed(c) == \E e \in evidence : e.call = c /\ e.verdict = "allow"

(* The word "allow" never exists without an admission, be it in the line   *)
(* on its way back or in the resolved promise; and only it lets a tool run.*)
GateInv ==
  /\ \A c \in Call : answer[c] = "allow" => Allowed(c)
  /\ \A c \in Call : verdict[c] = "allow" => Allowed(c)
  /\ FailClosed

(* The word "allow" is backed by an admission at every step of a call.     *)
LEMMA GateInvariant == Spec => []GateInv
<1>1. Init => GateInv
  BY NothingAssumption, VerdictAssumption DEF Init, GateInv, FailClosed
<1>2. TypeOK /\ GateInv /\ [Next]_vars => GateInv'
  <2> SUFFICES ASSUME TypeOK, GateInv, [Next]_vars PROVE GateInv'
    OBVIOUS
  <2>0. evidence \subseteq evidence' => \A c \in Call : Allowed(c) => Allowed(c)'
    BY DEF Allowed
  <2> USE DEF GateInv, TypeOK, FailClosed
  <2>1. ASSUME NEW c \in Call, Govern(c) PROVE GateInv'
    BY <2>1 DEF Govern, connection, Allowed
  <2>2. ASSUME NEW c \in Call, Connect(c) PROVE GateInv'
    BY <2>2 DEF Connect, Allowed
  <2>3. ASSUME NEW c \in Call, Verify(c) PROVE GateInv'
    <3>1. UNCHANGED <<verdict, executed>> /\ evidence \subseteq evidence'
      BY <2>3 DEF Verify
    <3>2. \A d \in Call : answer'[d] = "allow" => Allowed(d)'
      <4> SUFFICES ASSUME NEW d \in Call, answer'[d] = "allow" PROVE Allowed(d)'
        OBVIOUS
      <4>1. CASE answer[d] = "allow"
        BY <4>1, <3>1, <2>0
      <4>2. CASE answer[d] # "allow"
        <5>1. d = c
          BY <2>3, <4>2 DEF Verify
        <5>2. [call |-> c, params |-> request[c], verdict |-> "allow"] \in evidence'
          BY <2>3, <5>1 DEF Verify
        <5> QED  BY <5>1, <5>2 DEF Allowed
      <4> QED  BY <4>1, <4>2
    <3>3. FailClosed'
      BY <3>1
    <3> QED  BY <3>1, <3>2, <3>3, <2>0
  <2>4. ASSUME NEW c \in Call, Deliver(c) PROVE GateInv'
    BY <2>4, NothingAssumption, VerdictAssumption DEF Deliver, Resolve, Allowed
  <2>5. ASSUME NEW c \in Call, Timeout(c) PROVE GateInv'
    BY <2>5 DEF Timeout, Resolve, connection, Allowed
  <2>6. ASSUME NEW c \in Call, Break(c) PROVE GateInv'
    BY <2>6, NothingAssumption, VerdictAssumption DEF Break, Resolve, Allowed
  <2>7. ASSUME NEW c \in Call, Resume(c) PROVE GateInv'
    BY <2>7 DEF Resume, connection, Allowed
  <2>8. ASSUME NEW c \in Call, ToolEnds(c) PROVE GateInv'
    BY <2>8 DEF ToolEnds, connection, Allowed
  <2>9. ASSUME NEW o \in Object, Write(o) PROVE GateInv'
    BY <2>9 DEF Write, connection, Allowed
  <2>10. CASE UNCHANGED vars
    BY <2>10 DEF vars, connection, Allowed
  <2> QED
    BY <2>1, <2>2, <2>3, <2>4, <2>5, <2>6, <2>7, <2>8, <2>9, <2>10 DEF Next
<1> QED
  BY <1>1, <1>2, TypeCorrect, PTL DEF Spec

(* No tool runs without a persisted admission of verdict "allow".          *)
THEOREM RunsOnEvidence == Spec => []FailClosed
<1>1. GateInv => FailClosed
  BY DEF GateInv
<1> QED
  BY <1>1, GateInvariant, PTL

-----------------------------------------------------------------------------
(* ONE DECISION                                                            *)

Unsent(c) == pc[c] \in {"idle", "connecting"}

Undecided(c) == \A e \in evidence : e.call # c

Unexecuted(c) == \A x \in executed : x.call # c

(* What has not been sent is not under way, what is under way has not been *)
(* verified, and what has not been let through has not run.                *)
OnceInv ==
  /\ \A c \in Call : Unsent(c) => request[c] = Nothing /\ Undecided(c)
  /\ \A c \in Call : request[c] # Nothing => Undecided(c)
  /\ \A c \in Call : Unsent(c) \/ pc[c] \in {"waiting", "resolved"} => Unexecuted(c)
  /\ OneDecisionPerCall

(* A call is sent, verified and run in this order, each at most once.      *)
LEMMA OnceInvariant == Spec => []OnceInv
<1>1. Init => OnceInv
  BY DEF Init, OnceInv, OneDecisionPerCall, Undecided, Unexecuted
<1>2. TypeOK /\ OnceInv /\ [Next]_vars => OnceInv'
  <2> SUFFICES ASSUME TypeOK, OnceInv, [Next]_vars PROVE OnceInv'
    OBVIOUS
  <2> USE DEF OnceInv, TypeOK, OneDecisionPerCall, Unsent, Undecided, Unexecuted
  <2>1. ASSUME NEW c \in Call, Govern(c) PROVE OnceInv'
    BY <2>1 DEF Govern, Goto, connection
  <2>2. ASSUME NEW c \in Call, Connect(c) PROVE OnceInv'
    <3>1. CASE Stringify[heap[arg[c]]] = Throws
      BY <2>2, <3>1 DEF Connect
    <3>2. CASE Stringify[heap[arg[c]]] # Throws
      BY <2>2, <3>2 DEF Connect, Goto
    <3> QED  BY <3>1, <3>2
  <2>3. ASSUME NEW c \in Call, Verify(c) PROVE OnceInv'
    <3>1. Undecided(c) /\ ~Unsent(c) /\ request' = [request EXCEPT ![c] = Nothing]
          /\ UNCHANGED <<pc, executed>>
      BY <2>3 DEF Verify
    <3>2. CASE UNCHANGED evidence
      BY <3>1, <3>2
    <3>3. ASSUME NEW v \in Verdict,
                 evidence' = evidence \cup {[call |-> c, params |-> request[c], verdict |-> v]}
          PROVE OnceInv'
      BY <3>1, <3>3
    <3> QED  BY <2>3, <3>2, <3>3 DEF Verify
  <2>4. ASSUME NEW c \in Call, Deliver(c) PROVE OnceInv'
    BY <2>4 DEF Deliver, Resolve, Goto
  <2>5. ASSUME NEW c \in Call, Timeout(c) PROVE OnceInv'
    BY <2>5 DEF Timeout, Resolve, Goto, connection
  <2>6. ASSUME NEW c \in Call, Break(c) PROVE OnceInv'
    BY <2>6 DEF Break, Resolve, Goto
  <2>7. ASSUME NEW c \in Call, Resume(c) PROVE OnceInv'
    BY <2>7 DEF Resume, Goto, connection
  <2>8. ASSUME NEW c \in Call, ToolEnds(c) PROVE OnceInv'
    BY <2>8 DEF ToolEnds, Goto, connection
  <2>9. ASSUME NEW o \in Object, Write(o) PROVE OnceInv'
    BY <2>9 DEF Write, connection
  <2>10. CASE UNCHANGED vars
    BY <2>10 DEF vars, connection
  <2> QED
    BY <2>1, <2>2, <2>3, <2>4, <2>5, <2>6, <2>7, <2>8, <2>9, <2>10 DEF Next
<1> QED
  BY <1>1, <1>2, TypeCorrect, PTL DEF Spec

(* A call is admitted at most once and its tool runs at most once.         *)
THEOREM DecidedOnce == Spec => []OneDecisionPerCall
<1>1. OnceInv => OneDecisionPerCall
  BY DEF OnceInv
<1> QED
  BY <1>1, OnceInvariant, PTL

-----------------------------------------------------------------------------
(* BINDING                                                                 *)

(* c has sent its parameters, has not run yet, and nobody has written to   *)
(* them since.                                                             *)
Intact(c) == c \notin touched /\ pc[c] \in {"waiting", "resolved"}

(* What an intact call sent, and what was admitted of it, is what its      *)
(* object still holds; and a call that has run, ran with what was admitted.*)
BindInv ==
  /\ \A c \in Call : Intact(c) /\ request[c] # Nothing
                      => request[c] = Stringify[heap[arg[c]]]
  /\ \A e \in evidence : Intact(e.call) => e.params = Stringify[heap[arg[e.call]]]
  /\ ExecutedAsAdmittedUnlessTouched

(* The object of an intact call holds what was sent and what was admitted. *)
LEMMA BindInvariant == Spec => []BindInv
<1>1. Init => BindInv
  BY DEF Init, BindInv, Intact, ExecutedAsAdmittedUnlessTouched
<1>2. TypeOK /\ GateInv /\ OnceInv /\ BindInv /\ [Next]_vars => BindInv'
  <2> SUFFICES ASSUME TypeOK, GateInv, OnceInv, BindInv, [Next]_vars PROVE BindInv'
    OBVIOUS
  <2> USE DEF BindInv, TypeOK, Intact, ExecutedAsAdmittedUnlessTouched, Binds
  <2>1. ASSUME NEW c \in Call, Govern(c) PROVE BindInv'
    BY <2>1 DEF Govern, Goto, connection
  <2>2. ASSUME NEW c \in Call, Connect(c) PROVE BindInv'
    <3>1. \A e \in evidence : e.call # c
      BY <2>2 DEF Connect, OnceInv, Unsent, Undecided
    <3>2. CASE Stringify[heap[arg[c]]] = Throws
      BY <2>2, <3>2 DEF Connect
    <3>3. CASE Stringify[heap[arg[c]]] # Throws
      BY <2>2, <3>1, <3>3 DEF Connect, Goto
    <3> QED  BY <3>2, <3>3
  <2>3. ASSUME NEW c \in Call, Verify(c) PROVE BindInv'
    <3>1. \A x \in executed : x.call # c
      BY <2>3 DEF Verify, GateInv, FailClosed, OnceInv, Undecided
    <3>2. CASE UNCHANGED evidence
      BY <2>3, <3>2 DEF Verify
    <3>3. ASSUME NEW v \in Verdict,
                 evidence' = evidence \cup {[call |-> c, params |-> request[c], verdict |-> v]}
          PROVE BindInv'
      BY <2>3, <3>1, <3>3 DEF Verify
    <3> QED  BY <2>3, <3>2, <3>3 DEF Verify
  <2>4. ASSUME NEW c \in Call, Deliver(c) PROVE BindInv'
    BY <2>4 DEF Deliver, Resolve, Goto
  <2>5. ASSUME NEW c \in Call, Timeout(c) PROVE BindInv'
    <3>1. pc[c] = "connecting" => request[c] = Nothing /\ \A e \in evidence : e.call # c
      BY DEF OnceInv, Unsent, Undecided
    <3> QED  BY <2>5, <3>1 DEF Timeout, Resolve, Goto, connection
  <2>6. ASSUME NEW c \in Call, Break(c) PROVE BindInv'
    <3>1. pc[c] = "connecting" => \A e \in evidence : e.call # c
      BY DEF OnceInv, Unsent, Undecided
    <3> QED  BY <2>6, <3>1 DEF Break, Resolve, Goto
  <2>7. ASSUME NEW c \in Call, Resume(c) PROVE BindInv'
    BY <2>7 DEF Resume, Goto, connection
  <2>8. ASSUME NEW c \in Call, ToolEnds(c) PROVE BindInv'
    BY <2>8 DEF ToolEnds, Goto, connection
  <2>9. ASSUME NEW o \in Object, Write(o) PROVE BindInv'
    <3>1. \A c \in Call : Intact(c)' => Intact(c) /\ arg[c] # o
      BY <2>9 DEF Write
    <3>2. UNCHANGED <<arg, request, evidence, executed>> /\ touched \subseteq touched'
      BY <2>9 DEF Write, connection
    <3>3. \A c \in Call : arg[c] # o => heap'[arg[c]] = heap[arg[c]]
      BY <2>9 DEF Write
    <3> QED  BY <3>1, <3>2, <3>3
  <2>10. CASE UNCHANGED vars
    BY <2>10 DEF vars, connection
  <2> QED
    BY <2>1, <2>2, <2>3, <2>4, <2>5, <2>6, <2>7, <2>8, <2>9, <2>10 DEF Next
<1> QED
  BY <1>1, <1>2, TypeCorrect, GateInvariant, OnceInvariant, PTL DEF Spec

(* The tool runs with the parameters that were admitted, unless the agent  *)
(* or another tool wrote to them while the call was waiting.               *)
THEOREM BoundExecution == Spec => []ExecutedAsAdmittedUnlessTouched
<1>1. BindInv => ExecutedAsAdmittedUnlessTouched
  BY DEF BindInv
<1> QED
  BY <1>1, BindInvariant, PTL
=============================================================================
