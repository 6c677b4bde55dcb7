---------------------------- MODULE ServiceProofs ----------------------------
(***************************************************************************)
(* Proofs about SeedFile.tla and Service.tla, for every number of          *)
(* processes, verifiers, commands and failures.  What SeedFile.tla         *)
(* guarantees carries over to Service.tla, because to the seed a verifier  *)
(* and a command are processes that load it.                               *)
(***************************************************************************)
EXTENDS Service, TLAPS

(* One process at a time is between creating the file and having written   *)
(* it, and until it has, the file is empty.                                *)
CreatorInv ==
  /\ \A p \in Proc : pc[p] \in {"create", "write", "sync"} => data[p] \in Seed
  /\ \A p \in Proc : pc[p] = "write" => file = Empty
  /\ \A p, q \in Proc : pc[p] = "write" /\ pc[q] = "write" => p = q
  /\ \A p \in Proc : pc[p] = "sync" => file = data[p]

SeedInv == TypeOK /\ CreatorInv /\ SeedKept

LEMMA SeedInvariant == Spec => []SeedInv
<1> USE DistinctAssumption DEF SeedInv, TypeOK, CreatorInv, SeedKept, Steps
<1>1. Init => SeedInv
  BY BoundAssumption DEF Init
<1>2. SeedInv /\ [Next]_vars => SeedInv'
  <2> SUFFICES ASSUME SeedInv, [Next]_vars PROVE SeedInv'
    OBVIOUS
  <2>1. CASE UNCHANGED vars
    BY <2>1 DEF vars
  <2>2. ASSUME NEW p \in Proc, Exists(p) PROVE SeedInv'
    BY <2>2 DEF Exists, Goto
  <2>3. ASSUME NEW p \in Proc, Read(p) PROVE SeedInv'
    BY <2>3 DEF Read, Stop, Goto
  <2>4. ASSUME NEW p \in Proc, Create(p) PROVE SeedInv'
    BY <2>4 DEF Create, Stop, Goto
  <2>5. ASSUME NEW p \in Proc, Write(p) PROVE SeedInv'
    BY <2>5 DEF Write, Goto
  <2>6. ASSUME NEW p \in Proc, Sync(p) PROVE SeedInv'
    BY <2>6 DEF Sync, Goto
  <2>7. ASSUME NEW p \in Proc, Fail(p) PROVE SeedInv'
    BY <2>7 DEF Fail, Stop, Goto
  <2>8. ASSUME NEW p \in Proc, Restart(p) PROVE SeedInv'
    BY <2>8 DEF Restart, Goto
  <2>9. ASSUME NEW p \in Proc, Exit(p) PROVE SeedInv'
    BY <2>9 DEF Exit, Stop, Goto
  <2> QED
    BY <2>1, <2>2, <2>3, <2>4, <2>5, <2>6, <2>7, <2>8, <2>9 DEF Next, Step
<1> QED BY <1>1, <1>2, PTL DEF Spec

(* A seed that has been returned stays the seed in the file.               *)
THEOREM SeedNeverReplaced == Spec => []SeedKept
<1>1. SeedInv => SeedKept
  BY DEF SeedInv
<1> QED BY <1>1, SeedInvariant, PTL

(* So no two processes ever sign with different keys.                      *)
THEOREM OneKey == Spec => [](\A s, t \in used : s = t)
<1>1. SeedKept => \A s, t \in used : s = t
  BY DEF SeedKept
<1> QED BY <1>1, SeedNeverReplaced, PTL
-----------------------------------------------------------------------------
(* THE SERVICE                                                             *)

LEMMA ServiceStep == ServiceNext => [Next]_vars
<1> SUFFICES ASSUME NEW p \in Proc, Progress(p) \/ Sign(p) \/ Kill(p)
             PROVE  [Next]_vars
  BY DEF ServiceNext
<1>1. CASE Load(p)
  BY <1>1 DEF Load, Next
<1>2. CASE Listen(p)
  BY <1>2 DEF Listen, Leave, Next
<1>3. CASE Health(p)
  BY <1>3 DEF Health, Leave, Next
<1>4. CASE Export(p)
  BY <1>4 DEF Export, Leave, Next
<1>5. CASE Sign(p)
  BY <1>5 DEF Sign
<1>6. CASE Kill(p)
  BY <1>6 DEF Kill, Next
<1> QED BY <1>1, <1>2, <1>3, <1>4, <1>5, <1>6 DEF Progress

(* The verifiers and the commands are processes as SeedFile.tla has them.  *)
THEOREM SeedFileImplemented == ServiceSpec => Spec
<1>1. ServiceInit => Init
  BY DEF ServiceInit
<1>2. [ServiceNext]_<<vars, serviceVars>> => [Next]_vars
  BY ServiceStep
<1> QED BY <1>1, <1>2, PTL DEF ServiceSpec, Spec

(* A process with the key in its hands was given it by                     *)
(* load_or_create_seed(), and only such a process signs or exports.        *)
KeyInv ==
  /\ stage \in [Proc -> {"off", "listening", "serving"}]
  /\ \A p \in Proc : pc[p] = "loaded" => data[p] \in used
  /\ \A p \in Proc : stage[p] # "off" => pc[p] = "loaded"
  /\ signed \subseteq used
  /\ exported \subseteq used

LEMMA KeyInvariant == ServiceSpec => []KeyInv
<1>1. ServiceInit => KeyInv
  BY DEF ServiceInit, Init, KeyInv
<1>2. TypeOK /\ KeyInv /\ [ServiceNext]_<<vars, serviceVars>> => KeyInv'
  <2> SUFFICES ASSUME TypeOK, KeyInv, [ServiceNext]_<<vars, serviceVars>> PROVE KeyInv'
    OBVIOUS
  <2> USE DEF TypeOK, KeyInv, vars, serviceVars
  <2>1. CASE UNCHANGED <<vars, serviceVars>>
    BY <2>1
  <2>2. ASSUME NEW p \in Proc, Load(p) PROVE KeyInv'
    BY <2>2 DEF Load, Step, Exists, Read, Create, Write, Sync, Restart, Stop, Goto
  <2>3. ASSUME NEW p \in Proc, Listen(p) PROVE KeyInv'
    BY <2>3 DEF Listen, Leave, Exit, Stop, Goto, Enter
  <2>4. ASSUME NEW p \in Proc, Health(p) PROVE KeyInv'
    BY <2>4 DEF Health, Leave, Exit, Stop, Goto, Enter
  <2>5. ASSUME NEW p \in Proc, Export(p) PROVE KeyInv'
    BY <2>5 DEF Export, Leave, Exit, Stop, Goto, Enter
  <2>6. ASSUME NEW p \in Proc, Sign(p) PROVE KeyInv'
    BY <2>6 DEF Sign
  <2>7. ASSUME NEW p \in Proc, Kill(p) PROVE KeyInv'
    BY <2>7 DEF Kill, Fail, Stop, Goto, Enter
  <2> QED
    BY <2>1, <2>2, <2>3, <2>4, <2>5, <2>6, <2>7 DEF ServiceNext, Progress
<1>3. ServiceSpec => []TypeOK
  <2>1. SeedInv => TypeOK
    BY DEF SeedInv
  <2> QED BY <2>1, SeedFileImplemented, SeedInvariant, PTL
<1> QED BY <1>1, <1>2, <1>3, PTL DEF ServiceSpec

(* A receipt verifies under every public key that was ever exported.       *)
THEOREM KeysAgree == ServiceSpec => []ExportedKeyVerifies
<1>1. KeyInv /\ (\A s, t \in used : s = t) => ExportedKeyVerifies
  BY DEF KeyInv, ExportedKeyVerifies
<1> QED BY <1>1, KeyInvariant, SeedFileImplemented, OneKey, PTL
=============================================================================
