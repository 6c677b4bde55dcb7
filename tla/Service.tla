------------------------------- MODULE Service -------------------------------
(***************************************************************************)
(* The verifier as a process: main() of cli.py loads the seed and serve()  *)
(* of server.py opens the socket and then the health port, while commands  *)
(* of admin_cli.py run beside it.  Processes fail and are started again,   *)
(* and a second verifier may be started by mistake.                        *)
(*                                                                         *)
(* What happens to the seed is SeedFile.tla: every step here is one of its *)
(* steps, or leaves the seed alone.                                        *)
(***************************************************************************)
EXTENDS SeedFile

CONSTANTS
  Verifiers,   \* processes that run cli.py; the others run admin_cli.py
  NoProc       \* no process has bound the socket yet

ASSUME VerifiersAssumption == Verifiers \subseteq Proc /\ NoProc \notin Proc

VARIABLES
  transport,   \* --transport, CCS_TRANSPORT
  stage,       \* stage[p]: where p is in serve()
  socket,      \* the process that bound the socket, or its path, last
  signed,      \* seeds that have signed a receipt
  exported     \* seeds whose public key has been printed

serviceVars == <<transport, stage, socket, signed, exported>>

ServiceInit ==
  /\ Init
  /\ transport \in {"unix", "tcp"}
  /\ stage = [p \in Proc |-> "off"]
  /\ socket = NoProc
  /\ signed = {}
  /\ exported = {}

Enter(p, s) == stage' = [stage EXCEPT ![p] = s]

(* main() and the public-key command up to the return of                   *)
(* load_or_create_seed(), or its exception.                                *)
Load(p) == Step(p) /\ UNCHANGED serviceVars

(* An exception leaves main().                                             *)
Leave(p) == Exit(p) /\ Enter(p, "off")

(* Mutant of Listen: a port is taken over, as a path is.                   *)
Listen_TakesOver(p) ==
  /\ pc[p] = "loaded" /\ p \in Verifiers /\ stage[p] = "off"
  /\ Enter(p, "listening") /\ socket' = p
  /\ UNCHANGED <<vars, transport, signed, exported>>

(* The path of a socket is unlinked and bound anew, whoever listens on it; *)
(* a port that is in use is an error.  Connections are served from here.   *)
Listen(p) ==
  /\ pc[p] = "loaded" /\ p \in Verifiers /\ stage[p] = "off"
  /\ IF transport = "tcp" /\ \E q \in Verifiers : stage[q] # "off"
       THEN Leave(p) /\ UNCHANGED socket
       ELSE Enter(p, "listening") /\ socket' = p /\ UNCHANGED vars
  /\ UNCHANGED <<transport, signed, exported>>

(* start_server() of the health port, which only one process can have.     *)
Health(p) ==
  /\ stage[p] = "listening"
  /\ IF \E q \in Verifiers : stage[q] = "serving"
       THEN Leave(p)
       ELSE Enter(p, "serving") /\ UNCHANGED vars
  /\ UNCHANGED <<transport, socket, signed, exported>>

(* A request is served, maybe before the process has its health port.      *)
Sign(p) ==
  /\ stage[p] \in {"listening", "serving"}
  /\ signed' = signed \cup {data[p]}
  /\ UNCHANGED <<vars, transport, stage, socket, exported>>

(* aivf-ccs-admin public-key.                                              *)
Export(p) ==
  /\ pc[p] = "loaded" /\ p \notin Verifiers
  /\ exported' = exported \cup {data[p]}
  /\ Leave(p)
  /\ UNCHANGED <<transport, socket, signed>>

(* The process is killed anywhere.                                         *)
Kill(p) ==
  /\ Fail(p)
  /\ Enter(p, "off")
  /\ UNCHANGED <<transport, socket, signed, exported>>

Progress(p) == Load(p) \/ Listen(p) \/ Health(p) \/ Export(p)

ServiceNext == \E p \in Proc : Progress(p) \/ Sign(p) \/ Kill(p)

ServiceSpec == ServiceInit /\ [][ServiceNext]_<<vars, serviceVars>>

(* Processes run, and are started again when they have ended.              *)
FairServiceSpec == ServiceSpec /\ \A p \in Proc : WF_<<vars, serviceVars>>(Progress(p))
-----------------------------------------------------------------------------
(* PROPERTIES                                                              *)

(* Every receipt verifies under every public key that was ever exported,   *)
(* whoever created the seed, in whichever order the service and the        *)
(* command were started, and whichever process failed half way.            *)
ExportedKeyVerifies == \A s \in signed, k \in exported : s = k

(* Failures end, and then a verifier serves for good, also if another one  *)
(* is started again and again; over TCP that one never takes its port.  A  *)
(* seed file that was left empty is the only thing that can prevent it.    *)
ServiceReturns ==
  \/ <>LeftEmpty
  \/ <>[](\E p \in Verifiers : stage[p] = "serving" /\ (transport = "tcp" => socket = p))
=============================================================================
