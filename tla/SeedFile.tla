------------------------------- MODULE SeedFile -------------------------------
(***************************************************************************)
(* The signing seed on disk: load_or_create_seed() of key_manager.py, run  *)
(* by every process that needs the key: the service, and aivf-ccs-admin    *)
(* public-key.  The file exists before it has its content, and a process   *)
(* may stop anywhere; its supervisor starts it again.                      *)
(***************************************************************************)
EXTENDS Naturals

CONSTANTS
  Proc,          \* processes that load the seed
  Seed,          \* values of secrets.token_bytes(32)
  NoSeed,        \* a process that has none
  NoFile,        \* the file does not exist
  Empty,         \* the file exists and has no content yet
  MaxFailures    \* bound on crashes and failed writes

ASSUME DistinctAssumption ==
  /\ NoSeed \notin Seed
  /\ NoFile \notin Seed
  /\ Empty \notin Seed
  /\ NoFile # Empty
ASSUME BoundAssumption == MaxFailures \in Nat

VARIABLES
  file,       \* the seed file
  pc,         \* pc[p]: where p is in load_or_create_seed()
  data,       \* data[p]: the seed p read or drew
  drawn,      \* seeds drawn so far
  used,       \* seeds load_or_create_seed() has returned: keys that sign
  failures    \* crashes and failed writes so far

vars == <<file, pc, data, drawn, used, failures>>

Steps == {"start", "read", "create", "write", "sync", "loaded", "stopped"}

Init ==
  /\ file = NoFile
  /\ pc = [p \in Proc |-> "start"]
  /\ data = [p \in Proc |-> NoSeed]
  /\ drawn = {}
  /\ used = {}
  /\ failures = 0

(* p goes on to step s with the seed d in hand.                            *)
Goto(p, s, d) ==
  /\ pc' = [pc EXCEPT ![p] = s]
  /\ data' = [data EXCEPT ![p] = d]

(* load_or_create_seed() raises, or its process dies.                      *)
Stop(p) == Goto(p, "stopped", NoSeed)

(* if p.exists(); otherwise a seed is drawn, one nobody drew before.       *)
Exists(p) ==
  /\ pc[p] = "start"
  /\ \/ /\ file # NoFile
        /\ Goto(p, "read", NoSeed)
        /\ UNCHANGED drawn
     \/ \E s \in Seed \ drawn :
          /\ file = NoFile
          /\ Goto(p, "create", s)
          /\ drawn' = drawn \cup {s}
  /\ UNCHANGED <<file, used, failures>>

(* read_bytes(), and ValueError for a length other than 32.                *)
Read(p) ==
  /\ pc[p] = "read"
  /\ IF file \in Seed
       THEN Goto(p, "loaded", file) /\ used' = used \cup {file}
       ELSE Stop(p) /\ UNCHANGED used
  /\ UNCHANGED <<file, drawn, failures>>

(* Mutant of Create: without O_EXCL the file of another process is opened. *)
Create_Shared(p) ==
  /\ pc[p] = "create"
  /\ file' = Empty
  /\ Goto(p, "write", data[p])
  /\ UNCHANGED <<drawn, used, failures>>

(* os.open with O_CREAT | O_EXCL, which raises when the file exists.       *)
Create(p) ==
  /\ pc[p] = "create"
  /\ IF file = NoFile
       THEN file' = Empty /\ Goto(p, "write", data[p])
       ELSE Stop(p) /\ UNCHANGED file
  /\ UNCHANGED <<drawn, used, failures>>

Write(p) ==
  /\ pc[p] = "write"
  /\ file' = data[p]
  /\ Goto(p, "sync", data[p])
  /\ UNCHANGED <<drawn, used, failures>>

(* fsync, close, chmod and return.                                         *)
Sync(p) ==
  /\ pc[p] = "sync"
  /\ Goto(p, "loaded", data[p])
  /\ used' = used \cup {data[p]}
  /\ UNCHANGED <<file, drawn, failures>>

(* The process is killed, or its write or fsync fails: what has been done  *)
(* to the file stays done.                                                 *)
Fail(p) ==
  /\ pc[p] # "stopped"
  /\ failures < MaxFailures
  /\ failures' = failures + 1
  /\ Stop(p)
  /\ UNCHANGED <<file, drawn, used>>

(* The process ends for a reason of its own, the key in its hands.         *)
Exit(p) ==
  /\ pc[p] = "loaded"
  /\ Stop(p)
  /\ UNCHANGED <<file, drawn, used, failures>>

(* restart: unless-stopped; Restart=on-failure.                            *)
Restart(p) ==
  /\ pc[p] = "stopped"
  /\ Goto(p, "start", NoSeed)
  /\ UNCHANGED <<file, drawn, used, failures>>

Step(p) == Exists(p) \/ Read(p) \/ Create(p) \/ Write(p) \/ Sync(p) \/ Restart(p)

Next == \E p \in Proc : Step(p) \/ Fail(p) \/ Exit(p)

Spec == Init /\ [][Next]_vars
-----------------------------------------------------------------------------
(* PROPERTIES                                                              *)

(* The values of the variables.                                            *)
TypeOK ==
  /\ file \in Seed \cup {NoFile, Empty}
  /\ pc \in [Proc -> Steps]
  /\ data \in [Proc -> Seed \cup {NoSeed}]
  /\ drawn \subseteq Seed
  /\ used \subseteq Seed
  /\ failures \in Nat

(* Once a seed has been returned it is the seed in the file, for ever: all *)
(* processes sign with one key, before and after every restart, and the    *)
(* public key that was exported stays the right one.                       *)
SeedKept == \A s \in used : file = s

(* A creation that stopped half way: the file is there, it is empty, and   *)
(* nobody is about to write it.                                            *)
LeftEmpty == file = Empty /\ \A p \in Proc : pc[p] # "write"
=============================================================================
