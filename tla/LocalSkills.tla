---------------------------- MODULE LocalSkills ----------------------------
(***************************************************************************)
(* The skills of a machine, as companion_control and the server's import   *)
(* change them.  The daemon handles one request at a time without a pause, *)
(* but may die between any two writes.  A mutation has a durable request   *)
(* under the client's UUID, with the state it found; a removal has a       *)
(* journal of its own with the identity of the directory it is to remove.  *)
(* One name; the second root of the workspace is left out, and so is the   *)
(* retention of 500 entries.                                               *)
(***************************************************************************)
EXTENDS Naturals, FiniteSets

CONSTANTS
  Mutation,    \* client operation identifiers
  Content,     \* hashes of whole, acceptable packages
  Absent,      \* no package
  MaxInode,    \* bound: directories made; a number is not used again
  MaxDeaths    \* bound: crashes

VARIABLES
  package,     \* the directory of the name, or Absent
  local,       \* local_requests
  removal,     \* the removal journal
  aside,       \* .remove-<id> directories
  backup,      \* .previous-<uuid> directories
  daemon,      \* the request being handled
  taken,       \* history: the directory each removal took away
  inodes, deaths

skillVars == <<package, local, removal, aside, backup, daemon, taken, inodes, deaths>>

NoWork == [id |-> Absent, step |-> "ready", new |-> Absent, staged |-> 0, old |-> Absent]
NoRequest == [status |-> "none", kind |-> "none", new |-> Absent, expected |-> Absent, before |-> Absent,
              noted |-> FALSE, result |-> "none"]
NoEntry == [there |-> FALSE, identity |-> 0, complete |-> FALSE]
HashOf(p) == IF p = Absent THEN Absent ELSE p.hash
Directory(hash, ino) == [hash |-> hash, marker |-> hash, ino |-> ino]

ASSUME SkillValues ==
  /\ Absent \notin Mutation /\ MaxInode \in Nat
  /\ \A hash \in Content \cup {Absent}, ino \in 0..MaxInode : Directory(hash, ino) # Absent

SkillInit ==
  /\ package = Absent
  /\ local = [m \in Mutation |-> NoRequest]
  /\ removal = [m \in Mutation |-> NoEntry]
  /\ aside = {} /\ backup = {}
  /\ daemon = NoWork
  /\ taken = [m \in Mutation |-> 0]
  /\ inodes = 0 /\ deaths = 0

Ready == daemon = NoWork
Handles(m, step) == daemon' = [NoWork EXCEPT !.id = m, !.step = step]
Answers(m, result) == daemon' = [NoWork EXCEPT !.id = m, !.step = result]
-----------------------------------------------------------------------------
(***************************************************************************)
(* callLocalSkill.                                                         *)
(***************************************************************************)
\* mutationCheckpoint: what was there, when the request is one that can succeed.
Noted(kind, new, expected) ==
  \/ kind = "install" /\ HashOf(package) \in {Absent, new}
  \/ kind = "update" /\ package # Absent /\ HashOf(package) = expected

MutateSkill(m, kind, new, expected) ==
  /\ Ready /\ local[m] = NoRequest
  /\ (kind = "remove") = (new = Absent)
  /\ (kind = "install") = (expected = Absent)
  /\ local' = [local EXCEPT ![m] = [NoRequest EXCEPT !.status = "pending", !.kind = kind, !.new = new,
                 !.expected = expected, !.before = HashOf(package), !.noted = Noted(kind, new, expected)]]
  /\ Handles(m, "control")
  /\ UNCHANGED <<package, removal, aside, backup, taken, inodes, deaths>>

\* A finished request only repeats its stored result.
\* localRequestInput: with a stored checkpoint the first attempt is reconciled.
Again(m) == IF local[m].noted THEN "reconcile" ELSE "control"
Retry(m) ==
  /\ Ready /\ local[m].status = "pending"
  /\ Handles(m, Again(m))
  /\ UNCHANGED <<package, local, removal, aside, backup, taken, inodes, deaths>>

\* Mutant: whatever is there now is taken for the outcome of the first attempt.
ReconciledUnseen(m) == HashOf(package) # local[m].before
Reconciled(m) == HashOf(package) # local[m].before /\ HashOf(package) = local[m].new

ReconcileSkill(m) ==
  /\ daemon.id = m /\ daemon.step = "reconcile"
  /\ CASE Reconciled(m) -> Answers(m, "succeeded")
       [] HashOf(package) = local[m].before -> Handles(m, "control")
       [] OTHER -> Answers(m, "refused")
  /\ UNCHANGED <<package, local, removal, aside, backup, taken, inodes, deaths>>

StoreResult(m) ==
  /\ daemon.id = m /\ daemon.step \in {"succeeded", "refused"}
  /\ local' = [local EXCEPT ![m].status = "done", ![m].result = daemon.step]
  /\ daemon' = NoWork
  /\ UNCHANGED <<package, removal, aside, backup, taken, inodes, deaths>>
-----------------------------------------------------------------------------
(***************************************************************************)
(* AgentSkills.import, for a request (m) or for the server (m is Absent).  *)
(***************************************************************************)
Refuses(kind, new, expected) ==
  \/ kind = "update" /\ (package = Absent \/ HashOf(package) # expected)
  \/ kind = "install" /\ HashOf(package) \notin {Absent, new}
  \/ kind = "import" /\ package # Absent /\ package.hash # new /\ package.marker # package.hash

Import(m, kind, new, expected) ==
  IF Refuses(kind, new, expected) THEN Answers(m, "refused") /\ UNCHANGED inodes
  ELSE IF HashOf(package) = new THEN Answers(m, "succeeded") /\ UNCHANGED inodes
  ELSE /\ inodes < MaxInode /\ inodes' = inodes + 1
       /\ daemon' = [id |-> m, step |-> IF package = Absent THEN "place" ELSE "displace", new |-> new,
                     staged |-> inodes', old |-> Absent]

ControlImport(m) ==
  /\ daemon.id = m /\ daemon.step = "control" /\ local[m].kind # "remove"
  /\ Import(m, local[m].kind, local[m].new, local[m].expected)
  /\ UNCHANGED <<package, local, removal, aside, backup, taken, deaths>>

\* PUT /skills/import keeps no request; its answer is not modelled.
ServerImport(new) ==
  /\ Ready
  /\ Import(Absent, "import", new, Absent)
  /\ UNCHANGED <<package, local, removal, aside, backup, taken, deaths>>

ServerAnswered ==
  /\ daemon.id = Absent /\ daemon.step \in {"succeeded", "refused"}
  /\ daemon' = NoWork
  /\ UNCHANGED <<package, local, removal, aside, backup, taken, inodes, deaths>>

Displace ==
  /\ daemon.step = "displace"
  /\ backup' = backup \cup {package} /\ package' = Absent
  /\ daemon' = [daemon EXCEPT !.step = "place", !.old = package]
  /\ UNCHANGED <<local, removal, aside, taken, inodes, deaths>>

\* The staged directory is renamed into place and the one it displaced removed; what an import that
\* died has left behind stays.
Place ==
  /\ daemon.step = "place"
  /\ package' = Directory(daemon.new, daemon.staged)
  /\ daemon' = [daemon EXCEPT !.step = "succeeded", !.new = Absent, !.staged = 0, !.old = Absent]
  /\ backup' = backup \ {daemon.old}
  /\ UNCHANGED <<local, removal, aside, taken, inodes, deaths>>
-----------------------------------------------------------------------------
(***************************************************************************)
(* AgentSkills.remove.                                                     *)
(***************************************************************************)
\* Mutant: the directory's identity is not compared.
OtherDirectoryNever(m) == FALSE
OtherDirectory(m) == package # Absent /\ removal[m].identity # package.ino

\* Only the expected content is removed.
Takes(m) ==
  \/ HashOf(package) # local[m].expected /\ Answers(m, "refused")
  \/ HashOf(package) = local[m].expected /\ Handles(m, "take")

\* The journal's entry decides how far an earlier attempt came.
Remove(m) ==
  /\ daemon.id = m /\ daemon.step = "control" /\ local[m].kind = "remove"
  /\ \/ /\ ~removal[m].there
        /\ removal' = [removal EXCEPT ![m] = [there |-> TRUE, complete |-> package = Absent,
                         identity |-> IF package = Absent THEN 0 ELSE package.ino]]
        /\ \/ package = Absent /\ Answers(m, "succeeded")
           \/ package # Absent /\ Takes(m)
     \/ removal[m].there /\ removal[m].complete /\ Answers(m, "succeeded") /\ UNCHANGED removal
     \/ /\ removal[m].there /\ ~removal[m].complete
        /\ \/ OtherDirectory(m) /\ Answers(m, "refused")
           \/ ~OtherDirectory(m) /\ m \in aside /\ Handles(m, "complete")
           \/ m \notin aside /\ package = Absent /\ Answers(m, "succeeded")
           \/ ~OtherDirectory(m) /\ m \notin aside /\ package # Absent /\ Takes(m)
        /\ UNCHANGED removal
  /\ UNCHANGED <<package, local, aside, backup, taken, inodes, deaths>>

TakeAway(m) ==
  /\ daemon.id = m /\ daemon.step = "take"
  /\ taken' = [taken EXCEPT ![m] = package.ino]
  /\ aside' = aside \cup {m} /\ package' = Absent
  /\ Handles(m, "complete")
  /\ UNCHANGED <<local, removal, backup, inodes, deaths>>

CompleteRemoval(m) ==
  /\ daemon.id = m /\ daemon.step = "complete"
  /\ removal' = [removal EXCEPT ![m].complete = TRUE]
  /\ aside' = aside \ {m}
  /\ Answers(m, "succeeded")
  /\ UNCHANGED <<package, local, backup, taken, inodes, deaths>>
-----------------------------------------------------------------------------
\* The agent edits its package by hand; the marker keeps the old hash.
EditSkill(hash) ==
  /\ Ready /\ package # Absent /\ package.hash # hash
  /\ package' = [package EXCEPT !.hash = hash]
  /\ UNCHANGED <<local, removal, aside, backup, daemon, taken, inodes, deaths>>

DaemonDies ==
  /\ ~Ready /\ deaths < MaxDeaths
  /\ deaths' = deaths + 1 /\ daemon' = NoWork
  /\ UNCHANGED <<package, local, removal, aside, backup, taken, inodes>>

SkillNext ==
  \/ \E m \in Mutation, k \in {"install", "update", "remove"}, n, e \in Content \cup {Absent} : MutateSkill(m, k, n, e)
  \/ \E m \in Mutation : Retry(m) \/ ReconcileSkill(m) \/ StoreResult(m) \/ ControlImport(m)
       \/ Remove(m) \/ TakeAway(m) \/ CompleteRemoval(m)
  \/ \E h \in Content : ServerImport(h) \/ EditSkill(h)
  \/ ServerAnswered \/ Displace \/ Place \/ DaemonDies

SkillSpec == SkillInit /\ [][SkillNext]_skillVars
-----------------------------------------------------------------------------
SkillTypeOK ==
  /\ package # Absent => package.hash \in Content /\ package.ino \in 1..MaxInode
  /\ \A m \in Mutation : local[m].status \in {"none", "pending", "done"}
  /\ aside \subseteq Mutation /\ inodes \in 0..MaxInode

\* A removal that was interrupted and is retried never takes a package that was installed
\* in the meantime, even one with the same content.
RemovalSparesReinstallation ==
  \A m \in Mutation : taken[m] \in {0, removal[m].identity}

\* An installation or update is recorded as successful only when the package is what it asked for, however
\* often the daemon died on the way.
SuccessIsTrue ==
  \A m \in Mutation :
    daemon.id = m /\ daemon.step = "succeeded" /\ local[m].kind # "remove" => HashOf(package) = local[m].new
=============================================================================
