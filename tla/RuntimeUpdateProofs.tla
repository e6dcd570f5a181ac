------------------------ MODULE RuntimeUpdateProofs ------------------------
(***************************************************************************)
(* Theorems about the runtime updates of a Companion.  The inductive       *)
(* invariant IInv has two halves.  BoxInv is the installer's: what its     *)
(* place in the program says of the directories, the journal and the       *)
(* service, and that at most one journal holds the installed files.        *)
(* RowsInv is the executors': what the rows of PostgreSQL, the commands on *)
(* their way and the memory of an executor that lost its lease still say   *)
(* truly of the journals.  BoxMoves is all that the second half needs to   *)
(* know of a step of the first.  KeptInv, for the old files, rests on both.*)
(***************************************************************************)
EXTENDS RuntimeUpdate, TLAPS

-----------------------------------------------------------------------------
\* The vocabulary: a journal on which the installed files depend; one whose files are being taken
\* back on request; one whose verdict no later step forgets.
Held(u) == journal[u].state \in {"pending", "succeeded", "failed"}
BackPhases == {"rollback_stop_pending", "rollback_copy_pending", "rollback_swap_pending"}
BackPlaces == {"rr_copy", "rr_stop", "rr_swap", "rr_start"}
TakenBack(u) == journal[u].state = "pending" /\ journal[u].phase \in BackPhases
Won(u) ==
  \/ journal[u].state \in {"succeeded", "rolled_back"}
  \/ TakenBack(u) /\ (proc.u = u => proc.at \in {"read"} \cup BackPlaces)

\* What a journal says of the files and of the service.
JournalOK(u) ==
  /\ journal[u].state = "none" <=> journal[u] = NoJournal
  /\ journal[u] # NoJournal => journal[u].old = "old" /\ journal[u].wasActive
  /\ journal[u].state = "succeeded" => installed = "new" /\ daemon.unit = "active"
  /\ retained[u] # "torn"
  /\ journal[u].state \in {"pending", "succeeded"} /\ installed = "new" => candidate[u] # "torn"
  /\ spare[u] # "none" => TakenBack(u) \/ journal[u].state = "rolled_back"

\* An installer past the reading of its journal.
AtWork == proc.at \notin {"idle", "read"}
OneHeld == \A u, v \in Update : Held(u) /\ Held(v) => u = v
Resting == (\A u \in Update : ~Held(u)) => installed = "old" /\ daemon.unit = "active"
DaemonOK ==
  /\ daemon.unit # "stopped" => daemon.exe = installed
  /\ daemon.unit = "frozen" => /\ installed = "old"
                               /\ \E u \in Update : journal[u].state = "pending" /\ MayBeFrozen(journal[u])

\* What the place of the installer says of them: the facts of its next effect.
PlaceOK ==
  /\ AtWork => journal[id].state = "pending"
  /\ AtWork /\ proc.at \notin BackPlaces => spare[id] = "none" /\ proc.cmd # "rollback"
  /\ proc.at \in {"preflight", "copy", "ready", "freeze"} => installed = "old" /\ daemon.unit = "active"
  /\ proc.at \in {"frozen", "stop"} => installed = "old" /\ daemon.unit = "frozen"
  /\ proc.at = "freeze" => journal[id].phase = "freeze_pending"
  /\ proc.at \in {"ready", "freeze", "frozen", "stop", "exchange"} => candidate[id] = "new"
  /\ proc.at = "exchange" => installed = "old" /\ daemon.unit = "stopped"
  /\ proc.at = "rename" => candidate[id] # "torn"
  /\ proc.at \in {"rename", "start"} => installed = "new" /\ daemon.unit = "stopped"
  /\ proc.at = "verify" => installed = "new" /\ daemon.unit = "active"
  /\ proc.at \in {"rb_stop", "rb_swap", "rb_start"} => daemon.unit # "frozen"
  /\ proc.at \in {"rb_stop", "rb_swap"} => installed = "new" /\ retained[id] # "none"
  /\ proc.at \in {"rb_swap", "rr_swap"} => daemon.unit = "stopped"
  /\ proc.at = "rc_start" => installed = "new"
  /\ proc.at \in BackPlaces => TakenBack(id) /\ proc.cmd = "rollback"
  /\ proc.at \in {"rr_copy", "rr_stop", "rr_swap"} => installed = "new"
  /\ proc.at \in {"rr_stop", "rr_swap"} => spare[id] = "old"
  /\ proc.at = "rr_start" => installed = "old" /\ daemon.unit = "stopped"

BoxInv == InstallerTypeOK /\ (\A u \in Update : JournalOK(u)) /\ OneHeld /\ Resting /\ DaemonOK /\ PlaceOK

\* A result an executor holds is true of the journal now.
Fits(result, u) ==
  /\ result = "succeeded" => Won(u)
  /\ result \in {"deferred", "rolled_back"} => journal[u].state = result

\* An apply that holds the lock and has not read the journal yet.
Reading(u) == proc.at = "read" /\ proc.cmd = "apply" /\ proc.u = u

\* What a step of the installer at work does to the rest.
BoxMoves ==
  /\ \/ proc' \in {Idle, proc}
     \/ /\ proc'.u = id /\ proc'.owner = proc.owner
        /\ proc'.at = "read" => proc'.cmd = "rollback"
  /\ \A u \in Update : proc'.u = u /\ proc'.cmd = "rollback" => Won(u)' \/ (proc.u = u /\ proc.cmd = "rollback")
  /\ \A u \in Update : u # id => journal'[u] = journal[u]
  /\ \A u \in Update : journal[u] = NoJournal /\ (~Reading(u) \/ proc' = proc) => journal'[u] = NoJournal
  /\ \A u \in Update : Won(u) => Won(u)'
  /\ \A u \in Update : journal[u].state \in {"deferred", "rolled_back"} => journal'[u].state = journal[u].state
  /\ \A c \in Caller : answer'[c] = answer[c] \/ (proc.owner = c /\ proc' = Idle)
  /\ \A c \in Caller, r \in Results, u \in Update : answer'[c] = r /\ answer[c] # r /\ proc.u = u => Fits(r, u)'
  /\ daemon'.run => daemon.run

JournalRecord == [state : States, phase : Phases, old : {"old", "new"}, wasActive : BOOLEAN, frozen : BOOLEAN]
ProcRecord == [cmd : Commands, u : Update, at : Places \ {"idle"}, owner : Caller \cup {Nobody}]
DaemonRecord == [unit : {"active", "frozen", "stopped"}, exe : {"none", "old", "new"}, drained : BOOLEAN, run : BOOLEAN]

LEMMA Working ==
  ASSUME InstallerTypeOK, proc.at # "idle"
  PROVE  proc \in ProcRecord /\ id \in Update /\ proc # Idle
BY DEF InstallerTypeOK, Idle, ProcRecord, id, Places

LEMMA Persisted ==
  ASSUME InstallerTypeOK, proc.at # "idle", journal[id] \in JournalRecord,
         NEW phase \in Phases, NEW state \in States, Persist(phase, state)
  PROVE  /\ journal' \in [Update -> JournalRecord \cup {NoJournal}]
         /\ journal'[id] \in JournalRecord
         /\ journal'[id].state = state /\ journal'[id].phase = phase
         /\ journal'[id].old = journal[id].old /\ journal'[id].wasActive = journal[id].wasActive
         /\ journal'[id].frozen = journal[id].frozen
         /\ \A v \in Update : v # id => journal'[v] = journal[v]
<1>0. id \in Update
  BY Working
<1>2. journal' = [journal EXCEPT ![id] = [journal[id] EXCEPT !.phase = phase, !.state = state]]
  BY DEF Persist
<1> DEFINE r == [journal[id] EXCEPT !.phase = phase, !.state = state]
<1>3. /\ r \in JournalRecord /\ r.state = state /\ r.phase = phase
      /\ r.old = journal[id].old /\ r.wasActive = journal[id].wasActive /\ r.frozen = journal[id].frozen
  BY DEF JournalRecord
<1>4. journal' = [journal EXCEPT ![id] = r]
  BY <1>2
<1> HIDE DEF r
<1>5. journal'[id] = r /\ \A v \in Update : v # id => journal'[v] = journal[v]
  BY <1>0, <1>4 DEF InstallerTypeOK
<1>6. journal' \in [Update -> JournalRecord \cup {NoJournal}]
  BY <1>0, <1>3, <1>4 DEF InstallerTypeOK, JournalRecord
<1> QED
  BY <1>3, <1>5, <1>6

LEMMA Going ==
  ASSUME InstallerTypeOK, proc.at # "idle", NEW place \in Places \ {"idle"}, At(place)
  PROVE  /\ proc' \in ProcRecord /\ proc'.at = place /\ proc'.cmd = proc.cmd
         /\ proc'.u = proc.u /\ proc'.owner = proc.owner /\ proc' # Idle
BY Working DEF At, ProcRecord, Places, Idle

LEMMA Ending ==
  ASSUME InstallerTypeOK, NEW result \in Results, End(result)
  PROVE  /\ proc' = Idle /\ proc'.at = "idle" /\ proc'.u = Nobody /\ proc'.cmd = "none"
         /\ answer' \in [Caller -> Results]
         /\ \A c \in Caller : answer'[c] = IF proc.owner = c THEN result ELSE answer[c]
BY DEF End, InstallerTypeOK, Idle

LEMMA Units ==
  ASSUME InstallerTypeOK
  PROVE  /\ daemon \in DaemonRecord
         /\ Start => /\ daemon' \in DaemonRecord
                     /\ daemon'.run => daemon.run
                     /\ daemon.unit = "stopped" => daemon'.unit = "active" /\ daemon'.exe = installed
                     /\ daemon.unit # "stopped" => daemon' = daemon
         /\ Stop => daemon' \in DaemonRecord /\ daemon'.unit = "stopped" /\ ~daemon'.run
         /\ Thaw => /\ daemon' \in DaemonRecord /\ (daemon'.run => daemon.run) /\ daemon'.exe = daemon.exe
                    /\ daemon.unit = "frozen" => daemon'.unit = "active"
                    /\ daemon.unit # "frozen" => daemon' = daemon
<1>1. daemon \in DaemonRecord
  BY DEF InstallerTypeOK, DaemonRecord
<1>2. Running \in DaemonRecord /\ Stopped \in DaemonRecord
  BY DEF InstallerTypeOK, DaemonRecord, Running, Stopped
<1>3. daemon.unit = "frozen" => [daemon EXCEPT !.unit = "active"] \in DaemonRecord
  BY <1>1 DEF DaemonRecord
<1> QED
  BY <1>1, <1>2, <1>3 DEF Start, Stop, Thaw, Running, Stopped, DaemonRecord

\* What remains to be shown of a step at work: what it leaves of its own update and of the daemon.
Left ==
  /\ InstallerTypeOK
  /\ PlaceOK
  /\ daemon.unit # "stopped" => daemon.exe = installed

LEMMA LocalSuffices ==
  ASSUME BoxInv, AtWork, Left', NEW i \in Update, i = proc.u,
         \A u \in Update : u # i => /\ journal'[u] = journal[u] /\ retained'[u] = retained[u]
                                   /\ spare'[u] = spare[u],
         journal'[i].state # "none",
         journal'[i].old = journal[i].old, journal'[i].wasActive = journal[i].wasActive,
         journal'[i].state = "succeeded" => installed' = "new",
         journal'[i].state # "pending" /\ journal'[i].state # "failed" => daemon'.unit = "active",
         journal'[i].state \in {"deferred", "rolled_back"} => installed' = "old",
         retained'[i] # "torn",
         journal'[i].state \in {"pending", "succeeded"} /\ installed' = "new" => candidate'[i] # "torn",
         spare'[i] # "none" => \/ journal'[i].state = "pending" /\ journal'[i].phase \in BackPhases
                               \/ journal'[i].state = "rolled_back",
         daemon'.unit = "frozen" => installed' = "old" /\ journal'[i].state = "pending" /\ MayBeFrozen(journal'[i]),
         proc' = Idle \/ (proc' # Idle /\ proc'.u = i /\ proc'.owner = proc.owner /\ proc'.cmd = proc.cmd /\ proc'.at # "read"),
         proc.at \in BackPlaces =>
           /\ journal'[i].state = "rolled_back" \/ (journal'[i].state = "pending" /\ journal'[i].phase \in BackPhases)
           /\ proc' = Idle \/ proc'.at \in BackPlaces,
         \A c \in Caller : answer'[c] = answer[c] \/ (proc.owner = c /\ proc' = Idle),
         \A c \in Caller, r \in Results : answer'[c] = r /\ answer[c] # r => Fits(r, i)',
         daemon'.run => daemon.run
  PROVE  BoxInv' /\ BoxMoves
<1>1. journal[i].state = "pending" /\ JournalOK(i)
  BY DEF BoxInv, AtWork, PlaceOK, id
<1>2. \A u \in Update : u # i => ~Held(u)
  BY <1>1 DEF BoxInv, OneHeld, Held
<1>3. \A u \in Update : JournalOK(u)'
  <2>1. ASSUME NEW u \in Update, u # i PROVE JournalOK(u)'
    BY <1>2, <2>1 DEF BoxInv, JournalOK, Held, TakenBack
  <2>2. JournalOK(i)'
    BY <1>1 DEF JournalOK, TakenBack, NoJournal
  <2> QED
    BY <2>1, <2>2
<1>4. \A u \in Update : u # i => ~Held(u)'
  BY <1>2 DEF Held
<1>5. OneHeld'
  BY <1>4 DEF OneHeld
<1>6. Resting'
  <2>1. CASE journal'[i].state \in {"pending", "failed", "succeeded"}
    BY <2>1 DEF Resting, Held
  <2>2. CASE journal'[i].state \notin {"pending", "failed", "succeeded"}
    <3>1. journal'[i].state \in {"deferred", "rolled_back"}
      BY <2>2 DEF Left, InstallerTypeOK, States, NoJournal
    <3> QED
      BY <3>1 DEF Resting
  <2> QED
    BY <2>1, <2>2
<1>7. DaemonOK'
  BY DEF DaemonOK, Left
<1>8. \A u \in Update : Won(u) => Won(u)'
  <2>1. ASSUME NEW u \in Update, u # i, Won(u) PROVE Won(u)'
    <3>1. proc'.u # u
      BY <2>1, Nobodies DEF Idle, Nobody
    <3> QED
      BY <2>1, <3>1 DEF Won, TakenBack
  <2>2. ASSUME Won(i) PROVE Won(i)'
    <3>1. proc.at \in BackPlaces
      BY <1>1, <2>2 DEF Won, AtWork
    <3>2. proc'.u = i => proc'.at \in BackPlaces
      BY <3>1, Nobodies DEF Idle, Nobody
    <3> QED
      BY <3>1, <3>2 DEF Won, TakenBack
  <2> QED
    BY <2>1, <2>2
<1>9. PlaceOK' /\ InstallerTypeOK'
  BY DEF Left
<1>10. BoxInv'
  BY <1>3, <1>5, <1>6, <1>7, <1>9 DEF BoxInv
<1>11. \A u \in Update : u # id => journal'[u] = journal[u]
  BY DEF id
<1>12. \A u \in Update : journal[u].state \in {"deferred", "rolled_back"} => journal'[u].state = journal[u].state
  BY <1>1
<1>13. \A c \in Caller, r \in Results, u \in Update : answer'[c] = r /\ answer[c] # r /\ proc.u = u => Fits(r, u)'
  OBVIOUS
<1>14. proc' = Idle \/ (/\ proc' # Idle /\ proc'.u = id /\ proc'.owner = proc.owner
                        /\ (proc'.at = "read" => proc'.cmd = "rollback"))
  BY DEF id
<1>15. \A u \in Update : proc'.u = u /\ proc'.cmd = "rollback" => proc.u = u /\ proc.cmd = "rollback"
  BY DEF Idle
<1>16. \A u \in Update : journal[u] = NoJournal /\ (~Reading(u) \/ proc' = proc) => journal'[u] = NoJournal
  BY <1>1 DEF NoJournal
<1> QED
  BY <1>8, <1>10, <1>11, <1>12, <1>13, <1>14, <1>15, <1>16 DEF BoxMoves

LEMMA AtStart ==
  ASSUME BoxInv, AtWork, NEW i \in Update, i = proc.u
  PROVE  /\ InstallerTypeOK /\ proc \in ProcRecord /\ proc # Idle /\ proc.at # "idle" /\ id = i
         /\ daemon \in DaemonRecord
         /\ journal[i] \in JournalRecord /\ journal[i].state = "pending"
         /\ journal[i].old = "old" /\ journal[i].wasActive
         /\ retained[i] # "torn"
         /\ installed = "new" => candidate[i] # "torn"
         /\ spare[i] # "none" => TakenBack(i)
         /\ daemon.unit # "stopped" => daemon.exe = installed
         /\ daemon.unit = "frozen" => installed = "old" /\ MayBeFrozen(journal[i])
<1>1. InstallerTypeOK /\ proc \in ProcRecord /\ proc # Idle /\ proc.at # "idle" /\ id = i /\ daemon \in DaemonRecord
  BY Working, Units DEF BoxInv, AtWork, id
<1>2. journal[i].state = "pending"
  BY <1>1 DEF BoxInv, AtWork, PlaceOK
<1>3. journal[i] \in JournalRecord
  BY <1>1, <1>2 DEF InstallerTypeOK, JournalRecord, NoJournal
<1>4. JournalOK(i)
  BY DEF BoxInv
<1>5. daemon.unit = "frozen" => MayBeFrozen(journal[i])
  <2> SUFFICES ASSUME daemon.unit = "frozen" PROVE MayBeFrozen(journal[i])
    OBVIOUS
  <2>1. PICK u \in Update : journal[u].state = "pending" /\ MayBeFrozen(journal[u])
    BY DEF BoxInv, DaemonOK
  <2>2. u = i
    BY <1>2, <2>1 DEF BoxInv, OneHeld, Held
  <2> QED
    BY <2>1, <2>2
<1> QED
  BY <1>1, <1>2, <1>3, <1>4, <1>5 DEF BoxInv, JournalOK, DaemonOK, NoJournal

LEMMA IdleIsQuiet ==
  ASSUME proc' = Idle
  PROVE  PlaceOK'
BY DEF PlaceOK, AtWork, Idle, BackPlaces

LEMMA Marked ==
  ASSUME InstallerTypeOK, proc.at # "idle", journal[id].state = "pending",
         NEW phase \in Phases, NEW frozen \in BOOLEAN, Mark(phase, frozen)
  PROVE  /\ journal' \in [Update -> JournalRecord \cup {NoJournal}]
         /\ journal'[id] \in JournalRecord
         /\ journal'[id].state = "pending" /\ journal'[id].phase = phase
         /\ journal'[id].old = journal[id].old /\ journal'[id].wasActive = journal[id].wasActive
         /\ journal'[id].frozen = frozen
         /\ \A v \in Update : v # id => journal'[v] = journal[v]
<1>0. id \in Update
  BY Working
<1>1. journal[id] \in JournalRecord
  BY <1>0 DEF InstallerTypeOK, JournalRecord, NoJournal
<1> DEFINE r == [journal[id] EXCEPT !.phase = phase, !.frozen = frozen]
<1>2. journal' = [journal EXCEPT ![id] = r]
  BY DEF Mark
<1>3. /\ r \in JournalRecord /\ r.state = "pending" /\ r.phase = phase
      /\ r.old = journal[id].old /\ r.wasActive = journal[id].wasActive /\ r.frozen = frozen
  BY <1>1 DEF JournalRecord
<1> HIDE DEF r
<1>4. journal'[id] = r /\ \A v \in Update : v # id => journal'[v] = journal[v]
  BY <1>0, <1>2 DEF InstallerTypeOK
<1>5. journal' \in [Update -> JournalRecord \cup {NoJournal}]
  BY <1>0, <1>2, <1>3 DEF InstallerTypeOK, JournalRecord
<1> QED
  BY <1>3, <1>4, <1>5

\* The outcomes of a step at work on update i: what it wrote, where it went, what it reported.
Wrote(i, phase, state) ==
  /\ journal' \in [Update -> JournalRecord \cup {NoJournal}]
  /\ journal'[i].state = state /\ journal'[i].phase = phase
  /\ journal'[i].old = journal[i].old /\ journal'[i].wasActive = journal[i].wasActive
  /\ \A v \in Update : v # i => journal'[v] = journal[v]
Went(i, place) ==
  /\ proc' \in ProcRecord /\ proc' # Idle
  /\ proc'.at = place /\ proc'.cmd = proc.cmd /\ proc'.u = i /\ proc'.owner = proc.owner
Reported(result) ==
  /\ proc' = Idle
  /\ answer' \in [Caller -> Results]
  /\ \A c \in Caller : answer'[c] = IF proc.owner = c THEN result ELSE answer[c]

LEMMA Outcomes ==
  ASSUME BoxInv, AtWork, NEW i \in Update, i = proc.u
  PROVE  /\ \A phase \in Phases, state \in States : Persist(phase, state) => Wrote(i, phase, state)
         /\ \A phase \in Phases, frozen \in BOOLEAN :
              Mark(phase, frozen) => Wrote(i, phase, "pending") /\ journal'[i].frozen = frozen
         /\ \A place \in Places \ {"idle"} : At(place) => Went(i, place)
         /\ \A result \in Results : End(result) => Reported(result)
<1>1. InstallerTypeOK /\ proc.at # "idle" /\ id = i /\ journal[i].state = "pending" /\ journal[i] \in JournalRecord
  BY AtStart
<1> QED
  BY <1>1, Persisted, Marked, Going, Ending DEF Wrote, Went, Reported

LEMMA PreflightStep ==
  ASSUME BoxInv, ApplyPreflight
  PROVE  BoxInv' /\ BoxMoves
<1>0. AtWork /\ proc.at = "preflight"
  BY DEF ApplyPreflight, AtWork
<1>1. PICK i \in Update : i = proc.u
  BY <1>0, Working DEF BoxInv, AtWork, id
<1>2. installed = "old" /\ daemon.unit = "active" /\ spare[i] = "none" /\ proc.cmd # "rollback"
  BY <1>0, <1>1, AtStart DEF BoxInv, PlaceOK, BackPlaces
<1>3. UNCHANGED <<installed, candidate, retained, spare, daemon, faults>>
  BY DEF ApplyPreflight, dirs
<1>4. CASE Persist("copy_pending", "pending") /\ At("copy") /\ UNCHANGED answer
  <2>1. Wrote(i, "copy_pending", "pending") /\ Went(i, "copy")
    BY <1>0, <1>1, <1>4, Outcomes DEF Phases, States, Places, Results
  <2>2. InstallerTypeOK'
    BY <1>0, <1>1, <1>2, <1>3, <1>4, <2>1, AtStart
       DEF InstallerTypeOK, JournalRecord, ProcRecord, DaemonRecord, Files, Wrote, Went, Reported
  <2>3. PlaceOK'
    BY <1>0, <1>1, <1>2, <1>3, <1>4, <2>1, AtStart
       DEF PlaceOK, BackPlaces, BackPhases, TakenBack, AtWork, id, Wrote, Went
  <2> QED
    BY <1>0, <1>1, <1>2, <1>3, <1>4, <2>1, <2>2, <2>3, AtStart, LocalSuffices
       DEF Left, BackPlaces, BackPhases, TakenBack, Fits, Won, MayBeFrozen, Wrote, Went, Reported
<1>5. CASE Persist("preflight", "deferred") /\ End("deferred")
  <2>1. Wrote(i, "preflight", "deferred") /\ Reported("deferred")
    BY <1>0, <1>1, <1>5, Outcomes DEF Phases, States, Places, Results
  <2>2. InstallerTypeOK'
    BY <1>0, <1>1, <1>2, <1>3, <1>5, <2>1, AtStart
       DEF InstallerTypeOK, JournalRecord, ProcRecord, DaemonRecord, Files, Wrote, Went, Reported
  <2>3. PlaceOK'
    BY <2>1, IdleIsQuiet DEF Reported, Idle
  <2> QED
    BY <1>0, <1>1, <1>2, <1>3, <1>5, <2>1, <2>2, <2>3, AtStart, LocalSuffices
       DEF Left, BackPlaces, BackPhases, TakenBack, Fits, Won, MayBeFrozen, Wrote, Went, Reported
<1> QED
  BY <1>4, <1>5 DEF ApplyPreflight

LEMMA CopyStep ==
  ASSUME BoxInv, ApplyCopy
  PROVE  BoxInv' /\ BoxMoves
<1>0. AtWork /\ proc.at = "copy"
  BY DEF ApplyCopy, AtWork
<1>1. PICK i \in Update : i = proc.u
  BY <1>0, Working DEF BoxInv, AtWork, id
<1>2. installed = "old" /\ daemon.unit = "active" /\ spare[i] = "none" /\ proc.cmd # "rollback"
  BY <1>0, <1>1, AtStart DEF BoxInv, PlaceOK, BackPlaces
<1>3. UNCHANGED <<installed, retained, spare, journal, daemon, answer, faults>>
  BY DEF ApplyCopy, dirs
<1>4. CASE candidate' = [candidate EXCEPT ![i] = "torn"] /\ At("copy")
  <2>1. Went(i, "copy")
    BY <1>0, <1>1, <1>4, Outcomes DEF Phases, States, Places, Results
  <2>2. InstallerTypeOK'
    BY <1>0, <1>1, <1>2, <1>3, <1>4, <2>1, AtStart
       DEF InstallerTypeOK, JournalRecord, ProcRecord, DaemonRecord, Files, Wrote, Went, Reported
  <2>3. PlaceOK'
    BY <1>0, <1>1, <1>2, <1>3, <1>4, <2>1, AtStart
       DEF PlaceOK, BackPlaces, BackPhases, TakenBack, AtWork, id, Wrote, Went
  <2> QED
    BY <1>0, <1>1, <1>2, <1>3, <1>4, <2>1, <2>2, <2>3, AtStart, LocalSuffices
       DEF Left, BackPlaces, BackPhases, TakenBack, Fits, Won, MayBeFrozen, Wrote, Went, Reported
<1>5. CASE candidate' = [candidate EXCEPT ![i] = "new"] /\ At("ready")
  <2>1. Went(i, "ready")
    BY <1>0, <1>1, <1>5, Outcomes DEF Phases, States, Places, Results
  <2>2. candidate'[i] = "new"
    BY <1>0, <1>1, <1>2, <1>3, <1>5, AtStart DEF InstallerTypeOK
  <2>3. InstallerTypeOK'
    BY <1>0, <1>1, <1>2, <1>3, <1>5, <2>1, <2>2, AtStart
       DEF InstallerTypeOK, JournalRecord, ProcRecord, DaemonRecord, Files, Wrote, Went, Reported
  <2>4. PlaceOK'
    BY <1>0, <1>1, <1>2, <1>3, <1>5, <2>1, <2>2, AtStart
       DEF PlaceOK, BackPlaces, BackPhases, TakenBack, AtWork, id, Wrote, Went
  <2> QED
    BY <1>0, <1>1, <1>2, <1>3, <1>5, <2>1, <2>2, <2>3, <2>4, AtStart, LocalSuffices
       DEF Left, BackPlaces, BackPhases, TakenBack, Fits, Won, MayBeFrozen, Wrote, Went, Reported
<1>6. CASE UNCHANGED candidate /\ At("rb")
  <2>1. Went(i, "rb")
    BY <1>0, <1>1, <1>6, Outcomes DEF Phases, States, Places, Results
  <2>2. InstallerTypeOK'
    BY <1>0, <1>1, <1>2, <1>3, <1>6, <2>1, AtStart
       DEF InstallerTypeOK, JournalRecord, ProcRecord, DaemonRecord, Files, Wrote, Went, Reported
  <2>3. PlaceOK'
    BY <1>0, <1>1, <1>2, <1>3, <1>6, <2>1, AtStart
       DEF PlaceOK, BackPlaces, BackPhases, TakenBack, AtWork, id, Wrote, Went
  <2> QED
    BY <1>0, <1>1, <1>2, <1>3, <1>6, <2>1, <2>2, <2>3, AtStart, LocalSuffices
       DEF Left, BackPlaces, BackPhases, TakenBack, Fits, Won, MayBeFrozen, Wrote, Went, Reported
<1> QED
  BY <1>4, <1>5, <1>6, <1>1 DEF ApplyCopy, id

LEMMA ReadyStep ==
  ASSUME BoxInv, ApplyReady
  PROVE  BoxInv' /\ BoxMoves
<1>0. AtWork /\ proc.at = "ready"
  BY DEF ApplyReady, AtWork
<1>1. PICK i \in Update : i = proc.u
  BY <1>0, Working DEF BoxInv, AtWork, id
<1>2. installed = "old" /\ daemon.unit = "active" /\ spare[i] = "none" /\ proc.cmd # "rollback" /\ candidate[i] = "new"
  BY <1>0, <1>1, AtStart DEF BoxInv, PlaceOK, BackPlaces
<1>3. UNCHANGED <<installed, candidate, retained, spare, daemon, answer, faults>>
  BY DEF ApplyReady, dirs
<1>4. CASE Persist("freeze_pending", "pending") /\ At("freeze")
  <2>1. Wrote(i, "freeze_pending", "pending") /\ Went(i, "freeze")
    BY <1>0, <1>1, <1>4, Outcomes DEF Phases, States, Places, Results
  <2>2. InstallerTypeOK'
    BY <1>0, <1>1, <1>2, <1>3, <1>4, <2>1, AtStart
       DEF InstallerTypeOK, JournalRecord, ProcRecord, DaemonRecord, Files, Wrote, Went, Reported
  <2>3. PlaceOK'
    BY <1>0, <1>1, <1>2, <1>3, <1>4, <2>1, AtStart
       DEF PlaceOK, BackPlaces, BackPhases, TakenBack, AtWork, id, Wrote, Went
  <2> QED
    BY <1>0, <1>1, <1>2, <1>3, <1>4, <2>1, <2>2, <2>3, AtStart, LocalSuffices
       DEF Left, BackPlaces, BackPhases, TakenBack, Fits, Won, MayBeFrozen, Wrote, Went, Reported
<1>5. CASE Persist("candidate_ready", "pending") /\ At("rb")
  <2>1. Wrote(i, "candidate_ready", "pending") /\ Went(i, "rb")
    BY <1>0, <1>1, <1>5, Outcomes DEF Phases, States, Places, Results
  <2>2. InstallerTypeOK'
    BY <1>0, <1>1, <1>2, <1>3, <1>5, <2>1, AtStart
       DEF InstallerTypeOK, JournalRecord, ProcRecord, DaemonRecord, Files, Wrote, Went, Reported
  <2>3. PlaceOK'
    BY <1>0, <1>1, <1>2, <1>3, <1>5, <2>1, AtStart
       DEF PlaceOK, BackPlaces, BackPhases, TakenBack, AtWork, id, Wrote, Went
  <2> QED
    BY <1>0, <1>1, <1>2, <1>3, <1>5, <2>1, <2>2, <2>3, AtStart, LocalSuffices
       DEF Left, BackPlaces, BackPhases, TakenBack, Fits, Won, MayBeFrozen, Wrote, Went, Reported
<1> QED
  BY <1>4, <1>5 DEF ApplyReady

LEMMA FreezeStep ==
  ASSUME BoxInv, ApplyFreeze
  PROVE  BoxInv' /\ BoxMoves
<1>0. AtWork /\ proc.at = "freeze"
  BY DEF ApplyFreeze, AtWork
<1>1. PICK i \in Update : i = proc.u
  BY <1>0, Working DEF BoxInv, AtWork, id
<1>2. installed = "old" /\ daemon.unit = "active" /\ spare[i] = "none" /\ proc.cmd # "rollback" /\ candidate[i] = "new" /\ journal[i].phase = "freeze_pending"
  BY <1>0, <1>1, AtStart DEF BoxInv, PlaceOK, BackPlaces
<1>3. UNCHANGED <<installed, candidate, retained, spare, faults>>
  BY DEF ApplyFreeze, dirs
<1>4. CASE daemon' = [daemon EXCEPT !.unit = "frozen"] /\ At("frozen") /\ UNCHANGED <<journal, answer>>
  <2>1. Went(i, "frozen")
    BY <1>0, <1>1, <1>4, Outcomes DEF Phases, States, Places, Results
  <2>2. daemon' \in DaemonRecord /\ daemon'.unit = "frozen" /\ daemon'.exe = daemon.exe /\ daemon'.run = daemon.run
    BY <1>0, <1>1, <1>2, <1>3, <1>4, AtStart DEF InstallerTypeOK, DaemonRecord
  <2>3. InstallerTypeOK'
    BY <1>0, <1>1, <1>2, <1>3, <1>4, <2>1, <2>2, AtStart
       DEF InstallerTypeOK, JournalRecord, ProcRecord, DaemonRecord, Files, Wrote, Went, Reported
  <2>4. PlaceOK'
    BY <1>0, <1>1, <1>2, <1>3, <1>4, <2>1, <2>2, AtStart
       DEF PlaceOK, BackPlaces, BackPhases, TakenBack, AtWork, id, Wrote, Went
  <2> QED
    BY <1>0, <1>1, <1>2, <1>3, <1>4, <2>1, <2>2, <2>3, <2>4, AtStart, LocalSuffices
       DEF Left, BackPlaces, BackPhases, TakenBack, Fits, Won, MayBeFrozen, Wrote, Went, Reported
<1>5. CASE Thaw /\ Persist("preflight", "deferred") /\ End("deferred")
  <2>1. Wrote(i, "preflight", "deferred") /\ Reported("deferred")
    BY <1>0, <1>1, <1>5, Outcomes DEF Phases, States, Places, Results
  <2>2. InstallerTypeOK'
    BY <1>0, <1>1, <1>2, <1>3, <1>5, <2>1, AtStart, Units
       DEF InstallerTypeOK, JournalRecord, ProcRecord, DaemonRecord, Files, Wrote, Went, Reported
  <2>3. PlaceOK'
    BY <2>1, IdleIsQuiet DEF Reported, Idle
  <2> QED
    BY <1>0, <1>1, <1>2, <1>3, <1>5, <2>1, <2>2, <2>3, AtStart, Units, LocalSuffices
       DEF Left, BackPlaces, BackPhases, TakenBack, Fits, Won, MayBeFrozen, Wrote, Went, Reported
<1> QED
  BY <1>4, <1>5, <1>2 DEF ApplyFreeze, Active

LEMMA FrozenStep ==
  ASSUME BoxInv, ApplyFrozen
  PROVE  BoxInv' /\ BoxMoves
<1>0. AtWork /\ proc.at = "frozen"
  BY DEF ApplyFrozen, AtWork
<1>1. PICK i \in Update : i = proc.u
  BY <1>0, Working DEF BoxInv, AtWork, id
<1>2. installed = "old" /\ daemon.unit = "frozen" /\ spare[i] = "none" /\ proc.cmd # "rollback" /\ candidate[i] = "new"
  BY <1>0, <1>1, AtStart DEF BoxInv, PlaceOK, BackPlaces
<1>3. UNCHANGED <<installed, candidate, retained, spare, faults>>
  BY DEF ApplyFrozen, dirs
<1>4. CASE Mark("stop_pending", TRUE) /\ At("stop") /\ UNCHANGED <<daemon, answer>>
  <2>1. Wrote(i, "stop_pending", "pending") /\ journal'[i].frozen = TRUE /\ Went(i, "stop")
    BY <1>0, <1>1, <1>4, Outcomes DEF Phases, States, Places, Results
  <2>2. InstallerTypeOK'
    BY <1>0, <1>1, <1>2, <1>3, <1>4, <2>1, AtStart
       DEF InstallerTypeOK, JournalRecord, ProcRecord, DaemonRecord, Files, Wrote, Went, Reported
  <2>3. PlaceOK'
    BY <1>0, <1>1, <1>2, <1>3, <1>4, <2>1, AtStart
       DEF PlaceOK, BackPlaces, BackPhases, TakenBack, AtWork, id, Wrote, Went
  <2> QED
    BY <1>0, <1>1, <1>2, <1>3, <1>4, <2>1, <2>2, <2>3, AtStart, LocalSuffices
       DEF Left, BackPlaces, BackPhases, TakenBack, Fits, Won, MayBeFrozen, Wrote, Went, Reported
<1>5. CASE Thaw /\ Persist("preflight", "deferred") /\ End("deferred")
  <2>1. Wrote(i, "preflight", "deferred") /\ Reported("deferred")
    BY <1>0, <1>1, <1>5, Outcomes DEF Phases, States, Places, Results
  <2>2. InstallerTypeOK'
    BY <1>0, <1>1, <1>2, <1>3, <1>5, <2>1, AtStart, Units
       DEF InstallerTypeOK, JournalRecord, ProcRecord, DaemonRecord, Files, Wrote, Went, Reported
  <2>3. PlaceOK'
    BY <2>1, IdleIsQuiet DEF Reported, Idle
  <2> QED
    BY <1>0, <1>1, <1>2, <1>3, <1>5, <2>1, <2>2, <2>3, AtStart, Units, LocalSuffices
       DEF Left, BackPlaces, BackPhases, TakenBack, Fits, Won, MayBeFrozen, Wrote, Went, Reported
<1> QED
  BY <1>4, <1>5 DEF ApplyFrozen

LEMMA StopStep ==
  ASSUME BoxInv, ApplyStop
  PROVE  BoxInv' /\ BoxMoves
<1>0. AtWork /\ proc.at = "stop"
  BY DEF ApplyStop, AtWork
<1>1. PICK i \in Update : i = proc.u
  BY <1>0, Working DEF BoxInv, AtWork, id
<1>2. installed = "old" /\ daemon.unit = "frozen" /\ spare[i] = "none" /\ proc.cmd # "rollback" /\ candidate[i] = "new"
  BY <1>0, <1>1, AtStart DEF BoxInv, PlaceOK, BackPlaces
<1>3. UNCHANGED <<installed, candidate, retained, spare, answer, faults>>
  BY DEF ApplyStop, dirs
<1>4. CASE Stop /\ Mark("swap_pending", FALSE) /\ At("exchange")
  <2>1. Wrote(i, "swap_pending", "pending") /\ journal'[i].frozen = FALSE /\ Went(i, "exchange")
    BY <1>0, <1>1, <1>4, Outcomes DEF Phases, States, Places, Results
  <2>2. InstallerTypeOK'
    BY <1>0, <1>1, <1>2, <1>3, <1>4, <2>1, AtStart, Units
       DEF InstallerTypeOK, JournalRecord, ProcRecord, DaemonRecord, Files, Wrote, Went, Reported
  <2>3. PlaceOK'
    BY <1>0, <1>1, <1>2, <1>3, <1>4, <2>1, AtStart, Units
       DEF PlaceOK, BackPlaces, BackPhases, TakenBack, AtWork, id, Wrote, Went
  <2> QED
    BY <1>0, <1>1, <1>2, <1>3, <1>4, <2>1, <2>2, <2>3, AtStart, Units, LocalSuffices
       DEF Left, BackPlaces, BackPhases, TakenBack, Fits, Won, MayBeFrozen, Wrote, Went, Reported
<1>5. CASE UNCHANGED <<daemon, journal>> /\ At("rb")
  <2>1. Went(i, "rb")
    BY <1>0, <1>1, <1>5, Outcomes DEF Phases, States, Places, Results
  <2>2. InstallerTypeOK'
    BY <1>0, <1>1, <1>2, <1>3, <1>5, <2>1, AtStart
       DEF InstallerTypeOK, JournalRecord, ProcRecord, DaemonRecord, Files, Wrote, Went, Reported
  <2>3. PlaceOK'
    BY <1>0, <1>1, <1>2, <1>3, <1>5, <2>1, AtStart
       DEF PlaceOK, BackPlaces, BackPhases, TakenBack, AtWork, id, Wrote, Went
  <2> QED
    BY <1>0, <1>1, <1>2, <1>3, <1>5, <2>1, <2>2, <2>3, AtStart, LocalSuffices
       DEF Left, BackPlaces, BackPhases, TakenBack, Fits, Won, MayBeFrozen, Wrote, Went, Reported
<1> QED
  BY <1>4, <1>5 DEF ApplyStop

LEMMA ExchangeStep ==
  ASSUME BoxInv, ApplyExchange
  PROVE  BoxInv' /\ BoxMoves
<1>0. AtWork /\ proc.at = "exchange"
  BY DEF ApplyExchange, AtWork
<1>1. PICK i \in Update : i = proc.u
  BY <1>0, Working DEF BoxInv, AtWork, id
<1>2. installed = "old" /\ daemon.unit = "stopped" /\ spare[i] = "none" /\ proc.cmd # "rollback" /\ candidate[i] = "new"
  BY <1>0, <1>1, AtStart DEF BoxInv, PlaceOK, BackPlaces
<1>3. UNCHANGED <<retained, spare, journal, daemon, answer, faults>>
  BY DEF ApplyExchange, dirs
<1>4. CASE installed' = candidate[i] /\ candidate' = [candidate EXCEPT ![i] = installed] /\ At("rename")
  <2>1. Went(i, "rename")
    BY <1>0, <1>1, <1>4, Outcomes DEF Phases, States, Places, Results
  <2>2. installed' = "new" /\ candidate'[i] = "old"
    BY <1>0, <1>1, <1>2, <1>3, <1>4, AtStart DEF InstallerTypeOK
  <2>3. InstallerTypeOK'
    BY <1>0, <1>1, <1>2, <1>3, <1>4, <2>1, <2>2, AtStart
       DEF InstallerTypeOK, JournalRecord, ProcRecord, DaemonRecord, Files, Wrote, Went, Reported
  <2>4. PlaceOK'
    BY <1>0, <1>1, <1>2, <1>3, <1>4, <2>1, <2>2, AtStart
       DEF PlaceOK, BackPlaces, BackPhases, TakenBack, AtWork, id, Wrote, Went
  <2> QED
    BY <1>0, <1>1, <1>2, <1>3, <1>4, <2>1, <2>2, <2>3, <2>4, AtStart, LocalSuffices
       DEF Left, BackPlaces, BackPhases, TakenBack, Fits, Won, MayBeFrozen, Wrote, Went, Reported
<1>5. CASE UNCHANGED <<installed, candidate>> /\ At("rb")
  <2>1. Went(i, "rb")
    BY <1>0, <1>1, <1>5, Outcomes DEF Phases, States, Places, Results
  <2>2. InstallerTypeOK'
    BY <1>0, <1>1, <1>2, <1>3, <1>5, <2>1, AtStart
       DEF InstallerTypeOK, JournalRecord, ProcRecord, DaemonRecord, Files, Wrote, Went, Reported
  <2>3. PlaceOK'
    BY <1>0, <1>1, <1>2, <1>3, <1>5, <2>1, AtStart
       DEF PlaceOK, BackPlaces, BackPhases, TakenBack, AtWork, id, Wrote, Went
  <2> QED
    BY <1>0, <1>1, <1>2, <1>3, <1>5, <2>1, <2>2, <2>3, AtStart, LocalSuffices
       DEF Left, BackPlaces, BackPhases, TakenBack, Fits, Won, MayBeFrozen, Wrote, Went, Reported
<1> QED
  BY <1>4, <1>5, <1>1 DEF ApplyExchange, id

LEMMA RenameStep ==
  ASSUME BoxInv, ApplyRename
  PROVE  BoxInv' /\ BoxMoves
<1>0. AtWork /\ proc.at = "rename"
  BY DEF ApplyRename, AtWork
<1>1. PICK i \in Update : i = proc.u
  BY <1>0, Working DEF BoxInv, AtWork, id
<1>2. installed = "new" /\ daemon.unit = "stopped" /\ spare[i] = "none" /\ proc.cmd # "rollback" /\ candidate[i] # "torn"
  BY <1>0, <1>1, AtStart DEF BoxInv, PlaceOK, BackPlaces
<1>3. UNCHANGED <<installed, spare, daemon, answer, faults>>
  BY DEF ApplyRename, dirs
<1>4. CASE /\ retained' = [retained EXCEPT ![i] = candidate[i]]
          /\ candidate' = [candidate EXCEPT ![i] = "none"]
          /\ Persist("start_pending", "pending") /\ At("start")
  <2>1. Wrote(i, "start_pending", "pending") /\ Went(i, "start")
    BY <1>0, <1>1, <1>4, Outcomes DEF Phases, States, Places, Results
  <2>2. /\ retained'[i] # "torn" /\ candidate'[i] = "none"
        /\ \A u \in Update : u # i => retained'[u] = retained[u]
    BY <1>0, <1>1, <1>2, <1>3, <1>4, AtStart DEF InstallerTypeOK
  <2>3. InstallerTypeOK'
    BY <1>0, <1>1, <1>2, <1>3, <1>4, <2>1, <2>2, AtStart
       DEF InstallerTypeOK, JournalRecord, ProcRecord, DaemonRecord, Files, Wrote, Went, Reported
  <2>4. PlaceOK'
    BY <1>0, <1>1, <1>2, <1>3, <1>4, <2>1, <2>2, AtStart
       DEF PlaceOK, BackPlaces, BackPhases, TakenBack, AtWork, id, Wrote, Went
  <2> QED
    BY <1>0, <1>1, <1>2, <1>3, <1>4, <2>1, <2>2, <2>3, <2>4, AtStart, LocalSuffices
       DEF Left, BackPlaces, BackPhases, TakenBack, Fits, Won, MayBeFrozen, Wrote, Went, Reported
<1>5. CASE UNCHANGED <<retained, candidate, journal>> /\ At("rb")
  <2>1. Went(i, "rb")
    BY <1>0, <1>1, <1>5, Outcomes DEF Phases, States, Places, Results
  <2>2. InstallerTypeOK'
    BY <1>0, <1>1, <1>2, <1>3, <1>5, <2>1, AtStart
       DEF InstallerTypeOK, JournalRecord, ProcRecord, DaemonRecord, Files, Wrote, Went, Reported
  <2>3. PlaceOK'
    BY <1>0, <1>1, <1>2, <1>3, <1>5, <2>1, AtStart
       DEF PlaceOK, BackPlaces, BackPhases, TakenBack, AtWork, id, Wrote, Went
  <2> QED
    BY <1>0, <1>1, <1>2, <1>3, <1>5, <2>1, <2>2, <2>3, AtStart, LocalSuffices
       DEF Left, BackPlaces, BackPhases, TakenBack, Fits, Won, MayBeFrozen, Wrote, Went, Reported
<1> QED
  BY <1>4, <1>5, <1>1 DEF ApplyRename, id

LEMMA StartStep ==
  ASSUME BoxInv, ApplyStart
  PROVE  BoxInv' /\ BoxMoves
<1>0. AtWork /\ proc.at = "start"
  BY DEF ApplyStart, AtWork
<1>1. PICK i \in Update : i = proc.u
  BY <1>0, Working DEF BoxInv, AtWork, id
<1>2. installed = "new" /\ daemon.unit = "stopped" /\ spare[i] = "none" /\ proc.cmd # "rollback"
  BY <1>0, <1>1, AtStart DEF BoxInv, PlaceOK, BackPlaces
<1>3. UNCHANGED <<installed, candidate, retained, spare, journal, answer, faults>>
  BY DEF ApplyStart, dirs
<1>4. CASE Start /\ At("verify")
  <2>1. Went(i, "verify")
    BY <1>0, <1>1, <1>4, Outcomes DEF Phases, States, Places, Results
  <2>2. InstallerTypeOK'
    BY <1>0, <1>1, <1>2, <1>3, <1>4, <2>1, AtStart, Units
       DEF InstallerTypeOK, JournalRecord, ProcRecord, DaemonRecord, Files, Wrote, Went, Reported
  <2>3. PlaceOK'
    BY <1>0, <1>1, <1>2, <1>3, <1>4, <2>1, AtStart, Units
       DEF PlaceOK, BackPlaces, BackPhases, TakenBack, AtWork, id, Wrote, Went
  <2> QED
    BY <1>0, <1>1, <1>2, <1>3, <1>4, <2>1, <2>2, <2>3, AtStart, Units, LocalSuffices
       DEF Left, BackPlaces, BackPhases, TakenBack, Fits, Won, MayBeFrozen, Wrote, Went, Reported
<1>5. CASE UNCHANGED daemon /\ At("rb")
  <2>1. Went(i, "rb")
    BY <1>0, <1>1, <1>5, Outcomes DEF Phases, States, Places, Results
  <2>2. InstallerTypeOK'
    BY <1>0, <1>1, <1>2, <1>3, <1>5, <2>1, AtStart
       DEF InstallerTypeOK, JournalRecord, ProcRecord, DaemonRecord, Files, Wrote, Went, Reported
  <2>3. PlaceOK'
    BY <1>0, <1>1, <1>2, <1>3, <1>5, <2>1, AtStart
       DEF PlaceOK, BackPlaces, BackPhases, TakenBack, AtWork, id, Wrote, Went
  <2> QED
    BY <1>0, <1>1, <1>2, <1>3, <1>5, <2>1, <2>2, <2>3, AtStart, LocalSuffices
       DEF Left, BackPlaces, BackPhases, TakenBack, Fits, Won, MayBeFrozen, Wrote, Went, Reported
<1> QED
  BY <1>4, <1>5 DEF ApplyStart

LEMMA VerifyStep ==
  ASSUME BoxInv, ApplyVerify
  PROVE  BoxInv' /\ BoxMoves
<1>0. AtWork /\ proc.at = "verify"
  BY DEF ApplyVerify, AtWork
<1>1. PICK i \in Update : i = proc.u
  BY <1>0, Working DEF BoxInv, AtWork, id
<1>2. installed = "new" /\ daemon.unit = "active" /\ spare[i] = "none" /\ proc.cmd # "rollback"
  BY <1>0, <1>1, AtStart DEF BoxInv, PlaceOK, BackPlaces
<1>3. UNCHANGED <<installed, candidate, retained, spare, daemon, faults>>
  BY DEF ApplyVerify, dirs
<1>4. CASE Persist("complete", "succeeded") /\ End("succeeded")
  <2>1. Wrote(i, "complete", "succeeded") /\ Reported("succeeded")
    BY <1>0, <1>1, <1>4, Outcomes DEF Phases, States, Places, Results
  <2>2. InstallerTypeOK'
    BY <1>0, <1>1, <1>2, <1>3, <1>4, <2>1, AtStart
       DEF InstallerTypeOK, JournalRecord, ProcRecord, DaemonRecord, Files, Wrote, Went, Reported
  <2>3. PlaceOK'
    BY <2>1, IdleIsQuiet DEF Reported, Idle
  <2> QED
    BY <1>0, <1>1, <1>2, <1>3, <1>4, <2>1, <2>2, <2>3, AtStart, LocalSuffices
       DEF Left, BackPlaces, BackPhases, TakenBack, Fits, Won, MayBeFrozen, Wrote, Went, Reported
<1>5. CASE At("rb") /\ UNCHANGED <<journal, answer>>
  <2>1. Went(i, "rb")
    BY <1>0, <1>1, <1>5, Outcomes DEF Phases, States, Places, Results
  <2>2. InstallerTypeOK'
    BY <1>0, <1>1, <1>2, <1>3, <1>5, <2>1, AtStart
       DEF InstallerTypeOK, JournalRecord, ProcRecord, DaemonRecord, Files, Wrote, Went, Reported
  <2>3. PlaceOK'
    BY <1>0, <1>1, <1>2, <1>3, <1>5, <2>1, AtStart
       DEF PlaceOK, BackPlaces, BackPhases, TakenBack, AtWork, id, Wrote, Went
  <2> QED
    BY <1>0, <1>1, <1>2, <1>3, <1>5, <2>1, <2>2, <2>3, AtStart, LocalSuffices
       DEF Left, BackPlaces, BackPhases, TakenBack, Fits, Won, MayBeFrozen, Wrote, Went, Reported
<1> QED
  BY <1>4, <1>5 DEF ApplyVerify

LEMMA BackBeginStep ==
  ASSUME BoxInv, RollbackBegin
  PROVE  BoxInv' /\ BoxMoves
<1>0. AtWork /\ proc.at = "rb"
  BY DEF RollbackBegin, AtWork
<1>1. PICK i \in Update : i = proc.u
  BY <1>0, Working DEF BoxInv, AtWork, id
<1>2. spare[i] = "none" /\ proc.cmd # "rollback"
  BY <1>0, <1>1, AtStart DEF BoxInv, PlaceOK, BackPlaces
<1>3. UNCHANGED <<installed, candidate, retained, spare, answer, faults>>
  BY DEF RollbackBegin, dirs
<1>4. CASE /\ installed = "new" /\ retained[i] # "none"
          /\ Mark("rollback_stop_pending", FALSE) /\ At("rb_stop")
          /\ IF MayBeFrozen(journal[i]) THEN Thaw ELSE UNCHANGED daemon
  <2>1. Wrote(i, "rollback_stop_pending", "pending") /\ journal'[i].frozen = FALSE /\ Went(i, "rb_stop")
    BY <1>0, <1>1, <1>4, Outcomes DEF Phases, States, Places, Results
  <2>2. /\ daemon' \in DaemonRecord /\ (daemon'.run => daemon.run) /\ daemon'.unit # "frozen"
        /\ (daemon'.unit # "stopped" => daemon'.exe = installed)
    BY <1>0, <1>1, <1>2, <1>3, <1>4, AtStart, Units DEF InstallerTypeOK
  <2>3. InstallerTypeOK'
    BY <1>0, <1>1, <1>2, <1>3, <1>4, <2>1, <2>2, AtStart, Units
       DEF InstallerTypeOK, JournalRecord, ProcRecord, DaemonRecord, Files, Wrote, Went, Reported
  <2>4. PlaceOK'
    BY <1>0, <1>1, <1>2, <1>3, <1>4, <2>1, <2>2, AtStart, Units
       DEF PlaceOK, BackPlaces, BackPhases, TakenBack, AtWork, id, Wrote, Went
  <2> QED
    BY <1>0, <1>1, <1>2, <1>3, <1>4, <2>1, <2>2, <2>3, <2>4, AtStart, Units, LocalSuffices
       DEF Left, BackPlaces, BackPhases, TakenBack, Fits, Won, MayBeFrozen, Wrote, Went, Reported
<1>5. CASE /\ Mark(journal[i].phase, FALSE) /\ At("rb_start")
          /\ IF MayBeFrozen(journal[i]) THEN Thaw ELSE UNCHANGED daemon
  <2>1. Wrote(i, journal[i].phase, "pending") /\ journal'[i].frozen = FALSE /\ Went(i, "rb_start")
    BY <1>0, <1>1, <1>5, AtStart, Outcomes DEF Phases, States, Places, Results, JournalRecord
  <2>2. /\ daemon' \in DaemonRecord /\ (daemon'.run => daemon.run) /\ daemon'.unit # "frozen"
        /\ (daemon'.unit # "stopped" => daemon'.exe = installed)
    BY <1>0, <1>1, <1>2, <1>3, <1>5, AtStart, Units DEF InstallerTypeOK
  <2>3. InstallerTypeOK'
    BY <1>0, <1>1, <1>2, <1>3, <1>5, <2>1, <2>2, AtStart, Units
       DEF InstallerTypeOK, JournalRecord, ProcRecord, DaemonRecord, Files, Wrote, Went, Reported
  <2>4. PlaceOK'
    BY <1>0, <1>1, <1>2, <1>3, <1>5, <2>1, <2>2, AtStart, Units
       DEF PlaceOK, BackPlaces, BackPhases, TakenBack, AtWork, id, Wrote, Went
  <2> QED
    BY <1>0, <1>1, <1>2, <1>3, <1>5, <2>1, <2>2, <2>3, <2>4, AtStart, Units, LocalSuffices
       DEF Left, BackPlaces, BackPhases, TakenBack, Fits, Won, MayBeFrozen, Wrote, Went, Reported
<1> QED
  BY <1>4, <1>5, <1>1 DEF RollbackBegin, id

LEMMA BackStopStep ==
  ASSUME BoxInv, RollbackStop
  PROVE  BoxInv' /\ BoxMoves
<1>0. AtWork /\ proc.at = "rb_stop"
  BY DEF RollbackStop, AtWork
<1>1. PICK i \in Update : i = proc.u
  BY <1>0, Working DEF BoxInv, AtWork, id
<1>2. spare[i] = "none" /\ proc.cmd # "rollback" /\ installed = "new" /\ retained[i] # "none" /\ daemon.unit # "frozen"
  BY <1>0, <1>1, AtStart DEF BoxInv, PlaceOK, BackPlaces
<1>3. UNCHANGED <<installed, candidate, retained, spare, faults>>
  BY DEF RollbackStop, dirs
<1>4. CASE Stop /\ Persist("rollback_swap_pending", "pending") /\ At("rb_swap") /\ UNCHANGED answer
  <2>1. Wrote(i, "rollback_swap_pending", "pending") /\ Went(i, "rb_swap")
    BY <1>0, <1>1, <1>4, Outcomes DEF Phases, States, Places, Results
  <2>2. InstallerTypeOK'
    BY <1>0, <1>1, <1>2, <1>3, <1>4, <2>1, AtStart, Units
       DEF InstallerTypeOK, JournalRecord, ProcRecord, DaemonRecord, Files, Wrote, Went, Reported
  <2>3. PlaceOK'
    BY <1>0, <1>1, <1>2, <1>3, <1>4, <2>1, AtStart, Units
       DEF PlaceOK, BackPlaces, BackPhases, TakenBack, AtWork, id, Wrote, Went
  <2> QED
    BY <1>0, <1>1, <1>2, <1>3, <1>4, <2>1, <2>2, <2>3, AtStart, Units, LocalSuffices
       DEF Left, BackPlaces, BackPhases, TakenBack, Fits, Won, MayBeFrozen, Wrote, Went, Reported
<1>5. CASE RollbackFails /\ UNCHANGED daemon
  <2>1. Wrote(i, "failed", "failed") /\ Reported("failed")
    BY <1>0, <1>1, <1>5, Outcomes DEF Phases, States, Places, Results, RollbackFails
  <2>2. InstallerTypeOK'
    BY <1>0, <1>1, <1>2, <1>3, <1>5, <2>1, AtStart
       DEF InstallerTypeOK, JournalRecord, ProcRecord, DaemonRecord, Files, Wrote, Went, Reported
  <2>3. PlaceOK'
    BY <2>1, IdleIsQuiet DEF Reported, Idle
  <2> QED
    BY <1>0, <1>1, <1>2, <1>3, <1>5, <2>1, <2>2, <2>3, AtStart, LocalSuffices
       DEF Left, BackPlaces, BackPhases, TakenBack, Fits, Won, MayBeFrozen, Wrote, Went, Reported
<1> QED
  BY <1>4, <1>5 DEF RollbackStop

LEMMA BackSwapStep ==
  ASSUME BoxInv, RollbackSwap
  PROVE  BoxInv' /\ BoxMoves
<1>0. AtWork /\ proc.at = "rb_swap"
  BY DEF RollbackSwap, AtWork
<1>1. PICK i \in Update : i = proc.u
  BY <1>0, Working DEF BoxInv, AtWork, id
<1>2. spare[i] = "none" /\ proc.cmd # "rollback" /\ installed = "new" /\ retained[i] # "none" /\ daemon.unit = "stopped"
  BY <1>0, <1>1, AtStart DEF BoxInv, PlaceOK, BackPlaces
<1>3. UNCHANGED <<candidate, spare, daemon, faults>>
  BY DEF RollbackSwap, dirs
<1>4. CASE /\ installed' = retained[i] /\ retained' = [retained EXCEPT ![i] = installed]
          /\ At("rb_start") /\ UNCHANGED <<journal, answer>>
  <2>1. Went(i, "rb_start")
    BY <1>0, <1>1, <1>4, Outcomes DEF Phases, States, Places, Results
  <2>2. /\ installed' \in {"old", "new"} /\ retained'[i] = "new"
        /\ \A u \in Update : u # i => retained'[u] = retained[u]
    BY <1>0, <1>1, <1>2, <1>3, <1>4, AtStart DEF InstallerTypeOK, Files
  <2>3. InstallerTypeOK'
    BY <1>0, <1>1, <1>2, <1>3, <1>4, <2>1, <2>2, AtStart
       DEF InstallerTypeOK, JournalRecord, ProcRecord, DaemonRecord, Files, Wrote, Went, Reported
  <2>4. PlaceOK'
    BY <1>0, <1>1, <1>2, <1>3, <1>4, <2>1, <2>2, AtStart
       DEF PlaceOK, BackPlaces, BackPhases, TakenBack, AtWork, id, Wrote, Went
  <2> QED
    BY <1>0, <1>1, <1>2, <1>3, <1>4, <2>1, <2>2, <2>3, <2>4, AtStart, LocalSuffices
       DEF Left, BackPlaces, BackPhases, TakenBack, Fits, Won, MayBeFrozen, Wrote, Went, Reported
<1>5. CASE RollbackFails /\ UNCHANGED <<installed, retained>>
  <2>1. Wrote(i, "failed", "failed") /\ Reported("failed")
    BY <1>0, <1>1, <1>5, Outcomes DEF Phases, States, Places, Results, RollbackFails
  <2>2. InstallerTypeOK'
    BY <1>0, <1>1, <1>2, <1>3, <1>5, <2>1, AtStart
       DEF InstallerTypeOK, JournalRecord, ProcRecord, DaemonRecord, Files, Wrote, Went, Reported
  <2>3. PlaceOK'
    BY <2>1, IdleIsQuiet DEF Reported, Idle
  <2> QED
    BY <1>0, <1>1, <1>2, <1>3, <1>5, <2>1, <2>2, <2>3, AtStart, LocalSuffices
       DEF Left, BackPlaces, BackPhases, TakenBack, Fits, Won, MayBeFrozen, Wrote, Went, Reported
<1> QED
  BY <1>4, <1>5, <1>1 DEF RollbackSwap, id

LEMMA BackStartStep ==
  ASSUME BoxInv, RollbackStart
  PROVE  BoxInv' /\ BoxMoves
<1>0. AtWork /\ proc.at = "rb_start"
  BY DEF RollbackStart, AtWork
<1>1. PICK i \in Update : i = proc.u
  BY <1>0, Working DEF BoxInv, AtWork, id
<1>2. spare[i] = "none" /\ proc.cmd # "rollback" /\ daemon.unit # "frozen"
  BY <1>0, <1>1, AtStart DEF BoxInv, PlaceOK, BackPlaces
<1>3. UNCHANGED <<installed, candidate, retained, spare, faults>>
  BY DEF RollbackStart, dirs
<1>4. CASE /\ Start /\ daemon'.exe = journal[i].old /\ installed = journal[i].old
          /\ Persist("rolled_back", "rolled_back") /\ End("rolled_back")
  <2>1. Wrote(i, "rolled_back", "rolled_back") /\ Reported("rolled_back")
    BY <1>0, <1>1, <1>4, Outcomes DEF Phases, States, Places, Results
  <2>2. daemon' \in DaemonRecord /\ daemon'.unit = "active" /\ daemon'.exe = installed /\ (daemon'.run => daemon.run)
    BY <1>0, <1>1, <1>2, <1>3, <1>4, AtStart, Units DEF InstallerTypeOK, DaemonRecord
  <2>3. InstallerTypeOK'
    BY <1>0, <1>1, <1>2, <1>3, <1>4, <2>1, <2>2, AtStart, Units
       DEF InstallerTypeOK, JournalRecord, ProcRecord, DaemonRecord, Files, Wrote, Went, Reported
  <2>4. PlaceOK'
    BY <2>1, IdleIsQuiet DEF Reported, Idle
  <2> QED
    BY <1>0, <1>1, <1>2, <1>3, <1>4, <2>1, <2>2, <2>3, <2>4, AtStart, Units, LocalSuffices
       DEF Left, BackPlaces, BackPhases, TakenBack, Fits, Won, MayBeFrozen, Wrote, Went, Reported
<1>5. CASE (Start \/ UNCHANGED daemon) /\ RollbackFails
  <2>1. Wrote(i, "failed", "failed") /\ Reported("failed")
    BY <1>0, <1>1, <1>5, Outcomes DEF Phases, States, Places, Results, RollbackFails
  <2>2. InstallerTypeOK'
    BY <1>0, <1>1, <1>2, <1>3, <1>5, <2>1, AtStart, Units
       DEF InstallerTypeOK, JournalRecord, ProcRecord, DaemonRecord, Files, Wrote, Went, Reported
  <2>3. PlaceOK'
    BY <2>1, IdleIsQuiet DEF Reported, Idle
  <2> QED
    BY <1>0, <1>1, <1>2, <1>3, <1>5, <2>1, <2>2, <2>3, AtStart, Units, LocalSuffices
       DEF Left, BackPlaces, BackPhases, TakenBack, Fits, Won, MayBeFrozen, Wrote, Went, Reported
<1> QED
  BY <1>4, <1>5, <1>0, <1>1, AtStart DEF RollbackStart, id

LEMMA RecoverStep ==
  ASSUME BoxInv, ReconcileStart
  PROVE  BoxInv' /\ BoxMoves
<1>0. AtWork /\ proc.at = "rc_start"
  BY DEF ReconcileStart, AtWork
<1>1. PICK i \in Update : i = proc.u
  BY <1>0, Working DEF BoxInv, AtWork, id
<1>2. spare[i] = "none" /\ proc.cmd # "rollback" /\ installed = "new"
  BY <1>0, <1>1, AtStart DEF BoxInv, PlaceOK, BackPlaces
<1>3. UNCHANGED <<installed, spare, faults>>
  BY DEF ReconcileStart, dirs
<1>4. CASE /\ ReconcileStart /\ Start
          /\ Persist("complete", "succeeded") /\ End("succeeded")
  <2>1. Wrote(i, "complete", "succeeded") /\ Reported("succeeded")
    BY <1>0, <1>1, <1>4, Outcomes DEF Phases, States, Places, Results
  <2>2. daemon' \in DaemonRecord /\ daemon'.unit = "active" /\ daemon'.exe = installed /\ (daemon'.run => daemon.run)
    BY <1>0, <1>1, <1>2, <1>3, <1>4, AtStart, Units DEF InstallerTypeOK, DaemonRecord
  <2>3. /\ candidate' \in [Update -> Files] /\ retained' \in [Update -> Files]
        /\ retained'[i] # "torn" /\ candidate'[i] # "torn"
        /\ \A u \in Update : u # i => retained'[u] = retained[u]
    BY <1>0, <1>1, <1>2, <1>3, <1>4, AtStart, Units DEF InstallerTypeOK, ReconcileStart, Files, id
  <2>4. InstallerTypeOK'
    BY <1>0, <1>1, <1>2, <1>3, <1>4, <2>1, <2>2, <2>3, AtStart, Units
       DEF InstallerTypeOK, JournalRecord, ProcRecord, DaemonRecord, Files, Wrote, Went, Reported
  <2>5. PlaceOK'
    BY <2>1, IdleIsQuiet DEF Reported, Idle
  <2> QED
    BY <1>0, <1>1, <1>2, <1>3, <1>4, <2>1, <2>2, <2>3, <2>4, <2>5, AtStart, Units, LocalSuffices
       DEF Left, BackPlaces, BackPhases, TakenBack, Fits, Won, MayBeFrozen, Wrote, Went, Reported
<1>5. CASE /\ ReconcileStart
          /\ UNCHANGED daemon /\ At("rb") /\ UNCHANGED <<journal, answer>>
  <2>1. Went(i, "rb")
    BY <1>0, <1>1, <1>5, Outcomes DEF Phases, States, Places, Results
  <2>2. /\ candidate' \in [Update -> Files] /\ retained' \in [Update -> Files]
        /\ retained'[i] # "torn" /\ candidate'[i] # "torn"
        /\ \A u \in Update : u # i => retained'[u] = retained[u]
    BY <1>0, <1>1, <1>2, <1>3, <1>5, AtStart, Units DEF InstallerTypeOK, ReconcileStart, Files, id
  <2>3. InstallerTypeOK'
    BY <1>0, <1>1, <1>2, <1>3, <1>5, <2>1, <2>2, AtStart, Units
       DEF InstallerTypeOK, JournalRecord, ProcRecord, DaemonRecord, Files, Wrote, Went, Reported
  <2>4. PlaceOK'
    BY <1>0, <1>1, <1>2, <1>3, <1>5, <2>1, <2>2, AtStart, Units
       DEF PlaceOK, BackPlaces, BackPhases, TakenBack, AtWork, id, Wrote, Went
  <2> QED
    BY <1>0, <1>1, <1>2, <1>3, <1>5, <2>1, <2>2, <2>3, <2>4, AtStart, Units, LocalSuffices
       DEF Left, BackPlaces, BackPhases, TakenBack, Fits, Won, MayBeFrozen, Wrote, Went, Reported
<1> QED
  BY <1>4, <1>5, <1>0, <1>1, AtStart DEF ReconcileStart, id

LEMMA SpareStep ==
  ASSUME BoxInv, RollbackCopy
  PROVE  BoxInv' /\ BoxMoves
<1>0. AtWork /\ proc.at = "rr_copy"
  BY DEF RollbackCopy, AtWork
<1>1. PICK i \in Update : i = proc.u
  BY <1>0, Working DEF BoxInv, AtWork, id
<1>2. TakenBack(i) /\ proc.cmd = "rollback" /\ installed = "new"
  BY <1>0, <1>1, AtStart DEF BoxInv, PlaceOK, BackPlaces
<1>3. UNCHANGED <<installed, candidate, retained, daemon, faults>>
  BY DEF RollbackCopy, dirs
<1>4. CASE /\ spare[i] = journal[i].old
          /\ Persist("rollback_stop_pending", "pending") /\ At("rr_stop") /\ UNCHANGED <<spare, answer>>
  <2>1. Wrote(i, "rollback_stop_pending", "pending") /\ Went(i, "rr_stop")
    BY <1>0, <1>1, <1>4, Outcomes DEF Phases, States, Places, Results
  <2>2. InstallerTypeOK'
    BY <1>0, <1>1, <1>2, <1>3, <1>4, <2>1, AtStart
       DEF InstallerTypeOK, JournalRecord, ProcRecord, DaemonRecord, Files, Wrote, Went, Reported
  <2>3. PlaceOK'
    BY <1>0, <1>1, <1>2, <1>3, <1>4, <2>1, AtStart
       DEF PlaceOK, BackPlaces, BackPhases, TakenBack, AtWork, id, Wrote, Went
  <2> QED
    BY <1>0, <1>1, <1>2, <1>3, <1>4, <2>1, <2>2, <2>3, AtStart, LocalSuffices
       DEF Left, BackPlaces, BackPhases, TakenBack, Fits, Won, MayBeFrozen, Wrote, Went, Reported
<1>5. CASE /\ spare' = [spare EXCEPT ![i] = IF spare[i] = "torn" THEN journal[i].old ELSE "torn"]
          /\ At("rr_copy") /\ UNCHANGED <<journal, answer>>
  <2>1. Went(i, "rr_copy")
    BY <1>0, <1>1, <1>5, Outcomes DEF Phases, States, Places, Results
  <2>2. /\ spare' \in [Update -> Files]
        /\ \A u \in Update : u # i => spare'[u] = spare[u]
    BY <1>0, <1>1, <1>2, <1>3, <1>5, AtStart DEF InstallerTypeOK, Files
  <2>3. InstallerTypeOK'
    BY <1>0, <1>1, <1>2, <1>3, <1>5, <2>1, <2>2, AtStart
       DEF InstallerTypeOK, JournalRecord, ProcRecord, DaemonRecord, Files, Wrote, Went, Reported
  <2>4. PlaceOK'
    BY <1>0, <1>1, <1>2, <1>3, <1>5, <2>1, <2>2, AtStart
       DEF PlaceOK, BackPlaces, BackPhases, TakenBack, AtWork, id, Wrote, Went
  <2> QED
    BY <1>0, <1>1, <1>2, <1>3, <1>5, <2>1, <2>2, <2>3, <2>4, AtStart, LocalSuffices
       DEF Left, BackPlaces, BackPhases, TakenBack, Fits, Won, MayBeFrozen, Wrote, Went, Reported
<1>6. CASE End("failed") /\ UNCHANGED <<spare, journal>>
  <2>1. Reported("failed")
    BY <1>0, <1>1, <1>6, Outcomes DEF Phases, States, Places, Results
  <2>2. journal' = journal /\ spare' = spare /\ journal[i].state = "pending" /\ journal[i].phase \in BackPhases
    BY <1>0, <1>1, <1>2, <1>3, <1>6, AtStart DEF InstallerTypeOK, TakenBack
  <2>3. InstallerTypeOK'
    BY <1>0, <1>1, <1>2, <1>3, <1>6, <2>1, <2>2, AtStart
       DEF InstallerTypeOK, JournalRecord, ProcRecord, DaemonRecord, Files, Wrote, Went, Reported
  <2>4. PlaceOK'
    BY <2>1, IdleIsQuiet DEF Reported, Idle
  <2> QED
    BY <1>0, <1>1, <1>2, <1>3, <1>6, <2>1, <2>2, <2>3, <2>4, AtStart, LocalSuffices
       DEF Left, BackPlaces, BackPhases, TakenBack, Fits, Won, MayBeFrozen, Wrote, Went, Reported
<1> QED
  BY <1>4, <1>5, <1>6, <1>1 DEF RollbackCopy, id

LEMMA AskedStopStep ==
  ASSUME BoxInv, RequestedStop
  PROVE  BoxInv' /\ BoxMoves
<1>0. AtWork /\ proc.at = "rr_stop"
  BY DEF RequestedStop, AtWork
<1>1. PICK i \in Update : i = proc.u
  BY <1>0, Working DEF BoxInv, AtWork, id
<1>2. TakenBack(i) /\ proc.cmd = "rollback" /\ installed = "new" /\ spare[i] = "old"
  BY <1>0, <1>1, AtStart DEF BoxInv, PlaceOK, BackPlaces
<1>3. UNCHANGED <<installed, candidate, retained, spare, faults>>
  BY DEF RequestedStop, dirs
<1>4. CASE Stop /\ Persist("rollback_swap_pending", "pending") /\ At("rr_swap") /\ UNCHANGED answer
  <2>1. Wrote(i, "rollback_swap_pending", "pending") /\ Went(i, "rr_swap")
    BY <1>0, <1>1, <1>4, Outcomes DEF Phases, States, Places, Results
  <2>2. InstallerTypeOK'
    BY <1>0, <1>1, <1>2, <1>3, <1>4, <2>1, AtStart, Units
       DEF InstallerTypeOK, JournalRecord, ProcRecord, DaemonRecord, Files, Wrote, Went, Reported
  <2>3. PlaceOK'
    BY <1>0, <1>1, <1>2, <1>3, <1>4, <2>1, AtStart, Units
       DEF PlaceOK, BackPlaces, BackPhases, TakenBack, AtWork, id, Wrote, Went
  <2> QED
    BY <1>0, <1>1, <1>2, <1>3, <1>4, <2>1, <2>2, <2>3, AtStart, Units, LocalSuffices
       DEF Left, BackPlaces, BackPhases, TakenBack, Fits, Won, MayBeFrozen, Wrote, Went, Reported
<1>5. CASE End("failed") /\ UNCHANGED <<daemon, journal>>
  <2>1. Reported("failed")
    BY <1>0, <1>1, <1>5, Outcomes DEF Phases, States, Places, Results
  <2>2. InstallerTypeOK'
    BY <1>0, <1>1, <1>2, <1>3, <1>5, <2>1, AtStart
       DEF InstallerTypeOK, JournalRecord, ProcRecord, DaemonRecord, Files, Wrote, Went, Reported
  <2>3. PlaceOK'
    BY <2>1, IdleIsQuiet DEF Reported, Idle
  <2> QED
    BY <1>0, <1>1, <1>2, <1>3, <1>5, <2>1, <2>2, <2>3, AtStart, LocalSuffices
       DEF Left, BackPlaces, BackPhases, TakenBack, Fits, Won, MayBeFrozen, Wrote, Went, Reported
<1> QED
  BY <1>4, <1>5 DEF RequestedStop

LEMMA AskedSwapStep ==
  ASSUME BoxInv, RequestedSwap
  PROVE  BoxInv' /\ BoxMoves
<1>0. AtWork /\ proc.at = "rr_swap"
  BY DEF RequestedSwap, AtWork
<1>1. PICK i \in Update : i = proc.u
  BY <1>0, Working DEF BoxInv, AtWork, id
<1>2. TakenBack(i) /\ proc.cmd = "rollback" /\ installed = "new" /\ spare[i] = "old" /\ daemon.unit = "stopped"
  BY <1>0, <1>1, AtStart DEF BoxInv, PlaceOK, BackPlaces
<1>3. UNCHANGED <<candidate, retained, journal, daemon, faults>>
  BY DEF RequestedSwap, dirs
<1>4. CASE /\ installed' = spare[i] /\ spare' = [spare EXCEPT ![i] = installed]
          /\ At("rr_start") /\ UNCHANGED answer
  <2>1. Went(i, "rr_start")
    BY <1>0, <1>1, <1>4, Outcomes DEF Phases, States, Places, Results
  <2>2. installed' = "old" /\ \A u \in Update : u # i => spare'[u] = spare[u]
    BY <1>0, <1>1, <1>2, <1>3, <1>4, AtStart DEF InstallerTypeOK
  <2>3. InstallerTypeOK'
    BY <1>0, <1>1, <1>2, <1>3, <1>4, <2>1, <2>2, AtStart
       DEF InstallerTypeOK, JournalRecord, ProcRecord, DaemonRecord, Files, Wrote, Went, Reported
  <2>4. PlaceOK'
    BY <1>0, <1>1, <1>2, <1>3, <1>4, <2>1, <2>2, AtStart
       DEF PlaceOK, BackPlaces, BackPhases, TakenBack, AtWork, id, Wrote, Went
  <2> QED
    BY <1>0, <1>1, <1>2, <1>3, <1>4, <2>1, <2>2, <2>3, <2>4, AtStart, LocalSuffices
       DEF Left, BackPlaces, BackPhases, TakenBack, Fits, Won, MayBeFrozen, Wrote, Went, Reported
<1>5. CASE End("failed") /\ UNCHANGED <<installed, spare>>
  <2>1. Reported("failed")
    BY <1>0, <1>1, <1>5, Outcomes DEF Phases, States, Places, Results
  <2>2. journal' = journal /\ spare' = spare /\ journal[i].state = "pending" /\ journal[i].phase \in BackPhases
    BY <1>0, <1>1, <1>2, <1>3, <1>5, AtStart DEF InstallerTypeOK, TakenBack
  <2>3. InstallerTypeOK'
    BY <1>0, <1>1, <1>2, <1>3, <1>5, <2>1, <2>2, AtStart
       DEF InstallerTypeOK, JournalRecord, ProcRecord, DaemonRecord, Files, Wrote, Went, Reported
  <2>4. PlaceOK'
    BY <2>1, IdleIsQuiet DEF Reported, Idle
  <2> QED
    BY <1>0, <1>1, <1>2, <1>3, <1>5, <2>1, <2>2, <2>3, <2>4, AtStart, LocalSuffices
       DEF Left, BackPlaces, BackPhases, TakenBack, Fits, Won, MayBeFrozen, Wrote, Went, Reported
<1> QED
  BY <1>4, <1>5, <1>1 DEF RequestedSwap, id

LEMMA AskedStartStep ==
  ASSUME BoxInv, RequestedStart
  PROVE  BoxInv' /\ BoxMoves
<1>0. AtWork /\ proc.at = "rr_start"
  BY DEF RequestedStart, AtWork
<1>1. PICK i \in Update : i = proc.u
  BY <1>0, Working DEF BoxInv, AtWork, id
<1>2. TakenBack(i) /\ proc.cmd = "rollback" /\ installed = "old" /\ daemon.unit = "stopped"
  BY <1>0, <1>1, AtStart DEF BoxInv, PlaceOK, BackPlaces
<1>3. UNCHANGED <<installed, candidate, retained, spare, faults>>
  BY DEF RequestedStart, dirs
<1>4. CASE Start /\ Persist("rolled_back", "rolled_back") /\ End("rolled_back")
  <2>1. Wrote(i, "rolled_back", "rolled_back") /\ Reported("rolled_back")
    BY <1>0, <1>1, <1>4, Outcomes DEF Phases, States, Places, Results
  <2>2. InstallerTypeOK'
    BY <1>0, <1>1, <1>2, <1>3, <1>4, <2>1, AtStart, Units
       DEF InstallerTypeOK, JournalRecord, ProcRecord, DaemonRecord, Files, Wrote, Went, Reported
  <2>3. PlaceOK'
    BY <2>1, IdleIsQuiet DEF Reported, Idle
  <2> QED
    BY <1>0, <1>1, <1>2, <1>3, <1>4, <2>1, <2>2, <2>3, AtStart, Units, LocalSuffices
       DEF Left, BackPlaces, BackPhases, TakenBack, Fits, Won, MayBeFrozen, Wrote, Went, Reported
<1>5. CASE Start /\ End("failed") /\ UNCHANGED journal
  <2>1. Reported("failed")
    BY <1>0, <1>1, <1>5, Outcomes DEF Phases, States, Places, Results
  <2>2. InstallerTypeOK'
    BY <1>0, <1>1, <1>2, <1>3, <1>5, <2>1, AtStart, Units
       DEF InstallerTypeOK, JournalRecord, ProcRecord, DaemonRecord, Files, Wrote, Went, Reported
  <2>3. PlaceOK'
    BY <2>1, IdleIsQuiet DEF Reported, Idle
  <2> QED
    BY <1>0, <1>1, <1>2, <1>3, <1>5, <2>1, <2>2, <2>3, AtStart, Units, LocalSuffices
       DEF Left, BackPlaces, BackPhases, TakenBack, Fits, Won, MayBeFrozen, Wrote, Went, Reported
<1> QED
  BY <1>4, <1>5, <1>0, <1>1, AtStart DEF RequestedStart, id, Keep

-----------------------------------------------------------------------------
\* The readings of the journal, and the faults.

\* A step that ends a command, or leaves the installer where it is, and touches no file.
LEMMA Rests ==
  ASSUME BoxInv, UNCHANGED <<dirs, journal>>,
         proc' = Idle \/ proc' = proc,
         answer' \in [Caller -> Results], faults' \in 0..MaxFaults,
         daemon' = daemon \/ (daemon' = Running /\ (proc' = Idle \/ daemon.unit = "active"))
  PROVE  BoxInv' /\ (\A u \in Update : Won(u) => Won(u)') /\ (daemon'.run => daemon.run)
<1>1. UNCHANGED <<installed, candidate, retained, spare, journal>>
  BY DEF dirs
<1>2. /\ daemon \in DaemonRecord /\ daemon' \in DaemonRecord
      /\ daemon'.run => daemon.run
      /\ daemon.unit = "active" => daemon'.unit = "active"
      /\ daemon' = daemon \/ (daemon'.unit = "active" /\ daemon'.exe = installed)
  <2>1. /\ Running \in DaemonRecord /\ Running.unit = "active"
        /\ Running.exe = installed /\ Running.run = FALSE
    BY DEF BoxInv, InstallerTypeOK, DaemonRecord, Running
  <2>2. daemon \in DaemonRecord
    BY DEF BoxInv, InstallerTypeOK, DaemonRecord
  <2> QED
    BY <2>1, <2>2
<1>3. InstallerTypeOK'
  BY <1>1, <1>2 DEF BoxInv, InstallerTypeOK, DaemonRecord
<1>4. \A u \in Update : TakenBack(u)' = TakenBack(u) /\ Held(u)' = Held(u)
  BY <1>1 DEF TakenBack, Held
<1>5. \A u \in Update : JournalOK(u)'
  BY <1>1, <1>2, <1>4 DEF BoxInv, JournalOK
<1>6. OneHeld' /\ Resting'
  BY <1>1, <1>2, <1>4 DEF BoxInv, OneHeld, Resting
<1>7. DaemonOK'
  BY <1>1, <1>2 DEF BoxInv, DaemonOK
<1>8. PlaceOK'
  <2>1. CASE proc' = Idle
    BY <2>1, IdleIsQuiet
  <2>2. CASE proc' = proc /\ proc' # Idle
    <3>1. daemon'.unit = daemon.unit
      BY <1>2, <2>2
    <3> QED
      BY <1>1, <2>2, <3>1 DEF BoxInv, PlaceOK, AtWork, id, TakenBack, BackPlaces
  <2> QED
    BY <2>1, <2>2
<1>9. \A u \in Update : Won(u) => Won(u)'
  <2> SUFFICES ASSUME NEW u \in Update, Won(u) PROVE Won(u)'
    OBVIOUS
  <2>1. CASE proc' = Idle
    <3>1. proc'.u # u
      BY <2>1, Nobodies DEF Idle, Nobody
    <3> QED
      BY <1>1, <1>4, <3>1 DEF Won
  <2>2. CASE proc' = proc
    BY <1>1, <1>4, <2>2 DEF Won
  <2> QED
    BY <2>1, <2>2
<1> QED
  BY <1>2, <1>3, <1>5, <1>6, <1>7, <1>8, <1>9 DEF BoxInv

\* A command that only reports.
LEMMA ReportStep ==
  ASSUME BoxInv, proc.at = "read", UNCHANGED <<dirs, journal, daemon, faults>>,
         NEW result \in Results, End(result), \A u \in Update : proc.u = u => Fits(result, u)
  PROVE  BoxInv' /\ BoxMoves
<1>1. InstallerTypeOK /\ proc.at # "idle"
  BY DEF BoxInv
<1>2. proc' = Idle /\ answer' \in [Caller -> Results]
      /\ \A c \in Caller : answer'[c] = IF proc.owner = c THEN result ELSE answer[c]
  BY <1>1, Ending
<1>3. BoxInv' /\ (\A u \in Update : Won(u) => Won(u)') /\ (daemon'.run => daemon.run)
  BY <1>1, <1>2, Rests DEF InstallerTypeOK
<1>4. UNCHANGED journal
  OBVIOUS
<1>5. \A u \in Update : Fits(result, u) => Fits(result, u)'
  BY <1>3, <1>4 DEF Fits
<1>6. \A u \in Update : proc'.u # u
  BY <1>2, Nobodies DEF Idle, Nobody
<1> QED
  BY <1>2, <1>3, <1>4, <1>5, <1>6 DEF BoxMoves

LEMMA ApplyReadStep ==
  ASSUME BoxInv, ApplyRead,
         \A u \in Update : Reading(u) => journal[u] = NoJournal /\ \A v \in Update : ~Held(v)
  PROVE  BoxInv' /\ BoxMoves
<1>0. proc.at = "read" /\ proc.at # "idle" /\ proc.cmd = "apply" /\ InstallerTypeOK
  BY DEF ApplyRead, BoxInv
<1>1. PICK i \in Update : i = proc.u
  BY <1>0, Working DEF id
<1>2. /\ journal[i] = NoJournal /\ journal[i].state = "none" /\ JournalOK(i)
      /\ \A v \in Update : ~Held(v)
      /\ installed = "old" /\ daemon.unit = "active" /\ daemon.exe = "old"
  BY <1>0, <1>1 DEF Reading, BoxInv, Resting, DaemonOK, NoJournal
<1>3. UNCHANGED <<installed, candidate, retained, spare, daemon, faults>>
  BY DEF ApplyRead, dirs
<1>4. CASE End("failed") /\ UNCHANGED journal
  <2>1. "failed" \in Results /\ \A u \in Update : Fits("failed", u)
    BY DEF Results, States, Fits
  <2> QED
    BY <1>0, <1>3, <1>4, <2>1, ReportStep DEF dirs
<1>5. CASE /\ journal' = [journal EXCEPT ![i] = [state |-> "pending", phase |-> "preflight_pending",
                            old |-> installed, wasActive |-> Active, frozen |-> FALSE]]
           /\ At("preflight") /\ UNCHANGED answer
  <2> DEFINE r == [state |-> "pending", phase |-> "preflight_pending",
                   old |-> installed, wasActive |-> Active, frozen |-> FALSE]
  <2>1. /\ r \in JournalRecord /\ r.state = "pending" /\ r.old = "old" /\ r.wasActive
        /\ r.phase = "preflight_pending"
    BY <1>2 DEF JournalRecord, States, Phases, Active
  <2> HIDE DEF r
  <2>2. journal'[i] = r /\ \A v \in Update : v # i => journal'[v] = journal[v]
    BY <1>0, <1>5 DEF InstallerTypeOK, r
  <2>3. journal' \in [Update -> JournalRecord \cup {NoJournal}]
    BY <1>0, <1>5, <2>1 DEF InstallerTypeOK, JournalRecord, r
  <2>4. Went(i, "preflight")
    BY <1>0, <1>1, <1>5, Going DEF Went, Places
  <2>5. InstallerTypeOK'
    BY <1>0, <1>3, <1>5, <2>3, <2>4 DEF InstallerTypeOK, JournalRecord, ProcRecord, Went
  <2>6. spare[i] = "none"
    BY <1>2 DEF JournalOK, TakenBack
  <2>7. \A u \in Update : JournalOK(u)'
    <3>1. ASSUME NEW u \in Update, u # i PROVE JournalOK(u)'
      BY <1>2, <1>3, <2>2, <3>1 DEF BoxInv, JournalOK, TakenBack
    <3>2. JournalOK(i)'
      BY <1>2, <1>3, <2>1, <2>2, <2>6 DEF JournalOK, NoJournal
    <3> QED
      BY <3>1, <3>2
  <2>8. \A v \in Update : v # i => ~Held(v)'
    BY <1>2, <2>2 DEF Held
  <2>9. OneHeld' /\ Resting'
    BY <1>2, <1>3, <2>8 DEF OneHeld, Resting
  <2>10. DaemonOK'
    BY <1>2, <1>3 DEF DaemonOK
  <2>11. PlaceOK'
    BY <1>2, <1>3, <1>0, <2>1, <2>2, <2>4, <2>6 DEF PlaceOK, AtWork, BackPlaces, id, Went
  <2>12. \A u \in Update : Won(u) => Won(u)'
    <3> SUFFICES ASSUME NEW u \in Update, Won(u) PROVE Won(u)'
      OBVIOUS
    <3>1. u # i
      BY <1>2 DEF Won, TakenBack
    <3> QED
      BY <1>0, <2>2, <2>4, <3>1 DEF Won, TakenBack, Went
  <2>13. \A u \in Update : journal[u] = NoJournal /\ (~Reading(u) \/ proc' = proc) => journal'[u] = NoJournal
    BY <1>0, <1>1, <2>2, <2>4 DEF Reading, Went
  <2>14. \A u \in Update : journal[u].state \in {"deferred", "rolled_back"} => journal'[u].state = journal[u].state
    BY <1>2, <2>2
  <2>15. BoxInv'
    BY <2>5, <2>7, <2>9, <2>10, <2>11 DEF BoxInv
  <2>16. proc' # Idle /\ proc'.u = id /\ proc'.owner = proc.owner /\ proc'.at # "read" /\ proc'.cmd # "rollback"
    BY <1>0, <1>1, <2>4 DEF Went, id
  <2> QED
    BY <1>1, <1>3, <1>5, <2>2, <2>12, <2>13, <2>14, <2>15, <2>16 DEF BoxMoves, id
<1> QED
  BY <1>1, <1>2, <1>4, <1>5 DEF ApplyRead, Keep, id

LEMMA ReconcileReadStep ==
  ASSUME BoxInv, ReconcileRead
  PROVE  BoxInv' /\ BoxMoves
<1>0. proc.at = "read" /\ proc.at # "idle" /\ proc.cmd = "reconcile" /\ InstallerTypeOK
  BY DEF ReconcileRead, BoxInv
<1>1. PICK i \in Update : i = proc.u
  BY <1>0, Working DEF id
<1>2. JournalOK(i) /\ id = i
  BY <1>1 DEF BoxInv, id
<1>3. UNCHANGED <<installed, candidate, retained, spare, journal, daemon, faults>>
  BY DEF ReconcileRead, dirs
<1>4. CASE journal[i].state = "none" /\ End("not_started")
  BY <1>0, <1>3, <1>4, ReportStep DEF dirs, Results, Fits
<1>5. CASE journal[i].state \notin {"none", "pending"} /\ End(journal[i].state)
  <2>1. journal[i].state \in Results /\ Fits(journal[i].state, i)
    BY <1>0, <1>5 DEF InstallerTypeOK, Results, NoJournal, Fits, Won
  <2> QED
    BY <1>0, <1>1, <1>3, <1>5, <2>1, ReportStep DEF dirs
<1>6. CASE /\ journal[i].state = "pending" /\ UNCHANGED answer
           /\ \/ journal[i].phase \in BackPhases /\ proc' = [proc EXCEPT !.cmd = "rollback"]
              \/ /\ journal[i].phase \notin BackPhases
                 /\ At(IF installed = "new" THEN "rc_start" ELSE "rb")
  <2>1. proc \in ProcRecord
    BY <1>0, Working
  <2>2. /\ proc' \in ProcRecord /\ proc' # Idle /\ proc'.u = i /\ proc'.owner = proc.owner
        /\ \/ TakenBack(i) /\ proc'.at = "read" /\ proc'.cmd = "rollback"
           \/ /\ ~TakenBack(i) /\ proc'.cmd = "reconcile"
              /\ \/ installed = "new" /\ proc'.at = "rc_start"
                 \/ installed = "old" /\ proc'.at = "rb"
    BY <1>0, <1>1, <1>6, <2>1 DEF At, ProcRecord, Places, Commands, Idle, TakenBack, InstallerTypeOK
  <2>3. InstallerTypeOK'
    BY <1>0, <1>3, <1>6, <2>2 DEF InstallerTypeOK, ProcRecord
  <2>4. \A u \in Update : JournalOK(u)'
    BY <1>3 DEF BoxInv, JournalOK, TakenBack
  <2>5. OneHeld' /\ Resting' /\ DaemonOK'
    BY <1>3 DEF BoxInv, OneHeld, Resting, Held, DaemonOK
  <2>6. ~TakenBack(i) => spare[i] = "none"
    BY <1>2, <1>6 DEF JournalOK
  <2>7. PlaceOK'
    BY <1>3, <1>6, <2>2, <2>6 DEF PlaceOK, AtWork, BackPlaces, id
  <2>8. \A u \in Update : Won(u) => Won(u)'
    <3> SUFFICES ASSUME NEW u \in Update, Won(u) PROVE Won(u)'
      OBVIOUS
    <3>1. CASE u = i
      BY <1>3, <1>6, <2>2, <3>1 DEF Won, TakenBack
    <3>2. CASE u # i
      BY <1>3, <2>2, <3>2 DEF Won, TakenBack
    <3> QED
      BY <3>1, <3>2
  <2>9. \A u \in Update : proc'.u = u /\ proc'.cmd = "rollback" => Won(u)'
    BY <1>3, <2>2 DEF Won, TakenBack
  <2>10. BoxInv'
    BY <2>3, <2>4, <2>5, <2>7 DEF BoxInv
  <2> QED
    BY <1>2, <1>3, <1>6, <2>2, <2>8, <2>9, <2>10 DEF BoxMoves
<1> QED
  BY <1>2, <1>4, <1>5, <1>6 DEF ReconcileRead, BackPhases, At

LEMMA RollbackReadStep ==
  ASSUME BoxInv, RollbackRead, \A u \in Update : proc.u = u => Won(u)
  PROVE  BoxInv' /\ BoxMoves
<1>0. proc.at = "read" /\ proc.at # "idle" /\ proc.cmd = "rollback" /\ InstallerTypeOK
  BY DEF RollbackRead, BoxInv
<1>1. PICK i \in Update : i = proc.u
  BY <1>0, Working DEF id
<1>2. /\ JournalOK(i) /\ id = i
      /\ Held(i) \/ journal[i].state = "rolled_back"
      /\ journal[i].state \in {"succeeded", "rolled_back"} \/ TakenBack(i)
  BY <1>0, <1>1 DEF BoxInv, id, Won, Held, TakenBack
<1>3. journal[i] \in JournalRecord /\ journal[i].old = "old" /\ journal[i].wasActive
  BY <1>0, <1>2 DEF InstallerTypeOK, JournalRecord, JournalOK, NoJournal, TakenBack
<1>4. UNCHANGED <<installed, candidate, retained, spare, faults>>
  BY DEF RollbackRead, dirs
<1>5. \A result \in Results : End(result) => Reported(result)
  BY <1>0, Ending DEF Reported
<1>6. CASE journal[i].state = "rolled_back" /\ End("rolled_back") /\ UNCHANGED <<journal, daemon>>
  <2>1. "rolled_back" \in Results /\ Fits("rolled_back", i)
    BY <1>6 DEF Results, States, Fits
  <2> QED
    BY <1>0, <1>1, <1>4, <1>6, <2>1, ReportStep DEF dirs
<1>7. CASE End("failed") /\ UNCHANGED <<journal, daemon>>
  <2>1. "failed" \in Results /\ \A u \in Update : Fits("failed", u)
    BY DEF Results, States, Fits
  <2> QED
    BY <1>0, <1>4, <1>7, <2>1, ReportStep DEF dirs
<1>8. CASE /\ journal[i].state # "rolled_back" /\ installed = "old"
           /\ daemon' = CASE MayBeFrozen(journal[i]) /\ daemon.unit = "frozen" -> [daemon EXCEPT !.unit = "active"]
                          [] journal[i].wasActive /\ daemon.unit = "stopped" -> Running
                          [] OTHER -> daemon
           /\ \/ /\ journal' = [journal EXCEPT ![i] =
                      [journal[i] EXCEPT !.frozen = FALSE, !.phase = "rolled_back", !.state = "rolled_back"]]
                 /\ End("rolled_back")
              \/ End("failed") /\ UNCHANGED journal
  <2>1. TakenBack(i) /\ Held(i) /\ \A v \in Update : v # i => ~Held(v)
    BY <1>2, <1>8 DEF JournalOK, TakenBack, Held, BoxInv, OneHeld
  <2>2. /\ daemon \in DaemonRecord /\ (daemon.unit # "stopped" => daemon.exe = "old")
        /\ daemon.unit = "frozen" => MayBeFrozen(journal[i])
    <3>1. daemon \in DaemonRecord /\ (daemon.unit # "stopped" => daemon.exe = "old")
      BY <1>0, <1>8 DEF InstallerTypeOK, DaemonRecord, BoxInv, DaemonOK
    <3>2. ASSUME daemon.unit = "frozen" PROVE MayBeFrozen(journal[i])
      <4>1. PICK u \in Update : journal[u].state = "pending" /\ MayBeFrozen(journal[u])
        BY <3>2 DEF BoxInv, DaemonOK
      <4> QED
        BY <2>1, <4>1 DEF Held
    <3> QED
      BY <3>1, <3>2
  <2>3. /\ daemon' \in DaemonRecord /\ daemon'.unit = "active" /\ daemon'.exe = "old"
        /\ daemon'.run => daemon.run
    <3>1. CASE daemon.unit = "frozen"
      BY <1>8, <2>2, <3>1 DEF DaemonRecord
    <3>2. CASE daemon.unit = "stopped"
      BY <1>3, <1>8, <2>2, <3>2 DEF DaemonRecord, Running
    <3>3. CASE daemon.unit = "active"
      BY <1>8, <2>2, <3>3 DEF DaemonRecord
    <3> QED
      BY <2>2, <3>1, <3>2, <3>3 DEF DaemonRecord
  <2>4. /\ journal' \in [Update -> JournalRecord \cup {NoJournal}]
        /\ \A v \in Update : v # i => journal'[v] = journal[v]
        /\ journal'[i] \in JournalRecord /\ journal'[i].old = "old" /\ journal'[i].wasActive
        /\ \/ journal'[i].state = "rolled_back" /\ Reported("rolled_back")
           \/ TakenBack(i) /\ journal' = journal /\ Reported("failed")
    <3>1. CASE /\ journal' = [journal EXCEPT ![i] =
                      [journal[i] EXCEPT !.frozen = FALSE, !.phase = "rolled_back", !.state = "rolled_back"]]
               /\ End("rolled_back")
      <4> DEFINE r == [journal[i] EXCEPT !.frozen = FALSE, !.phase = "rolled_back", !.state = "rolled_back"]
      <4>1. r \in JournalRecord /\ r.state = "rolled_back" /\ r.old = "old" /\ r.wasActive
        BY <1>3 DEF JournalRecord, Phases, States
      <4>2. journal' = [journal EXCEPT ![i] = r]
        BY <3>1
      <4>3. Reported("rolled_back")
        BY <1>5, <3>1 DEF Results, States
      <4> HIDE DEF r
      <4>4. journal'[i] = r /\ \A v \in Update : v # i => journal'[v] = journal[v]
        BY <1>0, <4>2 DEF InstallerTypeOK
      <4>5. journal' \in [Update -> JournalRecord \cup {NoJournal}]
        BY <1>0, <4>1, <4>2 DEF InstallerTypeOK, JournalRecord
      <4> QED
        BY <4>1, <4>3, <4>4, <4>5
    <3>2. CASE End("failed") /\ UNCHANGED journal
      <4>1. Reported("failed")
        BY <1>5, <3>2 DEF Results, States
      <4> QED
        BY <1>0, <1>3, <2>1, <3>2, <4>1 DEF InstallerTypeOK, JournalRecord
    <3> QED
      BY <1>8, <3>1, <3>2
  <2>5. InstallerTypeOK'
    BY <1>0, <1>4, <2>3, <2>4 DEF InstallerTypeOK, JournalRecord, DaemonRecord, Reported
  <2>6. \A u \in Update : JournalOK(u)'
    <3>1. ASSUME NEW u \in Update, u # i PROVE JournalOK(u)'
      BY <1>4, <2>1, <2>4, <3>1 DEF BoxInv, JournalOK, TakenBack, Held
    <3>2. JournalOK(i)'
      BY <1>2, <1>4, <1>8, <2>1, <2>4 DEF JournalOK, TakenBack, JournalRecord, NoJournal, States
    <3> QED
      BY <3>1, <3>2
  <2>7. \A v \in Update : v # i => ~Held(v)'
    BY <2>1, <2>4 DEF Held
  <2>8. OneHeld' /\ Resting' /\ DaemonOK'
    BY <1>4, <1>8, <2>3, <2>7 DEF OneHeld, Resting, DaemonOK
  <2>9. proc' = Idle /\ PlaceOK'
    BY <2>4, IdleIsQuiet DEF Reported
  <2>10. \A u \in Update : proc'.u # u
    BY <2>9, Nobodies DEF Idle, Nobody
  <2>11. \A u \in Update : Won(u) => Won(u)'
    <3> SUFFICES ASSUME NEW u \in Update, Won(u) PROVE Won(u)'
      OBVIOUS
    <3>1. CASE u = i
      BY <2>1, <2>4, <2>10, <3>1 DEF Won, TakenBack
    <3>2. CASE u # i
      BY <2>4, <2>10, <3>2 DEF Won, TakenBack
    <3> QED
      BY <3>1, <3>2
  <2>12. \A c \in Caller, r \in Results : answer'[c] = r /\ answer[c] # r => Fits(r, i)'
    BY <2>4 DEF Reported, Fits
  <2>13. \A c \in Caller : answer'[c] = answer[c] \/ (proc.owner = c /\ proc' = Idle)
    BY <2>4 DEF Reported
  <2>14. \A u \in Update : journal[u] = NoJournal /\ (~Reading(u) \/ proc' = proc) => journal'[u] = NoJournal
    BY <1>3, <2>1, <2>4 DEF NoJournal, TakenBack
  <2>15. \A u \in Update : journal[u].state \in {"deferred", "rolled_back"} => journal'[u].state = journal[u].state
    BY <2>1, <2>4 DEF TakenBack
  <2>16. BoxInv'
    BY <2>5, <2>6, <2>8, <2>9 DEF BoxInv
  <2>17. \A v \in Update : v # id => journal'[v] = journal[v]
    BY <1>2, <2>4
  <2>18. \A c \in Caller, r \in Results, u \in Update :
           answer'[c] = r /\ answer[c] # r /\ proc.u = u => Fits(r, u)'
    BY <1>1, <2>12
  <2> QED
    BY <2>3, <2>9, <2>10, <2>11, <2>13, <2>14, <2>15, <2>16, <2>17, <2>18 DEF BoxMoves
<1>9. CASE /\ journal[i].state # "rolled_back" /\ installed = "new" /\ UNCHANGED <<daemon, answer>>
           /\ IF spare[i] # "old" THEN Persist("rollback_copy_pending", "pending") ELSE UNCHANGED journal
           /\ At("rr_copy")
  <2>1. /\ journal' \in [Update -> JournalRecord \cup {NoJournal}]
        /\ \A v \in Update : v # i => journal'[v] = journal[v]
        /\ journal'[i].state = "pending" /\ journal'[i].phase \in BackPhases
        /\ journal'[i] \in JournalRecord /\ journal'[i].old = "old" /\ journal'[i].wasActive
    <3>1. CASE spare[i] # "old"
      BY <1>0, <1>2, <1>3, <1>9, <3>1, Persisted DEF BackPhases, Phases, States
    <3>2. CASE spare[i] = "old"
      BY <1>0, <1>2, <1>3, <1>9, <3>2 DEF JournalOK, TakenBack, InstallerTypeOK, JournalRecord
    <3> QED
      BY <3>1, <3>2
  <2>2. Went(i, "rr_copy")
    BY <1>0, <1>1, <1>9, Going DEF Went, Places
  <2>3. InstallerTypeOK'
    BY <1>0, <1>4, <1>9, <2>1, <2>2 DEF InstallerTypeOK, JournalRecord, ProcRecord, Went
  <2>4. \A v \in Update : v # i => ~Held(v)
    BY <1>2, <1>9 DEF BoxInv, OneHeld
  <2>5. \A u \in Update : JournalOK(u)'
    <3>1. ASSUME NEW u \in Update, u # i PROVE JournalOK(u)'
      BY <1>4, <2>1, <2>4, <3>1 DEF BoxInv, JournalOK, TakenBack, Held
    <3>2. JournalOK(i)'
      BY <1>2, <1>4, <1>9, <2>1 DEF JournalOK, TakenBack, JournalRecord, NoJournal
    <3> QED
      BY <3>1, <3>2
  <2>6. OneHeld'
    BY <2>1, <2>4 DEF OneHeld, Held
  <2>7. Resting'
    BY <2>1 DEF Resting, Held
  <2>8. DaemonOK'
    BY <1>4, <1>9 DEF BoxInv, DaemonOK
  <2>9. PlaceOK'
    BY <1>0, <1>4, <1>9, <2>1, <2>2 DEF PlaceOK, AtWork, BackPlaces, BackPhases, TakenBack, id, Went
  <2>10. \A u \in Update : Won(u) => Won(u)'
    <3> SUFFICES ASSUME NEW u \in Update, Won(u) PROVE Won(u)'
      OBVIOUS
    <3>1. CASE u = i
      BY <2>1, <2>2, <3>1 DEF Won, TakenBack, Went, BackPlaces
    <3>2. CASE u # i
      BY <2>1, <2>2, <3>2 DEF Won, TakenBack, Went
    <3> QED
      BY <3>1, <3>2
  <2>11. BoxInv'
    BY <2>3, <2>5, <2>6, <2>7, <2>8, <2>9 DEF BoxInv
  <2>12. \A u \in Update : journal[u] = NoJournal /\ (~Reading(u) \/ proc' = proc) => journal'[u] = NoJournal
    BY <1>2, <1>9, <2>1 DEF NoJournal, TakenBack
  <2>13. \A u \in Update : journal[u].state \in {"deferred", "rolled_back"} => journal'[u].state = journal[u].state
    BY <1>2, <1>9, <2>1 DEF TakenBack
  <2>14. \A u \in Update : proc'.u = u => u = i
    BY <2>2 DEF Went
  <2> QED
    BY <1>0, <1>1, <1>2, <1>9, <2>1, <2>2, <2>10, <2>11, <2>12, <2>13, <2>14 DEF BoxMoves, Went
<1> QED
  BY <1>0, <1>2, <1>3, <1>6, <1>7, <1>8, <1>9 DEF RollbackRead, Keep, InstallerTypeOK, TakenBack

LEMMA FaultStep ==
  ASSUME BoxInv, Killed \/ DaemonRestarts \/ BoxRestarts
  PROVE  BoxInv' /\ BoxMoves
<1>1. InstallerTypeOK /\ UNCHANGED <<dirs, journal, answer>>
  BY DEF BoxInv, Killed, DaemonRestarts, BoxRestarts
<1>2. answer' \in [Caller -> Results] /\ faults' \in 0..MaxFaults
  BY <1>1, FaultBound DEF InstallerTypeOK, Killed, DaemonRestarts, BoxRestarts, Fault
<1>3. proc' \in {Idle, proc}
  BY DEF Killed, DaemonRestarts, BoxRestarts
<1>4. daemon' = daemon \/ (daemon' = Running /\ (proc' = Idle \/ daemon.unit = "active"))
  BY DEF Killed, DaemonRestarts, BoxRestarts
<1>5. BoxInv' /\ (\A u \in Update : Won(u) => Won(u)') /\ (daemon'.run => daemon.run)
  BY <1>1, <1>2, <1>3, <1>4, Rests
<1>6. \A u \in Update : proc'.u = u /\ proc'.cmd = "rollback" => proc.u = u /\ proc.cmd = "rollback"
  BY <1>3 DEF Idle
<1> QED
  BY <1>1, <1>3, <1>5, <1>6 DEF BoxMoves

LEMMA BoxStarts ==
  InstallerInit => BoxInv
<1> SUFFICES ASSUME InstallerInit PROVE BoxInv
  OBVIOUS
<1>1. InstallerTypeOK
  BY FaultBound DEF InstallerInit, InstallerTypeOK, Files, Results
<1>2. \A u \in Update : journal[u] = NoJournal /\ journal[u].state = "none" /\ retained[u] = "none" /\ spare[u] = "none"
  BY DEF InstallerInit, NoJournal
<1>3. installed = "old" /\ daemon.unit = "active" /\ daemon.exe = "old" /\ proc = Idle
  BY DEF InstallerInit
<1>4. \A u \in Update : JournalOK(u) /\ ~Held(u)
  BY <1>2, <1>3 DEF JournalOK, Held
<1>5. OneHeld /\ Resting /\ DaemonOK
  BY <1>3, <1>4 DEF OneHeld, Resting, DaemonOK
<1>6. PlaceOK
  BY <1>3 DEF PlaceOK, AtWork, Idle, BackPlaces
<1> QED
  BY <1>1, <1>4, <1>5, <1>6 DEF BoxInv

\* A step of the Box: one of the installer, or a fault.
LEMMA BoxStep ==
  ASSUME BoxInv,
         \A u \in Update : Reading(u) => journal[u] = NoJournal /\ \A v \in Update : ~Held(v),
         \A u \in Update : proc.u = u /\ proc.cmd = "rollback" => Won(u),
         Installing \/ Killed \/ DaemonRestarts \/ BoxRestarts
  PROVE  BoxInv' /\ BoxMoves
<1>1. CASE ApplyRead
  BY <1>1, ApplyReadStep
<1>2. CASE RollbackRead
  BY <1>2, RollbackReadStep DEF RollbackRead
<1>3. CASE Killed \/ DaemonRestarts \/ BoxRestarts
  BY <1>3, FaultStep
<1> QED
  BY <1>1, <1>2, <1>3, PreflightStep, CopyStep, ReadyStep, FreezeStep, FrozenStep, StopStep, ExchangeStep,
     RenameStep, StartStep, VerifyStep, BackBeginStep, BackStopStep, BackSwapStep, BackStartStep,
     ReconcileReadStep, RecoverStep, SpareStep, AskedStopStep, AskedSwapStep, AskedStartStep
     DEF Installing

-----------------------------------------------------------------------------
\* The executors: what the rows, the commands on their way and the memory of an executor say of a journal.

Works == [at : Steps \ {"idle"}, u : Update, js : Open, cmd : Commands \cup {"none", "status"},
          code : Closed \cup {"none"}, got : Results]
JobStates == {"none"} \cup Open \cup Closed
Mail == [cmd : Commands, u : Update, owner : Caller \cup {Nobody}]

RowsTypeOK ==
  /\ leader \in Caller /\ past \subseteq Caller
  /\ job \in [Update -> JobStates]
  /\ status \in {"pending", "updating", "blocked", "current", "deferred", "failed"}
  /\ run \in {"none", "claimed", "sent"}
  /\ ex \in [Caller -> Works \cup {NoWork}]
  /\ inbox \subseteq Mail

Chosen(u) == job[u] \notin {"none", "deferred"}
\* An apply that has not read its journal, on its way or with the lock.
Waiting(u) == Reading(u) \/ \E m \in inbox : m.cmd = "apply" /\ m.u = u
\* A rollback asked for by an executor.
Taking(u) == (proc.cmd = "rollback" /\ proc.u = u) \/ \E m \in inbox : m.cmd = "rollback" /\ m.u = u

JobOK(u) ==
  /\ job[u] \in {"none", "staging", "draining"} =>
       journal[u] = NoJournal /\ proc.u # u /\ \A m \in inbox : m.u # u
  /\ job[u] = "deferred" => journal[u].state \in {"none", "deferred"}
  /\ job[u] = "failed" => journal[u].state = "rolled_back"
  /\ job[u] \in {"verifying", "succeeded"} => Won(u)
  /\ Waiting(u) => job[u] = "applying" /\ journal[u] = NoJournal
  /\ Taking(u) => Won(u)

OneChosen == \A u, v \in Update : Chosen(u) /\ Chosen(v) => u = v
OneApply ==
  /\ \A m, n \in inbox : m.cmd = "apply" /\ n.cmd = "apply" => m = n
  /\ proc.at = "read" /\ proc.cmd = "apply" => \A m \in inbox : m.cmd # "apply"

StatusOK ==
  /\ \A u \in Update : /\ job[u] \in Open => status \in Fenced
                       /\ job[u] = "succeeded" => status = "current"
                       /\ job[u] = "failed" => status = "failed"
  /\ status = "current" => \E u \in Update : job[u] = "succeeded"
RunOK == /\ status \in Fenced => run = "none"
         /\ daemon.run => run = "sent"

\* The position of an executor, which may have lost its lease: what it will write is still true.
WorkOK(w) ==
  w # NoWork =>
    /\ Fits(w.got, w.u)
    /\ w.code = "deferred" => w.js = "staging" \/ journal[w.u].state = "deferred"
    /\ w.code = "failed" => journal[w.u].state = "rolled_back"
    /\ w.code # "none" <=> w.at \in {"close", "reopen", "commit"}
    /\ w.cmd = "rollback" => w.at \in {"inspect", "await"} /\ w.js = "verifying"
    /\ w.at = "verify" => w.js = "verifying"
    /\ w.at \in {"await", "inspect", "accept"} => w.js \in {"applying", "verifying"}
    /\ w.at \in {"health", "stage", "settle"} => w.js = "staging"
    /\ w.at \in {"install", "drain", "apply"} => w.js = "draining"
\* The leader remembers the row as it is.
Current(e, w) ==
  leader = e /\ w # NoWork => /\ job[w.u] = w.js
                              /\ w.code = "succeeded" => w.js = "verifying"
\* Only an executor that waits is owed an answer, one and about its own update.
MailOK(e) ==
  /\ answer[e] # "none" => proc.owner # e /\ \A m \in inbox : m.owner # e
  /\ proc.owner = e => \A m \in inbox : m.owner # e
  /\ \A m, n \in inbox : m.owner = e /\ n.owner = e => m = n
  /\ answer[e] # "none" => ex[e].at = "await" /\ Fits(answer[e], ex[e].u)
  /\ proc.owner = e => ex[e].at = "await" /\ ex[e].u = proc.u
  /\ \A m \in inbox : m.owner = e => ex[e].at = "await" /\ ex[e].u = m.u
LeadOK == /\ leader \notin past
          /\ \A e \in Caller : ex[e] # NoWork => e \in past \cup {leader}

RowsInv ==
  /\ RowsTypeOK
  /\ \A u \in Update : JobOK(u)
  /\ OneChosen /\ OneApply /\ StatusOK /\ RunOK /\ LeadOK
  /\ \A e \in Caller : WorkOK(ex[e]) /\ Current(e, ex[e]) /\ MailOK(e)

IInv == BoxInv /\ RowsInv

LEMMA Initially ==
  Init => IInv
<1> SUFFICES ASSUME Init PROVE IInv
  OBVIOUS
<1>1. BoxInv
  BY BoxStarts DEF Init
<1>2. RowsTypeOK
  BY Executors DEF Init, RowsTypeOK, JobStates
<1>3. /\ \A u \in Update : job[u] = "none" /\ journal[u] = NoJournal
      /\ \A e \in Caller : ex[e] = NoWork /\ answer[e] = "none"
      /\ inbox = {} /\ proc = Idle /\ status = "pending" /\ past = {} /\ run = "none" /\ ~daemon.run
  BY DEF Init, InstallerInit
<1>4. \A u \in Update : JobOK(u)
  BY <1>3, Nobodies DEF JobOK, Waiting, Reading, Taking, Idle, Nobody
<1>5. OneChosen /\ OneApply /\ StatusOK /\ RunOK /\ LeadOK
  BY <1>3 DEF OneChosen, Chosen, OneApply, Idle, StatusOK, Open, Fenced, RunOK, LeadOK
<1>6. \A e \in Caller : WorkOK(ex[e]) /\ Current(e, ex[e]) /\ MailOK(e)
  BY <1>3, Nobodies DEF WorkOK, Current, MailOK, Idle, Nobody
<1> QED
  BY <1>1, <1>2, <1>4, <1>5, <1>6 DEF IInv, RowsInv

\* What the rows promise to the installer.
LEMMA Promised ==
  ASSUME IInv
  PROVE  /\ \A u \in Update : Reading(u) => journal[u] = NoJournal /\ \A v \in Update : ~Held(v)
         /\ \A u \in Update : proc.u = u /\ proc.cmd = "rollback" => Won(u)
         /\ \A u \in Update : Held(u) => Chosen(u)
<1>1. \A u \in Update : JobOK(u) /\ job[u] \in JobStates
  BY DEF IInv, RowsInv, RowsTypeOK
<1>2. \A u \in Update : Held(u) => Chosen(u)
  BY <1>1 DEF JobOK, Held, Chosen, NoJournal
<1>3. ASSUME NEW u \in Update, Reading(u) PROVE journal[u] = NoJournal /\ \A v \in Update : ~Held(v)
  <2>1. job[u] = "applying" /\ journal[u] = NoJournal
    BY <1>1, <1>3 DEF JobOK, Waiting
  <2>2. ~Held(u) /\ Chosen(u)
    BY <2>1 DEF Held, NoJournal, Chosen
  <2> QED
    BY <1>2, <2>1, <2>2 DEF IInv, RowsInv, OneChosen
<1> QED
  BY <1>1, <1>2, <1>3 DEF JobOK, Taking

\* A step of the Box keeps what the rows say.
LEMMA BoxKeepsRows ==
  ASSUME IInv, BoxInv', BoxMoves, UNCHANGED updateVars
  PROVE  IInv'
<1>0. UNCHANGED <<leader, past, job, status, run, ex, inbox>> /\ RowsInv
  BY DEF updateVars, IInv
<1>1. RowsTypeOK'
  BY <1>0 DEF RowsInv, RowsTypeOK
<1>2. ASSUME NEW u \in Update PROVE JobOK(u)'
  <2>1. JobOK(u) /\ JournalOK(u)
    BY DEF IInv, RowsInv, BoxInv
  <2>2. proc'.u = u => proc.u = u
    BY Nobodies DEF BoxMoves, Idle, Nobody, id
  <2>3. Reading(u)' => Reading(u) /\ proc' = proc
    BY Nobodies DEF BoxMoves, Reading, Idle, Nobody, id
  <2>4. Waiting(u)' => Waiting(u) /\ journal'[u] = NoJournal
    <3>1. CASE Reading(u)'
      BY <2>1, <2>3, <3>1 DEF JobOK, Waiting, BoxMoves
    <3>2. CASE ~Reading(u)' /\ Waiting(u)'
      <4>1. PICK m \in inbox : m.cmd = "apply" /\ m.u = u
        BY <1>0, <3>2 DEF Waiting
      <4>2. ~Reading(u)
        BY <1>0, <4>1 DEF RowsInv, OneApply, Reading
      <4> QED
        BY <2>1, <4>1, <4>2 DEF JobOK, Waiting, BoxMoves
    <3> QED
      BY <3>1, <3>2
  <2>5. Won(u) => Won(u)'
    BY DEF BoxMoves
  <2>6. Taking(u)' => Won(u)'
    BY <1>0, <2>1, <2>5 DEF BoxMoves, JobOK, Taking
  <2>7. journal[u].state \in {"deferred", "rolled_back"} => journal'[u].state = journal[u].state
    BY DEF BoxMoves
  <2>8. journal[u] = NoJournal /\ ~Waiting(u) => journal'[u] = NoJournal
    BY DEF BoxMoves, Waiting
  <2>9. journal[u].state = "none" => journal[u] = NoJournal
    BY <2>1 DEF JournalOK
  <2>10. job[u] \in {"none", "staging", "draining", "deferred"} => ~Waiting(u)
    BY <2>1 DEF JobOK
  <2> QED
    BY <1>0, <2>1, <2>2, <2>4, <2>5, <2>6, <2>7, <2>8, <2>9, <2>10 DEF JobOK, NoJournal
<1>3. OneChosen' /\ StatusOK' /\ LeadOK'
  BY <1>0 DEF RowsInv, OneChosen, Chosen, StatusOK, LeadOK
<1>4. OneApply'
  <2>1. proc'.at = "read" /\ proc'.cmd = "apply" => proc.at = "read" /\ proc.cmd = "apply"
    BY DEF BoxMoves, Idle
  <2> QED
    BY <1>0, <2>1 DEF RowsInv, OneApply
<1>5. RunOK'
  BY <1>0 DEF RowsInv, RunOK, BoxMoves
<1>6. ASSUME NEW u \in Update, NEW r \in Results, Fits(r, u) PROVE Fits(r, u)'
  BY <1>6 DEF Fits, BoxMoves
<1>7. ASSUME NEW e \in Caller PROVE WorkOK(ex[e])' /\ Current(e, ex[e])' /\ MailOK(e)'
  <2>1. ex'[e] = ex[e] /\ WorkOK(ex[e]) /\ Current(e, ex[e]) /\ MailOK(e)
    BY <1>0 DEF RowsInv
  <2>2. ex[e] \in Works \/ ex[e] = NoWork
    BY <1>0 DEF RowsInv, RowsTypeOK
  <2>3. WorkOK(ex[e])'
    <3>1. CASE ex[e] = NoWork
      BY <2>1, <3>1 DEF WorkOK
    <3>2. CASE ex[e] # NoWork
      <4>1. ex[e].u \in Update /\ ex[e].got \in Results
        BY <2>2, <3>2 DEF Works
      <4>2. Fits(ex[e].got, ex[e].u) /\ Fits(ex[e].got, ex[e].u)'
        BY <1>0, <1>6, <2>1, <3>2, <4>1 DEF WorkOK
      <4>3. journal[ex[e].u].state \in {"deferred", "rolled_back"} => journal'[ex[e].u].state = journal[ex[e].u].state
        BY <4>1 DEF BoxMoves
      <4> QED
        BY <2>1, <3>2, <4>1, <4>2, <4>3 DEF WorkOK
    <3> QED
      BY <3>1, <3>2
  <2>4. Current(e, ex[e])'
    BY <1>0, <2>1 DEF Current
  <2>5. MailOK(e)'
    <3>1. proc'.owner = e => proc.owner = e /\ proc'.u = proc.u
      BY Nobodies DEF BoxMoves, Idle, Nobody, id
    <3>2. ASSUME answer'[e] # "none" PROVE ex[e].at = "await" /\ Fits(answer[e], ex[e].u)'
      <4>1. ex[e].at = "await"
        BY <2>1, <3>2 DEF MailOK, BoxMoves
      <4>2. ex[e].u \in Update
        BY <2>2, <4>1 DEF Works, NoWork
      <4>3. answer'[e] \in Results /\ answer[e] \in Results
        BY DEF IInv, BoxInv, InstallerTypeOK
      <4>4. ASSUME NEW r \in Results, NEW u \in Update, r = answer'[e], u = ex[e].u PROVE Fits(r, u)'
        <5>1. CASE r = answer[e]
          BY <1>6, <2>1, <3>2, <4>4, <5>1 DEF MailOK
        <5>2. CASE r # answer[e]
          BY <2>1, <4>4, <5>2 DEF BoxMoves, MailOK
        <5> QED
          BY <5>1, <5>2
      <4>5. \A r \in Results, u \in Update : r = answer'[e] /\ u = ex[e].u => Fits(r, u)'
        BY <4>4
      <4> QED
        BY <1>0, <4>1, <4>2, <4>3, <4>5 DEF Fits
    <3>3. \A m \in inbox' : m.owner = e => ex'[e].at = "await" /\ ex'[e].u = m.u
      BY <1>0, <2>1 DEF MailOK
    <3>4. proc'.owner = e => ex'[e].at = "await" /\ ex'[e].u = proc'.u
      BY <2>1, <3>1 DEF MailOK
    <3>5. answer'[e] # "none" => proc'.owner # e /\ \A m \in inbox' : m.owner # e
      BY <1>0, <2>1, <3>1, Nobodies DEF MailOK, BoxMoves, Idle, Nobody
    <3>6. proc'.owner = e => \A m \in inbox' : m.owner # e
      BY <1>0, <2>1, <3>1 DEF MailOK
    <3>7. \A m, n \in inbox' : m.owner = e /\ n.owner = e => m = n
      BY <1>0, <2>1 DEF MailOK
    <3> QED
      BY <1>0, <3>2, <3>3, <3>4, <3>5, <3>6, <3>7 DEF MailOK
  <2> QED
    BY <2>3, <2>4, <2>5
<1> QED
  BY <1>1, <1>2, <1>3, <1>4, <1>5, <1>7 DEF IInv, RowsInv

-----------------------------------------------------------------------------
\* The steps of the executors leave the files and the journals alone.

LEMMA BoxStays ==
  ASSUME BoxInv, UNCHANGED <<installed, candidate, retained, spare, journal>>,
         daemon' \in DaemonRecord, daemon'.unit = daemon.unit, daemon'.exe = daemon.exe,
         proc' \in ProcRecord \cup {Idle},
         \/ proc'.at = proc.at /\ proc'.u = proc.u /\ proc'.cmd = proc.cmd
         \/ proc = Idle /\ proc'.at = "read",
         answer' \in [Caller -> Results], faults' \in 0..MaxFaults
  PROVE  BoxInv' /\ \A u \in Update : Won(u) => Won(u)'
<1>1. InstallerTypeOK'
  BY DEF BoxInv, InstallerTypeOK, ProcRecord, DaemonRecord
<1>2. \A u \in Update : TakenBack(u)' = TakenBack(u) /\ Held(u)' = Held(u)
  BY DEF TakenBack, Held
<1>3. \A u \in Update : JournalOK(u)'
  BY <1>2 DEF BoxInv, JournalOK
<1>4. OneHeld' /\ Resting' /\ DaemonOK'
  BY <1>2 DEF BoxInv, OneHeld, Resting, DaemonOK
<1>5. PlaceOK'
  <2>1. CASE proc'.at = "read"
    BY <2>1 DEF PlaceOK, AtWork, BackPlaces
  <2>2. CASE proc'.at = proc.at /\ proc'.u = proc.u /\ proc'.cmd = proc.cmd
    BY <2>2 DEF BoxInv, PlaceOK, AtWork, id, TakenBack, BackPlaces
  <2> QED
    BY <2>1, <2>2
<1>6. \A u \in Update : Won(u) => Won(u)'
  BY <1>2 DEF Won
<1> QED
  BY <1>1, <1>3, <1>4, <1>5, <1>6 DEF BoxInv

\* A step of one executor that sends nothing and waits for nothing: it becomes w and may write a row.
LEMMA Walks ==
  ASSUME IInv, NEW e \in Caller, NEW w \in Works \cup {NoWork},
         ex' = [ex EXCEPT ![e] = w], job' \in [Update -> JobStates], job' = job \/ leader = e,
         UNCHANGED <<installed, candidate, retained, spare, journal, proc, faults, answer,
                     leader, past, run, inbox>>,
         daemon' \in DaemonRecord, daemon'.unit = daemon.unit, daemon'.exe = daemon.exe,
         daemon'.run = daemon.run,
         status' \in {"pending", "updating", "blocked", "current", "deferred", "failed"},
         ex[e].at # "await",
         w # NoWork => e \in past \cup {leader},
         WorkOK(w), Current(e, w)',
         \A u \in Update : job'[u] = job[u] \/ JobOK(u)', OneChosen', StatusOK', status' \in Fenced => run = "none"
  PROVE  IInv'
<1>1. InstallerTypeOK /\ RowsInv
  BY DEF IInv, BoxInv
<1>2. BoxInv' /\ \A v \in Update : Won(v) => Won(v)'
  BY BoxStays, <1>1 DEF IInv, InstallerTypeOK, ProcRecord
<1>3. /\ ex'[e] = w /\ \A f \in Caller : f # e => ex'[f] = ex[f]
  BY <1>1 DEF RowsInv, RowsTypeOK
<1>4. RowsTypeOK'
  BY <1>1 DEF RowsInv, RowsTypeOK
<1>5. \A v \in Update : JobOK(v)'
  <2>1. ASSUME NEW v \in Update, job'[v] = job[v] PROVE JobOK(v)'
    <3>1. JobOK(v) /\ job'[v] = job[v] /\ (Won(v) => Won(v)')
      BY <1>1, <1>2, <2>1 DEF RowsInv
    <3>2. Waiting(v)' = Waiting(v) /\ Taking(v)' = Taking(v)
      BY DEF Waiting, Reading, Taking
    <3> QED
      BY <3>1, <3>2 DEF JobOK
  <2> QED
    BY <2>1
<1>6. OneApply' /\ RunOK'
  BY <1>1 DEF RowsInv, OneApply, RunOK
<1>7. LeadOK'
  BY <1>1, <1>3 DEF RowsInv, LeadOK
<1>8. ASSUME NEW v \in Works \cup {NoWork}, WorkOK(v) PROVE WorkOK(v)'
  <2>1. v # NoWork => v.u \in Update
    BY DEF Works
  <2> QED
    BY <1>2, <1>8, <2>1 DEF WorkOK, Fits
<1>9. ASSUME NEW f \in Caller PROVE WorkOK(ex[f])' /\ Current(f, ex[f])' /\ MailOK(f)'
  <2>1. CASE f = e
    <3>1. WorkOK(w)'
      BY <1>8
    <3>2. answer[e] = "none" /\ proc.owner # e /\ \A m \in inbox : m.owner # e
      BY <1>1 DEF RowsInv, MailOK
    <3>3. WorkOK(ex[e])' /\ Current(e, ex[e])'
      BY <1>3, <3>1 DEF WorkOK, Fits, Current
    <3> QED
      BY <2>1, <3>2, <3>3 DEF MailOK
  <2>2. CASE f # e
    <3>1. ex[f] \in Works \cup {NoWork} /\ WorkOK(ex[f]) /\ Current(f, ex[f]) /\ MailOK(f)
      BY <1>1 DEF RowsInv, RowsTypeOK
    <3>2. \A v \in Works \cup {NoWork} : v = ex[f] => WorkOK(v)'
      BY <1>8, <3>1
    <3>3. WorkOK(ex[f])'
      BY <1>3, <2>2, <3>1, <3>2 DEF WorkOK, Fits
    <3>4. Current(f, ex[f])'
      BY <1>3, <2>2, <3>1 DEF Current
    <3>5. answer[f] # "none" => Fits(answer[f], ex[f].u)'
      <4> SUFFICES ASSUME answer[f] # "none" PROVE Fits(answer[f], ex[f].u)'
        OBVIOUS
      <4>1. ex[f].at = "await" /\ Fits(answer[f], ex[f].u)
        BY <3>1 DEF MailOK
      <4>2. ex[f].u \in Update
        BY <3>1, <4>1 DEF Works, NoWork
      <4>3. ex'[f] = ex[f]
        BY <1>3, <2>2
      <4> QED
        BY <1>2, <4>1, <4>2, <4>3 DEF Fits
    <3> QED
      BY <1>3, <2>2, <3>1, <3>3, <3>4, <3>5 DEF MailOK
  <2> QED
    BY <2>1, <2>2
<1> QED
  BY <1>2, <1>4, <1>5, <1>6, <1>7, <1>9 DEF IInv, RowsInv

LEMMA Strolls ==
  ASSUME IInv, NEW e \in Caller, ex[e] # NoWork, ex[e].at # "await",
         NEW w \in Works \cup {NoWork}, ex' = [ex EXCEPT ![e] = w],
         UNCHANGED <<installed, candidate, retained, spare, journal, proc, faults, answer,
                     leader, past, job, run, inbox>>,
         daemon' \in DaemonRecord, daemon'.unit = daemon.unit, daemon'.exe = daemon.exe,
         daemon'.run = daemon.run,
         status' = status \/ (status' = "blocked" /\ status \in Fenced),
         WorkOK(w),
         w # NoWork => /\ w.u = ex[e].u /\ w.js = ex[e].js
                       /\ leader = e /\ w.code = "succeeded" => w.js = "verifying"
  PROVE  IInv'
<1>1. RowsInv
  BY DEF IInv
<1>2. job' \in [Update -> JobStates]
  BY <1>1 DEF RowsInv, RowsTypeOK
<1>6. status' \in {"pending", "updating", "blocked", "current", "deferred", "failed"}
  BY <1>1 DEF RowsInv, RowsTypeOK
<1>7. /\ status' \in Fenced <=> status \in Fenced
      /\ status' # status => /\ status \notin {"current", "failed"}
                             /\ status' \notin {"current", "failed"}
  BY DEF Fenced
<1>8. OneChosen' /\ StatusOK' /\ (status' \in Fenced => run = "none")
  BY <1>1, <1>7 DEF RowsInv, OneChosen, Chosen, StatusOK, RunOK
<1>12. e \in past \cup {leader}
  BY <1>1 DEF RowsInv, LeadOK
<1>13. Current(e, w)'
  BY <1>1 DEF RowsInv, Current
<1> QED
  BY <1>2, <1>6, <1>8, <1>12, <1>13, Walks

\* The positions an executor takes.
Became(e, w, place) == w \in Works /\ ex' = [ex EXCEPT ![e] = w] /\ w.u = ex[e].u /\ w.at = place

LEMMA Positions ==
  ASSUME IInv, NEW e \in Caller, ex[e] # NoWork
  PROVE  /\ ex[e] \in Works /\ WorkOK(ex[e]) /\ Current(e, ex[e])
         /\ \A place \in Steps \ {"idle"} : Go(e, place) =>
              \E w \in Works : /\ Became(e, w, place) /\ w.js = ex[e].js /\ w.cmd = ex[e].cmd
                               /\ w.code = ex[e].code /\ w.got = ex[e].got
         /\ \A code \in Closed : Close(e, code) =>
              \E w \in Works : /\ Became(e, w, "close") /\ w.js = ex[e].js /\ w.cmd = "none"
                               /\ w.code = code /\ w.got = "none"
<1>1. RowsInv /\ ex \in [Caller -> Works \cup {NoWork}]
  BY DEF IInv, RowsInv, RowsTypeOK
<1>2. ex[e] \in Works /\ WorkOK(ex[e]) /\ Current(e, ex[e])
  BY <1>1 DEF RowsInv
<1>3. ASSUME NEW place \in Steps \ {"idle"}, Go(e, place)
      PROVE  \E w \in Works : /\ Became(e, w, place) /\ w.js = ex[e].js /\ w.cmd = ex[e].cmd
                              /\ w.code = ex[e].code /\ w.got = ex[e].got
  <2> DEFINE w == [ex[e] EXCEPT !.at = place]
  <2>1. /\ w \in Works /\ w.at = place /\ w.u = ex[e].u /\ w.js = ex[e].js /\ w.cmd = ex[e].cmd
        /\ w.code = ex[e].code /\ w.got = ex[e].got
    BY <1>2 DEF Works
  <2>2. ex' = [ex EXCEPT ![e] = w]
    BY <1>3 DEF Go
  <2> HIDE DEF w
  <2> QED
    BY <2>1, <2>2 DEF Became
<1>4. ASSUME NEW code \in Closed, Close(e, code)
      PROVE  \E w \in Works : /\ Became(e, w, "close") /\ w.js = ex[e].js /\ w.cmd = "none"
                              /\ w.code = code /\ w.got = "none"
  <2> DEFINE w == [ex[e] EXCEPT !.at = "close", !.code = code, !.cmd = "none", !.got = "none"]
  <2>1. /\ w \in Works /\ w.at = "close" /\ w.u = ex[e].u /\ w.js = ex[e].js /\ w.cmd = "none"
        /\ w.code = code /\ w.got = "none"
    BY <1>2 DEF Works, Steps, Results
  <2>2. ex' = [ex EXCEPT ![e] = w]
    BY <1>4 DEF Close
  <2> HIDE DEF w
  <2> QED
    BY <2>1, <2>2 DEF Became
<1> QED
  BY <1>2, <1>3, <1>4

LEMMA CaughtStep ==
  ASSUME IInv, NEW e \in Caller, ex[e] # NoWork, ex[e].at # "await", Caught(e),
         UNCHANGED <<installed, candidate, retained, spare, journal, proc, faults, answer,
                     leader, past, job, run, inbox>>,
         daemon' \in DaemonRecord, daemon'.unit = daemon.unit, daemon'.exe = daemon.exe,
         daemon'.run = daemon.run
  PROVE  IInv'
<1>1. ex[e] \in Works /\ WorkOK(ex[e]) /\ Current(e, ex[e])
  BY Positions
<1>2. CASE Leave(e) /\ (status' = status \/ (status' = "blocked" /\ status \in Fenced))
  <2>1. ex' = [ex EXCEPT ![e] = NoWork] /\ WorkOK(NoWork)
    BY <1>2 DEF Leave, WorkOK
  <2> QED
    BY <1>2, <2>1, Strolls
<1>3. CASE /\ ex[e].js = "staging" /\ UNCHANGED status
           /\ ex' = [ex EXCEPT ![e].at = "close", ![e].code = "deferred"]
  <2> DEFINE w == [ex[e] EXCEPT !.at = "close", !.code = "deferred"]
  <2>1. /\ w \in Works /\ w.at = "close" /\ w.u = ex[e].u /\ w.js = "staging" /\ w.cmd = ex[e].cmd
        /\ w.code = "deferred" /\ w.got = ex[e].got
    BY <1>1, <1>3 DEF Works, Steps, Closed
  <2>2. ex' = [ex EXCEPT ![e] = w]
    BY <1>3
  <2> HIDE DEF w
  <2>3. WorkOK(w)
    BY <1>1, <1>3, <2>1 DEF WorkOK
  <2> QED
    BY <1>3, <2>1, <2>2, <2>3, Strolls
<1> QED
  BY <1>2, <1>3 DEF Caught, Guard

LEMMA Reopened ==
  ASSUME IInv
  PROVE  /\ daemon \in DaemonRecord
         /\ NoWork.at = "idle"
         /\ \A b \in BOOLEAN : \A d : d = [daemon EXCEPT !.drained = b] =>
              d \in DaemonRecord /\ d.unit = daemon.unit /\ d.exe = daemon.exe /\ d.run = daemon.run
<1>1. daemon \in DaemonRecord
  BY DEF IInv, BoxInv, InstallerTypeOK, DaemonRecord
<1> QED
  BY <1>1 DEF DaemonRecord, NoWork

\* While the leader stages an update, no journal holds the files: the daemon runs the old ones.
LEMMA StagedRunsOld ==
  ASSUME IInv, NEW u \in Update, job[u] \in {"staging", "draining"}
  PROVE  installed = "old" /\ daemon.unit = "active" /\ daemon.exe = "old"
<1>1. Chosen(u) /\ ~Held(u)
  BY DEF IInv, RowsInv, JobOK, Chosen, Held, NoJournal
<1>2. \A v \in Update : ~Held(v)
  BY <1>1, Promised DEF IInv, RowsInv, OneChosen
<1> QED
  BY <1>2 DEF IInv, BoxInv, Resting, DaemonOK

LEMMA StagingHealthStep ==
  ASSUME IInv, NEW e \in Caller, StagingHealth(e)
  PROVE  IInv'
<1>0. ex[e].at = "health" /\ ex[e] # NoWork
  BY DEF StagingHealth, NoWork
<1>1. ex[e] \in Works /\ ex[e].u \in Update /\ WorkOK(ex[e]) /\ Current(e, ex[e]) /\ ex[e].js = "staging"
  BY <1>0, Positions DEF WorkOK, Works
<1>2. UNCHANGED <<installed, candidate, retained, spare, journal, proc, faults, answer, leader, past, job, run, inbox>>
  BY DEF StagingHealth, box
<1>3. CASE Close(e, "deferred") /\ UNCHANGED <<daemon, status>>
  <2>1. PICK w \in Works : /\ Became(e, w, "close") /\ w.js = ex[e].js /\ w.cmd = "none"
                           /\ w.code = "deferred" /\ w.got = "none"
    BY <1>0, <1>3, Positions DEF Closed
  <2>2. WorkOK(w)
    BY <1>1, <2>1 DEF WorkOK, Became, Fits
  <2> QED
    BY <1>0, <1>1, <1>2, <1>3, <2>1, <2>2, Strolls, Reopened DEF Became
<1>4. CASE /\ Reachable /\ daemon.exe = "new" /\ daemon' = [daemon EXCEPT !.drained = FALSE]
           /\ Close(e, "succeeded") /\ UNCHANGED status
  <2>1. PICK w \in Works : /\ Became(e, w, "close") /\ w.js = ex[e].js /\ w.cmd = "none"
                           /\ w.code = "succeeded" /\ w.got = "none"
    BY <1>0, <1>4, Positions DEF Closed
  <2>2. WorkOK(w)
    BY <1>1, <2>1 DEF WorkOK, Became, Fits
  <2>3. leader # e
    BY <1>0, <1>1, <1>4, StagedRunsOld DEF Current
  <2>4. daemon' \in DaemonRecord /\ daemon'.unit = daemon.unit /\ daemon'.exe = daemon.exe /\ daemon'.run = daemon.run
    BY <1>4, Reopened
  <2> QED
    BY <1>0, <1>1, <1>2, <1>4, <2>1, <2>2, <2>3, <2>4, Strolls DEF Became
<1>5. CASE Go(e, "stage") /\ UNCHANGED <<daemon, status>>
  <2>1. PICK w \in Works : /\ Became(e, w, "stage") /\ w.js = ex[e].js /\ w.cmd = ex[e].cmd
                           /\ w.code = ex[e].code /\ w.got = ex[e].got
    BY <1>0, <1>5, Positions DEF Steps
  <2>2. WorkOK(w) /\ w.code = "none"
    BY <1>0, <1>1, <2>1 DEF WorkOK, Became
  <2> QED
    BY <1>0, <1>1, <1>2, <1>5, <2>1, <2>2, Strolls, Reopened DEF Became
<1>6. CASE Caught(e) /\ UNCHANGED daemon
  BY <1>0, <1>2, <1>6, CaughtStep, Reopened
<1> QED
  BY <1>3, <1>4, <1>5, <1>6 DEF StagingHealth

LEMMA StageStep ==
  ASSUME IInv, NEW e \in Caller, Stage(e)
  PROVE  IInv'
<1>0. ex[e].at = "stage" /\ ex[e] # NoWork
  BY DEF Stage, NoWork
<1>1. ex[e] \in Works /\ WorkOK(ex[e]) /\ ex[e].js = "staging"
  BY <1>0, Positions DEF WorkOK
<1>2. UNCHANGED <<installed, candidate, retained, spare, journal, proc, faults, answer, leader, past, job, run, inbox, daemon>>
  BY DEF Stage, installerVars
<1>3. CASE Close(e, "deferred") /\ UNCHANGED status
  <2>1. PICK w \in Works : /\ Became(e, w, "close") /\ w.js = ex[e].js /\ w.cmd = "none"
                           /\ w.code = "deferred" /\ w.got = "none"
    BY <1>0, <1>3, Positions DEF Closed
  <2>2. WorkOK(w)
    BY <1>1, <2>1 DEF WorkOK, Became, Fits
  <2> QED
    BY <1>0, <1>1, <1>2, <1>3, <2>1, <2>2, Strolls, Reopened DEF Became
<1>4. CASE Go(e, "settle") /\ UNCHANGED status
  <2>1. PICK w \in Works : /\ Became(e, w, "settle") /\ w.js = ex[e].js /\ w.cmd = ex[e].cmd
                           /\ w.code = ex[e].code /\ w.got = ex[e].got
    BY <1>0, <1>4, Positions DEF Steps
  <2>2. WorkOK(w) /\ w.code = "none"
    BY <1>0, <1>1, <2>1 DEF WorkOK, Became
  <2> QED
    BY <1>0, <1>1, <1>2, <1>4, <2>1, <2>2, Strolls, Reopened DEF Became
<1>5. CASE Caught(e)
  BY <1>0, <1>2, <1>5, CaughtStep, Reopened
<1> QED
  BY <1>3, <1>4, <1>5 DEF Stage

LEMMA InstallHealthStep ==
  ASSUME IInv, NEW e \in Caller, InstallHealth(e)
  PROVE  IInv'
<1>0. ex[e].at = "install" /\ ex[e] # NoWork
  BY DEF InstallHealth, NoWork
<1>1. ex[e] \in Works /\ WorkOK(ex[e]) /\ ex[e].js = "draining"
  BY <1>0, Positions DEF WorkOK
<1>2. UNCHANGED <<installed, candidate, retained, spare, journal, proc, faults, answer, leader, past, job, run, inbox, daemon>>
  BY DEF InstallHealth, installerVars
<1>3. CASE Go(e, "drain") /\ UNCHANGED status
  <2>1. PICK w \in Works : /\ Became(e, w, "drain") /\ w.js = ex[e].js /\ w.cmd = ex[e].cmd
                           /\ w.code = ex[e].code /\ w.got = ex[e].got
    BY <1>0, <1>3, Positions DEF Steps
  <2>2. WorkOK(w) /\ w.code = "none"
    BY <1>0, <1>1, <2>1 DEF WorkOK, Became
  <2> QED
    BY <1>0, <1>1, <1>2, <1>3, <2>1, <2>2, Strolls, Reopened DEF Became
<1>4. CASE Caught(e)
  BY <1>0, <1>2, <1>4, CaughtStep, Reopened
<1> QED
  BY <1>3, <1>4 DEF InstallHealth

LEMMA DrainStep ==
  ASSUME IInv, NEW e \in Caller, Drain(e)
  PROVE  IInv'
<1>0. ex[e].at = "drain" /\ ex[e] # NoWork
  BY DEF Drain, NoWork
<1>1. ex[e] \in Works /\ WorkOK(ex[e]) /\ ex[e].js = "draining"
  BY <1>0, Positions DEF WorkOK
<1>2. UNCHANGED <<installed, candidate, retained, spare, journal, proc, faults, answer, leader, past, job, run, inbox>>
  BY DEF Drain, box
<1>3. /\ daemon' \in DaemonRecord /\ daemon'.unit = daemon.unit
      /\ daemon'.exe = daemon.exe /\ daemon'.run = daemon.run
  BY Reopened DEF Drain
<1>4. CASE Go(e, "apply") /\ UNCHANGED status
  <2>1. PICK w \in Works : /\ Became(e, w, "apply") /\ w.js = ex[e].js /\ w.cmd = ex[e].cmd
                           /\ w.code = ex[e].code /\ w.got = ex[e].got
    BY <1>0, <1>4, Positions DEF Steps
  <2>2. WorkOK(w) /\ w.code = "none"
    BY <1>0, <1>1, <2>1 DEF WorkOK, Became
  <2> QED
    BY <1>0, <1>1, <1>2, <1>3, <1>4, <2>1, <2>2, Strolls DEF Became
<1>5. CASE Caught(e)
  BY <1>0, <1>2, <1>3, <1>5, CaughtStep
<1> QED
  BY <1>4, <1>5 DEF Drain

LEMMA VerifyJobStep ==
  ASSUME IInv, NEW e \in Caller, Verify(e)
  PROVE  IInv'
<1>0. ex[e].at = "verify" /\ ex[e] # NoWork
  BY DEF Verify, NoWork
<1>1. ex[e] \in Works /\ WorkOK(ex[e]) /\ ex[e].js = "verifying"
  BY <1>0, Positions DEF WorkOK
<1>2. UNCHANGED <<installed, candidate, retained, spare, journal, proc, faults, answer, leader, past, job, run, inbox>>
  BY DEF Verify, box
<1>3. /\ daemon' \in DaemonRecord /\ daemon'.unit = daemon.unit
      /\ daemon'.exe = daemon.exe /\ daemon'.run = daemon.run
  BY Reopened DEF Verify
<1>4. CASE Close(e, "succeeded") /\ UNCHANGED status
  <2>1. PICK w \in Works : /\ Became(e, w, "close") /\ w.js = ex[e].js /\ w.cmd = "none"
                           /\ w.code = "succeeded" /\ w.got = "none"
    BY <1>0, <1>4, Positions DEF Closed
  <2>2. WorkOK(w)
    BY <1>1, <2>1 DEF WorkOK, Became, Fits
  <2> QED
    BY <1>0, <1>1, <1>2, <1>3, <1>4, <2>1, <2>2, Strolls DEF Became
<1>5. CASE ex' = [ex EXCEPT ![e].at = "inspect", ![e].cmd = "rollback"] /\ UNCHANGED <<daemon, status>>
  <2> DEFINE w == [ex[e] EXCEPT !.at = "inspect", !.cmd = "rollback"]
  <2>1. /\ w \in Works /\ w.at = "inspect" /\ w.u = ex[e].u /\ w.js = "verifying" /\ w.cmd = "rollback"
        /\ w.code = ex[e].code /\ w.got = ex[e].got
    BY <1>1 DEF Works, Steps, Commands
  <2>2. ex' = [ex EXCEPT ![e] = w]
    BY <1>5
  <2> HIDE DEF w
  <2>3. WorkOK(w) /\ w.code = "none"
    BY <1>0, <1>1, <2>1 DEF WorkOK
  <2> QED
    BY <1>0, <1>1, <1>2, <1>3, <1>5, <2>1, <2>2, <2>3, Strolls
<1>6. CASE Caught(e)
  BY <1>0, <1>2, <1>3, <1>6, CaughtStep
<1> QED
  BY <1>4, <1>5, <1>6 DEF Verify

LEMMA FinishGuardStep ==
  ASSUME IInv, NEW e \in Caller, FinishGuard(e)
  PROVE  IInv'
<1>0. ex[e].at = "close" /\ ex[e] # NoWork
  BY DEF FinishGuard, NoWork
<1>1. ex[e] \in Works /\ WorkOK(ex[e]) /\ Current(e, ex[e])
  BY <1>0, Positions
<1>2. UNCHANGED <<installed, candidate, retained, spare, journal, proc, faults, answer, leader, past, job, run, inbox, daemon>>
  BY DEF FinishGuard, installerVars
<1>3. ASSUME NEW place \in {"commit", "reopen"}, Go(e, place), UNCHANGED status
      PROVE  IInv'
  <2>1. PICK w \in Works : /\ Became(e, w, place) /\ w.js = ex[e].js /\ w.cmd = ex[e].cmd
                           /\ w.code = ex[e].code /\ w.got = ex[e].got
    BY <1>0, <1>3, Positions DEF Steps
  <2>2. WorkOK(w) /\ (leader = e /\ w.code = "succeeded" => w.js = "verifying")
    BY <1>0, <1>1, <1>3, <2>1 DEF WorkOK, Became, Current
  <2> QED
    BY <1>0, <1>1, <1>2, <1>3, <2>1, <2>2, Strolls, Reopened DEF Became
<1>4. CASE Caught(e)
  BY <1>0, <1>2, <1>4, CaughtStep, Reopened
<1> QED
  BY <1>3, <1>4 DEF FinishGuard

LEMMA FinishReopenStep ==
  ASSUME IInv, NEW e \in Caller, FinishReopen(e)
  PROVE  IInv'
<1>0. ex[e].at = "reopen" /\ ex[e] # NoWork
  BY DEF FinishReopen, NoWork
<1>1. ex[e] \in Works /\ WorkOK(ex[e]) /\ Current(e, ex[e])
  BY <1>0, Positions
<1>2. UNCHANGED <<installed, candidate, retained, spare, journal, proc, faults, answer, leader, past, job, run, inbox>>
  BY DEF FinishReopen, box
<1>3. /\ daemon' \in DaemonRecord /\ daemon'.unit = daemon.unit
      /\ daemon'.exe = daemon.exe /\ daemon'.run = daemon.run
  BY Reopened DEF FinishReopen
<1>4. CASE Go(e, "commit") /\ UNCHANGED status
  <2>1. PICK w \in Works : /\ Became(e, w, "commit") /\ w.js = ex[e].js /\ w.cmd = ex[e].cmd
                           /\ w.code = ex[e].code /\ w.got = ex[e].got
    BY <1>0, <1>4, Positions DEF Steps
  <2>2. WorkOK(w) /\ (leader = e /\ w.code = "succeeded" => w.js = "verifying")
    BY <1>0, <1>1, <2>1 DEF WorkOK, Became, Current
  <2> QED
    BY <1>0, <1>1, <1>2, <1>3, <1>4, <2>1, <2>2, Strolls DEF Became
<1>5. CASE Caught(e)
  BY <1>0, <1>2, <1>3, <1>5, CaughtStep
<1> QED
  BY <1>4, <1>5 DEF FinishReopen

\* What holds of the row an executor works on while it has its authority.
LEMMA Authority ==
  ASSUME IInv, NEW e \in Caller, ex[e] # NoWork, Guard(e), NEW u \in Update, u = ex[e].u
  PROVE  /\ job[u] = ex[e].js /\ job[u] \in Open /\ Chosen(u) /\ status \in Fenced /\ run = "none"
         /\ ex[e].code = "succeeded" => ex[e].js = "verifying"
         /\ \A v \in Update : v # u => job[v] \in {"none", "deferred"}
         /\ JobOK(u)
         /\ e \in past \cup {leader}
<1>1. ex[e] \in Works /\ Current(e, ex[e])
  BY Positions
<1>2. job[u] = ex[e].js /\ job[u] \in Open /\ (ex[e].code = "succeeded" => ex[e].js = "verifying")
  BY <1>1 DEF Current, Guard, Works
<1>3. Chosen(u) /\ \A v \in Update : v # u => job[v] \in {"none", "deferred"}
  BY <1>2 DEF Chosen, Open, IInv, RowsInv, OneChosen
<1> QED
  BY <1>2, <1>3 DEF Guard, IInv, RowsInv, RunOK

\* The leader writes the next phase to the row it works on.
LEMMA Progress ==
  ASSUME IInv, NEW e \in Caller, ex[e] # NoWork, ex[e].at # "await", Guard(e),
         NEW u \in Update, u = ex[e].u, NEW s \in Open, Phase(e, s), JobOK(u)',
         NEW w \in Works, ex' = [ex EXCEPT ![e] = w], w.u = u, w.js = s, w.code = "none", WorkOK(w),
         UNCHANGED <<installerVars, leader, past, run, inbox, status>>
  PROVE  IInv'
<1>1. /\ job[u] \in Open /\ status \in Fenced /\ run = "none"
      /\ \A v \in Update : v # u => job[v] \in {"none", "deferred"}
      /\ e \in past \cup {leader}
  BY Authority
<1>2. job' = [job EXCEPT ![u] = s]
  BY <1>1 DEF Phase
<1>3. /\ job'[u] = s /\ \A v \in Update : v # u => job'[v] = job[v]
      /\ job' \in [Update -> JobStates]
  BY <1>2 DEF IInv, RowsInv, RowsTypeOK, JobStates
<1>4. OneChosen'
  BY <1>1, <1>3 DEF OneChosen, Chosen
<1>5. StatusOK'
  BY <1>1, <1>3 DEF IInv, RowsInv, StatusOK, Open, Fenced
<1>6. UNCHANGED <<installed, candidate, retained, spare, journal, proc, faults, answer, leader, past, run, inbox, daemon>>
  BY DEF installerVars
<1>7. Current(e, w)'
  BY <1>3 DEF Current
<1>8. status' \in {"pending", "updating", "blocked", "current", "deferred", "failed"}
  BY DEF IInv, RowsInv, RowsTypeOK
<1>9. leader = e
  BY DEF Guard
<1> QED
  BY <1>1, <1>3, <1>4, <1>5, <1>6, <1>7, <1>8, <1>9, Walks, Reopened

LEMMA SettleStep ==
  ASSUME IInv, NEW e \in Caller, Settle(e)
  PROVE  IInv'
<1>0. ex[e].at = "settle" /\ ex[e] # NoWork
  BY DEF Settle, NoWork
<1>1. PICK u \in Update : u = ex[e].u
  BY <1>0, Positions DEF Works
<1>2. ex[e] \in Works /\ WorkOK(ex[e]) /\ ex[e].js = "staging"
  BY <1>0, Positions DEF WorkOK
<1>3. CASE /\ Guard(e) /\ Phase(e, "draining") /\ UNCHANGED status
           /\ ex' = [ex EXCEPT ![e].at = "install", ![e].js = "draining"]
  <2> DEFINE w == [ex[e] EXCEPT !.at = "install", !.js = "draining"]
  <2>1. /\ w \in Works /\ w.at = "install" /\ w.u = u /\ w.js = "draining" /\ w.cmd = ex[e].cmd
        /\ w.code = ex[e].code /\ w.got = ex[e].got
    BY <1>1, <1>2 DEF Works, Steps, Open
  <2>2. ex' = [ex EXCEPT ![e] = w]
    BY <1>3
  <2> HIDE DEF w
  <2>3. WorkOK(w) /\ w.code = "none"
    BY <1>0, <1>1, <1>2, <2>1 DEF WorkOK
  <2>4. JobOK(u) /\ job[u] = "staging" /\ job'[u] = "draining"
    BY <1>0, <1>1, <1>2, <1>3, Authority DEF Phase, IInv, RowsInv, RowsTypeOK, Open
  <2>5. UNCHANGED <<installed, journal, proc, inbox>>
    BY DEF Settle, installerVars
  <2>6. JobOK(u)'
    BY <2>4, <2>5 DEF JobOK, Waiting, Reading, Taking
  <2> QED
    BY <1>0, <1>1, <1>3, <2>1, <2>2, <2>3, <2>6, Progress DEF Settle, Open
<1>4. CASE Caught(e) /\ UNCHANGED job
  BY <1>0, <1>4, CaughtStep, Reopened DEF Settle, installerVars
<1> QED
  BY <1>3, <1>4 DEF Settle

LEMMA AcceptStep ==
  ASSUME IInv, NEW e \in Caller, Accept(e)
  PROVE  IInv'
<1>0. ex[e].at = "accept" /\ ex[e] # NoWork
  BY DEF Accept, NoWork
<1>1. PICK u \in Update : u = ex[e].u
  BY <1>0, Positions DEF Works
<1>2. ex[e] \in Works /\ WorkOK(ex[e]) /\ ex[e].js \in {"applying", "verifying"} /\ ex[e].code = "none" /\ ex[e].cmd # "rollback"
  BY <1>0, Positions DEF WorkOK
<1>3. UNCHANGED <<installerVars, leader, past, run, inbox>>
  BY DEF Accept
<1>4. UNCHANGED <<installed, candidate, retained, spare, journal, proc, faults, answer, leader, past, run, inbox, daemon>>
  BY <1>3 DEF installerVars
<1>5. CASE Leave(e) /\ UNCHANGED <<job, status>>
  <2>1. ex' = [ex EXCEPT ![e] = NoWork] /\ WorkOK(NoWork)
    BY <1>5 DEF Leave, WorkOK
  <2> QED
    BY <1>0, <1>4, <1>5, <2>1, Strolls, Reopened
<1>6. CASE /\ Guard(e) /\ ex[e].got = "succeeded" /\ Phase(e, "verifying") /\ UNCHANGED status
           /\ ex' = [ex EXCEPT ![e].at = "verify", ![e].js = "verifying", ![e].got = "none"]
  <2> DEFINE w == [ex[e] EXCEPT !.at = "verify", !.js = "verifying", !.got = "none"]
  <2>1. /\ w \in Works /\ w.at = "verify" /\ w.u = u /\ w.js = "verifying" /\ w.cmd = ex[e].cmd
        /\ w.code = ex[e].code /\ w.got = "none"
    BY <1>1, <1>2 DEF Works, Steps, Open, Results
  <2>2. ex' = [ex EXCEPT ![e] = w]
    BY <1>6
  <2> HIDE DEF w
  <2>3. WorkOK(w) /\ w.code = "none"
    BY <1>0, <1>1, <1>2, <2>1 DEF WorkOK, Fits
  <2>4. JobOK(u) /\ job[u] \in {"applying", "verifying"} /\ job'[u] = "verifying"
    BY <1>0, <1>1, <1>2, <1>6, Authority DEF Phase, IInv, RowsInv, RowsTypeOK, Open
  <2>5. Won(u)
    BY <1>0, <1>1, <1>2, <1>6 DEF WorkOK, Fits
  <2>6. Won(u)' /\ ~Waiting(u)
    BY <1>4, <2>4, <2>5 DEF Won, TakenBack, JobOK, NoJournal
  <2>7. JobOK(u)'
    BY <1>4, <2>4, <2>6 DEF JobOK, Waiting, Reading, Taking
  <2> QED
    BY <1>0, <1>1, <1>3, <1>6, <2>1, <2>2, <2>3, <2>7, Progress DEF Open
<1>7. CASE Caught(e) /\ UNCHANGED job
  BY <1>0, <1>4, <1>7, CaughtStep, Reopened
<1>8. ASSUME NEW code \in {"deferred", "failed"}, Close(e, code), UNCHANGED <<job, status>>,
             code = "deferred" => ex[e].got = "deferred", code = "failed" => ex[e].got = "rolled_back"
      PROVE  IInv'
  <2>1. PICK w \in Works : /\ Became(e, w, "close") /\ w.js = ex[e].js /\ w.cmd = "none"
                           /\ w.code = code /\ w.got = "none"
    BY <1>0, <1>8, Positions DEF Closed
  <2>2. Fits(ex[e].got, u)
    BY <1>0, <1>1, <1>2 DEF WorkOK
  <2>3. WorkOK(w)
    BY <1>0, <1>1, <1>2, <1>8, <2>1, <2>2 DEF WorkOK, Became, Fits
  <2> QED
    BY <1>0, <1>4, <1>8, <2>1, <2>3, Strolls, Reopened DEF Became
<1> QED
  BY <1>5, <1>6, <1>7, <1>8 DEF Accept

LEMMA FinishCommitStep ==
  ASSUME IInv, NEW e \in Caller, FinishCommit(e)
  PROVE  IInv'
<1>0. ex[e].at = "commit" /\ ex[e] # NoWork /\ ex[e].at # "await"
  BY DEF FinishCommit, NoWork
<1>1. PICK u \in Update : u = ex[e].u
  BY <1>0, Positions DEF Works
<1>2. /\ ex[e] \in Works /\ WorkOK(ex[e]) /\ ex[e].code \in Closed
      /\ ex' = [ex EXCEPT ![e] = NoWork] /\ WorkOK(NoWork)
  BY <1>0, Positions DEF WorkOK, Works, FinishCommit, Leave
<1>3. UNCHANGED <<installed, candidate, retained, spare, journal, proc, faults, answer, leader, past, run, inbox, daemon>>
  BY DEF FinishCommit, installerVars
<1>4. CASE ~Guard(e)
  <2>1. UNCHANGED <<job, status>>
    BY <1>4 DEF FinishCommit
  <2> QED
    BY <1>0, <1>2, <1>3, <2>1, Strolls, Reopened
<1>5. CASE Guard(e)
  <2>1. PICK s \in Closed : s = ex[e].code
    BY <1>2
  <2>2. job' = [job EXCEPT ![u] = s] /\ status' = IF s = "succeeded" THEN "current" ELSE s
    BY <1>1, <1>5, <2>1 DEF FinishCommit
  <2>3. /\ job[u] = ex[e].js /\ status \in Fenced /\ run = "none" /\ JobOK(u)
        /\ s = "succeeded" => job[u] = "verifying"
        /\ \A v \in Update : v # u => job[v] \in {"none", "deferred"}
        /\ e \in past \cup {leader}
    BY <1>0, <1>1, <1>5, <2>1, Authority
  <2>4. /\ job'[u] = s /\ \A v \in Update : v # u => job'[v] = job[v]
        /\ job' \in [Update -> JobStates]
    BY <2>2 DEF IInv, RowsInv, RowsTypeOK, JobStates
  <2>5. OneChosen'
    BY <2>3, <2>4 DEF OneChosen, Chosen
  <2>6. StatusOK'
    BY <2>2, <2>3, <2>4 DEF StatusOK, Open, Closed, Fenced
  <2>7. s = "deferred" => journal[u].state \in {"none", "deferred"}
    BY <1>0, <1>1, <1>2, <2>1, <2>3 DEF WorkOK, JobOK, NoJournal
  <2>8. s = "failed" => journal[u].state = "rolled_back"
    BY <1>0, <1>1, <1>2, <2>1 DEF WorkOK
  <2>9. s = "succeeded" => Won(u)
    BY <2>3 DEF JobOK
  <2>10. ~Waiting(u)
    <3> SUFFICES ASSUME Waiting(u) PROVE FALSE
      OBVIOUS
    <3>1. job[u] = "applying" /\ journal[u] = NoJournal
      BY <2>3 DEF JobOK
    <3>2. s = "deferred"
      BY <2>1, <2>3, <2>8, <3>1 DEF Closed, NoJournal
    <3> QED
      BY <1>0, <1>1, <1>2, <2>1, <2>3, <3>1, <3>2 DEF WorkOK, NoJournal
  <2>11. Won(u)' = Won(u) /\ Waiting(u)' = Waiting(u) /\ Taking(u)' = Taking(u)
    BY <1>3 DEF Won, TakenBack, Waiting, Reading, Taking
  <2>12. JobOK(u)'
    BY <1>3, <2>3, <2>4, <2>7, <2>8, <2>9, <2>10, <2>11 DEF JobOK, Closed
  <2>13. status' \in {"pending", "updating", "blocked", "current", "deferred", "failed"}
         /\ status' \notin Fenced
    BY <2>2 DEF Closed, Fenced
  <2>14. Current(e, NoWork)'
    BY DEF Current
  <2>15. leader = e
    BY <1>5 DEF Guard
  <2> QED
    BY <1>0, <1>2, <1>3, <2>3, <2>4, <2>5, <2>6, <2>12, <2>13, <2>14, <2>15, Walks, Reopened
<1> QED
  BY <1>4, <1>5

\* One tick of the leader: it resumes the open update, admits one, or reports the Companion busy.
LEMMA TickStep ==
  ASSUME IInv, NEW e \in Caller, Tick(e)
  PROVE  IInv'
<1>0. ex[e] = NoWork /\ leader = e /\ ex[e].at # "await" /\ e \in past \cup {leader} /\ RowsInv
  <2>1. ex[e] = NoWork /\ leader = e
    BY DEF Tick
  <2>2. NoWork.at = "idle"
    BY DEF NoWork
  <2> QED
    BY <2>1, <2>2 DEF IInv
<1>1. UNCHANGED <<installed, candidate, retained, spare, journal, proc, faults, answer, leader, past, run, inbox, daemon>>
  BY DEF Tick, installerVars
<1>2. job \in [Update -> JobStates] /\ ex \in [Caller -> Works \cup {NoWork}]
  BY <1>0 DEF RowsInv, RowsTypeOK
<1>3. CASE /\ \E u \in OpenJobs :
                ex' = [ex EXCEPT ![e] = [NoWork EXCEPT !.u = u, !.js = job[u],
                  !.at = CASE job[u] = "staging" -> "health" [] job[u] = "draining" -> "install" [] OTHER -> "inspect",
                  !.cmd = IF job[u] \in {"applying", "verifying"} THEN "status" ELSE "none"]]
           /\ UNCHANGED <<job, status>>
  <2>1. PICK u \in OpenJobs :
                ex' = [ex EXCEPT ![e] = [NoWork EXCEPT !.u = u, !.js = job[u],
                  !.at = CASE job[u] = "staging" -> "health" [] job[u] = "draining" -> "install" [] OTHER -> "inspect",
                  !.cmd = IF job[u] \in {"applying", "verifying"} THEN "status" ELSE "none"]]
    BY <1>3
  <2>2. u \in Update /\ job[u] \in Open
    BY <2>1 DEF OpenJobs
  <2>3. \E w \in Works :
          /\ ex' = [ex EXCEPT ![e] = w] /\ w.u = u /\ w.js = job[u] /\ w.code = "none" /\ w.got = "none"
          /\ \/ job[u] = "staging" /\ w.at = "health" /\ w.cmd = "none"
             \/ job[u] = "draining" /\ w.at = "install" /\ w.cmd = "none"
             \/ job[u] \in {"applying", "verifying"} /\ w.at = "inspect" /\ w.cmd = "status"
    <3> DEFINE at == CASE job[u] = "staging" -> "health" [] job[u] = "draining" -> "install" [] OTHER -> "inspect"
               cmd == IF job[u] \in {"applying", "verifying"} THEN "status" ELSE "none"
               new == [NoWork EXCEPT !.u = u, !.js = job[u], !.at = at, !.cmd = cmd]
    <3>1. \/ job[u] = "staging" /\ at = "health" /\ cmd = "none"
          \/ job[u] = "draining" /\ at = "install" /\ cmd = "none"
          \/ job[u] \in {"applying", "verifying"} /\ at = "inspect" /\ cmd = "status"
      BY <2>2 DEF Open
    <3>2. ex' = [ex EXCEPT ![e] = new]
      BY <2>1
    <3> HIDE DEF at, cmd
    <3>3. /\ new \in Works /\ new.at = at /\ new.u = u /\ new.js = job[u] /\ new.cmd = cmd
          /\ new.code = "none" /\ new.got = "none"
      BY <2>2, <3>1 DEF NoWork, Works, Steps, Results
    <3> HIDE DEF new
    <3> QED
      BY <3>1, <3>2, <3>3
  <2>4. PICK w \in Works :
          /\ ex' = [ex EXCEPT ![e] = w] /\ w.u = u /\ w.js = job[u] /\ w.code = "none" /\ w.got = "none"
          /\ \/ job[u] = "staging" /\ w.at = "health" /\ w.cmd = "none"
             \/ job[u] = "draining" /\ w.at = "install" /\ w.cmd = "none"
             \/ job[u] \in {"applying", "verifying"} /\ w.at = "inspect" /\ w.cmd = "status"
    BY <2>3
  <2>7. WorkOK(w)
    BY <2>4 DEF WorkOK, Fits
  <2>8. Current(e, w)'
    BY <1>3, <2>4 DEF Current
  <2>9. OneChosen' /\ StatusOK' /\ (status' \in Fenced => run = "none")
    BY <1>0, <1>3 DEF RowsInv, OneChosen, Chosen, StatusOK, RunOK
  <2>10. status' \in {"pending", "updating", "blocked", "current", "deferred", "failed"}
    BY <1>0, <1>3 DEF RowsInv, RowsTypeOK
  <2> QED
    BY <1>0, <1>1, <1>2, <1>3, <2>4, <2>7, <2>8, <2>9, <2>10, Walks, Reopened
<1>4. ASSUME OpenJobs = {}, status \notin {"current", "failed"}
      PROVE  \A v \in Update : job[v] \in {"none", "deferred"}
  BY <1>0, <1>2, <1>4 DEF OpenJobs, RowsInv, StatusOK, JobStates, Open, Closed
<1>5. CASE /\ OpenJobs = {} /\ status \notin {"current", "failed"} /\ status' = "deferred"
           /\ UNCHANGED <<job, ex>>
  <2>1. ex' = [ex EXCEPT ![e] = NoWork] /\ WorkOK(NoWork) /\ Current(e, NoWork)'
    BY <1>0, <1>2, <1>5 DEF WorkOK, Current
  <2>2. \A v \in Update : job[v] \in {"none", "deferred"}
    BY <1>4, <1>5
  <2>3. OneChosen' /\ StatusOK' /\ status' \notin Fenced
    BY <1>0, <1>5, <2>2 DEF OneChosen, Chosen, StatusOK, Open, Fenced
  <2> QED
    BY <1>0, <1>1, <1>2, <1>5, <2>1, <2>3, Walks, Reopened
<1>6. CASE /\ OpenJobs = {} /\ status \notin {"current", "failed"} /\ run = "none" /\ status' = "updating"
           /\ \E u \in Update :
                /\ job[u] = "none"
                /\ job' = [job EXCEPT ![u] = "staging"]
                /\ ex' = [ex EXCEPT ![e] = [NoWork EXCEPT !.at = "health", !.u = u, !.js = "staging"]]
  <2>1. PICK u \in Update :
                /\ job[u] = "none"
                /\ job' = [job EXCEPT ![u] = "staging"]
                /\ ex' = [ex EXCEPT ![e] = [NoWork EXCEPT !.at = "health", !.u = u, !.js = "staging"]]
    BY <1>6
  <2> DEFINE w == [NoWork EXCEPT !.at = "health", !.u = u, !.js = "staging"]
  <2>3. /\ w \in Works /\ w.at = "health" /\ w.u = u /\ w.js = "staging" /\ w.cmd = "none"
        /\ w.code = "none" /\ w.got = "none"
    BY DEF NoWork, Works, Steps, Results, Open
  <2>4. ex' = [ex EXCEPT ![e] = w]
    BY <2>1
  <2> HIDE DEF w
  <2>5. WorkOK(w)
    BY <2>3 DEF WorkOK, Fits
  <2>6. /\ job'[u] = "staging" /\ job' \in [Update -> JobStates]
        /\ \A v \in Update : v # u => job'[v] = job[v] /\ job[v] \in {"none", "deferred"}
    BY <1>2, <1>4, <1>6, <2>1 DEF JobStates, Open
  <2>7. Current(e, w)'
    BY <2>3, <2>6 DEF Current
  <2>8. OneChosen' /\ StatusOK'
    BY <1>6, <2>6 DEF OneChosen, Chosen, StatusOK, Open, Fenced
  <2>9. JobOK(u)'
    <3>1. JobOK(u)
      BY <1>0 DEF RowsInv
    <3> QED
      BY <1>1, <2>1, <2>6, <3>1 DEF JobOK, Waiting, Reading, Taking
  <2> QED
    BY <1>0, <1>1, <1>2, <1>6, <2>3, <2>4, <2>5, <2>6, <2>7, <2>8, <2>9, Walks, Reopened
<1> QED
  BY <1>3, <1>5, <1>6 DEF Tick

\* A step that changes the run of the Companion and what the daemon works on.
LEMMA RunStep ==
  ASSUME IInv, Claim \/ Dispatch \/ RunEnds
  PROVE  IInv'
<1>1. /\ UNCHANGED <<installed, candidate, retained, spare, journal, proc, faults, answer,
                     leader, past, job, status, ex, inbox>>
      /\ daemon' = daemon \/ \E b \in BOOLEAN : daemon' = [daemon EXCEPT !.run = b]
  BY DEF Claim, Dispatch, RunEnds, box, installerVars
<1>2. daemon \in DaemonRecord /\ InstallerTypeOK /\ RowsInv
  BY Reopened DEF IInv, BoxInv
<1>3. daemon' \in DaemonRecord /\ daemon'.unit = daemon.unit /\ daemon'.exe = daemon.exe
  BY <1>1, <1>2 DEF DaemonRecord
<1>4. BoxInv'
  BY <1>1, <1>2, <1>3, BoxStays DEF IInv, InstallerTypeOK, ProcRecord
<1>5. RunOK' /\ run' \in {"none", "claimed", "sent"}
  BY <1>1, <1>2 DEF Claim, Dispatch, RunEnds, RowsInv, RunOK, Fenced, installerVars, DaemonRecord
<1>6. RowsTypeOK'
  BY <1>1, <1>2, <1>5 DEF RowsInv, RowsTypeOK
<1>7. \A u \in Update : JobOK(u)'
  BY <1>1, <1>2 DEF RowsInv, JobOK, Waiting, Reading, Taking, Won, TakenBack
<1>8. OneChosen' /\ OneApply' /\ StatusOK' /\ LeadOK'
  BY <1>1, <1>2 DEF RowsInv, OneChosen, Chosen, OneApply, StatusOK, LeadOK
<1>9. ASSUME NEW e \in Caller PROVE WorkOK(ex[e])' /\ Current(e, ex[e])' /\ MailOK(e)'
  <2>1. WorkOK(ex[e]) /\ Current(e, ex[e]) /\ MailOK(e)
    BY <1>2 DEF RowsInv
  <2>2. WorkOK(ex[e])'
    BY <1>1, <2>1 DEF WorkOK, Fits, Won, TakenBack
  <2>3. Current(e, ex[e])'
    BY <1>1, <2>1 DEF Current
  <2>4. MailOK(e)'
    BY <1>1, <2>1 DEF MailOK, Fits, Won, TakenBack
  <2> QED
    BY <2>2, <2>3, <2>4
<1> QED
  BY <1>4, <1>5, <1>6, <1>7, <1>8, <1>9 DEF IInv, RowsInv

\* The lease passes to an executor that never held it: it remembers nothing.
LEMMA TakeLeaseStep ==
  ASSUME IInv, NEW e \in Caller, TakeLease(e)
  PROVE  IInv'
<1>1. /\ UNCHANGED <<installed, candidate, retained, spare, journal, proc, faults, answer, daemon,
                     job, status, run, ex, inbox>>
      /\ e \notin past \cup {leader} /\ leader' = e /\ past' = past \cup {leader}
  BY DEF TakeLease, installerVars
<1>2. RowsInv
  BY DEF IInv
<1>3. BoxInv'
  <2>1. InstallerTypeOK /\ daemon \in DaemonRecord
    BY Reopened DEF IInv, BoxInv
  <2> QED
    BY <1>1, <2>1, BoxStays DEF IInv, InstallerTypeOK, ProcRecord
<1>4. RowsTypeOK'
  BY <1>1, <1>2 DEF RowsInv, RowsTypeOK
<1>5. \A u \in Update : JobOK(u)'
  BY <1>1, <1>2 DEF RowsInv, JobOK, Waiting, Reading, Taking, Won, TakenBack
<1>6. OneChosen' /\ OneApply' /\ StatusOK' /\ RunOK'
  BY <1>1, <1>2 DEF RowsInv, OneChosen, Chosen, OneApply, StatusOK, RunOK
<1>7. LeadOK' /\ ex[e] = NoWork
  BY <1>1, <1>2 DEF RowsInv, RowsTypeOK, LeadOK
<1>8. ASSUME NEW f \in Caller PROVE WorkOK(ex[f])' /\ Current(f, ex[f])' /\ MailOK(f)'
  <2>1. WorkOK(ex[f]) /\ MailOK(f)
    BY <1>2 DEF RowsInv
  <2>2. WorkOK(ex[f])'
    BY <1>1, <2>1 DEF WorkOK, Fits, Won, TakenBack
  <2>3. Current(f, ex[f])'
    BY <1>1, <1>7 DEF Current
  <2>4. MailOK(f)'
    BY <1>1, <2>1 DEF MailOK, Fits, Won, TakenBack
  <2> QED
    BY <2>2, <2>3, <2>4
<1> QED
  BY <1>3, <1>4, <1>5, <1>6, <1>7, <1>8 DEF IInv, RowsInv

-----------------------------------------------------------------------------
\* Commands and answers.

LEMMA Lasting ==
  ASSUME IInv, UNCHANGED journal, \A u \in Update : Won(u) => Won(u)'
  PROVE  /\ \A r \in Results, u \in Update : Fits(r, u) => Fits(r, u)'
         /\ \A v \in Works \cup {NoWork} : WorkOK(v) => WorkOK(v)'
<1>1. \A v \in Works : v.u \in Update
  BY DEF Works
<1> QED
  BY <1>1 DEF WorkOK, Fits

\* An executor that a step leaves as it is.
LEMMA Bystander ==
  ASSUME IInv, UNCHANGED <<journal, leader>>, \A u \in Update : Won(u) => Won(u)',
         NEW f \in Caller, ex'[f] = ex[f], answer'[f] = answer[f],
         leader = f => job' = job,
         proc'.owner = f => proc.owner = f /\ proc'.u = proc.u,
         \A m \in inbox' : m.owner = f => m \in inbox
  PROVE  WorkOK(ex[f])' /\ Current(f, ex[f])' /\ MailOK(f)'
<1>1. ex[f] \in Works \cup {NoWork} /\ WorkOK(ex[f]) /\ Current(f, ex[f]) /\ MailOK(f)
  BY DEF IInv, RowsInv, RowsTypeOK
<1>2. \A v \in Works \cup {NoWork} : v = ex[f] => WorkOK(v)'
  BY <1>1, Lasting
<1>3. WorkOK(ex[f])'
  BY <1>1, <1>2 DEF WorkOK, Fits
<1>4. Current(f, ex[f])'
  BY <1>1 DEF Current
<1>5. ASSUME answer[f] # "none" PROVE Fits(answer[f], ex[f].u)'
  <2>1. ex[f].at = "await" /\ Fits(answer[f], ex[f].u)
    BY <1>1, <1>5 DEF MailOK
  <2>2. ex[f].u \in Update
    BY <1>1, <2>1 DEF Works, NoWork
  <2> QED
    BY <2>1, <2>2 DEF Fits
<1>6. MailOK(f)'
  BY <1>1, <1>5 DEF MailOK
<1> QED
  BY <1>3, <1>4, <1>6

LEMMA Sends ==
  ASSUME IInv, NEW e \in Caller, ex[e] # NoWork, ex[e].at # "await", Guard(e),
         NEW u \in Update, u = ex[e].u, NEW s \in {"applying", "verifying"}, job' = [job EXCEPT ![u] = s],
         NEW m \in Mail, m.u = u, m.owner = e, inbox' \in {inbox, inbox \cup {m}},
         m.cmd = "rollback" => Won(u),
         (job[u] = "draining" /\ s = "applying") \/ (job[u] = s /\ m.cmd # "apply"),
         NEW w \in Works, ex' = [ex EXCEPT ![e] = w],
         w.at = "await", w.u = u, w.js = s, w.code = "none", WorkOK(w),
         UNCHANGED <<installerVars, leader, past, run, status>>
  PROVE  IInv'
<1>1. /\ UNCHANGED <<installed, candidate, retained, spare, journal, proc, faults, answer, daemon>>
      /\ RowsInv /\ InstallerTypeOK /\ daemon \in DaemonRecord
  BY Reopened DEF installerVars, IInv, BoxInv
<1>2. /\ job[u] \in Open /\ status \in Fenced
      /\ \A v \in Update : v # u => job[v] \in {"none", "deferred"}
      /\ JobOK(u)
  BY Authority
<1>3. /\ job'[u] = s /\ \A v \in Update : v # u => job'[v] = job[v]
      /\ job' \in [Update -> JobStates]
      /\ ex'[e] = w /\ \A f \in Caller : f # e => ex'[f] = ex[f]
  BY <1>1 DEF RowsInv, RowsTypeOK, JobStates, Open
<1>4. BoxInv' /\ \A v \in Update : Won(v) => Won(v)'
  BY <1>1, BoxStays DEF IInv, InstallerTypeOK, ProcRecord
<1>5. RowsTypeOK'
  BY <1>1, <1>3 DEF RowsInv, RowsTypeOK
<1>6. \A v \in Update : JobOK(v)'
  <2>1. ASSUME NEW v \in Update, v # u PROVE JobOK(v)'
    <3>1. JobOK(v) /\ job'[v] = job[v] /\ (Won(v) => Won(v)')
      BY <1>1, <1>3, <1>4, <2>1 DEF RowsInv
    <3>2. \A n \in inbox' : n.u = v => n \in inbox
      BY <2>1
    <3> QED
      BY <1>1, <3>1, <3>2 DEF JobOK, Waiting, Reading, Taking
  <2>2. JobOK(u)'
    <3>1. Won(u) => Won(u)'
      BY <1>4
    <3>2. Waiting(u)' => journal[u] = NoJournal /\ s = "applying"
      BY <1>1, <1>2 DEF JobOK, Waiting, Reading
    <3>3. Taking(u)' => Won(u)
      BY <1>1, <1>2 DEF JobOK, Taking
    <3>4. s = "verifying" => Won(u)
      BY <1>2 DEF JobOK
    <3> QED
      BY <1>1, <1>3, <3>1, <3>2, <3>3, <3>4 DEF JobOK
  <2> QED
    BY <2>1, <2>2
<1>7. OneChosen'
  BY <1>2, <1>3 DEF OneChosen, Chosen
<1>8. OneApply'
  <2>1. ASSUME m.cmd = "apply"
        PROVE  (\A n \in inbox : n.cmd # "apply") /\ ~(proc.at = "read" /\ proc.cmd = "apply")
    <3>1. job[u] = "draining"
      BY <2>1
    <3>2. \A v \in Update : ~Waiting(v)
      BY <1>1, <1>2, <3>1 DEF RowsInv, JobOK
    <3>3. \A n \in inbox : n.u \in Update
      BY <1>1 DEF RowsInv, RowsTypeOK, Mail
    <3>4. proc.at = "read" => proc.u \in Update
      BY <1>1, Working DEF id
    <3> QED
      BY <3>2, <3>3, <3>4 DEF Waiting, Reading
  <2> QED
    BY <1>1, <2>1 DEF RowsInv, OneApply
<1>9. StatusOK' /\ RunOK' /\ LeadOK'
  BY <1>1, <1>2, <1>3 DEF RowsInv, StatusOK, RunOK, LeadOK, Open, Fenced
<1>10. ASSUME NEW f \in Caller PROVE WorkOK(ex[f])' /\ Current(f, ex[f])' /\ MailOK(f)'
  <2>1. CASE f # e
    <3>1. \A n \in inbox' : n.owner = f => n \in inbox
      BY <2>1
    <3>2. leader # f
      BY <2>1 DEF Guard
    <3> QED
      BY <1>1, <1>3, <1>4, <2>1, <3>1, <3>2, Bystander
  <2>2. CASE f = e
    <3>1. WorkOK(w)'
      BY <1>1, <1>4, Lasting
    <3>2. answer[e] = "none" /\ proc.owner # e /\ \A n \in inbox : n.owner # e
      BY <1>1 DEF RowsInv, MailOK
    <3>3. WorkOK(ex[e])'
      BY <1>3, <3>1 DEF WorkOK, Fits
    <3>4. Current(e, ex[e])'
      BY <1>3 DEF Current
    <3>5. MailOK(e)'
      BY <1>1, <1>3, <3>2 DEF MailOK
    <3> QED
      BY <2>2, <3>3, <3>4, <3>5
  <2> QED
    BY <2>1, <2>2
<1> QED
  BY <1>4, <1>5, <1>6, <1>7, <1>8, <1>9, <1>10 DEF IInv, RowsInv

LEMMA SendApplyStep ==
  ASSUME IInv, NEW e \in Caller, SendApply(e)
  PROVE  IInv'
<1>0. ex[e].at = "apply" /\ ex[e] # NoWork
  BY DEF SendApply, NoWork
<1>1. PICK u \in Update : u = ex[e].u
  BY <1>0, Positions DEF Works
<1>2. ex[e] \in Works /\ WorkOK(ex[e]) /\ ex[e].js = "draining" /\ ex[e].code = "none"
  BY <1>0, Positions DEF WorkOK
<1>3. CASE /\ Guard(e) /\ Phase(e, "applying") /\ UNCHANGED status
           /\ inbox' \in {inbox, inbox \cup {[cmd |-> "apply", u |-> ex[e].u, owner |-> e]}}
           /\ ex' = [ex EXCEPT ![e].at = "await", ![e].js = "applying", ![e].cmd = "apply"]
  <2> DEFINE w == [ex[e] EXCEPT !.at = "await", !.js = "applying", !.cmd = "apply"]
             m == [cmd |-> "apply", u |-> ex[e].u, owner |-> e]
  <2>1. /\ w \in Works /\ w.at = "await" /\ w.u = u /\ w.js = "applying" /\ w.cmd = "apply"
        /\ w.code = "none" /\ w.got = ex[e].got
    BY <1>1, <1>2 DEF Works, Steps, Open, Commands
  <2>2. m \in Mail /\ m.u = u /\ m.owner = e /\ m.cmd = "apply"
    BY <1>1 DEF Mail, Commands
  <2>3. ex' = [ex EXCEPT ![e] = w] /\ inbox' \in {inbox, inbox \cup {m}}
    BY <1>3
  <2> HIDE DEF w, m
  <2>4. WorkOK(w)
    BY <1>0, <1>1, <1>2, <2>1 DEF WorkOK
  <2>5. job[u] = "draining" /\ job' = [job EXCEPT ![u] = "applying"]
    BY <1>0, <1>1, <1>2, <1>3, Authority DEF Phase, Open
  <2>6. UNCHANGED <<installerVars, leader, past, run, status>>
    BY <1>3 DEF SendApply
  <2>7. PICK s \in {"applying", "verifying"} : s = "applying"
    OBVIOUS
  <2> QED
    BY <1>0, <1>1, <1>3, <2>1, <2>2, <2>3, <2>4, <2>5, <2>6, <2>7, Sends
<1>4. CASE Caught(e) /\ UNCHANGED <<job, inbox>>
  BY <1>0, <1>4, CaughtStep, Reopened DEF SendApply, installerVars
<1> QED
  BY <1>3, <1>4 DEF SendApply

LEMMA InspectStep ==
  ASSUME IInv, NEW e \in Caller, Inspect(e)
  PROVE  IInv'
<1>0. ex[e].at = "inspect" /\ ex[e] # NoWork /\ ex[e].at # "await"
  BY DEF Inspect, NoWork
<1>1. PICK u \in Update : u = ex[e].u
  BY <1>0, Positions DEF Works
<1>2. /\ ex[e] \in Works /\ WorkOK(ex[e]) /\ ex[e].code = "none"
      /\ ex[e].js \in {"applying", "verifying"} /\ (ex[e].cmd = "rollback" => ex[e].js = "verifying")
  BY <1>0, Positions DEF WorkOK
<1>3. UNCHANGED <<installerVars, leader, past, job, run>> /\ RowsInv /\ BoxInv
  BY DEF Inspect, IInv
<1>4. UNCHANGED <<installed, candidate, retained, spare, journal, proc, faults, answer, leader, past, job, run, daemon>>
  BY <1>3 DEF installerVars
<1>5. CASE /\ ex[e].cmd = "status" /\ Status(u) \notin {"pending", "failed"}
           /\ ex' = [ex EXCEPT ![e].at = "accept", ![e].cmd = "none", ![e].got = Status(u)]
           /\ UNCHANGED <<inbox, status>>
  <2>1. Status(u) \in Results /\ (Status(u) = "succeeded" => journal[u].state = "succeeded")
        /\ (Status(u) \in {"deferred", "rolled_back"} => journal[u].state = Status(u))
    BY <1>3 DEF BoxInv, InstallerTypeOK, Status, Results, States, NoJournal
  <2>2. PICK r \in Results : r = Status(u)
    BY <2>1
  <2> DEFINE w == [ex[e] EXCEPT !.at = "accept", !.cmd = "none", !.got = r]
  <2>3. /\ w \in Works /\ w.at = "accept" /\ w.u = u /\ w.js = ex[e].js /\ w.cmd = "none"
        /\ w.code = "none" /\ w.got = r
    BY <1>1, <1>2 DEF Works, Steps
  <2>4. ex' = [ex EXCEPT ![e] = w]
    BY <1>5, <2>2
  <2> HIDE DEF w
  <2>5. Fits(r, u)
    BY <2>1, <2>2 DEF Fits, Won
  <2>6. WorkOK(w)
    BY <1>2, <2>3, <2>5 DEF WorkOK
  <2> QED
    BY <1>0, <1>1, <1>4, <1>5, <2>3, <2>4, <2>6, Strolls, Reopened
<1>6. CASE ex' = [ex EXCEPT ![e].cmd = "reconcile"] /\ UNCHANGED <<inbox, status>>
  <2> DEFINE w == [ex[e] EXCEPT !.cmd = "reconcile"]
  <2>1. /\ w \in Works /\ w.at = "inspect" /\ w.u = u /\ w.js = ex[e].js /\ w.cmd = "reconcile"
        /\ w.code = "none" /\ w.got = ex[e].got
    BY <1>0, <1>1, <1>2 DEF Works, Commands
  <2>2. ex' = [ex EXCEPT ![e] = w]
    BY <1>6
  <2> HIDE DEF w
  <2>3. WorkOK(w)
    BY <1>0, <1>1, <1>2, <2>1 DEF WorkOK
  <2> QED
    BY <1>0, <1>1, <1>4, <1>6, <2>1, <2>2, <2>3, Strolls, Reopened
<1>7. CASE /\ Guard(e) /\ ex[e].cmd \in {"reconcile", "rollback"}
           /\ inbox' = inbox \cup {[cmd |-> ex[e].cmd, u |-> u, owner |-> e]}
           /\ Go(e, "await") /\ UNCHANGED status
  <2>1. PICK w \in Works : /\ Became(e, w, "await") /\ w.js = ex[e].js /\ w.cmd = ex[e].cmd
                           /\ w.code = ex[e].code /\ w.got = ex[e].got
    BY <1>0, <1>7, Positions DEF Steps
  <2>2. WorkOK(w) /\ w.u = u /\ ex' = [ex EXCEPT ![e] = w] /\ w.at = "await" /\ w.code = "none"
    BY <1>0, <1>1, <1>2, <2>1 DEF WorkOK, Became
  <2> DEFINE m == [cmd |-> ex[e].cmd, u |-> u, owner |-> e]
  <2>3. m \in Mail /\ m.u = u /\ m.owner = e /\ m.cmd = ex[e].cmd /\ m.cmd # "apply"
    BY <1>7 DEF Mail, Commands
  <2>4. inbox' \in {inbox, inbox \cup {m}}
    BY <1>7
  <2> HIDE DEF m
  <2>5. job[u] = ex[e].js /\ JobOK(u)
    BY <1>0, <1>1, <1>7, Authority
  <2>6. m.cmd = "rollback" => Won(u)
    BY <1>2, <2>3, <2>5 DEF JobOK
  <2>7. PICK s \in {"applying", "verifying"} : s = ex[e].js
    BY <1>2
  <2>8. job' = [job EXCEPT ![u] = s]
    BY <1>3, <2>5, <2>7 DEF RowsInv, RowsTypeOK
  <2>9. w.js = s /\ job[u] = s
    BY <2>1, <2>5, <2>7
  <2>10. UNCHANGED <<installerVars, leader, past, run, status>>
    BY <1>3, <1>7
  <2> QED
    BY <1>0, <1>1, <1>7, <2>2, <2>3, <2>4, <2>6, <2>8, <2>9, <2>10, Sends
<1>8. CASE Caught(e) /\ UNCHANGED inbox
  BY <1>0, <1>4, <1>8, CaughtStep, Reopened
<1> QED
  BY <1>1, <1>5, <1>6, <1>7, <1>8 DEF Inspect

\* An executor that waited gives up or dies: what it sent lives on without an owner.
LEMMA Abandons ==
  ASSUME IInv, NEW e \in Caller, Abandoned(e), ex' = [ex EXCEPT ![e] = NoWork],
         UNCHANGED <<installed, candidate, retained, spare, journal, daemon, leader, past, job, run>>,
         faults' \in 0..MaxFaults, status' = status \/ (status' = "blocked" /\ status \in Fenced)
  PROVE  IInv'
<1>1. RowsInv /\ InstallerTypeOK /\ daemon \in DaemonRecord
  BY Reopened DEF IInv, BoxInv
<1> DEFINE Orphan(m) == [m EXCEPT !.owner = IF m.owner = e THEN Nobody ELSE m.owner]
<1>2. inbox' = {Orphan(m) : m \in inbox}
  BY DEF Abandoned
<1>3. ASSUME NEW m \in Mail
      PROVE  /\ Orphan(m) \in Mail /\ Orphan(m).cmd = m.cmd /\ Orphan(m).u = m.u
             /\ Orphan(m).owner = IF m.owner = e THEN Nobody ELSE m.owner
             /\ m.owner # e => Orphan(m) = m
  BY DEF Mail
<1> HIDE DEF Orphan
<1>4. \A m \in inbox : m \in Mail
  BY <1>1 DEF RowsInv, RowsTypeOK
<1>5. \A n \in inbox' : \E m \in inbox : n = Orphan(m) /\ n.cmd = m.cmd /\ n.u = m.u
  BY <1>2, <1>3, <1>4
<1>6. \A n \in inbox' : n \in Mail /\ n.owner # e /\ (n.owner \in Caller => n \in inbox)
  BY <1>2, <1>3, <1>4, Nobodies DEF Nobody
<1>7. proc \in ProcRecord \cup {Idle}
  BY <1>1 DEF InstallerTypeOK, ProcRecord
<1>8. /\ proc' \in ProcRecord \cup {Idle}
      /\ proc'.at = proc.at /\ proc'.u = proc.u /\ proc'.cmd = proc.cmd
      /\ proc'.owner # e /\ (proc'.owner \in Caller => proc'.owner = proc.owner)
  <2>1. CASE proc.owner # e
    BY <1>7, <2>1 DEF Abandoned
  <2>2. CASE proc.owner = e
    <3>1. proc \in ProcRecord
      BY <1>7, <2>2, Nobodies DEF Idle, Nobody
    <3>2. proc' = [proc EXCEPT !.owner = Nobody]
      BY <2>2 DEF Abandoned
    <3> QED
      BY <3>1, <3>2, Nobodies DEF ProcRecord, Nobody
  <2> QED
    BY <2>1, <2>2
<1>9. /\ answer' \in [Caller -> Results] /\ answer'[e] = "none"
      /\ \A f \in Caller : f # e => answer'[f] = answer[f]
  BY <1>1 DEF InstallerTypeOK, Results, Abandoned
<1>10. BoxInv' /\ \A u \in Update : Won(u) => Won(u)'
  BY <1>1, <1>8, <1>9, BoxStays DEF IInv
<1>11. /\ status' \in {"pending", "updating", "blocked", "current", "deferred", "failed"}
       /\ status' \in Fenced <=> status \in Fenced
       /\ status' # status => status \notin {"current", "failed"} /\ status' \notin {"current", "failed"}
  BY <1>1 DEF RowsInv, RowsTypeOK, Fenced
<1>12. ex' \in [Caller -> Works \cup {NoWork}] /\ ex'[e] = NoWork /\ \A f \in Caller : f # e => ex'[f] = ex[f]
  BY <1>1 DEF RowsInv, RowsTypeOK
<1>13. RowsTypeOK'
  BY <1>1, <1>6, <1>11, <1>12 DEF RowsInv, RowsTypeOK
<1>14. \A u \in Update : JobOK(u)'
  <2> SUFFICES ASSUME NEW u \in Update PROVE JobOK(u)'
    OBVIOUS
  <2>1. JobOK(u) /\ (Won(u) => Won(u)')
    BY <1>1, <1>10 DEF RowsInv
  <2>2. (Waiting(u)' => Waiting(u)) /\ (Taking(u)' => Taking(u))
    BY <1>5, <1>8 DEF Waiting, Reading, Taking
  <2>3. (\A m \in inbox : m.u # u) => \A n \in inbox' : n.u # u
    BY <1>5
  <2> QED
    BY <1>8, <2>1, <2>2, <2>3 DEF JobOK
<1>15. OneChosen' /\ StatusOK' /\ RunOK'
  BY <1>1, <1>11 DEF RowsInv, OneChosen, Chosen, StatusOK, RunOK
<1>16. OneApply'
  <2>1. \A m, n \in inbox : m.cmd = "apply" /\ n.cmd = "apply" => m = n
    BY <1>1 DEF RowsInv, OneApply
  <2>2. \A m, n \in inbox' : m.cmd = "apply" /\ n.cmd = "apply" => m = n
    BY <1>5, <2>1
  <2>3. proc'.at = "read" /\ proc'.cmd = "apply" => \A n \in inbox' : n.cmd # "apply"
    BY <1>1, <1>5, <1>8 DEF RowsInv, OneApply
  <2> QED
    BY <2>2, <2>3 DEF OneApply
<1>17. LeadOK'
  BY <1>1, <1>12 DEF RowsInv, LeadOK
<1>18. ASSUME NEW f \in Caller PROVE WorkOK(ex[f])' /\ Current(f, ex[f])' /\ MailOK(f)'
  <2>1. CASE f # e
    <3>1. ex'[f] = ex[f] /\ answer'[f] = answer[f] /\ (proc'.owner = f => proc.owner = f /\ proc'.u = proc.u)
      BY <1>8, <1>9, <1>12, <2>1
    <3>2. \A n \in inbox' : n.owner = f => n \in inbox
      BY <1>6
    <3> QED
      BY <1>10, <3>1, <3>2, Bystander
  <2>2. CASE f = e
    <3>1. WorkOK(ex[e])' /\ Current(e, ex[e])'
      BY <1>12 DEF WorkOK, Current
    <3>2. MailOK(e)'
      BY <1>6, <1>8, <1>9 DEF MailOK
    <3> QED
      BY <2>2, <3>1, <3>2
  <2> QED
    BY <2>1, <2>2
<1> QED
  BY <1>10, <1>13, <1>14, <1>15, <1>16, <1>17, <1>18 DEF IInv, RowsInv

LEMMA ExecutorDiesStep ==
  ASSUME IInv, NEW e \in Caller, ExecutorDies(e)
  PROVE  IInv'
<1>1. faults' \in 0..MaxFaults
  BY FaultBound DEF ExecutorDies, Fault, IInv, BoxInv, InstallerTypeOK
<1> QED
  BY <1>1, Abandons DEF ExecutorDies, Leave

LEMMA AwaitStep ==
  ASSUME IInv, NEW e \in Caller, Await(e)
  PROVE  IInv'
<1>0. ex[e].at = "await" /\ ex[e] # NoWork
  BY DEF Await, NoWork
<1>1. /\ UNCHANGED <<installed, candidate, retained, spare, journal, daemon, leader, past, job, run, faults>>
      /\ RowsInv /\ InstallerTypeOK /\ daemon \in DaemonRecord /\ faults \in 0..MaxFaults
  BY Reopened DEF Await, IInv, BoxInv, InstallerTypeOK
<1>2. PICK u \in Update : u = ex[e].u
  BY <1>0, Positions DEF Works
<1>3. ex[e] \in Works /\ WorkOK(ex[e]) /\ ex[e].js \in {"applying", "verifying"} /\ ex[e].code = "none" /\ MailOK(e)
  BY <1>0, <1>1, Positions DEF WorkOK, RowsInv
<1>4. CASE Abandoned(e) /\ Caught(e)
  <2>1. Leave(e) /\ (status' = status \/ (status' = "blocked" /\ status \in Fenced))
    BY <1>3, <1>4 DEF Caught, Guard
  <2> QED
    BY <1>1, <1>4, <2>1, Abandons DEF Leave
<1>5. CASE /\ answer[e] # "none" /\ answer' = [answer EXCEPT ![e] = "none"]
           /\ ex' = [ex EXCEPT ![e].at = "accept", ![e].cmd = "none", ![e].got = answer[e]]
           /\ UNCHANGED <<proc, inbox, status>>
  <2>1. PICK r \in Results : r = answer[e]
    BY <1>1 DEF InstallerTypeOK
  <2>2. PICK w \in Works : /\ ex' = [ex EXCEPT ![e] = w] /\ w.at = "accept" /\ w.u = u /\ w.js = ex[e].js
                           /\ w.cmd = "none" /\ w.code = "none" /\ w.got = r
    <3> DEFINE v == [ex[e] EXCEPT !.at = "accept", !.cmd = "none", !.got = r]
    <3>1. /\ v \in Works /\ v.at = "accept" /\ v.u = u /\ v.js = ex[e].js /\ v.cmd = "none"
          /\ v.code = "none" /\ v.got = r
      BY <1>2, <1>3 DEF Works, Steps
    <3>2. ex' = [ex EXCEPT ![e] = v]
      BY <1>5, <2>1
    <3> HIDE DEF v
    <3> QED
      BY <3>1, <3>2
  <2>3. ex' = [ex EXCEPT ![e] = w] /\ w # NoWork
    BY <2>2 DEF NoWork
  <2>4. Fits(r, u)
    BY <1>2, <1>3, <1>5, <2>1 DEF MailOK
  <2>5. WorkOK(w)
    BY <1>3, <2>2, <2>4 DEF WorkOK
  <2>6. /\ answer' \in [Caller -> Results] /\ answer'[e] = "none"
        /\ \A f \in Caller : f # e => answer'[f] = answer[f]
    BY <1>1, <1>5 DEF InstallerTypeOK, Results
  <2>7. BoxInv' /\ \A v \in Update : Won(v) => Won(v)'
    BY <1>1, <1>5, <2>6, BoxStays DEF IInv, InstallerTypeOK, ProcRecord
  <2>8. ex' \in [Caller -> Works \cup {NoWork}] /\ ex'[e] = w /\ \A f \in Caller : f # e => ex'[f] = ex[f]
    BY <1>1, <2>2, <2>3 DEF RowsInv, RowsTypeOK
  <2>9. RowsTypeOK'
    BY <1>1, <1>5, <2>8 DEF RowsInv, RowsTypeOK
  <2>10. \A v \in Update : JobOK(v)'
    BY <1>1, <1>5, <2>7 DEF RowsInv, JobOK, Waiting, Reading, Taking
  <2>11. OneChosen' /\ StatusOK' /\ RunOK' /\ OneApply'
    BY <1>1, <1>5 DEF RowsInv, OneChosen, Chosen, StatusOK, RunOK, OneApply
  <2>12. LeadOK'
    BY <1>0, <1>1, <2>8 DEF RowsInv, LeadOK
  <2>13. ASSUME NEW f \in Caller PROVE WorkOK(ex[f])' /\ Current(f, ex[f])' /\ MailOK(f)'
    <3>1. CASE f # e
      BY <1>1, <1>5, <2>6, <2>7, <2>8, <3>1, Bystander
    <3>2. CASE f = e
      <4>1. WorkOK(w)'
        BY <1>1, <2>2, <2>5, <2>7, Lasting
      <4>2. WorkOK(ex[e])'
        BY <2>8, <4>1 DEF WorkOK, Fits
      <4>3. Current(e, ex[e]) /\ ex[e] # NoWork
        BY <1>0, <1>1 DEF RowsInv
      <4>4. Current(e, ex[e])'
        BY <1>1, <1>2, <2>2, <2>8, <4>3 DEF Current
      <4>5. MailOK(e)'
        BY <1>3, <1>5, <2>6 DEF MailOK
      <4> QED
        BY <3>2, <4>2, <4>4, <4>5
    <3> QED
      BY <3>1, <3>2
  <2> QED
    BY <2>7, <2>9, <2>10, <2>11, <2>12, <2>13 DEF IInv, RowsInv
<1> QED
  BY <1>4, <1>5 DEF Await

LEMMA DeliverStep ==
  ASSUME IInv, Deliver
  PROVE  IInv'
<1>1. /\ UNCHANGED <<installed, candidate, retained, spare, journal, daemon, faults, leader, past, job, status, run, ex>>
      /\ RowsInv /\ InstallerTypeOK /\ daemon \in DaemonRecord /\ faults \in 0..MaxFaults
  BY Reopened DEF Deliver, IInv, BoxInv, InstallerTypeOK
<1>2. PICK m \in inbox : inbox' = inbox \ {m} /\ Begin(m.cmd, m.u, m.owner)
  BY DEF Deliver
<1>3. m \in Mail /\ m.u \in Update /\ m.cmd \in Commands /\ m.owner \in Caller \cup {Nobody}
  BY <1>1 DEF RowsInv, RowsTypeOK, Mail
<1>4. proc \in ProcRecord \cup {Idle}
  BY <1>1 DEF InstallerTypeOK, ProcRecord
<1>5. \/ /\ proc' = proc /\ proc # Idle
         /\ answer' = IF m.owner \in Caller THEN [answer EXCEPT ![m.owner] = "in_progress"] ELSE answer
      \/ /\ proc = Idle /\ answer' = answer
         /\ proc' = [cmd |-> m.cmd, u |-> m.u, at |-> "read", owner |-> m.owner]
  BY <1>2 DEF Begin
<1>6. /\ answer' \in [Caller -> Results]
      /\ \A f \in Caller : answer'[f] = answer[f] \/ (f = m.owner /\ proc' = proc /\ answer'[f] = "in_progress")
  BY <1>1, <1>5 DEF InstallerTypeOK, Results
<1>7. /\ proc' \in ProcRecord \cup {Idle}
      /\ \/ proc' = proc
         \/ /\ proc = Idle /\ proc'.at = "read" /\ proc'.u = m.u /\ proc'.cmd = m.cmd /\ proc'.owner = m.owner
  BY <1>3, <1>4, <1>5 DEF ProcRecord, Places
<1>8. BoxInv' /\ \A u \in Update : Won(u) => Won(u)'
  BY <1>1, <1>6, <1>7, BoxStays DEF IInv
<1>9. RowsTypeOK' /\ OneChosen' /\ StatusOK' /\ RunOK' /\ LeadOK'
  BY <1>1, <1>2 DEF RowsInv, RowsTypeOK, OneChosen, Chosen, StatusOK, RunOK, LeadOK
<1>10. \A u \in Update : JobOK(u)'
  <2> SUFFICES ASSUME NEW u \in Update PROVE JobOK(u)'
    OBVIOUS
  <2>1. JobOK(u) /\ (Won(u) => Won(u)')
    BY <1>1, <1>8 DEF RowsInv
  <2>2. (Waiting(u)' => Waiting(u)) /\ (Taking(u)' => Taking(u))
    BY <1>2, <1>7 DEF Waiting, Reading, Taking
  <2>3. proc'.u = u => proc.u = u \/ m.u = u
    BY <1>7
  <2> QED
    BY <1>1, <1>2, <2>1, <2>2, <2>3 DEF JobOK
<1>11. OneApply'
  BY <1>1, <1>2, <1>7 DEF RowsInv, OneApply
<1>12. ASSUME NEW f \in Caller PROVE WorkOK(ex[f])' /\ Current(f, ex[f])' /\ MailOK(f)'
  <2>1. CASE f # m.owner
    <3>1. answer'[f] = answer[f] /\ (proc'.owner = f => proc.owner = f /\ proc'.u = proc.u)
      BY <1>6, <1>7, <2>1
    <3> QED
      BY <1>1, <1>2, <1>8, <3>1, Bystander
  <2>2. CASE f = m.owner
    <3>1. ex[f] \in Works \cup {NoWork} /\ WorkOK(ex[f]) /\ Current(f, ex[f]) /\ MailOK(f)
      BY <1>1 DEF RowsInv, RowsTypeOK
    <3>2. WorkOK(ex[f])'
      <4>1. \A v \in Works \cup {NoWork} : v = ex[f] => WorkOK(v)'
        BY <1>1, <1>8, <3>1, Lasting
      <4> QED
        BY <1>1, <3>1, <4>1 DEF WorkOK, Fits
    <3>3. Current(f, ex[f])'
      BY <1>1, <3>1 DEF Current
    <3>4. /\ ex[f].at = "await" /\ ex[f].u = m.u /\ answer[f] = "none" /\ proc.owner # f
          /\ \A n \in inbox' : n.owner # f
      BY <1>2, <2>2, <3>1 DEF MailOK
    <3>5. answer'[f] \in {"none", "in_progress"} /\ (answer'[f] # "none" => proc' = proc)
      BY <1>6, <3>4
    <3>6. MailOK(f)'
      BY <1>1, <1>6, <1>7, <3>4, <3>5 DEF MailOK, Fits
    <3> QED
      BY <3>2, <3>3, <3>6
  <2> QED
    BY <2>1, <2>2
<1> QED
  BY <1>8, <1>9, <1>10, <1>11, <1>12 DEF IInv, RowsInv

LEMMA ExecutorStep ==
  ASSUME IInv, NEW e \in Caller,
         \/ TakeLease(e) \/ Tick(e) \/ StagingHealth(e) \/ Stage(e) \/ Settle(e) \/ InstallHealth(e)
         \/ Drain(e) \/ SendApply(e) \/ Await(e) \/ Inspect(e) \/ Accept(e) \/ Verify(e)
         \/ FinishGuard(e) \/ FinishReopen(e) \/ FinishCommit(e) \/ ExecutorDies(e)
  PROVE  IInv'
BY TakeLeaseStep, TickStep, StagingHealthStep, StageStep, SettleStep, InstallHealthStep, DrainStep,
   SendApplyStep, AwaitStep, InspectStep, AcceptStep, VerifyJobStep, FinishGuardStep, FinishReopenStep,
   FinishCommitStep, ExecutorDiesStep

\* The steps of Next, by the part of the system that takes them.
LEMMA Who ==
  ASSUME Next
  PROVE  \/ (Installing \/ Killed \/ DaemonRestarts \/ BoxRestarts) /\ UNCHANGED updateVars
         \/ Claim \/ Dispatch \/ RunEnds \/ Deliver
         \/ \E e \in Caller :
              \/ TakeLease(e) \/ Tick(e) \/ StagingHealth(e) \/ Stage(e) \/ Settle(e) \/ InstallHealth(e)
              \/ Drain(e) \/ SendApply(e) \/ Await(e) \/ Inspect(e) \/ Accept(e) \/ Verify(e)
              \/ FinishGuard(e) \/ FinishReopen(e) \/ FinishCommit(e) \/ ExecutorDies(e)
BY ZenonT(30) DEF Next, Box, Installing

LEMMA NextKeeps ==
  IInv /\ [Next]_vars => IInv'
<1> SUFFICES ASSUME IInv, [Next]_vars PROVE IInv'
  OBVIOUS
<1>1. CASE (Installing \/ Killed \/ DaemonRestarts \/ BoxRestarts) /\ UNCHANGED updateVars
  <2>1. BoxInv' /\ BoxMoves
    BY <1>1, Promised, BoxStep DEF IInv
  <2> QED
    BY <1>1, <2>1, BoxKeepsRows
<1>2. CASE UNCHANGED vars
  <2>1. UNCHANGED <<installed, candidate, retained, spare, journal, daemon, proc, answer, faults>> /\ UNCHANGED updateVars
    BY <1>2 DEF vars, installerVars
  <2>2. InstallerTypeOK /\ daemon \in DaemonRecord /\ proc \in ProcRecord \cup {Idle}
    BY Reopened DEF IInv, BoxInv, InstallerTypeOK, ProcRecord
  <2>3. BoxInv' /\ \A u \in Update : Won(u) => Won(u)'
    BY <2>1, <2>2, BoxStays DEF IInv, InstallerTypeOK
  <2>4. \A u \in Update : proc'.u = u /\ proc'.cmd = "rollback" => Won(u)' \/ (proc.u = u /\ proc.cmd = "rollback")
    BY <2>1
  <2>5. BoxMoves
    BY <2>1, <2>3, <2>4 DEF BoxMoves
  <2> QED
    BY <2>1, <2>3, <2>5, BoxKeepsRows
<1>3. CASE Next
  BY <1>1, <1>3, Who, RunStep, DeliverStep, ExecutorStep
<1> QED
  BY <1>2, <1>3

LEMMA Inductive ==
  Spec => []IInv
BY Initially, NextKeeps, PTL DEF Spec

\* RuntimeTypes: the installer, its Box, the rows of PostgreSQL and the executors keep the values the
\* code can write, whatever steps and faults they take.
THEOREM RuntimeTypes ==
  Spec => []TypeOK
<1>1. IInv => TypeOK
  BY DEF IInv, BoxInv, RowsInv, RowsTypeOK, TypeOK, JobStates, Works, Mail
<1> QED
  BY <1>1, Inductive, PTL

-----------------------------------------------------------------------------
\* What the fence, the idle checks and the maintenance flag give.

\* An installer past its journal, that does not take the files back on request, works for an open update.
LEMMA FenceIsUp ==
  ASSUME IInv, AtWork, proc.cmd # "rollback"
  PROVE  status \in Fenced /\ ~daemon.run
<1>1. PICK i \in Update : i = proc.u
  BY Working DEF IInv, BoxInv, AtWork, id
<1>2. journal[i].state = "pending" /\ proc.at \notin {"read"} \cup BackPlaces
  BY <1>1, AtStart DEF IInv, BoxInv, PlaceOK, AtWork, id
<1>3. ~Won(i) /\ Held(i)
  BY <1>1, <1>2 DEF Won, Held
<1>4. JobOK(i) /\ job[i] \in JobStates /\ Chosen(i)
  BY <1>3, Promised DEF IInv, RowsInv, RowsTypeOK
<1>5. job[i] \in Open
  BY <1>2, <1>3, <1>4 DEF JobOK, JobStates, Open, Closed, Chosen
<1>6. status \in Fenced /\ run = "none"
  BY <1>5 DEF IInv, RowsInv, StatusOK, RunOK
<1> QED
  BY <1>6 DEF IInv, RowsInv, RunOK

LEMMA Opened ==
  IInv => OpenedIsQuiet
<1> SUFFICES ASSUME IInv, status \in {"deferred", "failed"} \/ (status = "current" /\ ~RollbackUnderWay)
             PROVE  /\ proc.at \in {"idle", "read"} /\ daemon.unit = "active" /\ daemon.exe = installed
                    /\ installed = IF status = "current" THEN "new" ELSE "old"
  BY DEF OpenedIsQuiet
<1>1. /\ \A u \in Update : JobOK(u) /\ job[u] \in JobStates /\ (Held(u) => Chosen(u)) /\ JournalOK(u)
      /\ StatusOK /\ OneHeld /\ Resting /\ DaemonOK /\ InstallerTypeOK
  BY Promised DEF IInv, RowsInv, RowsTypeOK, BoxInv
<1>2. AtWork => proc.u \in Update /\ journal[proc.u].state = "pending" /\ Held(proc.u)
  BY Working DEF IInv, BoxInv, PlaceOK, AtWork, id, Held
<1>3. CASE status \in {"deferred", "failed"}
  <2>1. ASSUME NEW u \in Update, Held(u) PROVE FALSE
    BY <1>1, <1>3, <2>1 DEF JobOK, Chosen, JobStates, Closed, StatusOK, Fenced, Held
  <2>2. ~AtWork /\ installed = "old" /\ daemon.unit = "active"
    BY <1>1, <1>2, <2>1 DEF Resting
  <2> QED
    BY <1>1, <1>3, <2>2 DEF AtWork, DaemonOK
<1>4. CASE status = "current" /\ ~RollbackUnderWay
  <2>1. PICK u \in Update : job[u] = "succeeded"
    BY <1>1, <1>4 DEF StatusOK
  <2>2. journal[u].state = "succeeded"
    BY <1>4, <2>1 DEF RollbackUnderWay
  <2>3. ~AtWork /\ installed = "new" /\ daemon.unit = "active"
    BY <1>1, <1>2, <2>2 DEF JournalOK, OneHeld, Held
  <2> QED
    BY <1>1, <1>4, <2>3 DEF AtWork, DaemonOK
<1> QED
  BY <1>3, <1>4

\* OpenedUpdatesAreQuiet: once an update is deferred, failed or current, so that runs may start again,
\* no installer is past its journal and the daemon runs the files that the verdict names, whatever
\* commands arrived late, were repeated or lost their sender (runtime-updates.ts finish,
\* update-runtime.py).
THEOREM OpenedUpdatesAreQuiet ==
  Spec => []OpenedIsQuiet
BY Opened, Inductive, PTL

LEMMA NobodyStops ==
  ASSUME IInv, [Next]_vars, ~AtWork, proc.cmd # "rollback"
  PROVE  daemon'.unit \in {daemon.unit, "active"}
<1>1. daemon \in DaemonRecord
  BY Reopened DEF IInv, BoxInv
<1>2. CASE Installing
  BY <1>2
     DEF AtWork, Installing, ApplyRead, ApplyPreflight, ApplyCopy, ApplyReady, ApplyFreeze, ApplyFrozen,
     ApplyStop, ApplyExchange, ApplyRename, ApplyStart, ApplyVerify, RollbackBegin, RollbackStop,
     RollbackSwap, RollbackStart, ReconcileRead, ReconcileStart, RollbackRead, RollbackCopy,
     RequestedStop, RequestedSwap, RequestedStart
<1>3. CASE Killed \/ DaemonRestarts \/ BoxRestarts
  BY <1>3 DEF Killed, DaemonRestarts, BoxRestarts, Running
<1>4. CASE Claim \/ Dispatch \/ RunEnds \/ Deliver
  BY <1>1, <1>4 DEF Claim, Dispatch, RunEnds, Deliver, installerVars, DaemonRecord
<1>5. ASSUME NEW e \in Caller,
         \/ TakeLease(e) \/ Tick(e) \/ StagingHealth(e) \/ Stage(e) \/ Settle(e) \/ InstallHealth(e)
         \/ Drain(e) \/ SendApply(e) \/ Await(e) \/ Inspect(e) \/ Accept(e) \/ Verify(e)
         \/ FinishGuard(e) \/ FinishReopen(e) \/ FinishCommit(e) \/ ExecutorDies(e)
      PROVE daemon' \in {daemon, [daemon EXCEPT !.drained = FALSE], [daemon EXCEPT !.drained = TRUE]}
  BY <1>5
     DEF TakeLease, Tick, StagingHealth, Stage, Settle, InstallHealth, Drain, SendApply, Await, Inspect,
     Accept, Verify, FinishGuard, FinishReopen, FinishCommit, ExecutorDies, installerVars
<1>6. CASE UNCHANGED vars
  BY <1>6 DEF vars, installerVars
<1> QED
  BY <1>1, <1>2, <1>3, <1>4, <1>5, <1>6, Who DEF DaemonRecord

\* StopsFindNoRun: an installation never stops a daemon that has a run, across timeouts, changes of
\* the lease and restarts; only a requested rollback may (runtime-updates.ts guard and drain,
\* update-runtime.py apply).
THEOREM StopsFindNoRun ==
  Spec => StopFindsNoRun
<1> DEFINE Stops == daemon.unit # "stopped" /\ daemon'.unit = "stopped" /\ daemon.run => proc.cmd = "rollback"
<1>1. IInv /\ [Next]_vars => Stops
  BY NobodyStops, FenceIsUp
<1>2. IInv /\ [Next]_vars => [Stops]_vars
  BY <1>1
<1> QED
  BY <1>2, Inductive, PTL DEF Spec, StopFindsNoRun

-----------------------------------------------------------------------------
\* The old files.

\* A candidate or a retained directory of an update that has not exchanged the files yet holds nothing
\* that is needed.
Fresh(u) == candidate[u] # "old" /\ retained[u] = "none"
Untouched == {"preflight", "copy", "ready", "freeze", "frozen", "stop", "exchange"}
KeptInv ==
  /\ OldFilesKept
  /\ \A u \in Update : journal[u].state \in {"none", "deferred"} => Fresh(u)
  /\ \A u \in Update : proc.u = u /\ proc.at \in Untouched => Fresh(u)
  /\ \A u \in Update : proc.u = u /\ proc.at = "rename" => retained[u] = "none"

\* A step that leaves the directories alone.
LEMMA KeptAround ==
  ASSUME KeptInv, UNCHANGED dirs,
         \A u \in Update : journal'[u].state \in {"none", "deferred"} =>
            journal[u].state \in {"none", "deferred"} \/ (proc.u = u /\ proc.at \in Untouched),
         proc'.at \in Untouched => proc'.u = proc.u /\ \/ proc.at \in Untouched
                                                       \/ journal[proc.u].state \in {"none", "deferred"},
         proc'.at = "rename" => proc'.u = proc.u /\ proc.at = "rename"
  PROVE  KeptInv'
BY DEF KeptInv, OldFilesKept, Fresh, dirs


\* A step at work that leaves the directories alone: only an untouched update is deferred, and the
\* exchange is reached through the places before it.
LEMMA KeptAtWork ==
  ASSUME BoxInv, KeptInv, AtWork, NEW i \in Update, i = proc.u, UNCHANGED dirs,
         journal' = journal \/ \E phase \in Phases, state \in States :
            Wrote(i, phase, state) /\ (state = "deferred" => proc.at \in Untouched),
         proc' = Idle \/ \E place \in Places \ {"idle", "rename"} :
            Went(i, place) /\ (place \in Untouched => proc.at \in Untouched)
  PROVE  KeptInv'
<1>1. proc' = Idle => proc'.at = "idle"
  BY DEF Idle
<1>2. \A u \in Update : journal'[u].state \in {"none", "deferred"} =>
        journal[u].state \in {"none", "deferred"} \/ (proc.u = u /\ proc.at \in Untouched)
  BY DEF Wrote, States
<1>3. proc'.at \in Untouched => proc'.u = proc.u /\ proc.at \in Untouched
  BY <1>1 DEF Went, Untouched
<1>4. proc'.at # "rename"
  BY <1>1 DEF Went
<1> QED
  BY <1>2, <1>3, <1>4, KeptAround

LEMMA KeptInPlace ==
  ASSUME BoxInv, KeptInv,
         \/ ApplyPreflight \/ ApplyReady \/ ApplyFreeze \/ ApplyFrozen \/ ApplyStop \/ ApplyStart
         \/ ApplyVerify \/ RollbackBegin \/ RollbackStop \/ RollbackStart \/ RequestedStop \/ RequestedStart
  PROVE  KeptInv'
<1>0. AtWork
  BY
     DEF AtWork, ApplyPreflight, ApplyReady, ApplyFreeze, ApplyFrozen, ApplyStop, ApplyStart, ApplyVerify, RollbackBegin, RollbackStop, RollbackStart, RequestedStop, RequestedStart
<1>1. PICK i \in Update : i = proc.u
  BY <1>0, Working DEF BoxInv, AtWork, id
<1>2. journal[i].phase \in Phases
  BY <1>0, <1>1, AtStart DEF JournalRecord
<1>3. CASE ApplyPreflight
  <2>1. proc.at = "preflight" /\ UNCHANGED dirs
    BY <1>3 DEF ApplyPreflight
  <2>2. journal' = journal \/ \E phase \in Phases, state \in States :
          Wrote(i, phase, state) /\ (state = "deferred" => proc.at \in Untouched)
    BY <1>0, <1>1, <1>2, <1>3, AtStart, Outcomes
       DEF ApplyPreflight, RollbackFails, Keep, Untouched, Phases, States
  <2>3. proc' = Idle \/ \E place \in Places \ {"idle", "rename"} :
          Went(i, place) /\ (place \in Untouched => proc.at \in Untouched)
    BY <1>0, <1>1, <1>3, Outcomes DEF ApplyPreflight, RollbackFails, End, Untouched, Places
  <2> QED
    BY <1>0, <1>1, <2>1, <2>2, <2>3, KeptAtWork
<1>4. CASE ApplyReady
  <2>1. proc.at = "ready" /\ UNCHANGED dirs
    BY <1>4 DEF ApplyReady
  <2>2. journal' = journal \/ \E phase \in Phases, state \in States :
          Wrote(i, phase, state) /\ (state = "deferred" => proc.at \in Untouched)
    BY <1>0, <1>1, <1>2, <1>4, AtStart, Outcomes
       DEF ApplyReady, RollbackFails, Keep, Untouched, Phases, States
  <2>3. proc' = Idle \/ \E place \in Places \ {"idle", "rename"} :
          Went(i, place) /\ (place \in Untouched => proc.at \in Untouched)
    BY <1>0, <1>1, <1>4, Outcomes DEF ApplyReady, RollbackFails, End, Untouched, Places
  <2> QED
    BY <1>0, <1>1, <2>1, <2>2, <2>3, KeptAtWork
<1>5. CASE ApplyFreeze
  <2>1. proc.at = "freeze" /\ UNCHANGED dirs
    BY <1>5 DEF ApplyFreeze
  <2>2. journal' = journal \/ \E phase \in Phases, state \in States :
          Wrote(i, phase, state) /\ (state = "deferred" => proc.at \in Untouched)
    BY <1>0, <1>1, <1>2, <1>5, AtStart, Outcomes
       DEF ApplyFreeze, RollbackFails, Keep, Untouched, Phases, States
  <2>3. proc' = Idle \/ \E place \in Places \ {"idle", "rename"} :
          Went(i, place) /\ (place \in Untouched => proc.at \in Untouched)
    BY <1>0, <1>1, <1>5, Outcomes DEF ApplyFreeze, RollbackFails, End, Untouched, Places
  <2> QED
    BY <1>0, <1>1, <2>1, <2>2, <2>3, KeptAtWork
<1>6. CASE ApplyFrozen
  <2>1. proc.at = "frozen" /\ UNCHANGED dirs
    BY <1>6 DEF ApplyFrozen
  <2>2. journal' = journal \/ \E phase \in Phases, state \in States :
          Wrote(i, phase, state) /\ (state = "deferred" => proc.at \in Untouched)
    BY <1>0, <1>1, <1>2, <1>6, AtStart, Outcomes
       DEF ApplyFrozen, RollbackFails, Keep, Untouched, Phases, States
  <2>3. proc' = Idle \/ \E place \in Places \ {"idle", "rename"} :
          Went(i, place) /\ (place \in Untouched => proc.at \in Untouched)
    BY <1>0, <1>1, <1>6, Outcomes DEF ApplyFrozen, RollbackFails, End, Untouched, Places
  <2> QED
    BY <1>0, <1>1, <2>1, <2>2, <2>3, KeptAtWork
<1>7. CASE ApplyStop
  <2>1. proc.at = "stop" /\ UNCHANGED dirs
    BY <1>7 DEF ApplyStop
  <2>2. journal' = journal \/ \E phase \in Phases, state \in States :
          Wrote(i, phase, state) /\ (state = "deferred" => proc.at \in Untouched)
    BY <1>0, <1>1, <1>2, <1>7, AtStart, Outcomes
       DEF ApplyStop, RollbackFails, Keep, Untouched, Phases, States
  <2>3. proc' = Idle \/ \E place \in Places \ {"idle", "rename"} :
          Went(i, place) /\ (place \in Untouched => proc.at \in Untouched)
    BY <1>0, <1>1, <1>7, Outcomes DEF ApplyStop, RollbackFails, End, Untouched, Places
  <2> QED
    BY <1>0, <1>1, <2>1, <2>2, <2>3, KeptAtWork
<1>8. CASE ApplyStart
  <2>1. proc.at = "start" /\ UNCHANGED dirs
    BY <1>8 DEF ApplyStart
  <2>2. journal' = journal \/ \E phase \in Phases, state \in States :
          Wrote(i, phase, state) /\ (state = "deferred" => proc.at \in Untouched)
    BY <1>0, <1>1, <1>2, <1>8, AtStart, Outcomes
       DEF ApplyStart, RollbackFails, Keep, Untouched, Phases, States
  <2>3. proc' = Idle \/ \E place \in Places \ {"idle", "rename"} :
          Went(i, place) /\ (place \in Untouched => proc.at \in Untouched)
    BY <1>0, <1>1, <1>8, Outcomes DEF ApplyStart, RollbackFails, End, Untouched, Places
  <2> QED
    BY <1>0, <1>1, <2>1, <2>2, <2>3, KeptAtWork
<1>9. CASE ApplyVerify
  <2>1. proc.at = "verify" /\ UNCHANGED dirs
    BY <1>9 DEF ApplyVerify
  <2>2. journal' = journal \/ \E phase \in Phases, state \in States :
          Wrote(i, phase, state) /\ (state = "deferred" => proc.at \in Untouched)
    BY <1>0, <1>1, <1>2, <1>9, AtStart, Outcomes
       DEF ApplyVerify, RollbackFails, Keep, Untouched, Phases, States
  <2>3. proc' = Idle \/ \E place \in Places \ {"idle", "rename"} :
          Went(i, place) /\ (place \in Untouched => proc.at \in Untouched)
    BY <1>0, <1>1, <1>9, Outcomes DEF ApplyVerify, RollbackFails, End, Untouched, Places
  <2> QED
    BY <1>0, <1>1, <2>1, <2>2, <2>3, KeptAtWork
<1>10. CASE RollbackBegin
  <2>1. proc.at = "rb" /\ UNCHANGED dirs
    BY <1>10 DEF RollbackBegin
  <2>2. journal' = journal \/ \E phase \in Phases, state \in States :
          Wrote(i, phase, state) /\ (state = "deferred" => proc.at \in Untouched)
    BY <1>0, <1>1, <1>2, <1>10, AtStart, Outcomes
       DEF RollbackBegin, RollbackFails, Keep, Untouched, Phases, States
  <2>3. proc' = Idle \/ \E place \in Places \ {"idle", "rename"} :
          Went(i, place) /\ (place \in Untouched => proc.at \in Untouched)
    BY <1>0, <1>1, <1>10, Outcomes DEF RollbackBegin, RollbackFails, End, Untouched, Places
  <2> QED
    BY <1>0, <1>1, <2>1, <2>2, <2>3, KeptAtWork
<1>11. CASE RollbackStop
  <2>1. proc.at = "rb_stop" /\ UNCHANGED dirs
    BY <1>11 DEF RollbackStop
  <2>2. journal' = journal \/ \E phase \in Phases, state \in States :
          Wrote(i, phase, state) /\ (state = "deferred" => proc.at \in Untouched)
    BY <1>0, <1>1, <1>2, <1>11, AtStart, Outcomes
       DEF RollbackStop, RollbackFails, Keep, Untouched, Phases, States
  <2>3. proc' = Idle \/ \E place \in Places \ {"idle", "rename"} :
          Went(i, place) /\ (place \in Untouched => proc.at \in Untouched)
    BY <1>0, <1>1, <1>11, Outcomes DEF RollbackStop, RollbackFails, End, Untouched, Places
  <2> QED
    BY <1>0, <1>1, <2>1, <2>2, <2>3, KeptAtWork
<1>12. CASE RollbackStart
  <2>1. proc.at = "rb_start" /\ UNCHANGED dirs
    BY <1>12 DEF RollbackStart
  <2>2. journal' = journal \/ \E phase \in Phases, state \in States :
          Wrote(i, phase, state) /\ (state = "deferred" => proc.at \in Untouched)
    BY <1>0, <1>1, <1>2, <1>12, AtStart, Outcomes
       DEF RollbackStart, RollbackFails, Keep, Untouched, Phases, States
  <2>3. proc' = Idle \/ \E place \in Places \ {"idle", "rename"} :
          Went(i, place) /\ (place \in Untouched => proc.at \in Untouched)
    BY <1>0, <1>1, <1>12, Outcomes DEF RollbackStart, RollbackFails, End, Untouched, Places
  <2> QED
    BY <1>0, <1>1, <2>1, <2>2, <2>3, KeptAtWork
<1>13. CASE RequestedStop
  <2>1. proc.at = "rr_stop" /\ UNCHANGED dirs
    BY <1>13 DEF RequestedStop
  <2>2. journal' = journal \/ \E phase \in Phases, state \in States :
          Wrote(i, phase, state) /\ (state = "deferred" => proc.at \in Untouched)
    BY <1>0, <1>1, <1>2, <1>13, AtStart, Outcomes
       DEF RequestedStop, RollbackFails, Keep, Untouched, Phases, States
  <2>3. proc' = Idle \/ \E place \in Places \ {"idle", "rename"} :
          Went(i, place) /\ (place \in Untouched => proc.at \in Untouched)
    BY <1>0, <1>1, <1>13, Outcomes DEF RequestedStop, RollbackFails, End, Untouched, Places
  <2> QED
    BY <1>0, <1>1, <2>1, <2>2, <2>3, KeptAtWork
<1>14. CASE RequestedStart
  <2>1. proc.at = "rr_start" /\ UNCHANGED dirs
    BY <1>14 DEF RequestedStart
  <2>2. journal' = journal \/ \E phase \in Phases, state \in States :
          Wrote(i, phase, state) /\ (state = "deferred" => proc.at \in Untouched)
    BY <1>0, <1>1, <1>2, <1>14, AtStart, Outcomes
       DEF RequestedStart, RollbackFails, Keep, Untouched, Phases, States
  <2>3. proc' = Idle \/ \E place \in Places \ {"idle", "rename"} :
          Went(i, place) /\ (place \in Untouched => proc.at \in Untouched)
    BY <1>0, <1>1, <1>14, Outcomes DEF RequestedStart, RollbackFails, End, Untouched, Places
  <2> QED
    BY <1>0, <1>1, <2>1, <2>2, <2>3, KeptAtWork
<1> QED
  BY <1>3, <1>4, <1>5, <1>6, <1>7, <1>8, <1>9, <1>10, <1>11, <1>12, <1>13, <1>14

LEMMA KeptReading ==
  ASSUME BoxInv, KeptInv, ApplyRead \/ ReconcileRead \/ RollbackRead
  PROVE  KeptInv'
<1>0. proc.at = "read" /\ UNCHANGED dirs
  BY DEF ApplyRead, ReconcileRead, RollbackRead
<1>1. PICK i \in Update : i = proc.u
  BY <1>0, Working DEF BoxInv, id
<1>2. InstallerTypeOK /\ proc \in ProcRecord /\ id = i
  BY <1>0, <1>1, Working DEF BoxInv, id
<1>3. proc' = Idle => proc'.at = "idle"
  BY DEF Idle
<1>4. CASE ApplyRead
  <2>1. CASE journal[i].state \in {"none", "deferred"}
    <3>1. \A u \in Update : u # i => journal'[u] = journal[u]
      BY <1>2, <1>4 DEF ApplyRead, Keep, InstallerTypeOK
    <3>2. proc' = Idle \/ (proc'.at = "preflight" /\ proc'.u = i)
      BY <1>1, <1>2, <1>4 DEF ApplyRead, End, At, ProcRecord
    <3> QED
      BY <1>0, <1>1, <1>3, <2>1, <3>1, <3>2, KeptAround DEF Untouched
  <2>2. CASE journal[i].state \notin {"none", "deferred"}
    <3>1. UNCHANGED journal /\ proc' = Idle
      BY <1>2, <1>4, <2>2 DEF ApplyRead, Keep, End
    <3> QED
      BY <1>0, <1>3, <3>1, KeptAround DEF Untouched
  <2> QED
    BY <2>1, <2>2
<1>5. CASE ReconcileRead
  <2>1. UNCHANGED journal /\ (proc' = Idle \/ proc'.at \in {"read", "rc_start", "rb"})
    BY <1>0, <1>2, <1>5 DEF ReconcileRead, End, ProcRecord
  <2> QED
    BY <1>0, <1>3, <2>1, KeptAround DEF Untouched
<1>6. CASE RollbackRead
  <2>1. proc' = Idle \/ proc'.at = "rr_copy"
    BY <1>0, <1>2, <1>6 DEF RollbackRead, End, At, ProcRecord
  <2>2. \A u \in Update : journal'[u].state \in {"none", "deferred"} => journal[u].state \in {"none", "deferred"}
    <3>1. \A u \in Update : u # i => journal'[u] = journal[u]
      BY <1>2, <1>6 DEF RollbackRead, Keep, Persist, InstallerTypeOK
    <3>2. CASE journal'[i] = journal[i]
      BY <3>1, <3>2
    <3>3. CASE journal'[i] # journal[i]
      <4>1. journal[i] \in JournalRecord
        BY <1>2, <1>6, <3>3 DEF RollbackRead, Keep, InstallerTypeOK, JournalRecord, NoJournal
      <4>2. Persist("rollback_copy_pending", "pending") => journal'[i].state = "pending"
        BY <1>0, <1>2, <4>1, Persisted DEF Phases, States
      <4>3. \/ Persist("rollback_copy_pending", "pending")
            \/ journal' = [journal EXCEPT ![i] =
                  [journal[i] EXCEPT !.frozen = FALSE, !.phase = "rolled_back", !.state = "rolled_back"]]
        BY <1>2, <1>6, <3>3 DEF RollbackRead, Keep
      <4>4. [journal[i] EXCEPT !.frozen = FALSE, !.phase = "rolled_back", !.state = "rolled_back"].state = "rolled_back"
        BY <4>1 DEF JournalRecord
      <4>5. journal'[i].state \in {"rolled_back", "pending"}
        BY <1>2, <4>2, <4>3, <4>4 DEF InstallerTypeOK
      <4> QED
        BY <3>1, <4>5
    <3> QED
      BY <3>2, <3>3
  <2> QED
    BY <1>0, <1>3, <2>1, <2>2, KeptAround DEF Untouched
<1> QED
  BY <1>4, <1>5, <1>6

LEMMA CopyKeeps ==
  ASSUME BoxInv, KeptInv, ApplyCopy
  PROVE  KeptInv'
<1>0. AtWork /\ proc.at = "copy"
  BY DEF AtWork, ApplyCopy
<1>1. PICK i \in Update : i = proc.u
  BY <1>0, Working DEF BoxInv, AtWork, id
<1>2. InstallerTypeOK /\ id = i
  BY <1>0, <1>1, AtStart
<1>3. \E place \in {"copy", "ready", "rb"} : Went(i, place)
  BY <1>0, <1>1, Outcomes DEF ApplyCopy, Places
<1>4. CASE candidate' # candidate
  <2>1. candidate'[i] \in {"torn", "new"} /\ \A u \in Update : u # i => candidate'[u] = candidate[u]
    BY <1>2, <1>4 DEF ApplyCopy, InstallerTypeOK
  <2>2. UNCHANGED <<installed, retained, spare, journal>> /\ Fresh(i)
    BY <1>0, <1>1 DEF ApplyCopy, KeptInv, Untouched
  <2>3. OldFilesKept'
    BY <1>1, <2>1, <2>2 DEF KeptInv, OldFilesKept, Fresh
  <2>4. \A u \in Update : Fresh(u) => Fresh(u)'
    BY <2>1, <2>2 DEF Fresh
  <2>5. proc'.at # "rename" /\ proc'.u = i
    BY <1>0, <1>1, <1>3, <1>4, Outcomes DEF ApplyCopy, Went, Places
  <2> QED
    BY <2>2, <2>3, <2>4, <2>5 DEF KeptInv
<1>5. CASE candidate' = candidate
  <2>1. UNCHANGED dirs /\ UNCHANGED journal
    BY <1>5 DEF ApplyCopy, dirs
  <2>2. \E place \in Places \ {"idle", "rename"} : Went(i, place) /\ (place \in Untouched => proc.at \in Untouched)
    BY <1>0, <1>1, <1>3, Outcomes DEF ApplyCopy, Untouched, Places
  <2> QED
    BY <1>0, <1>1, <2>1, <2>2, KeptAtWork
<1> QED
  BY <1>4, <1>5

LEMMA ExchangeKeeps ==
  ASSUME BoxInv, KeptInv, ApplyExchange
  PROVE  KeptInv'
<1>0. AtWork /\ proc.at = "exchange"
  BY DEF AtWork, ApplyExchange
<1>1. PICK i \in Update : i = proc.u
  BY <1>0, Working DEF BoxInv, AtWork, id
<1>2. InstallerTypeOK /\ id = i
  BY <1>0, <1>1, AtStart
<1>3. /\ UNCHANGED <<retained, spare, journal>> /\ Fresh(i)
      /\ \E place \in {"rename", "rb"} : Went(i, place)
  BY <1>0, <1>1, Outcomes DEF ApplyExchange, KeptInv, Untouched, Places
<1>4. /\ \A u \in Update : u # i => candidate'[u] = candidate[u]
      /\ \/ installed' = candidate[i] /\ candidate'[i] = installed
         \/ installed' = installed /\ candidate'[i] = candidate[i]
  BY <1>2 DEF ApplyExchange, InstallerTypeOK
<1>5. OldFilesKept'
  BY <1>1, <1>3, <1>4 DEF KeptInv, OldFilesKept
<1>6. \A u \in Update : u # i => (Fresh(u) => Fresh(u)')
  BY <1>3, <1>4 DEF Fresh
<1>7. journal[i].state = "pending"
  BY <1>0, <1>1, AtStart
<1> QED
  BY <1>3, <1>5, <1>6, <1>7 DEF KeptInv, Went, Untouched, Fresh

LEMMA RenameKeeps ==
  ASSUME BoxInv, KeptInv, ApplyRename
  PROVE  KeptInv'
<1>0. AtWork /\ proc.at = "rename"
  BY DEF AtWork, ApplyRename
<1>1. PICK i \in Update : i = proc.u
  BY <1>0, Working DEF BoxInv, AtWork, id
<1>2. InstallerTypeOK /\ id = i
  BY <1>0, <1>1, AtStart
<1>3. UNCHANGED <<installed, spare>> /\ retained[i] = "none" /\ journal[i].state = "pending"
  BY <1>0, <1>1, AtStart DEF ApplyRename, KeptInv
<1>4. /\ \A u \in Update : u # i => candidate'[u] = candidate[u] /\ retained'[u] = retained[u] /\ journal'[u] = journal[u]
      /\ \/ retained'[i] = candidate[i]
         \/ retained'[i] = retained[i] /\ candidate'[i] = candidate[i]
      /\ journal'[i].state = "pending"
  <2>1. \A u \in Update : u # i => candidate'[u] = candidate[u] /\ retained'[u] = retained[u]
    BY <1>2 DEF ApplyRename, InstallerTypeOK
  <2>2. retained'[i] = candidate[i] \/ (retained'[i] = retained[i] /\ candidate'[i] = candidate[i])
    BY <1>2 DEF ApplyRename, InstallerTypeOK
  <2>3. journal' = journal \/ Wrote(i, "start_pending", "pending")
    BY <1>0, <1>1, Outcomes DEF ApplyRename, Phases, States
  <2> QED
    BY <1>3, <2>1, <2>2, <2>3 DEF Wrote
<1>5. \E place \in {"start", "rb"} : Went(i, place)
  BY <1>0, <1>1, Outcomes DEF ApplyRename, Places
<1>6. OldFilesKept'
  BY <1>1, <1>3, <1>4 DEF KeptInv, OldFilesKept
<1>7. \A u \in Update : u # i => (Fresh(u) => Fresh(u)')
  BY <1>4 DEF Fresh
<1> QED
  BY <1>4, <1>5, <1>6, <1>7 DEF KeptInv, Went, Untouched

LEMMA BackSwapKeeps ==
  ASSUME BoxInv, KeptInv, RollbackSwap
  PROVE  KeptInv'
<1>0. AtWork /\ proc.at = "rb_swap"
  BY DEF AtWork, RollbackSwap
<1>1. PICK i \in Update : i = proc.u
  BY <1>0, Working DEF BoxInv, AtWork, id
<1>2. InstallerTypeOK /\ id = i
  BY <1>0, <1>1, AtStart
<1>3. UNCHANGED <<candidate, spare>> /\ journal[i].state = "pending"
  BY <1>0, <1>1, AtStart DEF RollbackSwap
<1>4. /\ \A u \in Update : u # i => retained'[u] = retained[u] /\ journal'[u] = journal[u]
      /\ \/ installed' = retained[i] /\ retained'[i] = installed
         \/ installed' = installed /\ retained'[i] = retained[i]
      /\ journal'[i].state \in {"pending", "failed"}
  <2>1. \A u \in Update : u # i => retained'[u] = retained[u]
    BY <1>2 DEF RollbackSwap, InstallerTypeOK
  <2>2. \/ installed' = retained[i] /\ retained'[i] = installed
        \/ installed' = installed /\ retained'[i] = retained[i]
    BY <1>2 DEF RollbackSwap, InstallerTypeOK
  <2>3. journal' = journal \/ Wrote(i, "failed", "failed")
    BY <1>0, <1>1, Outcomes DEF RollbackSwap, RollbackFails, Phases, States
  <2> QED
    BY <1>3, <2>1, <2>2, <2>3 DEF Wrote
<1>5. proc' = Idle \/ Went(i, "rb_start")
  BY <1>0, <1>1, Outcomes DEF RollbackSwap, RollbackFails, End, Places
<1>6. OldFilesKept'
  BY <1>1, <1>3, <1>4 DEF KeptInv, OldFilesKept
<1>7. \A u \in Update : u # i => (Fresh(u) => Fresh(u)')
  BY <1>3, <1>4 DEF Fresh
<1> QED
  BY <1>4, <1>5, <1>6, <1>7 DEF KeptInv, Went, Untouched, Idle

LEMMA RecoverKeeps ==
  ASSUME BoxInv, KeptInv, ReconcileStart
  PROVE  KeptInv'
<1>0. AtWork /\ proc.at = "rc_start"
  BY DEF AtWork, ReconcileStart
<1>1. PICK i \in Update : i = proc.u
  BY <1>0, Working DEF BoxInv, AtWork, id
<1>2. InstallerTypeOK /\ id = i
  BY <1>0, <1>1, AtStart
<1>3. UNCHANGED <<installed, spare>> /\ journal[i].state = "pending"
  BY <1>0, <1>1, AtStart DEF ReconcileStart
<1>4. /\ \A u \in Update : u # i => candidate'[u] = candidate[u] /\ retained'[u] = retained[u] /\ journal'[u] = journal[u]
      /\ \/ retained[i] = "none" /\ retained'[i] = candidate[i]
         \/ retained'[i] = retained[i] /\ candidate'[i] = candidate[i]
  <2>1. \A u \in Update : u # i => candidate'[u] = candidate[u] /\ retained'[u] = retained[u]
    BY <1>2 DEF ReconcileStart, InstallerTypeOK
  <2>2. \/ retained[i] = "none" /\ retained'[i] = candidate[i]
        \/ retained'[i] = retained[i] /\ candidate'[i] = candidate[i]
    BY <1>2 DEF ReconcileStart, InstallerTypeOK
  <2>3. \A u \in Update : u # i => journal'[u] = journal[u]
    BY <1>0, <1>1, Outcomes DEF ReconcileStart, Wrote, Phases, States
  <2> QED
    BY <2>1, <2>2, <2>3
<1>5. journal'[i].state \in {"pending", "succeeded"} /\ (proc' = Idle \/ Went(i, "rb"))
  BY <1>0, <1>1, <1>3, Outcomes DEF ReconcileStart, Wrote, End, Places, Phases, States
<1>6. OldFilesKept'
  BY <1>1, <1>3, <1>4 DEF KeptInv, OldFilesKept
<1>7. \A u \in Update : u # i => (Fresh(u) => Fresh(u)')
  BY <1>4 DEF Fresh
<1> QED
  BY <1>4, <1>5, <1>6, <1>7 DEF KeptInv, Went, Untouched, Idle

LEMMA SpareKeeps ==
  ASSUME BoxInv, KeptInv, RollbackCopy
  PROVE  KeptInv'
<1>0. AtWork /\ proc.at = "rr_copy"
  BY DEF AtWork, RollbackCopy
<1>1. PICK i \in Update : i = proc.u
  BY <1>0, Working DEF BoxInv, AtWork, id
<1>2. InstallerTypeOK /\ id = i
  BY <1>0, <1>1, AtStart
<1>3. UNCHANGED <<installed, candidate, retained>> /\ journal[i].state = "pending" /\ journal[i].old = "old"
  BY <1>0, <1>1, AtStart DEF RollbackCopy
<1>4. \A u \in Update : spare[u] = "old" => spare'[u] = "old"
  BY <1>2, <1>3 DEF RollbackCopy, InstallerTypeOK
<1>5. journal' = journal \/ Wrote(i, "rollback_stop_pending", "pending")
  BY <1>0, <1>1, Outcomes DEF RollbackCopy, Phases, States
<1>6. proc' = Idle \/ Went(i, "rr_stop") \/ Went(i, "rr_copy")
  BY <1>0, <1>1, Outcomes DEF RollbackCopy, End, Places
<1>7. OldFilesKept'
  BY <1>3, <1>4 DEF KeptInv, OldFilesKept
<1>8. \A u \in Update : Fresh(u) => Fresh(u)'
  BY <1>3 DEF Fresh
<1> QED
  BY <1>3, <1>5, <1>6, <1>7, <1>8 DEF KeptInv, Wrote, Went, Untouched, Idle

LEMMA AskedSwapKeeps ==
  ASSUME BoxInv, KeptInv, RequestedSwap
  PROVE  KeptInv'
<1>0. AtWork /\ proc.at = "rr_swap"
  BY DEF AtWork, RequestedSwap
<1>1. PICK i \in Update : i = proc.u
  BY <1>0, Working DEF BoxInv, AtWork, id
<1>2. InstallerTypeOK /\ id = i
  BY <1>0, <1>1, AtStart
<1>3. UNCHANGED <<candidate, retained, journal>>
  BY DEF RequestedSwap
<1>4. /\ \A u \in Update : u # i => spare'[u] = spare[u]
      /\ \/ installed' = spare[i] /\ spare'[i] = installed
         \/ installed' = installed /\ spare'[i] = spare[i]
  BY <1>2 DEF RequestedSwap, InstallerTypeOK
<1>5. proc' = Idle \/ Went(i, "rr_start")
  BY <1>0, <1>1, Outcomes DEF RequestedSwap, End, Places
<1>6. OldFilesKept'
  BY <1>1, <1>4, <1>3 DEF KeptInv, OldFilesKept
<1>7. \A u \in Update : Fresh(u) => Fresh(u)'
  BY <1>3 DEF Fresh
<1> QED
  BY <1>3, <1>5, <1>6, <1>7 DEF KeptInv, Went, Untouched, Idle

LEMMA KeptByOthers ==
  ASSUME IInv, KeptInv, Next, ~Installing
  PROVE  KeptInv'
<1>1. InstallerTypeOK
  BY DEF IInv, BoxInv
<1>2. UNCHANGED <<dirs, journal>> /\ (proc'.at \in {"idle", "read"} \/ (proc'.at = proc.at /\ proc'.u = proc.u))
  <2>1. CASE Killed \/ DaemonRestarts \/ BoxRestarts
    BY <2>1 DEF Killed, DaemonRestarts, BoxRestarts, dirs, Idle
  <2>2. CASE Claim \/ Dispatch \/ RunEnds
    BY <2>2 DEF Claim, Dispatch, RunEnds, box, dirs, installerVars
  <2>3. CASE Deliver
    BY <2>3 DEF Deliver, Begin, dirs
  <2>4. ASSUME NEW e \in Caller, TakeLease(e) \/ Tick(e) \/ StagingHealth(e) \/ Stage(e) \/ Settle(e) \/ InstallHealth(e)
         \/ Drain(e) \/ SendApply(e) \/ Inspect(e) \/ Accept(e) \/ Verify(e)
         \/ FinishGuard(e) \/ FinishReopen(e) \/ FinishCommit(e)
        PROVE UNCHANGED <<dirs, journal, proc>>
    BY <2>4 DEF TakeLease, Tick, StagingHealth, Stage, Settle, InstallHealth, Drain, SendApply, Inspect,
       Accept, Verify, FinishGuard, FinishReopen, FinishCommit, installerVars, box, dirs
  <2>5. ASSUME NEW e \in Caller, Await(e) \/ ExecutorDies(e)
        PROVE UNCHANGED <<dirs, journal>> /\ proc'.at = proc.at /\ proc'.u = proc.u
    <3>1. UNCHANGED <<dirs, journal>> /\ (proc' = proc \/ Abandoned(e))
      BY <2>5 DEF Await, ExecutorDies, dirs
    <3>2. Abandoned(e) => proc'.at = proc.at /\ proc'.u = proc.u
      BY <1>1 DEF Abandoned, InstallerTypeOK, Idle
    <3> QED
      BY <3>1, <3>2
  <2> QED
    BY <2>1, <2>2, <2>3, <2>4, <2>5, Who
<1> QED
  BY <1>2, KeptAround DEF Untouched

LEMMA KeptAlways ==
  IInv /\ KeptInv /\ [Next]_vars => KeptInv'
<1> SUFFICES ASSUME IInv, KeptInv, [Next]_vars PROVE KeptInv'
  OBVIOUS
<1>1. CASE Installing
  BY <1>1, KeptInPlace, KeptReading, CopyKeeps, ExchangeKeeps, RenameKeeps, BackSwapKeeps, RecoverKeeps, SpareKeeps,
     AskedSwapKeeps DEF Installing, IInv
<1>2. CASE Next /\ ~Installing
  BY <1>2, KeptByOthers
<1>3. CASE UNCHANGED vars
  BY <1>3 DEF vars, installerVars, KeptInv, OldFilesKept, Fresh
<1> QED
  BY <1>1, <1>2, <1>3

\* OldFilesAreKept: wherever the installer is killed or the Box restarts, one directory still holds the
\* old runtime files, so an update can be taken back (update-runtime.py exchange, rename, rollback).
THEOREM OldFilesAreKept ==
  Spec => []OldFilesKept
<1>1. Init => KeptInv
  BY DEF Init, InstallerInit, KeptInv, OldFilesKept, Fresh, Idle, Untouched
<1>2. KeptInv => OldFilesKept
  BY DEF KeptInv
<1> QED
  BY <1>1, <1>2, KeptAlways, Inductive, PTL DEF Spec
=============================================================================
