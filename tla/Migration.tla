------------------------------ MODULE Migration ------------------------------
(***************************************************************************)
(* A service's migrations under the database lock: Base.Init of            *)
(* pkg/service/base-service.go:255-262 takes the lock "api-migration",     *)
(* runs Migrate of pkg/models/migration/base.go:35-66 and unlocks.  Each   *)
(* version is migrated and then recorded in a transaction of its own, so a *)
(* process may die between the two.  The route service, which migrates     *)
(* nothing, takes the lock too.  Composes DBLock.                          *)
(***************************************************************************)
EXTENDS DBLock, FiniteSetsExt

CONSTANTS
  N,      \* versions 1..N of the service, in the order of Versions()
  Route   \* goroutines in the Base.Init of the route service

ASSUME MigrationAssumption == N \in Nat /\ Route \subseteq Proc

Version == 1..N

VARIABLES
  recorded,   \* versions in the SchemaVersion table
  applied,    \* applied[v]: how often item.Migrate of v has run
  unrecorded, \* unrecorded[v]: runs of v that were never recorded
  misread,    \* history: a query for the version has failed
  step,       \* step[p]: where p is in Init
  index       \* index[p]: the version p is at

schemaVars == <<recorded, applied, unrecorded, misread>>
migrationVars == <<recorded, applied, unrecorded, misread, step, index>>
vars == <<lockVars, migrationVars>>

MigrationTypeOK ==
  /\ TypeOK
  /\ recorded \subseteq Version
  /\ applied \in [Version -> Nat] /\ unrecorded \in [Version -> Nat]
  /\ misread \in BOOLEAN
  /\ step \in [Proc -> {"lock", "read", "migrate", "save", "unlock", "error",
                        "done"}]
  /\ index \in [Proc -> 1..(N + 1)]

MigrationInit ==
  /\ Init
  /\ recorded = {}
  /\ applied = [v \in Version |-> 0] /\ unrecorded = [v \in Version |-> 0]
  /\ misread = FALSE
  /\ step = [p \in Proc |-> "lock"]
  /\ index = [p \in Proc |-> 1]

Goto(p, s) == step' = [step EXCEPT ![p] = s]

-----------------------------------------------------------------------------
\* s.Lock("api-migration") up to the lock, with what fails of it.
LockMigration(p) ==
  /\ step[p] = "lock"
  /\ Lock(p) \/ SelectFails(p) \/ SaveFails(p)
  /\ UNCHANGED migrationVars

SelectMigration(p) ==
  /\ step[p] = "lock"
  /\ Select(p)
  /\ UNCHANGED migrationVars

SaveMigration(p) ==
  /\ step[p] = "lock"
  /\ Save(p)
  /\ Goto(p, "read")
  /\ UNCHANGED <<schemaVars, index>>

\* Mutant of ReadVersion: the version read is never used.
ReadVersionIgnored(p) ==
  /\ pc[p] = "holding"
  /\ step[p] = "read" /\ p \notin Route
  /\ Goto(p, "migrate")
  /\ index' = [index EXCEPT ![p] = 1]
  /\ UNCHANGED <<lockVars, schemaVars>>

\* The highest version recorded, 0 without a row; versions up to it are
\* skipped.
ReadVersion(p) ==
  /\ pc[p] = "holding"
  /\ step[p] = "read" /\ p \notin Route
  /\ Goto(p, "migrate")
  /\ index' = [index EXCEPT ![p] = 1 + Max(recorded \cup {0})]
  /\ UNCHANGED <<lockVars, schemaVars>>

\* The error of that query is not looked at: the version stays 0.
ReadVersionFails(p) ==
  /\ pc[p] = "holding"
  /\ step[p] = "read" /\ p \notin Route
  /\ misread' = TRUE
  /\ Goto(p, "migrate")
  /\ index' = [index EXCEPT ![p] = 1]
  /\ OtherCallFails
  /\ UNCHANGED <<recorded, applied, unrecorded>>

\* The route service's table has one version of its own, which migrates nothing
\* (pkg/route/migration/route-migration.go:15-27); recording it may fail.
RouteVersion(p) ==
  /\ pc[p] = "holding"
  /\ step[p] = "read" /\ p \in Route
  /\ \E s \in {"unlock", "error"} : Goto(p, s)
  /\ UNCHANGED <<lockVars, schemaVars, index>>

\* item.Migrate(db); a panic of it is a Die of the process.
MigrateVersion(p) ==
  /\ pc[p] = "holding"
  /\ step[p] = "migrate"
  /\ IF index[p] <= N
     THEN /\ applied' = [applied EXCEPT ![index[p]] = @ + 1]
          /\ Goto(p, "save")
     ELSE Goto(p, "unlock") /\ UNCHANGED applied
  /\ UNCHANGED <<lockVars, recorded, unrecorded, misread, index>>

\* Mutant of SaveVersion: the highest version is recorded at once.
SaveLastVersion(p) ==
  /\ pc[p] = "holding"
  /\ step[p] = "save"
  /\ recorded' = recorded \cup {N}
  /\ Goto(p, "migrate")
  /\ index' = [index EXCEPT ![p] = @ + 1]
  /\ UNCHANGED <<lockVars, applied, unrecorded, misread>>

\* item.Save in its transaction.
SaveVersion(p) ==
  /\ pc[p] = "holding"
  /\ step[p] = "save"
  /\ recorded' = recorded \cup {index[p]}
  /\ Goto(p, "migrate")
  /\ index' = [index EXCEPT ![p] = @ + 1]
  /\ UNCHANGED <<lockVars, applied, unrecorded, misread>>

\* item.Save returns an error: so does Migrate, and Init panics once unlocked.
SaveVersionFails(p) ==
  /\ pc[p] = "holding"
  /\ step[p] = "save"
  /\ unrecorded' = [unrecorded EXCEPT ![index[p]] = @ + 1]
  /\ Goto(p, "error")
  /\ UNCHANGED <<lockVars, recorded, applied, misread, index>>

\* s.Unlock("api-migration"), then the panic of an error.
UnlockMigration(p) ==
  /\ step[p] \in {"unlock", "error"}
  /\ Release(p)
  /\ Goto(p, "done")
  /\ UNCHANGED <<schemaVars, index>>

\* The process ends, by a panic or from outside.
Die(p) ==
  /\ step[p] # "done"
  /\ Crash(p)
  /\ unrecorded' = IF step[p] = "save"
                   THEN [unrecorded EXCEPT ![index[p]] = @ + 1]
                   ELSE unrecorded
  /\ Goto(p, "done")
  /\ UNCHANGED <<recorded, applied, misread, index>>

TimePasses == Tick /\ UNCHANGED migrationVars

-----------------------------------------------------------------------------
Migrate(p) ==
  \/ ReadVersion(p) \/ ReadVersionFails(p) \/ RouteVersion(p)
  \/ MigrateVersion(p) \/ SaveVersion(p) \/ SaveVersionFails(p)

InitService(p) ==
  \/ LockMigration(p) \/ SelectMigration(p) \/ SaveMigration(p)
  \/ Migrate(p)
  \/ UnlockMigration(p)

MigrationNext ==
  \/ \E p \in Proc : InitService(p) \/ Die(p)
  \/ TimePasses

\* A process keeps going and time passes.  Lock polls every 500 ms until it
\* finds the lock free and a Save that does not fail: the database does not
\* fail, nor another process win, every single time.
Fairness ==
  /\ \A p \in Proc : /\ WF_vars(InitService(p))
                     /\ SF_vars(SelectMigration(p))
                     /\ SF_vars(SaveMigration(p))
  /\ WF_vars(TimePasses)

MigrationSpec == MigrationInit /\ [][MigrationNext]_vars

FairMigrationSpec == MigrationSpec /\ Fairness

-----------------------------------------------------------------------------
(* Properties. *)

\* No query whose error nobody looks at has failed: of the lock's row, which
\* lets two in, or of the version, which stays 0.
AllRead == ~blind /\ ~misread

\* A version's Migrate runs once, and once more for every run that was not
\* recorded because the process died or the database failed: as long as all
\* queries were read.
AppliedOnce ==
  AllRead => \A v \in Version : applied[v] <= 1 + unrecorded[v]

\* A version counts as installed only when it and all before it were migrated.
RecordedInOrder ==
  \A v \in recorded, w \in Version :
     w <= v => w \in recorded /\ applied[w] > 0

\* A recorded version is never migrated again, by any process, as long as all
\* queries were read.
NeverMigratedAgain ==
  [][AllRead => \A v \in recorded : applied'[v] = applied[v]]_vars

\* No process waits for ever: one that dies, even between Lock and Unlock, or
\* whose Unlock fails, leaves the lock to the others.
EveryoneGetsThrough ==
  \A p \in Proc : pc[p] = "locking" ~> step[p] = "done"
=============================================================================
