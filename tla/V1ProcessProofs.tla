--------------------------- MODULE V1ProcessProofs ---------------------------
(***************************************************************************)
(* Proofs about the v1 process and its parts, for any goroutines, service  *)
(* keys, lease, versions and services: the database lock (DBLock), the     *)
(* migrations under it (Migration), the HTTP servers (ProxyServer), and    *)
(* the process that composes them (V1Process).                             *)
(***************************************************************************)
EXTENDS V1Process, FiniteSetTheorems, TLAPS

-----------------------------------------------------------------------------
(* DBLock: once the row exists, as long as a goroutine that locks is done  *)
(* within less than the lease and no query fails in TryLock.               *)

\* The conditions under which the lock is one.
Seeded == FirstRow = "unlocked" /\ MaxHold < Lease

\* A process that writes the row has locked it, and nobody holds the lock.
SavingInv ==
  \A p \in Proc : pc[p] = "saving" =>
     /\ rowLock = p
     /\ \A q \in Proc : pc[q] # "holding"

\* A holder finds its own lock in the row, younger than the lease.
HoldingInv ==
  \A p \in Proc : pc[p] = "holding" =>
     /\ row = "locked"
     /\ lockedBy = ServiceKey[p]
     /\ lockedAge = age[p]

TimelyInv == \A p \in Proc : pc[p] \in {"saving", "holding"} => age[p] <= MaxHold

\* What a process is about to write over is free or due for takeover.
DueInv ==
  \A p \in Proc : pc[p] = "saving" => row = "unlocked" \/ lockedAge = Lease

\* One goroutine holds the lock, and only who could not read the row in Unlock
\* has found it invalid.
OneHolds ==
  \A p, q \in Proc : pc[p] = "holding" /\ pc[q] = "holding" => p = q

PanicsUnread == \A p \in Proc : pc[p] = "panicked" => p \in unread

HeldInv ==
  /\ row # "absent"
  /\ SavingInv /\ HoldingInv /\ TimelyInv /\ DueInv
  /\ OneHolds /\ PanicsUnread

\* All of it until a query fails in TryLock.
LockInv == TypeOK /\ (~blind => HeldInv)

\* The lock's type invariant needs neither the row nor the lease.
LEMMA LockTypes == Spec => []TypeOK
<1>1. Init => TypeOK
  <2> SUFFICES ASSUME Init PROVE TypeOK
    OBVIOUS
  <2>1. blind \in BOOLEAN /\ unread \subseteq Proc
    BY DEF Init
  <2>2. failures \in 0..MaxFailures /\ lockedAge \in 0..Lease
    BY LeaseAssumption DEF Init
  <2> QED BY <2>1, <2>2, LeaseAssumption DEF Init, TypeOK
<1>2. TypeOK /\ [Next]_lockVars => TypeOK'
  <2> SUFFICES ASSUME TypeOK, [Next]_lockVars PROVE TypeOK'
    OBVIOUS
  <2> USE LeaseAssumption DEF TypeOK, history
  <2>1. CASE \E p \in Proc : Lock(p)
    BY <2>1 DEF Lock
  <2>2. CASE \E p \in Proc : Select(p)
    BY <2>2 DEF Select
  <2>3. CASE \E p \in Proc : Save(p)
    BY <2>3 DEF Save
  <2>4. CASE \E p \in Proc : SaveFails(p)
    BY <2>4 DEF SaveFails
  <2>5. CASE \E p \in Proc : Unlock(p)
    BY <2>5 DEF Unlock
  <2>6. CASE \E p \in Proc : Crash(p)
    BY <2>6 DEF Crash
  <2>7. CASE Tick
    <3>1. \A t \in 0..Lease : Older(t) \in 0..Lease
      BY DEF Older
    <3> QED BY <2>7, <3>1 DEF Tick
  <2>8. CASE \E p \in Proc : SelectFails(p)
    BY <2>8 DEF SelectFails, Fails
  <2>9. CASE \E p \in Proc : UnlockUnread(p) \/ UnlockFails(p)
    BY <2>9 DEF UnlockUnread, UnlockFails, Fails
  <2>10. CASE OtherCallFails
    BY <2>10 DEF OtherCallFails, Fails, history
  <2>11. CASE UNCHANGED lockVars
    BY <2>11 DEF lockVars, history
  <2> QED BY <2>1, <2>2, <2>3, <2>4, <2>5, <2>6, <2>7, <2>8, <2>9, <2>10, <2>11
          DEF Next, TryLock, Release
<1> QED BY <1>1, <1>2, PTL DEF Spec

\* Nobody has locked the row that is there at the start.
LEMMA LockInitially == Seeded /\ Init => HeldInv
BY DEF Seeded, Init, HeldInv, SavingInv, HoldingInv, TimelyInv, DueInv,
   OneHolds, PanicsUnread

\* Every step keeps the invariant, one step per action.
LEMMA LockInductive ==
  ASSUME Seeded, TypeOK, TypeOK', HeldInv, ~blind', [Next]_lockVars
  PROVE  HeldInv'
<1> USE LeaseAssumption DEF Seeded, HeldInv, TypeOK, SavingInv, HoldingInv,
                            TimelyInv, DueInv, OneHolds, PanicsUnread, history
<1>1. CASE \E p \in Proc : Lock(p)
  BY <1>1 DEF Lock
<1>2. ASSUME NEW p \in Proc, Select(p) PROVE HeldInv'
  <2>1. ASSUME NEW q \in Proc PROVE pc[q] # "holding"
    \* The row p reads is unlocked or at least as old as the lease.
    BY <1>2, <2>1 DEF Select, AlreadyLocked
  <2>2. ASSUME NEW q \in Proc PROVE pc[q] # "saving"
    BY <1>2, <2>2 DEF Select
  <2>3. /\ row' = row /\ lockedAge' = lockedAge /\ lockedBy' = lockedBy
        /\ row # "absent" /\ rowLock' = p
        /\ row = "unlocked" \/ lockedAge = Lease
        /\ unread' = unread
    BY <1>2 DEF Select, AlreadyLocked
  <2>4. \A q \in Proc : q # p => pc'[q] = pc[q] /\ age'[q] = age[q]
    BY <1>2 DEF Select
  <2>5. pc'[p] = "saving" /\ age'[p] = 0
    BY <1>2 DEF Select
  <2>6. SavingInv' /\ HoldingInv' /\ OneHolds' /\ PanicsUnread'
    BY <2>1, <2>2, <2>3, <2>4, <2>5
  <2>7. TimelyInv' /\ DueInv'
    BY <2>2, <2>3, <2>4, <2>5
  <2> QED BY <2>3, <2>6, <2>7
<1>3. CASE \E p \in Proc : Save(p)
  BY <1>3 DEF Save
<1>4. CASE \E p \in Proc : SaveFails(p)
  BY <1>4 DEF SaveFails
<1>5. CASE \E p \in Proc : Unlock(p)
  BY <1>5 DEF Unlock
<1>6. CASE \E p \in Proc : Crash(p)
  BY <1>6 DEF Crash
<1>7. CASE Tick
  <2>1. /\ \A t \in 0..Lease : t < MaxHold => Older(t) <= MaxHold
        /\ Older(Lease) = Lease
    BY DEF Older
  <2> QED BY <1>7, <2>1 DEF Tick, Acting
<1>8. ASSUME NEW p \in Proc PROVE ~SelectFails(p)
  BY DEF SelectFails
<1>9. CASE \E p \in Proc : UnlockUnread(p)
  BY <1>9 DEF UnlockUnread
<1>10. CASE \E p \in Proc : UnlockFails(p)
  BY <1>10 DEF UnlockFails
<1>11. CASE OtherCallFails
  BY <1>11 DEF OtherCallFails
<1>12. CASE UNCHANGED lockVars
  BY <1>12 DEF lockVars
<1> QED BY <1>1, <1>2, <1>3, <1>4, <1>5, <1>6, <1>7, <1>8, <1>9, <1>10, <1>11,
           <1>12 DEF Next, TryLock, Release

\* A query that failed in TryLock is remembered.
LEMMA BlindStays ==
  ASSUME blind, [Next]_lockVars
  PROVE  blind'
BY DEF Next, TryLock, Release, Lock, Select, SelectFails, Save, SaveFails,
       Unlock, UnlockUnread, UnlockFails, Crash, Tick, OtherCallFails, history,
       lockVars

\* The lock's invariant holds for any goroutines and keys once the row exists
\* and holders are done within the lease.
THEOREM LockInvariant == Seeded /\ Spec => []LockInv
<1>1. Seeded /\ LockInv /\ TypeOK' /\ [Next]_lockVars => LockInv'
  BY LockInductive, BlindStays DEF LockInv
<1>2. Seeded => []Seeded
  <2>1. Seeded => Seeded'
    BY DEF Seeded
  <2> QED BY <2>1, PTL
<1>3. Seeded /\ Init /\ TypeOK => LockInv
  BY LockInitially DEF LockInv
<1> QED BY <1>1, <1>2, <1>3, LockTypes, PTL DEF Spec

\* Two goroutines are never between Lock and Unlock together, whoever dies and
\* whatever the database fails, but for a query in TryLock
\* (base-service.go:123-141).
THEOREM ExcludesEachOther == Seeded /\ Spec => []MutualExclusion
<1>1. LockInv => MutualExclusion
  BY DEF LockInv, HeldInv, OneHolds, MutualExclusion
<1> QED BY <1>1, LockInvariant, PTL

\* The panic "invalid lock state" of Unlock meets only who could not read the
\* row there, as long as no query failed in TryLock (base-service.go:184-199).
THEOREM UnlocksOwnLock == Seeded /\ Spec => []ValidLockState
<1>1. LockInv => ValidLockState
  BY DEF LockInv, HeldInv, PanicsUnread, ValidLockState
<1> QED BY <1>1, LockInvariant, PTL

\* A locked row is written anew only when the lease is over (TryLock,
\* base-service.go:123-141), also when both goroutines share a service key.
THEOREM TakesWhenDue == Seeded /\ Spec => TakenOnlyWhenDue
<1> DEFINE Taken == /\ ~blind /\ row = "locked" /\ row' = "locked"
                    /\ lockedBy' # lockedBy \/ lockedAge' < lockedAge
<1>1. ASSUME LockInv, Next, Taken PROVE lockedAge = Lease
  <2>1. ~Tick
    \* Time only makes the lock older.
    <3>1. \A t \in 0..Lease : ~(Older(t) < t)
      BY LeaseAssumption DEF Older
    <3> QED BY <1>1, <3>1 DEF LockInv, TypeOK, Tick
  <2>2. ASSUME NEW p \in Proc, Unlock(p) PROVE FALSE
    BY <1>1, <2>2, LeaseAssumption DEF LockInv, TypeOK, Unlock
  <2>3. PICK p \in Proc : Save(p)
    \* Only Save writes the row, and what p selected was free or due.
    BY <1>1, <2>1, <2>2, LeaseAssumption
       DEF Next, TryLock, Release, Lock, Select, SelectFails, SaveFails,
           UnlockUnread, UnlockFails, Crash, OtherCallFails, LockInv, TypeOK
  <2> QED BY <1>1, <2>3 DEF LockInv, HeldInv, DueInv, Save
<1>2. LockInv /\ [Next]_lockVars => [Taken => lockedAge = Lease]_lockVars
  BY <1>1
<1> QED BY <1>2, LockInvariant, PTL DEF Spec, TakenOnlyWhenDue

-----------------------------------------------------------------------------
(* Migration: its steps are steps of DBLock, so what is proved of the lock *)
(* holds of it; with one goroutine at a time between Lock and Unlock, a    *)
(* version is migrated once but for the runs that end between Migrate and  *)
(* Save.                                                                   *)

\* A step of Migration is one of DBLock.
LEMMA LockSteps ==
  ASSUME [MigrationNext]_vars
  PROVE  [Next]_lockVars
<1>1. ASSUME NEW p \in Proc,
             LockMigration(p) \/ SelectMigration(p) \/ SaveMigration(p)
      PROVE  Next
  BY <1>1 DEF LockMigration, SelectMigration, SaveMigration, Next, TryLock
<1>2. ASSUME NEW p \in Proc, Migrate(p) PROVE [Next]_lockVars
  BY <1>2 DEF Migrate, ReadVersion, ReadVersionFails, RouteVersion,
              MigrateVersion, SaveVersion, SaveVersionFails, Next
<1>3. ASSUME NEW p \in Proc, UnlockMigration(p) \/ Die(p) PROVE Next
  BY <1>3 DEF UnlockMigration, Die, Next
<1>4. CASE TimePasses
  BY <1>4 DEF TimePasses, Next
<1>5. CASE UNCHANGED vars
  BY <1>5 DEF vars
<1> QED BY <1>1, <1>2, <1>3, <1>4, <1>5 DEF MigrationNext, InitService

\* Migrations use the lock as DBLock says.
THEOREM UsesLock == MigrationSpec => Spec
<1>1. MigrationInit => Init
  BY DEF MigrationInit
<1> QED BY <1>1, LockSteps, PTL DEF MigrationSpec, Spec

-----------------------------------------------------------------------------
(* What holds of the table whatever the lock does. *)

MTypeOK ==
  /\ recorded \subseteq Version
  /\ applied \in [Version -> Nat] /\ unrecorded \in [Version -> Nat]
  /\ misread \in BOOLEAN
  /\ step \in [Proc -> {"lock", "read", "migrate", "save", "unlock", "error",
                        "done"}]
  /\ index \in [Proc -> 1..(N + 1)]

\* The table holds a prefix of the versions; a process at a version finds
\* those before it there, and has migrated the one it is about to record.
Prefix == \E k \in 0..N : recorded = 1..k

AtVersion(p) ==
  step[p] \in {"migrate", "save"} => 1..(index[p] - 1) \subseteq recorded

Migrated(p) ==
  step[p] = "save" => index[p] <= N /\ applied[index[p]] > 0

TableInv ==
  /\ MTypeOK
  /\ Prefix
  /\ \A v \in recorded : applied[v] > 0
  /\ \A p \in Proc : AtVersion(p) /\ Migrated(p)

\* Max of the recorded versions is the length of the prefix.
LEMMA MaxOfPrefix ==
  ASSUME NEW k \in Nat
  PROVE  Max((1..k) \cup {0}) = k
<1> DEFINE T == (1..k) \cup {0}
<1>1. k \in T /\ \A y \in T : k >= y
  OBVIOUS
<1>2. \A x \in T : (\A y \in T : x >= y) => x = k
  BY <1>1
<1> QED BY <1>1, <1>2 DEF Max

\* The empty table is the empty prefix.
LEMMA TableInitially == MigrationInit => TableInv
<1> SUFFICES ASSUME MigrationInit PROVE TableInv
  OBVIOUS
<1>1. MTypeOK
  <2>1. misread \in BOOLEAN
    BY DEF MigrationInit
  <2>2. index \in [Proc -> 1..(N + 1)] /\ step \in [Proc -> {"lock"}]
    BY MigrationAssumption DEF MigrationInit
  <2> QED BY <2>1, <2>2 DEF MigrationInit, MTypeOK
<1>2. recorded = 1..0
  BY DEF MigrationInit
<1>3. Prefix
  BY <1>2, MigrationAssumption DEF Prefix
<1> QED BY <1>1, <1>2, <1>3 DEF MigrationInit, TableInv, AtVersion, Migrated

\* What holds of a process survives the steps of the others.
LEMMA OthersMayStep ==
  ASSUME TableInv, MTypeOK', recorded \subseteq recorded',
         \A v \in Version : applied'[v] >= applied[v],
         NEW p \in Proc, step'[p] = step[p], index'[p] = index[p]
  PROVE  AtVersion(p)' /\ Migrated(p)'
<1>1. AtVersion(p)'
  BY DEF TableInv, AtVersion
<1>2. CASE step[p] = "save"
  <2>1. index[p] \in Version /\ applied[index[p]] > 0
    BY <1>2, MigrationAssumption DEF TableInv, MTypeOK, Migrated, Version
  <2>2. applied'[index[p]] \in Nat /\ applied[index[p]] \in Nat
    BY <2>1 DEF TableInv, MTypeOK
  <2> QED BY <1>1, <2>1, <2>2 DEF TableInv, Migrated
<1> QED BY <1>1, <1>2 DEF Migrated

\* A step that neither migrates nor records nor moves to a version.
LEMMA TableUntouched ==
  ASSUME TableInv, NEW p \in Proc, NEW s, s \in {"read", "unlock", "error", "done"},
         step' \in {step, [step EXCEPT ![p] = s]},
         UNCHANGED <<recorded, applied, misread, index>>,
         unrecorded' \in [Version -> Nat]
  PROVE  TableInv'
<1>1. MTypeOK'
  BY DEF TableInv, MTypeOK
<1>2. \A q \in Proc : step'[q] = step[q] \/ step'[q] = s
  BY DEF TableInv, MTypeOK
<1> QED BY <1>1, <1>2 DEF TableInv, Prefix, AtVersion, Migrated

\* Every step keeps the table's invariant, one step per action.
LEMMA TableInductive ==
  ASSUME TableInv, [MigrationNext]_vars
  PROVE  TableInv'
<1> USE MigrationAssumption
<1>1. ASSUME NEW p \in Proc,
             \/ LockMigration(p) \/ SelectMigration(p) \/ SaveMigration(p)
             \/ UnlockMigration(p)
      PROVE  TableInv'
  <2>1. /\ step' \in {step, [step EXCEPT ![p] = "read"],
                         [step EXCEPT ![p] = "done"]}
        /\ UNCHANGED <<recorded, applied, unrecorded, misread, index>>
    BY <1>1 DEF LockMigration, SelectMigration, SaveMigration,
                UnlockMigration, migrationVars, schemaVars, Goto
  <2> QED BY <2>1, TableUntouched DEF TableInv, MTypeOK
<1>7. ASSUME NEW p \in Proc, RouteVersion(p) PROVE TableInv'
  <2>1. /\ step' \in {[step EXCEPT ![p] = "unlock"], [step EXCEPT ![p] = "error"]}
        /\ UNCHANGED <<recorded, applied, unrecorded, misread, index>>
    BY <1>7 DEF RouteVersion, schemaVars, Goto
  <2> QED BY <2>1, TableUntouched DEF TableInv, MTypeOK
<1>2. ASSUME NEW p \in Proc, ReadVersion(p) \/ ReadVersionFails(p)
      PROVE  TableInv'
  <2>1. PICK k \in 0..N : recorded = 1..k
    BY DEF TableInv, Prefix
  <2>2. PICK j \in 0..k : index' = [index EXCEPT ![p] = j + 1]
    BY <1>2, <2>1, MaxOfPrefix DEF ReadVersion, ReadVersionFails
  <2>3. /\ UNCHANGED <<recorded, applied, unrecorded>>
        /\ misread' \in {misread, TRUE}
        /\ step' = [step EXCEPT ![p] = "migrate"]
    BY <1>2 DEF ReadVersion, ReadVersionFails, Goto, schemaVars
  <2>4. MTypeOK'
    <3>1. misread' \in BOOLEAN
      BY <2>3 DEF TableInv, MTypeOK
    <3>2. j + 1 \in 1..(N + 1)
      BY MigrationAssumption
    <3>3. index' \in [Proc -> 1..(N + 1)]
      BY <2>2, <3>2 DEF TableInv, MTypeOK
    <3> QED BY <2>3, <3>1, <3>3 DEF TableInv, MTypeOK
  <2>5. step'[p] = "migrate" /\ index'[p] = j + 1
    BY <2>2, <2>3 DEF TableInv, MTypeOK
  <2>6. AtVersion(p)' /\ Migrated(p)'
    BY <2>1, <2>2, <2>3, <2>5 DEF AtVersion, Migrated
  <2>7. \A v \in Version : applied'[v] >= applied[v]
    BY <2>3 DEF TableInv, MTypeOK
  <2>8. ASSUME NEW q \in Proc, q # p PROVE AtVersion(q)' /\ Migrated(q)'
    BY <2>2, <2>3, <2>4, <2>7, <2>8, OthersMayStep
       DEF TableInv, MTypeOK
  <2> QED BY <2>3, <2>4, <2>6, <2>8 DEF TableInv, Prefix
<1>3. ASSUME NEW p \in Proc, MigrateVersion(p) PROVE TableInv'
  <2>1. CASE index[p] <= N
    <3>1. /\ applied' = [applied EXCEPT ![index[p]] = @ + 1]
          /\ step[p] = "migrate" /\ step' = [step EXCEPT ![p] = "save"]
          /\ UNCHANGED <<recorded, unrecorded, misread, index>>
      BY <1>3, <2>1 DEF MigrateVersion, Goto
    <3>2. index[p] \in Version
      BY <2>1 DEF TableInv, MTypeOK, Version
    <3>3. MTypeOK'
      BY <3>1, <3>2 DEF TableInv, MTypeOK
    <3>4. \A v \in Version : applied'[v] >= applied[v]
      BY <3>1, <3>2 DEF TableInv, MTypeOK
    <3>5. applied'[index[p]] > 0
      BY <3>1, <3>2 DEF TableInv, MTypeOK
    <3>6. AtVersion(p)' /\ Migrated(p)'
      BY <2>1, <3>1, <3>5 DEF TableInv, MTypeOK, AtVersion, Migrated
    <3>7. ASSUME NEW q \in Proc, q # p PROVE AtVersion(q)' /\ Migrated(q)'
      BY <3>1, <3>3, <3>4, <3>7, OthersMayStep DEF TableInv, MTypeOK
    <3>8. \A v \in recorded' : applied'[v] > 0
      BY <3>1, <3>3, <3>4 DEF TableInv, MTypeOK
    <3> QED BY <3>1, <3>3, <3>6, <3>7, <3>8 DEF TableInv, Prefix
  <2>2. CASE ~(index[p] <= N)
    <3>1. /\ step' = [step EXCEPT ![p] = "unlock"]
          /\ UNCHANGED <<recorded, applied, unrecorded, misread, index>>
      BY <1>3, <2>2 DEF MigrateVersion, Goto
    <3> QED BY <3>1, TableUntouched DEF TableInv, MTypeOK
  <2> QED BY <2>1, <2>2
<1>4. ASSUME NEW p \in Proc, SaveVersion(p) PROVE TableInv'
  <2> DEFINE i == index[p]
  <2>1. PICK k \in 0..N : recorded = 1..k
    BY DEF TableInv, Prefix
  <2>2. /\ step[p] = "save" /\ step' = [step EXCEPT ![p] = "migrate"]
        /\ recorded' = recorded \cup {i}
        /\ index' = [index EXCEPT ![p] = i + 1]
        /\ UNCHANGED <<applied, unrecorded, misread>>
    BY <1>4 DEF SaveVersion, Goto
  <2>3. i \in 1..N /\ 1..(i - 1) \subseteq 1..k /\ applied[i] > 0
    BY <2>1, <2>2 DEF TableInv, MTypeOK, AtVersion, Migrated
  <2>4. i <= k + 1
    <3>1. k + 1 \notin 1..k
      OBVIOUS
    <3>2. k + 1 \notin 1..(i - 1)
      BY <2>3, <3>1
    <3> HIDE DEF i
    <3> QED BY <2>3, <3>2
  <2>5. recorded' = IF i <= k THEN 1..k ELSE 1..(k + 1)
    BY <2>1, <2>2, <2>3, <2>4
  <2>6. Prefix' /\ 1..i \subseteq recorded'
    BY <2>1, <2>3, <2>4, <2>5 DEF Prefix
  <2>7. MTypeOK'
    <3>1. i \in Version /\ i + 1 \in 1..(N + 1)
      BY <2>3 DEF Version
    <3>2. recorded' \subseteq Version /\ index' \in [Proc -> 1..(N + 1)]
      BY <2>2, <3>1 DEF TableInv, MTypeOK
    <3> QED BY <2>2, <3>2 DEF TableInv, MTypeOK
  <2>8. step'[p] = "migrate" /\ index'[p] = i + 1
    BY <2>2 DEF TableInv, MTypeOK
  <2>9. AtVersion(p)' /\ Migrated(p)'
    <3>1. (i + 1) - 1 = i
      BY <2>3
    <3> QED BY <2>6, <2>8, <3>1 DEF AtVersion, Migrated
  <2>10. \A v \in Version : applied'[v] >= applied[v]
    BY <2>2 DEF TableInv, MTypeOK
  <2>11. ASSUME NEW q \in Proc, q # p PROVE AtVersion(q)' /\ Migrated(q)'
    BY <2>2, <2>7, <2>10, <2>11, OthersMayStep DEF TableInv, MTypeOK
  <2>12. \A v \in recorded' : applied'[v] > 0
    BY <2>2, <2>3 DEF TableInv
  <2> QED BY <2>6, <2>7, <2>9, <2>11, <2>12 DEF TableInv
<1>5. ASSUME NEW p \in Proc, SaveVersionFails(p) \/ Die(p) PROVE TableInv'
  <2>1. /\ step' \in {[step EXCEPT ![p] = "error"], [step EXCEPT ![p] = "done"]}
        /\ UNCHANGED <<recorded, applied, misread, index>>
        /\ unrecorded' \in {unrecorded, [unrecorded EXCEPT ![index[p]] = @ + 1]}
    BY <1>5 DEF SaveVersionFails, Die, Goto
  <2>2. unrecorded' \in [Version -> Nat]
    BY <2>1 DEF TableInv, MTypeOK
  <2> QED BY <2>1, <2>2, TableUntouched
<1>6. CASE UNCHANGED migrationVars
  BY <1>6 DEF migrationVars, TableInv, MTypeOK, Prefix, AtVersion, Migrated
<1> QED BY <1>1, <1>2, <1>3, <1>4, <1>5, <1>6, <1>7
        DEF MigrationNext, InitService, Migrate, TimePasses, vars

\* The table's invariant holds whatever the lock does.
THEOREM TableInvariant == MigrationSpec => []TableInv
BY TableInitially, TableInductive, PTL DEF MigrationSpec

\* SchemaVersion lists a prefix of the versions, each of them migrated, even
\* when the lock fails or the version cannot be read (base.go:39-61).
THEOREM RecordsInOrder == MigrationSpec => []RecordedInOrder
<1>1. TableInv => RecordedInOrder
  BY MigrationAssumption DEF TableInv, Prefix, RecordedInOrder, Version
<1> QED BY <1>1, TableInvariant, PTL

\* Every variable of the migrations and of their lock keeps its type.
THEOREM MigrationTypeCorrect == MigrationSpec => []MigrationTypeOK
<1>1. TypeOK /\ TableInv => MigrationTypeOK
  BY DEF TableInv, MTypeOK, MigrationTypeOK
<1> QED BY <1>1, UsesLock, LockTypes, TableInvariant, PTL

-----------------------------------------------------------------------------
(* What holds while the lock excludes and no query whose error nobody looks *)
(* at fails.                                                               *)

Working == {"read", "migrate", "save", "unlock", "error"}

\* Only the holder of the lock works; the version it is at is not recorded,
\* and no later one; runs of Migrate are recorded, counted as unrecorded or
\* about to be one of the two.
WorkInv ==
  /\ \A p \in Proc : step[p] \in Working => pc[p] = "holding"
  /\ \A p \in Proc : step[p] \in {"migrate", "save"} =>
       \A v \in recorded : v < index[p]
  /\ \A v \in Version :
       \/ v \in recorded /\ applied[v] = unrecorded[v] + 1
       \/ /\ v \notin recorded /\ applied[v] = unrecorded[v] + 1
          /\ \E p \in Proc : step[p] = "save" /\ index[p] = v
       \/ /\ v \notin recorded /\ applied[v] = unrecorded[v]
          /\ \A p \in Proc : step[p] = "save" => index[p] # v

\* Nobody works at the start.
LEMMA WorkInitially == MigrationInit => WorkInv
BY MigrationAssumption DEF MigrationInit, WorkInv, Working, Version

\* Steps of Lock, and those that only move the one process that works.
LEMMA WorkUntouched ==
  ASSUME TableInv, WorkInv, NEW p \in Proc, step[p] # "save",
         \A q \in Proc : q # p => step'[q] = step[q] /\ pc'[q] = pc[q],
         step'[p] \in {"lock", "read", "unlock", "error", "done"},
         step'[p] = "lock" \/ step'[p] = "done" \/ pc'[p] = "holding",
         UNCHANGED <<recorded, applied, unrecorded, index>>
  PROVE  WorkInv'
<1>1. \A q \in Proc : /\ step'[q] = "save" <=> step[q] = "save"
                      /\ step'[q] = "migrate" => step[q] = "migrate"
  OBVIOUS
<1>2. \A q \in Proc : step'[q] \in Working => pc'[q] = "holding"
  BY DEF WorkInv, Working
<1> QED BY <1>1, <1>2 DEF WorkInv

\* Every step keeps the work's invariant as long as no query has failed.
LEMMA WorkInductive ==
  ASSUME Seeded, AllRead, AllRead', LockInv, TableInv, TableInv', WorkInv,
         [MigrationNext]_vars
  PROVE  WorkInv'
<1> USE MigrationAssumption
<1>1. TypeOK /\ OneHolds
  BY DEF LockInv, HeldInv, AllRead
<1>2. \A p, q \in Proc : step[p] \in Working /\ step[q] \in Working => p = q
  BY <1>1 DEF OneHolds, WorkInv
<1>3. ASSUME NEW p \in Proc, LockMigration(p) \/ SelectMigration(p)
      PROVE  WorkInv'
  <2>1. /\ step[p] = "lock" /\ UNCHANGED migrationVars
        /\ \A q \in Proc : q # p => pc'[q] = pc[q]
    BY <1>1, <1>3 DEF LockMigration, SelectMigration, Lock, Select, SaveFails,
                      SelectFails, AllRead, TypeOK
  <2> QED BY <2>1, WorkUntouched DEF migrationVars
<1>4. ASSUME NEW p \in Proc, SaveMigration(p) PROVE WorkInv'
  <2>1. /\ step[p] = "lock" /\ step' = [step EXCEPT ![p] = "read"]
        /\ UNCHANGED <<recorded, applied, unrecorded, index>>
        /\ pc' = [pc EXCEPT ![p] = "holding"]
    BY <1>4 DEF SaveMigration, Save, Goto, schemaVars
  <2> QED BY <1>1, <2>1, WorkUntouched DEF TableInv, MTypeOK, TypeOK
<1>5. ASSUME NEW p \in Proc, UnlockMigration(p) PROVE WorkInv'
  <2>1. /\ step[p] \in {"unlock", "error"}
        /\ step' = [step EXCEPT ![p] = "done"]
        /\ UNCHANGED <<recorded, applied, unrecorded, index>>
        /\ \A q \in Proc : q # p => pc'[q] = pc[q]
    BY <1>1, <1>5 DEF UnlockMigration, Release, Unlock, UnlockUnread,
                      UnlockFails, Goto, schemaVars, TypeOK
  <2> QED BY <2>1, WorkUntouched DEF TableInv, MTypeOK
<1>16. ASSUME NEW p \in Proc, RouteVersion(p) PROVE WorkInv'
  <2>1. /\ step[p] = "read" /\ pc[p] = "holding"
        /\ step' \in {[step EXCEPT ![p] = "unlock"], [step EXCEPT ![p] = "error"]}
        /\ UNCHANGED <<recorded, applied, unrecorded, index, pc>>
    BY <1>16 DEF RouteVersion, Goto, schemaVars, lockVars
  <2> QED BY <2>1, WorkUntouched DEF TableInv, MTypeOK
<1>6. ASSUME NEW p \in Proc, ReadVersion(p) PROVE WorkInv'
  <2>1. PICK k \in 0..N : recorded = 1..k
    BY DEF TableInv, Prefix
  <2>2. /\ step[p] = "read" /\ step' = [step EXCEPT ![p] = "migrate"]
        /\ UNCHANGED <<recorded, applied, unrecorded, pc>>
        /\ index' = [index EXCEPT ![p] = k + 1]
    <3>1. Max(recorded \cup {0}) = k
      BY <2>1, MaxOfPrefix
    <3>2. index' = [index EXCEPT ![p] = 1 + k]
      BY <1>6, <3>1 DEF ReadVersion
    <3>3. 1 + k = k + 1
      OBVIOUS
    <3>4. index' = [index EXCEPT ![p] = k + 1]
      BY <3>2, <3>3
    <3>5. /\ step[p] = "read" /\ step' = [step EXCEPT ![p] = "migrate"]
          /\ UNCHANGED <<recorded, applied, unrecorded, pc>>
      BY <1>6 DEF ReadVersion, Goto, schemaVars, lockVars
    <3> QED BY <3>4, <3>5
  <2>3. \A q \in Proc : q # p => step[q] \notin Working
    BY <1>2, <2>2 DEF Working
  <2>4. /\ step'[p] = "migrate" /\ index'[p] = k + 1
        /\ \A q \in Proc : q # p => step'[q] = step[q] /\ index'[q] = index[q]
    BY <2>2 DEF TableInv, MTypeOK
  <2>5. \A q \in Proc : step'[q] # "save" /\ step[q] # "save"
    BY <2>2, <2>3, <2>4 DEF Working
  <2>6. \A v \in recorded' : v < k + 1
    BY <2>1, <2>2
  <2>7. \A q \in Proc : step'[q] \in {"migrate", "save"} => q = p
    BY <2>3, <2>4 DEF Working
  <2>8. \A q \in Proc : step'[q] \in Working => pc'[q] = "holding"
    BY <2>2, <2>3, <2>4 DEF WorkInv, Working
  <2> QED BY <2>2, <2>4, <2>5, <2>6, <2>7, <2>8 DEF WorkInv
<1>7. ASSUME NEW p \in Proc, MigrateVersion(p), index[p] <= N PROVE WorkInv'
  <2> DEFINE i == index[p]
  <2>1. /\ step[p] = "migrate" /\ step' = [step EXCEPT ![p] = "save"]
        /\ applied' = [applied EXCEPT ![i] = @ + 1]
        /\ UNCHANGED <<recorded, unrecorded, index, pc>>
    BY <1>7 DEF MigrateVersion, Goto, lockVars
  <2>2. i \in Version /\ i \notin recorded
    BY <1>7, <2>1 DEF TableInv, MTypeOK, Version, WorkInv
  <2>3. \A q \in Proc : q # p => step[q] \notin Working
    BY <1>2, <2>1 DEF Working
  <2>4. /\ step'[p] = "save"
        /\ \A q \in Proc : q # p => step'[q] = step[q]
    BY <2>1 DEF TableInv, MTypeOK
  <2>5. \A q \in Proc : step[q] # "save" /\ (step'[q] = "save" <=> q = p)
    BY <2>1, <2>3, <2>4 DEF Working
  <2>6. /\ applied'[i] = applied[i] + 1
        /\ \A v \in Version : v # i => applied'[v] = applied[v]
    BY <2>1, <2>2 DEF TableInv, MTypeOK
  <2>7. applied[i] = unrecorded[i]
    BY <2>2, <2>5 DEF WorkInv
  <2>8. \A q \in Proc : step'[q] \in Working => pc'[q] = "holding"
    BY <2>1, <2>3, <2>4 DEF WorkInv, Working
  <2>9. \A q \in Proc : step'[q] \in {"migrate", "save"} =>
          \A v \in recorded' : v < index'[q]
    BY <2>1, <2>3, <2>4 DEF WorkInv, Working
  <2> QED BY <2>1, <2>2, <2>5, <2>6, <2>7, <2>8, <2>9 DEF WorkInv
<1>8. ASSUME NEW p \in Proc, MigrateVersion(p), ~(index[p] <= N) PROVE WorkInv'
  <2>1. /\ step[p] = "migrate" /\ step' = [step EXCEPT ![p] = "unlock"]
        /\ UNCHANGED <<recorded, applied, unrecorded, index, pc>>
    BY <1>8 DEF MigrateVersion, Goto, lockVars
  <2> QED BY <2>1, WorkUntouched DEF TableInv, MTypeOK, WorkInv, Working
<1>9. ASSUME NEW p \in Proc, SaveVersion(p) PROVE WorkInv'
  <2> DEFINE i == index[p]
  <2>1. /\ step[p] = "save" /\ step' = [step EXCEPT ![p] = "migrate"]
        /\ recorded' = recorded \cup {i}
        /\ index' = [index EXCEPT ![p] = i + 1]
        /\ UNCHANGED <<applied, unrecorded, pc>>
    BY <1>9 DEF SaveVersion, Goto, lockVars
  <2>2. i \in Version /\ \A v \in recorded : v < i
    BY <2>1 DEF TableInv, MTypeOK, Migrated, Version, WorkInv
  <2>3. \A q \in Proc : q # p => step[q] \notin Working
    BY <1>2, <2>1 DEF Working
  <2>4. /\ step'[p] = "migrate" /\ index'[p] = i + 1
        /\ \A q \in Proc : q # p => step'[q] = step[q]
    BY <2>1 DEF TableInv, MTypeOK
  <2>5. \A q \in Proc : step'[q] # "save" /\ (step[q] = "save" <=> q = p)
    BY <2>1, <2>3, <2>4 DEF Working
  <2>6. applied[i] = unrecorded[i] + 1
    BY <2>1, <2>2 DEF WorkInv, Version
  <2>7. \A v \in Version : v # i => (v \in recorded' <=> v \in recorded)
    BY <2>1
  <2>8. \A q \in Proc : step'[q] \in Working => pc'[q] = "holding"
    BY <2>1, <2>3, <2>4 DEF WorkInv, Working
  <2>9. \A v \in recorded' : v < i + 1
    BY <2>1, <2>2 DEF Version, TableInv, MTypeOK
  <2>10. \A q \in Proc : step'[q] \in {"migrate", "save"} => q = p
    BY <2>3, <2>4 DEF Working
  <2> QED BY <2>1, <2>2, <2>4, <2>5, <2>6, <2>7, <2>8, <2>9, <2>10 DEF WorkInv
<1>10. ASSUME NEW p \in Proc, SaveVersionFails(p) \/ Die(p), step[p] = "save"
       PROVE  WorkInv'
  <2> DEFINE i == index[p]
  <2>1. /\ step' \in {[step EXCEPT ![p] = "error"], [step EXCEPT ![p] = "done"]}
        /\ unrecorded' = [unrecorded EXCEPT ![i] = @ + 1]
        /\ UNCHANGED <<recorded, applied, index>>
    BY <1>10 DEF SaveVersionFails, Die, Goto
  <2>2. i \in Version /\ i \notin recorded
    BY <1>10 DEF TableInv, MTypeOK, Migrated, Version, WorkInv
  <2>3. \A q \in Proc : q # p => step[q] \notin Working
    BY <1>2, <1>10 DEF Working
  <2>4. /\ step'[p] \in {"error", "done"}
        /\ \A q \in Proc : q # p => step'[q] = step[q]
    BY <2>1 DEF TableInv, MTypeOK
  <2>5. \A q \in Proc : step'[q] # "save" /\ (step[q] = "save" <=> q = p)
    BY <1>10, <2>3, <2>4 DEF Working
  <2>6. /\ unrecorded'[i] = unrecorded[i] + 1
        /\ \A v \in Version : v # i => unrecorded'[v] = unrecorded[v]
    BY <2>1, <2>2 DEF TableInv, MTypeOK
  <2>7. applied[i] = unrecorded[i] + 1
    BY <1>10, <2>2 DEF WorkInv
  <2>8. \A q \in Proc : step'[q] \in Working => pc'[q] = "holding"
    <3>1. step'[p] = "error" => pc'[p] = "holding"
      BY <1>10, <2>1 DEF SaveVersionFails, Die, Goto, lockVars, TableInv,
                         MTypeOK
    <3> QED BY <2>3, <2>4, <3>1 DEF Working
  <2>9. \A q \in Proc : step'[q] \notin {"migrate", "save"}
    BY <2>3, <2>4 DEF Working
  <2> QED BY <2>1, <2>2, <2>5, <2>6, <2>7, <2>8, <2>9 DEF WorkInv
<1>11. ASSUME NEW p \in Proc, Die(p), step[p] # "save" PROVE WorkInv'
  <2>1. /\ step' = [step EXCEPT ![p] = "done"]
        /\ UNCHANGED <<recorded, applied, unrecorded, index>>
        /\ \A q \in Proc : q # p => pc'[q] = pc[q]
    BY <1>1, <1>11 DEF Die, Crash, Goto, TypeOK
  <2> QED BY <1>11, <2>1, WorkUntouched DEF TableInv, MTypeOK
<1>12. CASE TimePasses
  <2>1. UNCHANGED <<recorded, applied, unrecorded, step, index, pc>>
    BY <1>12 DEF TimePasses, Tick, migrationVars
  <2> QED BY <2>1 DEF WorkInv
<1>13. CASE UNCHANGED vars
  BY <1>13 DEF vars, lockVars, migrationVars, WorkInv
<1>14. ASSUME NEW p \in Proc, SaveVersionFails(p) PROVE step[p] = "save"
  BY <1>14 DEF SaveVersionFails
<1>15. ASSUME NEW p \in Proc PROVE ~ReadVersionFails(p)
  BY DEF ReadVersionFails, AllRead
<1> QED BY <1>3, <1>4, <1>5, <1>6, <1>7, <1>8, <1>9, <1>10, <1>11, <1>12,
           <1>13, <1>14, <1>15, <1>16
        DEF MigrationNext, InitService, Migrate

\* A query for the version that failed is remembered.
LEMMA MisreadStays ==
  ASSUME misread, [MigrationNext]_vars
  PROVE  misread'
BY DEF MigrationNext, InitService, Migrate, LockMigration, SelectMigration,
       SaveMigration, UnlockMigration, Die, TimePasses, ReadVersion,
       ReadVersionFails, RouteVersion, MigrateVersion, SaveVersion,
       SaveVersionFails, schemaVars, migrationVars, vars

\* The work's invariant holds until a query nobody checks fails.
THEOREM WorkInvariant ==
  Seeded /\ MigrationSpec => []TableInv /\ [](AllRead => WorkInv)
<1> DEFINE J == AllRead => WorkInv
<1>1. Seeded /\ LockInv /\ TableInv /\ TableInv' /\ J /\ [MigrationNext]_vars
        => J'
  <2> SUFFICES ASSUME Seeded, LockInv, TableInv, TableInv', J,
                      [MigrationNext]_vars, AllRead'
               PROVE  WorkInv'
    OBVIOUS
  <2>1. AllRead
    BY LockSteps, BlindStays, MisreadStays DEF AllRead
  <2> QED BY <2>1, WorkInductive
<1>2. Seeded => []Seeded
  <2>1. Seeded => Seeded'
    BY DEF Seeded
  <2> QED BY <2>1, PTL
<1>3. MigrationInit => J
  BY WorkInitially
<1> HIDE DEF J
<1>4. Seeded /\ MigrationSpec => []TableInv /\ []J
  BY <1>1, <1>2, <1>3, UsesLock, LockInvariant, TableInvariant, PTL
     DEF MigrationSpec
<1> QED BY <1>4 DEF J

\* A version is migrated once, and once more for every run that ended, by a
\* death or a database error, before it was recorded; unless a query nobody
\* checks has failed.
THEOREM AppliesOnce == Seeded /\ MigrationSpec => []AppliedOnce
<1>1. TableInv /\ (AllRead => WorkInv) => AppliedOnce
  BY DEF TableInv, MTypeOK, WorkInv, AppliedOnce
<1> QED BY <1>1, WorkInvariant, PTL

\* What SchemaVersion records is never migrated again, by any process, unless
\* a query nobody checks has failed.
THEOREM NeverMigratesAgain == Seeded /\ MigrationSpec => NeverMigratedAgain
<1> DEFINE Same == AllRead => \A v \in recorded : applied'[v] = applied[v]
<1>1. ASSUME TableInv, AllRead => WorkInv, MigrationNext PROVE Same
  <2>1. ASSUME NEW p \in Proc, MigrateVersion(p) PROVE Same
    <3> SUFFICES ASSUME AllRead
                 PROVE  \A v \in recorded : applied'[v] = applied[v]
      OBVIOUS
    <3>1. \A v \in recorded : v # index[p] /\ v \in Version
      BY <1>1, <2>1 DEF MigrateVersion, WorkInv, TableInv, MTypeOK, Version
    <3> QED BY <1>1, <2>1, <3>1 DEF MigrateVersion, TableInv, MTypeOK
  <2> QED
    BY <1>1, <2>1
       DEF MigrationNext, InitService, Migrate, LockMigration, SelectMigration,
           SaveMigration, UnlockMigration, Die, TimePasses, ReadVersion,
           ReadVersionFails, RouteVersion, SaveVersion, SaveVersionFails,
           schemaVars, migrationVars
<1>2. TableInv /\ (AllRead => WorkInv) /\ [MigrationNext]_vars
        => [Same]_vars
  BY <1>1
<1> QED BY <1>2, WorkInvariant, PTL DEF MigrationSpec, NeverMigratedAgain

-----------------------------------------------------------------------------
(* ProxyServer: where NewProxyServer's goroutine is says how many servers  *)
(* it has started, what each of their goroutines does and what its         *)
(* services have been told.                                                *)

Serving == {"serve", "replace", "spawn", "spawned"}

Ending == {"connect", "run", "router", "stop", "stopped"}

\* Servers of the route service as one of the services, and before this turn.
Listed == IF route = "listed" THEN 1 ELSE 0

Before == IF turn = 1 THEN Listed ELSE 0

\* What the services have been told, those before the loop's turn and the rest.
StepsInv ==
  /\ at = "deps" => \A s \in Service : s < turn => ready[s] = "deps"
  /\ at \in {"all"} \cup Serving =>
       \A s \in Service : turn > 1 => ready[s] = IF s < turn THEN "all" ELSE "deps"
  /\ at = "all" /\ turn = 1 => \A s \in Service : ready[s] = "deps"
  /\ at \in {"handlers", "connect", "run", "router"} =>
       \A s \in Service : ready[s] = "all"
  /\ at \in Serving /\ turn = 1 => \A s \in Service : ready[s] = "all"
  /\ at \in {"stop", "stopped"} =>
       \A s \in Service : ready[s] \in {"all", "stopped"}
  /\ at \in {"route", "handlers", "connect", "run", "router"} => turn = 1
  /\ at \in Serving => turn = 1 \/ (turn = place + 1 /\ route = "listed")

ServersInv ==
  /\ at \in {"route", "start", "deps"} => servers = 0
  /\ at = "all" => servers = IF route = "listed" /\ turn > place THEN 1 ELSE 0
  /\ at = "handlers" => servers = Listed
  /\ at \in {"serve", "replace", "spawn"} => servers = Before
  /\ at = "spawned" => servers = Before + 1
  /\ at \in Ending => servers = Listed + 1

\* The goroutine of the last server waits for its context, but while it is
\* made, replaced or stopped; those of the servers before it have told their
\* end.
GoroutineInv ==
  /\ \A j \in Server :
       /\ j > servers => goroutine[j] = "none" /\ listener[j] = "none"
       /\ j < servers => goroutine[j] \in {"shutting", "ended"}
       /\ goroutine[j] \in {"none", "new"} \/ listener[j] # "none"
  /\ at # "spawned" => current = servers
  /\ servers > 0 =>
       /\ at = "spawned" => /\ current = servers - 1
                            /\ goroutine[servers] = "new"
                            /\ listener[servers] = "none"
       /\ at \in {"replace", "stop", "stopped"} =>
            goroutine[servers] = "telling"
       /\ at = "spawn" => goroutine[servers] \in {"shutting", "ended"}
       /\ at \in {"all", "handlers", "serve", "connect", "run", "router"} =>
            goroutine[servers] = "waiting"
  /\ at = "replace" => servers > 0

ProxyInv ==
  /\ ProxyTypeOK
  /\ StepsInv /\ ServersInv /\ GoroutineInv
  /\ process = "dead" => route # "named"

\* The process starts with no server.
LEMMA ProxyInitially == ProxyInit => ProxyInv
BY ProxyAssumption
   DEF ProxyInit, ProxyInv, ProxyTypeOK, StepsInv, ServersInv, GoroutineInv,
       Serving, Ending, Listed, Before, Service, Server

\* Every step keeps the invariant, one step per action.
LEMMA ProxyInductive ==
  ASSUME ProxyInv, [ProxyNext]_proxyVars
  PROVE  ProxyInv'
<1> USE ProxyAssumption
    DEF ProxyInv, ProxyTypeOK, StepsInv, ServersInv, GoroutineInv, Serving,
        Ending, Listed, Before, Service, Server, serving
<1>1. CASE StartRoute
  BY <1>1 DEF StartRoute
<1>2. CASE StartService
  BY <1>2 DEF StartService, Turn
<1>3. CASE ProcessDependencies
  <2>1. CASE turn \in 1..Services
    BY <1>3, <2>1 DEF ProcessDependencies, Turn
  <2>2. CASE turn = Services + 1
    BY <1>3, <2>2 DEF ProcessDependencies, Turn
  <2> QED BY <2>1, <2>2
<1>4. CASE AllServicesStarted
  <2>1. CASE turn = Services + 1
    <3>1. /\ at = "all" /\ at' = "handlers" /\ turn' = 1
          /\ UNCHANGED <<route, place, process, ready, servers, current,
                         goroutine, listener, signal>>
      BY <1>4, <2>1 DEF AllServicesStarted, TurnServing
    <3>2. \A s \in Service : ready[s] = "all"
      BY <2>1, <3>1
    <3>3. servers = Listed
      BY <2>1, <3>1
    <3> QED BY <3>1, <3>2, <3>3
  <2>2. CASE turn \in Service
    <3>1. /\ at = "all" /\ turn' = turn + 1
          /\ at' = IF turn = place THEN "serve" ELSE "all"
          /\ ready' = [ready EXCEPT ![turn] = "all"]
          /\ UNCHANGED <<route, place, process, servers, current, goroutine,
                         listener, signal>>
      BY <1>4, <2>2 DEF AllServicesStarted, TurnServing
    <3>2. \A s \in Service : ready[s] = IF s < turn THEN "all" ELSE "deps"
      BY <2>2, <3>1
    <3>3. \A s \in Service : ready'[s] = IF s < turn + 1 THEN "all" ELSE "deps"
      BY <2>2, <3>1, <3>2
    <3>4. servers = IF route = "listed" /\ turn > place THEN 1 ELSE 0
      BY <3>1
    <3>5. ProxyTypeOK' /\ StepsInv'
      BY <2>2, <3>1, <3>3
    <3>6. ServersInv'
      <4>1. CASE turn = place
        BY <2>2, <3>1, <3>4, <4>1
      <4>2. CASE turn # place
        BY <2>2, <3>1, <3>4, <4>2
      <4> QED BY <4>1, <4>2
    <3>7. GoroutineInv'
      BY <3>1, <3>4
    <3> QED BY <3>1, <3>5, <3>6, <3>7
  <2> QED BY <2>1, <2>2
<1>5. CASE SetHandlers
  BY <1>5 DEF SetHandlers
<1>6. CASE Serve
  <2>1. CASE servers = 0
    BY <1>6, <2>1 DEF Serve
  <2>2. CASE servers > 0
    <3>1. current = servers /\ goroutine[servers] = "waiting"
      BY <1>6, <2>2 DEF Serve
    <3>2. /\ at = "serve" /\ at' = "replace"
          /\ goroutine' = [goroutine EXCEPT ![servers] = "telling"]
          /\ UNCHANGED <<route, place, process, turn, ready, servers, current,
                        listener, signal>>
      BY <1>6, <2>2, <3>1 DEF Serve
    <3> QED BY <2>2, <3>1, <3>2
  <2> QED BY <2>1, <2>2
<1>7. CASE Replace
  BY <1>7 DEF Replace
<1>8. CASE Spawn
  BY <1>8 DEF Spawn
<1>9. CASE ServerStarts
  <2>1. servers \in 1..2 /\ at = "spawned" /\ goroutine[servers] = "new"
    BY <1>9 DEF ServerStarts
  <2>2. /\ current' = servers
        /\ goroutine' = [goroutine EXCEPT ![servers] = "waiting"]
        /\ listener' = [listener EXCEPT ![servers] = "starting"]
        /\ at' = IF turn = 1 THEN "connect" ELSE "all"
        /\ UNCHANGED <<route, place, process, turn, ready, servers, signal>>
    BY <1>9 DEF ServerStarts
  <2>3. ProxyTypeOK' /\ StepsInv'
    BY <2>1, <2>2
  <2>4. ServersInv'
    BY <2>1, <2>2
  <2>5. GoroutineInv'
    BY <2>1, <2>2
  <2> QED BY <2>2, <2>3, <2>4, <2>5
<1>10. CASE Connected
  BY <1>10 DEF Connected
<1>11. CASE Signal \/ CancelContext
  BY <1>11 DEF Signal, CancelContext
<1>12. CASE ContextDone
  BY <1>12 DEF ContextDone
<1>13. CASE StopRouter
  BY <1>13 DEF StopRouter, Cancelled
<1>14. CASE StopService
  <2>1. ProxyTypeOK' /\ StepsInv'
    <3>1. CASE turn \in 1..Services
      BY <1>14, <3>1 DEF StopService
    <3>2. CASE turn = Services + 1
      BY <1>14, <3>2 DEF StopService
    <3> QED BY <3>1, <3>2
  <2>2. /\ at = "stop" /\ at' \in {"stop", "stopped"}
        /\ UNCHANGED <<route, place, process, servers, current, goroutine, listener>>
    BY <1>14 DEF StopService
  <2> QED BY <2>1, <2>2
<1>15. ASSUME NEW j \in Server, Listen(j) PROVE ProxyInv'
  BY <1>15 DEF Listen
<1>16. ASSUME NEW j \in Server, Shutdown(j) PROVE ProxyInv'
  BY <1>16 DEF Shutdown
<1>17. CASE Killed
  BY <1>17 DEF Killed
<1>18. CASE UNCHANGED proxyVars
  BY <1>18 DEF proxyVars
<1> QED BY <1>1, <1>2, <1>3, <1>4, <1>5, <1>6, <1>7, <1>8, <1>9, <1>10,
           <1>11, <1>12, <1>13, <1>14, <1>15, <1>16, <1>17, <1>18
        DEF ProxyNext, Boot, Down, HttpServer

\* The process's invariant holds of every execution.
THEOREM ProxyInvariant == ProxySpec => []ProxyInv
BY ProxyInitially, ProxyInductive, PTL DEF ProxySpec

\* No loop of NewProxyServer runs past the services and no third server is
\* made, however the route service is run (main.go:64-152).
THEOREM ProxyTypeCorrect == ProxySpec => []ProxyTypeOK
<1>1. ProxyInv => ProxyTypeOK
  BY DEF ProxyInv
<1> QED BY <1>1, ProxyInvariant, PTL

\* HTTP is served after every service knows that all have started, but for those
\* after a listed route service, and a process whose route service runs once never
\* dies of its own server.
LEMMA ServesAfterAll == ProxyInv => ServesLast
<1> SUFFICES ASSUME ProxyInv PROVE ServesLast
  OBVIOUS
<1>1. ASSUME NEW j \in Server, listener[j] # "none", NEW s \in Service
      PROVE  /\ ready[s] \in {"deps", "all", "stopped"}
             /\ ready[s] = "deps" => route = "listed" /\ s > place
  <2>1. servers > 0
    BY <1>1 DEF ProxyInv, ProxyTypeOK, GoroutineInv, Server
  <2>2. at \notin {"route", "start", "deps"}
    BY <2>1 DEF ProxyInv, ServersInv
  <2>3. CASE at = "all"
    <3>1. route = "listed" /\ turn > place /\ place \in Service
      BY <2>1, <2>3 DEF ProxyInv, ProxyTypeOK, ServersInv, Service
    <3>2. ready[s] = IF s < turn THEN "all" ELSE "deps"
      BY <2>3, <3>1 DEF ProxyInv, ProxyTypeOK, StepsInv, Service
    <3> QED BY <3>1, <3>2 DEF ProxyInv, ProxyTypeOK, Service
  <2>4. CASE at \in Serving
    <3>1. CASE turn = 1
      BY <2>4, <3>1 DEF ProxyInv, StepsInv
    <3>2. CASE turn # 1
      <4>1. route = "listed" /\ turn = place + 1
        BY <2>4, <3>2 DEF ProxyInv, StepsInv
      <4>2. turn > 1
        BY <3>2 DEF ProxyInv, ProxyTypeOK
      <4>3. ready[s] = IF s < turn THEN "all" ELSE "deps"
        BY <2>4, <4>2 DEF ProxyInv, StepsInv
      <4> QED BY <4>1, <4>3 DEF ProxyInv, ProxyTypeOK, Service
    <3> QED BY <3>1, <3>2
  <2> QED BY <2>2, <2>3, <2>4 DEF ProxyInv, ProxyTypeOK, StepsInv, Serving
<1> QED BY <1>1 DEF ProxyInv, ServesLast

\* HTTP comes last, however the route service is run (main.go:131-139).
THEOREM ServesAfterAllStarted == ProxySpec => []ServesLast
BY ServesAfterAll, ProxyInvariant, PTL

\* Two servers never wait for their contexts at once: a new one is made when
\* the old one has answered on terminated (route-http-server.go:62-107).
LEMMA OneWaits == ProxyInv => OneServer
<1> SUFFICES ASSUME ProxyInv PROVE OneServer
  OBVIOUS
<1> DEFINE Waiting == {j \in Server : goroutine[j] \in {"new", "waiting"}}
<1>1. Waiting \subseteq {servers}
  BY DEF ProxyInv, ProxyTypeOK, GoroutineInv, Server
<1>2. IsFiniteSet({servers}) /\ Cardinality({servers}) = 1
  BY FS_Singleton
<1>3. Cardinality(Waiting) <= 1
  BY <1>1, <1>2, FS_Subset
<1> QED BY <1>3 DEF OneServer

\* A server is replaced, never joined, by the next (route-http-server.go:62-107).
THEOREM OneServerWaits == ProxySpec => []OneServer
BY OneWaits, ProxyInvariant, PTL

\* serve never waits on a channel nobody will send on: while it receives from
\* terminated a server is telling its end, while AllServicesStarted receives
\* from started the new goroutine has not sent yet.
Answered ==
  /\ at = "replace" => \E j \in Server : goroutine[j] = "telling"
  /\ at = "spawned" => servers \in Server /\ goroutine[servers] = "new"

\* The handshakes of serve with its goroutines cannot block for good
\* (route-http-server.go:62-107).
THEOREM HandshakesAnswered == ProxySpec => []Answered
<1>1. ProxyInv => Answered
  <2> SUFFICES ASSUME ProxyInv PROVE Answered
    OBVIOUS
  <2>1. at = "replace" => servers \in Server /\ goroutine[servers] = "telling"
    BY DEF ProxyInv, ProxyTypeOK, GoroutineInv, Server
  <2>2. at = "spawned" => servers \in Server /\ goroutine[servers] = "new"
    BY DEF ProxyInv, ProxyTypeOK, ServersInv, GoroutineInv, Server, Before,
           Listed
  <2> QED BY <2>1, <2>2 DEF Answered
<1> QED BY <1>1, ProxyInvariant, PTL

-----------------------------------------------------------------------------
(* V1Process: its steps are steps of its parts, so what is proved of them  *)
(* holds of it, and the part of the database in what HTTP serves.          *)

\* A step of the process is one of Migration, or leaves it alone.
LEMMA MigrationSteps ==
  ASSUME [V1Next]_processVars
  PROVE  [MigrationNext]_vars
<1>1. ASSUME NEW p \in Proc, Initialises(p) \/ OtherDies(p)
      PROVE  MigrationNext
  BY <1>1 DEF Initialises, OtherDies, MigrationNext
<1>2. CASE SelfDies
  BY <1>2, SelfAssumption DEF SelfDies, MigrationNext, Own
<1>3. CASE TimeGoesBy
  BY <1>3 DEF TimeGoesBy, MigrationNext
<1>4. CASE Runs \/ Signals \/ \E j \in Server : Serves(j)
  BY <1>4 DEF Runs, Signals, Serves
<1>5. CASE UNCHANGED processVars
  BY <1>5 DEF processVars
<1> QED BY <1>1, <1>2, <1>3, <1>4, <1>5 DEF V1Next

\* The process among the others migrates as Migration says.
THEOREM RunsMigrations == V1Spec => MigrationSpec
<1>1. V1Init => MigrationInit
  BY DEF V1Init
<1> QED BY <1>1, MigrationSteps, PTL DEF V1Spec, MigrationSpec

\* A step of the process is one of ProxyServer, or leaves it alone.
LEMMA ProxySteps ==
  ASSUME [V1Next]_processVars
  PROVE  [ProxyNext]_proxyVars
<1>1. ASSUME NEW p \in Proc, Initialises(p) PROVE [ProxyNext]_proxyVars
  BY <1>1 DEF Initialises, Takes, ProxyNext
<1>2. ASSUME NEW p \in Proc, OtherDies(p) PROVE UNCHANGED proxyVars
  BY <1>2 DEF OtherDies
<1>3. CASE SelfDies
  BY <1>3 DEF SelfDies, ProxyNext
<1>4. CASE TimeGoesBy
  BY <1>4 DEF TimeGoesBy
<1>5. CASE Runs \/ Signals
  BY <1>5 DEF Runs, Signals, ProxyNext
<1>6. ASSUME NEW j \in Server, Serves(j) PROVE ProxyNext
  BY <1>6 DEF Serves, ProxyNext
<1>7. CASE UNCHANGED processVars
  BY <1>7 DEF processVars
<1> QED BY <1>1, <1>2, <1>3, <1>4, <1>5, <1>6, <1>7 DEF V1Next

\* The process starts, serves and stops as ProxyServer says.
THEOREM RunsProxy == V1Spec => ProxySpec
<1>1. V1Init => ProxyInit
  BY DEF V1Init
<1> QED BY <1>1, ProxySteps, PTL DEF V1Spec, ProxySpec

\* The process is past the start of the first service with something to migrate.
Started == ~(at = "route" \/ (at = "start" /\ turn <= FirstOther))

\* Whoever is through its migrations has found all versions recorded; a
\* process that has gone on is through, and one that serves has gone on.
CompleteInv ==
  /\ \A p \in Proc \ Route : step[p] = "unlock" => recorded = Version
  /\ process = "alive" /\ step[Self] = "done" => recorded = Version
  /\ process = "alive" /\ Started => step[Self] = "done"
  /\ (\E j \in Server : listener[j] # "none") => recorded = Version

\* Nobody has migrated or listens at the start.
LEMMA CompleteInitially == V1Init => CompleteInv
BY SelfAssumption
   DEF V1Init, MigrationInit, ProxyInit, CompleteInv, Started, Own

\* A recorded version stays recorded.
LEMMA RecordedGrows ==
  ASSUME [MigrationNext]_vars
  PROVE  recorded \subseteq recorded'
BY DEF MigrationNext, InitService, Migrate, LockMigration, SelectMigration,
       SaveMigration, UnlockMigration, Die, TimePasses, ReadVersion,
       ReadVersionFails, RouteVersion, MigrateVersion, SaveVersion,
       SaveVersionFails, schemaVars, migrationVars, vars

\* Migrate returns without an error only past the last version, but for the
\* route service.
LEMMA UnlocksComplete ==
  ASSUME TableInv, [MigrationNext]_vars, NEW p \in Proc \ Route,
         step'[p] = "unlock", step[p] # "unlock"
  PROVE  recorded' = Version
<1>1. MigrateVersion(p) /\ ~(index[p] <= N)
  BY DEF MigrationNext, InitService, Migrate, LockMigration, SelectMigration,
         SaveMigration, UnlockMigration, Die, TimePasses, ReadVersion,
         ReadVersionFails, RouteVersion, MigrateVersion, SaveVersion,
         SaveVersionFails, Goto, migrationVars, vars, TableInv, MTypeOK
<1>2. index[p] = N + 1 /\ step[p] = "migrate" /\ recorded' = recorded
  BY <1>1, MigrationAssumption DEF MigrateVersion, TableInv, MTypeOK
<1>3. (N + 1) - 1 = N
  BY MigrationAssumption
<1> QED BY <1>2, <1>3 DEF TableInv, MTypeOK, AtVersion, Version

\* A process that lives on after Base.Init has left it without an error.
LEMMA DoneComplete ==
  ASSUME TableInv, CompleteInv, [V1Next]_processVars, process' = "alive",
         step'[Self] = "done", step[Self] # "done"
  PROVE  recorded' = Version
<1>1. ASSUME NEW p \in Proc, Initialises(p) PROVE recorded' = Version
  <2>1. p = Self
    BY <1>1, SelfAssumption
       DEF Initialises, InitService, Migrate, LockMigration, SelectMigration,
           SaveMigration, UnlockMigration, ReadVersion, ReadVersionFails,
           RouteVersion, MigrateVersion, SaveVersion, SaveVersionFails, Goto,
           migrationVars, TableInv, MTypeOK, Own
  <2>2. UnlockMigration(p)
    BY <1>1, <2>1, SelfAssumption
       DEF Initialises, InitService, Migrate, LockMigration, SelectMigration,
           SaveMigration, ReadVersion, ReadVersionFails, RouteVersion,
           MigrateVersion, SaveVersion, SaveVersionFails, Goto, migrationVars,
           TableInv, MTypeOK
  <2>3. step[p] = "unlock" /\ p \notin Route
    <3>1. ~Panics(p)
      BY <1>1, <2>1 DEF Initialises, Takes, Killed, Own
    <3> QED BY <2>1, <2>2, <3>1, SelfAssumption DEF Panics, UnlockMigration
  <2> QED BY <2>2, <2>3 DEF UnlockMigration, schemaVars, CompleteInv
<1>2. ASSUME NEW p \in Proc, OtherDies(p) PROVE FALSE
  BY <1>2, SelfAssumption DEF OtherDies, Die, Goto, TableInv, MTypeOK, Own
<1>3. ~SelfDies
  BY DEF SelfDies, Killed
<1>4. ~(UNCHANGED vars) /\ ~TimeGoesBy
  BY DEF vars, migrationVars, TimeGoesBy, TimePasses
<1> QED BY <1>1, <1>2, <1>3, <1>4
        DEF V1Next, Runs, Signals, Serves, processVars

\* Base.Init runs once in a service.
LEMMA DoneStays ==
  ASSUME [MigrationNext]_vars, NEW p \in Proc, TableInv, step[p] = "done"
  PROVE  step'[p] = "done"
BY DEF MigrationNext, InitService, Migrate, LockMigration, SelectMigration,
       SaveMigration, UnlockMigration, Die, TimePasses, ReadVersion,
       ReadVersionFails, RouteVersion, MigrateVersion, SaveVersion,
       SaveVersionFails, Goto, migrationVars, vars, TableInv, MTypeOK

\* Every step of the process keeps CompleteInv.
LEMMA CompleteInductive ==
  ASSUME TableInv, TableInv', ProxyInv, CompleteInv, [V1Next]_processVars
  PROVE  CompleteInv'
<1>1. recorded = Version => recorded' = Version
  BY MigrationSteps, RecordedGrows DEF TableInv, MTypeOK
<1>2. ASSUME NEW p \in Proc \ Route, step'[p] = "unlock"
      PROVE  recorded' = Version
  BY <1>1, <1>2, MigrationSteps, UnlocksComplete DEF CompleteInv
<1>3. process' = "alive" => process = "alive"
  BY ProxySteps DEF ProxyNext, proxyVars
<1>4. ASSUME process' = "alive", step'[Self] = "done" PROVE recorded' = Version
  BY <1>1, <1>3, <1>4, DoneComplete DEF CompleteInv
<1>5. ASSUME process' = "alive", Started' PROVE step'[Self] = "done"
  <2>1. CASE Started
    BY <1>3, <1>5, <2>1, SelfAssumption, MigrationSteps, DoneStays
       DEF CompleteInv, Own
  <2>2. CASE ~Started
    <3>1. Runs
      BY <1>5, <2>2
         DEF Started, FirstOther, V1Next, Initialises, OtherDies, SelfDies,
             TimeGoesBy, Signals, Serves, Takes, Killed, Signal, CancelContext,
             HttpServer, Listen, Shutdown, processVars, proxyVars
    <3>2. place' = place
      BY <3>1
         DEF Runs, Boot, Down, StartRoute, StartService, Turn,
             ProcessDependencies, AllServicesStarted, TurnServing, SetHandlers,
             Serve, Replace, Spawn, ServerStarts, Connected, ContextDone,
             StopRouter, StopService
    <3>3. /\ FirstOther' = FirstOther /\ FirstOther \in Service
          /\ turn \in 1..(Services + 1)
      BY <3>2, ProxyAssumption, SelfAssumption
         DEF FirstOther, ProxyInv, ProxyTypeOK, Service
    <3>4. at = "start" /\ turn = FirstOther /\ turn' # turn
      <4>1. CASE at = "route"
        \* The loop begins with the first service.
        <5>1. at' = "start" /\ turn' = turn /\ turn = 1
          BY <3>1, <4>1
             DEF Runs, Boot, Down, StartRoute, StartService, Turn,
                 ProcessDependencies, AllServicesStarted, TurnServing,
                 SetHandlers, Serve, Replace, Spawn, ServerStarts, Connected,
                 ContextDone, StopRouter, StopService, ProxyInv, StepsInv
        <5> QED BY <1>5, <3>3, <5>1 DEF Started, Service
      <4>2. CASE at = "start" /\ turn <= FirstOther
        <5>1. Turn("start", "started", "deps")
          BY <3>1, <4>2
             DEF Runs, Boot, Down, StartRoute, StartService, Turn,
                 ProcessDependencies, AllServicesStarted, TurnServing,
                 SetHandlers, Serve, Replace, Spawn, ServerStarts, Connected,
                 ContextDone, StopRouter, StopService
        <5>2. turn \in Service
          BY <3>3, <4>2, ProxyAssumption DEF Service
        <5>3. at' = "start" /\ turn' = turn + 1
          BY <4>2, <5>1, <5>2 DEF Turn
        <5> QED BY <1>5, <3>3, <4>2, <5>2, <5>3 DEF Started, Service
      <4> QED BY <2>2, <4>1, <4>2 DEF Started
    <3>5. ~Starting(Self)
      BY <3>1, <3>4 DEF Runs, Proceeds, Own
    <3> QED BY <3>1, <3>4, <3>5 DEF Starting, Runs, vars, migrationVars
  <2> QED BY <2>1, <2>2
<1>6. ASSUME NEW j \in Server, listener'[j] # "none" PROVE recorded' = Version
  <2>1. CASE listener[j] # "none"
    BY <1>1, <2>1 DEF CompleteInv
  <2>2. CASE listener[j] = "none"
    <3>1. process = "alive" /\ at = "spawned"
      \* Only ServerStarts has a server listen that did not.
      <4> USE DEF ProxyInv, ProxyTypeOK
      <4>1. ProxyNext
        BY <1>6, <2>2, ProxySteps DEF proxyVars
      <4>2. ASSUME NEW i \in Server, HttpServer(i) PROVE listener'[j] = "none"
        BY <1>6, <2>2, <4>2 DEF HttpServer, Listen, Shutdown, GoroutineInv,
                                Server
      <4>3. ServerStarts \/ UNCHANGED listener \/ \E i \in Server : HttpServer(i)
        BY <4>1
           DEF ProxyNext, Boot, Down, StartRoute, StartService, Turn,
               ProcessDependencies, AllServicesStarted, TurnServing,
               SetHandlers, Serve, Replace, Spawn, Connected, ContextDone,
               StopRouter, StopService, Signal, CancelContext, Killed, serving
      <4> QED BY <1>6, <2>2, <4>1, <4>2, <4>3 DEF ServerStarts, ProxyNext
    <3> QED BY <1>1, <3>1 DEF CompleteInv, Started
  <2> QED BY <2>1, <2>2
<1> QED BY <1>2, <1>4, <1>5, <1>6 DEF CompleteInv

\* The invariants of the parts and of the whole hold of every execution.
THEOREM V1Invariant == V1Spec => [](TableInv /\ ProxyInv /\ CompleteInv)
BY CompleteInitially, CompleteInductive, RunsMigrations, RunsProxy,
   TableInvariant, ProxyInvariant, PTL DEF V1Spec

\* When HTTP is served every service has started and the tables are at the
\* last version, however the processes on the database interleave, die or take
\* the lock over: this needs neither the row of the lock nor the lease
\* (base-service.go:222-263, main.go:64-152).
THEOREM ServesWhenReady == V1Spec => []ServesReady
<1>1. ProxyInv /\ CompleteInv => ServesReady
  BY ServesAfterAll DEF CompleteInv, ServesReady
<1> QED BY <1>1, V1Invariant, PTL

\* In a process among others, too, two servers never wait at once.
THEOREM ProcessHasOneServer == V1Spec => []OneServer
BY RunsProxy, OneServerWaits, PTL

\* What the lock promises holds of a process that dies in the middle of its
\* services' start and of the others.
THEOREM ProcessMigratesOnce ==
  Seeded /\ V1Spec => [](MutualExclusion /\ ValidLockState /\ AppliedOnce)
BY RunsMigrations, UsesLock, ExcludesEachOther, UnlocksOwnLock, AppliesOnce, PTL
=============================================================================
