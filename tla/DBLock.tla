------------------------------- MODULE DBLock -------------------------------
(***************************************************************************)
(* The database lock of the v1 services: TryLock, Lock and Unlock of       *)
(* pkg/service/base-service.go:99-200 over one row of the APILock table    *)
(* (pkg/models/lock.go).  A process takes the lock when the row is absent, *)
(* unlocked, or locked five minutes ago or earlier; it releases it by      *)
(* setting UnlockedOn, and panics when the row is no longer its own.  Its  *)
(* own is what it tells by the service key, which the services of a        *)
(* process and all their goroutines share.  The database is external:      *)
(* SELECT ... FOR UPDATE locks the row if there is one, and gorm's Save    *)
(* updates the row or inserts it.  Each of its calls may fail: nobody      *)
(* looks at the error of the queries, which leaves the zero row, and       *)
(* Unlock ignores that of its transaction.                                 *)
(***************************************************************************)
EXTENDS Naturals

CONSTANTS
  Proc,      \* goroutines that lock, of one process or several, each once
  Key,       \* the service keys of the processes
  ServiceKey, \* ServiceKey[p]: the key of p's process
  NoProc,    \* the zero UUID of an absent row; also: nobody locks the row
  FirstRow,  \* the row at the start: "absent" or "unlocked"
  Lease,     \* five minutes, in ticks of the clock
  MaxHold,   \* ticks within which a process that locks saves, works, unlocks
  MaxFailures \* bound: calls of the database that fail and are not tried again

ASSUME LeaseAssumption ==
  /\ NoProc \notin Proc \cup Key
  /\ ServiceKey \in [Proc -> Key]
  /\ FirstRow \in {"absent", "unlocked"}
  /\ Lease \in Nat \ {0}
  /\ MaxHold \in Nat \ {0}
  /\ MaxFailures \in Nat

VARIABLES
  row,        \* "absent", "locked" (UnlockedOn = nil) or "unlocked"
  lockedBy,   \* LockedBy
  lockedAge,  \* how long ago LockedOn is; Lease stands for any longer time
  rowLock,    \* the transaction that holds the row's FOR UPDATE lock
  pc,         \* pc[p]: what p is doing
  age,        \* age[p]: while p saves or holds, how long ago it evaluated
              \* time.Now() for LockedOn
  failures,   \* calls of the database that have failed, up to MaxFailures
  blind,      \* history: a query for the row has failed in TryLock
  unread      \* history: whose query for the row has failed in Unlock

history == <<blind, unread>>
lockVars == <<row, lockedBy, lockedAge, rowLock, pc, age, failures, history>>

TypeOK ==
  /\ row \in {"absent", "locked", "unlocked"}
  /\ lockedBy \in Key \cup {NoProc}
  /\ lockedAge \in 0..Lease
  /\ rowLock \in Proc \cup {NoProc}
  /\ pc \in [Proc -> {"idle", "locking", "saving", "holding", "panicked",
                      "dead"}]
  /\ age \in [Proc -> 0..Lease]
  /\ failures \in 0..MaxFailures
  /\ blind \in BOOLEAN /\ unread \subseteq Proc

Init ==
  /\ row = FirstRow
  /\ lockedBy = NoProc
  /\ lockedAge = Lease
  /\ rowLock = NoProc
  /\ pc = [p \in Proc |-> "idle"]
  /\ age = [p \in Proc |-> 0]
  /\ failures = 0 /\ blind = FALSE /\ unread = {}

-----------------------------------------------------------------------------
Lock(p) ==
  /\ pc[p] = "idle"
  /\ pc' = [pc EXCEPT ![p] = "locking"]
  /\ UNCHANGED <<row, lockedBy, lockedAge, rowLock, age, failures, history>>

\* A call of the database fails for good.
Fails == failures < MaxFailures /\ failures' = failures + 1

\* Mutant of AlreadyLocked: the lease is one tick short.
AlreadyLockedShort == row = "locked" /\ lockedAge < MaxHold

\* Mutant of AlreadyLocked: no takeover from a process that died.
AlreadyLockedForGood == row = "locked"

\* lock.UnlockedOn == nil && lock.LockedOn.After(time.Now().Add(-5*time.Minute));
\* of an absent row First leaves the zero time.
AlreadyLocked == row = "locked" /\ lockedAge < Lease

\* TryLock up to its decision.  While the lock is refused the transaction is
\* rolled back and Lock sleeps and tries again: nothing changes.
Select(p) ==
  /\ pc[p] = "locking"
  /\ rowLock = NoProc
  /\ ~AlreadyLocked
  /\ rowLock' = IF row = "absent" THEN NoProc ELSE p
  /\ age' = [age EXCEPT ![p] = 0]
  /\ pc' = [pc EXCEPT ![p] = "saving"]
  /\ UNCHANGED <<row, lockedBy, lockedAge, failures, history>>

\* The query fails: First leaves the zero row, which passes for unlocked, and
\* locks nothing.
SelectFails(p) ==
  /\ pc[p] = "locking"
  /\ Fails
  /\ blind' = TRUE
  /\ age' = [age EXCEPT ![p] = 0]
  /\ pc' = [pc EXCEPT ![p] = "saving"]
  /\ UNCHANGED <<row, lockedBy, lockedAge, rowLock, unread>>

\* Mutant of Save: UnlockedOn is left as it was read.
SaveUnlocked(p) ==
  /\ pc[p] = "saving"
  /\ rowLock \in {p, NoProc}
  /\ rowLock' = NoProc
  /\ lockedBy' = ServiceKey[p] /\ lockedAge' = age[p]
  /\ pc' = [pc EXCEPT ![p] = "holding"]
  /\ UNCHANGED <<row, age, failures, history>>

\* tx.Save and commit; a transaction that read no row waits for one that has
\* locked it since.
Save(p) ==
  /\ pc[p] = "saving"
  /\ rowLock \in {p, NoProc}
  /\ rowLock' = NoProc
  /\ row' = "locked" /\ lockedBy' = ServiceKey[p] /\ lockedAge' = age[p]
  /\ pc' = [pc EXCEPT ![p] = "holding"]
  /\ UNCHANGED <<age, failures, history>>

\* tx.Save or the commit fails: TryLock returns false, Lock tries again.
SaveFails(p) ==
  /\ pc[p] = "saving"
  /\ rowLock' = IF rowLock = p THEN NoProc ELSE rowLock
  /\ pc' = [pc EXCEPT ![p] = "locking"]
  /\ age' = [age EXCEPT ![p] = 0]
  /\ UNCHANGED <<row, lockedBy, lockedAge, failures, history>>

\* The whole transaction, serialised by the row's lock; a panic rolls it back
\* and, unrecovered, ends the process.
Unlock(p) ==
  /\ pc[p] = "holding"
  /\ rowLock = NoProc
  /\ IF lockedBy # ServiceKey[p] \/ row = "unlocked"
     THEN /\ pc' = [pc EXCEPT ![p] = "panicked"]
          /\ UNCHANGED row
     ELSE /\ row' = "unlocked"
          /\ pc' = [pc EXCEPT ![p] = "idle"]
  /\ age' = [age EXCEPT ![p] = 0]
  /\ UNCHANGED <<lockedBy, lockedAge, rowLock, failures, history>>

\* The query fails: the zero row, which is nobody's, is an invalid state.
UnlockUnread(p) ==
  /\ pc[p] = "holding"
  /\ Fails
  /\ unread' = unread \cup {p}
  /\ pc' = [pc EXCEPT ![p] = "panicked"]
  /\ age' = [age EXCEPT ![p] = 0]
  /\ UNCHANGED <<row, lockedBy, lockedAge, rowLock, blind>>

\* The write fails: panic(err) ends the process if it was tx.Save, an error of
\* the transaction is ignored.  The row stays locked.
UnlockFails(p) ==
  /\ pc[p] = "holding"
  /\ Fails
  /\ \E s \in {"dead", "idle"} : pc' = [pc EXCEPT ![p] = s]
  /\ age' = [age EXCEPT ![p] = 0]
  /\ UNCHANGED <<row, lockedBy, lockedAge, rowLock, history>>

\* The process ends: the database rolls its transaction back.
Crash(p) ==
  /\ pc[p] \in {"idle", "locking", "saving", "holding"}
  /\ rowLock' = IF rowLock = p THEN NoProc ELSE rowLock
  /\ pc' = [pc EXCEPT ![p] = "dead"]
  /\ age' = [age EXCEPT ![p] = 0]
  /\ UNCHANGED <<row, lockedBy, lockedAge, failures, history>>

\* A call that is none of the lock's fails.
OtherCallFails ==
  /\ Fails
  /\ UNCHANGED <<row, lockedBy, lockedAge, rowLock, pc, age, history>>

Older(t) == IF t < Lease THEN t + 1 ELSE Lease

Acting == {p \in Proc : pc[p] \in {"saving", "holding"}}

\* Time passes; no process saves, works and unlocks for longer than MaxHold.
Tick ==
  /\ \A p \in Acting : age[p] < MaxHold
  /\ lockedAge' = Older(lockedAge)
  /\ age' = [p \in Proc |-> IF p \in Acting THEN Older(age[p]) ELSE age[p]]
  /\ UNCHANGED <<row, lockedBy, rowLock, pc, failures, history>>

-----------------------------------------------------------------------------
TryLock(p) == Select(p) \/ SelectFails(p) \/ Save(p) \/ SaveFails(p)

Release(p) == Unlock(p) \/ UnlockUnread(p) \/ UnlockFails(p)

Next ==
  \/ \E p \in Proc : Lock(p) \/ TryLock(p) \/ Release(p) \/ Crash(p)
  \/ Tick \/ OtherCallFails

Spec == Init /\ [][Next]_lockVars

-----------------------------------------------------------------------------
(* Properties.  A query that fails in TryLock takes the lock from whoever  *)
(* holds it, so they speak of executions in which none has.                *)

\* One goroutine at a time is between Lock and Unlock, also when holders die,
\* their lock is taken over or an Unlock fails, and when both are of one process.
MutualExclusion ==
  ~blind =>
    \A p, q \in Proc : pc[p] = "holding" /\ pc[q] = "holding" => p = q

\* Whoever unlocks finds its own lock: the panic "invalid lock state" of Unlock
\* (base-service.go:188-190) meets only who could not read the row there.
ValidLockState ==
  ~blind => \A p \in Proc : pc[p] = "panicked" => p \in unread

\* A lock is taken from a holder only after the lease: a locked row is written
\* anew when it is five minutes old, whoever died and whatever failed meanwhile.
TakenOnlyWhenDue ==
  [][~blind /\ row = "locked" /\ row' = "locked"
     /\ (lockedBy' # lockedBy \/ lockedAge' < lockedAge)
       => lockedAge = Lease]_lockVars
=============================================================================
