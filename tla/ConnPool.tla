------------------------------ MODULE ConnPool ------------------------------
(***************************************************************************)
(* The connections of the v2 NATS provider                                 *)
(* (v2/pkg/broker/providers/nats/provider.go:27-75, 114-130, 226-244): one *)
(* ring for all providers of the process, made by a NewNatsProvider that   *)
(* finds none, turned by every requestConn under connMutex, and drained,   *)
(* closed, unlinked and dropped by Close, which holds connMutex only while *)
(* it drains.  Nothing keeps providers from being open at the same time,   *)
(* or requestConn from running during a Close.  A nil ring makes           *)
(* requestConn panic; a connection that drains or is closed refuses what   *)
(* is asked of it.  NewNatsProvider panics when the NATS server refuses a  *)
(* connection; its caller may recover and try again.                       *)
(***************************************************************************)
EXTENDS Integers, FiniteSets

CONSTANTS
  Provider,   \* values NewNatsProvider returns
  User,       \* goroutines that use a provider
  Nobody,     \* nobody holds connMutex
  MaxConns,   \* connections of a ring (20 in the code)
  MaxRings,   \* bound: rings ever made
  MaxUses     \* bound: how often a connection is given out

ASSUME PoolAssumption ==
  /\ MaxConns \in Nat \ {0}
  /\ MaxRings \in Nat \ {0}
  /\ MaxUses \in Nat
  /\ Nobody \notin User \cup Provider /\ User \cap Provider = {}

Ring == 1..MaxRings
Slot == 0..(MaxConns - 1)

VARIABLES
  ring,     \* the ring globalConnections is in, 0 when it is nil
  slot,     \* and its position in that ring
  size,     \* size[r]: elements linked in ring r, 0 before it is made
  split,    \* the rings Unlink has taken apart
  opened,   \* opened[r]: connections of ring r that take requests
  pc,       \* pc[p]: where provider p is in its life
  mutex,    \* who holds connMutex
  upc,      \* upc[u]: where u is in requestConn
  by,       \* by[u]: the provider u uses, Nobody before
  next,     \* next[u]: the ring and the position u has read
  got,      \* got[u]: the connection u was given, "none" before
  used,     \* used[r][k]: how often connection k of ring r was given out
  made,     \* connections of the NewNatsProvider under way
  home,     \* home[p]: the ring NewNatsProvider made or found, 0 before
  ended,    \* the rings a Close has come upon, and 0
  crossed   \* whether a Close began while another provider was open or being
            \* made or a requestConn under way, or one of these during a Close

pool == <<ring, slot, size, split, opened>>
users == <<upc, by, next, got, used>>
vars == <<pool, users, pc, mutex, made, home, ended, crossed>>

TypeOK ==
  /\ ring \in 0..MaxRings /\ slot \in Slot
  /\ size \in [Ring -> 0..MaxConns]
  /\ split \subseteq Ring /\ opened \in [Ring -> SUBSET Slot]
  /\ pc \in [Provider -> {"new", "creating", "failed", "open", "drain",
                          "lock", "close", "unlink", "drop", "closed"}]
  /\ mutex \in User \cup Provider \cup {Nobody}
  /\ upc \in [User -> {"idle", "read", "panicked"}]
  /\ by \in [User -> Provider \cup {Nobody}]
  /\ next \in [User -> Ring \X Slot]
  /\ got \in [User -> {"none", "working", "refusing"}]
  /\ used \in [Ring -> [Slot -> Nat]]
  /\ made \in 0..MaxConns /\ home \in [Provider -> 0..MaxRings]
  /\ ended \subseteq 0..MaxRings /\ crossed \in BOOLEAN

Init ==
  /\ ring = 0 /\ slot = 0
  /\ size = [r \in Ring |-> 0]
  /\ split = {} /\ opened = [r \in Ring |-> {}]
  /\ pc = [p \in Provider |-> "new"]
  /\ mutex = Nobody
  /\ upc = [u \in User |-> "idle"]
  /\ by = [u \in User |-> Nobody]
  /\ next = [u \in User |-> <<1, 0>>]
  /\ got = [u \in User |-> "none"]
  /\ used = [r \in Ring |-> [k \in Slot |-> 0]]
  /\ made = 0 /\ home = [p \in Provider |-> 0] /\ ended = {0} /\ crossed = FALSE

Goto(p, l) == pc' = [pc EXCEPT ![p] = l]

Open(p) == pc[p] \in {"creating", "open"}
Closing(p) == pc[p] \in {"drain", "lock", "close", "unlink", "drop"}

-----------------------------------------------------------------------------
(* NewNatsProvider: all of it under connMutex. *)

BeginNew(p) ==
  /\ pc[p] = "new"
  /\ mutex = Nobody
  /\ IF ring # 0 THEN Goto(p, "open") /\ UNCHANGED mutex
                 ELSE Goto(p, "creating") /\ mutex' = p
  /\ made' = 0 /\ home' = [home EXCEPT ![p] = ring]
  /\ crossed' = (crossed \/ \E q \in Provider : Closing(q))
  /\ UNCHANGED <<pool, users, ended>>

\* The ring a connection of the loop is linked to: the first makes a new one.
Growing(r) == IF ring = 0 THEN size[r] = 0 /\ \A q \in Ring : q < r => size[q] > 0
                          ELSE r = ring

\* newNatsBus, Link and Next.  Which element globalConnections then points to
\* depends on how many there are (Link returns the old next one, line 68); as
\* none has been given out, they are numbered so that it is the last.
Connect(p, r) ==
  /\ pc[p] = "creating"
  /\ Growing(r)
  /\ opened' = [opened EXCEPT ![r] = @ \cup {size[r]}]
  /\ size' = [size EXCEPT ![r] = @ + 1]
  /\ ring' = r /\ slot' = size[r]
  /\ made' = made + 1 /\ home' = [home EXCEPT ![p] = r]
  /\ IF made' = MaxConns THEN Goto(p, "open") /\ mutex' = Nobody
                         ELSE UNCHANGED <<pc, mutex>>
  /\ UNCHANGED <<split, users, ended, crossed>>

\* The panic: the deferred calls unlock, what was linked stays.
ConnectFails(p) ==
  /\ pc[p] = "creating"
  /\ Goto(p, "failed")
  /\ mutex' = Nobody
  /\ UNCHANGED <<pool, users, made, home, ended, crossed>>

-----------------------------------------------------------------------------
(* Close. *)

BeginClose(p) ==
  /\ pc[p] = "open"
  /\ Goto(p, "drain")
  /\ crossed' = \/ crossed
                \/ \E q \in Provider \ {p} : Open(q) \/ Closing(q)
                \/ \E u \in User : upc[u] = "read"
  /\ UNCHANGED <<pool, users, mutex, made, home, ended>>

\* The elements linked with the one globalConnections points to: all of them, or
\* any with it in a ring taken apart.
Linked == {l \in SUBSET (0..(size[ring] - 1)) :
             slot \in l /\ (ring \in split \/ l = 0..(size[ring] - 1))}

\* Mutant of EndAll: only the connection in turn is ended.
EndOne == opened' = [r \in Ring |-> IF r = ring THEN opened[r] \ {slot}
                                                ELSE opened[r]]

\* globalConnections.Do; of a nil ring it does nothing.
EndAll ==
  IF ring = 0 THEN UNCHANGED opened
  ELSE \E l \in Linked : opened' = [opened EXCEPT ![ring] = @ \ l]

\* drain(), under connMutex.
Drain(p) ==
  /\ pc[p] = "drain"
  /\ mutex = Nobody
  /\ EndAll
  /\ ended' = ended \cup {ring}
  /\ Goto(p, "lock")
  /\ UNCHANGED <<ring, slot, size, split, mutex, users, made, home, crossed>>

\* connMutex.Lock() and at once Unlock().
LockUnlock(p) ==
  /\ pc[p] = "lock"
  /\ mutex = Nobody
  /\ Goto(p, "close")
  /\ UNCHANGED <<pool, mutex, users, made, home, ended, crossed>>

\* Close of each connection.
CloseAll(p) ==
  /\ pc[p] = "close"
  /\ EndAll
  /\ ended' = ended \cup {ring}
  /\ Goto(p, "unlink")
  /\ UNCHANGED <<ring, slot, size, split, mutex, users, made, home, crossed>>

\* globalConnections.Unlink(globalConnections.Len() - 1), which leaves the element
\* in turn alone and the others linked with each other.
Unlink(p) ==
  /\ pc[p] = "unlink"
  /\ split' = split \cup ({ring} \ {0})
  /\ ended' = ended \cup {ring}
  /\ Goto(p, "drop")
  /\ UNCHANGED <<ring, slot, size, opened, mutex, users, made, home, crossed>>

\* Mutant of Drop: the ring is kept.
DropForgotten(p) ==
  /\ pc[p] = "drop"
  /\ ended' = ended \cup {ring}
  /\ Goto(p, "closed")
  /\ UNCHANGED <<pool, mutex, users, made, home, crossed>>

\* globalConnections = nil
Drop(p) ==
  /\ pc[p] = "drop"
  /\ ring' = 0
  /\ ended' = ended \cup {ring}
  /\ Goto(p, "closed")
  /\ UNCHANGED <<slot, size, split, opened, mutex, users, made, home, crossed>>

-----------------------------------------------------------------------------
(* requestConn, by a goroutine that uses a provider, open or not. *)

\* The positions that may follow the one globalConnections points to.
Following == IF ring \in split THEN 0..(size[ring] - 1) ELSE {(slot + 1) % size[ring]}

\* Lock and globalConnections.Next(), which panics when it is nil.
ReadNext(u, p) ==
  /\ upc[u] = "idle"
  /\ pc[p] \in {"open", "closed"} \/ Closing(p)
  /\ mutex = Nobody
  /\ IF ring = 0
     THEN upc' = [upc EXCEPT ![u] = "panicked"] /\ UNCHANGED <<next, mutex>>
     ELSE /\ upc' = [upc EXCEPT ![u] = "read"]
          /\ \E k \in Following : /\ used[ring][k] < MaxUses
                                 /\ next' = [next EXCEPT ![u] = <<ring, k>>]
          /\ mutex' = u
  /\ by' = [by EXCEPT ![u] = p]
  /\ got' = [got EXCEPT ![u] = "none"]
  /\ crossed' = (crossed \/ \E q \in Provider : Closing(q))
  /\ UNCHANGED <<pool, pc, used, made, home, ended>>

\* globalConnections = next, Unlock, and the connection is used.
WriteNext(u) ==
  /\ upc[u] = "read"
  /\ LET r == next[u][1] k == next[u][2] IN
       /\ ring' = r /\ slot' = k
       /\ got' = [got EXCEPT ![u] = IF k \in opened[r] THEN "working"
                                                      ELSE "refusing"]
       /\ used' = [used EXCEPT ![r][k] = @ + 1]
  /\ upc' = [upc EXCEPT ![u] = "idle"]
  /\ mutex' = Nobody
  /\ UNCHANGED <<size, split, opened, pc, by, next, made, home, ended, crossed>>

-----------------------------------------------------------------------------
NewNatsProvider(p) ==
  BeginNew(p) \/ ConnectFails(p) \/ \E r \in Ring : Connect(p, r)

Close(p) ==
  \/ BeginClose(p) \/ Drain(p) \/ LockUnlock(p) \/ CloseAll(p) \/ Unlink(p)
  \/ Drop(p)

requestConn(u) == WriteNext(u) \/ \E p \in Provider : ReadNext(u, p)

Next == \/ \E p \in Provider : NewNatsProvider(p) \/ Close(p)
        \/ \E u \in User : requestConn(u)

Spec == Init /\ [][Next]_vars

-----------------------------------------------------------------------------
(* Properties. *)

\* "Close ends the connection to the Provider" (v2/pkg/broker/provider.go:28), to
\* the provider that is closed: whoever uses one that is open neither panics nor
\* gets a connection that refuses, unless a Close has come upon its ring and, some
\* time, a Close crossed another provider or a requestConn.  Until a Close comes
\* upon a ring its connections are used evenly, whatever the goroutines' order.
OpenWorks ==
  /\ \A u \in User : \A p \in Provider :
       by[u] = p /\ pc[p] = "open" /\ (upc[u] = "panicked" \/ got[u] = "refusing") =>
         crossed /\ home[p] \in ended
  /\ \A r \in Ring \ ended : \A i, k \in opened[r] : used[r][i] <= used[r][k] + 1

\* No connection is left behind: those that work are in the ring in use, also
\* when a ring was only partly made or one provider follows another, with the
\* same exception.
NoLeak ==
  \A r \in Ring : opened[r] # {} => r = ring \/ (crossed /\ r \in ended)
=============================================================================
