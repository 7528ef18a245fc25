--------------------------- MODULE ConnPoolProofs ---------------------------
(***************************************************************************)
(* For any number of providers, goroutines, connections and rings: the     *)
(* types of ConnPool, OpenWorks and NoLeak.                                *)
(***************************************************************************)
EXTENDS ConnPool, TLAPS

\* One owner of connMutex.
LockInv ==
  /\ \A p \in Provider : pc[p] = "creating" => mutex = p
  /\ \A u \in User : upc[u] = "read" => mutex = u

\* The ring is turned once a use, so the connections up to the one in turn
\* have been used once more than those after it.
Turned(k) == used[ring][k] = IF k <= slot THEN used[ring][slot] ELSE used[ring][slot] - 1

Whole ==
  /\ opened[ring] = 0..(size[ring] - 1)
  /\ \A k \in opened[ring] : Turned(k)
  /\ ring \notin split

\* A ring no Close has come upon is the one in use, whole, or not made yet.
RingInv ==
  /\ ring # 0 => slot < size[ring]
  /\ 0 \in ended /\ (ring \notin ended => Whole)
  /\ \A r \in Ring \ ended : size[r] > 0 => r = ring
  /\ \A r \in Ring : size[r] = 0 => /\ opened[r] = {} /\ r \notin split \cup ended
                                    /\ \A k \in Slot : used[r][k] = 0

Began(p) == pc[p] \notin {"new", "creating", "failed"}

ProviderInv ==
  \A p \in Provider :
    /\ Began(p) => home[p] # 0 /\ size[home[p]] > 0
    /\ pc[p] = "creating" =>
         /\ made < MaxConns
         /\ ring # 0 => size[ring] <= made /\ \A k \in Slot : used[ring][k] = 0

UserInv ==
  \A u \in User :
    /\ upc[u] = "read" =>
         /\ next[u][2] < size[next[u][1]]
         /\ ring \in {0, next[u][1]} /\ (ring = 0 => next[u][1] \in ended)
         /\ next[u][1] \notin ended => next[u][2] = (slot + 1) % size[next[u][1]]
    /\ \A p \in Provider : by[u] = p =>
         /\ Began(p)
         /\ pc[p] = "open" /\ (upc[u] = "panicked" \/ got[u] = "refusing") =>
              home[p] \in ended

\* Until a Close crosses someone, it is alone with the ring, ends all of it and
\* drops it.
Alone(p) ==
  /\ \A q \in Provider \ {p} : ~Open(q) /\ ~Closing(q)
  /\ \A u \in User : upc[u] # "read"
  /\ pc[p] = "drain" \/ ring \in ended

CrossInv ==
  ~crossed =>
    /\ \A p \in Provider : Closing(p) => Alone(p)
    /\ \A p \in Provider : pc[p] \in {"open", "drain"} => home[p] \notin ended
    /\ ring \in ended \ {0} => \E p \in Provider : Closing(p)
    /\ \A u \in User : upc[u] = "read" => ring = next[u][1]
    /\ \A r \in Ring \cap ended : opened[r] = {}

PoolInv == LockInv /\ RingInv /\ ProviderInv /\ UserInv /\ CrossInv

-----------------------------------------------------------------------------
LEMMA NextSlot ==
  ASSUME NEW n \in Nat, NEW k \in 0..(n - 1)
  PROVE  (k + 1) % n = IF k + 1 = n THEN 0 ELSE k + 1
<1>1. CASE k + 1 = n
  BY <1>1
<1>2. CASE k + 1 < n
  BY <1>2
<1> QED BY <1>1, <1>2

LEMMA RingFacts ==
  ASSUME PoolAssumption, TypeOK, PoolInv
  PROVE  /\ ring # 0 => /\ ring \in Ring /\ size[ring] \in Nat \ {0}
                        /\ slot \in 0..(size[ring] - 1)
         /\ \A r \in Ring : r # 0 /\ size[r] \in Nat /\ opened[r] \subseteq Slot
<1> USE PoolAssumption DEF TypeOK
<1>1. \A r \in Ring : r # 0 /\ size[r] \in Nat /\ opened[r] \subseteq Slot
  BY DEF Ring
<1>2. ASSUME ring # 0
      PROVE  ring \in Ring /\ size[ring] \in Nat \ {0} /\ slot \in 0..(size[ring] - 1)
  <2>1. ring \in Ring
    BY <1>2 DEF Ring
  <2>2. size[ring] \in Nat /\ slot \in Nat /\ slot < size[ring]
    BY <1>1, <1>2, <2>1 DEF PoolInv, RingInv, Slot
  <2> QED BY <2>1, <2>2
<1> QED BY <1>1, <1>2

LEMMA FollowingType ==
  ASSUME PoolAssumption, TypeOK, PoolInv, ring # 0, NEW k \in Following
  PROVE  k \in 0..(size[ring] - 1) /\ k \in Slot
<1>1. ring \in Ring /\ size[ring] \in Nat \ {0} /\ slot \in 0..(size[ring] - 1)
  BY RingFacts
<1>2. k \in 0..(size[ring] - 1)
  <2>1. (slot + 1) % size[ring] \in 0..(size[ring] - 1)
    BY <1>1, NextSlot
  <2> QED BY <2>1 DEF Following
<1>3. size[ring] \in 0..MaxConns
  BY <1>1 DEF TypeOK
<1> QED BY <1>1, <1>2, <1>3, PoolAssumption DEF Slot

LEMMA ConnectSize ==
  ASSUME PoolAssumption, TypeOK, PoolInv, NEW p \in Provider, NEW r \in Ring, Connect(p, r)
  PROVE  /\ size[r] \in Slot /\ size[r] + 1 \in 0..MaxConns
         /\ size[r] <= made /\ made + 1 \in 0..MaxConns
<1>1. made \in Nat /\ size[r] \in Nat /\ made < MaxConns
  BY DEF PoolInv, ProviderInv, Connect, TypeOK
<1>2. size[r] <= made
  BY <1>1 DEF Connect, Growing, PoolInv, ProviderInv, Ring
<1> QED BY <1>1, <1>2, PoolAssumption DEF Slot

LEMMA TypeStep ==
  ASSUME PoolAssumption, TypeOK, PoolInv, [Next]_vars
  PROVE  TypeOK'
<1> USE PoolAssumption DEF TypeOK
<1>1. ASSUME NEW p \in Provider, BeginNew(p) PROVE TypeOK'
  <2>1. home' \in [Provider -> 0..MaxRings] /\ made' \in 0..MaxConns
    BY <1>1 DEF BeginNew
  <2>2. crossed' \in BOOLEAN
    BY <1>1 DEF BeginNew
  <2> QED BY <1>1, <2>1, <2>2 DEF BeginNew, Goto, users, pool
<1>2. ASSUME NEW p \in Provider, NEW r \in Ring, Connect(p, r) PROVE TypeOK'
  <2>1. size[r] \in Slot /\ size[r] + 1 \in 0..MaxConns /\ made + 1 \in 0..MaxConns
    BY <1>2, ConnectSize
  <2>2. ring' \in 0..MaxRings /\ slot' \in Slot /\ made' \in 0..MaxConns
    BY <1>2, <2>1 DEF Connect, Ring
  <2>3. size' \in [Ring -> 0..MaxConns] /\ opened' \in [Ring -> SUBSET Slot]
    BY <1>2, <2>1 DEF Connect
  <2>4. /\ pc' = pc \/ pc' = [pc EXCEPT ![p] = "open"]
        /\ mutex' \in User \cup Provider \cup {Nobody}
    BY <1>2 DEF Connect, Goto
  <2>5. home' \in [Provider -> 0..MaxRings]
    BY <1>2 DEF Connect, Ring
  <2>6. UNCHANGED <<split, users, ended, crossed>>
    BY <1>2 DEF Connect
  <2> QED BY <2>2, <2>3, <2>4, <2>5, <2>6 DEF users
<1>3. ASSUME NEW p \in Provider, ConnectFails(p) \/ LockUnlock(p) PROVE TypeOK'
  BY <1>3 DEF ConnectFails, LockUnlock, Goto, users, pool
<1>4. ASSUME NEW p \in Provider, BeginClose(p) PROVE TypeOK'
  <2>1. crossed' \in BOOLEAN
    BY <1>4 DEF BeginClose
  <2> QED BY <1>4, <2>1 DEF BeginClose, Goto, users, pool
<1>5. ASSUME NEW p \in Provider, Drain(p) \/ CloseAll(p) \/ Unlink(p) \/ Drop(p) PROVE TypeOK'
  <2>1. ended' \subseteq 0..MaxRings
    BY <1>5 DEF Drain, CloseAll, Unlink, Drop
  <2>2. opened' \in [Ring -> SUBSET Slot]
    <3>1. EndAll => opened' \in [Ring -> SUBSET Slot]
      <4>1. CASE ring = 0
        BY <4>1 DEF EndAll
      <4>2. ASSUME NEW l \in Linked, opened' = [opened EXCEPT ![ring] = @ \ l]
            PROVE  opened' \in [Ring -> SUBSET Slot]
        BY <4>2
      <4> QED BY <4>1, <4>2 DEF EndAll
    <3>2. EndAll \/ opened' = opened
      BY <1>5 DEF Drain, CloseAll, Unlink, Drop
    <3> QED BY <3>1, <3>2
  <2>3. split' \subseteq Ring
    <3>1. split' = split \/ split' = split \cup ({ring} \ {0})
      BY <1>5 DEF Drain, CloseAll, Unlink, Drop
    <3>2. {ring} \ {0} \subseteq Ring
      BY DEF Ring
    <3> QED BY <3>1, <3>2
  <2>4. pc' \in [Provider -> {"new", "creating", "failed", "open", "drain",
                              "lock", "close", "unlink", "drop", "closed"}]
    BY <1>5 DEF Drain, CloseAll, Unlink, Drop, Goto
  <2>5. ring' \in 0..MaxRings
    BY <1>5 DEF Drain, CloseAll, Unlink, Drop
  <2>6. UNCHANGED <<slot, size, mutex, users, made, home, crossed>>
    BY <1>5 DEF Drain, CloseAll, Unlink, Drop
  <2> QED BY <2>1, <2>2, <2>3, <2>4, <2>5, <2>6 DEF users
<1>6. ASSUME NEW u \in User, NEW p \in Provider, ReadNext(u, p) PROVE TypeOK'
  <2>1. next' \in [User -> Ring \X Slot]
    <3>1. CASE ring = 0
      BY <1>6, <3>1 DEF ReadNext
    <3>2. CASE ring # 0
      <4>1. PICK k \in Following : next' = [next EXCEPT ![u] = <<ring, k>>]
        BY <1>6, <3>2 DEF ReadNext
      <4>2. ring \in Ring /\ k \in Slot
        BY <3>2, <4>1, FollowingType, RingFacts
      <4> QED BY <4>1, <4>2
    <3> QED BY <3>1, <3>2
  <2>2. \/ upc' = [upc EXCEPT ![u] = "panicked"]
        \/ upc' = [upc EXCEPT ![u] = "read"]
    BY <1>6 DEF ReadNext
  <2>3. by' \in [User -> Provider \cup {Nobody}] /\ got' \in [User -> {"none", "working", "refusing"}]
    BY <1>6 DEF ReadNext
  <2>4. mutex' \in User \cup Provider \cup {Nobody} /\ crossed' \in BOOLEAN
    BY <1>6 DEF ReadNext
  <2>5. UNCHANGED <<pool, pc, used, made, home, ended>>
    BY <1>6 DEF ReadNext
  <2> QED BY <2>1, <2>2, <2>3, <2>4, <2>5 DEF pool
<1>7. ASSUME NEW u \in User, WriteNext(u) PROVE TypeOK'
  <2>1. next[u] \in Ring \X Slot /\ next[u][1] \in Ring /\ next[u][2] \in Slot
    OBVIOUS
  <2>2. used' \in [Ring -> [Slot -> Nat]]
    BY <1>7, <2>1 DEF WriteNext
  <2>3. ring' \in 0..MaxRings /\ slot' \in Slot
    BY <1>7, <2>1 DEF WriteNext, Ring
  <2>4. got' \in [User -> {"none", "working", "refusing"}] /\ upc' = [upc EXCEPT ![u] = "idle"]
    BY <1>7 DEF WriteNext
  <2>5. mutex' = Nobody /\ UNCHANGED <<size, split, opened, pc, by, next, made, home, ended, crossed>>
    BY <1>7 DEF WriteNext
  <2> QED BY <2>1, <2>2, <2>3, <2>4, <2>5
<1>8. CASE UNCHANGED vars
  BY <1>8 DEF vars, pool, users
<1> QED BY <1>1, <1>2, <1>3, <1>4, <1>5, <1>6, <1>7, <1>8
        DEF Next, NewNatsProvider, Close, requestConn

\* Who holds connMutex keeps the others out.
LEMMA Excluded ==
  ASSUME PoolAssumption, TypeOK, PoolInv
  PROVE  /\ mutex = Nobody => /\ \A u \in User : upc[u] # "read"
                              /\ \A p \in Provider : pc[p] # "creating"
         /\ \A p \in Provider : pc[p] = "creating" =>
              /\ \A u \in User : upc[u] # "read"
              /\ \A q \in Provider \ {p} : pc[q] # "creating"
         /\ \A u \in User : upc[u] = "read" =>
              /\ \A v \in User \ {u} : upc[v] # "read"
              /\ \A p \in Provider : pc[p] # "creating"
BY PoolAssumption DEF PoolInv, LockInv

LEMMA NewStep ==
  ASSUME PoolAssumption, TypeOK, PoolInv, NEW p \in Provider, BeginNew(p)
  PROVE  PoolInv'
<1> USE PoolAssumption DEF TypeOK
<1>1. /\ UNCHANGED <<ring, slot, size, split, opened, upc, by, next, got, used, ended>>
      /\ \A q \in Provider \ {p} : pc'[q] = pc[q] /\ home'[q] = home[q]
      /\ pc[p] = "new" /\ home'[p] = ring /\ made' = 0
      /\ \/ pc'[p] = "open" /\ ring # 0 /\ mutex' = mutex
         \/ pc'[p] = "creating" /\ ring = 0 /\ mutex' = p
      /\ crossed' = (crossed \/ \E q \in Provider : Closing(q))
  BY DEF BeginNew, Goto, pool, users
<1>2. /\ \A u \in User : upc[u] # "read"
      /\ \A q \in Provider : pc[q] # "creating"
  BY Excluded DEF BeginNew
<1>3. LockInv' /\ RingInv'
  BY <1>1, <1>2 DEF PoolInv, LockInv, RingInv, Whole, Turned
<1>4. ProviderInv'
  <2>1. Began(p)' => home'[p] # 0 /\ size'[home'[p]] > 0
    <3>1. ring # 0 => size[ring] > 0
      BY RingFacts
    <3>2. Began(p)' => ring # 0
      BY <1>1 DEF Began
    <3> QED BY <1>1, <3>1, <3>2
  <2>2. pc'[p] = "creating" => made' < MaxConns /\ ring' = 0
    BY <1>1
  <2>3. \A q \in Provider \ {p} : /\ Began(q)' => home'[q] # 0 /\ size'[home'[q]] > 0
                                 /\ pc'[q] # "creating"
    BY <1>1, <1>2 DEF PoolInv, ProviderInv, Began
  <2> QED BY <2>1, <2>2, <2>3 DEF ProviderInv
<1>5. UserInv'
  <2>1. \A u \in User : by[u] # p
    BY <1>1 DEF PoolInv, UserInv, Began
  <2> QED BY <1>1, <1>2, <2>1 DEF PoolInv, UserInv, Began
<1>6. CrossInv'
  <2> SUFFICES ASSUME ~crossed' PROVE CrossInv'
    BY DEF CrossInv
  <2>1. ~crossed /\ \A q \in Provider : ~Closing(q) /\ ~Closing(q)'
    BY <1>1 DEF Closing
  <2>2. ring # 0 => ring \notin ended
    BY <2>1 DEF PoolInv, CrossInv
  <2> QED BY <1>1, <1>2, <2>1, <2>2 DEF PoolInv, CrossInv
<1> QED BY <1>3, <1>4, <1>5, <1>6 DEF PoolInv

LEMMA ConnectStep ==
  ASSUME PoolAssumption, TypeOK, PoolInv, NEW p \in Provider, NEW r \in Ring, Connect(p, r)
  PROVE  PoolInv'
<1> USE PoolAssumption DEF TypeOK
<1>1. /\ pc[p] = "creating"
      /\ \A u \in User : upc[u] # "read"
      /\ \A q \in Provider \ {p} : pc[q] # "creating"
  BY Excluded DEF Connect
<1>2. /\ \A q \in Provider \ {p} : pc'[q] = pc[q] /\ home'[q] = home[q]
      /\ home'[p] = r
      /\ \/ pc'[p] = "creating" /\ mutex' = mutex /\ made' # MaxConns
         \/ pc'[p] = "open" /\ mutex' = Nobody
  <2>1. CASE made + 1 = MaxConns
    BY <2>1 DEF Connect, Goto
  <2>2. CASE made + 1 # MaxConns
    BY <1>1, <2>2 DEF Connect
  <2> QED BY <2>1, <2>2
<1>3. /\ size[r] \in Nat /\ size[r] <= made /\ made + 1 \in 0..MaxConns /\ made' = made + 1
      /\ size[r] \in Slot
  <2>1. size[r] \in Slot /\ size[r] <= made /\ made + 1 \in 0..MaxConns
    BY ConnectSize
  <2>2. made' = made + 1
    BY DEF Connect
  <2> QED BY <2>1, <2>2, RingFacts
<1>4. /\ ring' = r /\ slot' = size[r] /\ size'[r] = size[r] + 1
      /\ opened'[r] = opened[r] \cup {size[r]}
      /\ \A s \in Ring \ {r} : opened'[s] = opened[s] /\ size'[s] = size[s]
      /\ UNCHANGED <<split, upc, by, next, got, used, ended, crossed>>
  BY DEF Connect, users
<1>5. /\ \A k \in Slot : used[r][k] = 0
      /\ r \notin ended => opened[r] = 0..(size[r] - 1) /\ r \notin split
      /\ \A s \in Ring \ {r} : size[s] > 0 => s \in ended
      /\ ring = 0 => size[r] = 0 /\ r \notin ended
      /\ ring # 0 => r = ring
  <2>1. CASE ring = 0
    <3>1. size[r] = 0
      BY <2>1 DEF Connect, Growing
    <3>2. opened[r] = {} /\ r \notin split \cup ended /\ \A k \in Slot : used[r][k] = 0
      BY <3>1 DEF PoolInv, RingInv
    <3>3. \A s \in Ring : size[s] > 0 => s \in ended
      BY <2>1, RingFacts DEF PoolInv, RingInv
    <3> QED BY <2>1, <3>1, <3>2, <3>3
  <2>2. CASE ring # 0
    <3>1. r = ring
      BY <2>2 DEF Connect, Growing
    <3>2. \A k \in Slot : used[r][k] = 0
      BY <1>1, <2>2, <3>1 DEF PoolInv, ProviderInv
    <3>3. r \notin ended => opened[r] = 0..(size[r] - 1) /\ r \notin split
      BY <3>1 DEF PoolInv, RingInv, Whole
    <3> QED BY <2>2, <3>1, <3>2, <3>3 DEF PoolInv, RingInv
  <2> QED BY <2>1, <2>2
<1>6. LockInv'
  BY <1>1, <1>2, <1>4 DEF PoolInv, LockInv
<1>7. RingInv'
  <2>1. ring' # 0 => slot' < size'[ring']
    BY <1>3, <1>4
  <2>2. ASSUME r \notin ended PROVE Whole'
    <3>1. opened'[ring'] = 0..(size'[ring'] - 1)
      BY <1>3, <1>4, <1>5, <2>2
    <3>2. \A k \in 0..slot' : k \in Slot /\ k <= slot'
      BY <1>3, <1>4 DEF Slot
    <3>3. slot' \in 0..slot' /\ opened'[ring'] = 0..slot'
      BY <1>3, <1>4, <3>1
    <3>4. \A k \in 0..slot' : used'[ring'][k] = 0
      BY <1>4, <1>5, <3>2
    <3>5. \A k \in opened'[ring'] : Turned(k)'
      BY <3>2, <3>3, <3>4 DEF Turned
    <3> QED BY <1>4, <1>5, <2>2, <3>1, <3>5 DEF Whole
  <2>3. \A s \in Ring \ ended' : size'[s] > 0 => s = ring'
    BY <1>4, <1>5
  <2>4. \A s \in Ring : size'[s] = 0 => /\ opened'[s] = {} /\ s \notin split' \cup ended'
                                        /\ \A k \in Slot : used'[s][k] = 0
    <3>1. size'[r] # 0
      BY <1>3, <1>4
    <3> QED BY <1>4, <3>1 DEF PoolInv, RingInv
  <2> QED BY <1>4, <2>1, <2>2, <2>3, <2>4 DEF PoolInv, RingInv
<1>8. ProviderInv'
  <2>1. \A s \in Ring : size[s] > 0 => size'[s] > 0
    <3>1. size'[r] > 0
      BY <1>3, <1>4
    <3> QED BY <1>4, <3>1
  <2>2. ASSUME NEW q \in Provider, q # p, Began(q)'
        PROVE  home'[q] # 0 /\ size'[home'[q]] > 0
    <3>1. Began(q) /\ home'[q] = home[q]
      BY <1>2, <2>2 DEF Began
    <3>2. home[q] # 0 /\ size[home[q]] > 0
      BY <3>1 DEF PoolInv, ProviderInv
    <3>3. home[q] \in Ring
      BY <3>2 DEF Ring
    <3> QED BY <2>1, <3>1, <3>2, <3>3
  <2>3. home'[p] # 0 /\ size'[home'[p]] > 0
    BY <1>2, <1>3, <1>4, RingFacts
  <2>4. pc'[p] = "creating" => /\ made' < MaxConns /\ size'[ring'] <= made'
                               /\ \A k \in Slot : used'[ring'][k] = 0
    BY <1>2, <1>3, <1>4, <1>5
  <2> QED BY <1>1, <1>2, <2>2, <2>3, <2>4 DEF ProviderInv
<1>9. UserInv'
  <2>1. \A u \in User : by[u] # p
    BY <1>1 DEF PoolInv, UserInv, Began
  <2> QED BY <1>1, <1>2, <1>4, <2>1 DEF PoolInv, UserInv, Began
<1>10. CrossInv'
  <2> SUFFICES ASSUME ~crossed PROVE CrossInv'
    BY <1>4 DEF CrossInv
  <2>1. \A q \in Provider : ~Closing(q)
    BY <1>1 DEF PoolInv, CrossInv, Alone, Open, Closing
  <2>2. \A q \in Provider : ~Closing(q)'
    BY <1>1, <1>2, <2>1 DEF Closing
  <2>3. r \notin ended
    BY <1>5, <2>1 DEF PoolInv, CrossInv
  <2>4. \A q \in Provider : pc'[q] \in {"open", "drain"} => home'[q] \notin ended
    BY <1>1, <1>2, <2>3 DEF PoolInv, CrossInv
  <2>5. \A s \in Ring \cap ended' : opened'[s] = {}
    BY <1>4, <2>3 DEF PoolInv, CrossInv
  <2> QED BY <1>1, <1>4, <2>2, <2>3, <2>4, <2>5 DEF CrossInv
<1> QED BY <1>6, <1>7, <1>8, <1>9, <1>10 DEF PoolInv

LEMMA FailStep ==
  ASSUME PoolAssumption, TypeOK, PoolInv, NEW p \in Provider, ConnectFails(p)
  PROVE  PoolInv'
<1> USE PoolAssumption DEF TypeOK
<1>1. /\ pc[p] = "creating" /\ pc'[p] = "failed" /\ mutex' = Nobody
      /\ \A u \in User : upc[u] # "read"
      /\ \A q \in Provider \ {p} : pc[q] # "creating" /\ pc'[q] = pc[q]
      /\ UNCHANGED <<ring, slot, size, split, opened, upc, by, next, got, used, made, home,
                     ended, crossed>>
  BY Excluded DEF ConnectFails, Goto, pool, users
<1>2. LockInv' /\ RingInv'
  BY <1>1 DEF PoolInv, LockInv, RingInv, Whole, Turned
<1>3. ProviderInv' /\ UserInv'
  BY <1>1 DEF PoolInv, ProviderInv, UserInv, Began
<1>4. CrossInv'
  BY <1>1 DEF PoolInv, CrossInv, Alone, Open, Closing
<1> QED BY <1>2, <1>3, <1>4 DEF PoolInv

LEMMA BeginCloseStep ==
  ASSUME PoolAssumption, TypeOK, PoolInv, NEW p \in Provider, BeginClose(p)
  PROVE  PoolInv'
<1> USE PoolAssumption DEF TypeOK
<1>1. /\ pc[p] = "open" /\ pc'[p] = "drain"
      /\ \A q \in Provider \ {p} : pc'[q] = pc[q]
      /\ UNCHANGED <<ring, slot, size, split, opened, mutex, upc, by, next, got, used, made,
                     home, ended>>
  BY DEF BeginClose, Goto, pool, users
<1>2. LockInv' /\ RingInv'
  BY <1>1 DEF PoolInv, LockInv, RingInv, Whole, Turned
<1>3. ProviderInv' /\ UserInv'
  BY <1>1 DEF PoolInv, ProviderInv, UserInv, Began
<1>4. CrossInv'
  <2> SUFFICES ASSUME ~crossed' PROVE CrossInv'
    BY DEF CrossInv
  <2>1. /\ ~crossed /\ \A q \in Provider \ {p} : ~Open(q) /\ ~Closing(q)
        /\ \A u \in User : upc[u] # "read"
    BY DEF BeginClose
  <2>2. \A q \in Provider : Closing(q)' => q = p
    BY <1>1, <2>1 DEF Closing
  <2>3. Alone(p)' /\ Closing(p)'
    BY <1>1, <2>1 DEF Alone, Open, Closing
  <2> QED BY <1>1, <2>1, <2>2, <2>3 DEF PoolInv, CrossInv
<1> QED BY <1>2, <1>3, <1>4 DEF PoolInv

\* The rest of Close, step by step.
LEMMA CloseStep ==
  ASSUME PoolAssumption, TypeOK, PoolInv, NEW p \in Provider,
         Drain(p) \/ LockUnlock(p) \/ CloseAll(p) \/ Unlink(p) \/ Drop(p)
  PROVE  PoolInv'
<1> USE PoolAssumption DEF TypeOK
<1>1. /\ Closing(p) /\ pc'[p] \in {"lock", "close", "unlink", "drop", "closed"}
      /\ \A q \in Provider \ {p} : pc'[q] = pc[q]
      /\ UNCHANGED <<slot, size, mutex, upc, by, next, got, used, made, home, crossed>>
  <2>1. /\ Closing(p)
        /\ UNCHANGED <<slot, size, mutex, upc, by, next, got, used, made, home, crossed>>
    BY DEF Drain, LockUnlock, CloseAll, Unlink, Drop, Closing, users, pool
  <2>2. \E l \in {"lock", "close", "unlink", "drop", "closed"} : pc' = [pc EXCEPT ![p] = l]
    BY DEF Drain, LockUnlock, CloseAll, Unlink, Drop, Goto
  <2> QED BY <2>1, <2>2
<1>2. /\ \A r \in Ring : opened'[r] \subseteq opened[r]
      /\ \A r \in Ring \ {ring} : opened'[r] = opened[r]
      /\ LockUnlock(p) => opened' = opened
      /\ pc[p] = "drain" /\ ring # 0 /\ Whole => opened'[ring] = {}
  <2>1. EndAll => /\ \A r \in Ring : opened'[r] \subseteq opened[r]
                  /\ \A r \in Ring \ {ring} : opened'[r] = opened[r]
    <3>1. CASE ring = 0
      BY <3>1 DEF EndAll
    <3>2. ASSUME NEW l \in Linked, opened' = [opened EXCEPT ![ring] = @ \ l]
          PROVE  /\ \A r \in Ring : opened'[r] \subseteq opened[r]
                 /\ \A r \in Ring \ {ring} : opened'[r] = opened[r]
      BY <3>2
    <3> QED BY <3>1, <3>2 DEF EndAll
  <2>2. EndAll /\ ring # 0 /\ Whole => opened'[ring] = {}
    <3> SUFFICES ASSUME EndAll, ring # 0, Whole PROVE opened'[ring] = {}
      OBVIOUS
    <3>1. PICK l \in Linked : opened' = [opened EXCEPT ![ring] = @ \ l]
      BY DEF EndAll
    <3>2. l = 0..(size[ring] - 1) /\ opened[ring] = l
      BY DEF Linked, Whole
    <3>3. ring \in Ring
      BY RingFacts
    <3> QED BY <3>1, <3>2, <3>3
  <2>3. EndAll \/ opened' = opened
    BY DEF Drain, LockUnlock, CloseAll, Unlink, Drop, pool
  <2>4. pc[p] = "drain" => EndAll
    BY DEF Drain, LockUnlock, CloseAll, Unlink, Drop
  <2>5. LockUnlock(p) => opened' = opened
    BY DEF LockUnlock, pool
  <2> QED BY <2>1, <2>2, <2>3, <2>4, <2>5
<1>3. /\ ended' = ended \cup {ring} \/ (ended' = ended /\ LockUnlock(p))
      /\ split \subseteq split' /\ split' \subseteq split \cup ({ring} \ {0})
      /\ LockUnlock(p) => split' = split
  BY DEF Drain, LockUnlock, CloseAll, Unlink, Drop, pool
<1>4. \/ ring' = ring /\ pc'[p] # "closed"
      \/ ring' = 0 /\ pc'[p] = "closed" /\ ring \in ended'
  BY DEF Drain, LockUnlock, CloseAll, Unlink, Drop, Goto, pool
<1>5. ended \subseteq ended' /\ ended' \subseteq ended \cup {ring} /\ 0 \in ended
  BY <1>3 DEF PoolInv, RingInv
<1>6. \A r \in Ring \ ended' :
        r \notin ended /\ opened'[r] = opened[r] /\ (r \in split' <=> r \in split)
  BY <1>2, <1>3
<1>7. LockInv'
  BY <1>1 DEF PoolInv, LockInv
<1>8. RingInv'
  <2>1. ring' # 0 => slot' < size'[ring']
    BY <1>1, <1>4 DEF PoolInv, RingInv
  <2>2. ring' \notin ended' => Whole'
    <3> SUFFICES ASSUME ring' \notin ended' PROVE Whole'
      OBVIOUS
    <3>1. ring' = ring /\ ring # 0 /\ ring \notin ended
      BY <1>4, <1>5
    <3>2. Whole /\ ring \in Ring
      BY <3>1, RingFacts DEF PoolInv, RingInv
    <3>3. opened'[ring'] = opened[ring] /\ ring' \notin split'
      BY <1>6, <3>1, <3>2 DEF Whole
    <3> QED BY <1>1, <3>1, <3>2, <3>3 DEF Whole, Turned
  <2>3. ASSUME NEW r \in Ring \ ended', size'[r] > 0 PROVE r = ring'
    <3>1. r = ring
      BY <1>1, <1>6, <2>3 DEF PoolInv, RingInv
    <3> QED BY <1>4, <2>3, <3>1
  <2>4. ASSUME NEW r \in Ring, size'[r] = 0
        PROVE  /\ opened'[r] = {} /\ r \notin split' \cup ended'
               /\ \A k \in Slot : used'[r][k] = 0
    <3>1. opened[r] = {} /\ r \notin split \cup ended /\ \A k \in Slot : used[r][k] = 0
      BY <1>1, <2>4 DEF PoolInv, RingInv
    <3>2. r # ring
      BY <1>1, <2>4, RingFacts
    <3> QED BY <1>1, <1>2, <1>3, <1>5, <3>1, <3>2
  <2> QED BY <1>5, <2>1, <2>2, <2>3, <2>4 DEF RingInv
<1>9. ProviderInv'
  <2>1. Began(p)
    BY <1>1 DEF Began, Closing
  <2>2. \A q \in Provider : Began(q)' => Began(q)
    BY <1>1, <2>1 DEF Began
  <2>3. \A q \in Provider : pc'[q] = "creating" => pc[q] = "creating"
    BY <1>1
  <2> QED BY <1>1, <1>4, <2>2, <2>3 DEF PoolInv, ProviderInv
<1>10. UserInv'
  <2>1. Began(p)' /\ pc'[p] # "open"
    BY <1>1 DEF Began
  <2>2. ASSUME NEW u \in User, upc'[u] = "read"
        PROVE  /\ next'[u][2] < size'[next'[u][1]]
               /\ ring' \in {0, next'[u][1]} /\ (ring' = 0 => next'[u][1] \in ended')
               /\ next'[u][1] \notin ended' =>
                    next'[u][2] = (slot' + 1) % size'[next'[u][1]]
    <3>1. /\ next[u][2] < size[next[u][1]]
          /\ ring \in {0, next[u][1]} /\ (ring = 0 => next[u][1] \in ended)
          /\ next[u][1] \notin ended => next[u][2] = (slot + 1) % size[next[u][1]]
      BY <1>1, <2>2 DEF PoolInv, UserInv
    <3>2. ring' \in {0, next[u][1]} /\ (ring' = 0 => next[u][1] \in ended')
      BY <1>4, <1>5, <3>1
    <3> QED BY <1>1, <1>5, <3>1, <3>2
  <2>3. ASSUME NEW u \in User, NEW q \in Provider, by'[u] = q
        PROVE  /\ Began(q)'
               /\ pc'[q] = "open" /\ (upc'[u] = "panicked" \/ got'[u] = "refusing") =>
                    home'[q] \in ended'
    <3>1. CASE q = p
      BY <2>1, <3>1
    <3>2. CASE q # p
      <4>1. by[u] = q /\ pc'[q] = pc[q]
        BY <1>1, <2>3, <3>2
      <4>2. Began(q) /\ (pc[q] = "open" /\ (upc[u] = "panicked" \/ got[u] = "refusing") =>
                           home[q] \in ended)
        BY <4>1 DEF PoolInv, UserInv
      <4> QED BY <1>1, <1>5, <4>1, <4>2 DEF Began
    <3> QED BY <3>1, <3>2
  <2> QED BY <2>2, <2>3 DEF UserInv
<1>11. CrossInv'
  <2> SUFFICES ASSUME ~crossed PROVE CrossInv'
    BY <1>1 DEF CrossInv
  <2>1. Alone(p)
    BY <1>1 DEF PoolInv, CrossInv
  <2>2. \A q \in Provider \ {p} : ~Open(q)' /\ ~Closing(q)'
    BY <1>1, <2>1 DEF Alone, Open, Closing
  <2>3. pc'[p] # "closed" => Alone(p)'
    <3>1. ring \in ended'
      <4>1. LockUnlock(p) => pc[p] = "lock"
        BY DEF LockUnlock
      <4> QED BY <1>3, <2>1, <4>1 DEF Alone
    <3> QED BY <1>1, <1>4, <2>1, <2>2, <3>1 DEF Alone
  <2>4. \A q \in Provider : Closing(q)' => Alone(q)'
    <3>1. Closing(p)' => pc'[p] # "closed"
      BY DEF Closing
    <3> QED BY <2>2, <2>3, <3>1
  <2>5. \A q \in Provider : pc'[q] \notin {"open", "drain"}
    BY <1>1, <2>2 DEF Open, Closing
  <2>6. ring' # 0 => Closing(p)'
    BY <1>1, <1>4 DEF Closing
  <2>7. ASSUME NEW r \in Ring \cap ended' PROVE opened'[r] = {}
    <3>1. CASE r \in ended
      BY <1>2, <3>1 DEF PoolInv, CrossInv
    <3>2. CASE r \notin ended
      <4>1. r = ring /\ r # 0
        BY <1>5, <3>2
      <4>2. pc[p] = "drain" /\ Whole
        BY <2>1, <3>2, <4>1 DEF Alone, PoolInv, RingInv
      <4> QED BY <1>2, <4>1, <4>2
    <3> QED BY <3>1, <3>2
  <2>8. \A u \in User : upc'[u] # "read"
    BY <1>1, <2>1 DEF Alone
  <2> QED BY <2>4, <2>5, <2>6, <2>7, <2>8 DEF CrossInv
<1> QED BY <1>7, <1>8, <1>9, <1>10, <1>11 DEF PoolInv

\* A provider whose ring no Close has come upon finds it in use.
LEMMA HomeInUse ==
  ASSUME PoolAssumption, TypeOK, PoolInv, NEW p \in Provider, Began(p), home[p] \notin ended
  PROVE  home[p] = ring /\ ring # 0
<1>1. home[p] # 0 /\ size[home[p]] > 0 /\ home[p] \in Ring
  BY DEF TypeOK, PoolInv, ProviderInv, Ring
<1> QED BY <1>1 DEF PoolInv, RingInv

LEMMA ReadStep ==
  ASSUME PoolAssumption, TypeOK, PoolInv, NEW u \in User, NEW p \in Provider, ReadNext(u, p)
  PROVE  PoolInv'
<1> USE PoolAssumption DEF TypeOK
<1>1. /\ UNCHANGED <<ring, slot, size, split, opened, pc, used, made, home, ended>>
      /\ by'[u] = p /\ got'[u] = "none" /\ Began(p)
      /\ \A v \in User \ {u} : /\ upc'[v] = upc[v] /\ next'[v] = next[v]
                               /\ got'[v] = got[v] /\ by'[v] = by[v]
      /\ crossed' = (crossed \/ \E q \in Provider : Closing(q))
  <2>1. /\ UNCHANGED <<ring, slot, size, split, opened, pc, used, made, home, ended>>
        /\ crossed' = (crossed \/ \E q \in Provider : Closing(q))
    BY DEF ReadNext, pool
  <2>2. Began(p)
    BY DEF ReadNext, Began, Closing
  <2>3. by' = [by EXCEPT ![u] = p] /\ got' = [got EXCEPT ![u] = "none"]
    BY DEF ReadNext
  <2>4. \A v \in User \ {u} : upc'[v] = upc[v] /\ next'[v] = next[v]
    BY DEF ReadNext
  <2> QED BY <2>1, <2>2, <2>3, <2>4
<1>2. /\ \A v \in User : upc[v] # "read"
      /\ \A q \in Provider : pc[q] # "creating"
  BY Excluded DEF ReadNext
<1>3. \/ ring = 0 /\ upc'[u] = "panicked" /\ mutex' = mutex
      \/ /\ ring # 0 /\ upc'[u] = "read" /\ mutex' = u
         /\ \E k \in Following : next'[u] = <<ring, k>>
  BY DEF ReadNext
<1>4. LockInv'
  BY <1>1, <1>2, <1>3 DEF LockInv
<1>5. RingInv'
  BY <1>1 DEF PoolInv, RingInv, Whole, Turned
<1>6. ProviderInv'
  BY <1>1 DEF PoolInv, ProviderInv, Began
<1>7. UserInv'
  <2>1. ASSUME NEW v \in User, upc'[v] = "read"
        PROVE  /\ next'[v][2] < size'[next'[v][1]]
               /\ ring' \in {0, next'[v][1]} /\ (ring' = 0 => next'[v][1] \in ended')
               /\ next'[v][1] \notin ended' =>
                    next'[v][2] = (slot' + 1) % size'[next'[v][1]]
    <3>1. v = u /\ ring # 0
      BY <1>1, <1>2, <1>3, <2>1
    <3>2. PICK k \in Following : next'[u] = <<ring, k>>
      BY <1>3, <3>1
    <3>3. k \in 0..(size[ring] - 1) /\ size[ring] \in Nat \ {0}
      BY <3>1, FollowingType, RingFacts
    <3>4. k < size[ring]
      BY <3>3
    <3>5. ring \notin ended => k = (slot + 1) % size[ring]
      BY DEF PoolInv, RingInv, Whole, Following
    <3> QED BY <1>1, <3>1, <3>2, <3>4, <3>5
  <2>2. ASSUME NEW v \in User, NEW q \in Provider, by'[v] = q
        PROVE  /\ Began(q)'
               /\ pc'[q] = "open" /\ (upc'[v] = "panicked" \/ got'[v] = "refusing") =>
                    home'[q] \in ended'
    <3>1. CASE v = u
      <4>1. q = p /\ Began(q)'
        BY <1>1, <2>2, <3>1 DEF Began
      <4>2. upc'[v] = "panicked" => home[q] \in ended
        BY <1>1, <1>3, <3>1, <4>1, HomeInUse
      <4> QED BY <1>1, <3>1, <4>1, <4>2
    <3>2. CASE v # u
      BY <1>1, <2>2, <3>2 DEF PoolInv, UserInv, Began
    <3> QED BY <3>1, <3>2
  <2> QED BY <2>1, <2>2 DEF UserInv
<1>8. CrossInv'
  <2> SUFFICES ASSUME ~crossed' PROVE CrossInv'
    BY DEF CrossInv
  <2>1. ~crossed /\ \A q \in Provider : ~Closing(q) /\ ~Closing(q)'
    BY <1>1 DEF Closing
  <2>2. \A v \in User : upc'[v] = "read" => ring' = next'[v][1]
    BY <1>1, <1>2, <1>3
  <2> QED BY <1>1, <2>1, <2>2 DEF PoolInv, CrossInv
<1> QED BY <1>4, <1>5, <1>6, <1>7, <1>8 DEF PoolInv

\* The connection in turn is the one used longest ago.
LEMMA TurnStep ==
  ASSUME PoolAssumption, TypeOK, ring \in Ring, Whole, NEW k \in Slot,
         slot < size[ring],
         k = IF slot + 1 = size[ring] THEN 0 ELSE slot + 1,
         ring' = ring, slot' = k, size' = size, opened' = opened, split' = split,
         used' = [used EXCEPT ![ring][k] = @ + 1]
  PROVE  Whole'
<1> USE PoolAssumption DEF TypeOK
<1>1. size[ring] \in Nat /\ slot \in 0..(size[ring] - 1) /\ k \in 0..(size[ring] - 1)
  BY DEF Whole, Slot
<1>2. \A i \in opened[ring] : i \in Slot /\ i \in 0..(size[ring] - 1)
  BY DEF Whole
<1>3. \A i \in Slot : used[ring][i] \in Nat
  OBVIOUS
<1>4. /\ used'[ring'][k] = used[ring][k] + 1
      /\ \A i \in Slot \ {k} : used'[ring'][i] = used[ring][i]
  OBVIOUS
<1>5. \A i \in opened[ring] : Turned(i)
  BY DEF Whole
<1>6. ASSUME NEW i \in opened[ring] PROVE Turned(i)'
  <2>1. k \in opened[ring] /\ slot \in opened[ring]
    BY <1>1 DEF Whole
  <2>2. Turned(i) /\ Turned(k)
    BY <1>5, <2>1
  <2>3. i \in Slot /\ i \in 0..(size[ring] - 1) /\ slot \in Slot
    BY <1>2, <2>1
  <2>4. CASE slot + 1 = size[ring]
    <3>1. k = 0 /\ i <= slot /\ k <= slot
      BY <1>1, <2>3, <2>4
    <3>2. used[ring][i] = used[ring][slot] /\ used[ring][k] = used[ring][slot]
      BY <2>2, <3>1 DEF Turned
    <3>3. CASE i = k
      BY <1>1, <3>3 DEF Turned
    <3>4. CASE i # k
      <4>1. ~(i <= k)
        BY <2>3, <3>1, <3>4
      <4>2. used'[ring'][i] = used[ring][slot] /\ used'[ring'][k] = used[ring][slot] + 1
        BY <1>4, <2>3, <3>2, <3>4
      <4>3. used[ring][slot] + 1 - 1 = used[ring][slot]
        BY <1>3, <2>3
      <4> QED BY <4>1, <4>2, <4>3 DEF Turned
    <3> QED BY <3>3, <3>4
  <2>5. CASE slot + 1 # size[ring]
    <3>1. k = slot + 1 /\ ~(k <= slot)
      BY <1>1, <2>5
    <3>2. used[ring][k] = used[ring][slot] - 1
      BY <2>2, <3>1 DEF Turned
    <3>3. CASE i = k
      BY <1>1, <3>3 DEF Turned
    <3>4. CASE i # k
      <4>1. i <= k <=> i <= slot
        BY <1>1, <2>3, <3>1, <3>4
      <4>2. used'[ring'][i] = used[ring][i] /\ used'[ring'][k] = used[ring][slot]
        BY <1>3, <1>4, <2>3, <3>2, <3>4
      <4> QED BY <2>2, <4>1, <4>2 DEF Turned
    <3> QED BY <3>3, <3>4
  <2> QED BY <2>4, <2>5
<1> QED BY <1>1, <1>6 DEF Whole

LEMMA WriteStep ==
  ASSUME PoolAssumption, TypeOK, PoolInv, NEW u \in User, WriteNext(u)
  PROVE  PoolInv'
<1> USE PoolAssumption DEF TypeOK
<1> DEFINE r == next[u][1]
           k == next[u][2]
<1>1. /\ upc[u] = "read" /\ r \in Ring /\ r # 0 /\ k \in Slot /\ k < size[r]
      /\ size[r] \in Nat
      /\ ring \in {0, r} /\ (ring = 0 => r \in ended)
      /\ r \notin ended => k = (slot + 1) % size[r]
  BY DEF WriteNext, PoolInv, UserInv, Ring
<1>2. /\ ring' = r /\ slot' = k
      /\ used' = [used EXCEPT ![r][k] = @ + 1]
      /\ UNCHANGED <<size, split, opened, pc, by, next, made, home, ended, crossed>>
      /\ upc' = [upc EXCEPT ![u] = "idle"] /\ mutex' = Nobody
      /\ got' = [got EXCEPT ![u] = IF k \in opened[r] THEN "working" ELSE "refusing"]
  BY DEF WriteNext
<1> HIDE DEF r, k
<1>3. /\ \A v \in User : upc'[v] # "read"
      /\ \A q \in Provider : pc[q] # "creating"
  BY <1>1, <1>2, Excluded
<1>4. r \notin ended => Whole /\ ring = r /\ Whole'
  <2> SUFFICES ASSUME r \notin ended PROVE Whole /\ ring = r /\ Whole'
    OBVIOUS
  <2>1. ring = r /\ Whole /\ ring # 0
    BY <1>1 DEF PoolInv, RingInv
  <2>2. size[ring] \in Nat \ {0} /\ slot \in 0..(size[ring] - 1)
    BY <2>1, RingFacts
  <2>3. k = IF slot + 1 = size[ring] THEN 0 ELSE slot + 1
    BY <1>1, <2>1, <2>2, NextSlot
  <2>4. slot < size[ring]
    BY <2>2
  <2> QED BY <1>1, <1>2, <2>1, <2>3, <2>4, TurnStep
<1>5. LockInv'
  BY <1>2, <1>3 DEF LockInv
<1>6. RingInv'
  <2>1. \A s \in Ring \ ended : size[s] > 0 => s = r
    BY <1>1, RingFacts DEF PoolInv, RingInv
  <2>2. \A s \in Ring : size[s] = 0 => \A i \in Slot : used'[s][i] = 0
    <3>1. size[r] # 0
      BY <1>1 DEF Slot
    <3>2. \A s \in Ring \ {r} : used'[s] = used[s]
      BY <1>1, <1>2
    <3>3. ASSUME NEW s \in Ring, size[s] = 0 PROVE \A i \in Slot : used'[s][i] = 0
      <4>1. s \in Ring \ {r}
        BY <3>1, <3>3
      <4>2. \A i \in Slot : used[s][i] = 0
        BY <3>3 DEF PoolInv, RingInv
      <4> QED BY <3>2, <4>1, <4>2
    <3> QED BY <3>3
  <2>3. \A s \in Ring : size'[s] = 0 => opened'[s] = {} /\ s \notin split' \cup ended'
    BY <1>2 DEF PoolInv, RingInv
  <2>4. 0 \in ended' /\ (ring' # 0 => slot' < size'[ring'])
    BY <1>1, <1>2 DEF PoolInv, RingInv
  <2>5. ring' \notin ended' => Whole'
    BY <1>2, <1>4
  <2> QED BY <1>2, <2>1, <2>2, <2>3, <2>4, <2>5 DEF RingInv
<1>7. ProviderInv'
  BY <1>2, <1>3 DEF PoolInv, ProviderInv, Began
<1>8. UserInv'
  <2>1. ASSUME NEW q \in Provider, by[u] = q, pc[q] = "open", got'[u] = "refusing"
        PROVE  home[q] \in ended
    <3> SUFFICES ASSUME home[q] \notin ended PROVE FALSE
      OBVIOUS
    <3>1. home[q] = ring /\ ring # 0
      BY <2>1, HomeInUse DEF Began
    <3>2. r \notin ended
      BY <1>1, <3>1
    <3>3. k \in opened[r]
      <4>1. opened[r] = 0..(size[r] - 1)
        BY <1>4, <3>2 DEF Whole
      <4> QED BY <1>1, <4>1 DEF Slot
    <3> QED BY <1>2, <2>1, <3>3
  <2>2. ASSUME NEW v \in User, NEW q \in Provider, by'[v] = q
        PROVE  /\ Began(q)'
               /\ pc'[q] = "open" /\ (upc'[v] = "panicked" \/ got'[v] = "refusing") =>
                    home'[q] \in ended'
    <3>1. CASE v = u
      <4>1. Began(q)' /\ upc'[v] = "idle"
        BY <1>2, <2>2, <3>1 DEF PoolInv, UserInv, Began
      <4> QED BY <1>2, <2>1, <2>2, <3>1, <4>1
    <3>2. CASE v # u
      BY <1>2, <2>2, <3>2 DEF PoolInv, UserInv, Began
    <3> QED BY <3>1, <3>2
  <2> QED BY <1>3, <2>2 DEF UserInv
<1>9. CrossInv'
  <2> SUFFICES ASSUME ~crossed PROVE CrossInv'
    BY <1>2 DEF CrossInv
  <2>1. ring' = ring
    BY <1>1, <1>2 DEF PoolInv, CrossInv, r
  <2>2. \A q \in Provider : ~Closing(q)
    BY <1>1 DEF PoolInv, CrossInv, Alone
  <2>3. \A q \in Provider : ~Closing(q)'
    BY <1>2, <2>2 DEF Closing
  <2> QED BY <1>2, <1>3, <2>1, <2>2, <2>3 DEF PoolInv, CrossInv
<1> QED BY <1>5, <1>6, <1>7, <1>8, <1>9 DEF PoolInv

LEMMA PoolStep ==
  ASSUME PoolAssumption, TypeOK, PoolInv, [Next]_vars
  PROVE  PoolInv'
<1>1. CASE UNCHANGED vars
  BY <1>1 DEF vars, pool, users, PoolInv, LockInv, RingInv, ProviderInv, UserInv, CrossInv,
              Whole, Turned, Began, Alone, Open, Closing
<1> QED BY <1>1, NewStep, ConnectStep, FailStep, BeginCloseStep, CloseStep, ReadStep, WriteStep
        DEF Next, NewNatsProvider, Close, requestConn

\* The types and the pool's invariant hold, whatever providers are open at once.
THEOREM Invariant == Spec => [](TypeOK /\ PoolInv)
<1>1. Init => TypeOK
  <2>1. 0 \in Slot /\ 1 \in Ring /\ 0 \in 0..MaxConns /\ 0 \in 0..MaxRings
    BY PoolAssumption DEF Slot, Ring
  <2> SUFFICES ASSUME Init PROVE TypeOK
    OBVIOUS
  <2>2. /\ used \in [Ring -> [Slot -> Nat]] /\ next \in [User -> Ring \X Slot]
        /\ opened \in [Ring -> SUBSET Slot] /\ size \in [Ring -> 0..MaxConns]
    BY <2>1 DEF Init
  <2>3. /\ home \in [Provider -> 0..MaxRings] /\ ended \subseteq 0..MaxRings
        /\ by \in [User -> Provider \cup {Nobody}]
    BY <2>1 DEF Init
  <2> QED BY <2>1, <2>2, <2>3 DEF Init, TypeOK
<1>2. Init => PoolInv
  BY PoolAssumption DEF Init, PoolInv, LockInv, RingInv, ProviderInv, UserInv, CrossInv,
     Began, Closing, Ring, Slot
<1>3. TypeOK /\ PoolInv /\ [Next]_vars => (TypeOK /\ PoolInv)'
  BY PoolAssumption, TypeStep, PoolStep
<1> QED BY <1>1, <1>2, <1>3, PTL DEF Spec

\* Whoever uses an open provider gets a connection that works, and the
\* connections of a ring are used evenly, until a Close comes upon the ring; for
\* the ring of an open provider that takes a Close which crossed somebody
\* (provider.go:27-75, 114-130, 226-244).
THEOREM OpenProvidersWork == Spec => []OpenWorks
<1>1. TypeOK /\ PoolInv => OpenWorks
  <2> SUFFICES ASSUME TypeOK, PoolInv PROVE OpenWorks
    OBVIOUS
  <2>1. ASSUME NEW r \in Ring \ ended, NEW i \in opened[r], NEW k \in opened[r]
        PROVE  used[r][i] <= used[r][k] + 1
    <3>1. size[r] > 0
      BY <2>1, RingFacts, PoolAssumption DEF PoolInv, RingInv
    <3>2. r = ring /\ Whole
      BY <2>1, <3>1 DEF PoolInv, RingInv
    <3>3. slot \in Slot /\ i \in Slot /\ k \in Slot
      BY <2>1 DEF TypeOK
    <3>4. used[r][i] \in Nat /\ used[r][k] \in Nat /\ used[r][slot] \in Nat
      BY <3>3 DEF TypeOK
    <3> QED BY <2>1, <3>2, <3>4 DEF Whole, Turned
  <2>2. ASSUME NEW u \in User, NEW p \in Provider, by[u] = p, pc[p] = "open",
               upc[u] = "panicked" \/ got[u] = "refusing"
        PROVE  crossed /\ home[p] \in ended
    BY <2>2 DEF PoolInv, UserInv, CrossInv
  <2> QED BY <2>1, <2>2 DEF OpenWorks
<1> QED BY <1>1, Invariant, PTL

\* No connection works outside the ring in use, also after a ring that was only
\* partly made, unless a Close crossed somebody (provider.go:61, 114-130).
THEOREM NothingLeaks == Spec => []NoLeak
<1>1. TypeOK /\ PoolInv => NoLeak
  <2> SUFFICES ASSUME TypeOK, PoolInv, NEW r \in Ring, opened[r] # {}
               PROVE  r = ring \/ (crossed /\ r \in ended)
    BY DEF NoLeak
  <2>1. size[r] > 0
    BY RingFacts, PoolAssumption DEF PoolInv, RingInv
  <2>2. r \notin ended => r = ring
    BY <2>1 DEF PoolInv, RingInv
  <2>3. r \in ended => crossed
    BY DEF PoolInv, CrossInv
  <2> QED BY <2>2, <2>3
<1> QED BY <1>1, Invariant, PTL
=============================================================================
