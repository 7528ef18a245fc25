------------------------- MODULE SubscriptionProofs -------------------------
(***************************************************************************)
(* NoSendOnClosed and NothingAfterUnsubscribe of Subscription, for every   *)
(* number of connections, callers and messages.                            *)
(***************************************************************************)
EXTENDS Subscription, TLAPS

\* The inductive invariant: the closure exists once all subscriptions are
\* made, a caller has removed the subscriptions behind its index for good,
\* and the channel is closed by a caller that is past the last one.
IInv ==
  /\ TypeOK
  /\ \A u \in Caller :
       /\ upc[u] > 0 => made = MaxConns
       /\ \A k \in Sub : k < upc[u] => k \notin live
  /\ channel = "closed" => \E u \in Caller : upc[u] = MaxConns + 2

LEMMA InitIInv == Init => IInv
<1> SUFFICES ASSUME Init PROVE IInv
  OBVIOUS
<1> USE SizesAssumption DEF Init
<1>1. TypeOK
  BY DEF TypeOK
<1>2. QED
  BY <1>1 DEF IInv, Sub

LEMMA NextIInv == IInv /\ [Next]_vars => IInv'
<1> SUFFICES ASSUME IInv, [Next]_vars PROVE IInv'
  OBVIOUS
<1> USE SizesAssumption DEF IInv, TypeOK, Sub
<1>1. CASE ChanQueueSubscribe
  BY <1>1 DEF ChanQueueSubscribe
<1>2. ASSUME NEW u \in Caller, CallUnsub(u) PROVE IInv'
  BY <1>2 DEF CallUnsub
<1>3. ASSUME NEW u \in Caller, UnsubNext(u) PROVE IInv'
  <2>1. upc[u] \in 1..MaxConns /\ upc'[u] = upc[u] + 1 /\ UNCHANGED channel
    BY <1>3 DEF UnsubNext
  <2>2. TypeOK'
    <3>1. upc[u] + 1 \in 0..(MaxConns + 2)
      BY <2>1
    <3>2. upc' \in [Caller -> 0..(MaxConns + 2)]
      BY <1>3, <3>1 DEF UnsubNext
    <3>3. QED
      BY <1>3, <3>2 DEF UnsubNext
  <2>3. \A v \in Caller : /\ upc'[v] > 0 => made' = MaxConns
                         /\ \A k \in Sub : k < upc'[v] => k \notin live'
    BY <1>3, <2>1 DEF UnsubNext
  <2>4. channel' = "closed" => \E v \in Caller : upc'[v] = MaxConns + 2
    BY <1>3, <2>1 DEF UnsubNext
  <2>5. QED
    BY <2>2, <2>3, <2>4
<1>4. ASSUME NEW u \in Caller, CloseMsgs(u) PROVE IInv'
  BY <1>4 DEF CloseMsgs
<1>5. ASSUME NEW k \in Sub, ServerLearns(k) PROVE IInv'
  BY <1>5 DEF ServerLearns
<1>6. ASSUME NEW m \in Msg, Publish(m) PROVE IInv'
  BY <1>6 DEF Publish
<1>7. ASSUME NEW m \in Msg, NEW k \in Sub, Deliver(m, k) PROVE IInv'
  BY <1>7 DEF Deliver
<1>8. CASE RangeMsgs
  BY <1>8 DEF RangeMsgs
<1>9. CASE RangeEnds
  BY <1>9 DEF RangeEnds
<1>10. ASSUME NEW m \in Msg, HandlerReturns(m) PROVE IInv'
  BY <1>10 DEF HandlerReturns
<1>11. CASE UNCHANGED vars
  BY <1>11 DEF vars
<1>12. QED
  BY <1>1, <1>2, <1>3, <1>4, <1>5, <1>6, <1>7, <1>8, <1>9, <1>10, <1>11
     DEF Next, Unsubscribe, Dispatch

\* The invariant holds of every execution.
THEOREM Invariant == Spec => []IInv
BY InitIInv, NextIInv, PTL DEF Spec

\* No message is sent on the closed channel.
THEOREM NeverSendsOnClosed == Spec => []NoSendOnClosed
<1>1. IInv => NoSendOnClosed
  BY SizesAssumption DEF IInv, TypeOK, Sub, NoSendOnClosed
<1>2. QED
  BY <1>1, Invariant, PTL

\* A caller past its last unsub() sees the channel only shrink.
THEOREM SilentAfterUnsubscribe == Spec => NothingAfterUnsubscribe
<1> DEFINE Past == \E u \in Caller : upc[u] > MaxConns
<1>1. ASSUME IInv, Next, Past PROVE Len(msgs') <= Len(msgs)
  <2>1. live = {}
    BY <1>1, SizesAssumption DEF IInv, TypeOK, Sub
  <2>2. ASSUME NEW m \in Msg, NEW k \in Sub, Deliver(m, k)
        PROVE  msgs' = msgs
    BY <2>1, <2>2 DEF Deliver
  <2>3. CASE RangeMsgs
    BY <1>1, <2>3 DEF RangeMsgs, IInv, TypeOK
  <2>4. CASE msgs' = msgs
    BY <1>1, <2>4 DEF IInv, TypeOK
  <2>5. QED
    BY <1>1, <2>2, <2>3, <2>4
       DEF Next, Unsubscribe, Dispatch, ChanQueueSubscribe, CallUnsub,
           UnsubNext, CloseMsgs, ServerLearns, Publish, RangeEnds,
           HandlerReturns
<1>2. IInv /\ [Next]_vars => [Past => Len(msgs') <= Len(msgs)]_vars
  BY <1>1
<1>3. QED
  BY <1>2, Invariant, PTL DEF Spec, NothingAfterUnsubscribe
=============================================================================
